---------------------------- MODULE JobExecution ----------------------------
(***************************************************************************)
(* The loop of JobPoller._execute_job over the tests of a job: each test is *)
(* run by its kind (model turns, a surface probe or an enforcement probe),  *)
(* one after the other and by one executor, and leaves one result.  What    *)
(* the poller does before and after the loop is in module JobPoller.        *)
(***************************************************************************)
EXTENDS TestExecution, EnforcementProbe

(* paths: how many are to be looked at. *)
SurfaceTests == [kind : {"surface_probe"}, paths : Nat]

EnforcementTests == [kind : {"enforcement_probe"}, probe : Probes]

ASSUME JobAssumption ==
    \A s \in Scenarios :
        s.job \in Seq(ModelTests \cup SurfaceTests \cup EnforcementTests)

jobVars == <<vars, probeVars>>

JobTypeOK == TypeOK /\ ProbeTypeOK

JobInit == Init /\ ProbeInit

IsNext(kind) == at = "between" /\ test <= Len(job) /\ Current.kind = kind

-----------------------------------------------------------------------------
(* Model turns leave the probes alone. *)
ModelTurns == ModelTurnNext /\ UNCHANGED probeVars

(* execute_surface_probe *)
BeginSurfaceProbe ==
    /\ IsNext("surface_probe")
    /\ step' = 0
    /\ at' = IF Current.paths = 0 THEN "got" ELSE "get"
    /\ NoEvidence
    /\ UNCHANGED <<job, target, test, sessionVars, sent, results, probeVars>>

(* A GET without credentials and session; a reply and an error give one     *)
(* observation each, and neither keeps the next path from being tried.      *)
GetPath ==
    /\ at = "get"
    /\ step' = step + 1
    /\ sent' = Append(sent, Request(NoIdentity))
    /\ at' = IF step + 1 < Current.paths THEN "get" ELSE "got"
    /\ UNCHANGED <<job, target, test, sessionVars, results, evidence, probeVars>>

(* The handler of an error reads the path again, and the delay is outside   *)
(* of it: what they raise ends the test with no observation and no error.   *)
SurfaceProbeRaises ==
    /\ at \in {"get", "got"}
    /\ Current.paths # 0
    /\ UNCHANGED upload
    /\ TestOver(0, FALSE, FALSE)
    /\ UNCHANGED probeVars

EndSurfaceProbe ==
    /\ at = "got"
    /\ UNCHANGED upload
    /\ TestOver(step, FALSE, FALSE)
    /\ UNCHANGED probeVars

(* execute_enforcement_probe, or its referenced form once every reference   *)
(* is resolved.  Its requests carry no session and are not among sent.      *)
BeginEnforcementProbe ==
    /\ IsNext("enforcement_probe")
    /\ at' = "probe"
    /\ step' = 0
    /\ ProbeBegins(Current.probe)
    /\ NoEvidence
    /\ UNCHANGED <<job, target, test, sessionVars, sent, results>>

(* A reference that does not resolve ends the test before its first request. *)
ReferenceUnresolved ==
    /\ IsNext("enforcement_probe")
    /\ Current.probe.referenced
    /\ UNCHANGED upload
    /\ TestOver(0, TRUE, FALSE)
    /\ UNCHANGED probeVars

ProbeGoesOn == at = "probe" /\ ProbeStep /\ UNCHANGED vars

EndEnforcementProbe ==
    /\ at = "probe" /\ place = "done"
    /\ UNCHANGED upload
    /\ TestOver(Len(observations), FALSE, FALSE)
    /\ UNCHANGED probeVars

(* The job is over, by its end or by a break between two tests. *)
JobOver == at = "between" /\ UNCHANGED jobVars

JobNext ==
    \/ ModelTurns
    \/ BeginSurfaceProbe \/ GetPath \/ SurfaceProbeRaises \/ EndSurfaceProbe
    \/ BeginEnforcementProbe \/ ReferenceUnresolved \/ ProbeGoesOn \/ EndEnforcementProbe
    \/ JobOver

JobSpec == JobInit /\ [][JobNext]_jobVars

-----------------------------------------------------------------------------
(* Properties.                                                             *)

(* What a test of this kind must report: a turn for each request made, the  *)
(* last one included that got no answer; an observation for each path; and  *)
(* two for each variant, whatever was refused.                              *)
Due(t) ==
    CASE job[t].kind = "model_turns" -> Cardinality({n \in RequestNumbers : sent[n].test = t})
      [] job[t].kind = "surface_probe" -> job[t].paths
      [] job[t].kind = "enforcement_probe" -> 2 * Len(job[t].probe.variants)

(* The results are those of the first tests of the job, one for each and in *)
(* order, and a result without an error reports all that is due, or is the  *)
(* empty one of a surface probe that raised.                               *)
ResultsAreComplete ==
    /\ Len(results) = test - 1
    /\ \A t \in 1 .. Len(results) :
          ~results[t].error =>
              \/ results[t].reported = Due(t)
              \/ job[t].kind = "surface_probe" /\ results[t].reported = 0
=============================================================================
