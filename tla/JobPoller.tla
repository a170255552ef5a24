----------------------------- MODULE JobPoller -----------------------------
(***************************************************************************)
(* The poller thread of each connector process (harness/job_poller.py),    *)
(* the four calls it makes through client.py, and the cloud that answers   *)
(* them.                                                                   *)
(*                                                                         *)
(* An HTTP call is three steps: the runner sends it and waits, the cloud   *)
(* serves it, the runner takes the reply.  The client may raise at any     *)
(* time while it waits (timeout, lost connection, unreadable body); a      *)
(* request it stopped waiting for may still reach the cloud later.  The    *)
(* cloud is not part of the repository: it is modelled from what           *)
(* docs/api-contract.md and the calls in client.py expect of it.           *)
(***************************************************************************)
EXTENDS Integers, Sequences

CONSTANTS
    Runners,            \* connector processes that poll the same cloud
    Jobs,               \* jobs queued at the cloud
    Tests,              \* Tests[j] is the sequence of the kinds of j's tests
    Accepts,            \* Accepts[r] is the set of jobs whose envelope r validates
    ProbesMessagePath,  \* jobs whose preflight probes the message endpoint
    NoJob,              \* no job
    NoRunner            \* the owner of a job nobody has claimed

TestKinds == {"preflight", "model_turns", "enforcement_probe", "surface_probe"}

ASSUME PollerAssumption ==
    /\ Tests \in [Jobs -> Seq(TestKinds)]
    /\ Accepts \in [Runners -> SUBSET Jobs]
    /\ ProbesMessagePath \subseteq Jobs
    /\ NoJob \notin Jobs
    /\ NoRunner \notin Runners

VARIABLES
    \* The cloud.
    state,          \* state of each job
    owner,          \* the runner a job was granted to
    uploaded,       \* the results stored with a completed job
    late,           \* requests their sender stopped waiting for
    \* The target application, as seen by an observer of the run.
    dispatched,     \* tests handed to the target for each job, in order
    baseline,       \* the outcome of each job's preflight
    \* The poller thread of each runner.
    pc,             \* where the thread is
    cur,            \* the job at hand
    next,           \* index of the test at the head of the loop
    results,        \* results gathered for the job
    preflightFailed,
    expired,        \* the overall run timeout has elapsed
    stopEvent,
    begun,          \* jobs and tests taken up since the event was set
    reply,          \* the cloud's answer to the call in flight
    \* What the callbacks of cli.py have been told.
    activeRun,      \* the run shown as active
    lastRun         \* the last run shown as finished, and its success

cloud    == <<state, owner, uploaded>>
target   == <<dispatched, baseline>>
progress == <<next, results, preflightFailed, expired>>
stopping == <<stopEvent, begun>>
observer == <<activeRun, lastRun>>
vars == <<cloud, late, target, pc, cur, progress, stopping, reply, observer>>

JobStates  == {"QUEUED", "RUNNING", "COMPLETED", "FAILED", "RUNNER_OFFLINE"}
Dispatches == [runner : Runners, test : Nat]
Results    == [test : Nat, error : BOOLEAN]
Calling    == {"claiming", "rejecting", "uploading", "failing"}
Idle       == {"poll", "polling", "exited", "killed"}
PCs        == Calling \cup Idle \cup {"setup", "loop", "checked", "testing"}
Replies    == {"none", "ok", "refused"}
Requests   == [op : Calling, runner : Runners, job : Jobs, results : Seq(Results)]

(* The first turn of a preflight, as _preflight_turn_succeeded tells them  *)
(* apart: no turn at all, a reply, a 2xx without an extractable reply, an  *)
(* HTML page, any other status; "raised" when the executor raised.         *)
Turns     == {"no_turn", "reply", "no_reply", "html_shell", "bad_status"}
Baselines == Turns \cup {"unknown", "raised"}

TypeOK ==
    /\ state \in [Jobs -> JobStates]
    /\ owner \in [Jobs -> Runners \cup {NoRunner}]
    /\ uploaded \in [Jobs -> Seq(Results)]
    /\ late \subseteq Requests
    /\ dispatched \in [Jobs -> Seq(Dispatches)]
    /\ baseline \in [Jobs -> Baselines]
    /\ pc \in [Runners -> PCs]
    /\ cur \in [Runners -> Jobs \cup {NoJob}]
    /\ next \in [Runners -> Nat]
    /\ results \in [Runners -> Seq(Results)]
    /\ preflightFailed \in [Runners -> BOOLEAN]
    /\ expired \in [Runners -> BOOLEAN]
    /\ stopEvent \in [Runners -> BOOLEAN]
    /\ begun \in [Runners -> Nat]
    /\ reply \in [Runners -> Replies]
    /\ activeRun \in [Runners -> Jobs \cup {NoJob}]
    /\ lastRun \in [Runners -> [job : Jobs \cup {NoJob}, success : BOOLEAN]]
    /\ \A r \in Runners : pc[r] \notin Idle => cur[r] \in Jobs

Init ==
    /\ state = [j \in Jobs |-> "QUEUED"]
    /\ owner = [j \in Jobs |-> NoRunner]
    /\ uploaded = [j \in Jobs |-> <<>>]
    /\ late = {}
    /\ dispatched = [j \in Jobs |-> <<>>]
    /\ baseline = [j \in Jobs |-> "unknown"]
    /\ pc = [r \in Runners |-> "poll"]
    /\ cur = [r \in Runners |-> NoJob]
    /\ next = [r \in Runners |-> 1]
    /\ results = [r \in Runners |-> <<>>]
    /\ preflightFailed = [r \in Runners |-> FALSE]
    /\ expired = [r \in Runners |-> FALSE]
    /\ stopEvent = [r \in Runners |-> FALSE]
    /\ begun = [r \in Runners |-> 0]
    /\ reply = [r \in Runners |-> "none"]
    /\ activeRun = [r \in Runners |-> NoJob]
    /\ lastRun = [r \in Runners |-> [job |-> NoJob, success |-> FALSE]]

-----------------------------------------------------------------------------
(* Calls and the cloud that serves them.                                   *)

Waiting(r) == pc[r] \in Calling /\ reply[r] = "none"

(* The request a waiting runner has in flight.  Only an upload carries     *)
(* results.                                                                *)
Request(r) == [op |-> pc[r], runner |-> r, job |-> cur[r],
               results |-> IF pc[r] = "uploading" THEN results[r] ELSE <<>>]

(* The runner goes to a call and waits for its reply. *)
Call(r, op) ==
    /\ pc' = [pc EXCEPT ![r] = op]
    /\ reply' = [reply EXCEPT ![r] = "none"]

(* The call returns: the cloud accepted it and the reply could be read. *)
CallReturns(r) == reply[r] = "ok" /\ UNCHANGED late

(* The call raises, whatever became of the request: refused, answered but  *)
(* unreadable, or still on its way.                                        *)
CallRaises(r) == late' = IF Waiting(r) THEN late \cup {Request(r)} ELSE late

(* A claim is granted on a queued job, an upload is stored for the owner   *)
(* of a running job, and a failure is recorded on any unfinished job.      *)
Acceptable(q) ==
    \/ q.op = "claiming" /\ state[q.job] = "QUEUED"
    \/ q.op = "uploading" /\ state[q.job] = "RUNNING" /\ owner[q.job] = q.runner
    \/ q.op \in {"failing", "rejecting"} /\ state[q.job] \in {"QUEUED", "RUNNING"}

Apply(q) ==
    \/ /\ q.op = "claiming"
       /\ state' = [state EXCEPT ![q.job] = "RUNNING"]
       /\ owner' = [owner EXCEPT ![q.job] = q.runner]
       /\ UNCHANGED uploaded
    \/ /\ q.op = "uploading"
       /\ state' = [state EXCEPT ![q.job] = "COMPLETED"]
       /\ uploaded' = [uploaded EXCEPT ![q.job] = q.results]
       /\ UNCHANGED owner
    \/ /\ q.op \in {"failing", "rejecting"}
       /\ state' = [state EXCEPT ![q.job] = "FAILED"]
       /\ UNCHANGED <<owner, uploaded>>

(* The cloud serves the call r waits for. *)
CloudAccepts(r) ==
    /\ Waiting(r)
    /\ Acceptable(Request(r))
    /\ Apply(Request(r))
    /\ reply' = [reply EXCEPT ![r] = "ok"]
    /\ UNCHANGED <<late, target, pc, cur, progress, stopping, observer>>

(* The cloud answers 4xx because it cannot accept the call, or 401, 403 or *)
(* 5xx for reasons of its own.                                             *)
CloudRefuses(r) ==
    /\ Waiting(r)
    /\ reply' = [reply EXCEPT ![r] = "refused"]
    /\ UNCHANGED <<cloud, late, target, pc, cur, progress, stopping, observer>>

(* A request nobody waits for any more reaches the cloud, or is lost. *)
LateRequestArrives(q) ==
    /\ late' = late \ {q}
    /\ \/ Acceptable(q) /\ Apply(q)
       \/ UNCHANGED cloud
    /\ UNCHANGED <<target, pc, cur, progress, stopping, reply, observer>>

(* The cloud gives up on a runner that neither completes nor fails a job. *)
CloudTimesOut(j) ==
    /\ state[j] = "RUNNING"
    /\ state' = [state EXCEPT ![j] = "RUNNER_OFFLINE"]
    /\ UNCHANGED <<owner, uploaded, late, target, pc, cur, progress, stopping,
                   reply, observer>>

-----------------------------------------------------------------------------
(* The poll loop.                                                          *)

(* What has been taken up since the stop event was set. *)
TakeUp(r) == begun' = [begun EXCEPT ![r] = IF stopEvent[r] THEN @ + 1 ELSE @]

\* Faulty: the stop event is not looked at.
CheckIgnoresStop(r) ==
    /\ pc[r] = "poll"
    /\ pc' = [pc EXCEPT ![r] = "polling"]
    /\ UNCHANGED <<cloud, late, target, cur, progress, stopping, reply, observer>>

(* The event is looked at; then the thread waits up to 15 seconds for the  *)
(* answer to poll_jobs, and looks at nothing.                              *)
CheckStop(r) ==
    /\ pc[r] = "poll"
    /\ ~stopEvent[r]
    /\ pc' = [pc EXCEPT ![r] = "polling"]
    /\ UNCHANGED <<cloud, late, target, cur, progress, stopping, reply, observer>>

(* The poll lists j first.  A valid envelope is claimed; an invalid one is *)
(* reported as failed.                                                     *)
Poll(r, j) ==
    /\ pc[r] = "polling"
    /\ state[j] = "QUEUED"
    /\ cur' = [cur EXCEPT ![r] = j]
    /\ Call(r, IF j \in Accepts[r] THEN "claiming" ELSE "rejecting")
    /\ TakeUp(r)
    /\ UNCHANGED <<cloud, late, target, progress, stopEvent, observer>>

(* The poll raises, lists nothing, or lists a job without a safe run id. *)
PollFails(r) ==
    /\ pc[r] = "polling"
    /\ pc' = [pc EXCEPT ![r] = "poll"]
    /\ UNCHANGED <<cloud, late, target, cur, progress, stopping, reply, observer>>

(* The loop ends: a 401 or 403 to the poll, or the stop event. *)
PollUnauthorized(r) ==
    /\ pc[r] = "polling"
    /\ pc' = [pc EXCEPT ![r] = "exited"]
    /\ UNCHANGED <<cloud, late, target, cur, progress, stopping, reply, observer>>

LeaveLoop(r) ==
    /\ pc[r] = "poll"
    /\ stopEvent[r]
    /\ pc' = [pc EXCEPT ![r] = "exited"]
    /\ UNCHANGED <<cloud, late, target, cur, progress, stopping, reply, observer>>

(* The frame of _execute_job is left, and its locals with it. *)
Forget(r) ==
    /\ cur' = [cur EXCEPT ![r] = NoJob]
    /\ next' = [next EXCEPT ![r] = 1]
    /\ results' = [results EXCEPT ![r] = <<>>]
    /\ preflightFailed' = [preflightFailed EXCEPT ![r] = FALSE]
    /\ expired' = [expired EXCEPT ![r] = FALSE]
    /\ reply' = [reply EXCEPT ![r] = "none"]

(* Back to the head of the poll loop. *)
Resume(r) == pc' = [pc EXCEPT ![r] = "poll"] /\ Forget(r)

(* The failure report on an invalid envelope returned or raised; no        *)
(* observer is told.                                                       *)
RejectionReported(r) ==
    /\ pc[r] = "rejecting"
    /\ CallReturns(r) \/ CallRaises(r)
    /\ Resume(r)
    /\ UNCHANGED <<cloud, target, stopping, observer>>

-----------------------------------------------------------------------------
(* Executing a job.                                                        *)

\* Faulty: a refused claim is taken for a granted one.
ClaimGrantedOnConflict(r) ==
    /\ pc[r] = "claiming"
    /\ reply[r] # "none"
    /\ pc' = [pc EXCEPT ![r] = "setup"]
    /\ activeRun' = [activeRun EXCEPT ![r] = cur[r]]
    /\ UNCHANGED <<cloud, late, target, cur, progress, stopping, reply, lastRun>>

ClaimGranted(r) ==
    /\ pc[r] = "claiming"
    /\ CallReturns(r)
    /\ pc' = [pc EXCEPT ![r] = "setup"]
    /\ activeRun' = [activeRun EXCEPT ![r] = cur[r]]
    /\ UNCHANGED <<cloud, target, cur, progress, stopping, reply, lastRun>>

\* Faulty: the thread stays with the job it could not claim.
ClaimFailedStays(r) ==
    /\ pc[r] = "claiming"
    /\ CallRaises(r)
    /\ reply' = [reply EXCEPT ![r] = "refused"]
    /\ UNCHANGED <<cloud, target, pc, cur, progress, stopping, observer>>

(* 409, another refusal or an exception: the job is dropped. *)
ClaimFailed(r) ==
    /\ pc[r] = "claiming"
    /\ CallRaises(r)
    /\ Resume(r)
    /\ UNCHANGED <<cloud, target, stopping, observer>>

SetupFails(r) ==
    /\ pc[r] = "setup"
    /\ Call(r, "failing")
    /\ UNCHANGED <<cloud, late, target, cur, progress, stopping, observer>>

SetupDone(r) ==
    /\ pc[r] = "setup"
    /\ pc' = [pc EXCEPT ![r] = "loop"]
    /\ UNCHANGED <<cloud, late, target, cur, progress, stopping, reply, observer>>

(* time.time() - run_start passes overall_run_timeout_s. *)
RunTimeoutElapses(r) ==
    /\ pc[r] \in {"loop", "checked", "testing"}
    /\ ~expired[r]
    /\ expired' = [expired EXCEPT ![r] = TRUE]
    /\ UNCHANGED <<cloud, late, target, pc, cur, next, results, preflightFailed,
                   stopping, reply, observer>>

HasPreflight(j) == Len(Tests[j]) > 0 /\ Tests[j][1] = "preflight"
IsPreflight(r)  == HasPreflight(cur[r]) /\ next[r] = 1

\* Faulty: the loop goes on after a failed preflight; after the stop event.
MustBreakNoPreflight(r) == stopEvent[r] \/ expired[r]

MustBreakNoStop(r) ==
    \/ HasPreflight(cur[r]) /\ next[r] > 1 /\ preflightFailed[r]
    \/ expired[r]

(* The three early exits of the loop over the tests. *)
MustBreak(r) ==
    \/ stopEvent[r]
    \/ HasPreflight(cur[r]) /\ next[r] > 1 /\ preflightFailed[r]
    \/ expired[r]

(* The next test passes the three checks, which are not made again. *)
NextTest(r) ==
    /\ pc[r] = "loop"
    /\ next[r] <= Len(Tests[cur[r]])
    /\ ~MustBreak(r)
    /\ pc' = [pc EXCEPT ![r] = "checked"]
    /\ UNCHANGED <<cloud, late, target, cur, progress, stopping, reply, observer>>

(* It is handed to the executor. *)
BeginTest(r) ==
    /\ pc[r] = "checked"
    /\ pc' = [pc EXCEPT ![r] = "testing"]
    /\ dispatched' = [dispatched EXCEPT ![cur[r]] =
                        Append(@, [runner |-> r, test |-> next[r]])]
    /\ TakeUp(r)
    /\ UNCHANGED <<cloud, late, baseline, cur, progress, stopEvent, reply, observer>>

(* A preflight passes on a 2xx with a reply, or without one when it does   *)
(* not probe the message endpoint itself.                                  *)
PreflightTurnSucceeded(j, turn) ==
    \/ turn = "reply"
    \/ turn = "no_reply" /\ j \notin ProbesMessagePath

AppendResult(r, error) ==
    /\ results' = [results EXCEPT ![r] = Append(@, [test |-> next[r], error |-> error])]
    /\ next' = [next EXCEPT ![r] = @ + 1]
    /\ pc' = [pc EXCEPT ![r] = "loop"]

(* The preflight returned its turns. *)
PreflightReturns(r, turn) ==
    /\ pc[r] = "testing"
    /\ IsPreflight(r)
    /\ LET failed == ~PreflightTurnSucceeded(cur[r], turn)
       IN  /\ AppendResult(r, failed)
           /\ preflightFailed' = [preflightFailed EXCEPT ![r] = failed]
    /\ baseline' = [baseline EXCEPT ![cur[r]] = turn]
    /\ UNCHANGED <<cloud, late, dispatched, cur, expired, stopping, reply, observer>>

PreflightRaises(r) ==
    /\ pc[r] = "testing"
    /\ IsPreflight(r)
    /\ AppendResult(r, TRUE)
    /\ preflightFailed' = [preflightFailed EXCEPT ![r] = TRUE]
    /\ baseline' = [baseline EXCEPT ![cur[r]] = "raised"]
    /\ UNCHANGED <<cloud, late, dispatched, cur, expired, stopping, reply, observer>>

(* Any other test returned.  A preflight that is not the first test is an  *)
(* ordinary one.                                                           *)
TestReturns(r) ==
    /\ pc[r] = "testing"
    /\ ~IsPreflight(r)
    /\ AppendResult(r, FALSE)
    /\ UNCHANGED <<cloud, late, target, cur, preflightFailed, expired, stopping,
                   reply, observer>>

\* Faulty: a test that raised leaves no result; is tried again.
TestRaisesNoResult(r) ==
    /\ pc[r] = "testing"
    /\ ~IsPreflight(r)
    /\ next' = [next EXCEPT ![r] = @ + 1]
    /\ pc' = [pc EXCEPT ![r] = "loop"]
    /\ UNCHANGED <<cloud, late, target, cur, results, preflightFailed, expired,
                   stopping, reply, observer>>

TestRaisesRetries(r) ==
    /\ pc[r] = "testing"
    /\ ~IsPreflight(r)
    /\ pc' = [pc EXCEPT ![r] = "loop"]
    /\ UNCHANGED <<cloud, late, target, cur, progress, stopping, reply, observer>>

(* A test raised: its result carries the error, except for a surface probe. *)
TestRaises(r) ==
    /\ pc[r] = "testing"
    /\ ~IsPreflight(r)
    /\ AppendResult(r, Tests[cur[r]][next[r]] # "surface_probe")
    /\ UNCHANGED <<cloud, late, target, cur, preflightFailed, expired, stopping,
                   reply, observer>>

LoopDone(r) ==
    /\ pc[r] = "loop"
    /\ next[r] > Len(Tests[cur[r]]) \/ MustBreak(r)

(* Something raises outside the try around a test: the last resort of the  *)
(* poll loop reports a failure, and what was gathered is lost.             *)
Unhandled(r) ==
    /\ pc[r] \in {"checked", "testing"}
    /\ Call(r, "failing")
    /\ UNCHANGED <<cloud, late, target, cur, progress, stopping, observer>>

(* What has been gathered is uploaded, all tests run or not. *)
Upload(r) ==
    /\ LoopDone(r)
    /\ Call(r, "uploading")
    /\ UNCHANGED <<cloud, late, target, cur, progress, stopping, observer>>

(* validate_job_results raises. *)
ResultsInvalid(r) ==
    /\ LoopDone(r)
    /\ Call(r, "failing")
    /\ UNCHANGED <<cloud, late, target, cur, progress, stopping, observer>>

(* The completion callback. *)
Notify(r, success) ==
    /\ activeRun' = [activeRun EXCEPT ![r] = NoJob]
    /\ lastRun' = [lastRun EXCEPT ![r] = [job |-> cur[r], success |-> success]]

UploadDone(r) ==
    /\ pc[r] = "uploading"
    /\ CallReturns(r)
    /\ Notify(r, TRUE)
    /\ Resume(r)
    /\ UNCHANGED <<cloud, target, stopping>>

\* Faulty: a failed upload is shown as a success; the job is forgotten first.
UploadFailsShownDone(r) ==
    /\ pc[r] = "uploading"
    /\ CallRaises(r)
    /\ Notify(r, TRUE)
    /\ Resume(r)
    /\ UNCHANGED <<cloud, target, stopping>>

UploadFailsForgets(r) ==
    /\ pc[r] = "uploading"
    /\ CallRaises(r)
    /\ pc' = [pc EXCEPT ![r] = "failing"]
    /\ Forget(r)
    /\ UNCHANGED <<cloud, target, stopping, observer>>

(* Any exception from the upload is answered with a failure report. *)
UploadFails(r) ==
    /\ pc[r] = "uploading"
    /\ CallRaises(r)
    /\ Call(r, "failing")
    /\ UNCHANGED <<cloud, target, cur, progress, stopping, observer>>

\* Faulty: the observer is not told of a failed job.
FailureReportedUnseen(r) ==
    /\ pc[r] = "failing"
    /\ CallReturns(r) \/ CallRaises(r)
    /\ Resume(r)
    /\ UNCHANGED <<cloud, target, stopping, observer>>

(* The failure report returned or raised; it is not tried again. *)
FailureReported(r) ==
    /\ pc[r] = "failing"
    /\ CallReturns(r) \/ CallRaises(r)
    /\ Notify(r, FALSE)
    /\ Resume(r)
    /\ UNCHANGED <<cloud, target, stopping>>

-----------------------------------------------------------------------------
(* The process around the thread.                                          *)

(* stop() sets the event; the thread looks at it between tests and polls. *)
Stop(r) ==
    /\ pc[r] \notin {"exited", "killed"}
    /\ ~stopEvent[r]
    /\ stopEvent' = [stopEvent EXCEPT ![r] = TRUE]
    /\ UNCHANGED <<cloud, late, target, pc, cur, progress, begun, reply, observer>>

(* The process dies under the thread: a crash, or the end of the process   *)
(* when stop() has waited 10 seconds for this daemon thread.               *)
Kill(r) ==
    /\ pc[r] \notin {"exited", "killed"}
    /\ CallRaises(r)
    /\ pc' = [pc EXCEPT ![r] = "killed"]
    /\ Forget(r)
    /\ activeRun' = [activeRun EXCEPT ![r] = NoJob]
    /\ UNCHANGED <<cloud, target, stopping, lastRun>>

(* The operator starts the connector again: a new thread, a new state. *)
Start(r) ==
    /\ pc[r] \in {"exited", "killed"}
    /\ Resume(r)
    /\ stopEvent' = [stopEvent EXCEPT ![r] = FALSE]
    /\ begun' = [begun EXCEPT ![r] = 0]
    /\ lastRun' = [lastRun EXCEPT ![r] = [job |-> NoJob, success |-> FALSE]]
    /\ UNCHANGED <<cloud, late, target, activeRun>>

-----------------------------------------------------------------------------

(* Steps the thread takes by itself. *)
Thread(r) ==
    \/ \E j \in Jobs : Poll(r, j)
    \/ CheckStop(r) \/ PollFails(r) \/ PollUnauthorized(r) \/ LeaveLoop(r)
    \/ RejectionReported(r)
    \/ ClaimGranted(r) \/ ClaimFailed(r) \/ SetupFails(r) \/ SetupDone(r)
    \/ NextTest(r) \/ BeginTest(r) \/ Unhandled(r)
    \/ \E turn \in Turns : PreflightReturns(r, turn)
    \/ PreflightRaises(r) \/ TestReturns(r) \/ TestRaises(r)
    \/ Upload(r) \/ ResultsInvalid(r) \/ UploadDone(r) \/ UploadFails(r)
    \/ FailureReported(r)

Process(r) == RunTimeoutElapses(r) \/ Stop(r) \/ Kill(r) \/ Start(r)

Cloud ==
    \/ \E r \in Runners : CloudAccepts(r) \/ CloudRefuses(r)
    \/ \E q \in late : LateRequestArrives(q)
    \/ \E j \in Jobs : CloudTimesOut(j)

Next == (\E r \in Runners : Thread(r) \/ Process(r)) \/ Cloud

Spec == Init /\ [][Next]_vars

(* The scheduler runs every thread, and every wait of a thread is bounded: *)
(* calls by the client's timeout, tests by the executor's request timeout. *)
(* The cloud's RUNNER_OFFLINE timer is external.                           *)
Fairness ==
    /\ \A r \in Runners : WF_vars(Thread(r))
    /\ \A j \in Jobs : WF_vars(CloudTimesOut(j))

FairSpec == Spec /\ Fairness

(* Serving a job also needs a cloud that lists each queued job first again *)
(* and again, and a network that does not lose every call.                 *)
ServedFairness ==
    /\ \A r \in Runners : SF_vars(CloudAccepts(r))
    /\ \A r \in Runners, j \in Jobs : SF_vars(Poll(r, j))
-----------------------------------------------------------------------------
(* Properties.                                                             *)

(* Between the start callback and the completion callback. *)
Executing(r) ==
    pc[r] \in {"setup", "loop", "checked", "testing", "uploading", "failing"}

(* However many connectors race for a job, crash, or see their claims      *)
(* arrive late, its tests reach the target from its owner only, in order   *)
(* and each at most once.                                                  *)
EachTestOnceByOwner ==
    \A j \in Jobs : \A k \in 1 .. Len(dispatched[j]) :
        dispatched[j][k] = [runner |-> owner[j], test |-> k]

(* "No adversarial request is dispatched" unless the preflight came back   *)
(* healthy: a test after the preflight has seen a 2xx that is not an HTML  *)
(* page, with a reply where the probe goes to the message endpoint.        *)
Healthy(j) ==
    \/ baseline[j] = "reply"
    \/ baseline[j] = "no_reply" /\ j \notin ProbesMessagePath

PreflightBoundary ==
    \A j \in Jobs : HasPreflight(j) /\ Len(dispatched[j]) > 1 => Healthy(j)

(* The inductive invariant behind EachTestOnceByOwner: a job granted to a  *)
(* thread is owned by its connector, an unowned one has seen no dispatch,  *)
(* and the loop index counts the dispatches of the job at hand.            *)
Granted(r) == Executing(r) \/ (pc[r] = "claiming" /\ reply[r] = "ok")

ExecutionInv ==
    /\ \A r \in Runners : Granted(r) => owner[cur[r]] = r
    /\ \A j \in Jobs : state[j] = "QUEUED" => owner[j] = NoRunner
    /\ \A j \in Jobs : owner[j] = NoRunner => dispatched[j] = <<>>
    /\ \A r \in Runners :
          Granted(r) /\ pc[r] \in {"claiming", "setup"} => dispatched[cur[r]] = <<>>
    /\ \A r \in Runners :
          pc[r] \notin {"loop", "checked", "testing", "uploading", "failing"} => next[r] = 1
    /\ \A r \in Runners :
          pc[r] \in {"loop", "checked"} => next[r] = Len(dispatched[cur[r]]) + 1
    /\ \A r \in Runners : pc[r] = "checked" => next[r] <= Len(Tests[cur[r]])
    /\ \A r \in Runners : pc[r] = "testing" => next[r] = Len(dispatched[cur[r]])
    /\ EachTestOnceByOwner

BaselineFailed(j) ==
    HasPreflight(j) /\ baseline[j] \in {"no_turn", "html_shell", "bad_status", "raised"}

(* A completed job carries one result for each test that was dispatched,   *)
(* in order, and no connector goes on testing it; if its preflight failed,  *)
(* that is the one result, and it has an error.                            *)
CompletedCoversDispatches ==
    \A j \in Jobs :
        state[j] = "COMPLETED" =>
            /\ Len(uploaded[j]) = Len(dispatched[j])
            /\ \A k \in 1 .. Len(uploaded[j]) : uploaded[j][k].test = k
            /\ \A r \in Runners : cur[r] = j => pc[r] \notin {"setup", "loop", "checked", "testing"}
            /\ BaselineFailed(j) => uploaded[j] = <<[test |-> 1, error |-> TRUE]>>

(* A run shown as succeeded is stored as completed at the cloud, from this *)
(* connector's results.  (The converse does not hold: a lost answer to the *)
(* upload is shown as a failure.)                                          *)
SuccessIsCompletion ==
    \A r \in Runners :
        lastRun[r].success =>
            state[lastRun[r].job] = "COMPLETED" /\ owner[lastRun[r].job] = r

(* Every way out of a job tells the observer: the run shown as active is   *)
(* the job being executed, and none is shown otherwise.                    *)
ActiveRunShown ==
    \A r \in Runners : activeRun[r] = IF Executing(r) THEN cur[r] ELSE NoJob

(* A stop lets at most one thing through, which was past its check of the *)
(* event when the event was set: the claim or the rejection of a job       *)
(* whose poll was under way, none of whose tests is then begun, or one     *)
(* test.                                                                   *)
NoWorkAfterStop == \A r \in Runners : begun[r] <= 1

(* The cloud's states and the target's view, read as the contract's. *)
Contract == INSTANCE JobContract WITH
    TestCount <- [j \in Jobs |-> Len(Tests[j])],
    answered  <- [j \in Jobs |-> Len(uploaded[j])]

(* The pollers and their cloud implement the contract of the job service.  *)
ImplementsContract == Contract!Spec

(* A thread that took up a job gets back to its loop or dies: no call and  *)
(* no test keeps it for ever.                                              *)
JobIsLeft ==
    \A r \in Runners : cur[r] # NoJob ~> cur[r] = NoJob

(* A stopped thread ends. *)
StopEndsThread ==
    \A r \in Runners : stopEvent[r] ~> pc[r] \in {"exited", "killed"}

(* A queued job is taken from the queue, unless its connector goes down, by *)
(* connectors that are listed every job and whose calls do not all fail.    *)
JobIsServed ==
    ServedFairness =>
        \A j \in Jobs :
            state[j] = "QUEUED" ~>
                \/ state[j] # "QUEUED"
                \/ \E r \in Runners : pc[r] \in {"exited", "killed"}
=============================================================================
