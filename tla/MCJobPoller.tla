---------------------------- MODULE MCJobPoller ----------------------------
(* Instances of JobPoller for TLC. *)
EXTENDS JobPoller, TLC

CONSTANTS r1, r2, j1, j2, none

TwoRunners == {r1, r2}
OneRunner  == {r1}
TwoJobs    == {j1, j2}
OneJob     == {j1}

\* A guarded run with tests of two other kinds; and two runs of which one has
\* no test at all.
GuardedTests == j1 :> <<"preflight", "model_turns", "surface_probe">>
TinyTests    == j1 :> <<"preflight", "model_turns">> @@ j2 :> <<>>

\* Every connector accepts every envelope; or nobody accepts j2's.
AllAccept   == [r \in Runners |-> Jobs]
BadEnvelope == [r \in Runners |-> {j1}]
=============================================================================
