---------------------------- MODULE JobContract ----------------------------
(***************************************************************************)
(* What the job service promises its users, without saying how: a job is   *)
(* granted to at most one runner, only a granted job reaches the target,   *)
(* its tests reach it in order and at most once, and a completed job       *)
(* carries one result for each test that was dispatched and is never       *)
(* touched again.  JobPoller implements this module.                       *)
(***************************************************************************)
EXTENDS Integers, Sequences

CONSTANTS
    Runners,        \* runner processes that poll the same cloud
    Jobs,           \* jobs queued at the cloud
    TestCount,      \* TestCount[j] is the number of tests of job j
    NoRunner        \* the owner of a job nobody has claimed

VARIABLES
    state,          \* state of each job
    owner,          \* the runner a job was granted to
    dispatched,     \* dispatches of each job, in the order the target sees them
    answered        \* number of results stored with a completed job

vars == <<state, owner, dispatched, answered>>

JobStates == {"QUEUED", "RUNNING", "COMPLETED", "FAILED", "RUNNER_OFFLINE"}
Terminal  == {"COMPLETED", "FAILED", "RUNNER_OFFLINE"}
Dispatches == [runner : Runners, test : Nat]

Init ==
    /\ state = [j \in Jobs |-> "QUEUED"]
    /\ owner = [j \in Jobs |-> NoRunner]
    /\ dispatched = [j \in Jobs |-> <<>>]
    /\ answered = [j \in Jobs |-> 0]

(* A queued job is granted to one runner, for good. *)
Claim(r, j) ==
    /\ state[j] = "QUEUED"
    /\ state' = [state EXCEPT ![j] = "RUNNING"]
    /\ owner' = [owner EXCEPT ![j] = r]
    /\ UNCHANGED <<dispatched, answered>>

(* The owner of a job dispatches its next test.  The cloud may meanwhile   *)
(* have written the job off, but it cannot have completed it.              *)
Dispatch(j) ==
    /\ owner[j] # NoRunner
    /\ state[j] # "COMPLETED"
    /\ Len(dispatched[j]) < TestCount[j]
    /\ dispatched' = [dispatched EXCEPT ![j] =
                        Append(@, [runner |-> owner[j], test |-> Len(@) + 1])]
    /\ UNCHANGED <<state, owner, answered>>

(* A running job is completed with one result for each dispatched test. *)
Complete(j) ==
    /\ state[j] = "RUNNING"
    /\ state' = [state EXCEPT ![j] = "COMPLETED"]
    /\ answered' = [answered EXCEPT ![j] = Len(dispatched[j])]
    /\ UNCHANGED <<owner, dispatched>>

(* A job that did not complete fails, before or after it was granted. *)
Fail(j) ==
    /\ state[j] \in {"QUEUED", "RUNNING"}
    /\ state' = [state EXCEPT ![j] = "FAILED"]
    /\ UNCHANGED <<owner, dispatched, answered>>

(* The cloud gives up on a runner that does not answer for its job. *)
GoOffline(j) ==
    /\ state[j] = "RUNNING"
    /\ state' = [state EXCEPT ![j] = "RUNNER_OFFLINE"]
    /\ UNCHANGED <<owner, dispatched, answered>>

Next ==
    \E j \in Jobs :
        \/ \E r \in Runners : Claim(r, j)
        \/ Dispatch(j)
        \/ Complete(j)
        \/ Fail(j)
        \/ GoOffline(j)

Spec == Init /\ [][Next]_vars
=============================================================================
