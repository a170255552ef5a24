-------------------------- MODULE JobPollerProofs --------------------------
(* Theorems about JobPoller for any connectors, jobs and tests. *)
EXTENDS JobPoller, TLAPS

USE DEF Idle

(* What a waiting connector has sent is a well-formed request. *)
LEMMA RequestType ==
    ASSUME TypeOK, NEW r \in Runners, pc[r] \in Calling
    PROVE  Request(r) \in Requests
<1>1. cur[r] \in Jobs
    BY DEF TypeOK, Calling
<1>2. results[r] \in Seq(Results) /\ <<>> \in Seq(Results)
    BY DEF TypeOK
<1>. QED
    BY <1>1, <1>2 DEF Request, Requests

(* A call that raises leaves well-formed late requests behind. *)
LEMMA LateType ==
    ASSUME TypeOK, NEW r \in Runners, CallRaises(r)
    PROVE  late' \subseteq Requests
<1>1. CASE Waiting(r)
    BY <1>1, RequestType DEF CallRaises, Waiting, TypeOK
<1>2. CASE ~Waiting(r)
    BY <1>2 DEF CallRaises, TypeOK
<1>. QED
    BY <1>1, <1>2

(* Accepting a well-formed request keeps the cloud's variables typed. *)
LEMMA ApplyType ==
    ASSUME TypeOK, NEW q \in Requests, Apply(q)
    PROVE  /\ state' \in [Jobs -> JobStates]
           /\ owner' \in [Jobs -> Runners \cup {NoRunner}]
           /\ uploaded' \in [Jobs -> Seq(Results)]
    BY DEF TypeOK, Apply, Requests, JobStates

(* Leaving a job keeps the thread's variables typed. *)
LEMMA ForgetType ==
    ASSUME TypeOK, NEW r \in Runners, Forget(r)
    PROVE  /\ cur' \in [Runners -> Jobs \cup {NoJob}]
           /\ next' \in [Runners -> Nat]
           /\ results' \in [Runners -> Seq(Results)]
           /\ preflightFailed' \in [Runners -> BOOLEAN]
           /\ expired' \in [Runners -> BOOLEAN]
           /\ reply' \in [Runners -> Replies]
           /\ \A s \in Runners \ {r} : cur'[s] = cur[s]
    BY DEF TypeOK, Forget, Replies

(* A result appended to well-formed results is well-formed. *)
LEMMA AppendType ==
    ASSUME TypeOK, NEW r \in Runners, NEW error \in BOOLEAN, AppendResult(r, error)
    PROVE  results' \in [Runners -> Seq(Results)]
<1>1. [test |-> next[r], error |-> error] \in Results
    BY DEF TypeOK, Results
<1>. QED
    BY <1>1 DEF TypeOK, AppendResult

(* Type correctness: every step of every connector, of the cloud and of    *)
(* the network keeps the variables in their types.                         *)
THEOREM TypeCorrect == Spec => []TypeOK
<1>1. Init => TypeOK
    BY PollerAssumption DEF Init, TypeOK, JobStates, Baselines, PCs, Idle, Calling, Replies
<1>2. TypeOK /\ [Next]_vars => TypeOK'
  <2>. SUFFICES ASSUME TypeOK, [Next]_vars
                PROVE  TypeOK'
    OBVIOUS
  <2>. USE DEF JobStates, Baselines, PCs, Idle, Calling, Replies, Results, Dispatches,
               Turns, cloud, target, progress, stopping, observer
  <2>a. ASSUME NEW r \in Runners, Forget(r), late' \subseteq Requests,
               NEW place \in Idle, pc' = [pc EXCEPT ![r] = place],
               UNCHANGED <<cloud, target, stopping>>,
               activeRun' \in [Runners -> Jobs \cup {NoJob}],
               lastRun' \in [Runners -> [job : Jobs \cup {NoJob}, success : BOOLEAN]]
       PROVE  TypeOK'
    <3>1. /\ pc' \in [Runners -> PCs] /\ pc'[r] \in Idle
          /\ \A s \in Runners \ {r} : pc'[s] = pc[s]
      BY <2>a DEF TypeOK
    <3>2. \A s \in Runners : pc'[s] \notin Idle => cur'[s] \in Jobs
      BY <3>1, <2>a, ForgetType DEF TypeOK
    <3>. QED
      BY <2>a, <3>1, <3>2, ForgetType DEF TypeOK
  <2>b. ASSUME NEW r \in Runners, NEW success \in BOOLEAN, Notify(r, success)
       PROVE  /\ activeRun' \in [Runners -> Jobs \cup {NoJob}]
              /\ lastRun' \in [Runners -> [job : Jobs \cup {NoJob}, success : BOOLEAN]]
    BY <2>b DEF Notify, TypeOK
  <2>c. ASSUME NEW r \in Runners, CallReturns(r) \/ CallRaises(r)
       PROVE  late' \subseteq Requests
    BY <2>c, LateType DEF CallReturns, TypeOK
  <2>1. ASSUME NEW r \in Runners, PollUnauthorized(r)
       PROVE  TypeOK'
    BY <2>1 DEF PollUnauthorized, TypeOK
  <2>2. ASSUME NEW r \in Runners, LeaveLoop(r)
       PROVE  TypeOK'
    BY <2>2 DEF LeaveLoop, TypeOK
  <2>3. ASSUME NEW r \in Runners, RejectionReported(r)
       PROVE  TypeOK'
    <3>1. /\ Forget(r) /\ pc' = [pc EXCEPT ![r] = "poll"]
          /\ UNCHANGED <<cloud, target, stopping, observer>>
      BY <2>3 DEF RejectionReported, Resume
    <3>2. late' \subseteq Requests
      BY <2>3, <2>c DEF RejectionReported
    <3>. QED
      BY <3>1, <3>2, <2>a DEF TypeOK
  <2>4. ASSUME NEW r \in Runners, ClaimGranted(r)
       PROVE  TypeOK'
    BY <2>4 DEF ClaimGranted, CallReturns, TypeOK
  <2>5. ASSUME NEW r \in Runners, ClaimFailed(r)
       PROVE  TypeOK'
    <3>1. /\ Forget(r) /\ pc' = [pc EXCEPT ![r] = "poll"]
          /\ UNCHANGED <<cloud, target, stopping, observer>>
      BY <2>5 DEF ClaimFailed, Resume
    <3>2. late' \subseteq Requests
      BY <2>5, <2>c DEF ClaimFailed
    <3>. QED
      BY <3>1, <3>2, <2>a DEF TypeOK
  <2>6. ASSUME NEW r \in Runners, SetupFails(r)
       PROVE  TypeOK'
    BY <2>6 DEF SetupFails, Call, TypeOK
  <2>7. ASSUME NEW r \in Runners, SetupDone(r)
       PROVE  TypeOK'
    BY <2>7 DEF SetupDone, TypeOK
  <2>8. ASSUME NEW r \in Runners, BeginTest(r)
       PROVE  TypeOK'
    <3>1. cur[r] \in Jobs /\ [runner |-> r, test |-> next[r]] \in Dispatches
      BY <2>8 DEF BeginTest, TypeOK
    <3>2. dispatched' \in [Jobs -> Seq(Dispatches)]
      BY <2>8, <3>1 DEF BeginTest, TypeOK
    <3>. QED
      BY <2>8, <3>2 DEF BeginTest, TakeUp, TypeOK
  <2>9. ASSUME NEW r \in Runners, PreflightRaises(r)
       PROVE  TypeOK'
    <3>1. AppendResult(r, TRUE)
      BY <2>9 DEF PreflightRaises
    <3>2. results' \in [Runners -> Seq(Results)]
      BY <3>1, AppendType
    <3>3. next' \in [Runners -> Nat] /\ pc' \in [Runners -> PCs]
          /\ \A s \in Runners \ {r} : pc'[s] = pc[s]
      BY <3>1 DEF AppendResult, TypeOK
    <3>4. preflightFailed' \in [Runners -> BOOLEAN] /\ baseline' \in [Jobs -> Baselines]
      BY <2>9 DEF PreflightRaises, TypeOK
    <3>5. cur[r] \in Jobs
          /\ UNCHANGED <<cloud, late, dispatched, cur, expired, stopping, reply, observer>>
      BY <2>9 DEF PreflightRaises, TypeOK
    <3>. QED
      BY <3>2, <3>3, <3>4, <3>5 DEF TypeOK
  <2>10. ASSUME NEW r \in Runners, TestReturns(r)
       PROVE  TypeOK'
    BY <2>10 DEF TestReturns, AppendResult, TypeOK
  <2>11. ASSUME NEW r \in Runners, TestRaises(r)
       PROVE  TypeOK'
    BY <2>11 DEF TestRaises, AppendResult, TypeOK
  <2>12. ASSUME NEW r \in Runners, Upload(r)
       PROVE  TypeOK'
    BY <2>12 DEF Upload, Call, LoopDone, TypeOK
  <2>13. ASSUME NEW r \in Runners, ResultsInvalid(r)
       PROVE  TypeOK'
    BY <2>13 DEF ResultsInvalid, Call, LoopDone, TypeOK
  <2>14. ASSUME NEW r \in Runners, UploadDone(r)
       PROVE  TypeOK'
    <3>1. /\ Forget(r) /\ pc' = [pc EXCEPT ![r] = "poll"]
          /\ UNCHANGED <<cloud, target, stopping>>
      BY <2>14 DEF UploadDone, Resume
    <3>2. late' \subseteq Requests
      BY <2>14, <2>c DEF UploadDone
    <3>3. Notify(r, TRUE)
      BY <2>14 DEF UploadDone
    <3>. QED
      BY <3>1, <3>2, <3>3, <2>a, <2>b
  <2>15. ASSUME NEW r \in Runners, UploadFails(r)
       PROVE  TypeOK'
    BY <2>15, LateType DEF UploadFails, Call, TypeOK
  <2>16. ASSUME NEW r \in Runners, FailureReported(r)
       PROVE  TypeOK'
    <3>1. /\ Forget(r) /\ pc' = [pc EXCEPT ![r] = "poll"]
          /\ UNCHANGED <<cloud, target, stopping>>
      BY <2>16 DEF FailureReported, Resume
    <3>2. late' \subseteq Requests
      BY <2>16, <2>c DEF FailureReported
    <3>3. Notify(r, FALSE)
      BY <2>16 DEF FailureReported
    <3>. QED
      BY <3>1, <3>2, <3>3, <2>a, <2>b
  <2>17. ASSUME NEW r \in Runners, RunTimeoutElapses(r)
       PROVE  TypeOK'
    BY <2>17 DEF RunTimeoutElapses, TypeOK
  <2>18. ASSUME NEW r \in Runners, Stop(r)
       PROVE  TypeOK'
    BY <2>18 DEF Stop, TypeOK
  <2>19. ASSUME NEW r \in Runners, Kill(r)
       PROVE  TypeOK'
    <3>1. /\ Forget(r) /\ pc' = [pc EXCEPT ![r] = "killed"]
          /\ UNCHANGED <<cloud, target, stopping>>
      BY <2>19 DEF Kill
    <3>2. late' \subseteq Requests
      BY <2>19, <2>c DEF Kill
    <3>3. activeRun' \in [Runners -> Jobs \cup {NoJob}] /\ UNCHANGED lastRun
      BY <2>19 DEF Kill, TypeOK
    <3>. QED
      BY <3>1, <3>2, <3>3, <2>a DEF TypeOK
  <2>20. ASSUME NEW r \in Runners, Start(r)
       PROVE  TypeOK'
    BY <2>20, ForgetType DEF Start, Resume, TypeOK
  <2>21. ASSUME NEW r \in Runners, CloudAccepts(r)
       PROVE  TypeOK'
    BY <2>21, RequestType, ApplyType DEF CloudAccepts, TypeOK, Waiting
  <2>22. ASSUME NEW r \in Runners, CloudRefuses(r)
       PROVE  TypeOK'
    BY <2>22 DEF CloudRefuses, TypeOK
  <2>23. ASSUME NEW r \in Runners, NEW j \in Jobs, Poll(r, j)
       PROVE  TypeOK'
    BY <2>23 DEF Poll, TakeUp, TypeOK, Call
  <2>24. ASSUME NEW r \in Runners, NEW turn \in Turns, PreflightReturns(r, turn)
       PROVE  TypeOK'
    <3>. DEFINE failed == ~PreflightTurnSucceeded(cur[r], turn)
    <3>1. failed \in BOOLEAN
      BY DEF PreflightTurnSucceeded
    <3>2. AppendResult(r, failed)
      BY <2>24 DEF PreflightReturns
    <3>3. preflightFailed' = [preflightFailed EXCEPT ![r] = failed]
      BY <2>24 DEF PreflightReturns
    <3>4. pc[r] = "testing" /\ baseline' = [baseline EXCEPT ![cur[r]] = turn]
          /\ UNCHANGED <<cloud, late, dispatched, cur, expired, stopping, reply, observer>>
      BY <2>24 DEF PreflightReturns
    <3>. HIDE DEF failed
    <3>5. results' \in [Runners -> Seq(Results)]
      BY <3>1, <3>2, AppendType
    <3>6. /\ next' \in [Runners -> Nat] /\ pc' \in [Runners -> PCs]
          /\ \A s \in Runners \ {r} : pc'[s] = pc[s]
      BY <3>2 DEF AppendResult, TypeOK
    <3>7. cur[r] \in Jobs
      BY <3>4 DEF TypeOK
    <3>8. /\ preflightFailed' \in [Runners -> BOOLEAN] /\ baseline' \in [Jobs -> Baselines]
      BY <3>1, <3>3, <3>4, <3>7 DEF TypeOK
    <3>. QED
      BY <3>4, <3>5, <3>6, <3>7, <3>8 DEF TypeOK
  <2>25. ASSUME NEW q \in late, LateRequestArrives(q)
       PROVE  TypeOK'
    BY <2>25, ApplyType DEF LateRequestArrives, TypeOK
  <2>26. ASSUME NEW j \in Jobs, CloudTimesOut(j)
       PROVE  TypeOK'
    BY <2>26 DEF CloudTimesOut, TypeOK
  <2>28. ASSUME NEW r \in Runners, CheckStop(r)
       PROVE  TypeOK'
    BY <2>28 DEF CheckStop, TypeOK
  <2>29. ASSUME NEW r \in Runners, PollFails(r)
       PROVE  TypeOK'
    BY <2>29 DEF PollFails, TypeOK
  <2>30. ASSUME NEW r \in Runners, NextTest(r)
       PROVE  TypeOK'
    BY <2>30 DEF NextTest, TypeOK
  <2>31. ASSUME NEW r \in Runners, Unhandled(r)
       PROVE  TypeOK'
    BY <2>31 DEF Unhandled, Call, TypeOK
  <2>27. CASE UNCHANGED vars
    BY <2>27 DEF vars, TypeOK
  <2>. QED
    BY <2>1, <2>2, <2>3, <2>4, <2>5, <2>6, <2>7, <2>8, <2>9, <2>10, <2>11, <2>12, <2>13, <2>14, <2>15, <2>16, <2>17, <2>18, <2>19, <2>20, <2>21, <2>22, <2>23, <2>24, <2>25, <2>26, <2>27, <2>28, <2>29, <2>30, <2>31
       DEF Next, Thread, Process, Cloud
<1>. QED
    BY <1>1, <1>2, PTL DEF Spec

(* A thread that was granted a job holds a job its connector owns. *)
LEMMA GrantedOwner ==
    ASSUME TypeOK, ExecutionInv, NEW s \in Runners, Granted(s)
    PROVE  cur[s] \in Jobs /\ owner[cur[s]] = s /\ owner[cur[s]] # NoRunner
<1>1. pc[s] \notin Idle
    BY DEF Granted, Executing, Idle
<1>2. cur[s] \in Jobs
    BY <1>1 DEF TypeOK
<1>. QED
    BY <1>2, PollerAssumption DEF ExecutionInv

(* What a request the cloud accepts does to ownership: a job keeps its     *)
(* owner, a queued one has none, and a claim gives an unowned job away.    *)
LEMMA CloudStep ==
    ASSUME TypeOK, ExecutionInv, NEW q \in Requests, Acceptable(q), Apply(q)
    PROVE  /\ \A j \in Jobs : owner[j] # NoRunner => owner'[j] = owner[j]
           /\ \A j \in Jobs : state'[j] = "QUEUED" => owner'[j] = NoRunner
           /\ \A j \in Jobs : owner'[j] = NoRunner => owner[j] = NoRunner
           /\ q.op = "claiming" => owner'[q.job] = q.runner /\ owner[q.job] = NoRunner
    BY PollerAssumption DEF TypeOK, ExecutionInv, Acceptable, Apply, Requests

(* The execution invariant is inductive. *)
LEMMA ExecutionInvStep ==
    ASSUME TypeOK, ExecutionInv, [Next]_vars
    PROVE  ExecutionInv'
<1>. USE DEF ExecutionInv, EachTestOnceByOwner, Granted, Executing,
             cloud, target, progress, stopping, observer
<1>1. ASSUME NEW r \in Runners, PollUnauthorized(r)
     PROVE  ExecutionInv'
    BY <1>1 DEF TypeOK, PollUnauthorized
<1>2. ASSUME NEW r \in Runners, LeaveLoop(r)
     PROVE  ExecutionInv'
    BY <1>2 DEF TypeOK, LeaveLoop
<1>3. ASSUME NEW r \in Runners, RejectionReported(r)
     PROVE  ExecutionInv'
    BY <1>3 DEF TypeOK, RejectionReported, Resume, Forget
<1>4. ASSUME NEW r \in Runners, ClaimGranted(r)
     PROVE  ExecutionInv'
    BY <1>4 DEF TypeOK, ClaimGranted, CallReturns
<1>5. ASSUME NEW r \in Runners, ClaimFailed(r)
     PROVE  ExecutionInv'
    BY <1>5 DEF TypeOK, ClaimFailed, Resume, Forget
<1>6. ASSUME NEW r \in Runners, SetupFails(r)
     PROVE  ExecutionInv'
    BY <1>6 DEF TypeOK, SetupFails, Call
<1>7. ASSUME NEW r \in Runners, SetupDone(r)
     PROVE  ExecutionInv'
  <2>1. next[r] = 1 /\ dispatched[cur[r]] = <<>> /\ pc' = [pc EXCEPT ![r] = "loop"]
        /\ UNCHANGED <<state, owner, dispatched, cur, next, reply>>
    BY <1>7 DEF SetupDone
  <2>2. next[r] = Len(dispatched[cur[r]]) + 1
    BY <2>1
  <2>3. \A s \in Runners \ {r} : pc'[s] = pc[s]
    BY <2>1 DEF TypeOK
  <2>4. pc[r] = "setup" /\ pc'[r] = "loop"
    BY <1>7 DEF SetupDone, TypeOK
  <2>. QED
    BY <2>1, <2>2, <2>3, <2>4
<1>8. ASSUME NEW r \in Runners, BeginTest(r)
     PROVE  ExecutionInv'
  <2>. DEFINE j == cur[r]  d == [runner |-> r, test |-> next[r]]
  <2>1. /\ j \in Jobs /\ owner[j] = r /\ r # NoRunner
        /\ next[r] \in Nat /\ next[r] = Len(dispatched[j]) + 1
        /\ dispatched[j] \in Seq(Dispatches)
    BY <1>8, PollerAssumption DEF BeginTest, TypeOK
  <2>2. /\ pc' = [pc EXCEPT ![r] = "testing"]
        /\ dispatched' = [dispatched EXCEPT ![j] = Append(@, d)]
        /\ UNCHANGED <<state, owner, cur, next, reply>>
    BY <1>8 DEF BeginTest
  <2>3. d \in Dispatches
    BY <2>1 DEF Dispatches
  <2>4. /\ \A k \in Jobs \ {j} : dispatched'[k] = dispatched[k]
        /\ dispatched'[j] = Append(dispatched[j], d)
    BY <2>1, <2>2 DEF TypeOK
  <2>. HIDE DEF d
  <2>5. /\ Len(dispatched'[j]) = next[r]
        /\ dispatched'[j][next[r]] = d
        /\ \A k \in 1 .. Len(dispatched[j]) : dispatched'[j][k] = dispatched[j][k]
    BY <2>1, <2>3, <2>4
  <2>6. EachTestOnceByOwner'
    <3>1. \A k \in 1 .. Len(dispatched'[j]) :
            dispatched'[j][k] = [runner |-> owner[j], test |-> k]
      BY <2>1, <2>5 DEF d
    <3>. QED
      BY <2>2, <2>4, <3>1
  <2>7. \A s \in Runners \ {r} : Granted(s) => cur[s] # j
    BY <2>1
  <2>8. \A s \in Runners \ {r} : pc'[s] = pc[s]
    BY <2>2 DEF TypeOK
  <2>9. pc[r] = "checked" /\ pc'[r] = "testing"
    BY <1>8, <2>2 DEF BeginTest, TypeOK
  <2>10. \A s \in Runners \ {r} : Granted(s) => cur[s] \in Jobs \ {j}
    BY <2>7 DEF TypeOK
  <2>. QED
    BY <2>1, <2>2, <2>4, <2>5, <2>6, <2>8, <2>9, <2>10
<1>9. ASSUME NEW r \in Runners, PreflightRaises(r)
     PROVE  ExecutionInv'
  <2>1. /\ pc[r] = "testing" /\ next' = [next EXCEPT ![r] = @ + 1]
        /\ pc' = [pc EXCEPT ![r] = "loop"]
        /\ UNCHANGED <<state, owner, dispatched, cur, reply>>
    BY <1>9 DEF PreflightRaises, AppendResult
  <2>. QED
    BY <2>1 DEF TypeOK
<1>10. ASSUME NEW r \in Runners, TestReturns(r)
     PROVE  ExecutionInv'
  <2>1. /\ pc[r] = "testing" /\ next' = [next EXCEPT ![r] = @ + 1]
        /\ pc' = [pc EXCEPT ![r] = "loop"]
        /\ UNCHANGED <<state, owner, dispatched, cur, reply>>
    BY <1>10 DEF TestReturns, AppendResult
  <2>. QED
    BY <2>1 DEF TypeOK
<1>11. ASSUME NEW r \in Runners, TestRaises(r)
     PROVE  ExecutionInv'
  <2>1. /\ pc[r] = "testing" /\ next' = [next EXCEPT ![r] = @ + 1]
        /\ pc' = [pc EXCEPT ![r] = "loop"]
        /\ UNCHANGED <<state, owner, dispatched, cur, reply>>
    BY <1>11 DEF TestRaises, AppendResult
  <2>. QED
    BY <2>1 DEF TypeOK
<1>12. ASSUME NEW r \in Runners, Upload(r)
     PROVE  ExecutionInv'
    BY <1>12 DEF TypeOK, Upload, Call, LoopDone
<1>13. ASSUME NEW r \in Runners, ResultsInvalid(r)
     PROVE  ExecutionInv'
    BY <1>13 DEF TypeOK, ResultsInvalid, Call, LoopDone
<1>14. ASSUME NEW r \in Runners, UploadDone(r)
     PROVE  ExecutionInv'
    BY <1>14 DEF TypeOK, UploadDone, Resume, Forget, Notify
<1>15. ASSUME NEW r \in Runners, UploadFails(r)
     PROVE  ExecutionInv'
    BY <1>15 DEF TypeOK, UploadFails, Call
<1>16. ASSUME NEW r \in Runners, FailureReported(r)
     PROVE  ExecutionInv'
    BY <1>16 DEF TypeOK, FailureReported, Resume, Forget, Notify
<1>17. ASSUME NEW r \in Runners, RunTimeoutElapses(r)
     PROVE  ExecutionInv'
    BY <1>17 DEF TypeOK, RunTimeoutElapses
<1>18. ASSUME NEW r \in Runners, Stop(r)
     PROVE  ExecutionInv'
    BY <1>18 DEF TypeOK, Stop
<1>19. ASSUME NEW r \in Runners, Kill(r)
     PROVE  ExecutionInv'
    BY <1>19 DEF TypeOK, Kill, Forget
<1>20. ASSUME NEW r \in Runners, Start(r)
     PROVE  ExecutionInv'
    BY <1>20 DEF TypeOK, Start, Resume, Forget
<1>21. ASSUME NEW r \in Runners, CloudRefuses(r)
     PROVE  ExecutionInv'
    BY <1>21 DEF TypeOK, CloudRefuses, Waiting
<1>22. ASSUME NEW r \in Runners, NEW j \in Jobs, Poll(r, j)
     PROVE  ExecutionInv'
    BY <1>22 DEF TypeOK, Poll, Call
<1>23. ASSUME NEW r \in Runners, NEW turn \in Turns, PreflightReturns(r, turn)
     PROVE  ExecutionInv'
  <2>1. /\ pc[r] = "testing" /\ next' = [next EXCEPT ![r] = @ + 1]
        /\ pc' = [pc EXCEPT ![r] = "loop"]
        /\ UNCHANGED <<state, owner, dispatched, cur, reply>>
    BY <1>23 DEF PreflightReturns, AppendResult
  <2>. QED
    BY <2>1 DEF TypeOK
<1>24. ASSUME NEW r \in Runners, CloudAccepts(r)
     PROVE  ExecutionInv'
  <2>1. Request(r) \in Requests /\ pc[r] \in Calling /\ reply[r] = "none"
    BY <1>24, RequestType DEF CloudAccepts, Waiting
  <2>2. /\ \A j \in Jobs : owner[j] # NoRunner => owner'[j] = owner[j]
        /\ \A j \in Jobs : state'[j] = "QUEUED" => owner'[j] = NoRunner
        /\ \A j \in Jobs : owner'[j] = NoRunner => owner[j] = NoRunner
        /\ pc[r] = "claiming" => owner'[cur[r]] = r /\ owner[cur[r]] = NoRunner
    BY <1>24, <2>1, CloudStep DEF CloudAccepts, Request
  <2>3. /\ UNCHANGED <<pc, cur, next, dispatched>>
        /\ reply' = [reply EXCEPT ![r] = "ok"]
    BY <1>24 DEF CloudAccepts
  <2>4. \A s \in Runners : Granted(s)' => Granted(s) \/ (s = r /\ pc[r] = "claiming")
    BY <2>3 DEF TypeOK
  <2>5. \A s \in Runners : Granted(s) => cur[s] \in Jobs /\ owner'[cur[s]] = s
    BY <2>2, GrantedOwner
  <2>6. cur[r] \in Jobs
    BY <2>1 DEF TypeOK, Calling
  <2>7. \A j \in Jobs : dispatched[j] # <<>> => owner'[j] = owner[j]
    BY <2>2
  <2>8. EachTestOnceByOwner'
    BY <2>3, <2>7 DEF TypeOK
  <2>. QED
    BY <2>2, <2>3, <2>4, <2>5, <2>6, <2>8
<1>25. ASSUME NEW q \in late, LateRequestArrives(q)
     PROVE  ExecutionInv'
  <2>1. q \in Requests /\ UNCHANGED <<pc, cur, next, dispatched, reply>>
    BY <1>25 DEF TypeOK, LateRequestArrives
  <2>2. CASE UNCHANGED cloud
    BY <2>1, <2>2
  <2>3. CASE Acceptable(q) /\ Apply(q)
    <3>1. /\ \A j \in Jobs : owner[j] # NoRunner => owner'[j] = owner[j]
          /\ \A j \in Jobs : state'[j] = "QUEUED" => owner'[j] = NoRunner
          /\ \A j \in Jobs : owner'[j] = NoRunner => owner[j] = NoRunner
      BY <2>1, <2>3, CloudStep
    <3>2. \A s \in Runners : Granted(s) => cur[s] \in Jobs /\ owner'[cur[s]] = s
      BY <3>1, GrantedOwner
    <3>3. \A j \in Jobs : dispatched[j] # <<>> => owner'[j] = owner[j]
      BY <3>1
    <3>4. EachTestOnceByOwner'
      BY <2>1, <3>3 DEF TypeOK
    <3>. QED
      BY <2>1, <3>1, <3>2, <3>4
  <2>. QED
    BY <1>25, <2>2, <2>3 DEF LateRequestArrives
<1>26. ASSUME NEW j \in Jobs, CloudTimesOut(j)
     PROVE  ExecutionInv'
    BY <1>26 DEF TypeOK, CloudTimesOut
<1>28. ASSUME NEW r \in Runners, CheckStop(r)
     PROVE  ExecutionInv'
    BY <1>28 DEF TypeOK, CheckStop
<1>29. ASSUME NEW r \in Runners, PollFails(r)
     PROVE  ExecutionInv'
    BY <1>29 DEF TypeOK, PollFails
<1>30. ASSUME NEW r \in Runners, NextTest(r)
     PROVE  ExecutionInv'
    BY <1>30 DEF TypeOK, NextTest
<1>31. ASSUME NEW r \in Runners, Unhandled(r)
     PROVE  ExecutionInv'
    BY <1>31 DEF TypeOK, Unhandled, Call
<1>27. CASE UNCHANGED vars
    BY <1>27 DEF vars
<1>. QED
    BY <1>1, <1>2, <1>3, <1>4, <1>5, <1>6, <1>7, <1>8, <1>9, <1>10, <1>11, <1>12, <1>13, <1>14, <1>15, <1>16, <1>17, <1>18, <1>19, <1>20, <1>21, <1>22, <1>23, <1>24, <1>25, <1>26, <1>27, <1>28, <1>29, <1>30, <1>31
       DEF Next, Thread, Process, Cloud

(* However connectors race, crash and restart, a job's tests reach the     *)
(* target from its owner only, in order and each at most once.             *)
THEOREM SingleExecution == Spec => []EachTestOnceByOwner
<1>1. Init => ExecutionInv
    BY PollerAssumption DEF Init, ExecutionInv, EachTestOnceByOwner, Granted, Executing
<1>2. TypeOK /\ ExecutionInv /\ [Next]_vars => ExecutionInv'
    BY ExecutionInvStep
<1>3. ExecutionInv => EachTestOnceByOwner
    BY DEF ExecutionInv
<1>. QED
    BY <1>1, <1>2, <1>3, TypeCorrect, PTL DEF Spec

(* Between the answer to an upload and the end of the job, the job is      *)
(* completed; what was shown as a success stays completed.                 *)
SuccessInv ==
    /\ \A r \in Runners :
          pc[r] = "uploading" /\ reply[r] = "ok" => state[cur[r]] = "COMPLETED"
    /\ \A r \in Runners : lastRun[r].success => lastRun[r].job \in Jobs
    /\ SuccessIsCompletion

(* A loop that has passed its preflight has seen it healthy, or is about   *)
(* to break.                                                               *)
PreflightInv ==
    /\ \A r \in Runners :
          pc[r] \in {"loop", "checked", "testing"} /\ HasPreflight(cur[r]) /\ next[r] > 1
              => preflightFailed[r] \/ Healthy(cur[r])
    /\ \A r \in Runners :
          pc[r] \in {"checked", "testing"} /\ HasPreflight(cur[r]) /\ next[r] > 1
              => ~preflightFailed[r]
    /\ PreflightBoundary

(* A completed job stays completed, with its owner. *)
LEMMA CompletedStays ==
    ASSUME TypeOK, NEW q \in Requests, Acceptable(q), Apply(q)
    PROVE  \A j \in Jobs : state[j] = "COMPLETED" =>
               state'[j] = "COMPLETED" /\ owner'[j] = owner[j]
    BY DEF TypeOK, Acceptable, Apply, Requests

(* The success invariant is inductive. *)
LEMMA SuccessInvStep ==
    ASSUME TypeOK, ExecutionInv, SuccessInv, [Next]_vars
    PROVE  SuccessInv'
<1>. USE DEF SuccessInv, SuccessIsCompletion, cloud, target, progress, stopping, observer
<1>1. ASSUME NEW r \in Runners, PollUnauthorized(r)
     PROVE  SuccessInv'
    BY <1>1 DEF TypeOK, PollUnauthorized
<1>2. ASSUME NEW r \in Runners, LeaveLoop(r)
     PROVE  SuccessInv'
    BY <1>2 DEF TypeOK, LeaveLoop
<1>3. ASSUME NEW r \in Runners, RejectionReported(r)
     PROVE  SuccessInv'
    BY <1>3 DEF TypeOK, RejectionReported, Resume, Forget
<1>4. ASSUME NEW r \in Runners, ClaimGranted(r)
     PROVE  SuccessInv'
    BY <1>4 DEF TypeOK, ClaimGranted, CallReturns
<1>5. ASSUME NEW r \in Runners, ClaimFailed(r)
     PROVE  SuccessInv'
    BY <1>5 DEF TypeOK, ClaimFailed, Resume, Forget
<1>6. ASSUME NEW r \in Runners, SetupFails(r)
     PROVE  SuccessInv'
    BY <1>6 DEF TypeOK, SetupFails, Call
<1>7. ASSUME NEW r \in Runners, SetupDone(r)
     PROVE  SuccessInv'
    BY <1>7 DEF TypeOK, SetupDone
<1>8. ASSUME NEW r \in Runners, BeginTest(r)
     PROVE  SuccessInv'
    BY <1>8 DEF TypeOK, BeginTest
<1>9. ASSUME NEW r \in Runners, PreflightRaises(r)
     PROVE  SuccessInv'
    BY <1>9 DEF TypeOK, PreflightRaises, AppendResult
<1>10. ASSUME NEW r \in Runners, TestReturns(r)
     PROVE  SuccessInv'
    BY <1>10 DEF TypeOK, TestReturns, AppendResult
<1>11. ASSUME NEW r \in Runners, TestRaises(r)
     PROVE  SuccessInv'
    BY <1>11 DEF TypeOK, TestRaises, AppendResult
<1>12. ASSUME NEW r \in Runners, Upload(r)
     PROVE  SuccessInv'
    BY <1>12 DEF TypeOK, Upload, Call, LoopDone
<1>13. ASSUME NEW r \in Runners, ResultsInvalid(r)
     PROVE  SuccessInv'
    BY <1>13 DEF TypeOK, ResultsInvalid, Call, LoopDone
<1>14. ASSUME NEW r \in Runners, UploadDone(r)
     PROVE  SuccessInv'
  <2>1. Granted(r) /\ pc[r] = "uploading" /\ reply[r] = "ok"
    BY <1>14 DEF UploadDone, CallReturns, Granted, Executing
  <2>2. cur[r] \in Jobs /\ owner[cur[r]] = r /\ state[cur[r]] = "COMPLETED"
    BY <2>1, GrantedOwner
  <2>3. /\ lastRun' = [lastRun EXCEPT ![r] = [job |-> cur[r], success |-> TRUE]]
        /\ pc' = [pc EXCEPT ![r] = "poll"]
        /\ reply' = [reply EXCEPT ![r] = "none"]
        /\ cur' = [cur EXCEPT ![r] = NoJob]
        /\ UNCHANGED <<state, owner>>
    BY <1>14 DEF UploadDone, Resume, Forget, Notify
  <2>. QED
    BY <2>2, <2>3 DEF TypeOK
<1>15. ASSUME NEW r \in Runners, UploadFails(r)
     PROVE  SuccessInv'
    BY <1>15 DEF TypeOK, UploadFails, Call
<1>16. ASSUME NEW r \in Runners, FailureReported(r)
     PROVE  SuccessInv'
    BY <1>16 DEF TypeOK, FailureReported, Resume, Forget, Notify
<1>17. ASSUME NEW r \in Runners, RunTimeoutElapses(r)
     PROVE  SuccessInv'
    BY <1>17 DEF TypeOK, RunTimeoutElapses
<1>18. ASSUME NEW r \in Runners, Stop(r)
     PROVE  SuccessInv'
    BY <1>18 DEF TypeOK, Stop
<1>19. ASSUME NEW r \in Runners, Kill(r)
     PROVE  SuccessInv'
    BY <1>19 DEF TypeOK, Kill, Forget
<1>20. ASSUME NEW r \in Runners, Start(r)
     PROVE  SuccessInv'
    BY <1>20 DEF TypeOK, Start, Resume, Forget
<1>21. ASSUME NEW r \in Runners, CloudRefuses(r)
     PROVE  SuccessInv'
    BY <1>21 DEF TypeOK, CloudRefuses, Waiting
<1>22. ASSUME NEW r \in Runners, NEW j \in Jobs, Poll(r, j)
     PROVE  SuccessInv'
    BY <1>22 DEF TypeOK, Poll, Call
<1>23. ASSUME NEW r \in Runners, NEW turn \in Turns, PreflightReturns(r, turn)
     PROVE  SuccessInv'
    BY <1>23 DEF TypeOK, PreflightReturns, AppendResult, PreflightTurnSucceeded
<1>24. ASSUME NEW r \in Runners, CloudAccepts(r)
     PROVE  SuccessInv'
  <2>1. Request(r) \in Requests /\ pc[r] \in Calling
    BY <1>24, RequestType DEF CloudAccepts, Waiting
  <2>2. \A j \in Jobs : state[j] = "COMPLETED" =>
            state'[j] = "COMPLETED" /\ owner'[j] = owner[j]
    BY <1>24, <2>1, CompletedStays DEF CloudAccepts
  <2>3. cur[r] \in Jobs
    BY <2>1 DEF TypeOK, Calling
  <2>4. pc[r] = "uploading" => state'[cur[r]] = "COMPLETED"
    BY <1>24, <2>3 DEF CloudAccepts, Apply, Request, TypeOK
  <2>5. UNCHANGED <<pc, cur, lastRun>> /\ reply' = [reply EXCEPT ![r] = "ok"]
    BY <1>24 DEF CloudAccepts
  <2>6. \A s \in Runners : pc[s] = "uploading" => cur[s] \in Jobs
    BY DEF TypeOK
  <2>. QED
    BY <2>2, <2>4, <2>5, <2>6 DEF TypeOK
<1>25. ASSUME NEW q \in late, LateRequestArrives(q)
     PROVE  SuccessInv'
  <2>1. q \in Requests /\ UNCHANGED <<pc, cur, lastRun, reply>>
    BY <1>25 DEF LateRequestArrives, TypeOK
  <2>2. \A j \in Jobs : state[j] = "COMPLETED" =>
            state'[j] = "COMPLETED" /\ owner'[j] = owner[j]
    BY <1>25, <2>1, CompletedStays DEF LateRequestArrives
  <2>3. \A s \in Runners : pc[s] = "uploading" => cur[s] \in Jobs
    BY DEF TypeOK
  <2>. QED
    BY <2>1, <2>2, <2>3
<1>26. ASSUME NEW j \in Jobs, CloudTimesOut(j)
     PROVE  SuccessInv'
    BY <1>26 DEF TypeOK, CloudTimesOut
<1>28. ASSUME NEW r \in Runners, CheckStop(r)
     PROVE  SuccessInv'
    BY <1>28 DEF TypeOK, CheckStop
<1>29. ASSUME NEW r \in Runners, PollFails(r)
     PROVE  SuccessInv'
    BY <1>29 DEF TypeOK, PollFails
<1>30. ASSUME NEW r \in Runners, NextTest(r)
     PROVE  SuccessInv'
    BY <1>30 DEF TypeOK, NextTest
<1>31. ASSUME NEW r \in Runners, Unhandled(r)
     PROVE  SuccessInv'
    BY <1>31 DEF TypeOK, Unhandled, Call
<1>27. CASE UNCHANGED vars
    BY <1>27 DEF vars
<1>. QED
    BY <1>1, <1>2, <1>3, <1>4, <1>5, <1>6, <1>7, <1>8, <1>9, <1>10, <1>11, <1>12, <1>13, <1>14, <1>15, <1>16, <1>17, <1>18, <1>19, <1>20, <1>21, <1>22, <1>23, <1>24, <1>25, <1>26, <1>27, <1>28, <1>29, <1>30, <1>31
       DEF Next, Thread, Process, Cloud

(* A run shown as succeeded is completed at the cloud and was this         *)
(* connector's, whatever requests arrive late.                             *)
THEOREM SuccessfulRunsAreCompleted == Spec => []SuccessIsCompletion
<1>1. Init => SuccessInv /\ ExecutionInv
    BY PollerAssumption DEF Init, SuccessInv, SuccessIsCompletion, ExecutionInv,
       EachTestOnceByOwner, Granted, Executing
<1>2. TypeOK /\ ExecutionInv /\ SuccessInv /\ [Next]_vars => ExecutionInv' /\ SuccessInv'
    BY ExecutionInvStep, SuccessInvStep
<1>3. SuccessInv => SuccessIsCompletion
    BY DEF SuccessInv
<1>. QED
    BY <1>1, <1>2, <1>3, TypeCorrect, PTL DEF Spec

(* An ordinary test that ended leaves the preflight's verdict as it was. *)
LEMMA OrdinaryTestStep ==
    ASSUME TypeOK, PreflightInv, NEW r \in Runners, pc[r] = "testing", ~IsPreflight(r),
           pc' = [pc EXCEPT ![r] = "loop"], next' = [next EXCEPT ![r] = @ + 1],
           UNCHANGED <<dispatched, baseline, cur, preflightFailed>>
    PROVE  PreflightInv'
<1>. USE DEF PreflightInv, PreflightBoundary, Healthy
<1>1. /\ pc'[r] = "loop" /\ next'[r] = next[r] + 1 /\ next[r] \in Nat
      /\ \A s \in Runners \ {r} : pc'[s] = pc[s] /\ next'[s] = next[s]
    BY DEF TypeOK
<1>2. HasPreflight(cur[r]) /\ next'[r] > 1 => Healthy(cur[r])
    BY <1>1 DEF IsPreflight
<1>. QED
    BY <1>1, <1>2 DEF HasPreflight

(* A preflight that ended: its verdict is in preflightFailed, and no other *)
(* test of the job has been dispatched.                                    *)
LEMMA PreflightVerdictStep ==
    ASSUME TypeOK, ExecutionInv, PreflightInv, NEW r \in Runners, NEW failed \in BOOLEAN,
           NEW turn,
           ~failed => turn = "reply" \/ (turn = "no_reply" /\ cur[r] \notin ProbesMessagePath),
           pc[r] = "testing", IsPreflight(r),
           pc' = [pc EXCEPT ![r] = "loop"], next' = [next EXCEPT ![r] = @ + 1],
           preflightFailed' = [preflightFailed EXCEPT ![r] = failed],
           baseline' = [baseline EXCEPT ![cur[r]] = turn],
           UNCHANGED <<dispatched, cur>>
    PROVE  PreflightInv'
<1>. USE DEF PreflightInv, PreflightBoundary, Healthy
<1>1. cur[r] \in Jobs /\ owner[cur[r]] = r /\ Len(dispatched[cur[r]]) = 1
    BY GrantedOwner DEF Granted, Executing, ExecutionInv, IsPreflight
<1>2. \A s \in Runners \ {r} : pc[s] \in {"loop", "checked", "testing"} => cur[s] # cur[r]
    BY <1>1, GrantedOwner DEF Granted, Executing
<1>3. /\ pc'[r] = "loop" /\ preflightFailed'[r] = failed /\ baseline'[cur[r]] = turn
      /\ \A s \in Runners \ {r} : /\ pc'[s] = pc[s] /\ next'[s] = next[s]
                                  /\ preflightFailed'[s] = preflightFailed[s]
      /\ \A j \in Jobs : j # cur[r] => baseline'[j] = baseline[j]
    BY <1>1 DEF TypeOK
<1>4. \A s \in Runners : pc[s] \in {"loop", "checked", "testing"} => cur[s] \in Jobs
    BY DEF TypeOK
<1>5. PreflightBoundary'
  <2>. SUFFICES ASSUME NEW j \in Jobs, HasPreflight(j)', Len(dispatched'[j]) > 1
                PROVE  Healthy(j)'
    OBVIOUS
  <2>1. j # cur[r]
    <3>1. SUFFICES ASSUME j = cur[r] PROVE FALSE
      OBVIOUS
    <3>2. Len(dispatched[cur[r]]) \in Nat
      BY <1>1 DEF TypeOK
    <3>3. Len(dispatched[cur[r]]) > 1
      BY <3>1
    <3>. QED
      BY <1>1, <3>2, <3>3
  <2>2. HasPreflight(j)
    BY DEF HasPreflight
  <2>. QED
    BY <1>3, <2>1, <2>2
<1>6. \A s \in Runners :
        pc'[s] \in {"loop", "checked", "testing"} /\ HasPreflight(cur[s]) /\ next'[s] > 1
            => preflightFailed'[s] \/ Healthy(cur[s])'
    BY <1>2, <1>3, <1>4
<1>7. \A s \in Runners :
        pc'[s] = "testing" /\ HasPreflight(cur[s]) /\ next'[s] > 1 => ~preflightFailed'[s]
    BY <1>3
<1>. QED
    BY <1>5, <1>6, <1>7 DEF HasPreflight

(* The preflight invariant is inductive. *)
LEMMA PreflightInvStep ==
    ASSUME TypeOK, ExecutionInv, PreflightInv, [Next]_vars
    PROVE  PreflightInv'
<1>. USE DEF PreflightInv, PreflightBoundary, Healthy, cloud, target, progress, stopping, observer
<1>1. ASSUME NEW r \in Runners, PollUnauthorized(r)
     PROVE  PreflightInv'
    BY <1>1 DEF TypeOK, PollUnauthorized
<1>2. ASSUME NEW r \in Runners, LeaveLoop(r)
     PROVE  PreflightInv'
    BY <1>2 DEF TypeOK, LeaveLoop
<1>3. ASSUME NEW r \in Runners, RejectionReported(r)
     PROVE  PreflightInv'
    BY <1>3 DEF TypeOK, RejectionReported, Resume, Forget
<1>4. ASSUME NEW r \in Runners, ClaimGranted(r)
     PROVE  PreflightInv'
    BY <1>4 DEF TypeOK, ClaimGranted, CallReturns
<1>5. ASSUME NEW r \in Runners, ClaimFailed(r)
     PROVE  PreflightInv'
    BY <1>5 DEF TypeOK, ClaimFailed, Resume, Forget
<1>6. ASSUME NEW r \in Runners, SetupFails(r)
     PROVE  PreflightInv'
    BY <1>6 DEF TypeOK, SetupFails, Call
<1>7. ASSUME NEW r \in Runners, SetupDone(r)
     PROVE  PreflightInv'
  <2>1. next[r] = 1
    BY <1>7 DEF SetupDone, ExecutionInv
  <2>. QED
    BY <1>7, <2>1 DEF TypeOK, SetupDone
<1>8. ASSUME NEW r \in Runners, BeginTest(r)
     PROVE  PreflightInv'
  <2>. DEFINE j == cur[r]
  <2>1. /\ pc[r] = "checked" /\ j \in Jobs /\ next[r] \in Nat
        /\ next[r] = Len(dispatched[j]) + 1
    BY <1>8 DEF BeginTest, TypeOK, ExecutionInv
  <2>2. HasPreflight(j) /\ next[r] > 1 => ~preflightFailed[r] /\ Healthy(j)
    BY <2>1
  <2>3. /\ pc' = [pc EXCEPT ![r] = "testing"]
        /\ UNCHANGED <<baseline, cur, next, preflightFailed>>
        /\ \A k \in Jobs \ {j} : dispatched'[k] = dispatched[k]
    BY <1>8 DEF BeginTest, TypeOK
  <2>4. Len(dispatched'[j]) = next[r]
    <3>1. [runner |-> r, test |-> next[r]] \in Dispatches
      BY <2>1 DEF Dispatches
    <3>2. dispatched'[j] = Append(dispatched[j], [runner |-> r, test |-> next[r]])
      BY <1>8, <2>1 DEF BeginTest, TypeOK
    <3>. QED
      BY <2>1, <3>1, <3>2 DEF TypeOK
  <2>5. PreflightBoundary'
    BY <2>2, <2>3, <2>4 DEF HasPreflight
  <2>6. \A s \in Runners \ {r} : pc'[s] = pc[s]
    BY <2>3 DEF TypeOK
  <2>. QED
    BY <2>1, <2>2, <2>3, <2>5, <2>6 DEF HasPreflight
<1>9. ASSUME NEW r \in Runners, PreflightRaises(r)
     PROVE  PreflightInv'
  <2>1. /\ pc[r] = "testing" /\ IsPreflight(r)
        /\ pc' = [pc EXCEPT ![r] = "loop"]
        /\ next' = [next EXCEPT ![r] = @ + 1]
        /\ preflightFailed' = [preflightFailed EXCEPT ![r] = TRUE]
        /\ baseline' = [baseline EXCEPT ![cur[r]] = "raised"]
        /\ UNCHANGED <<dispatched, cur>>
    BY <1>9 DEF PreflightRaises, AppendResult
  <2>. QED
    BY <2>1, PreflightVerdictStep
<1>10. ASSUME NEW r \in Runners, TestReturns(r)
     PROVE  PreflightInv'
  <2>1. /\ pc[r] = "testing" /\ ~IsPreflight(r)
        /\ pc' = [pc EXCEPT ![r] = "loop"] /\ next' = [next EXCEPT ![r] = @ + 1]
        /\ UNCHANGED <<dispatched, baseline, cur, preflightFailed>>
    BY <1>10 DEF TestReturns, AppendResult
  <2>. QED
    BY <2>1, OrdinaryTestStep
<1>11. ASSUME NEW r \in Runners, TestRaises(r)
     PROVE  PreflightInv'
  <2>1. /\ pc[r] = "testing" /\ ~IsPreflight(r)
        /\ pc' = [pc EXCEPT ![r] = "loop"] /\ next' = [next EXCEPT ![r] = @ + 1]
        /\ UNCHANGED <<dispatched, baseline, cur, preflightFailed>>
    BY <1>11 DEF TestRaises, AppendResult
  <2>. QED
    BY <2>1, OrdinaryTestStep
<1>12. ASSUME NEW r \in Runners, Upload(r)
     PROVE  PreflightInv'
    BY <1>12 DEF TypeOK, Upload, Call, LoopDone
<1>13. ASSUME NEW r \in Runners, ResultsInvalid(r)
     PROVE  PreflightInv'
    BY <1>13 DEF TypeOK, ResultsInvalid, Call, LoopDone
<1>14. ASSUME NEW r \in Runners, UploadDone(r)
     PROVE  PreflightInv'
    BY <1>14 DEF TypeOK, UploadDone, Resume, Forget, Notify, CallReturns
<1>15. ASSUME NEW r \in Runners, UploadFails(r)
     PROVE  PreflightInv'
    BY <1>15 DEF TypeOK, UploadFails, Call
<1>16. ASSUME NEW r \in Runners, FailureReported(r)
     PROVE  PreflightInv'
    BY <1>16 DEF TypeOK, FailureReported, Resume, Forget, Notify
<1>17. ASSUME NEW r \in Runners, RunTimeoutElapses(r)
     PROVE  PreflightInv'
    BY <1>17 DEF TypeOK, RunTimeoutElapses
<1>18. ASSUME NEW r \in Runners, Stop(r)
     PROVE  PreflightInv'
    BY <1>18 DEF TypeOK, Stop
<1>19. ASSUME NEW r \in Runners, Kill(r)
     PROVE  PreflightInv'
    BY <1>19 DEF TypeOK, Kill, Forget
<1>20. ASSUME NEW r \in Runners, Start(r)
     PROVE  PreflightInv'
    BY <1>20 DEF TypeOK, Start, Resume, Forget
<1>21. ASSUME NEW r \in Runners, CloudRefuses(r)
     PROVE  PreflightInv'
    BY <1>21 DEF TypeOK, CloudRefuses, Waiting
<1>22. ASSUME NEW r \in Runners, NEW j \in Jobs, Poll(r, j)
     PROVE  PreflightInv'
    BY <1>22 DEF TypeOK, Poll, Call
<1>23. ASSUME NEW r \in Runners, NEW turn \in Turns, PreflightReturns(r, turn)
     PROVE  PreflightInv'
  <2>. DEFINE failed == ~PreflightTurnSucceeded(cur[r], turn)
  <2>1. /\ pc[r] = "testing" /\ IsPreflight(r)
        /\ pc' = [pc EXCEPT ![r] = "loop"]
        /\ next' = [next EXCEPT ![r] = @ + 1]
        /\ preflightFailed' = [preflightFailed EXCEPT ![r] = failed]
        /\ baseline' = [baseline EXCEPT ![cur[r]] = turn]
        /\ UNCHANGED <<dispatched, cur>>
    BY <1>23 DEF PreflightReturns, AppendResult
  <2>2. failed \in BOOLEAN
        /\ (~failed => turn = "reply" \/ (turn = "no_reply" /\ cur[r] \notin ProbesMessagePath))
    BY DEF PreflightTurnSucceeded
  <2>. QED
    BY <2>1, <2>2, PreflightVerdictStep
<1>24. ASSUME NEW r \in Runners, CloudAccepts(r)
     PROVE  PreflightInv'
    BY <1>24 DEF TypeOK, CloudAccepts, Acceptable, Apply, Request, Requests, Waiting
<1>25. ASSUME NEW q \in late, LateRequestArrives(q)
     PROVE  PreflightInv'
    BY <1>25 DEF TypeOK, LateRequestArrives, Acceptable, Apply, Requests
<1>26. ASSUME NEW j \in Jobs, CloudTimesOut(j)
     PROVE  PreflightInv'
    BY <1>26 DEF TypeOK, CloudTimesOut
<1>28. ASSUME NEW r \in Runners, CheckStop(r)
     PROVE  PreflightInv'
    BY <1>28 DEF TypeOK, CheckStop
<1>29. ASSUME NEW r \in Runners, PollFails(r)
     PROVE  PreflightInv'
    BY <1>29 DEF TypeOK, PollFails
<1>30. ASSUME NEW r \in Runners, NextTest(r)
     PROVE  PreflightInv'
    BY <1>30 DEF TypeOK, NextTest, MustBreak
<1>31. ASSUME NEW r \in Runners, Unhandled(r)
     PROVE  PreflightInv'
    BY <1>31 DEF TypeOK, Unhandled, Call
<1>27. CASE UNCHANGED vars
    BY <1>27 DEF vars
<1>. QED
    BY <1>1, <1>2, <1>3, <1>4, <1>5, <1>6, <1>7, <1>8, <1>9, <1>10, <1>11, <1>12, <1>13, <1>14, <1>15, <1>16, <1>17, <1>18, <1>19, <1>20, <1>21, <1>22, <1>23, <1>24, <1>25, <1>26, <1>27, <1>28, <1>29, <1>30, <1>31
       DEF Next, Thread, Process, Cloud

(* No test after a preflight reaches the target unless the preflight came  *)
(* back healthy.                                                           *)
THEOREM PreflightIsABoundary == Spec => []PreflightBoundary
<1>1. Init => PreflightInv /\ ExecutionInv
    BY PollerAssumption DEF Init, PreflightInv, PreflightBoundary, ExecutionInv,
       EachTestOnceByOwner, Granted, Executing
<1>2. TypeOK /\ ExecutionInv /\ PreflightInv /\ [Next]_vars
        => ExecutionInv' /\ PreflightInv'
    BY ExecutionInvStep, PreflightInvStep
<1>3. PreflightInv => PreflightBoundary
    BY DEF PreflightInv
<1>. QED
    BY <1>1, <1>2, <1>3, TypeCorrect, PTL DEF Spec

(* A thread that is to stop has taken up nothing since, or one thing and   *)
(* then no longer is between a check and what it allows.                   *)
StopInv ==
    \A r \in Runners :
        IF stopEvent[r]
        THEN begun[r] = 0 \/ (begun[r] = 1 /\ pc[r] \notin {"polling", "checked"})
        ELSE begun[r] = 0

(* No step of any thread, of the cloud or of the network lets a second one *)
(* through.                                                                *)
LEMMA StopInvStep ==
    ASSUME TypeOK, StopInv, [Next]_vars
    PROVE  StopInv'
<1>. USE DEF StopInv, TypeOK, cloud, target, progress, stopping, observer
<1>1. ASSUME NEW r \in Runners, PollUnauthorized(r)
     PROVE  StopInv'
    BY <1>1 DEF PollUnauthorized
<1>2. ASSUME NEW r \in Runners, LeaveLoop(r)
     PROVE  StopInv'
    BY <1>2 DEF LeaveLoop
<1>3. ASSUME NEW r \in Runners, RejectionReported(r)
     PROVE  StopInv'
    BY <1>3 DEF RejectionReported, Resume, Forget
<1>4. ASSUME NEW r \in Runners, ClaimGranted(r)
     PROVE  StopInv'
    BY <1>4 DEF ClaimGranted, CallReturns
<1>5. ASSUME NEW r \in Runners, ClaimFailed(r)
     PROVE  StopInv'
    BY <1>5 DEF ClaimFailed, Resume, Forget
<1>6. ASSUME NEW r \in Runners, SetupFails(r)
     PROVE  StopInv'
    BY <1>6 DEF SetupFails, Call
<1>7. ASSUME NEW r \in Runners, SetupDone(r)
     PROVE  StopInv'
    BY <1>7 DEF SetupDone
<1>8. ASSUME NEW r \in Runners, BeginTest(r)
     PROVE  StopInv'
    BY <1>8 DEF BeginTest, TakeUp
<1>9. ASSUME NEW r \in Runners, PreflightRaises(r)
     PROVE  StopInv'
    BY <1>9 DEF PreflightRaises, AppendResult
<1>10. ASSUME NEW r \in Runners, TestReturns(r)
     PROVE  StopInv'
    BY <1>10 DEF TestReturns, AppendResult
<1>11. ASSUME NEW r \in Runners, TestRaises(r)
     PROVE  StopInv'
    BY <1>11 DEF TestRaises, AppendResult
<1>12. ASSUME NEW r \in Runners, Upload(r)
     PROVE  StopInv'
    BY <1>12 DEF Upload, Call, LoopDone
<1>13. ASSUME NEW r \in Runners, ResultsInvalid(r)
     PROVE  StopInv'
    BY <1>13 DEF ResultsInvalid, Call, LoopDone
<1>14. ASSUME NEW r \in Runners, UploadDone(r)
     PROVE  StopInv'
    BY <1>14 DEF UploadDone, Resume, Forget, Notify
<1>15. ASSUME NEW r \in Runners, UploadFails(r)
     PROVE  StopInv'
    BY <1>15 DEF UploadFails, Call
<1>16. ASSUME NEW r \in Runners, FailureReported(r)
     PROVE  StopInv'
    BY <1>16 DEF FailureReported, Resume, Forget, Notify
<1>17. ASSUME NEW r \in Runners, RunTimeoutElapses(r)
     PROVE  StopInv'
    BY <1>17 DEF RunTimeoutElapses
<1>18. ASSUME NEW r \in Runners, Stop(r)
     PROVE  StopInv'
    BY <1>18 DEF Stop
<1>19. ASSUME NEW r \in Runners, Kill(r)
     PROVE  StopInv'
    BY <1>19 DEF Kill, Forget
<1>20. ASSUME NEW r \in Runners, Start(r)
     PROVE  StopInv'
    BY <1>20 DEF Start, Resume, Forget
<1>21. ASSUME NEW r \in Runners, CloudAccepts(r)
     PROVE  StopInv'
    BY <1>21 DEF CloudAccepts
<1>22. ASSUME NEW r \in Runners, CloudRefuses(r)
     PROVE  StopInv'
    BY <1>22 DEF CloudRefuses
<1>23. ASSUME NEW r \in Runners, NEW j \in Jobs, Poll(r, j)
     PROVE  StopInv'
    BY <1>23 DEF Poll, TakeUp, Call
<1>24. ASSUME NEW r \in Runners, NEW turn \in Turns, PreflightReturns(r, turn)
     PROVE  StopInv'
    BY <1>24 DEF PreflightReturns, AppendResult
<1>25. ASSUME NEW q \in late, LateRequestArrives(q)
     PROVE  StopInv'
    BY <1>25 DEF LateRequestArrives
<1>26. ASSUME NEW j \in Jobs, CloudTimesOut(j)
     PROVE  StopInv'
    BY <1>26 DEF CloudTimesOut
<1>28. ASSUME NEW r \in Runners, CheckStop(r)
     PROVE  StopInv'
    BY <1>28 DEF CheckStop
<1>29. ASSUME NEW r \in Runners, PollFails(r)
     PROVE  StopInv'
    BY <1>29 DEF PollFails
<1>30. ASSUME NEW r \in Runners, NextTest(r)
     PROVE  StopInv'
    BY <1>30 DEF NextTest, MustBreak
<1>31. ASSUME NEW r \in Runners, Unhandled(r)
     PROVE  StopInv'
    BY <1>31 DEF Unhandled, Call
<1>27. CASE UNCHANGED vars
    BY <1>27 DEF vars
<1>. QED
    BY <1>1, <1>2, <1>3, <1>4, <1>5, <1>6, <1>7, <1>8, <1>9, <1>10, <1>11, <1>12, <1>13, <1>14, <1>15, <1>16, <1>17, <1>18, <1>19, <1>20, <1>21, <1>22, <1>23, <1>24, <1>25, <1>26, <1>27, <1>28, <1>29, <1>30, <1>31
       DEF Next, Thread, Process, Cloud

(* However the event and the thread's steps interleave, a stopped thread   *)
(* takes up at most the one thing it had already checked for.              *)
THEOREM StopIsHonoured == Spec => []NoWorkAfterStop
<1>1. Init => StopInv
    BY DEF Init, StopInv
<1>2. TypeOK /\ StopInv /\ [Next]_vars => StopInv'
    BY StopInvStep
<1>3. StopInv => NoWorkAfterStop
  <2>. SUFFICES ASSUME StopInv, NEW r \in Runners
                PROVE  begun[r] <= 1
    BY DEF NoWorkAfterStop
  <2>1. begun[r] = 0 \/ begun[r] = 1
    BY Zenon DEF StopInv
  <2>. QED
    BY <2>1
<1>. QED
    BY <1>1, <1>2, <1>3, TypeCorrect, PTL DEF Spec

(* What the observer is shown as active is the job being executed: every   *)
(* step that begins or leaves one tells it.                                *)
LEMMA ActiveRunStep ==
    ASSUME TypeOK, ActiveRunShown, [Next]_vars
    PROVE  ActiveRunShown'
<1>. USE DEF ActiveRunShown, Executing, cloud, target, progress, stopping, observer
<1>1. ASSUME NEW r \in Runners, PollUnauthorized(r)
     PROVE  ActiveRunShown'
    BY <1>1 DEF TypeOK, PollUnauthorized
<1>2. ASSUME NEW r \in Runners, LeaveLoop(r)
     PROVE  ActiveRunShown'
    BY <1>2 DEF TypeOK, LeaveLoop
<1>3. ASSUME NEW r \in Runners, RejectionReported(r)
     PROVE  ActiveRunShown'
    BY <1>3 DEF TypeOK, RejectionReported, Resume, Forget
<1>4. ASSUME NEW r \in Runners, ClaimGranted(r)
     PROVE  ActiveRunShown'
    BY <1>4 DEF TypeOK, ClaimGranted, CallReturns
<1>5. ASSUME NEW r \in Runners, ClaimFailed(r)
     PROVE  ActiveRunShown'
    BY <1>5 DEF TypeOK, ClaimFailed, Resume, Forget
<1>6. ASSUME NEW r \in Runners, SetupFails(r)
     PROVE  ActiveRunShown'
    BY <1>6 DEF TypeOK, SetupFails, Call
<1>7. ASSUME NEW r \in Runners, SetupDone(r)
     PROVE  ActiveRunShown'
    BY <1>7 DEF TypeOK, SetupDone
<1>8. ASSUME NEW r \in Runners, BeginTest(r)
     PROVE  ActiveRunShown'
    BY <1>8 DEF TypeOK, BeginTest
<1>9. ASSUME NEW r \in Runners, PreflightRaises(r)
     PROVE  ActiveRunShown'
    BY <1>9 DEF TypeOK, PreflightRaises, AppendResult
<1>10. ASSUME NEW r \in Runners, TestReturns(r)
     PROVE  ActiveRunShown'
    BY <1>10 DEF TypeOK, TestReturns, AppendResult
<1>11. ASSUME NEW r \in Runners, TestRaises(r)
     PROVE  ActiveRunShown'
    BY <1>11 DEF TypeOK, TestRaises, AppendResult
<1>12. ASSUME NEW r \in Runners, Upload(r)
     PROVE  ActiveRunShown'
    BY <1>12 DEF TypeOK, Upload, Call, LoopDone
<1>13. ASSUME NEW r \in Runners, ResultsInvalid(r)
     PROVE  ActiveRunShown'
    BY <1>13 DEF TypeOK, ResultsInvalid, Call, LoopDone
<1>14. ASSUME NEW r \in Runners, UploadDone(r)
     PROVE  ActiveRunShown'
    BY <1>14 DEF TypeOK, UploadDone, Resume, Forget, Notify, CallReturns
<1>15. ASSUME NEW r \in Runners, UploadFails(r)
     PROVE  ActiveRunShown'
    BY <1>15 DEF TypeOK, UploadFails, Call
<1>16. ASSUME NEW r \in Runners, FailureReported(r)
     PROVE  ActiveRunShown'
    BY <1>16 DEF TypeOK, FailureReported, Resume, Forget, Notify
<1>17. ASSUME NEW r \in Runners, RunTimeoutElapses(r)
     PROVE  ActiveRunShown'
    BY <1>17 DEF TypeOK, RunTimeoutElapses
<1>18. ASSUME NEW r \in Runners, Stop(r)
     PROVE  ActiveRunShown'
    BY <1>18 DEF TypeOK, Stop
<1>19. ASSUME NEW r \in Runners, Kill(r)
     PROVE  ActiveRunShown'
    BY <1>19 DEF TypeOK, Kill, Forget
<1>20. ASSUME NEW r \in Runners, Start(r)
     PROVE  ActiveRunShown'
    BY <1>20 DEF TypeOK, Start, Resume, Forget
<1>21. ASSUME NEW r \in Runners, CloudAccepts(r)
     PROVE  ActiveRunShown'
    BY <1>21 DEF TypeOK, CloudAccepts
<1>22. ASSUME NEW r \in Runners, CloudRefuses(r)
     PROVE  ActiveRunShown'
    BY <1>22 DEF TypeOK, CloudRefuses, Waiting
<1>23. ASSUME NEW r \in Runners, NEW j \in Jobs, Poll(r, j)
     PROVE  ActiveRunShown'
    BY <1>23 DEF TypeOK, Poll, Call
<1>24. ASSUME NEW r \in Runners, NEW turn \in Turns, PreflightReturns(r, turn)
     PROVE  ActiveRunShown'
    BY <1>24 DEF TypeOK, PreflightReturns, AppendResult
<1>25. ASSUME NEW q \in late, LateRequestArrives(q)
     PROVE  ActiveRunShown'
    BY <1>25 DEF TypeOK, LateRequestArrives
<1>26. ASSUME NEW j \in Jobs, CloudTimesOut(j)
     PROVE  ActiveRunShown'
    BY <1>26 DEF TypeOK, CloudTimesOut
<1>28. ASSUME NEW r \in Runners, CheckStop(r)
     PROVE  ActiveRunShown'
    BY <1>28 DEF TypeOK, CheckStop
<1>29. ASSUME NEW r \in Runners, PollFails(r)
     PROVE  ActiveRunShown'
    BY <1>29 DEF TypeOK, PollFails
<1>30. ASSUME NEW r \in Runners, NextTest(r)
     PROVE  ActiveRunShown'
    BY <1>30 DEF TypeOK, NextTest
<1>31. ASSUME NEW r \in Runners, Unhandled(r)
     PROVE  ActiveRunShown'
    BY <1>31 DEF TypeOK, Unhandled, Call
<1>27. CASE UNCHANGED vars
    BY <1>27 DEF vars
<1>. QED
    BY <1>1, <1>2, <1>3, <1>4, <1>5, <1>6, <1>7, <1>8, <1>9, <1>10, <1>11, <1>12, <1>13, <1>14, <1>15, <1>16, <1>17, <1>18, <1>19, <1>20, <1>21, <1>22, <1>23, <1>24, <1>25, <1>26, <1>27, <1>28, <1>29, <1>30, <1>31
       DEF Next, Thread, Process, Cloud

(* Every way out of a job, crashes included, tells the observer.           *)
THEOREM ActiveRunIsShown == Spec => []ActiveRunShown
<1>1. Init => ActiveRunShown
    BY DEF Init, ActiveRunShown, Executing
<1>. QED
    BY <1>1, ActiveRunStep, TypeCorrect, PTL DEF Spec

-----------------------------------------------------------------------------
(* What a completed job may be stored with: a result for each test that was *)
(* dispatched, and the failed preflight alone.                             *)
Reports(j, sent) ==
    /\ Len(sent) = Len(dispatched[j])
    /\ \A k \in 1 .. Len(sent) : sent[k].test = k
    /\ BaselineFailed(j) => sent = <<[test |-> 1, error |-> TRUE]>>

(* No thread tests j or has been granted it, and none will be. *)
Closed(j) ==
    /\ owner[j] # NoRunner
    /\ \A r \in Runners : Granted(r) /\ cur[r] = j => pc[r] \in {"uploading", "failing"}

(* The results at hand count the loop index, and a test is only under way  *)
(* if the preflight has not failed.                                        *)
Gathering ==
    /\ \A r \in Runners :
          pc[r] \notin {"loop", "checked", "testing", "uploading", "failing"} => results[r] = <<>>
    /\ \A r \in Runners :
          pc[r] \in {"loop", "checked", "testing"} =>
              /\ Len(results[r]) + 1 = next[r]
              /\ \A k \in 1 .. Len(results[r]) : results[r][k].test = k
    /\ \A r \in Runners : pc[r] \in {"checked", "testing"} => ~BaselineFailed(cur[r])
    /\ \A r \in Runners :
          pc[r] = "loop" /\ BaselineFailed(cur[r]) =>
              results[r] = <<[test |-> 1, error |-> TRUE]>>
    /\ \A j \in Jobs : dispatched[j] = <<>> => ~BaselineFailed(j)
    /\ \A r \in Runners : pc[r] = "uploading" => Reports(cur[r], results[r])

(* An upload, be it stored, late or about to be served, reports on a job   *)
(* that nobody tests any more.                                             *)
CompletionInv ==
    /\ Gathering
    /\ \A q \in late : q.op = "uploading" => Closed(q.job) /\ Reports(q.job, q.results)
    /\ \A j \in Jobs : state[j] = "COMPLETED" => Closed(j) /\ Reports(j, uploaded[j])

(* A closed job stays closed, whoever claims, tests or reports what else:  *)
(* its dispatches and its preflight are what they were.                    *)
LEMMA ClosedStays ==
    ASSUME TypeOK, ExecutionInv, [Next]_vars, NEW c \in Jobs, Closed(c)
    PROVE  Closed(c)' /\ dispatched'[c] = dispatched[c] /\ baseline'[c] = baseline[c]
<1>. DEFINE Kept == Closed(c)' /\ dispatched'[c] = dispatched[c] /\ baseline'[c] = baseline[c]
<1>. USE DEF Closed, Granted, Executing, cloud, target, progress, stopping, observer
<1>1. ASSUME NEW r \in Runners, PollUnauthorized(r)
     PROVE  Kept
    BY <1>1 DEF TypeOK, PollUnauthorized
<1>2. ASSUME NEW r \in Runners, LeaveLoop(r)
     PROVE  Kept
    BY <1>2 DEF TypeOK, LeaveLoop
<1>3. ASSUME NEW r \in Runners, RejectionReported(r)
     PROVE  Kept
    BY <1>3 DEF TypeOK, RejectionReported, Resume, Forget
<1>4. ASSUME NEW r \in Runners, ClaimGranted(r)
     PROVE  Kept
    BY <1>4 DEF TypeOK, ClaimGranted, CallReturns
<1>5. ASSUME NEW r \in Runners, ClaimFailed(r)
     PROVE  Kept
    BY <1>5 DEF TypeOK, ClaimFailed, Resume, Forget
<1>6. ASSUME NEW r \in Runners, SetupFails(r)
     PROVE  Kept
    BY <1>6 DEF TypeOK, SetupFails, Call
<1>7. ASSUME NEW r \in Runners, SetupDone(r)
     PROVE  Kept
    BY <1>7 DEF TypeOK, SetupDone
<1>8. ASSUME NEW r \in Runners, BeginTest(r)
     PROVE  Kept
    BY <1>8 DEF TypeOK, BeginTest
<1>9. ASSUME NEW r \in Runners, PreflightRaises(r)
     PROVE  Kept
    BY <1>9 DEF TypeOK, PreflightRaises, AppendResult
<1>10. ASSUME NEW r \in Runners, TestReturns(r)
     PROVE  Kept
    BY <1>10 DEF TypeOK, TestReturns, AppendResult
<1>11. ASSUME NEW r \in Runners, TestRaises(r)
     PROVE  Kept
    BY <1>11 DEF TypeOK, TestRaises, AppendResult
<1>12. ASSUME NEW r \in Runners, Upload(r)
     PROVE  Kept
    BY <1>12 DEF TypeOK, Upload, Call, LoopDone
<1>13. ASSUME NEW r \in Runners, ResultsInvalid(r)
     PROVE  Kept
    BY <1>13 DEF TypeOK, ResultsInvalid, Call, LoopDone
<1>14. ASSUME NEW r \in Runners, UploadDone(r)
     PROVE  Kept
    BY <1>14 DEF TypeOK, UploadDone, Resume, Forget, Notify, CallReturns
<1>15. ASSUME NEW r \in Runners, UploadFails(r)
     PROVE  Kept
    BY <1>15 DEF TypeOK, UploadFails, Call
<1>16. ASSUME NEW r \in Runners, FailureReported(r)
     PROVE  Kept
    BY <1>16 DEF TypeOK, FailureReported, Resume, Forget, Notify
<1>17. ASSUME NEW r \in Runners, RunTimeoutElapses(r)
     PROVE  Kept
    BY <1>17 DEF TypeOK, RunTimeoutElapses
<1>18. ASSUME NEW r \in Runners, Stop(r)
     PROVE  Kept
    BY <1>18 DEF TypeOK, Stop
<1>19. ASSUME NEW r \in Runners, Kill(r)
     PROVE  Kept
    BY <1>19 DEF TypeOK, Kill, Forget
<1>20. ASSUME NEW r \in Runners, Start(r)
     PROVE  Kept
    BY <1>20 DEF TypeOK, Start, Resume, Forget
<1>21. ASSUME NEW r \in Runners, CloudAccepts(r)
     PROVE  Kept
  <2>1. Request(r) \in Requests /\ pc[r] \in Calling
    BY <1>21, RequestType DEF CloudAccepts, Waiting
  <2>2. /\ owner'[c] = owner[c]
        /\ pc[r] = "claiming" => cur[r] # c
    BY <1>21, <2>1, CloudStep DEF CloudAccepts, Request
  <2>3. /\ UNCHANGED <<pc, cur, dispatched, baseline>>
        /\ reply' = [reply EXCEPT ![r] = "ok"]
    BY <1>21 DEF CloudAccepts
  <2>. QED
    BY <2>2, <2>3 DEF TypeOK
<1>22. ASSUME NEW r \in Runners, CloudRefuses(r)
     PROVE  Kept
    BY <1>22 DEF TypeOK, CloudRefuses, Waiting
<1>23. ASSUME NEW r \in Runners, NEW j \in Jobs, Poll(r, j)
     PROVE  Kept
    BY <1>23 DEF TypeOK, Poll, Call
<1>24. ASSUME NEW r \in Runners, NEW turn \in Turns, PreflightReturns(r, turn)
     PROVE  Kept
    BY <1>24 DEF TypeOK, PreflightReturns, AppendResult
<1>25. ASSUME NEW q \in late, LateRequestArrives(q)
     PROVE  Kept
  <2>1. q \in Requests
    BY <1>25 DEF TypeOK
  <2>2. owner'[c] = owner[c]
    BY <1>25, <2>1, CloudStep DEF LateRequestArrives
  <2>. QED
    BY <1>25, <2>2 DEF LateRequestArrives
<1>26. ASSUME NEW j \in Jobs, CloudTimesOut(j)
     PROVE  Kept
    BY <1>26 DEF TypeOK, CloudTimesOut
<1>28. ASSUME NEW r \in Runners, CheckStop(r)
     PROVE  Kept
    BY <1>28 DEF TypeOK, CheckStop
<1>29. ASSUME NEW r \in Runners, PollFails(r)
     PROVE  Kept
    BY <1>29 DEF TypeOK, PollFails
<1>30. ASSUME NEW r \in Runners, NextTest(r)
     PROVE  Kept
    BY <1>30 DEF TypeOK, NextTest
<1>31. ASSUME NEW r \in Runners, Unhandled(r)
     PROVE  Kept
    BY <1>31 DEF TypeOK, Unhandled, Call
<1>27. CASE UNCHANGED vars
    BY <1>27 DEF vars
<1>. QED
    BY <1>1, <1>2, <1>3, <1>4, <1>5, <1>6, <1>7, <1>8, <1>9, <1>10, <1>11, <1>12, <1>13, <1>14, <1>15, <1>16, <1>17, <1>18, <1>19, <1>20, <1>21, <1>22, <1>23, <1>24, <1>25, <1>26, <1>27, <1>28, <1>29, <1>30, <1>31
       DEF Next, Thread, Process, Cloud

(* A thread that uploads, or has tests to run, has its job to itself. *)
LEMMA GrantedAlone ==
    ASSUME TypeOK, ExecutionInv, NEW r \in Runners, Granted(r)
    PROVE  /\ cur[r] \in Jobs
           /\ \A s \in Runners \ {r} : Granted(s) => cur[s] # cur[r]
           /\ pc[r] \in {"uploading", "failing"} => Closed(cur[r])
<1>1. cur[r] \in Jobs /\ owner[cur[r]] = r /\ owner[cur[r]] # NoRunner
    BY GrantedOwner
<1>2. \A s \in Runners \ {r} : Granted(s) => cur[s] # cur[r]
    BY <1>1, GrantedOwner
<1>. QED
    BY <1>1, <1>2 DEF Closed

(* The requests that the cloud may still serve. *)
UnderWay == late \cup {Request(r) : r \in {s \in Runners : Waiting(s)}}

(* A step leaves no other requests behind, and completes no job but with   *)
(* the results of an upload under way.                                     *)
Justified(j) ==
    state'[j] = "COMPLETED" =>
        \/ state[j] = "COMPLETED" /\ uploaded'[j] = uploaded[j]
        \/ \E q \in UnderWay :
              q.op = "uploading" /\ q.job = j /\ uploaded'[j] = q.results

LEMMA ServedWasUnderWay ==
    ASSUME TypeOK, NEW q \in UnderWay, q \in Requests, Acceptable(q), Apply(q)
    PROVE  \A j \in Jobs : Justified(j)
<1>. USE DEF Justified
<1>1. CASE q.op = "uploading"
  <2>1. /\ state[q.job] = "RUNNING" /\ q.job \in Jobs
        /\ uploaded' = [uploaded EXCEPT ![q.job] = q.results]
        /\ state' = [state EXCEPT ![q.job] = "COMPLETED"]
    BY <1>1 DEF Acceptable, Apply, Requests
  <2>. QED
    BY <1>1, <2>1 DEF TypeOK
<1>2. CASE q.op # "uploading"
    BY <1>2 DEF Apply, Acceptable, Requests, TypeOK
<1>. QED
    BY <1>1, <1>2

LEMMA StepsServeRequests ==
    ASSUME TypeOK, [Next]_vars
    PROVE  late' \subseteq UnderWay /\ \A j \in Jobs : Justified(j)
<1>. DEFINE Serves == late' \subseteq UnderWay /\ \A j \in Jobs : Justified(j)
<1>. USE DEF cloud, target, progress, stopping, observer
<1>a. ASSUME UNCHANGED cloud, late' = late PROVE Serves
    BY <1>a DEF Justified, UnderWay
<1>b. ASSUME UNCHANGED cloud, NEW r \in Runners, CallRaises(r) PROVE Serves
    BY <1>b DEF CallRaises, Justified, UnderWay
<1>1. ASSUME NEW r \in Runners, PollUnauthorized(r)
     PROVE  Serves
    BY <1>1, <1>a DEF PollUnauthorized
<1>2. ASSUME NEW r \in Runners, LeaveLoop(r)
     PROVE  Serves
    BY <1>2, <1>a DEF LeaveLoop
<1>3. ASSUME NEW r \in Runners, RejectionReported(r)
     PROVE  Serves
    BY <1>3, <1>a, <1>b DEF RejectionReported, CallReturns
<1>4. ASSUME NEW r \in Runners, ClaimGranted(r)
     PROVE  Serves
    BY <1>4, <1>a DEF ClaimGranted, CallReturns
<1>5. ASSUME NEW r \in Runners, ClaimFailed(r)
     PROVE  Serves
    BY <1>5, <1>b DEF ClaimFailed
<1>6. ASSUME NEW r \in Runners, SetupFails(r)
     PROVE  Serves
    BY <1>6, <1>a DEF SetupFails
<1>7. ASSUME NEW r \in Runners, SetupDone(r)
     PROVE  Serves
    BY <1>7, <1>a DEF SetupDone
<1>8. ASSUME NEW r \in Runners, BeginTest(r)
     PROVE  Serves
    BY <1>8, <1>a DEF BeginTest
<1>9. ASSUME NEW r \in Runners, PreflightRaises(r)
     PROVE  Serves
    BY <1>9, <1>a DEF PreflightRaises
<1>10. ASSUME NEW r \in Runners, TestReturns(r)
     PROVE  Serves
    BY <1>10, <1>a DEF TestReturns
<1>11. ASSUME NEW r \in Runners, TestRaises(r)
     PROVE  Serves
    BY <1>11, <1>a DEF TestRaises
<1>12. ASSUME NEW r \in Runners, Upload(r)
     PROVE  Serves
    BY <1>12, <1>a DEF Upload
<1>13. ASSUME NEW r \in Runners, ResultsInvalid(r)
     PROVE  Serves
    BY <1>13, <1>a DEF ResultsInvalid
<1>14. ASSUME NEW r \in Runners, UploadDone(r)
     PROVE  Serves
    BY <1>14, <1>a DEF UploadDone, CallReturns
<1>15. ASSUME NEW r \in Runners, UploadFails(r)
     PROVE  Serves
    BY <1>15, <1>b DEF UploadFails
<1>16. ASSUME NEW r \in Runners, FailureReported(r)
     PROVE  Serves
    BY <1>16, <1>a, <1>b DEF FailureReported, CallReturns
<1>17. ASSUME NEW r \in Runners, RunTimeoutElapses(r)
     PROVE  Serves
    BY <1>17, <1>a DEF RunTimeoutElapses
<1>18. ASSUME NEW r \in Runners, Stop(r)
     PROVE  Serves
    BY <1>18, <1>a DEF Stop
<1>19. ASSUME NEW r \in Runners, Kill(r)
     PROVE  Serves
    BY <1>19, <1>b DEF Kill
<1>20. ASSUME NEW r \in Runners, Start(r)
     PROVE  Serves
    BY <1>20, <1>a DEF Start
<1>21. ASSUME NEW r \in Runners, CloudAccepts(r)
     PROVE  Serves
  <2>1. Request(r) \in Requests /\ Request(r) \in UnderWay
    BY <1>21, RequestType DEF CloudAccepts, Waiting, UnderWay
  <2>2. \A j \in Jobs : Justified(j)
    BY <1>21, <2>1, ServedWasUnderWay DEF CloudAccepts
  <2>. QED
    BY <1>21, <2>2 DEF CloudAccepts, UnderWay
<1>22. ASSUME NEW r \in Runners, CloudRefuses(r)
     PROVE  Serves
    BY <1>22, <1>a DEF CloudRefuses
<1>23. ASSUME NEW r \in Runners, NEW j \in Jobs, Poll(r, j)
     PROVE  Serves
    BY <1>23, <1>a DEF Poll
<1>24. ASSUME NEW r \in Runners, NEW turn \in Turns, PreflightReturns(r, turn)
     PROVE  Serves
    BY <1>24, <1>a DEF PreflightReturns
<1>25. ASSUME NEW q \in late, LateRequestArrives(q)
     PROVE  Serves
  <2>1. q \in Requests /\ q \in UnderWay /\ late' \subseteq UnderWay
    BY <1>25 DEF LateRequestArrives, TypeOK, UnderWay
  <2>2. CASE Acceptable(q) /\ Apply(q)
    BY <2>1, <2>2, ServedWasUnderWay
  <2>3. CASE UNCHANGED cloud
    BY <2>1, <2>3 DEF Justified
  <2>. QED
    BY <1>25, <2>2, <2>3 DEF LateRequestArrives
<1>26. ASSUME NEW j \in Jobs, CloudTimesOut(j)
     PROVE  Serves
    BY <1>26 DEF TypeOK, CloudTimesOut, Justified, UnderWay
<1>28. ASSUME NEW r \in Runners, CheckStop(r)
     PROVE  Serves
    BY <1>28, <1>a DEF CheckStop
<1>29. ASSUME NEW r \in Runners, PollFails(r)
     PROVE  Serves
    BY <1>29, <1>a DEF PollFails
<1>30. ASSUME NEW r \in Runners, NextTest(r)
     PROVE  Serves
    BY <1>30, <1>a DEF NextTest
<1>31. ASSUME NEW r \in Runners, Unhandled(r)
     PROVE  Serves
    BY <1>31, <1>a DEF Unhandled
<1>27. CASE UNCHANGED vars
    BY <1>27, <1>a DEF vars
<1>. QED
    BY <1>1, <1>2, <1>3, <1>4, <1>5, <1>6, <1>7, <1>8, <1>9, <1>10, <1>11, <1>12, <1>13, <1>14, <1>15, <1>16, <1>17, <1>18, <1>19, <1>20, <1>21, <1>22, <1>23, <1>24, <1>25, <1>26, <1>27, <1>28, <1>29, <1>30, <1>31
       DEF Next, Thread, Process, Cloud

(* Every upload under way reports on a closed job. *)
LEMMA UploadsReport ==
    ASSUME TypeOK, ExecutionInv, CompletionInv, NEW q \in UnderWay, q.op = "uploading"
    PROVE  q.job \in Jobs /\ Closed(q.job) /\ Reports(q.job, q.results)
<1>1. CASE q \in late
    BY <1>1 DEF TypeOK, Requests, CompletionInv
<1>2. ASSUME NEW r \in Runners, Waiting(r), q = Request(r)
     PROVE  q.job \in Jobs /\ Closed(q.job) /\ Reports(q.job, q.results)
  <2>1. pc[r] = "uploading" /\ Granted(r) /\ q.job = cur[r] /\ q.results = results[r]
    BY <1>2 DEF Request, Granted, Executing
  <2>. QED
    BY <2>1, GrantedAlone DEF CompletionInv, Gathering
<1>. QED
    BY <1>1, <1>2 DEF UnderWay

(* What was stored or sent stays a report of the job. *)
LEMMA ReportsStayTrue ==
    ASSUME TypeOK, ExecutionInv, CompletionInv, [Next]_vars
    PROVE  /\ \A q \in late' : q.op = "uploading" => Closed(q.job)' /\ Reports(q.job, q.results)'
           /\ \A j \in Jobs : state'[j] = "COMPLETED" => Closed(j)' /\ Reports(j, uploaded[j])'
<1>1. ASSUME NEW j \in Jobs, Closed(j), NEW sent, Reports(j, sent)
     PROVE  Closed(j)' /\ Reports(j, sent)'
    BY <1>1, ClosedStays DEF Reports, BaselineFailed, HasPreflight
<1>2. late' \subseteq UnderWay /\ \A j \in Jobs : Justified(j)
    BY StepsServeRequests
<1>3. ASSUME NEW q \in late', q.op = "uploading"
     PROVE  Closed(q.job)' /\ Reports(q.job, q.results)'
  <2>1. q.job \in Jobs /\ Closed(q.job) /\ Reports(q.job, q.results)
    BY <1>2, <1>3, UploadsReport
  <2>. QED
    BY <1>1, <2>1
<1>4. ASSUME NEW j \in Jobs, state'[j] = "COMPLETED"
     PROVE  Closed(j)' /\ Reports(j, uploaded[j])'
  <2>1. PICK sent : uploaded'[j] = sent /\ Closed(j) /\ Reports(j, sent)
    <3>1. CASE state[j] = "COMPLETED" /\ uploaded'[j] = uploaded[j]
      BY <3>1 DEF CompletionInv
    <3>2. ASSUME NEW q \in UnderWay, q.op = "uploading", q.job = j, uploaded'[j] = q.results
         PROVE  Closed(j) /\ Reports(j, q.results)
      BY <3>2, UploadsReport
    <3>. QED
      BY <1>2, <1>4, <3>1, <3>2 DEF Justified
  <2>2. Closed(j)' /\ Reports(j, sent)'
    BY <1>1, <2>1
  <2>. QED
    BY <2>1, <2>2 DEF Reports
<1>. QED
    BY <1>3, <1>4

(* An ordinary test that ended adds its result, and its job has not failed *)
(* its preflight.                                                          *)
LEMMA OrdinaryResult ==
    ASSUME TypeOK, ExecutionInv, Gathering, NEW r \in Runners, NEW error \in BOOLEAN,
           pc[r] = "testing", AppendResult(r, error), UNCHANGED <<dispatched, baseline, cur>>
    PROVE  Gathering'
<1>. USE DEF Gathering
<1>1. /\ cur[r] \in Jobs /\ next[r] \in Nat /\ results[r] \in Seq(Results)
      /\ Len(results[r]) + 1 = next[r] /\ ~BaselineFailed(cur[r])
    BY DEF TypeOK
<1>2. PICK result \in Results :
        result.test = next[r] /\ results' = [results EXCEPT ![r] = Append(@, result)]
    BY <1>1 DEF AppendResult, Results
<1>3. /\ results'[r] = Append(results[r], result)
      /\ pc'[r] = "loop" /\ next'[r] = next[r] + 1
      /\ \A s \in Runners \ {r} :
            pc'[s] = pc[s] /\ next'[s] = next[s] /\ results'[s] = results[s]
    BY <1>2 DEF AppendResult, TypeOK
<1>4. /\ Len(results'[r]) = next[r]
      /\ \A k \in 1 .. Len(results'[r]) : results'[r][k].test = k
    BY <1>1, <1>2, <1>3
<1>5. \A j : BaselineFailed(j)' = BaselineFailed(j)
    BY DEF BaselineFailed, HasPreflight
<1>6. \A s \in Runners \ {r} : Reports(cur[s], results[s])' = Reports(cur[s], results[s])
    BY <1>3, <1>5 DEF Reports
<1>. QED
    BY <1>1, <1>3, <1>4, <1>5, <1>6

(* A preflight that ended leaves one result, with an error if it failed;   *)
(* nobody else has its job at hand.                                        *)
LEMMA PreflightResult ==
    ASSUME TypeOK, ExecutionInv, Gathering, NEW r \in Runners, NEW error \in BOOLEAN, NEW turn,
           turn \in {"no_turn", "html_shell", "bad_status", "raised"} => error,
           pc[r] = "testing", IsPreflight(r), AppendResult(r, error),
           baseline' = [baseline EXCEPT ![cur[r]] = turn], UNCHANGED <<dispatched, cur>>
    PROVE  Gathering'
<1>. USE DEF Gathering
<1>1. /\ cur[r] \in Jobs /\ next[r] = 1 /\ results[r] = <<>>
      /\ Len(dispatched[cur[r]]) = 1 /\ dispatched[cur[r]] # <<>>
  <2>1. cur[r] \in Jobs /\ next[r] = 1 /\ Len(results[r]) + 1 = 1 /\ Len(dispatched[cur[r]]) = 1
    BY DEF TypeOK, IsPreflight, ExecutionInv
  <2>2. results[r] \in Seq(Results) /\ Len(results[r]) = 0
    BY <2>1 DEF TypeOK
  <2>3. results[r] = <<>>
    BY <2>2
  <2>4. dispatched[cur[r]] \in Seq(Dispatches)
    BY <2>1 DEF TypeOK
  <2>5. dispatched[cur[r]] # <<>>
    BY <2>1, <2>4
  <2>. QED
    BY <2>1, <2>3, <2>5
<1>2. /\ results'[r] = <<[test |-> 1, error |-> error]>>
      /\ pc'[r] = "loop" /\ next'[r] = 2
      /\ \A s \in Runners \ {r} :
            pc'[s] = pc[s] /\ next'[s] = next[s] /\ results'[s] = results[s]
    BY <1>1 DEF AppendResult, TypeOK
<1>3. BaselineFailed(cur[r])' => error
    BY <1>1 DEF BaselineFailed, TypeOK
<1>4. \A j \in Jobs \ {cur[r]} : BaselineFailed(j)' = BaselineFailed(j)
    BY DEF BaselineFailed, HasPreflight, TypeOK
<1>5. \A s \in Runners \ {r} :
        pc[s] \in {"loop", "checked", "testing", "uploading"} => cur[s] \in Jobs \ {cur[r]}
    BY GrantedAlone DEF Granted, Executing, TypeOK
<1>6. \A s \in Runners \ {r} :
        pc[s] = "uploading" => Reports(cur[s], results[s])' = Reports(cur[s], results[s])
    BY <1>2, <1>4, <1>5 DEF Reports
<1>7. /\ Len(results'[r]) + 1 = next'[r]
      /\ \A k \in 1 .. Len(results'[r]) : results'[r][k].test = k
      /\ BaselineFailed(cur[r])' => results'[r] = <<[test |-> 1, error |-> TRUE]>>
  <2>1. error => error = TRUE
    BY Zenon
  <2>. DEFINE result == [test |-> 1, error |-> error]
  <2>2. results'[r] = <<result>> /\ result.test = 1
    BY <1>2
  <2>. HIDE DEF result
  <2>3. Len(results'[r]) = 1 /\ results'[r][1] = result
    BY <2>2
  <2>4. BaselineFailed(cur[r])' => results'[r] = <<[test |-> 1, error |-> TRUE]>>
    BY <1>2, <1>3, <2>1, Zenon
  <2>. QED
    BY <1>2, <2>2, <2>3, <2>4
<1>8. \A j \in Jobs : dispatched[j] = <<>> => ~BaselineFailed(j)'
    BY <1>1, <1>4
<1>9. \A s \in Runners \ {r} :
        pc[s] \in {"loop", "checked", "testing"} => BaselineFailed(cur[s])' = BaselineFailed(cur[s])
    BY <1>4, <1>5
<1>10. \A s \in Runners \ {r} :
        /\ pc[s] \notin {"loop", "checked", "testing", "uploading", "failing"} =>
              results[s] = <<>>
        /\ pc[s] \in {"loop", "checked", "testing"} =>
              /\ Len(results[s]) + 1 = next[s]
              /\ \A k \in 1 .. Len(results[s]) : results[s][k].test = k
        /\ pc[s] \in {"checked", "testing"} => ~BaselineFailed(cur[s])'
        /\ pc[s] = "loop" /\ BaselineFailed(cur[s])' =>
              results[s] = <<[test |-> 1, error |-> TRUE]>>
        /\ pc[s] = "uploading" => Reports(cur[s], results[s])'
    BY <1>6, <1>9 DEF Gathering
<1>. HIDE DEF Gathering
<1>. QED
    BY <1>2, <1>7, <1>8, <1>10 DEF Gathering

(* The results that a thread gathers are those of the tests it dispatched. *)
LEMMA GatheringStep ==
    ASSUME TypeOK, ExecutionInv, PreflightInv, Gathering, [Next]_vars
    PROVE  Gathering'
<1>. USE DEF cloud, target, progress, stopping, observer
<1>a. ASSUME UNCHANGED <<dispatched, baseline>>
     PROVE  /\ \A j : BaselineFailed(j)' = BaselineFailed(j)
            /\ \A j, sent : Reports(j, sent)' = Reports(j, sent)
    BY <1>a DEF Reports, BaselineFailed, HasPreflight
<1>b. ASSUME NEW r \in Runners, Forget(r), NEW place \in {"poll", "killed"},
             pc' = [pc EXCEPT ![r] = place], UNCHANGED <<dispatched, baseline>>
     PROVE  Gathering'
  <2>1. /\ pc'[r] = place /\ results'[r] = <<>>
        /\ \A s \in Runners \ {r} : /\ pc'[s] = pc[s] /\ cur'[s] = cur[s]
                                    /\ next'[s] = next[s] /\ results'[s] = results[s]
    BY <1>b DEF Forget, TypeOK
  <2>. QED
    BY <1>a, <1>b, <2>1 DEF Gathering
<1>d. ASSUME NEW r \in Runners, pc' = [pc EXCEPT ![r] = "failing"],
             UNCHANGED <<dispatched, baseline, cur, next, results>>
     PROVE  Gathering'
  <2>1. pc'[r] = "failing" /\ \A s \in Runners \ {r} : pc'[s] = pc[s]
    BY <1>d DEF TypeOK
  <2>. QED
    BY <1>a, <1>d, <2>1 DEF Gathering
<1>1. ASSUME NEW r \in Runners, PollUnauthorized(r)
     PROVE  Gathering'
    BY <1>1, <1>a DEF TypeOK, PollUnauthorized, Gathering
<1>2. ASSUME NEW r \in Runners, LeaveLoop(r)
     PROVE  Gathering'
    BY <1>2, <1>a DEF TypeOK, LeaveLoop, Gathering
<1>3. ASSUME NEW r \in Runners, RejectionReported(r)
     PROVE  Gathering'
    BY <1>3, <1>b DEF RejectionReported, Resume
<1>4. ASSUME NEW r \in Runners, ClaimGranted(r)
     PROVE  Gathering'
    BY <1>4, <1>a DEF TypeOK, ClaimGranted, CallReturns, Gathering
<1>5. ASSUME NEW r \in Runners, ClaimFailed(r)
     PROVE  Gathering'
    BY <1>5, <1>b DEF ClaimFailed, Resume
<1>6. ASSUME NEW r \in Runners, SetupFails(r)
     PROVE  Gathering'
    BY <1>6, <1>d DEF SetupFails, Call
<1>7. ASSUME NEW r \in Runners, SetupDone(r)
     PROVE  Gathering'
  <2>1. /\ pc[r] = "setup" /\ pc' = [pc EXCEPT ![r] = "loop"]
        /\ UNCHANGED <<dispatched, baseline, cur, next, results>>
    BY <1>7 DEF SetupDone
  <2>2. /\ next[r] = 1 /\ results[r] = <<>> /\ dispatched[cur[r]] = <<>>
        /\ cur[r] \in Jobs
    BY <2>1 DEF ExecutionInv, Gathering, Granted, Executing, TypeOK
  <2>3. ~BaselineFailed(cur[r])
    BY <2>2 DEF Gathering
  <2>. QED
    BY <1>a, <2>1, <2>2, <2>3 DEF Gathering, TypeOK
<1>8. ASSUME NEW r \in Runners, BeginTest(r)
     PROVE  Gathering'
  <2>1. /\ pc[r] = "checked" /\ pc' = [pc EXCEPT ![r] = "testing"]
        /\ dispatched' = [dispatched EXCEPT ![cur[r]] =
                            Append(@, [runner |-> r, test |-> next[r]])]
        /\ UNCHANGED <<baseline, cur, next, results>>
    BY <1>8 DEF BeginTest
  <2>2. /\ cur[r] \in Jobs /\ next[r] \in Nat /\ dispatched[cur[r]] \in Seq(Dispatches)
        /\ next[r] = Len(dispatched[cur[r]]) + 1
    BY <2>1 DEF TypeOK, ExecutionInv
  <2>3. \A j : BaselineFailed(j)' = BaselineFailed(j)
    BY <2>1 DEF BaselineFailed, HasPreflight
  <2>4. ~BaselineFailed(cur[r])
    BY <2>1 DEF Gathering
  <2>5. \A s \in Runners \ {r} : pc[s] = "uploading" => cur[s] \in Jobs \ {cur[r]}
    BY <2>1, GrantedAlone DEF Granted, Executing
  <2>6. \A s \in Runners \ {r} : pc[s] = "uploading" => Reports(cur[s], results[s])'
    BY <2>1, <2>3, <2>5 DEF Reports, Gathering, TypeOK
  <2>7. \A j \in Jobs : dispatched'[j] = <<>> => dispatched[j] = <<>>
    BY <2>1, <2>2 DEF TypeOK, Dispatches
  <2>8. /\ pc'[r] = "testing"
        /\ \A s \in Runners \ {r} : pc'[s] = pc[s]
    BY <2>1 DEF TypeOK
  <2>. QED
    BY <2>1, <2>3, <2>4, <2>6, <2>7, <2>8 DEF Gathering
<1>9. ASSUME NEW r \in Runners, PreflightRaises(r)
     PROVE  Gathering'
    BY <1>9, PreflightResult DEF PreflightRaises
<1>10. ASSUME NEW r \in Runners, TestReturns(r)
     PROVE  Gathering'
  <2>1. pc[r] = "testing" /\ UNCHANGED <<dispatched, baseline, cur>>
        /\ \E error \in BOOLEAN : AppendResult(r, error)
    BY <1>10 DEF TestReturns
  <2>. QED
    BY <2>1, OrdinaryResult
<1>11. ASSUME NEW r \in Runners, TestRaises(r)
     PROVE  Gathering'
  <2>1. pc[r] = "testing" /\ UNCHANGED <<dispatched, baseline, cur>>
        /\ \E error \in BOOLEAN : AppendResult(r, error)
    BY <1>11 DEF TestRaises
  <2>. QED
    BY <2>1, OrdinaryResult
<1>12. ASSUME NEW r \in Runners, Upload(r)
     PROVE  Gathering'
  <2>1. /\ pc[r] = "loop" /\ pc' = [pc EXCEPT ![r] = "uploading"]
        /\ UNCHANGED <<dispatched, baseline, cur, next, results>>
    BY <1>12 DEF Upload, LoopDone, Call
  <2>2. Reports(cur[r], results[r])
    <3>1. /\ Len(results[r]) + 1 = next[r] /\ next[r] = Len(dispatched[cur[r]]) + 1
          /\ \A k \in 1 .. Len(results[r]) : results[r][k].test = k
          /\ BaselineFailed(cur[r]) => results[r] = <<[test |-> 1, error |-> TRUE]>>
      BY <2>1 DEF Gathering, ExecutionInv
    <3>2. results[r] \in Seq(Results) /\ dispatched[cur[r]] \in Seq(Dispatches)
      BY <2>1 DEF TypeOK
    <3>. QED
      BY <3>1, <3>2 DEF Reports
  <2>. QED
    BY <1>a, <2>1, <2>2 DEF Gathering, TypeOK
<1>13. ASSUME NEW r \in Runners, ResultsInvalid(r)
     PROVE  Gathering'
    BY <1>13, <1>d DEF ResultsInvalid, Call
<1>14. ASSUME NEW r \in Runners, UploadDone(r)
     PROVE  Gathering'
    BY <1>14, <1>b DEF UploadDone, Resume
<1>15. ASSUME NEW r \in Runners, UploadFails(r)
     PROVE  Gathering'
    BY <1>15, <1>d DEF UploadFails, Call
<1>16. ASSUME NEW r \in Runners, FailureReported(r)
     PROVE  Gathering'
    BY <1>16, <1>b DEF FailureReported, Resume
<1>17. ASSUME NEW r \in Runners, RunTimeoutElapses(r)
     PROVE  Gathering'
    BY <1>17, <1>a DEF TypeOK, RunTimeoutElapses, Gathering
<1>18. ASSUME NEW r \in Runners, Stop(r)
     PROVE  Gathering'
    BY <1>18, <1>a DEF TypeOK, Stop, Gathering
<1>19. ASSUME NEW r \in Runners, Kill(r)
     PROVE  Gathering'
    BY <1>19, <1>b DEF Kill
<1>20. ASSUME NEW r \in Runners, Start(r)
     PROVE  Gathering'
    BY <1>20, <1>b DEF Start, Resume
<1>21. ASSUME NEW r \in Runners, CloudAccepts(r)
     PROVE  Gathering'
    BY <1>21, <1>a DEF TypeOK, CloudAccepts, Gathering
<1>22. ASSUME NEW r \in Runners, CloudRefuses(r)
     PROVE  Gathering'
    BY <1>22, <1>a DEF TypeOK, CloudRefuses, Waiting, Gathering
<1>23. ASSUME NEW r \in Runners, NEW j \in Jobs, Poll(r, j)
     PROVE  Gathering'
    BY <1>23, <1>a DEF TypeOK, Poll, Call, Gathering
<1>24. ASSUME NEW r \in Runners, NEW turn \in Turns, PreflightReturns(r, turn)
     PROVE  Gathering'
  <2>. DEFINE failed == ~PreflightTurnSucceeded(cur[r], turn)
  <2>1. /\ pc[r] = "testing" /\ IsPreflight(r) /\ AppendResult(r, failed)
        /\ baseline' = [baseline EXCEPT ![cur[r]] = turn] /\ UNCHANGED <<dispatched, cur>>
    BY <1>24 DEF PreflightReturns
  <2>2. /\ failed \in BOOLEAN
        /\ turn \in {"no_turn", "html_shell", "bad_status", "raised"} => failed
    BY DEF PreflightTurnSucceeded
  <2>. QED
    BY <2>1, <2>2, PreflightResult
<1>25. ASSUME NEW q \in late, LateRequestArrives(q)
     PROVE  Gathering'
    BY <1>25, <1>a DEF TypeOK, LateRequestArrives, Gathering
<1>26. ASSUME NEW j \in Jobs, CloudTimesOut(j)
     PROVE  Gathering'
    BY <1>26, <1>a DEF TypeOK, CloudTimesOut, Gathering
<1>28. ASSUME NEW r \in Runners, CheckStop(r)
     PROVE  Gathering'
    BY <1>28, <1>a DEF TypeOK, CheckStop, Gathering
<1>29. ASSUME NEW r \in Runners, PollFails(r)
     PROVE  Gathering'
    BY <1>29, <1>a DEF TypeOK, PollFails, Gathering
<1>30. ASSUME NEW r \in Runners, NextTest(r)
     PROVE  Gathering'
  <2>1. /\ pc[r] = "loop" /\ pc' = [pc EXCEPT ![r] = "checked"]
        /\ UNCHANGED <<dispatched, baseline, cur, next, results>>
    BY <1>30 DEF NextTest
  <2>2. /\ cur[r] \in Jobs /\ next[r] \in Nat /\ dispatched[cur[r]] \in Seq(Dispatches)
        /\ next[r] = Len(dispatched[cur[r]]) + 1
    BY <2>1 DEF TypeOK, ExecutionInv
  <2>3. ~BaselineFailed(cur[r])
    <3>1. CASE HasPreflight(cur[r]) /\ next[r] > 1
      <4>1. Healthy(cur[r])
        BY <1>30, <2>1, <3>1 DEF NextTest, MustBreak, PreflightInv
      <4>. QED
        BY <4>1 DEF Healthy, BaselineFailed
    <3>2. CASE ~(next[r] > 1)
      <4>1. dispatched[cur[r]] = <<>>
        BY <2>2, <3>2
      <4>. QED
        BY <2>2, <4>1 DEF Gathering
    <3>. QED
      BY <3>1, <3>2 DEF BaselineFailed
  <2>. QED
    BY <1>a, <2>1, <2>2, <2>3 DEF Gathering, TypeOK
<1>31. ASSUME NEW r \in Runners, Unhandled(r)
     PROVE  Gathering'
    BY <1>31, <1>a DEF TypeOK, Unhandled, Call, Gathering
<1>27. CASE UNCHANGED vars
    BY <1>27, <1>a DEF vars, Gathering
<1>. QED
    BY <1>1, <1>2, <1>3, <1>4, <1>5, <1>6, <1>7, <1>8, <1>9, <1>10, <1>11, <1>12, <1>13, <1>14, <1>15, <1>16, <1>17, <1>18, <1>19, <1>20, <1>21, <1>22, <1>23, <1>24, <1>25, <1>26, <1>27, <1>28, <1>29, <1>30, <1>31
       DEF Next, Thread, Process, Cloud

(* The completion invariant is inductive. *)
LEMMA CompletionInvStep ==
    ASSUME TypeOK, ExecutionInv, PreflightInv, CompletionInv, [Next]_vars
    PROVE  CompletionInv'
    BY GatheringStep, ReportsStayTrue DEF CompletionInv

(* All that the poller is proved to keep. *)
PollerInv == TypeOK /\ ExecutionInv /\ PreflightInv /\ CompletionInv

LEMMA PollerInvariant == Spec => []PollerInv
<1>1. Init => ExecutionInv /\ PreflightInv /\ CompletionInv
    BY PollerAssumption DEF Init, ExecutionInv, EachTestOnceByOwner, Granted, Executing,
       PreflightInv, PreflightBoundary, CompletionInv, Gathering, Closed, BaselineFailed
<1>2. PollerInv /\ [Next]_vars => ExecutionInv' /\ PreflightInv' /\ CompletionInv'
    BY ExecutionInvStep, PreflightInvStep, CompletionInvStep DEF PollerInv
<1>. QED
    BY <1>1, <1>2, TypeCorrect, PTL DEF Spec, PollerInv

(* A completed job was stored with one result for each test that reached   *)
(* the target, whichever request completed it, and is tested no more.      *)
THEOREM CompletedJobsAreCovered == Spec => []CompletedCoversDispatches
<1>1. PollerInv => CompletedCoversDispatches
    BY DEF PollerInv, CompletionInv, Closed, Reports, CompletedCoversDispatches, Granted, Executing
<1>. QED
    BY <1>1, PollerInvariant, PTL

-----------------------------------------------------------------------------
(* What a request does that the cloud accepts, in the contract's words: a  *)
(* claim grants a job, an upload under way completes it, a report fails it. *)
LEMMA ServedAsContract ==
    ASSUME TypeOK, ExecutionInv, CompletionInv, NEW q \in UnderWay, q \in Requests,
           Acceptable(q), Apply(q), UNCHANGED dispatched
    PROVE  Contract!Next
<1>. DEFINE j == q.job
<1>1. /\ j \in Jobs /\ q.runner \in Runners
      /\ uploaded \in [Jobs -> Seq(Results)] /\ state \in [Jobs -> JobStates]
    BY DEF Requests, TypeOK
<1>2. CASE q.op = "claiming"
  <2>1. Contract!Claim(q.runner, j)
    BY <1>1, <1>2 DEF Acceptable, Apply, Contract!Claim
  <2>. QED
    BY <1>1, <2>1 DEF Contract!Next
<1>3. CASE q.op = "uploading"
  <2>1. /\ state[j] = "RUNNING" /\ state' = [state EXCEPT ![j] = "COMPLETED"]
        /\ uploaded' = [uploaded EXCEPT ![j] = q.results] /\ owner' = owner
    BY <1>3 DEF Acceptable, Apply
  <2>2. Len(q.results) = Len(dispatched[j])
    BY <1>3, UploadsReport DEF Reports
  <2>3. [i \in Jobs |-> Len(uploaded[i])]' =
            [[i \in Jobs |-> Len(uploaded[i])] EXCEPT ![j] = Len(dispatched[j])]
    BY <1>1, <2>1, <2>2
  <2>4. Contract!Complete(j)
    BY <2>1, <2>3 DEF Contract!Complete
  <2>. QED
    BY <1>1, <2>4 DEF Contract!Next
<1>4. CASE q.op \in {"failing", "rejecting"}
  <2>1. Contract!Fail(j)
    BY <1>4 DEF Acceptable, Apply, Contract!Fail
  <2>. QED
    BY <1>1, <2>1 DEF Contract!Next
<1>. QED
    BY <1>2, <1>3, <1>4 DEF Acceptable

(* A test that begins is the next dispatch of a job that is not completed. *)
LEMMA BeginTestAsContract ==
    ASSUME PollerInv, NEW r \in Runners, BeginTest(r)
    PROVE  Contract!Next
<1>. DEFINE j == cur[r]
<1>1. /\ pc[r] = "checked" /\ next[r] <= Len(Tests[j])
      /\ dispatched' = [dispatched EXCEPT ![j] = Append(@, [runner |-> r, test |-> next[r]])]
      /\ UNCHANGED <<state, owner, uploaded>>
    BY DEF BeginTest, cloud, PollerInv, ExecutionInv
<1>2. Granted(r)
    BY <1>1 DEF Granted, Executing
<1>3. j \in Jobs /\ owner[j] = r /\ owner[j] # NoRunner
    BY <1>2, GrantedOwner DEF PollerInv
<1>4. next[r] = Len(dispatched[j]) + 1 /\ Len(dispatched[j]) \in Nat /\ Len(Tests[j]) \in Nat
    BY <1>1, <1>3, PollerAssumption DEF PollerInv, ExecutionInv, TypeOK
<1>5. state[j] # "COMPLETED"
    BY <1>1, <1>2, <1>3 DEF PollerInv, CompletionInv, Closed
<1>6. Contract!Dispatch(j)
    BY <1>1, <1>3, <1>4, <1>5 DEF Contract!Dispatch
<1>. QED
    BY <1>3, <1>6 DEF Contract!Next

(* Every step of the pollers, of the cloud and of the network is a step of *)
(* the contract, or one that its users do not see.                         *)
LEMMA StepsAsContract ==
    ASSUME PollerInv, [Next]_vars
    PROVE  [Contract!Next]_(Contract!vars)
<1>. USE DEF cloud, target, progress, stopping, observer
<1>a. ASSUME UNCHANGED <<state, owner, uploaded, dispatched>>
     PROVE  UNCHANGED Contract!vars
    BY <1>a DEF Contract!vars
<1>1. ASSUME NEW r \in Runners, PollUnauthorized(r)
     PROVE  [Contract!Next]_(Contract!vars)
    BY <1>1, <1>a DEF PollUnauthorized
<1>2. ASSUME NEW r \in Runners, LeaveLoop(r)
     PROVE  [Contract!Next]_(Contract!vars)
    BY <1>2, <1>a DEF LeaveLoop
<1>3. ASSUME NEW r \in Runners, RejectionReported(r)
     PROVE  [Contract!Next]_(Contract!vars)
    BY <1>3, <1>a DEF RejectionReported
<1>4. ASSUME NEW r \in Runners, ClaimGranted(r)
     PROVE  [Contract!Next]_(Contract!vars)
    BY <1>4, <1>a DEF ClaimGranted
<1>5. ASSUME NEW r \in Runners, ClaimFailed(r)
     PROVE  [Contract!Next]_(Contract!vars)
    BY <1>5, <1>a DEF ClaimFailed
<1>6. ASSUME NEW r \in Runners, SetupFails(r)
     PROVE  [Contract!Next]_(Contract!vars)
    BY <1>6, <1>a DEF SetupFails
<1>7. ASSUME NEW r \in Runners, SetupDone(r)
     PROVE  [Contract!Next]_(Contract!vars)
    BY <1>7, <1>a DEF SetupDone
<1>8. ASSUME NEW r \in Runners, BeginTest(r)
     PROVE  [Contract!Next]_(Contract!vars)
    BY <1>8, BeginTestAsContract
<1>9. ASSUME NEW r \in Runners, PreflightRaises(r)
     PROVE  [Contract!Next]_(Contract!vars)
    BY <1>9, <1>a DEF PreflightRaises
<1>10. ASSUME NEW r \in Runners, TestReturns(r)
     PROVE  [Contract!Next]_(Contract!vars)
    BY <1>10, <1>a DEF TestReturns
<1>11. ASSUME NEW r \in Runners, TestRaises(r)
     PROVE  [Contract!Next]_(Contract!vars)
    BY <1>11, <1>a DEF TestRaises
<1>12. ASSUME NEW r \in Runners, Upload(r)
     PROVE  [Contract!Next]_(Contract!vars)
    BY <1>12, <1>a DEF Upload
<1>13. ASSUME NEW r \in Runners, ResultsInvalid(r)
     PROVE  [Contract!Next]_(Contract!vars)
    BY <1>13, <1>a DEF ResultsInvalid
<1>14. ASSUME NEW r \in Runners, UploadDone(r)
     PROVE  [Contract!Next]_(Contract!vars)
    BY <1>14, <1>a DEF UploadDone
<1>15. ASSUME NEW r \in Runners, UploadFails(r)
     PROVE  [Contract!Next]_(Contract!vars)
    BY <1>15, <1>a DEF UploadFails
<1>16. ASSUME NEW r \in Runners, FailureReported(r)
     PROVE  [Contract!Next]_(Contract!vars)
    BY <1>16, <1>a DEF FailureReported
<1>17. ASSUME NEW r \in Runners, RunTimeoutElapses(r)
     PROVE  [Contract!Next]_(Contract!vars)
    BY <1>17, <1>a DEF RunTimeoutElapses
<1>18. ASSUME NEW r \in Runners, Stop(r)
     PROVE  [Contract!Next]_(Contract!vars)
    BY <1>18, <1>a DEF Stop
<1>19. ASSUME NEW r \in Runners, Kill(r)
     PROVE  [Contract!Next]_(Contract!vars)
    BY <1>19, <1>a DEF Kill
<1>20. ASSUME NEW r \in Runners, Start(r)
     PROVE  [Contract!Next]_(Contract!vars)
    BY <1>20, <1>a DEF Start
<1>21. ASSUME NEW r \in Runners, CloudAccepts(r)
     PROVE  [Contract!Next]_(Contract!vars)
  <2>1. Request(r) \in Requests /\ Request(r) \in UnderWay
    BY <1>21, RequestType DEF CloudAccepts, Waiting, UnderWay, PollerInv
  <2>. QED
    BY <1>21, <2>1, ServedAsContract DEF CloudAccepts, PollerInv
<1>22. ASSUME NEW r \in Runners, CloudRefuses(r)
     PROVE  [Contract!Next]_(Contract!vars)
    BY <1>22, <1>a DEF CloudRefuses
<1>23. ASSUME NEW r \in Runners, NEW j \in Jobs, Poll(r, j)
     PROVE  [Contract!Next]_(Contract!vars)
    BY <1>23, <1>a DEF Poll
<1>24. ASSUME NEW r \in Runners, NEW turn \in Turns, PreflightReturns(r, turn)
     PROVE  [Contract!Next]_(Contract!vars)
    BY <1>24, <1>a DEF PreflightReturns
<1>25. ASSUME NEW q \in late, LateRequestArrives(q)
     PROVE  [Contract!Next]_(Contract!vars)
  <2>1. q \in Requests /\ q \in UnderWay
    BY <1>25 DEF TypeOK, UnderWay, PollerInv
  <2>. QED
    BY <1>25, <1>a, <2>1, ServedAsContract DEF LateRequestArrives, PollerInv
<1>26. ASSUME NEW j \in Jobs, CloudTimesOut(j)
     PROVE  [Contract!Next]_(Contract!vars)
  <2>1. Contract!GoOffline(j)
    BY <1>26 DEF CloudTimesOut, Contract!GoOffline
  <2>. QED
    BY <2>1 DEF Contract!Next
<1>28. ASSUME NEW r \in Runners, CheckStop(r)
     PROVE  [Contract!Next]_(Contract!vars)
    BY <1>28, <1>a DEF CheckStop
<1>29. ASSUME NEW r \in Runners, PollFails(r)
     PROVE  [Contract!Next]_(Contract!vars)
    BY <1>29, <1>a DEF PollFails
<1>30. ASSUME NEW r \in Runners, NextTest(r)
     PROVE  [Contract!Next]_(Contract!vars)
    BY <1>30, <1>a DEF NextTest
<1>31. ASSUME NEW r \in Runners, Unhandled(r)
     PROVE  [Contract!Next]_(Contract!vars)
    BY <1>31, <1>a DEF Unhandled
<1>27. CASE UNCHANGED vars
    BY <1>27, <1>a DEF vars
<1>. QED
    BY <1>1, <1>2, <1>3, <1>4, <1>5, <1>6, <1>7, <1>8, <1>9, <1>10, <1>11, <1>12, <1>13, <1>14, <1>15, <1>16, <1>17, <1>18, <1>19, <1>20, <1>21, <1>22, <1>23, <1>24, <1>25, <1>26, <1>27, <1>28, <1>29, <1>30, <1>31
       DEF Next, Thread, Process, Cloud

(* The pollers, racing, crashing and restarting, with calls that are lost  *)
(* or arrive late, keep the contract of the job service.                   *)
THEOREM PollersImplementContract == Spec => ImplementsContract
<1>1. Init => Contract!Init
    BY DEF Init, Contract!Init
<1>2. PollerInv /\ [Next]_vars => [Contract!Next]_(Contract!vars)
    BY StepsAsContract
<1>. QED
    BY <1>1, <1>2, PollerInvariant, PTL DEF Spec, ImplementsContract, Contract!Spec
=============================================================================
