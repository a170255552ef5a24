------------------------- MODULE RunnerProcessProofs -------------------------
(* Theorems about RunnerProcess, for any back-off. *)
EXTENDS RunnerProcess, TLAPS

(* The values that an exit status of 1 is given for. *)
Failures == Refusals \cup {"poller_stopped"}

Early == {"starting", "pid_written", "signals_set", "heartbeat_started", "server_started"}

(* Nobody but the main thread, once it has read its reason, tells the      *)
(* poller to stop: one that ended before was refused by the cloud.  Hence  *)
(* so was the token behind every status, and every reason, of failure.     *)
FailureInv ==
    /\ token \in Tokens
    /\ main \in MainPlaces
    /\ pollerStop => main \notin Early \cup {"waiting", "woken"}
    /\ main \in Early => poller = "none"
    /\ main = "waiting" /\ poller = "ended" => token \in Refusals
    /\ status \in Failures => token \in Refusals
    /\ reason \in Failures => token \in Refusals
    /\ exitCode = "1" => main = "exited"
    /\ FailureHasACause

LEMMA FailureInvInitially == Init => FailureInv
  BY DEF Init, FailureInv, FailureHasACause, Tokens, Refusals, Failures, MainPlaces, Early

LEMMA FailureInvKept == FailureInv /\ [Next]_vars => FailureInv'
  <1> SUFFICES ASSUME FailureInv, [Next]_vars PROVE FailureInv'
    OBVIOUS
  <1> USE DEF FailureInv, FailureHasACause, Failures, Refusals, Tokens, MainPlaces, Early,
              events, ending, threads, MainStep, ProcessEnds, FirstCause
  <1>1. CASE WritePid \/ InstallSignals \/ StartHeartbeat \/ StartStatusServer \/ StartPoller
    BY <1>1 DEF WritePid, InstallSignals, StartHeartbeat, StartStatusServer, StartPoller
  <1>2. CASE StartupFails
    BY <1>2 DEF StartupFails
  <1>3. CASE WakeUp
    BY <1>3 DEF WakeUp
  <1>4. CASE SeePollerStopped
    BY <1>4 DEF SeePollerStopped, Shutdown
  <1>5. CASE ReadReason
    BY <1>5 DEF ReadReason
  <1>6. CASE JoinPoller \/ JoinHeartbeat \/ StopServer
    BY <1>6 DEF JoinPoller, JoinHeartbeat, StopServer
  <1>7. CASE Exit
    BY <1>7 DEF Exit
  <1>8. CASE SendBeat \/ BeatAcknowledged \/ BeatFails \/ HeartbeatStops
    BY <1>8 DEF SendBeat, BeatAcknowledged, BeatFails, BeatEnds, HeartbeatStops
  <1>9. CASE BeatRefused
    BY <1>9 DEF BeatRefused, Shutdown
  <1>10. CASE Alive /\ (JobStarts \/ JobCompletes)
    BY <1>10 DEF JobStarts, JobCompletes, Alive
  <1>11. CASE Alive /\ PollerEnds
    BY <1>11 DEF PollerEnds, Alive
  <1>12. CASE StatusClientConnects \/ StatusClientServed \/ ServerLeaves
    BY <1>12 DEF StatusClientConnects, StatusClientServed, ServerLeaves
  <1>13. CASE Signal \/ SignalInLock
    BY <1>13 DEF Signal, SignalInLock, SignalsHandled, Shutdown
  <1>14. CASE Killed
    BY <1>14 DEF Killed, Alive
  <1>15. CASE TokenRefused
    BY <1>15 DEF TokenRefused
  <1>16. CASE Done \/ UNCHANGED vars
    BY <1>16 DEF Done, vars
  <1> QED
    BY <1>1, <1>2, <1>3, <1>4, <1>5, <1>6, <1>7, <1>8, <1>9, <1>10, <1>11, <1>12, <1>13, <1>14,
       <1>15, <1>16 DEF Next, Main

(* Whatever the threads do in what order, the process ends with status 1   *)
(* only after a refusal by the cloud or a failed start.                    *)
THEOREM FailuresHaveACause == Spec => []FailureHasACause
  <1>1. FailureInv => FailureHasACause
    BY DEF FailureInv
  <1> QED
    BY <1>1, FailureInvInitially, FailureInvKept, PTL DEF Spec
-----------------------------------------------------------------------------
(* The end of a process is never undone, nor is what it was for.           *)
LEMMA StalePidKept == StalePidNeedsCrash /\ [Next]_vars => StalePidNeedsCrash'
  <1> SUFFICES ASSUME StalePidNeedsCrash, [Next]_vars PROVE StalePidNeedsCrash'
    OBVIOUS
  <1> USE DEF StalePidNeedsCrash, Alive,
              events, ending, threads, MainStep, ProcessEnds, FirstCause
  <1>1. CASE WritePid \/ InstallSignals \/ StartHeartbeat \/ StartStatusServer \/ StartPoller
    BY <1>1 DEF WritePid, InstallSignals, StartHeartbeat, StartStatusServer, StartPoller
  <1>2. CASE StartupFails \/ Exit \/ Killed
    BY <1>2 DEF StartupFails, Exit, Killed
  <1>3. CASE WakeUp \/ ReadReason \/ JoinPoller \/ JoinHeartbeat \/ StopServer
    BY <1>3 DEF WakeUp, ReadReason, JoinPoller, JoinHeartbeat, StopServer
  <1>4. CASE SeePollerStopped \/ BeatRefused \/ Signal \/ SignalInLock
    BY <1>4 DEF SeePollerStopped, BeatRefused, Signal, SignalInLock, Shutdown
  <1>5. CASE SendBeat \/ BeatAcknowledged \/ BeatFails \/ HeartbeatStops
    BY <1>5 DEF SendBeat, BeatAcknowledged, BeatFails, BeatEnds, HeartbeatStops
  <1>6. CASE JobStarts \/ JobCompletes \/ PollerEnds
    BY <1>6 DEF JobStarts, JobCompletes, PollerEnds
  <1>7. CASE StatusClientConnects \/ StatusClientServed \/ ServerLeaves
    BY <1>7 DEF StatusClientConnects, StatusClientServed, ServerLeaves
  <1>8. CASE TokenRefused \/ Done \/ UNCHANGED vars
    BY <1>8 DEF TokenRefused, Done, vars
  <1> QED
    BY <1>1, <1>2, <1>3, <1>4, <1>5, <1>6, <1>7, <1>8 DEF Next, Main

(* Every shutdown of its own gets to the removal of the process's PID file. *)
THEOREM StalePidsAreCrashes == Spec => []StalePidNeedsCrash
  <1>1. Init => StalePidNeedsCrash
    BY DEF Init, StalePidNeedsCrash, Alive
  <1> QED
    BY <1>1, StalePidKept, PTL DEF Spec
-----------------------------------------------------------------------------
(* The heartbeat waits no less than the initial back-off and no longer     *)
(* than the cap, and everything else stays in its type.                    *)
THEOREM TypeCorrect == Spec => []TypeOK
  <1> USE DEF TypeOK, Tokens, Refusals, Reasons, Statuses, MainPlaces, PidFiles,
              ThreadPlaces, events, ending, threads, MainStep, ProcessEnds, FirstCause
  <1>1. Init => TypeOK
    <2>1. InitialBackoff \in InitialBackoff .. MaxBackoff
      BY BackoffAssumption
    <2> HIDE DEF TypeOK
    <2>2. ASSUME Init PROVE TypeOK
      <3>1. backoff \in InitialBackoff .. MaxBackoff
        BY <2>1, <2>2 DEF Init
      <3> QED
        BY <2>2, <3>1 DEF Init, TypeOK
    <2> QED
      BY <2>2
  <1>2. TypeOK /\ [Next]_vars => TypeOK'
    <2> SUFFICES ASSUME TypeOK, [Next]_vars PROVE TypeOK'
      OBVIOUS
    <2>1. CASE WritePid \/ InstallSignals \/ StartHeartbeat \/ StartStatusServer \/ StartPoller
      BY <2>1 DEF WritePid, InstallSignals, StartHeartbeat, StartStatusServer, StartPoller
    <2>2. CASE StartupFails \/ Exit \/ Killed
      BY <2>2 DEF StartupFails, Exit, Killed
    <2>3. CASE WakeUp \/ ReadReason \/ JoinPoller \/ JoinHeartbeat \/ StopServer
      BY <2>3 DEF WakeUp, ReadReason, JoinPoller, JoinHeartbeat, StopServer
    <2>4. CASE SeePollerStopped \/ BeatRefused \/ Signal \/ SignalInLock
      BY <2>4 DEF SeePollerStopped, BeatRefused, Signal, SignalInLock, Shutdown
    <2>5. CASE SendBeat \/ BeatAcknowledged \/ HeartbeatStops
      BY <2>5, BackoffAssumption DEF SendBeat, BeatAcknowledged, BeatEnds, HeartbeatStops
    <2>6. CASE BeatFails
      <3>1. backoff' \in InitialBackoff .. MaxBackoff
        BY <2>6, BackoffAssumption DEF BeatFails
      <3> QED
        BY <2>6, <3>1 DEF BeatFails, BeatEnds
    <2>7. CASE JobStarts \/ JobCompletes \/ PollerEnds
      BY <2>7 DEF JobStarts, JobCompletes, PollerEnds
    <2>8. CASE StatusClientConnects \/ StatusClientServed \/ ServerLeaves
      BY <2>8 DEF StatusClientConnects, StatusClientServed, ServerLeaves
    <2>9. CASE TokenRefused \/ Done \/ UNCHANGED vars
      BY <2>9 DEF TokenRefused, Done, vars
    <2> QED
      BY <2>1, <2>2, <2>3, <2>4, <2>5, <2>6, <2>7, <2>8, <2>9 DEF Next, Main
  <1> QED
    BY <1>1, <1>2, PTL DEF Spec
=============================================================================
