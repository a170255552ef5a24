--------------------------- MODULE RunnerProcess ---------------------------
(***************************************************************************)
(* One "badass-runner start" process after registration (cli.py, start):   *)
(* the main thread, the heartbeat thread, the thread of the status server, *)
(* the poller thread reduced to the callbacks JobPoller makes, and the     *)
(* signals that reach the process.  They share the dictionary _state and   *)
(* the shutdown event.                                                     *)
(***************************************************************************)
EXTENDS Naturals

CONSTANTS
    InitialBackoff,     \* seconds before the first retry of a heartbeat
    MaxBackoff          \* cap of the exponential back-off

ASSUME BackoffAssumption ==
    /\ InitialBackoff \in Nat \ {0}
    /\ MaxBackoff \in Nat
    /\ InitialBackoff <= MaxBackoff

VARIABLES
    token,          \* what the cloud thinks of the runner token
    main,           \* where the main thread is
    status,         \* _state["status"]
    shutdownEvent,
    reason,         \* what the main thread read from _state at the end
    exitCode,
    pidFile,        \* the PID file that names this process
    heartbeat,      \* where the heartbeat thread is
    backoff,
    server,         \* what the thread of the status server does
    poller,         \* where the poller thread is
    pollerStop,     \* the poller's stop event
    heartbeatStop,  \* the heartbeat's stop event
    cause           \* the first reason this process had to shut down

events == <<shutdownEvent, pollerStop, heartbeatStop>>
ending == <<reason, exitCode>>
threads == <<heartbeat, backoff, server, poller>>
vars == <<token, main, status, ending, pidFile, threads, events, cause>>

Refusals    == {"revoked", "invalid_auth"}
Tokens      == {"valid"} \cup Refusals
Reasons     == Refusals \cup {"poller_stopped", "shutdown"}
Statuses    == Reasons \cup {"connected", "running_job"}
MainPlaces  == {"starting", "pid_written", "signals_set", "heartbeat_started",
                "server_started", "waiting", "stuck", "woken", "stopping_poller",
                "stopping_heartbeat", "stopping_server", "clearing_pid", "exited"}
\* No file, the file, a file that could not be removed.
PidFiles     == {"none", "present", "undeletable"}
ThreadPlaces == {"none", "running", "ended"}

TypeOK ==
    /\ token \in Tokens
    /\ main \in MainPlaces
    /\ status \in Statuses
    /\ reason \in Statuses \cup {"none"}
    /\ exitCode \in {"none", "0", "1", "killed"}
    /\ pidFile \in PidFiles
    /\ heartbeat \in ThreadPlaces \cup {"sending", "blocked"}
    /\ backoff \in InitialBackoff .. MaxBackoff
    /\ server \in ThreadPlaces \cup {"answering"}
    /\ poller \in ThreadPlaces \cup {"in_job"}
    /\ shutdownEvent \in BOOLEAN /\ pollerStop \in BOOLEAN /\ heartbeatStop \in BOOLEAN
    /\ cause \in Reasons \cup {"none", "crash"}

Init ==
    /\ token = "valid"
    /\ main = "starting"
    /\ status = "connected"
    /\ reason = "none" /\ exitCode = "none"
    /\ pidFile = "none"
    /\ heartbeat = "none"
    /\ backoff = InitialBackoff
    /\ server = "none" /\ poller = "none"
    /\ shutdownEvent = FALSE /\ pollerStop = FALSE /\ heartbeatStop = FALSE
    /\ cause = "none"

Alive == main # "exited"

FirstCause(c) == cause' = IF cause = "none" THEN c ELSE cause

-----------------------------------------------------------------------------
(* Shutdown requests.                                                      *)

\* Faulty: the main thread is not woken.
ShutdownUnseen(why) == status' = why /\ FirstCause(why) /\ UNCHANGED shutdownEvent

(* _shutdown(reason): the reason goes to _state, then the event is set,    *)
(* unless its lock is held for ever.                                       *)
Shutdown(why) ==
    /\ status' = why
    /\ shutdownEvent' = (shutdownEvent \/ main # "stuck")
    /\ FirstCause(why)

(* The process ends and takes its threads with it. *)
ProcessEnds(code) ==
    /\ main' = "exited"
    /\ exitCode' = code
    /\ heartbeat' = "ended"
    /\ server' = "ended"
    /\ poller' = "ended"

SignalsHandled == main \notin {"starting", "pid_written", "exited"}

(* SIGTERM or SIGINT once the handlers are installed. *)
Signal ==
    /\ SignalsHandled
    /\ Shutdown("shutdown")
    /\ UNCHANGED <<token, main, ending, pidFile, threads, pollerStop, heartbeatStop>>

(* The handler runs in the main thread.  If it interrupts Event.wait, or   *)
(* Event.set, while the lock of the event is held, its own set() waits for *)
(* that lock for ever.                                                     *)
SignalInLock ==
    /\ main = "waiting"
    /\ main' = "stuck"
    /\ status' = "shutdown"
    /\ FirstCause("shutdown")
    /\ UNCHANGED <<token, ending, pidFile, threads, events>>

(* SIGTERM before that, or SIGKILL at any time. *)
Killed ==
    /\ Alive
    /\ ProcessEnds("killed")
    /\ FirstCause("crash")
    /\ UNCHANGED <<token, status, reason, pidFile, backoff, events>>

-----------------------------------------------------------------------------
(* The main thread.                                                        *)

MainStep(from, to) == main = from /\ main' = to

WritePid ==
    /\ MainStep("starting", "pid_written")
    /\ pidFile' = "present"
    /\ UNCHANGED <<token, status, ending, threads, events, cause>>

InstallSignals ==
    /\ MainStep("pid_written", "signals_set")
    /\ UNCHANGED <<token, status, ending, pidFile, threads, events, cause>>

StartHeartbeat ==
    /\ MainStep("signals_set", "heartbeat_started")
    /\ heartbeat' = "running"
    /\ UNCHANGED <<token, status, ending, pidFile, backoff, server, poller, events,
                   cause>>

StartStatusServer ==
    /\ MainStep("heartbeat_started", "server_started")
    /\ server' = "running"
    /\ UNCHANGED <<token, status, ending, pidFile, heartbeat, backoff, poller,
                   events, cause>>

StartPoller ==
    /\ MainStep("server_started", "waiting")
    /\ poller' = "running"
    /\ UNCHANGED <<token, status, ending, pidFile, heartbeat, backoff, server,
                   events, cause>>

(* The status port is taken, or the credential index cannot be loaded: the *)
(* exception leaves start() without any cleanup.                           *)
StartupFails ==
    /\ main \in {"heartbeat_started", "server_started"}
    /\ ProcessEnds("1")
    /\ cause' = "crash"
    /\ UNCHANGED <<token, status, reason, pidFile, backoff, events>>

WakeUp ==
    /\ MainStep("waiting", "woken")
    /\ shutdownEvent
    /\ UNCHANGED <<token, status, ending, pidFile, threads, events, cause>>

(* The one-second wait ended without the event, and the poller is dead; the *)
(* event may have been set since.                                          *)
SeePollerStopped ==
    /\ MainStep("waiting", "woken")
    /\ poller = "ended"
    /\ Shutdown("poller_stopped")
    /\ UNCHANGED <<token, ending, pidFile, threads, pollerStop, heartbeatStop>>

(* reason = _state.get("status"), then poller.stop() sets its event.       *)
ReadReason ==
    /\ MainStep("woken", "stopping_poller")
    /\ reason' = status
    /\ pollerStop' = TRUE
    /\ UNCHANGED <<token, status, exitCode, pidFile, threads, shutdownEvent,
                   heartbeatStop, cause>>

(* The join of the poller returns or times out after 10 seconds. *)
JoinPoller ==
    /\ MainStep("stopping_poller", "stopping_heartbeat")
    /\ heartbeatStop' = TRUE
    /\ UNCHANGED <<token, status, ending, pidFile, threads, shutdownEvent,
                   pollerStop, cause>>

(* The join of the heartbeat returns or times out; the status server is    *)
(* asked to leave its loop.                                                *)
JoinHeartbeat ==
    /\ MainStep("stopping_heartbeat", "stopping_server")
    /\ UNCHANGED <<token, status, ending, pidFile, threads, events, cause>>

(* HTTPServer.shutdown waits, without a limit, until the loop is left. *)
StopServer ==
    /\ MainStep("stopping_server", "clearing_pid")
    /\ server = "ended"
    /\ UNCHANGED <<token, status, ending, pidFile, threads, events, cause>>

\* Faulty: the exit after a refusal comes before the clean-up.
ExitKeepsPid ==
    /\ main = "clearing_pid"
    /\ pidFile' = IF reason \in Refusals \cup {"poller_stopped"} THEN "present" ELSE "none"
    /\ ProcessEnds(IF reason \in Refusals \cup {"poller_stopped"} THEN "1" ELSE "0")
    /\ UNCHANGED <<token, status, reason, backoff, events, cause>>

(* clear_pid says nothing of a file it cannot remove. *)
Exit ==
    /\ main = "clearing_pid"
    /\ pidFile' \in {"none", "undeletable"}
    /\ ProcessEnds(IF reason \in Refusals \cup {"poller_stopped"} THEN "1" ELSE "0")
    /\ UNCHANGED <<token, status, reason, backoff, events, cause>>

Main ==
    \/ WritePid \/ InstallSignals \/ StartHeartbeat \/ StartStatusServer
    \/ StartPoller \/ StartupFails \/ WakeUp \/ SeePollerStopped \/ ReadReason
    \/ JoinPoller \/ JoinHeartbeat \/ StopServer \/ Exit

-----------------------------------------------------------------------------
(* The heartbeat thread.                                                   *)

(* The loop sees no stop and sends a heartbeat. *)
SendBeat ==
    /\ heartbeat = "running"
    /\ ~heartbeatStop
    /\ heartbeat' = "sending"
    /\ UNCHANGED <<token, main, status, ending, pidFile, backoff, server, poller,
                   events, cause>>

BeatEnds == heartbeat = "sending" /\ heartbeat' = "running"

(* The cloud acknowledges: the back-off starts over. *)
BeatAcknowledged ==
    /\ BeatEnds
    /\ token = "valid"
    /\ backoff' = InitialBackoff
    /\ UNCHANGED <<token, main, status, ending, pidFile, server, poller, events, cause>>

(* 5xx, no connection, or anything unexpected: wait, then twice as long. *)
BeatFails ==
    /\ BeatEnds
    /\ backoff' = IF 2 * backoff > MaxBackoff THEN MaxBackoff ELSE 2 * backoff
    /\ UNCHANGED <<token, main, status, ending, pidFile, server, poller, events, cause>>

(* 403 or 401: the callback shuts the process down and the thread ends, or *)
(* waits for the event's lock like the main thread.                        *)
BeatRefused ==
    /\ heartbeat = "sending"
    /\ token \in Refusals
    /\ Shutdown(token)
    /\ heartbeat' = IF main = "stuck" THEN "blocked" ELSE "ended"
    /\ UNCHANGED <<token, main, ending, pidFile, backoff, server, poller, pollerStop,
                   heartbeatStop>>

HeartbeatStops ==
    /\ heartbeat = "running"
    /\ heartbeatStop
    /\ heartbeat' = "ended"
    /\ UNCHANGED <<token, main, status, ending, pidFile, backoff, server, poller,
                   events, cause>>

-----------------------------------------------------------------------------
(* The thread of the status server: one client at a time.                  *)

StatusClientConnects ==
    /\ server = "running"
    /\ main # "stopping_server"
    /\ server' = "answering"
    /\ UNCHANGED <<token, main, status, ending, pidFile, heartbeat, backoff, poller,
                   events, cause>>

(* The client sent its request and took the answer, or closed the connection. *)
StatusClientServed ==
    /\ server = "answering"
    /\ server' = "running"
    /\ UNCHANGED <<token, main, status, ending, pidFile, heartbeat, backoff, poller,
                   events, cause>>

ServerLeaves ==
    /\ server = "running"
    /\ main = "stopping_server"
    /\ server' = "ended"
    /\ UNCHANGED <<token, main, status, ending, pidFile, heartbeat, backoff, poller,
                   events, cause>>

-----------------------------------------------------------------------------
(* The poller thread, as far as this process sees it.                      *)

(* A claim was granted: _on_job_start. *)
JobStarts ==
    /\ poller = "running"
    /\ poller' = "in_job"
    /\ status' = "running_job"
    /\ UNCHANGED <<token, main, ending, pidFile, heartbeat, backoff, server, events,
                   cause>>

(* The job is over: _on_job_complete. *)
JobCompletes ==
    /\ poller = "in_job"
    /\ poller' = "running"
    /\ status' = "connected"
    /\ UNCHANGED <<token, main, ending, pidFile, heartbeat, backoff, server, events,
                   cause>>

\* Faulty: any failed poll ends the thread.
PollerEndsOnAnyError ==
    /\ poller = "running"
    /\ poller' = "ended"
    /\ UNCHANGED <<token, main, status, ending, pidFile, heartbeat, backoff, server,
                   events, cause>>

(* The loop sees its stop event, or the poll is refused. *)
PollerEnds ==
    /\ poller = "running"
    /\ pollerStop \/ token \in Refusals
    /\ poller' = "ended"
    /\ UNCHANGED <<token, main, status, ending, pidFile, heartbeat, backoff, server,
                   events, cause>>

-----------------------------------------------------------------------------

(* The cloud revokes the token, or forgets it. *)
TokenRefused ==
    /\ token = "valid"
    /\ token' \in Refusals
    /\ UNCHANGED <<main, status, ending, pidFile, threads, events, cause>>

Done == ~Alive /\ UNCHANGED vars

Next ==
    \/ Main
    \/ SendBeat \/ BeatAcknowledged \/ BeatFails \/ BeatRefused \/ HeartbeatStops
    \/ Alive /\ (JobStarts \/ JobCompletes \/ PollerEnds)
    \/ StatusClientConnects \/ StatusClientServed \/ ServerLeaves
    \/ Signal \/ SignalInLock \/ Killed \/ TokenRefused
    \/ Done

Spec == Init /\ [][Next]_vars

(* Every thread is scheduled, every wait and every call is bounded, and    *)
(* heartbeats that keep being sent with a refused token are not all lost.  *)
Fairness ==
    /\ WF_vars(Main) /\ WF_vars(ServerLeaves)
    /\ WF_vars(SendBeat) /\ WF_vars(BeatFails) /\ SF_vars(BeatRefused)

FairSpec == Spec /\ Fairness

-----------------------------------------------------------------------------
(* Properties.                                                             *)

(* A process ends with status 1 only if the cloud refused its token or its *)
(* start failed; a plain stop ends with status 0, whatever job was running. *)
FailureHasACause ==
    exitCode = "1" => token \in Refusals \/ cause = "crash"

(* Only a process that was killed, or whose start failed, leaves its PID   *)
(* file behind without having tried to remove it: every shutdown of its    *)
(* own gets there, whoever asked for it and whatever the threads were doing. *)
StalePidNeedsCrash ==
    ~Alive /\ pidFile = "present" => cause = "crash" \/ exitCode = "killed"

(* A refused token ends the process, through every failing heartbeat: no    *)
(* connector the cloud has revoked stays up ("A 401 or 403 response causes *)
(* the connector to stop immediately and exit", docs/api-contract.md,      *)
(* section 3.2), and a shutdown that was asked for is carried through.     *)
(* Two things, and no other, keep the process up: a client of the status   *)
(* server that never finishes, and a signal that came while the main       *)
(* thread held the lock of the shutdown event.                             *)
ShutdownCompletes ==
    (token \in Refusals \/ cause \in Reasons)
        ~> (~Alive \/ [](server = "answering") \/ [](main = "stuck"))

(* "A 401 or 403 response causes the connector to stop immediately and     *)
(* exit with status 1" (docs/api-contract.md, section 3.2).                *)
RefusalExitsWithOne ==
    cause \in Refusals => exitCode \in {"none", "1", "killed"}
=============================================================================
