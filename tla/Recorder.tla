------------------------------ MODULE Recorder ------------------------------
(***************************************************************************)
(* One "badass-runner recorder start" process (recorder_cli.py,            *)
(* recorder/proxy.py, session.py and storage.py): the main thread waits for *)
(* the end of the session, the server thread handles one request at a time *)
(* and keeps each capture in memory and in a file, and "recorder delete"   *)
(* may remove that file.                                                   *)
(***************************************************************************)
EXTENDS Naturals, FiniteSets

CONSTANTS
    MaxCaptures,    \* captures a session keeps
    MaxRequests     \* bound: requests that clients make

ASSUME RecorderAssumption == MaxCaptures \in Nat /\ MaxRequests \in Nat

VARIABLES
    main,       \* where the main thread is
    server,     \* where the server thread is
    stopAsked,  \* SIGINT or SIGTERM arrived
    expired,    \* the lifetime of the session is over
    stored,     \* the session is in the store
    current,    \* the number of the request at hand, and of requests so far
    memory,     \* requests captured in the session
    disk,       \* requests whose capture can be read from the session file
    torn,       \* the request whose line in the file has no end, 0 if none
    linked,     \* the file being written is still in its directory
    deleted,    \* captures that "recorder delete" removed
    refused,    \* captures that could not be written, or not completely
    glued,      \* captures appended to a line without an end
    said,       \* captures the process said it saved
    failed,     \* requests for which the target gave no answer
    answered    \* requests whose client has the target's answer

session == <<stopAsked, expired, stored>>
file == <<disk, torn, linked>>
lost == <<deleted, refused, glued>>
captures == <<memory, file, lost>>
clients == <<failed, answered>>
recorderVars == <<main, server, session, current, captures, said, clients>>

Requests == 1 .. MaxRequests

TypeOK ==
    /\ main \in {"starting", "waiting", "stuck", "stopping", "ended", "killed"}
    /\ server \in {"none", "idle", "reading", "body", "forwarding", "adding", "persisting",
                   "writing", "answering", "ended"}
    /\ stopAsked \in BOOLEAN /\ expired \in BOOLEAN /\ stored \in BOOLEAN
    /\ current \in 0 .. MaxRequests
    /\ memory \subseteq Requests /\ Cardinality(memory) <= MaxCaptures
    /\ disk \subseteq Requests /\ torn \in 0 .. MaxRequests /\ linked \in BOOLEAN
    /\ deleted \subseteq Requests /\ refused \subseteq Requests /\ glued \subseteq Requests
    /\ said \in 0 .. MaxCaptures
    /\ failed \subseteq Requests /\ answered \subseteq Requests

Init ==
    /\ main = "starting" /\ server = "none"
    /\ stopAsked = FALSE /\ expired = FALSE /\ stored = TRUE
    /\ current = 0
    /\ memory = {}
    /\ disk = {} /\ torn = 0 /\ linked = FALSE
    /\ deleted = {} /\ refused = {} /\ glued = {}
    /\ said = 0
    /\ failed = {} /\ answered = {}

-----------------------------------------------------------------------------
(* The main thread.                                                        *)

(* The proxy listens, then the handlers are installed and the wait begins. *)
StartProxy ==
    /\ main = "starting"
    /\ main' = "waiting"
    /\ server' = "idle"
    /\ UNCHANGED <<session, current, captures, said, clients>>

(* Once the wait is over, neither a signal nor the end of the lifetime     *)
(* changes anything.                                                       *)
StopSignal ==
    /\ main = "waiting"
    /\ stopAsked' = TRUE
    /\ UNCHANGED <<main, server, expired, stored, current, captures, said, clients>>

(* The handler runs in the main thread: if it interrupts Event.wait while   *)
(* the lock of the event is held, its own set() waits for it for ever.     *)
SignalInLock ==
    /\ main = "waiting"
    /\ main' = "stuck"
    /\ stopAsked' = TRUE
    /\ UNCHANGED <<server, expired, stored, current, captures, said, clients>>

LifetimeEnds ==
    /\ main \in {"starting", "waiting", "stuck"}
    /\ expired' = TRUE
    /\ UNCHANGED <<main, server, stopAsked, stored, current, captures, said, clients>>

\* Faulty: only a signal ends the wait.
WakeUpOnSignal ==
    /\ main = "waiting"
    /\ stopAsked
    /\ main' = "stopping"
    /\ UNCHANGED <<server, session, current, captures, said, clients>>

(* The wait is over: proxy.stop() asks the server to leave its loop. *)
WakeUp ==
    /\ main = "waiting"
    /\ stopAsked \/ expired
    /\ main' = "stopping"
    /\ UNCHANGED <<server, session, current, captures, said, clients>>

\* Faulty: the captures are counted while the server still has a request.
EndWithoutWaiting ==
    /\ main = "stopping"
    /\ main' = "ended"
    /\ stored' = FALSE
    /\ said' = Cardinality(memory)
    /\ UNCHANGED <<server, stopAsked, expired, current, captures, clients>>

(* The server has left its loop: the session is removed, its captures are   *)
(* counted, and the process ends.                                          *)
End ==
    /\ main = "stopping"
    /\ server = "ended"
    /\ main' = "ended"
    /\ stored' = FALSE
    /\ said' = Cardinality(memory)
    /\ UNCHANGED <<server, stopAsked, expired, current, captures, clients>>

(* SIGKILL, a signal before the handlers are installed, a taken port. *)
Killed ==
    /\ main \notin {"ended", "killed"}
    /\ main' = "killed"
    /\ UNCHANGED <<server, session, current, captures, said, clients>>

-----------------------------------------------------------------------------
(* The server thread.                                                      *)

ServerStep(from, to) ==
    /\ main \notin {"starting", "ended", "killed"}
    /\ server = from
    /\ server' = to

ServerLeaves ==
    /\ ServerStep("idle", "ended")
    /\ main = "stopping"
    /\ UNCHANGED <<main, session, current, captures, said, clients>>

(* A client connects; the server waits for its request. *)
Connect ==
    /\ ServerStep("idle", "reading")
    /\ main \in {"waiting", "stuck"}
    /\ current < MaxRequests
    /\ current' = current + 1
    /\ UNCHANGED <<main, session, captures, said, clients>>

(* The head of the request is read, and the session is active. *)
RequestAccepted ==
    /\ ServerStep("reading", "body")
    /\ stored /\ ~expired
    /\ UNCHANGED <<main, session, current, captures, said, clients>>

(* The client sent the body, or as much of it as it will: it is forwarded. *)
BodyRead ==
    /\ ServerStep("body", "forwarding")
    /\ UNCHANGED <<main, session, current, captures, said, clients>>

(* The connection is reset, or its Content-Length is no number: the        *)
(* exception ends the request.                                             *)
BodyFails ==
    /\ ServerStep("body", "idle")
    /\ UNCHANGED <<main, session, current, captures, said, clients>>

(* The client went away, or the request names another host or finds no     *)
(* active session.                                                         *)
RequestRejected ==
    /\ ServerStep("reading", "idle")
    /\ UNCHANGED <<main, session, current, captures, said, clients>>

(* The target answered. *)
UpstreamAnswers ==
    /\ ServerStep("forwarding", "adding")
    /\ UNCHANGED <<main, session, current, captures, said, clients>>

(* It did not: the client is told first, and the capture is lost if it has *)
(* gone away by then.                                                      *)
UpstreamFails ==
    /\ ServerStep("forwarding", "adding") \/ ServerStep("forwarding", "idle")
    /\ failed' = failed \cup {current}
    /\ UNCHANGED <<main, session, current, captures, said, answered>>

(* add_capture: nothing is kept beyond the cap. *)
AddCapture ==
    /\ IF Cardinality(memory) >= MaxCaptures
       THEN ServerStep("adding", "answering") /\ UNCHANGED memory
       ELSE ServerStep("adding", "persisting") /\ memory' = memory \cup {current}
    /\ UNCHANGED <<main, session, current, file, lost, said, clients>>

(* append_capture opens the file, and creates it if it is not there. *)
OpenFile ==
    /\ ServerStep("persisting", "writing")
    /\ linked' = TRUE
    /\ UNCHANGED <<main, session, current, memory, disk, torn, lost, said, clients>>

(* It cannot be opened: the exception ends the request unanswered. *)
OpenFails ==
    /\ ServerStep("persisting", "idle")
    /\ refused' = refused \cup {current}
    /\ UNCHANGED <<main, session, current, memory, file, deleted, glued, said, clients>>

\* Faulty: the file is rewritten with the capture at hand.
PersistOverwrites ==
    /\ ServerStep("writing", "answering")
    /\ disk' = {current} /\ torn' = 0 /\ linked' = FALSE
    /\ UNCHANGED <<main, session, current, memory, lost, said, clients>>

(* The line is appended: to a file that was deleted meanwhile, as a line   *)
(* of its own, or to a line without an end, which becomes unreadable.      *)
Persist ==
    /\ ServerStep("writing", "answering")
    /\ linked' = FALSE
    /\ \/ /\ ~linked
          /\ deleted' = deleted \cup {current}
          /\ UNCHANGED <<disk, torn, glued>>
       \/ /\ linked /\ torn = 0
          /\ disk' = disk \cup {current}
          /\ UNCHANGED <<torn, deleted, glued>>
       \/ /\ linked /\ torn # 0
          /\ disk' = disk \ {torn} /\ torn' = 0
          /\ glued' = glued \cup {current}
          /\ UNCHANGED deleted
    /\ UNCHANGED <<main, session, current, memory, refused, said, clients>>

(* The disk is full: nothing of the line is in the file, a part of it, or   *)
(* all but its end, which can be read until the next line is glued to it.  *)
(* The exception ends the request unanswered.                              *)
WriteFails ==
    /\ ServerStep("writing", "idle")
    /\ linked' = FALSE
    /\ refused' = refused \cup {current}
    /\ \/ UNCHANGED <<disk, torn>>
       \/ linked /\ torn' = current /\ disk' = disk \ {torn}
       \/ linked /\ torn = 0 /\ torn' = current /\ disk' = disk \cup {current}
    /\ UNCHANGED <<main, session, current, memory, deleted, glued, said, clients>>

(* The client gets what the target answered, if it is still there; one     *)
(* whose request failed was told before.                                   *)
Answer ==
    /\ ServerStep("answering", "idle")
    /\ \/ current \notin failed /\ answered' = answered \cup {current}
       \/ UNCHANGED answered
    /\ UNCHANGED <<main, session, current, captures, said, failed>>

(* What the server does by itself, and what it does with a target or a     *)
(* client that may keep it waiting: httpx limits the time between two       *)
(* pieces of an answer, not that of the answer.                            *)
ServerWorks ==
    \/ ServerLeaves \/ AddCapture \/ OpenFile \/ OpenFails \/ Persist \/ WriteFails

ServerWaits ==
    \/ RequestAccepted \/ RequestRejected \/ BodyRead \/ BodyFails
    \/ UpstreamAnswers \/ UpstreamFails \/ Answer

-----------------------------------------------------------------------------

(* "recorder delete" in another process; the server may have the file open. *)
DeleteFile ==
    /\ disk # {} \/ torn # 0 \/ linked
    /\ disk' = {} /\ torn' = 0 /\ linked' = FALSE
    /\ deleted' = deleted \cup disk
    /\ UNCHANGED <<main, server, session, current, memory, refused, glued, said, clients>>

Over == main \in {"ended", "killed"} /\ UNCHANGED recorderVars

Next ==
    \/ StartProxy \/ StopSignal \/ SignalInLock \/ LifetimeEnds \/ WakeUp \/ End \/ Killed
    \/ Connect \/ ServerWorks \/ ServerWaits
    \/ DeleteFile \/ Over

Spec == Init /\ [][Next]_recorderVars

(* The threads are scheduled; nothing is assumed of clients and target. *)
Fairness ==
    /\ WF_recorderVars(StartProxy) /\ WF_recorderVars(WakeUp) /\ WF_recorderVars(End)
    /\ WF_recorderVars(ServerWorks)

FairSpec == Spec /\ Fairness

-----------------------------------------------------------------------------
(* Properties.                                                             *)

(* "captures are not lost if the process crashes" (storage.py): but for    *)
(* the one being written, every capture of the session can be read from    *)
(* the file unless it was deleted, refused by the disk, or glued to a line *)
(* without an end; and that happens only to the capture that directly      *)
(* follows a refused one.                                                  *)
CapturesSurvive ==
    /\ memory \subseteq disk \cup deleted \cup refused \cup glued
                        \cup (IF server \in {"persisting", "writing"} THEN {current} ELSE {})
    /\ \A n \in glued : \E m \in refused : m < n /\ \A k \in memory : k <= m \/ n <= k

(* The count a stopped session reports misses no request under way: the    *)
(* server had finished it, and nothing is captured afterwards.  It is the   *)
(* count of what was captured, "saved" or not: what was deleted, refused    *)
(* or glued is in it.                                                      *)
SavedCountIsTrue ==
    main = "ended" =>
        server = "ended" /\ said = Cardinality(disk \cup deleted \cup refused \cup glued)

(* A session ends once it is asked to, or its lifetime is over, unless a   *)
(* client or the target keeps its server waiting for ever, or the signal    *)
(* came while the lock of the event was held.                              *)
SessionEnds ==
    stopAsked \/ expired
        ~> \/ main \in {"ended", "killed"}
           \/ [](main = "stuck" \/ server \in {"reading", "body", "forwarding", "answering"})
=============================================================================
