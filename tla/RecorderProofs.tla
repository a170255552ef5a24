--------------------------- MODULE RecorderProofs ---------------------------
(***************************************************************************)
(* What a recording session keeps and what the commands make of it, for    *)
(* any number of captures, requests and kinds of traffic.                  *)
(***************************************************************************)
EXTENDS RecorderCommands, FiniteSetTheorems, WellFoundedInduction, TLAPS

Busy ==
    server \in {"reading", "body", "forwarding", "adding", "persisting", "writing", "answering"}

(* The capture that is in memory and not yet in the file. *)
Unwritten == IF server \in {"persisting", "writing"} THEN {current} ELSE {}

(* Captures are in the file unless something is known to have lost them,   *)
(* and nothing else is there.                                              *)
Kept ==
    /\ memory = disk \cup deleted \cup refused \cup glued \cup Unwritten
    /\ server \in {"reading", "body", "forwarding", "adding"} => current \notin memory
    /\ Unwritten \cap (disk \cup deleted \cup refused \cup glued) = {}

(* A line without an end is that of a refused capture, and no capture has   *)
(* followed it but the one at hand; a deletion takes the line with it.      *)
LastLine ==
    /\ torn # 0 => torn \in refused /\ \E m \in refused : \A k \in memory \ Unwritten : k <= m
    /\ server = "writing" /\ torn # 0 => linked
    /\ \A n \in glued : \E m \in refused : m < n /\ \A k \in memory : k <= m \/ n <= k

(* The process counts its captures when its server is done with them.      *)
Counted ==
    /\ main = "starting" => server = "none"
    /\ main = "ended" => server = "ended" /\ said = Cardinality(memory)

(* The request at hand is the last there was; its client has no answer     *)
(* yet, and one that was told of a failure never gets one.                 *)
InOrder ==
    /\ Busy => current # 0 /\ current \notin answered
    /\ answered \cap failed = {}
    /\ \A n \in memory \cup answered \cup failed : n <= current

RecorderInv == TypeOK /\ Kept /\ LastLine /\ Counted /\ InOrder

-----------------------------------------------------------------------------
(* The recording.                                                          *)

LEMMA RecorderStarts == Init => RecorderInv
  <1> SUFFICES ASSUME Init PROVE RecorderInv
    OBVIOUS
  <1>1. Cardinality(memory) = 0
    BY FS_EmptySet DEF Init
  <1>2. TypeOK
    <2>1. stopAsked \in BOOLEAN /\ expired \in BOOLEAN /\ stored \in BOOLEAN /\ linked \in BOOLEAN
      BY Zenon DEF Init
    <2>2. current \in 0 .. MaxRequests /\ said \in 0 .. MaxCaptures /\ torn \in 0 .. MaxRequests
      BY RecorderAssumption DEF Init
    <2> QED
      BY <1>1, <2>1, <2>2, RecorderAssumption DEF Init, TypeOK
  <1>3. Kept /\ LastLine
    BY DEF Init, Kept, LastLine, Unwritten
  <1>4. Counted /\ InOrder
    BY DEF Init, Counted, InOrder, Busy
  <1> QED
    BY <1>2, <1>3, <1>4 DEF RecorderInv

LEMMA MemoryIsFinite == TypeOK => IsFiniteSet(memory) /\ Cardinality(memory) \in 0 .. MaxCaptures
  <1> SUFFICES ASSUME TypeOK PROVE IsFiniteSet(memory) /\ Cardinality(memory) \in 0 .. MaxCaptures
    OBVIOUS
  <1>1. IsFiniteSet(Requests)
    BY RecorderAssumption, FS_Interval DEF Requests
  <1>2. IsFiniteSet(memory)
    BY <1>1, FS_Subset DEF TypeOK
  <1>3. Cardinality(memory) \in Nat
    BY <1>2, FS_CardinalityType
  <1> QED
    BY <1>2, <1>3, RecorderAssumption DEF TypeOK

LEMMA TypesStay == RecorderInv /\ [Next]_recorderVars => TypeOK'
  <1> SUFFICES ASSUME RecorderInv, [Next]_recorderVars PROVE TypeOK'
    OBVIOUS
  <1>0. /\ current \in Nat /\ MaxRequests \in Nat /\ (Busy => current \in Requests)
        /\ \A n : n \in Requests <=> n \in Nat /\ 1 <= n /\ n <= MaxRequests
    BY RecorderAssumption DEF RecorderInv, TypeOK, InOrder, Requests
  <1> USE RecorderAssumption
      DEF RecorderInv, TypeOK, Busy, session, captures, file, lost, clients, ServerStep
  <1>1. CASE StartProxy \/ StopSignal \/ SignalInLock \/ LifetimeEnds \/ WakeUp \/ Killed
    <2>1. CASE StartProxy \/ StopSignal \/ SignalInLock
      BY <2>1 DEF StartProxy, StopSignal, SignalInLock
    <2>2. CASE LifetimeEnds
      BY <2>2 DEF LifetimeEnds
    <2>3. CASE WakeUp \/ Killed
      BY <2>3 DEF WakeUp, Killed
    <2> QED
      BY <1>1, <2>1, <2>2, <2>3
  <1>2. CASE End
    BY <1>2, MemoryIsFinite DEF End
  <1>3. CASE Connect \/ RequestAccepted \/ RequestRejected \/ BodyRead \/ BodyFails
    <2>1. CASE Connect
      <3>1. current' \in 0 .. MaxRequests
        BY <1>0, <2>1 DEF Connect
      <3> QED
        BY <2>1, <3>1 DEF Connect
    <2> QED
      BY <1>3, <2>1 DEF RequestAccepted, RequestRejected, BodyRead, BodyFails
  <1>4. CASE ServerLeaves \/ UpstreamAnswers \/ UpstreamFails
    BY <1>0, <1>4 DEF ServerLeaves, UpstreamAnswers, UpstreamFails
  <1>5. CASE AddCapture
    <2>1. Cardinality(memory') <= MaxCaptures
      <3>1. CASE memory' = memory
        BY <3>1
      <3>2. CASE Cardinality(memory) < MaxCaptures /\ memory' = memory \cup {current}
        <4>1. \/ Cardinality(memory') = Cardinality(memory)
              \/ Cardinality(memory') = Cardinality(memory) + 1
          BY <3>2, MemoryIsFinite, FS_AddElement
        <4> QED
          BY <4>1, <3>2, MemoryIsFinite
      <3> QED
        BY <1>5, <3>1, <3>2, MemoryIsFinite DEF AddCapture
    <2> QED
      BY <1>0, <1>5, <2>1 DEF AddCapture
  <1>6. CASE OpenFile \/ OpenFails \/ Persist \/ WriteFails
    <2>1. linked' \in BOOLEAN
      <3>1. linked' \in {TRUE, FALSE} \/ linked' = linked
        BY <1>6, Zenon DEF OpenFile, OpenFails, Persist, WriteFails
      <3> QED
        BY <3>1, Zenon DEF TypeOK
    <2>2. current \in Requests /\ current \in 0 .. MaxRequests
      BY <1>0, <1>6 DEF OpenFile, OpenFails, Persist, WriteFails
    <2>3. CASE OpenFile \/ OpenFails
      BY <2>1, <2>2, <2>3 DEF OpenFile, OpenFails
    <2>4. CASE Persist
      <3>1. torn' \in {torn, 0} /\ disk' \subseteq disk \cup {current}
        BY <2>4 DEF Persist
      <3>2. torn' \in 0 .. MaxRequests /\ disk' \subseteq Requests
        BY <2>2, <3>1
      <3>3. deleted' \subseteq Requests /\ glued' \subseteq Requests /\ refused' = refused
        BY <2>2, <2>4 DEF Persist
      <3> QED
        BY <2>1, <2>4, <3>2, <3>3 DEF Persist
    <2>5. CASE WriteFails
      <3>1. torn' \in {torn, current} /\ disk' \subseteq disk \cup {current}
        BY <2>5 DEF WriteFails
      <3>2. torn' \in 0 .. MaxRequests /\ disk' \subseteq Requests
        BY <2>2, <3>1
      <3> QED
        BY <2>1, <2>2, <2>5, <3>2 DEF WriteFails
    <2> QED
      BY <1>6, <2>3, <2>4, <2>5
  <1>7. CASE Answer
    BY <1>0, <1>7 DEF Answer
  <1>8. CASE DeleteFile
    <2>1. linked' \in BOOLEAN
      BY <1>8, Zenon DEF DeleteFile
    <2>2. torn' \in 0 .. MaxRequests
      BY <1>8 DEF DeleteFile
    <2> QED
      BY <1>8, <2>1, <2>2 DEF DeleteFile
  <1>9. CASE Over \/ UNCHANGED recorderVars
    BY <1>9 DEF Over, recorderVars
  <1> QED
    BY <1>1, <1>2, <1>3, <1>4, <1>5, <1>6, <1>7, <1>8, <1>9
    DEF Next, ServerWorks, ServerWaits

LEMMA KeptStays == RecorderInv /\ [Next]_recorderVars => Kept'
  <1> SUFFICES ASSUME RecorderInv, [Next]_recorderVars PROVE Kept'
    OBVIOUS
  <1> USE RecorderAssumption
      DEF RecorderInv, Kept, Unwritten, Counted, session, captures, file, lost, clients, ServerStep
  <1>1. CASE StartProxy \/ StopSignal \/ SignalInLock \/ LifetimeEnds \/ WakeUp \/ Killed
    BY <1>1 DEF StartProxy, StopSignal, SignalInLock, LifetimeEnds, WakeUp, Killed
  <1>2. CASE End
    BY <1>2 DEF End
  <1>3. CASE Connect \/ RequestAccepted \/ RequestRejected \/ BodyRead \/ BodyFails
    <2>1. current \in Nat /\ \A n \in memory : n \in Nat /\ n <= current
      BY DEF TypeOK, InOrder, Requests
    <2>2. CASE Connect
      <3>1. current' = current + 1 /\ current' \notin memory
        BY <2>1, <2>2 DEF Connect
      <3> QED
        BY <2>2, <3>1 DEF Connect
    <2>3. CASE RequestAccepted \/ RequestRejected \/ BodyRead \/ BodyFails
      BY <2>3 DEF RequestAccepted, RequestRejected, BodyRead, BodyFails
    <2> QED
      BY <1>3, <2>2, <2>3
  <1>4. CASE ServerLeaves \/ UpstreamAnswers \/ UpstreamFails
    BY <1>4 DEF ServerLeaves, UpstreamAnswers, UpstreamFails
  <1>5. CASE AddCapture
    BY <1>5 DEF AddCapture
  <1>6. CASE OpenFile \/ OpenFails \/ Persist \/ WriteFails
    <2>1. CASE OpenFile \/ OpenFails
      BY <2>1 DEF OpenFile, OpenFails
    <2>2. (torn # 0 => torn \in refused) /\ 0 \notin disk
      BY DEF LastLine, TypeOK, Requests
    <2>3. CASE Persist
      <3>1. Unwritten = {current} /\ Unwritten' = {}
        BY <2>3 DEF Persist
      <3>2. server' = "answering" /\ memory' = memory /\ refused' = refused
        BY <2>3 DEF Persist
      <3>3. disk' \cup deleted' \cup refused \cup glued' = disk \cup deleted \cup refused \cup glued \cup {current}
        BY <2>2, <2>3 DEF Persist
      <3> QED
        BY <3>1, <3>2, <3>3
    <2>4. CASE WriteFails
      <3>1. Unwritten = {current} /\ Unwritten' = {}
        BY <2>4 DEF WriteFails
      <3>2. /\ server' = "idle" /\ memory' = memory /\ refused' = refused \cup {current}
            /\ deleted' = deleted /\ glued' = glued
        BY <2>4 DEF WriteFails
      <3>3. disk' \cup refused' = disk \cup refused \cup {current}
        BY <2>2, <2>4 DEF WriteFails
      <3> QED
        BY <3>1, <3>2, <3>3
    <2> QED
      BY <1>6, <2>1, <2>3, <2>4
  <1>7. CASE Answer
    BY <1>7 DEF Answer
  <1>8. CASE DeleteFile
    BY <1>8 DEF DeleteFile
  <1>9. CASE Over \/ UNCHANGED recorderVars
    BY <1>9 DEF Over, recorderVars
  <1> QED
    BY <1>1, <1>2, <1>3, <1>4, <1>5, <1>6, <1>7, <1>8, <1>9
    DEF Next, ServerWorks, ServerWaits

LEMMA LastLineStays == RecorderInv /\ [Next]_recorderVars => LastLine'
  <1> SUFFICES ASSUME RecorderInv, [Next]_recorderVars PROVE LastLine'
    OBVIOUS
  <1>0. /\ current \in Nat /\ memory \cup refused \cup glued \subseteq Nat
        /\ refused \cup glued \subseteq memory /\ \A n \in memory : n <= current
    BY RecorderAssumption DEF RecorderInv, TypeOK, Requests, Kept, InOrder
  <1>10. /\ LastLine /\ (Unwritten # {} => current \notin refused)
         /\ (Busy => current # 0)
    BY DEF RecorderInv, Kept, InOrder, Unwritten
  <1> USE DEF LastLine, Unwritten, session, captures, file, lost, clients, ServerStep
  <1>1. CASE StartProxy \/ StopSignal \/ SignalInLock \/ LifetimeEnds \/ WakeUp \/ Killed
    BY <1>1, <1>10 DEF StartProxy, StopSignal, SignalInLock, LifetimeEnds, WakeUp, Killed, RecorderInv, Counted
  <1>2. CASE End
    BY <1>2, <1>10 DEF End
  <1>3. CASE Connect \/ RequestAccepted \/ RequestRejected \/ BodyRead \/ BodyFails
    BY <1>3, <1>10 DEF Connect, RequestAccepted, RequestRejected, BodyRead, BodyFails
  <1>4. CASE ServerLeaves \/ UpstreamAnswers \/ UpstreamFails
    BY <1>4, <1>10 DEF ServerLeaves, UpstreamAnswers, UpstreamFails
  <1>5. CASE AddCapture
    <2>1. /\ torn' = torn /\ refused' = refused /\ glued' = glued /\ Unwritten = {}
          /\ memory' \subseteq memory \cup {current} /\ memory' \ Unwritten' \subseteq memory
          /\ server' # "writing"
      BY <1>5 DEF AddCapture
    <2>2. ASSUME NEW n \in glued
          PROVE  \E m \in refused : m < n /\ \A k \in memory' : k <= m \/ n <= k
      <3>1. PICK m \in refused : m < n /\ \A k \in memory : k <= m \/ n <= k
        BY <1>10
      <3>2. n <= current
        BY <1>0
      <3> QED
        BY <2>1, <3>1, <3>2
    <2> QED
      BY <1>10, <2>1, <2>2
  <1>6. CASE OpenFile \/ OpenFails \/ Persist \/ WriteFails
    <2>1. /\ memory' = memory /\ current' = current /\ Unwritten = {current}
      BY <1>6 DEF OpenFile, OpenFails, Persist, WriteFails
    <2>2. CASE OpenFile
      <3>1. torn' = torn /\ refused' = refused /\ glued' = glued /\ Unwritten' = Unwritten
        BY <2>2 DEF OpenFile
      <3>2. linked'
        BY <2>2 DEF OpenFile
      <3> QED
        BY <1>10, <2>1, <3>1, <3>2
    <2>3. CASE OpenFails \/ WriteFails
      <3>1. /\ torn' \in {torn, current} /\ refused' = refused \cup {current} /\ glued' = glued
            /\ Unwritten' = {} /\ server' # "writing"
        BY <2>3 DEF OpenFails, WriteFails
      <3>2. current \in refused' /\ \A k \in memory' \ Unwritten' : k <= current
        BY <1>0, <2>1, <3>1
      <3> QED
        BY <1>10, <2>1, <3>1, <3>2
    <2>4. CASE Persist
      <3>1. refused' = refused /\ Unwritten' = {} /\ torn' \in {torn, 0}
        BY <2>4 DEF Persist
      <3>2. \/ torn' = 0 /\ glued' = glued
            \/ torn # 0 /\ torn' = 0 /\ glued' = glued \cup {current}
        BY <1>10, <2>4 DEF Persist
      <3>3. server' # "writing" /\ current \notin refused
        BY <1>10, <2>1, <2>4 DEF Persist
      <3>4. CASE torn # 0
        <4>1. PICK m \in refused : \A k \in memory \ Unwritten : k <= m
          BY <1>10, <3>4
        <4>2. m < current /\ \A k \in memory : k <= m \/ current <= k
          BY <1>0, <2>1, <3>3, <4>1
        <4> QED
          BY <1>10, <2>1, <3>1, <3>2, <3>3, <4>2
      <3> QED
        BY <1>10, <2>1, <3>1, <3>2, <3>3, <3>4
    <2> QED
      BY <1>6, <2>2, <2>3, <2>4
  <1>7. CASE Answer
    BY <1>7, <1>10 DEF Answer
  <1>8. CASE DeleteFile
    BY <1>8, <1>10 DEF DeleteFile
  <1>9. CASE Over \/ UNCHANGED recorderVars
    BY <1>9, <1>10 DEF Over, recorderVars
  <1> QED
    BY <1>1, <1>2, <1>3, <1>4, <1>5, <1>6, <1>7, <1>8, <1>9
    DEF Next, ServerWorks, ServerWaits

LEMMA CountStays == RecorderInv /\ [Next]_recorderVars => Counted'
  <1> SUFFICES ASSUME RecorderInv, [Next]_recorderVars PROVE Counted'
    OBVIOUS
  <1> USE RecorderAssumption
      DEF RecorderInv, Counted, session, captures, file, lost, clients, ServerStep
  <1>1. CASE StartProxy \/ StopSignal \/ SignalInLock \/ LifetimeEnds \/ WakeUp \/ Killed
    BY <1>1 DEF StartProxy, StopSignal, SignalInLock, LifetimeEnds, WakeUp, Killed
  <1>2. CASE End
    BY <1>2 DEF End
  <1>3. CASE Connect \/ RequestAccepted \/ RequestRejected \/ BodyRead \/ BodyFails
    BY <1>3 DEF Connect, RequestAccepted, RequestRejected, BodyRead, BodyFails
  <1>4. CASE ServerLeaves \/ UpstreamAnswers \/ UpstreamFails
    BY <1>4 DEF ServerLeaves, UpstreamAnswers, UpstreamFails
  <1>5. CASE AddCapture
    BY <1>5 DEF AddCapture
  <1>6. CASE OpenFile \/ OpenFails \/ Persist \/ WriteFails
    BY <1>6 DEF OpenFile, OpenFails, Persist, WriteFails
  <1>7. CASE Answer
    BY <1>7 DEF Answer
  <1>8. CASE DeleteFile
    BY <1>8 DEF DeleteFile
  <1>9. CASE Over \/ UNCHANGED recorderVars
    BY <1>9 DEF Over, recorderVars
  <1> QED
    BY <1>1, <1>2, <1>3, <1>4, <1>5, <1>6, <1>7, <1>8, <1>9
    DEF Next, ServerWorks, ServerWaits

LEMMA OrderStays == RecorderInv /\ [Next]_recorderVars => InOrder'
  <1> SUFFICES ASSUME RecorderInv, [Next]_recorderVars PROVE InOrder'
    OBVIOUS
  <1>0. current \in Nat /\ memory \cup answered \cup failed \subseteq Nat
    BY RecorderAssumption DEF RecorderInv, TypeOK, Requests
  <1> USE DEF RecorderInv, InOrder, Busy, Counted, session, captures, file, lost, clients, ServerStep
  <1>1. CASE StartProxy \/ StopSignal \/ SignalInLock \/ LifetimeEnds \/ WakeUp \/ Killed
    BY <1>0, <1>1 DEF StartProxy, StopSignal, SignalInLock, LifetimeEnds, WakeUp, Killed
  <1>2. CASE End
    BY <1>0, <1>2 DEF End
  <1>3. CASE Connect \/ RequestAccepted \/ RequestRejected \/ BodyRead \/ BodyFails
    BY <1>0, <1>3 DEF Connect, RequestAccepted, RequestRejected, BodyRead, BodyFails
  <1>4. CASE ServerLeaves \/ UpstreamAnswers \/ UpstreamFails
    BY <1>0, <1>4 DEF ServerLeaves, UpstreamAnswers, UpstreamFails
  <1>5. CASE AddCapture
    BY <1>0, <1>5 DEF AddCapture
  <1>6. CASE OpenFile \/ OpenFails \/ Persist \/ WriteFails
    BY <1>0, <1>6 DEF OpenFile, OpenFails, Persist, WriteFails
  <1>7. CASE Answer
    BY <1>0, <1>7 DEF Answer
  <1>8. CASE DeleteFile
    BY <1>0, <1>8 DEF DeleteFile
  <1>9. CASE Over \/ UNCHANGED recorderVars
    BY <1>0, <1>9 DEF Over, recorderVars
  <1> QED
    BY <1>1, <1>2, <1>3, <1>4, <1>5, <1>6, <1>7, <1>8, <1>9
    DEF Next, ServerWorks, ServerWaits

LEMMA RecorderInvariant == Spec => []RecorderInv
  <1>1. RecorderInv /\ [Next]_recorderVars => RecorderInv'
    BY TypesStay, KeptStays, LastLineStays, CountStays, OrderStays DEF RecorderInv
  <1> QED
    BY <1>1, RecorderStarts, PTL DEF Spec

(* A session's captures are in its file but for the one that is being      *)
(* written, those that were deleted or refused by the disk, and a capture   *)
(* that directly follows a refused one.                                    *)
THEOREM CapturesAreNotLost == Spec => []CapturesSurvive
  <1>1. RecorderInv => CapturesSurvive
    BY DEF RecorderInv, Kept, LastLine, Unwritten, CapturesSurvive
  <1> QED
    BY <1>1, RecorderInvariant, PTL

(* What a stopped session says it saved is the number of what it had       *)
(* captured when its server had left: what is in the file, and what was    *)
(* deleted, refused or glued to a line without an end.                     *)
THEOREM CountIncludesEverything == Spec => []SavedCountIsTrue
  <1>1. RecorderInv => SavedCountIsTrue
    BY DEF RecorderInv, Kept, Counted, Unwritten, SavedCountIsTrue
  <1> QED
    BY <1>1, RecorderInvariant, PTL

(* Whatever commands run beside it, the recording is one of those that the *)
(* recorder's specification allows.                                        *)
THEOREM CommandsOnlyRead == CommandsSpec => Spec
  <1>1. CommandsInit => Init
    BY DEF CommandsInit
  <1>2. [CommandsNext]_vars => [Next]_recorderVars
    BY DEF CommandsNext, vars
  <1> QED
    BY <1>1, <1>2, PTL DEF CommandsSpec, Spec
-----------------------------------------------------------------------------
(* The validation of a target.                                             *)

(* Where the validation is tells how many requests it has sent, and a      *)
(* target is found valid from an answer.                                   *)
Probes ==
    /\ contacts \in Seq({"target"})
    /\ command \in {"none", "probing", "sending"} \cup Commands => Len(contacts) = 0
    /\ command = "waiting" => Len(contacts) = 1
    /\ command = "redirected" => Len(contacts) = 2
    /\ Len(contacts) <= 2
    /\ outcome = "valid" => command = "over" /\ contacts # <<>>

LEMMA ProbesStay == Probes /\ [CommandsNext]_vars => Probes'
  <1> SUFFICES ASSUME Probes, [CommandsNext]_vars PROVE Probes'
    OBVIOUS
  <1> USE DEF Probes, Commands, CommandGoes, CommandEnds, Contact
  <1>1. CASE LoadCaptures
    BY <1>1 DEF LoadCaptures
  <1>2. CASE NotRegistered \/ Classify \/ Upload
    BY <1>2 DEF NotRegistered, Classify, Upload
  <1>3. CASE Uploaded \/ UploadFails
    BY <1>3 DEF Uploaded, UploadFails
  <1>4. CASE BuildTarget
    <2>1. contacts' = contacts /\ command = "build-target"
      BY <1>4 DEF BuildTarget
    <2>2. \/ command' = "over" /\ outcome' \in {"no likely endpoint", "no base url", "built"}
          \/ command' = "probing" /\ outcome' = outcome
      BY <1>4 DEF BuildTarget
    <2> QED
      BY <2>1, <2>2
  <1>5. CASE SendProbe
    <2>1. \/ contacts' = contacts /\ command' = "over" /\ outcome' \in {"invalid", "raised"}
          \/ contacts' = Append(contacts, "target") /\ command' = "waiting" /\ outcome' = outcome
      BY <1>5 DEF SendProbe, Origin, Paths
    <2>2. command = "probing" /\ Len(contacts) = 0 /\ outcome # "valid"
      BY <1>5 DEF SendProbe
    <2>3. CASE contacts' = contacts /\ command' = "over" /\ outcome' \in {"invalid", "raised"}
      BY <2>3
    <2>4. CASE contacts' = Append(contacts, "target")
      <3>1. contacts' \in Seq({"target"}) /\ Len(contacts') = Len(contacts) + 1
        BY <2>4
      <3>2. contacts' # <<>>
        BY <3>1
      <3> QED
        BY <2>1, <2>2, <2>4, <3>1, <3>2
    <2> QED
      BY <2>1, <2>3, <2>4
  <1>6. CASE ProbeFails
    <2>1. contacts' = contacts /\ command' = "over" /\ outcome' = "invalid"
      BY <1>6 DEF ProbeFails
    <2> QED
      BY <2>1
  <1>7. CASE ProbeRedirected
    <2>1. \/ contacts' = contacts /\ command' = "over" /\ outcome' \in {"invalid", "raised"}
          \/ /\ contacts' = Append(contacts, "target")
             /\ command' = "redirected" /\ outcome' = outcome
      BY <1>7 DEF ProbeRedirected
    <2>2. command = "waiting" /\ Len(contacts) = 1 /\ outcome # "valid"
      BY <1>7 DEF ProbeRedirected
    <2>3. CASE contacts' = contacts /\ command' = "over" /\ outcome' \in {"invalid", "raised"}
      BY <2>3
    <2>4. CASE contacts' = Append(contacts, "target")
      <3>1. contacts' \in Seq({"target"}) /\ Len(contacts') = Len(contacts) + 1
        BY <2>4
      <3>2. contacts' # <<>>
        BY <3>1
      <3> QED
        BY <2>1, <2>2, <2>4, <3>1, <3>2
    <2> QED
      BY <2>1, <2>3, <2>4
  <1>8. CASE ProbeAnswered
    BY <1>8 DEF ProbeAnswered
  <1>9. CASE UNCHANGED commandVars
    BY <1>9 DEF commandVars
  <1> QED
    BY <1>1, <1>2, <1>3, <1>4, <1>5, <1>6, <1>7, <1>8, <1>9
    DEF CommandsNext, CommandStep, Validate, vars

(* Whatever path the user gives and wherever the target redirects, the     *)
(* validation asks the target only, at most twice, and at least once       *)
(* before it finds a target valid.                                         *)
THEOREM ProbesStayAtTheTarget == CommandsSpec => []ValidationStaysAtOrigin
  <1>1. CommandsInit => Probes
    BY DEF CommandsInit, Probes, Commands
  <1>2. Probes => ValidationStaysAtOrigin
    BY DEF Probes, ValidationStaysAtOrigin, ToSet
  <1> QED
    BY <1>1, <1>2, ProbesStay, PTL DEF CommandsSpec
-----------------------------------------------------------------------------
(* The classifier.                                                         *)

(* A set of numbers has a least element.                                   *)
LEMMA LeastNumber ==
    ASSUME NEW S, S \subseteq Nat, S # {}
    PROVE  \E x \in S : \A y \in S : x <= y
  <1> DEFINE Less == {ss \in Nat \X Nat : ss[1] < ss[2]}
  <1>1. IsWellFoundedOn(Less, Nat)
    BY Zenon, NatLessThanWellFounded DEF OpToRel
  <1>2. \E x \in S : \A y \in S : ~ (<<y, x>> \in Less)
    <2> HIDE DEF Less
    <2> QED
      BY <1>1, WFMin
  <1>3. PICK x \in S : \A y \in S : ~ (<<y, x>> \in Less)
    BY <1>2
  <1>4. ASSUME NEW y \in S PROVE x <= y
    <2>1. ~ (<<y, x>>[1] < <<y, x>>[2])
      BY <1>3
    <2> QED
      BY <2>1
  <1> QED
    BY <1>4

(* The endpoint that is taken from a session with a likely exchange is     *)
(* likely: none of the others outranks it.                                 *)
LEMMA BestIsLikely ==
    ASSUME NEW taken, DOMAIN taken \subseteq Nat,
           NEW n \in DOMAIN taken, Likely(taken[n])
    PROVE  Likely(BestOf(taken))
  <1> DEFINE pool == {m \in DOMAIN taken : Likely(taken[m])}
             Score(m) == Confidence(taken[m])
             Before(l, m) == Score(l) > Score(m) \/ (Score(l) = Score(m) /\ l <= m)
             Loss == {100 - Score(m) : m \in pool}
  <1>1. \A m \in DOMAIN taken : Score(m) \in 0 .. 100
    BY DEF Confidence, Points, Weight
  <1>2. \E l \in pool : \A m \in pool : Score(m) <= Score(l)
    <2>1. Loss \subseteq Nat /\ Loss # {}
      BY <1>1
    <2>2. PICK x \in Loss : \A y \in Loss : x <= y
      BY <2>1, LeastNumber
    <2>3. PICK l \in pool : x = 100 - Score(l)
      BY <2>2
    <2>4. \A m \in pool : 100 - Score(l) <= 100 - Score(m)
      BY <2>2, <2>3
    <2> HIDE DEF Score
    <2> QED
      BY <1>1, <2>4
  <1>3. PICK l \in pool : \A m \in pool : Score(m) <= Score(l)
    BY <1>2
  <1> DEFINE top == {m \in pool : Score(m) = Score(l)}
  <1>4. PICK k \in top : \A m \in top : k <= m
    BY <1>3, LeastNumber
  <1>5. k \in pool /\ \A m \in pool : Before(k, m)
    BY <1>1, <1>3, <1>4
  <1>6. (CHOOSE m \in pool : \A o \in pool : Before(m, o)) \in pool
    BY <1>5
  <1> QED
    BY <1>5, <1>6 DEF BestOf

LEMMA WeightsAreNumbers ==
    ASSUME NEW holds, NEW points \in Nat PROVE Weight(holds, points) \in Nat
  BY 0 \in Nat, Zenon DEF Weight

(* A message to the application is likely by itself: it is a POST with a   *)
(* prompt, whatever else adds to its points.                               *)
LEMMA ConversationsAreLikely ==
    ASSUME NEW x, Conversation(x)
    PROVE  Likely(x)
  <1>1. ~Excluded(x) /\ PromptField(x)
    BY DEF Conversation, Excluded, PromptField
  <1>2. Weight(x.post, 25) = 25 /\ Weight(PromptField(x), 30) = 30
    BY <1>1, Zenon DEF Conversation, Weight
  <1>3. \E json, form, answer, text, typed, word \in Nat :
            Points(x) = 25 + json + form + 30 + answer + text + typed + word
    <2>1. 15 \in Nat /\ 8 \in Nat /\ 20 \in Nat /\ 5 \in Nat /\ 10 \in Nat
      OBVIOUS
    <2> /\ Weight(x.request = "json", 15) \in Nat /\ Weight(x.request = "form", 8) \in Nat
        /\ Weight(ResponseField(x), 20) \in Nat /\ Weight(x.reply = "text", 15) \in Nat
        /\ Weight(x.type # "none", 5) \in Nat /\ Weight(x.aiWord, 10) \in Nat
      BY <2>1, WeightsAreNumbers, Zenon
    <2> WITNESS Weight(x.request = "json", 15) \in Nat, Weight(x.request = "form", 8) \in Nat,
                Weight(ResponseField(x), 20) \in Nat, Weight(x.reply = "text", 15) \in Nat,
                Weight(x.type # "none", 5) \in Nat, Weight(x.aiWord, 10) \in Nat
    <2> QED
      BY <1>2, Zenon DEF Points
  <1>4. Points(x) \in Nat /\ Points(x) >= 55
    BY <1>3
  <1>5. Confidence(x) = IF Points(x) > 100 THEN 100 ELSE Points(x)
    BY <1>1, Zenon DEF Confidence, Weight
  <1> QED
    BY <1>4, <1>5 DEF Likely
-----------------------------------------------------------------------------
(* What the commands find.                                                 *)

Disappointing ==
    {"no captures", "unlikely shown", "no likely endpoint", "uploaded with warnings"}

(* A command that owes a conversation holds one until it says what it      *)
(* found: the message of a client that was answered and never told of a    *)
(* failure.                                                                *)
HasConversation ==
    /\ loaded \subseteq Requests
    /\ owed => outcome \notin Disappointing
    /\ owed /\ command \in {"classify", "upload", "build-target", "sending"} =>
           \E n \in loaded \cap answered : Conversation(traffic[n])
    /\ command = "none" => ~owed

(* What was loaded has a likely endpoint if a conversation is among it.    *)
LEMMA ConversationIsBest ==
    ASSUME RecorderInv, loaded \subseteq Requests,
           \E n \in loaded \cap answered : Conversation(traffic[n])
    PROVE  Likely(Best)
  <1>1. PICK n \in loaded \cap answered : Conversation(traffic[n])
    OBVIOUS
  <1> DEFINE captured == [m \in loaded |-> Captured(m)]
  <1>2. captured[n] = traffic[n]
    BY <1>1 DEF Captured, RecorderInv, InOrder
  <1>3. Likely(captured[n])
    BY <1>1, <1>2, ConversationsAreLikely
  <1>4. DOMAIN captured \subseteq Nat /\ n \in DOMAIN captured
    BY <1>1, RecorderAssumption DEF Requests
  <1>5. Likely(BestOf(captured))
    <2> HIDE DEF captured
    <2> QED
      BY <1>3, <1>4, BestIsLikely
  <1> QED
    BY <1>5 DEF Best

(* A message whose client was answered is in the file.                     *)
LEMMA AnsweredIsInTheFile == RecorderInv => 
        (answered \cap memory) \ (deleted \cup refused \cup glued) \subseteq disk
  BY DEF RecorderInv, Kept, Unwritten, InOrder, Busy

LEMMA AnswersStay == [Next]_recorderVars => answered \subseteq answered'
  <1> SUFFICES ASSUME [Next]_recorderVars PROVE answered \subseteq answered'
    OBVIOUS
  <1> USE DEF session, captures, file, lost, clients
  <1>1. CASE StartProxy \/ StopSignal \/ SignalInLock \/ LifetimeEnds \/ WakeUp \/ End
       \/ Killed
    BY <1>1 DEF StartProxy, StopSignal, SignalInLock, LifetimeEnds, WakeUp, End, Killed
  <1>2. CASE Connect \/ RequestAccepted \/ RequestRejected \/ BodyRead \/ BodyFails
    BY <1>2 DEF Connect, RequestAccepted, RequestRejected, BodyRead, BodyFails
  <1>3. CASE ServerLeaves \/ UpstreamAnswers \/ UpstreamFails \/ AddCapture \/ Answer
    BY <1>3 DEF ServerLeaves, UpstreamAnswers, UpstreamFails, AddCapture, Answer
  <1>5. CASE OpenFile \/ OpenFails \/ Persist \/ WriteFails
    BY <1>5 DEF OpenFile, OpenFails, Persist, WriteFails
  <1>4. CASE DeleteFile \/ Over \/ UNCHANGED recorderVars
    BY <1>4 DEF DeleteFile, Over, recorderVars
  <1> QED
    BY <1>1, <1>2, <1>3, <1>4, <1>5 DEF Next, ServerWorks, ServerWaits

LEMMA ConversationStays ==
    RecorderInv /\ HasConversation /\ [CommandsNext]_vars => HasConversation'
  <1> SUFFICES ASSUME RecorderInv, HasConversation, [CommandsNext]_vars PROVE HasConversation'
    OBVIOUS
  <1>1. answered \subseteq answered'
    BY AnswersStay DEF CommandsNext, vars, recorderVars, clients
  <1>2. CASE UNCHANGED commandVars
    BY <1>1, <1>2 DEF HasConversation, commandVars
  <1>3. CASE LoadCaptures
    <2>1. owed' => \E n \in disk \cap answered : Conversation(traffic[n])
      BY <1>3, AnsweredIsInTheFile DEF LoadCaptures
    <2>2. disk \subseteq Requests
      BY DEF RecorderInv, TypeOK
    <2> QED
      BY <1>1, <1>3, <2>1, <2>2 DEF LoadCaptures, HasConversation, Disappointing, Commands
  <1>4. CASE NotRegistered \/ UploadFails
    BY <1>4 DEF NotRegistered, UploadFails, CommandEnds, HasConversation, Disappointing
  <1>5. CASE Classify
    <2>1. owed => Likely(Best)
      BY <1>5, ConversationIsBest DEF HasConversation, Classify, CommandEnds
    <2> QED
      BY <1>5, <2>1 DEF Classify, CommandEnds, HasConversation, Disappointing
  <1>6. CASE Upload
    BY <1>1, <1>6 DEF Upload, CommandGoes, HasConversation
  <1>7. CASE Uploaded
    <2>1. owed => Likely(Best)
      BY <1>7, ConversationIsBest DEF HasConversation, Uploaded, CommandEnds
    <2> QED
      BY <1>7, <2>1 DEF Uploaded, CommandEnds, HasConversation, Disappointing
  <1>8. CASE BuildTarget
    <2>1. owed => Buildable
      BY <1>8, ConversationIsBest DEF HasConversation, BuildTarget, Buildable
    <2>2. owed' = owed /\ loaded' = {}
      BY <1>8 DEF BuildTarget, CommandEnds, CommandGoes
    <2>3. \/ ~Buildable /\ command' = "over"
          \/ command' = "over" /\ outcome' \in {"no base url", "built"}
          \/ command' = "probing" /\ outcome' = outcome
      BY <1>8 DEF BuildTarget, CommandEnds, CommandGoes
    <2> HIDE DEF Buildable
    <2> QED
      BY <2>1, <2>2, <2>3 DEF HasConversation, Disappointing
  <1>9. CASE SendProbe
    <2>1. owed' = owed /\ loaded' \in {loaded, {}}
      BY <1>9 DEF SendProbe, Contact, CommandEnds, CommandGoes
    <2>2. \/ command' = "over" /\ outcome' \in {"invalid", "raised"}
          \/ command' = "waiting" /\ outcome' = outcome
      BY <1>9 DEF SendProbe, Contact, CommandEnds, CommandGoes
    <2> QED
      BY <2>1, <2>2 DEF HasConversation, Disappointing
  <1>10. CASE ProbeFails \/ ProbeRedirected
    <2>1. owed' = owed /\ loaded' \in {loaded, {}}
      BY <1>10 DEF ProbeFails, ProbeRedirected, Contact, CommandEnds, CommandGoes
    <2>2. \/ command' = "over" /\ outcome' \in {"invalid", "raised"}
          \/ command' = "redirected" /\ outcome' = outcome
      BY <1>10 DEF ProbeFails, ProbeRedirected, Contact, CommandEnds, CommandGoes
    <2> QED
      BY <2>1, <2>2 DEF HasConversation, Disappointing
  <1>11. CASE ProbeAnswered
    BY <1>11 DEF ProbeAnswered, CommandEnds, HasConversation, Disappointing
  <1> QED
    BY <1>2, <1>3, <1>4, <1>5, <1>6, <1>7, <1>8, <1>9, <1>10, <1>11
    DEF CommandsNext, CommandStep, Validate, vars

(* A command that reads the file after a client was answered a message     *)
(* finds a likely endpoint, however the recording goes on, if the message  *)
(* was kept within the cap and neither deleted, refused nor glued.          *)
THEOREM AnsweredMessagesAreFound == CommandsSpec => []ConversationIsFound
  <1>1. CommandsInit => HasConversation
    BY DEF CommandsInit, HasConversation, Disappointing
  <1>2. HasConversation => ConversationIsFound
    BY DEF HasConversation, Disappointing, ConversationIsFound
  <1>3. CommandsSpec => []RecorderInv
    BY CommandsOnlyRead, RecorderInvariant, PTL
  <1> QED
    BY <1>1, <1>2, <1>3, ConversationStays, PTL DEF CommandsSpec

(* The recording stays within its types: no more captures than its limit.  *)
THEOREM TypeCorrect == Spec => []TypeOK
  <1>1. RecorderInv => TypeOK
    BY DEF RecorderInv
  <1> QED
    BY <1>1, RecorderInvariant, PTL
=============================================================================
