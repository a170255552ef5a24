--------------------------- MODULE PidFileProofs ---------------------------
(***************************************************************************)
(* PidFile, for any number of process ids and of concurrent commands: as   *)
(* long as nothing overlaps a start, the file names the connector that is  *)
(* serving.                                                                *)
(***************************************************************************)
EXTENDS PidFile, TLAPS

(* At most one connector exists. *)
OneConnector ==
    \A p, q \in Pids : proc[p] \in Connector /\ proc[q] \in Connector => p = q

(* It is named by the file from the moment it wrote it. *)
ConnectorIsNamed ==
    \A p \in Pids : proc[p] \in Connector \ {"starting"} => pidFile = p

(* No command is under way while it starts. *)
StartIsAlone ==
    \A p \in Pids : proc[p] \in {"starting", "named"} =>
        \A c \in Commands : at[c] = "idle"

(* A command that has read the file holds the id of the connector, if one  *)
(* runs; a command about to clear the file found none.                     *)
CommandsAreCurrent ==
    \A c \in Commands :
        /\ at[c] # "idle" => read[c] \in Pids
        /\ \A p \in Pids : proc[p] \in Connector =>
              /\ at[c] # "clearing"
              /\ at[c] = "read" => read[c] = p

NamedInv ==
    /\ TypeOK
    /\ OneConnector
    /\ ConnectorIsNamed
    /\ StartIsAlone
    /\ CommandsAreCurrent

-----------------------------------------------------------------------------

(* Every step keeps the types. *)
LEMMA PidTypeStep == TypeOK /\ [Next]_vars => TypeOK'
<1> SUFFICES ASSUME TypeOK, [Next]_vars PROVE TypeOK'
  OBVIOUS
<1> USE PidFileAssumption DEF TypeOK, Commands, Connector
<1>1. ASSUME NEW p \in Pids, Process(p) PROVE TypeOK'
  BY <1>1 DEF Process, Start, WritePid, BindPort, BeginStop, FinishStop, ClearPid, Crash,
     OtherStarts, OtherEnds, Becomes, CommandsUnchanged
<1>2. ASSUME NEW c \in Commands, ReadNothing(c) \/ ReadPid(c) \/ ClearStale(c) PROVE TypeOK'
  BY <1>2 DEF ReadNothing, ReadPid, ClearStale, ClearPid, Says, MovesTo
<1>3. ASSUME NEW c \in StatusCommands, Status(c) PROVE TypeOK'
  BY <1>3 DEF Status, FindAlive, FindDead, Says, MovesTo
<1>4. ASSUME NEW c \in StopCommands, Stop(c) PROVE TypeOK'
  BY <1>4 DEF Stop, SendTerm, TermDenied, TermFindsNone, Says, MovesTo, Becomes
<1>5. CASE UNCHANGED vars
  BY <1>5 DEF vars
<1> QED
  BY <1>1, <1>2, <1>3, <1>4, <1>5 DEF Next

(* Every step of a process keeps the invariant. *)
LEMMA ProcessStep ==
  ASSUME Overlaps = {}, NamedInv, TypeOK', NEW p \in Pids, Process(p)
  PROVE  NamedInv'
<1> USE PidFileAssumption DEF TypeOK, Connector, Commands, NamedInv, OneConnector,
    ConnectorIsNamed, StartIsAlone, CommandsAreCurrent, Becomes, CommandsUnchanged
<1>1. CASE Start(p)
  BY <1>1 DEF Start
<1>2. CASE WritePid(p)
  BY <1>2 DEF WritePid
<1>3. CASE BindPort(p)
  BY <1>3 DEF BindPort
<1>4. CASE BeginStop(p)
  BY <1>4 DEF BeginStop
<1>5. CASE FinishStop(p)
  BY <1>5 DEF FinishStop, ClearPid
<1>6. CASE Crash(p)
  BY <1>6 DEF Crash
<1>7. CASE OtherStarts(p)
  BY <1>7 DEF OtherStarts
<1>8. CASE OtherEnds(p)
  BY <1>8 DEF OtherEnds
<1> QED
  BY <1>1, <1>2, <1>3, <1>4, <1>5, <1>6, <1>7, <1>8 DEF Process

(* Every step of a command keeps the invariant. *)
LEMMA CommandStep ==
  ASSUME Overlaps = {}, NamedInv, TypeOK', NEW c \in Commands,
         \/ ReadNothing(c) \/ ReadPid(c) \/ ClearStale(c) \/ Status(c) \/ Stop(c)
  PROVE  NamedInv'
<1> USE PidFileAssumption DEF TypeOK, Connector, Commands, NamedInv, OneConnector,
    ConnectorIsNamed, StartIsAlone, CommandsAreCurrent, Becomes, Says, MovesTo
<1>1. CASE ReadNothing(c)
  BY <1>1 DEF ReadNothing
<1>2. CASE ReadPid(c)
  BY <1>2 DEF ReadPid, MayRun
<1>3. CASE ClearStale(c)
  BY <1>3 DEF ClearStale, ClearPid
<1>4. CASE FindAlive(c) \/ TermDenied(c)
  BY <1>4 DEF FindAlive, TermDenied
<1>5. CASE FindDead(c) \/ TermFindsNone(c)
  BY <1>5 DEF FindDead, TermFindsNone
<1>6. CASE SendTerm(c)
  BY <1>6 DEF SendTerm
<1> QED
  BY <1>1, <1>2, <1>3, <1>4, <1>5, <1>6 DEF Status, Stop

LEMMA NamedInvInitially == Init => NamedInv
BY PidFileAssumption DEF Init, NamedInv, TypeOK, OneConnector, ConnectorIsNamed,
   StartIsAlone, CommandsAreCurrent, Connector, Commands

LEMMA NamedInvKept == ASSUME Overlaps = {} PROVE NamedInv /\ [Next]_vars => NamedInv'
<1> SUFFICES ASSUME NamedInv, [Next]_vars PROVE NamedInv'
  OBVIOUS
<1>1. TypeOK'
  BY PidTypeStep DEF NamedInv
<1>2. ASSUME NEW p \in Pids, Process(p) PROVE NamedInv'
  BY <1>1, <1>2, ProcessStep
<1>3. ASSUME NEW c \in Commands,
             \/ ReadNothing(c) \/ ReadPid(c) \/ ClearStale(c) \/ Status(c) \/ Stop(c)
      PROVE  NamedInv'
  BY <1>1, <1>3, CommandStep
<1>4. CASE UNCHANGED vars
  BY <1>1, <1>4 DEF vars, NamedInv, OneConnector, ConnectorIsNamed, StartIsAlone,
     CommandsAreCurrent
<1> QED
  BY <1>2, <1>3, <1>4 DEF Next, Commands

(* If neither a command nor another start overlaps a start, the file names *)
(* the connector that serves, however many process ids and commands there  *)
(* are, whatever crashed before and whatever file could not be removed.    *)
THEOREM ServingIsAlwaysNamed ==
  ASSUME Overlaps = {} PROVE Spec => []ServingIsNamed
<1>1. NamedInv => ServingIsNamed
  BY DEF NamedInv, ConnectorIsNamed, ServingIsNamed, Connector
<1> QED
  BY <1>1, NamedInvInitially, NamedInvKept, PTL DEF Spec

(* Under the same assumption, a command says that nothing is running only  *)
(* if it found no file, or the file's process gone, while no connector     *)
(* served.                                                                 *)
THEOREM NotRunningIsSaidTruly ==
  ASSUME Overlaps = {} PROVE Spec => NotRunningIsTrue
<1> DEFINE SaidTruly == \A c \in Commands :
        answer[c] # "not_running" /\ answer'[c] = "not_running" => ~Serving
<1>1. NamedInv /\ [Next]_vars => [SaidTruly]_vars
  <2> SUFFICES ASSUME NamedInv, Next PROVE SaidTruly
    OBVIOUS
  <2>1. ASSUME NEW p \in Pids, Process(p) PROVE answer' = answer
    BY <2>1 DEF Process, Start, WritePid, BindPort, BeginStop, FinishStop, Crash, OtherStarts,
       OtherEnds, CommandsUnchanged
  <2>2. ASSUME NEW c \in Commands, ReadNothing(c) PROVE ~Serving
    BY <2>2, PidFileAssumption DEF ReadNothing, NamedInv, ConnectorIsNamed, Serving, Connector
  <2>3. ASSUME NEW c \in Commands, FindDead(c) \/ TermFindsNone(c) PROVE ~Serving
    BY <2>3 DEF FindDead, TermFindsNone, NamedInv, CommandsAreCurrent, Serving, Connector
  <2>4. ASSUME NEW c \in Commands,
               ReadPid(c) \/ ClearStale(c) \/ FindAlive(c) \/ SendTerm(c) \/ TermDenied(c)
        PROVE  \A d \in Commands : answer'[d] = "not_running" => answer[d] = "not_running"
    BY <2>4 DEF ReadPid, ClearStale, FindAlive, SendTerm, TermDenied, Says, NamedInv, TypeOK
  <2> QED
    BY <2>1, <2>2, <2>3, <2>4 DEF Next, Status, Stop, Commands
<1> QED
  BY <1>1, NamedInvInitially, NamedInvKept, PTL DEF Spec, NotRunningIsTrue

(* Processes, file and commands stay within their types, whatever overlaps. *)
THEOREM TypeCorrect == Spec => []TypeOK
<1>1. Init => TypeOK
  BY NamedInvInitially DEF NamedInv
<1> QED
  BY <1>1, PidTypeStep, PTL DEF Spec
=============================================================================
