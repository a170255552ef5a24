------------------------------ MODULE PidFile ------------------------------
(***************************************************************************)
(* The PID file (config.py, write_pid, read_pid and clear_pid) shared by   *)
(* the connector processes of one user and the "status" and "stop"         *)
(* commands (cli.py).  Each reads it, decides, and acts later; nothing      *)
(* locks it, and the operating system reuses process ids.                  *)
(***************************************************************************)

CONSTANTS
    Pids,           \* process ids of the host
    NoPid,          \* the file does not exist
    Ports,          \* status ports a start may be given
    StatusCommands, \* concurrent invocations of "status"
    StopCommands,   \* concurrent invocations of "stop"
    Overlaps        \* what may overlap a start: other "starts", "commands"

ASSUME PidFileAssumption ==
    /\ NoPid \notin Pids
    /\ StatusCommands \cap StopCommands = {}
    /\ Overlaps \subseteq {"starts", "commands"}

VARIABLES
    proc,       \* what each process id stands for
    port,       \* the status port each process was given
    pidFile,    \* content of the PID file
    at,         \* where each command is
    read,       \* the process id each command read
    answer      \* what each command told the user

vars == <<proc, port, pidFile, at, read, answer>>

Commands == StatusCommands \cup StopCommands

(* "named" has written the PID file but neither installed its signal       *)
(* handlers nor bound its port.  "other" is a process of another program.  *)
Connector == {"starting", "named", "serving", "stopping"}

TypeOK ==
    /\ proc \in [Pids -> Connector \cup {"none", "other"}]
    /\ port \in [Pids -> Ports]
    /\ pidFile \in Pids \cup {NoPid}
    /\ at \in [Commands -> {"idle", "read", "clearing"}]
    /\ read \in [Commands -> Pids \cup {NoPid}]
    /\ answer \in [Commands -> {"none", "not_running", "running", "signalled", "denied"}]

Init ==
    /\ proc = [p \in Pids |-> "none"]
    /\ port \in [Pids -> Ports]
    /\ pidFile = NoPid
    /\ at = [c \in Commands |-> "idle"]
    /\ read = [c \in Commands |-> NoPid]
    /\ answer = [c \in Commands |-> "none"]

Becomes(p, kind) == proc' = [proc EXCEPT ![p] = kind]

CommandsUnchanged == UNCHANGED <<at, read, answer>>
-----------------------------------------------------------------------------
(* Connector processes and the other programs of the host.                 *)

Start(p) ==
    /\ proc[p] = "none"
    /\ "starts" \in Overlaps \/ \A q \in Pids : proc[q] \notin Connector
    /\ "commands" \in Overlaps \/ \A c \in Commands : at[c] = "idle"
    /\ Becomes(p, "starting")
    /\ UNCHANGED <<port, pidFile>> /\ CommandsUnchanged

\* Faulty: an existing file is left alone.
WritePidOnce(p) ==
    /\ proc[p] = "starting"
    /\ pidFile' = IF pidFile = NoPid THEN p ELSE pidFile
    /\ Becomes(p, "named")
    /\ UNCHANGED port /\ CommandsUnchanged

(* write_pid overwrites whatever the file holds. *)
WritePid(p) ==
    /\ proc[p] = "starting"
    /\ pidFile' = p
    /\ Becomes(p, "named")
    /\ UNCHANGED port /\ CommandsUnchanged

PortTaken(p) ==
    \E q \in Pids \ {p} : proc[q] \in {"serving", "stopping"} /\ port[q] = port[p]

(* Binding the status port: a taken port ends the start, and the PID file  *)
(* stays as it is.                                                         *)
BindPort(p) ==
    /\ proc[p] = "named"
    /\ Becomes(p, IF PortTaken(p) THEN "none" ELSE "serving")
    /\ UNCHANGED <<port, pidFile>> /\ CommandsUnchanged

(* A refused token or Ctrl-C starts the shutdown. *)
BeginStop(p) ==
    /\ proc[p] = "serving"
    /\ Becomes(p, "stopping")
    /\ UNCHANGED <<port, pidFile>> /\ CommandsUnchanged

(* clear_pid removes the file, whoever it names by now; it says nothing of *)
(* one that it cannot remove.                                              *)
ClearPid == pidFile' \in {NoPid, pidFile}

(* The end of the shutdown. *)
FinishStop(p) ==
    /\ proc[p] = "stopping"
    /\ ClearPid
    /\ Becomes(p, "none")
    /\ UNCHANGED port /\ CommandsUnchanged

Crash(p) ==
    /\ proc[p] \in Connector
    /\ Becomes(p, "none")
    /\ UNCHANGED <<port, pidFile>> /\ CommandsUnchanged

(* The process id goes to another program, and comes free again. *)
OtherStarts(p) ==
    /\ proc[p] = "none"
    /\ Becomes(p, "other")
    /\ UNCHANGED <<port, pidFile>> /\ CommandsUnchanged

OtherEnds(p) ==
    /\ proc[p] = "other"
    /\ Becomes(p, "none")
    /\ UNCHANGED <<port, pidFile>> /\ CommandsUnchanged

-----------------------------------------------------------------------------
(* The commands.                                                           *)

Says(c, what) == answer' = [answer EXCEPT ![c] = what]

MovesTo(c, place) == at' = [at EXCEPT ![c] = place]

MayRun == "commands" \in Overlaps \/ \A p \in Pids : proc[p] \notin {"starting", "named"}

(* read_pid finds no file: the command is over. *)
ReadNothing(c) ==
    /\ at[c] = "idle"
    /\ MayRun
    /\ pidFile = NoPid
    /\ Says(c, "not_running")
    /\ UNCHANGED <<proc, port, pidFile, at, read>>

ReadPid(c) ==
    /\ at[c] = "idle"
    /\ MayRun
    /\ pidFile # NoPid
    /\ read' = [read EXCEPT ![c] = pidFile]
    /\ MovesTo(c, "read")
    /\ Says(c, "none")
    /\ UNCHANGED <<proc, port, pidFile>>

(* status: signal 0 reaches a process. *)
FindAlive(c) ==
    /\ at[c] = "read"
    /\ proc[read[c]] # "none"
    /\ Says(c, "running")
    /\ MovesTo(c, "idle")
    /\ UNCHANGED <<proc, port, pidFile, read>>

\* Faulty: status trusts nothing and clears the file of a live process too.
FindDeadAlways(c) ==
    /\ at[c] = "read"
    /\ Says(c, "not_running")
    /\ MovesTo(c, "clearing")
    /\ UNCHANGED <<proc, port, pidFile, read>>

(* status: no such process, or one of another user, counts as a crash.     *)
FindDead(c) ==
    /\ at[c] = "read"
    /\ proc[read[c]] \in {"none", "other"}
    /\ Says(c, "not_running")
    /\ MovesTo(c, "clearing")
    /\ UNCHANGED <<proc, port, pidFile, read>>

(* stop: SIGTERM reaches a process.  A connector that has its handlers     *)
(* shuts down, anything else dies on the spot.                             *)
SendTerm(c) ==
    /\ at[c] = "read"
    /\ proc[read[c]] # "none"
    /\ Becomes(read[c], IF proc[read[c]] \in {"serving", "stopping"} THEN "stopping" ELSE "none")
    /\ Says(c, "signalled")
    /\ MovesTo(c, "idle")
    /\ UNCHANGED <<port, pidFile, read>>

(* stop: the process belongs to another user. *)
TermDenied(c) ==
    /\ at[c] = "read"
    /\ proc[read[c]] = "other"
    /\ Says(c, "denied")
    /\ MovesTo(c, "idle")
    /\ UNCHANGED <<proc, port, pidFile, read>>

(* stop: no such process. *)
TermFindsNone(c) ==
    /\ at[c] = "read"
    /\ proc[read[c]] = "none"
    /\ Says(c, "not_running")
    /\ MovesTo(c, "clearing")
    /\ UNCHANGED <<proc, port, pidFile, read>>

ClearStale(c) ==
    /\ at[c] = "clearing"
    /\ ClearPid
    /\ MovesTo(c, "idle")
    /\ UNCHANGED <<proc, port, read, answer>>

-----------------------------------------------------------------------------

Process(p) ==
    \/ Start(p) \/ WritePid(p) \/ BindPort(p) \/ BeginStop(p) \/ FinishStop(p)
    \/ Crash(p) \/ OtherStarts(p) \/ OtherEnds(p)

Status(c) == FindAlive(c) \/ FindDead(c)

Stop(c) == SendTerm(c) \/ TermDenied(c) \/ TermFindsNone(c)

Next ==
    \/ \E p \in Pids : Process(p)
    \/ \E c \in Commands : ReadNothing(c) \/ ReadPid(c) \/ ClearStale(c)
    \/ \E c \in StatusCommands : Status(c)
    \/ \E c \in StopCommands : Stop(c)

Spec == Init /\ [][Next]_vars

(* A command that has begun ends, and so does a shutdown (RunnerProcess).  *)
Fairness ==
    /\ \A p \in Pids : WF_vars(FinishStop(p))
    /\ \A c \in Commands : WF_vars(ClearStale(c))

FairSpec == Spec /\ Fairness

-----------------------------------------------------------------------------
(* Properties.                                                             *)

(* "status" and "stop" can find the connector that is serving: the file    *)
(* names it, whatever crashed before it, whatever file could not be        *)
(* removed, and whatever commands run beside it, if none was half done     *)
(* while it started and no second connector is started.                    *)
ServingIsNamed ==
    \A p \in Pids : proc[p] = "serving" => pidFile = p

(* "Show whether a connector process is running locally" (README.md): the  *)
(* commands do not say that nothing is running while a connector serves.   *)
(* True if nothing overlaps a start; a command that read the process id of *)
(* a dead connector before a start judges by it after the start.           *)
Serving == \E p \in Pids : proc[p] = "serving"

NotRunningIsTrue ==
    [][\A c \in Commands :
         answer[c] # "not_running" /\ answer'[c] = "not_running" => ~Serving]_vars
=============================================================================
