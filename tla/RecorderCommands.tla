-------------------------- MODULE RecorderCommands --------------------------
(***************************************************************************)
(* One "badass-runner recorder" command on the file of a session that may  *)
(* still be recorded: classify, upload or build-target with its validation  *)
(* (recorder_cli.py, target/builder.py, target/validator.py).  list and    *)
(* show print what they load and are left out; delete is in Recorder.      *)
(***************************************************************************)
EXTENDS Recorder, CaptureClassifier, Sequences, SequencesExt

CONSTANTS
    Traffic         \* what the clients' requests may be: functions from Requests

VARIABLES
    traffic,        \* the exchanges of this session
    command,        \* the command and where it is
    loaded,         \* the requests it read from the file
    owed,           \* ghost: it owes the user a conversation of the session
    contacts,       \* origins that the validation sent a request to
    outcome         \* how the command ended

commandVars == <<traffic, command, loaded, owed, contacts, outcome>>
vars == <<recorderVars, commandVars>>

Commands == {"classify", "upload", "build-target"}

CommandTypeOK ==
    /\ traffic \in Traffic
    /\ command \in {"none", "sending", "probing", "waiting", "redirected", "over"} \cup Commands
    /\ loaded \subseteq Requests
    /\ owed \in BOOLEAN
    /\ contacts \in Seq({"target", "elsewhere"})
    /\ outcome \in {"none", "no captures", "not registered", "shown", "unlikely shown",
                    "no likely endpoint", "no base url", "built", "raised", "valid", "invalid",
                    "uploaded", "uploaded with warnings", "upload failed"}

(* What the file holds of a request. *)
Captured(n) == IF n \in failed THEN Unanswered(traffic[n]) ELSE traffic[n]

(* A POST whose body names a prompt, answered with data: what a user of the *)
(* recorder would call a message to the application.                       *)
Conversation(x) ==
    /\ x.post /\ ~x.asset
    /\ x.request \in {"json", "form"} /\ x.prompt = "short"
    /\ x.type # "page or file"

CommandsInit ==
    /\ Init
    /\ traffic \in Traffic
    /\ command = "none" /\ loaded = {} /\ owed = FALSE
    /\ contacts = <<>> /\ outcome = "none"

-----------------------------------------------------------------------------

CommandGoes(from, to) ==
    /\ command = from /\ command' = to
    /\ UNCHANGED <<traffic, owed, outcome>>

(* The process ends, and what it loaded with it. *)
CommandEnds(from, how) ==
    /\ command = from /\ command' = "over"
    /\ loaded' = {}
    /\ outcome' = how
    /\ UNCHANGED <<traffic, owed, contacts>>

(* The file is read as it is at this moment; upload looks at the           *)
(* registration before.                                                    *)
LoadCaptures ==
    /\ command = "none"
    /\ \/ disk # {} /\ command' \in Commands /\ outcome' = "none"
       \/ disk = {} /\ command' = "over" /\ outcome' = "no captures"
    /\ loaded' = disk
    /\ owed' = \E n \in (answered \cap memory) \ (deleted \cup refused \cup glued) :
                  Conversation(traffic[n])
    /\ UNCHANGED <<traffic, contacts>>

NotRegistered == CommandEnds("none", "not registered")

(* The file is in the order in which the requests came. *)
Best == BestOf([n \in loaded |-> Captured(n)])

Classify ==
    CommandEnds("classify", IF Likely(Best) THEN "shown" ELSE "unlikely shown")

(* An endpoint that is not likely is uploaded all the same, with warnings. *)
Upload == CommandGoes("upload", "sending") /\ UNCHANGED <<loaded, contacts>>

Uploaded ==
    CommandEnds("sending", IF Likely(Best) THEN "uploaded" ELSE "uploaded with warnings")

(* Refused, or the answer is lost: the cloud may have the capture or not. *)
UploadFails == CommandEnds("sending", "upload failed")

(* A target is made of a likely endpoint only, fields and path corrected   *)
(* as the user asks.                                                       *)
Buildable == Likely(Best)

(* --base-url has no default; --run-validation is given or not. *)
BuildTarget ==
    /\ command = "build-target"
    /\ \/ ~Buildable /\ CommandEnds("build-target", "no likely endpoint")
       \/ /\ Buildable
          /\ \E how \in {"no base url", "built"} : CommandEnds("build-target", how)
       \/ /\ Buildable
          /\ CommandGoes("build-target", "probing") /\ loaded' = {} /\ UNCHANGED contacts

-----------------------------------------------------------------------------
(* ValidationPreview.run.                                                  *)

(* What an endpoint path, recorded or given by --path, makes of the base   *)
(* URL it is appended to: "/chat" stays at the target; without its slash   *)
(* it may extend the host or the port, or leave no URL at all.             *)
Paths == {"://", "//", "stays", "leaves", "malformed"}

Origin(path) == IF path = "stays" THEN "target" ELSE "elsewhere"

Contact(from, to, origin) ==
    /\ CommandGoes(from, to)
    /\ contacts' = Append(contacts, origin)
    /\ UNCHANGED loaded

(* A URL without a proper port raises while its origin is computed. *)
SendProbe ==
    \E path \in Paths :
        \/ path = "stays" /\ Contact("probing", "waiting", Origin(path))
        \/ path \in {"://", "//", "leaves"} /\ CommandEnds("probing", "invalid")
        \/ path = "malformed" /\ CommandEnds("probing", "raised")

(* The target cannot be reached or does not answer in time. *)
ProbeFails ==
    \E from \in {"waiting", "redirected"} : CommandEnds(from, "invalid")

\* Faulty: redirects are followed wherever they lead.
ProbeRedirectedAnywhere ==
    \E location \in {"none", "relative", "stays", "leaves", "malformed"} :
        \/ location \in {"relative", "stays"} /\ Contact("waiting", "redirected", "target")
        \/ location \in {"leaves", "malformed"} /\ Contact("waiting", "redirected", "elsewhere")
        \/ location = "none" /\ CommandEnds("waiting", "invalid")

(* A redirect is followed once, to the same origin; a Location that does   *)
(* not begin with http is taken for a path of the target.                  *)
ProbeRedirected ==
    \E location \in {"none", "relative", "stays", "leaves", "malformed"} :
        \/ location \in {"relative", "stays"} /\ Contact("waiting", "redirected", "target")
        \/ location \in {"none", "leaves"} /\ CommandEnds("waiting", "invalid")
        \/ location = "malformed" /\ CommandEnds("waiting", "raised")

(* A JSON body that is not an object has no fields to look up, which       *)
(* raises, unless it is empty; any other answer is judged by its status.   *)
ProbeAnswered ==
    \E from \in {"waiting", "redirected"}, status \in {200, 300, 400}, object \in BOOLEAN :
        /\ status = 300 => from = "redirected"
        /\ CommandEnds(from, IF ~object THEN "raised"
                           ELSE IF status = 200 THEN "valid" ELSE "invalid")

Validate == SendProbe \/ ProbeFails \/ ProbeRedirected \/ ProbeAnswered

CommandStep ==
    \/ LoadCaptures \/ NotRegistered \/ Classify \/ Upload \/ Uploaded \/ UploadFails
    \/ BuildTarget \/ Validate

CommandsNext ==
    \/ Next /\ UNCHANGED commandVars
    \/ CommandStep /\ UNCHANGED recorderVars

(* The recorder is scheduled; the user need not run a command. *)
CommandsSpec ==
    /\ CommandsInit /\ [][CommandsNext]_vars
    /\ WF_recorderVars(StartProxy /\ UNCHANGED commandVars)
    /\ WF_recorderVars(WakeUp /\ UNCHANGED commandVars)
    /\ WF_recorderVars(End /\ UNCHANGED commandVars)
    /\ WF_recorderVars(ServerWorks /\ UNCHANGED commandVars)

-----------------------------------------------------------------------------
(* Properties.                                                             *)

(* A command that reads the file after a client was answered a message to  *)
(* the application finds a likely endpoint, whatever else was recorded and  *)
(* however the recording went on: the capture is kept before the client is *)
(* answered, and outranks the rest.  Excepted are captures beyond the cap, *)
(* deleted, refused by the disk, or glued to what is left of a refused one. *)
ConversationIsFound ==
    owed => outcome \notin {"no captures", "unlikely shown", "no likely endpoint",
                            "uploaded with warnings"}

(* "Probes are restricted to the origin declared in base_url"              *)
(* (validator.py): whatever path the user gives and wherever the target    *)
(* redirects, no request goes to another origin, none is sent after a      *)
(* second redirect, and nothing is found valid unless the target was asked. *)
ValidationStaysAtOrigin ==
    /\ ToSet(contacts) \subseteq {"target"} /\ Len(contacts) <= 2
    /\ outcome = "valid" => contacts # <<>>
=============================================================================
