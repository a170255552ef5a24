----------------------------- MODULE Registration -----------------------------
(***************************************************************************)
(* What "badass-runner start" does before it serves (cli.py, config.py,    *)
(* client.py): it reads the saved configuration, checks the version,       *)
(* exchanges a one-time token if it was given one, and saves the permanent *)
(* credential it gets for later starts.  The credential is named by the    *)
(* token it was exchanged for.                                             *)
(***************************************************************************)
EXTENDS Naturals, FiniteSets

CONSTANTS
    Starts,     \* processes that run "start", one after the other or at once
    Tokens,     \* one-time tokens created in the dashboard
    None,       \* no token, no credential, no file
    Torn        \* a configuration file that does not parse

ASSUME RegistrationAssumption ==
    None # Torn /\ {None, Torn} \cap Tokens = {}

VARIABLES
    at,         \* where each process is
    token,      \* the token the process was started with
    held,       \* the credential the process holds
    outcome,    \* how its last start ended
    file,       \* what the configuration file holds
    consumed,   \* tokens the cloud exchanged
    saved,      \* credentials that were ever saved
    lost,       \* credentials lost with an answer, a process or a failed save
    overlapped  \* a process began while another one was alive

start == <<token, held>>
vars == <<at, token, held, outcome, file, consumed, saved, lost, overlapped>>

Outcomes == {"none", "no_credentials", "too_old", "refused", "unreachable", "not_saved",
             "killed", "ended"}

TypeOK ==
    /\ at \in [Starts -> {"off", "version", "register", "open", "write", "ready"}]
    /\ token \in [Starts -> Tokens \cup {None}]
    /\ held \in [Starts -> Tokens \cup {None}]
    /\ outcome \in [Starts -> Outcomes]
    /\ file \in Tokens \cup {None, Torn}
    /\ consumed \subseteq Tokens /\ saved \subseteq consumed /\ lost \subseteq consumed
    /\ overlapped \in BOOLEAN

Init ==
    /\ at = [s \in Starts |-> "off"]
    /\ token = [s \in Starts |-> None] /\ held = [s \in Starts |-> None]
    /\ outcome = [s \in Starts |-> "none"]
    /\ file = None
    /\ consumed = {} /\ saved = {} /\ lost = {}
    /\ overlapped = FALSE

Begins(s) ==
    /\ at[s] = "off"
    /\ overlapped' = (overlapped \/ \E q \in Starts : at[q] # "off")

Goes(s, from, to) == at[s] = from /\ at' = [at EXCEPT ![s] = to]

EndsWith(s, why) ==
    /\ at' = [at EXCEPT ![s] = "off"]
    /\ outcome' = [outcome EXCEPT ![s] = why]

-----------------------------------------------------------------------------
(* A configuration file that does not parse counts as none, and one without *)
(* credentials as not registered.                                          *)
Loaded == IF file \in Tokens THEN file ELSE None

(* With a token the process registers afresh, whatever is saved (the server *)
(* is the one given or the saved one; without either it does not start).   *)
BeginWithToken(s, t) ==
    /\ Begins(s)
    /\ at' = [at EXCEPT ![s] = "version"]
    /\ token' = [token EXCEPT ![s] = t]
    /\ held' = [held EXCEPT ![s] = None]
    /\ outcome' = [outcome EXCEPT ![s] = "none"]
    /\ UNCHANGED <<file, consumed, saved, lost>>

(* Without one it uses the saved credential. *)
BeginSaved(s) ==
    /\ Begins(s)
    /\ Loaded # None
    /\ at' = [at EXCEPT ![s] = "version"]
    /\ token' = [token EXCEPT ![s] = None]
    /\ held' = [held EXCEPT ![s] = Loaded]
    /\ outcome' = [outcome EXCEPT ![s] = "none"]
    /\ UNCHANGED <<file, consumed, saved, lost>>

BeginUnregistered(s) ==
    /\ Begins(s)
    /\ Loaded = None
    /\ EndsWith(s, "no_credentials")
    /\ token' = [token EXCEPT ![s] = None]
    /\ held' = [held EXCEPT ![s] = None]
    /\ UNCHANGED <<file, consumed, saved, lost>>

(* An endpoint that cannot be reached, or is missing, only warns. *)
VersionAccepted(s) ==
    /\ Goes(s, "version", IF token[s] # None THEN "register" ELSE "ready")
    /\ UNCHANGED <<start, outcome, file, consumed, saved, lost, overlapped>>

VersionTooOld(s) ==
    /\ at[s] = "version"
    /\ EndsWith(s, "too_old")
    /\ UNCHANGED <<start, file, consumed, saved, lost, overlapped>>

\* Faulty: a saved registration is not replaced in the file.
RegisteredKeepsFile(s) ==
    /\ Goes(s, "register", IF Loaded # None THEN "ready" ELSE "open")
    /\ token[s] \notin consumed
    /\ consumed' = consumed \cup {token[s]}
    /\ held' = [held EXCEPT ![s] = token[s]]
    /\ UNCHANGED <<token, outcome, file, saved, lost, overlapped>>

(* The cloud exchanges the token and the answer arrives. *)
Registered(s) ==
    /\ Goes(s, "register", "open")
    /\ token[s] \notin consumed
    /\ consumed' = consumed \cup {token[s]}
    /\ held' = [held EXCEPT ![s] = token[s]]
    /\ UNCHANGED <<token, outcome, file, saved, lost, overlapped>>

\* Faulty: the configuration is saved even so, without credentials.
RegistrationRefusedSaved(s) ==
    /\ at[s] = "register"
    /\ EndsWith(s, "refused")
    /\ file' = None
    /\ UNCHANGED <<start, consumed, saved, lost, overlapped>>

(* It refuses a token it does not know, has exchanged or let expire, and    *)
(* may fail otherwise.                                                     *)
RegistrationRefused(s) ==
    /\ at[s] = "register"
    /\ EndsWith(s, "refused")
    /\ UNCHANGED <<start, file, consumed, saved, lost, overlapped>>

(* The call fails: the token may have been exchanged nevertheless. *)
RegistrationUnanswered(s) ==
    /\ at[s] = "register"
    /\ EndsWith(s, "unreachable")
    /\ \E exchanged \in SUBSET ({token[s]} \ consumed) :
           consumed' = consumed \cup exchanged /\ lost' = lost \cup exchanged
    /\ UNCHANGED <<start, file, saved, overlapped>>

(* save_config: opening the file empties it, ...                           *)
OpenConfig(s) ==
    /\ Goes(s, "open", "write")
    /\ file' = Torn
    /\ UNCHANGED <<start, outcome, consumed, saved, lost, overlapped>>

(* ... and closing it writes its text from the start: over another one, of *)
(* another length, if a second start wrote it in between.                  *)
WriteConfig(s) ==
    /\ Goes(s, "write", "ready")
    /\ \/ file' = held[s] /\ saved' = saved \cup {held[s]} /\ UNCHANGED lost
       \/ file \in Tokens /\ file' = Torn /\ lost' = lost \cup {held[s]} /\ UNCHANGED saved
    /\ UNCHANGED <<start, outcome, consumed, overlapped>>

\* Faulty: the connector serves without having saved its credential.
SaveFailsServes(s) ==
    /\ at[s] \in {"open", "write"}
    /\ at' = [at EXCEPT ![s] = "ready"]
    /\ UNCHANGED <<start, outcome, file, consumed, saved, lost, overlapped>>

(* The file cannot be opened, or the disk is full: the process ends.       *)
SaveFails(s) ==
    /\ at[s] \in {"open", "write"}
    /\ EndsWith(s, "not_saved")
    /\ lost' = lost \cup {held[s]}
    /\ UNCHANGED <<start, file, consumed, saved, overlapped>>

(* A signal or a power failure before it serves; a request under way may   *)
(* still be granted.                                                       *)
Killed(s) ==
    /\ at[s] \notin {"off", "ready"}
    /\ EndsWith(s, "killed")
    /\ IF at[s] = "register"
       THEN \E exchanged \in SUBSET ({token[s]} \ consumed) :
                consumed' = consumed \cup exchanged /\ lost' = lost \cup exchanged
       ELSE /\ lost' = lost \cup (IF at[s] \in {"open", "write"} THEN {held[s]} ELSE {})
            /\ UNCHANGED consumed
    /\ UNCHANGED <<start, file, saved, overlapped>>

(* A serving process ends, in whatever way. *)
Ended(s) ==
    /\ at[s] = "ready"
    /\ EndsWith(s, "ended")
    /\ UNCHANGED <<start, file, consumed, saved, lost, overlapped>>

Next ==
    \E s \in Starts :
        \/ \E t \in Tokens : BeginWithToken(s, t)
        \/ BeginSaved(s) \/ BeginUnregistered(s)
        \/ VersionAccepted(s) \/ VersionTooOld(s)
        \/ Registered(s) \/ RegistrationRefused(s) \/ RegistrationUnanswered(s)
        \/ OpenConfig(s) \/ WriteConfig(s) \/ SaveFails(s)
        \/ Killed(s) \/ Ended(s)

Spec == Init /\ [][Next]_vars

-----------------------------------------------------------------------------
(* Properties.                                                             *)

(* The credential a connector serves with is the one its next start will   *)
(* find, unless two starts overlapped.                                     *)
ServingIsSaved == ~overlapped => \A s \in Starts : at[s] = "ready" => file = held[s]

(* The file changes by the hand of a start that the cloud has granted a    *)
(* credential that was never saved yet, and that is saving it: a refused,  *)
(* unreachable or outdated start, and one that uses what is saved, leave   *)
(* the file alone.  (The file is emptied first: a start that is killed in  *)
(* between leaves neither the old credential nor the new one.)             *)
CredentialsKept ==
    [][file' # file =>
          \E s \in Starts :
              /\ at[s] \in {"open", "write"} /\ at'[s] # at[s]
              /\ held[s] = token[s] /\ held[s] \in consumed \ saved
              /\ file' \in {Torn, held[s]}]_vars

(* A token is not spent for nothing: unless an answer, a process or a write *)
(* was lost, its credential is saved or about to be.                       *)
SpentTokensAreSaved ==
    consumed \subseteq saved \cup lost
        \cup {held[s] : s \in {q \in Starts : at[q] \in {"open", "write"}}}
=============================================================================
