-------------------------- MODULE CredentialStore --------------------------
(***************************************************************************)
(* The local credentials (target/credentials.py): secrets in the OS        *)
(* keyring, one metadata index file replaced as a whole, "cred set" and     *)
(* "cred remove" commands that load it, change the keyring and save it, and *)
(* a runner that keeps the index it loaded at its start and resolves every *)
(* reference of an enforcement probe before it contacts the target         *)
(* (harness/executor.py).                                                  *)
(***************************************************************************)

CONSTANTS
    Refs,           \* credential references, one per target and context
    Credentials,    \* what a reference may be provisioned with
    Nothing,        \* no secret, or no metadata record
    Writers,        \* concurrent invocations of "cred set" and "cred remove"
    Careful         \* commands do not overlap

ASSUME CredentialAssumption ==
    /\ Nothing \notin Credentials
    /\ Careful \in BOOLEAN

VARIABLES
    keyring,    \* the credential whose secret is stored under each reference
    index,      \* the credential each record of the index file describes
    at,         \* where each command is
    op,         \* what it was asked: a reference, and Nothing for "remove"
    meta,       \* the records it holds in memory
    runner,     \* where the runner is
    snapshot,   \* the records the runner loaded when it started
    plan,       \* the references of the probe at hand
    pending,    \* those still to resolve
    held,       \* the credentials in the runner's memory
    unsettled,  \* references whose last change was cut short
    changed     \* references changed behind the back of the runner

store == <<keyring, index>>
commands == <<at, op, meta>>
probe == <<runner, snapshot, plan, pending, held>>
history == <<unsettled, changed>>
vars == <<store, commands, probe, history>>

Records == [Refs -> Credentials \cup {Nothing}]
Ops     == [ref : Refs, to : Credentials \cup {Nothing}]
Held    == [ref : Refs, meta : Credentials, secret : Credentials]
Empty   == [r \in Refs |-> Nothing]

TypeOK ==
    /\ keyring \in Records /\ index \in Records
    /\ at \in [Writers -> {"idle", "loaded", "saving"}]
    /\ op \in [Writers -> Ops]
    /\ meta \in [Writers -> Records]
    /\ runner \in {"down", "idle", "resolving", "probing"}
    /\ snapshot \in Records
    /\ plan \subseteq Refs /\ pending \subseteq plan
    /\ held \subseteq Held
    /\ unsettled \subseteq Refs /\ changed \subseteq Refs

Init ==
    /\ keyring = Empty /\ index = Empty
    /\ at = [w \in Writers |-> "idle"]
    /\ \E r \in Refs : op = [w \in Writers |-> [ref |-> r, to |-> Nothing]]
    /\ meta = [w \in Writers |-> Empty]
    /\ runner = "down" /\ snapshot = Empty
    /\ plan = {} /\ pending = {} /\ held = {}
    /\ unsettled = {} /\ changed = {}

-----------------------------------------------------------------------------
(* "cred set" and "cred remove".                                           *)

Moves(w, from, to) == at[w] = from /\ at' = [at EXCEPT ![w] = to]

Ref(w) == op[w].ref

(* The store is constructed: the index file is loaded. *)
Load(w, o) ==
    /\ Moves(w, "idle", "loaded")
    /\ Careful => \A v \in Writers : at[v] = "idle"
    /\ op' = [op EXCEPT ![w] = o]
    /\ meta' = [meta EXCEPT ![w] = index]
    /\ UNCHANGED <<store, probe, history>>

\* Faulty: an existing record is not replaced.
SetSecretKeepsRecord(w) ==
    /\ op[w].to # Nothing
    /\ Moves(w, "loaded", "saving")
    /\ keyring' = [keyring EXCEPT ![Ref(w)] = op[w].to]
    /\ meta' = [meta EXCEPT ![w][Ref(w)] = IF @ = Nothing THEN op[w].to ELSE @]
    /\ changed' = changed \cup {Ref(w)}
    /\ UNCHANGED <<index, op, probe, unsettled>>

(* set: the secret first, then the record in memory. *)
SetSecret(w) ==
    /\ op[w].to # Nothing
    /\ Moves(w, "loaded", "saving")
    /\ keyring' = [keyring EXCEPT ![Ref(w)] = op[w].to]
    /\ meta' = [meta EXCEPT ![w][Ref(w)] = op[w].to]
    /\ changed' = changed \cup {Ref(w)}
    /\ UNCHANGED <<index, op, probe, unsettled>>

(* remove: no record in memory, no credential. *)
RemoveUnknown(w) ==
    /\ op[w].to = Nothing
    /\ meta[w][Ref(w)] = Nothing
    /\ Moves(w, "loaded", "idle")
    /\ UNCHANGED <<store, op, meta, probe, history>>

\* Faulty: the secret stays in the keyring.
DeleteRecordOnly(w) ==
    /\ op[w].to = Nothing
    /\ meta[w][Ref(w)] # Nothing
    /\ keyring[Ref(w)] # Nothing
    /\ Moves(w, "loaded", "saving")
    /\ meta' = [meta EXCEPT ![w][Ref(w)] = Nothing]
    /\ changed' = changed \cup {Ref(w)}
    /\ UNCHANGED <<store, op, probe, unsettled>>

(* remove: the secret first, then the record in memory. *)
DeleteSecret(w) ==
    /\ op[w].to = Nothing
    /\ meta[w][Ref(w)] # Nothing
    /\ keyring[Ref(w)] # Nothing
    /\ Moves(w, "loaded", "saving")
    /\ keyring' = [keyring EXCEPT ![Ref(w)] = Nothing]
    /\ meta' = [meta EXCEPT ![w][Ref(w)] = Nothing]
    /\ changed' = changed \cup {Ref(w)}
    /\ UNCHANGED <<index, op, probe, unsettled>>

(* The keyring is not usable, refuses, or has no such secret to delete.    *)
KeyringRefuses(w) ==
    /\ op[w].to # Nothing \/ meta[w][Ref(w)] # Nothing
    /\ Moves(w, "loaded", "idle")
    /\ UNCHANGED <<store, op, meta, probe, history>>

(* _save_metadata: the whole index is replaced by what is in memory. *)
Save(w) ==
    /\ Moves(w, "saving", "idle")
    /\ index' = meta[w]
    /\ unsettled' = unsettled \ {Ref(w)}
    /\ UNCHANGED <<keyring, op, meta, probe, changed>>

(* The disk refuses the new index or, once it is in place, its mode; or the *)
(* command is killed on the way.                                           *)
SaveFails(w) ==
    /\ Moves(w, "saving", "idle")
    /\ index' \in {index, meta[w]}
    /\ unsettled' = unsettled \cup {Ref(w)}
    /\ UNCHANGED <<keyring, op, meta, probe, changed>>

(* The configuration directory is deleted, as docs/install.md says. *)
Uninstall ==
    /\ index # Empty
    /\ Careful => \A w \in Writers : at[w] = "idle"
    /\ index' = Empty
    /\ unsettled' = unsettled \cup {r \in Refs : keyring[r] # Nothing}
    /\ UNCHANGED <<keyring, commands, probe, changed>>

-----------------------------------------------------------------------------
(* The runner.                                                             *)

(* The store is constructed once, from what the file holds now. *)
RunnerStarts ==
    /\ runner = "down"
    /\ runner' = "idle"
    /\ snapshot' = index
    /\ changed' = unsettled \cup {Ref(w) : w \in {v \in Writers : at[v] = "saving"}}
    /\ UNCHANGED <<store, commands, plan, pending, held, unsettled>>

ForgetProbe == plan' = {} /\ pending' = {} /\ held' = {}

RunnerEnds ==
    /\ runner # "down"
    /\ runner' = "down"
    /\ ForgetProbe
    /\ UNCHANGED <<store, commands, snapshot, history>>

BeginProbe(refs) ==
    /\ runner = "idle"
    /\ runner' = "resolving"
    /\ plan' = refs /\ pending' = refs
    /\ UNCHANGED <<store, commands, snapshot, held, history>>

\* Faulty: a reference without a record is left out of the probe.
ResolveSkips(r) ==
    /\ runner = "resolving"
    /\ r \in pending
    /\ pending' = pending \ {r}
    /\ held' = IF snapshot[r] = Nothing \/ keyring[r] = Nothing THEN held
               ELSE held \cup {[ref |-> r, meta |-> snapshot[r], secret |-> keyring[r]]}
    /\ UNCHANGED <<store, commands, runner, snapshot, plan, history>>

(* get_by_ref: the record of the start, the secret of now. *)
Resolve(r) ==
    /\ runner = "resolving"
    /\ r \in pending
    /\ snapshot[r] # Nothing /\ keyring[r] # Nothing
    /\ pending' = pending \ {r}
    /\ held' = held \cup {[ref |-> r, meta |-> snapshot[r], secret |-> keyring[r]]}
    /\ UNCHANGED <<store, commands, runner, snapshot, plan, history>>

(* A reference has no record or no secret, the keyring cannot be read, or   *)
(* the target scope or the headers are not valid: what was loaded is wiped. *)
ResolveFails ==
    /\ runner = "resolving"
    /\ runner' = "idle"
    /\ ForgetProbe
    /\ UNCHANGED <<store, commands, snapshot, history>>

(* Every reference is resolved: the requests go out. *)
SendProbe ==
    /\ runner = "resolving"
    /\ pending = {}
    /\ runner' = "probing"
    /\ UNCHANGED <<store, commands, snapshot, plan, pending, held, history>>

(* The observations are sanitized, or a request raised: all is wiped. *)
ProbeEnds ==
    /\ runner = "probing"
    /\ runner' = "idle"
    /\ ForgetProbe
    /\ UNCHANGED <<store, commands, snapshot, history>>

-----------------------------------------------------------------------------

Command(w) ==
    \/ \E o \in Ops : Load(w, o)
    \/ SetSecret(w) \/ RemoveUnknown(w) \/ DeleteSecret(w) \/ KeyringRefuses(w)
    \/ Save(w) \/ SaveFails(w)

Probe ==
    \/ \E refs \in SUBSET Refs \ {{}} : BeginProbe(refs)
    \/ \E r \in Refs : Resolve(r)
    \/ ResolveFails \/ SendProbe \/ ProbeEnds

Next ==
    \/ \E w \in Writers : Command(w)
    \/ Uninstall
    \/ RunnerStarts \/ RunnerEnds \/ Probe

Spec == Init /\ [][Next]_vars

-----------------------------------------------------------------------------
(* Properties.                                                             *)

Underway == {Ref(w) : w \in {v \in Writers : at[v] = "saving"}}

(* Keyring and index agree: after commands that ran to their end, a secret *)
(* has its record and a record its secret ("cred list" and "cred remove"   *)
(* see exactly what "cred set" provisioned), and a command cut short on    *)
(* one reference does no harm to another.                                  *)
Settled ==
    \A r \in Refs \ (unsettled \cup Underway) : index[r] = keyring[r]

(* "Missing references fail before target HTTP" (docs/credentials.md): the *)
(* requests of a probe go out with every credential of its plan, and no     *)
(* secret outlives the probe it was loaded for, however that ended.        *)
ProbeIsComplete ==
    /\ runner = "probing" => {h.ref : h \in held} = plan
    /\ runner \in {"down", "idle"} => held = {}

(* A secret is sent with the metadata it was provisioned with, unless its   *)
(* reference was changed after the runner started.                         *)
ProbeIsCoherent ==
    runner # "down" => \A h \in held : h.ref \notin changed => h.meta = h.secret
=============================================================================
