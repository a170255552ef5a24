-------------------------- MODULE CredentialProofs --------------------------
(***************************************************************************)
(* CredentialStore, for any references, credentials and commands: as long  *)
(* as commands do not overlap, keyring and index agree, and every probe is *)
(* complete, coherent and leaves no secrets.                               *)
(***************************************************************************)
EXTENDS CredentialStore, TLAPS

(* A user who is careful runs one command at a time. *)
OneCommand ==
    \A v, w \in Writers : at[v] # "idle" /\ at[w] # "idle" => v = w

(* What a command holds in memory is the index, but for the reference it   *)
(* has changed, which it holds as the keyring does.                        *)
MemoryIsCurrent ==
    \A w \in Writers :
        /\ at[w] = "loaded" => meta[w] = index
        /\ at[w] = "saving" =>
              /\ \A r \in Refs \ {Ref(w)} : meta[w][r] = index[r]
              /\ meta[w][Ref(w)] = keyring[Ref(w)]

StoreInv ==
    /\ TypeOK
    /\ OneCommand
    /\ MemoryIsCurrent
    /\ Settled

(* The runner's records are those of the keyring, but for what has changed. *)
SnapshotIsCurrent ==
    runner # "down" =>
        /\ \A r \in Refs \ changed : snapshot[r] = keyring[r]
        /\ \A h \in held : h.ref \notin changed => h.meta = h.secret

(* A probe holds exactly what it has resolved so far. *)
HeldIsResolved ==
    /\ runner = "resolving" => {h.ref : h \in held} = plan \ pending
    /\ runner = "probing" => {h.ref : h \in held} = plan
    /\ runner \in {"down", "idle"} => held = {}

-----------------------------------------------------------------------------

(* Every step keeps the types. *)
LEMMA CredentialTypeStep == TypeOK /\ [Next]_vars => TypeOK'
<1> SUFFICES ASSUME TypeOK, [Next]_vars PROVE TypeOK'
  OBVIOUS
<1> USE CredentialAssumption
    DEF TypeOK, Records, Ops, Held, Empty, store, commands, probe, history, Moves, Ref
<1>1. ASSUME NEW w \in Writers, NEW o \in Ops, Load(w, o) PROVE TypeOK'
  BY <1>1 DEF Load
<1>2. ASSUME NEW w \in Writers, SetSecret(w) PROVE TypeOK'
  BY <1>2 DEF SetSecret
<1>3. ASSUME NEW w \in Writers, RemoveUnknown(w) \/ KeyringRefuses(w) PROVE TypeOK'
  BY <1>3 DEF RemoveUnknown, KeyringRefuses
<1>4. ASSUME NEW w \in Writers, DeleteSecret(w) PROVE TypeOK'
  BY <1>4 DEF DeleteSecret
<1>5. ASSUME NEW w \in Writers, Save(w) \/ SaveFails(w) PROVE TypeOK'
  BY <1>5 DEF Save, SaveFails
<1>6. ASSUME Uninstall PROVE TypeOK'
  BY <1>6 DEF Uninstall
<1>7. ASSUME RunnerStarts PROVE TypeOK'
  BY <1>7 DEF RunnerStarts
<1>8. ASSUME RunnerEnds \/ ResolveFails \/ SendProbe \/ ProbeEnds PROVE TypeOK'
  BY <1>8 DEF RunnerEnds, ResolveFails, SendProbe, ProbeEnds, ForgetProbe
<1>9. ASSUME NEW refs \in SUBSET Refs, BeginProbe(refs) PROVE TypeOK'
  BY <1>9 DEF BeginProbe
<1>10. ASSUME NEW r \in Refs, Resolve(r) PROVE TypeOK'
  BY <1>10 DEF Resolve
<1>11. CASE UNCHANGED vars
  BY <1>11 DEF vars
<1> QED
  BY <1>1, <1>2, <1>3, <1>4, <1>5, <1>6, <1>7, <1>8, <1>9, <1>10, <1>11
     DEF Next, Command, Probe

(* The secret and the record in memory change together. *)
LEMMA MemoryStep ==
  ASSUME NEW w \in Writers, NEW c, StoreInv, TypeOK', Moves(w, "loaded", "saving"),
         keyring' = [keyring EXCEPT ![Ref(w)] = c],
         meta' = [meta EXCEPT ![w][Ref(w)] = c],
         UNCHANGED <<index, op, unsettled>>
  PROVE  StoreInv'
<1> USE DEF TypeOK, Records, Ops, StoreInv, Ref
<1>1. at[w] = "loaded" /\ at' = [at EXCEPT ![w] = "saving"]
  BY DEF Moves
<1>2. \A v \in Writers \ {w} : at[v] = "idle" /\ at'[v] = "idle"
  BY <1>1 DEF OneCommand
<1>3. at'[w] = "saving"
  BY <1>1
<1>4. Underway = {} /\ Underway' = {Ref(w)}
  BY <1>1, <1>2, <1>3 DEF Underway
<1>5. Ref(w) \in Refs
  OBVIOUS
<1>6. \A r \in Refs \ {Ref(w)} :
          keyring'[r] = keyring[r] /\ meta'[w][r] = meta[w][r]
  BY <1>5
<1>7. keyring'[Ref(w)] = c /\ meta'[w][Ref(w)] = c
  BY <1>5
<1>8. OneCommand'
  BY <1>2 DEF OneCommand
<1>9. meta[w] = index
  BY <1>1 DEF MemoryIsCurrent
<1>10. MemoryIsCurrent'
  BY <1>2, <1>3, <1>6, <1>7, <1>9 DEF MemoryIsCurrent
<1>11. Settled'
  BY <1>4, <1>6 DEF Settled
<1> QED
  BY <1>8, <1>10, <1>11

(* Every step of a careful user keeps keyring, index and memory together.  *)
LEMMA StoreInvStep == Careful /\ StoreInv /\ [Next]_vars => StoreInv'
<1> SUFFICES ASSUME Careful, StoreInv, [Next]_vars PROVE StoreInv'
  OBVIOUS
<1>0. TypeOK'
  BY CredentialTypeStep DEF StoreInv
<1>1. ASSUME NEW w \in Writers, SetSecret(w) PROVE StoreInv'
  BY <1>0, <1>1, MemoryStep DEF SetSecret
<1>2. ASSUME NEW w \in Writers, DeleteSecret(w) PROVE StoreInv'
  BY <1>0, <1>2, MemoryStep DEF DeleteSecret
<1> USE <1>0 DEF TypeOK, Records, Ops, StoreInv, OneCommand, MemoryIsCurrent, Settled,
    Underway, Moves, Ref, store, commands, probe, history
<1>3. ASSUME NEW w \in Writers, RemoveUnknown(w) \/ KeyringRefuses(w) PROVE StoreInv'
  <2>1. at[w] = "loaded" /\ at' = [at EXCEPT ![w] = "idle"]
    BY <1>3 DEF RemoveUnknown, KeyringRefuses
  <2>2. UNCHANGED <<keyring, index, op, meta, unsettled>>
    BY <1>3 DEF RemoveUnknown, KeyringRefuses
  <2>3. Underway' = Underway
    BY <2>1, <2>2
  <2> QED
    BY <2>1, <2>2, <2>3
<1>4. ASSUME NEW w \in Writers, NEW o \in Ops, Load(w, o) PROVE StoreInv'
  BY <1>4 DEF Load
<1>5. ASSUME NEW w \in Writers, Save(w) PROVE StoreInv'
  BY <1>5 DEF Save
<1>6. ASSUME NEW w \in Writers, SaveFails(w) PROVE StoreInv'
  BY <1>6 DEF SaveFails
<1>7. ASSUME Uninstall PROVE StoreInv'
  BY <1>7 DEF Uninstall, Empty
<1>8. ASSUME RunnerStarts \/ RunnerEnds \/ Probe PROVE StoreInv'
  BY <1>8 DEF RunnerStarts, RunnerEnds, Probe, BeginProbe, Resolve, ResolveFails,
     SendProbe, ProbeEnds
<1>9. CASE UNCHANGED vars
  BY <1>9 DEF vars
<1> QED
  BY <1>1, <1>2, <1>3, <1>4, <1>5, <1>6, <1>7, <1>8, <1>9 DEF Next, Command

(* Every step keeps the runner's records and credentials coherent. *)
LEMMA SnapshotStep ==
  StoreInv /\ SnapshotIsCurrent /\ HeldIsResolved /\ [Next]_vars => SnapshotIsCurrent'
<1> SUFFICES ASSUME StoreInv, SnapshotIsCurrent, HeldIsResolved, [Next]_vars
             PROVE  SnapshotIsCurrent'
  OBVIOUS
<1> USE DEF StoreInv, TypeOK, Records, Ops, Held, SnapshotIsCurrent, Moves, Ref, store,
    commands, probe, history
<1>1. ASSUME NEW w \in Writers, Command(w) PROVE SnapshotIsCurrent'
  BY <1>1 DEF Command, Load, SetSecret, RemoveUnknown, DeleteSecret, KeyringRefuses,
     Save, SaveFails
<1>2. ASSUME Uninstall PROVE SnapshotIsCurrent'
  BY <1>2 DEF Uninstall
<1>3. ASSUME RunnerStarts PROVE SnapshotIsCurrent'
  BY <1>3 DEF RunnerStarts, Settled, Underway, HeldIsResolved
<1>4. ASSUME RunnerEnds \/ ResolveFails \/ SendProbe \/ ProbeEnds
      PROVE  SnapshotIsCurrent'
  BY <1>4 DEF RunnerEnds, ResolveFails, SendProbe, ProbeEnds, ForgetProbe
<1>5. ASSUME NEW refs \in SUBSET Refs, BeginProbe(refs) PROVE SnapshotIsCurrent'
  BY <1>5 DEF BeginProbe
<1>6. ASSUME NEW r \in Refs, Resolve(r) PROVE SnapshotIsCurrent'
  BY <1>6 DEF Resolve
<1>7. CASE UNCHANGED vars
  BY <1>7 DEF vars
<1> QED
  BY <1>1, <1>2, <1>3, <1>4, <1>5, <1>6, <1>7 DEF Next, Probe

(* Every step keeps what is held equal to what is resolved. *)
LEMMA HeldStep == TypeOK /\ HeldIsResolved /\ [Next]_vars => HeldIsResolved'
<1> SUFFICES ASSUME TypeOK, HeldIsResolved, [Next]_vars PROVE HeldIsResolved'
  OBVIOUS
<1> USE DEF TypeOK, HeldIsResolved, store, commands, probe, history
<1>1. ASSUME NEW w \in Writers, Command(w) PROVE HeldIsResolved'
  BY <1>1 DEF Command, Load, SetSecret, RemoveUnknown, DeleteSecret, KeyringRefuses,
     Save, SaveFails
<1>2. ASSUME Uninstall \/ RunnerStarts \/ RunnerEnds PROVE HeldIsResolved'
  BY <1>2 DEF Uninstall, RunnerStarts, RunnerEnds, ForgetProbe
<1>3. ASSUME ResolveFails \/ SendProbe \/ ProbeEnds PROVE HeldIsResolved'
  BY <1>3 DEF ResolveFails, SendProbe, ProbeEnds, ForgetProbe
<1>4. ASSUME NEW refs \in SUBSET Refs, BeginProbe(refs) PROVE HeldIsResolved'
  BY <1>4 DEF BeginProbe
<1>5. ASSUME NEW r \in Refs, Resolve(r) PROVE HeldIsResolved'
  <2> DEFINE new == [ref |-> r, meta |-> snapshot[r], secret |-> keyring[r]]
  <2>1. /\ runner = "resolving" /\ runner' = "resolving" /\ plan' = plan
        /\ pending' = pending \ {r} /\ r \in pending
        /\ held' = held \cup {new}
    BY <1>5 DEF Resolve
  <2>2. {h.ref : h \in held'} = {h.ref : h \in held} \cup {r}
    <3>1. new.ref = r
      OBVIOUS
    <3> HIDE DEF new
    <3> QED
      BY <2>1, <3>1
  <2>3. {h.ref : h \in held} = plan \ pending
    BY <2>1
  <2> HIDE DEF new
  <2> QED
    BY <2>1, <2>2, <2>3
<1>6. CASE UNCHANGED vars
  BY <1>6 DEF vars
<1> QED
  BY <1>1, <1>2, <1>3, <1>4, <1>5, <1>6 DEF Next, Probe

-----------------------------------------------------------------------------

(* After commands that did not overlap, keyring and index agree on every   *)
(* reference whose last change ran to its end.                             *)
THEOREM StoresAgree == ASSUME Careful PROVE Spec => []Settled
<1>1. Init => StoreInv
  BY CredentialAssumption
     DEF Init, StoreInv, TypeOK, Records, Ops, Empty, OneCommand, MemoryIsCurrent, Settled
<1>2. StoreInv /\ [Next]_vars => StoreInv'
  BY StoreInvStep
<1>3. StoreInv => Settled
  BY DEF StoreInv
<1> QED
  BY <1>1, <1>2, <1>3, PTL DEF Spec

(* A probe uses a secret with the metadata it was provisioned with, unless  *)
(* the reference was changed under the running connector.                  *)
THEOREM ProbesAreCoherent == ASSUME Careful PROVE Spec => []ProbeIsCoherent
<1> DEFINE IInv == StoreInv /\ SnapshotIsCurrent /\ HeldIsResolved
<1>1. Init => IInv
  BY CredentialAssumption
     DEF Init, StoreInv, TypeOK, Records, Ops, Empty, OneCommand, MemoryIsCurrent, Settled,
         SnapshotIsCurrent, HeldIsResolved
<1>2. IInv /\ [Next]_vars => IInv'
  BY StoreInvStep, SnapshotStep, HeldStep DEF StoreInv
<1>3. IInv => ProbeIsCoherent
  BY DEF SnapshotIsCurrent, ProbeIsCoherent
<1> QED
  BY <1>1, <1>2, <1>3, PTL DEF Spec

(* Requests go out with every credential of the plan, and no secret is     *)
(* held between probes, whether commands overlap or not.                   *)
THEOREM ProbesAreCompleteAndWiped == Spec => []ProbeIsComplete
<1> DEFINE IInv == TypeOK /\ HeldIsResolved
<1>1. Init => IInv
  BY CredentialAssumption DEF Init, TypeOK, Records, Ops, Empty, HeldIsResolved
<1>2. IInv /\ [Next]_vars => IInv'
  BY CredentialTypeStep, HeldStep
<1>3. IInv => ProbeIsComplete
  BY DEF HeldIsResolved, ProbeIsComplete
<1> QED
  BY <1>1, <1>2, <1>3, PTL DEF Spec

(* Stores, commands and the connector's memory stay within their types.    *)
THEOREM TypeCorrect == Spec => []TypeOK
<1>1. Init => TypeOK
  BY CredentialAssumption DEF Init, TypeOK, Records, Ops, Empty
<1> QED
  BY <1>1, CredentialTypeStep, PTL DEF Spec
=============================================================================
