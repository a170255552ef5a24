-------------------------- MODULE RegistrationProofs --------------------------
(* Theorems about Registration, for any starts and tokens. *)
EXTENDS Registration, TLAPS

Saving == {"open", "write"}

(* A process that is about to save holds the credential that its own token *)
(* was exchanged for.                                                      *)
SavingInv ==
    /\ at \in [Starts -> {"off", "version", "register", "open", "write", "ready"}]
    /\ token \in [Starts -> Tokens \cup {None}]
    /\ held \in [Starts -> Tokens \cup {None}]
    /\ \A s \in Starts : at[s] = "register" => token[s] \in Tokens
    /\ \A s \in Starts : at[s] \in Saving => held[s] = token[s] /\ held[s] \in consumed

LEMMA SavingInvInitially == Init => SavingInv
  BY DEF Init, SavingInv, Saving

LEMMA SavingInvKept == SavingInv /\ [Next]_vars => SavingInv'
  <1> SUFFICES ASSUME SavingInv, [Next]_vars PROVE SavingInv'
    OBVIOUS
  <1> USE RegistrationAssumption DEF SavingInv, Saving, Begins, Goes, EndsWith, start
  <1>1. ASSUME NEW s \in Starts, NEW t \in Tokens, BeginWithToken(s, t) PROVE SavingInv'
    BY <1>1 DEF BeginWithToken
  <1>2. ASSUME NEW s \in Starts, BeginSaved(s) PROVE SavingInv'
    BY <1>2 DEF BeginSaved, Loaded
  <1>3. ASSUME NEW s \in Starts, BeginUnregistered(s) PROVE SavingInv'
    BY <1>3 DEF BeginUnregistered
  <1>4. ASSUME NEW s \in Starts, VersionAccepted(s) PROVE SavingInv'
    BY <1>4 DEF VersionAccepted
  <1>5. ASSUME NEW s \in Starts, VersionTooOld(s) PROVE SavingInv'
    BY <1>5 DEF VersionTooOld
  <1>6. ASSUME NEW s \in Starts, Registered(s) PROVE SavingInv'
    BY <1>6 DEF Registered
  <1>7. ASSUME NEW s \in Starts, RegistrationRefused(s) PROVE SavingInv'
    BY <1>7 DEF RegistrationRefused
  <1>8. ASSUME NEW s \in Starts, RegistrationUnanswered(s) PROVE SavingInv'
    BY <1>8 DEF RegistrationUnanswered
  <1>9. ASSUME NEW s \in Starts, OpenConfig(s) PROVE SavingInv'
    BY <1>9 DEF OpenConfig
  <1>10. ASSUME NEW s \in Starts, WriteConfig(s) PROVE SavingInv'
    BY <1>10 DEF WriteConfig
  <1>11. ASSUME NEW s \in Starts, SaveFails(s) PROVE SavingInv'
    BY <1>11 DEF SaveFails
  <1>12. ASSUME NEW s \in Starts, Killed(s) PROVE SavingInv'
    BY <1>12 DEF Killed
  <1>13. ASSUME NEW s \in Starts, Ended(s) PROVE SavingInv'
    BY <1>13 DEF Ended
  <1>14. CASE UNCHANGED vars
    BY <1>14 DEF vars
  <1> QED
    BY <1>1, <1>2, <1>3, <1>4, <1>5, <1>6, <1>7, <1>8, <1>9, <1>10, <1>11, <1>12, <1>13, <1>14
       DEF Next

(* What a process is about to save was never saved, and no other process   *)
(* holds it.                                                               *)
FreshInv ==
    /\ saved \subseteq consumed
    /\ \A s \in Starts : at[s] \in Saving => held[s] \notin saved
    /\ \A s, q \in Starts :
          at[s] \in Saving /\ at[q] \in Saving /\ held[s] = held[q] => s = q

LEMMA FreshInvKept == SavingInv /\ FreshInv /\ [Next]_vars => FreshInv'
  <1> SUFFICES ASSUME SavingInv, FreshInv, [Next]_vars PROVE FreshInv'
    OBVIOUS
  <1> USE DEF FreshInv, SavingInv, Saving, Begins, Goes, EndsWith, start
  <1>1. ASSUME NEW s \in Starts, NEW t \in Tokens, BeginWithToken(s, t) PROVE FreshInv'
    BY <1>1 DEF BeginWithToken
  <1>2. ASSUME NEW s \in Starts, BeginSaved(s) PROVE FreshInv'
    BY <1>2 DEF BeginSaved
  <1>3. ASSUME NEW s \in Starts, BeginUnregistered(s) PROVE FreshInv'
    BY <1>3 DEF BeginUnregistered
  <1>4. ASSUME NEW s \in Starts, VersionAccepted(s) PROVE FreshInv'
    BY <1>4 DEF VersionAccepted
  <1>5. ASSUME NEW s \in Starts, VersionTooOld(s) PROVE FreshInv'
    BY <1>5 DEF VersionTooOld
  <1>6. ASSUME NEW s \in Starts, Registered(s) PROVE FreshInv'
    BY <1>6 DEF Registered
  <1>7. ASSUME NEW s \in Starts, RegistrationRefused(s) PROVE FreshInv'
    BY <1>7 DEF RegistrationRefused
  <1>8. ASSUME NEW s \in Starts, RegistrationUnanswered(s) PROVE FreshInv'
    BY <1>8 DEF RegistrationUnanswered
  <1>9. ASSUME NEW s \in Starts, OpenConfig(s) PROVE FreshInv'
    BY <1>9 DEF OpenConfig
  <1>10. ASSUME NEW s \in Starts, WriteConfig(s) PROVE FreshInv'
    BY <1>10 DEF WriteConfig
  <1>11. ASSUME NEW s \in Starts, SaveFails(s) PROVE FreshInv'
    BY <1>11 DEF SaveFails
  <1>12. ASSUME NEW s \in Starts, Killed(s) PROVE FreshInv'
    BY <1>12 DEF Killed
  <1>13. ASSUME NEW s \in Starts, Ended(s) PROVE FreshInv'
    BY <1>13 DEF Ended
  <1>14. CASE UNCHANGED vars
    BY <1>14 DEF vars
  <1> QED
    BY <1>1, <1>2, <1>3, <1>4, <1>5, <1>6, <1>7, <1>8, <1>9, <1>10, <1>11, <1>12, <1>13, <1>14
       DEF Next

(* The file is only changed by the process that is saving a credential the *)
(* cloud granted it for its own token and that was never saved before,     *)
(* however starts overlap.                                                 *)
THEOREM OnlyNewerCredentialsReplace == Spec => CredentialsKept
  <1> DEFINE Changes == file' # file =>
          \E s \in Starts :
              /\ at[s] \in {"open", "write"} /\ at'[s] # at[s]
              /\ held[s] = token[s] /\ held[s] \in consumed \ saved
              /\ file' \in {Torn, held[s]}
  <1>1. SavingInv /\ FreshInv /\ [Next]_vars => [Changes]_vars
    <2> SUFFICES ASSUME SavingInv, FreshInv, Next, file' # file PROVE Changes
      OBVIOUS
    <2>1. PICK s \in Starts : OpenConfig(s) \/ WriteConfig(s)
      BY DEF Next, BeginWithToken, BeginSaved, BeginUnregistered, VersionAccepted, VersionTooOld,
             Registered, RegistrationRefused, RegistrationUnanswered, SaveFails, Killed, Ended
    <2>2. at[s] \in Saving /\ at'[s] # at[s] /\ file' \in {Torn, held[s]}
      BY <2>1 DEF OpenConfig, WriteConfig, Goes, Saving, SavingInv
    <2>3. held[s] = token[s] /\ held[s] \in consumed \ saved
      BY <2>2 DEF SavingInv, FreshInv
    <2> QED
      BY <2>2, <2>3 DEF Saving
  <1>2. Init => FreshInv
    BY DEF Init, FreshInv, Saving
  <1> QED
    BY <1>1, <1>2, SavingInvInitially, SavingInvKept, FreshInvKept, PTL DEF Spec, CredentialsKept

-----------------------------------------------------------------------------
(* A process that runs alone finds its own credential, or its own empty    *)
(* file, where it left it.                                                 *)
AloneInv ==
    /\ overlapped \in BOOLEAN
    /\ ~overlapped => \A s, q \in Starts : at[s] # "off" /\ at[q] # "off" => s = q
    /\ ~overlapped => \A s \in Starts :
          /\ at[s] = "version" /\ token[s] = None => file = held[s]
          /\ at[s] = "write" => file = Torn
    /\ ServingIsSaved

LEMMA AloneInvKept == SavingInv /\ AloneInv /\ [Next]_vars => AloneInv'
  <1> SUFFICES ASSUME SavingInv, AloneInv, [Next]_vars PROVE AloneInv'
    OBVIOUS
  <1> USE RegistrationAssumption
      DEF AloneInv, ServingIsSaved, SavingInv, Begins, Goes, EndsWith, start
  <1>1. ASSUME NEW s \in Starts, NEW t \in Tokens, BeginWithToken(s, t) PROVE AloneInv'
    BY <1>1 DEF BeginWithToken
  <1>2. ASSUME NEW s \in Starts, BeginSaved(s) PROVE AloneInv'
    BY <1>2 DEF BeginSaved, Loaded
  <1>3. ASSUME NEW s \in Starts, BeginUnregistered(s) PROVE AloneInv'
    BY <1>3 DEF BeginUnregistered
  <1>4. ASSUME NEW s \in Starts, VersionAccepted(s) PROVE AloneInv'
    BY <1>4 DEF VersionAccepted
  <1>5. ASSUME NEW s \in Starts, VersionTooOld(s) PROVE AloneInv'
    BY <1>5 DEF VersionTooOld
  <1>6. ASSUME NEW s \in Starts, Registered(s) PROVE AloneInv'
    BY <1>6 DEF Registered
  <1>7. ASSUME NEW s \in Starts, RegistrationRefused(s) PROVE AloneInv'
    BY <1>7 DEF RegistrationRefused
  <1>8. ASSUME NEW s \in Starts, RegistrationUnanswered(s) PROVE AloneInv'
    BY <1>8 DEF RegistrationUnanswered
  <1>9. ASSUME NEW s \in Starts, OpenConfig(s) PROVE AloneInv'
    BY <1>9 DEF OpenConfig
  <1>10. ASSUME NEW s \in Starts, WriteConfig(s) PROVE AloneInv'
    BY <1>10 DEF WriteConfig
  <1>11. ASSUME NEW s \in Starts, SaveFails(s) PROVE AloneInv'
    BY <1>11 DEF SaveFails
  <1>12. ASSUME NEW s \in Starts, Killed(s) PROVE AloneInv'
    BY <1>12 DEF Killed
  <1>13. ASSUME NEW s \in Starts, Ended(s) PROVE AloneInv'
    BY <1>13 DEF Ended
  <1>14. CASE UNCHANGED vars
    BY <1>14 DEF vars
  <1> QED
    BY <1>1, <1>2, <1>3, <1>4, <1>5, <1>6, <1>7, <1>8, <1>9, <1>10, <1>11, <1>12, <1>13, <1>14
       DEF Next

(* Whatever failed starts came before, a connector serves with the         *)
(* credential that its next start will find, if starts do not overlap.     *)
THEOREM ServesWhatIsSaved == Spec => []ServingIsSaved
  <1>1. Init => AloneInv
    BY DEF Init, AloneInv, ServingIsSaved
  <1>2. AloneInv => ServingIsSaved
    BY DEF AloneInv
  <1> QED
    BY <1>1, <1>2, SavingInvInitially, SavingInvKept, AloneInvKept, PTL DEF Spec

-----------------------------------------------------------------------------
(* What became of a token that was spent. *)
AccountedFor(t) ==
    t \in saved \/ t \in lost \/ \E s \in Starts : at[s] \in Saving /\ held[s] = t

(* A step does not lose sight of a credential. *)
LEMMA AccountedForStays ==
    ASSUME SavingInv, [Next]_vars, NEW t \in consumed', t \in consumed => AccountedFor(t)
    PROVE  AccountedFor(t)'
  <1> USE DEF AccountedFor, Saving, SavingInv, Begins, Goes, EndsWith, start
  <1>1. ASSUME NEW s \in Starts, NEW u \in Tokens, BeginWithToken(s, u) PROVE AccountedFor(t)'
    BY <1>1 DEF BeginWithToken
  <1>2. ASSUME NEW s \in Starts, BeginSaved(s) PROVE AccountedFor(t)'
    BY <1>2 DEF BeginSaved
  <1>3. ASSUME NEW s \in Starts, BeginUnregistered(s) PROVE AccountedFor(t)'
    BY <1>3 DEF BeginUnregistered
  <1>4. ASSUME NEW s \in Starts, VersionAccepted(s) PROVE AccountedFor(t)'
    BY <1>4 DEF VersionAccepted
  <1>5. ASSUME NEW s \in Starts, VersionTooOld(s) PROVE AccountedFor(t)'
    BY <1>5 DEF VersionTooOld
  <1>6. ASSUME NEW s \in Starts, Registered(s) PROVE AccountedFor(t)'
    BY <1>6 DEF Registered
  <1>7. ASSUME NEW s \in Starts, RegistrationRefused(s) PROVE AccountedFor(t)'
    BY <1>7 DEF RegistrationRefused
  <1>8. ASSUME NEW s \in Starts, RegistrationUnanswered(s) PROVE AccountedFor(t)'
    BY <1>8 DEF RegistrationUnanswered
  <1>9. ASSUME NEW s \in Starts, OpenConfig(s) PROVE AccountedFor(t)'
    BY <1>9 DEF OpenConfig
  <1>10. ASSUME NEW s \in Starts, WriteConfig(s) PROVE AccountedFor(t)'
    BY <1>10 DEF WriteConfig
  <1>11. ASSUME NEW s \in Starts, SaveFails(s) PROVE AccountedFor(t)'
    BY <1>11 DEF SaveFails
  <1>12. ASSUME NEW s \in Starts, Killed(s) PROVE AccountedFor(t)'
    BY <1>12 DEF Killed
  <1>13. ASSUME NEW s \in Starts, Ended(s) PROVE AccountedFor(t)'
    BY <1>13 DEF Ended
  <1>14. CASE UNCHANGED vars
    BY <1>14 DEF vars
  <1> QED
    BY <1>1, <1>2, <1>3, <1>4, <1>5, <1>6, <1>7, <1>8, <1>9, <1>10, <1>11, <1>12, <1>13, <1>14
       DEF Next

(* However starts fail, are killed, or overlap, the credential of a spent  *)
(* token is saved, is about to be, or was lost with an answer, a process   *)
(* or a write.                                                             *)
THEOREM NoTokenIsSpentForNothing == Spec => []SpentTokensAreSaved
  <1>1. Init => \A t \in consumed : AccountedFor(t)
    BY DEF Init
  <1>2. SavingInv /\ (\A t \in consumed : AccountedFor(t)) /\ [Next]_vars
          => (\A t \in consumed : AccountedFor(t))'
    BY AccountedForStays
  <1>3. (\A t \in consumed : AccountedFor(t)) => SpentTokensAreSaved
    BY DEF AccountedFor, Saving, SpentTokensAreSaved
  <1> QED
    BY <1>1, <1>2, <1>3, SavingInvInitially, SavingInvKept, PTL DEF Spec

LEMMA TypesKept == SavingInv /\ TypeOK /\ [Next]_vars => TypeOK'
  <1> SUFFICES ASSUME SavingInv, TypeOK, [Next]_vars PROVE TypeOK'
    OBVIOUS
  <1>1. SavingInv'
    BY SavingInvKept
  <1>2. overlapped' \in BOOLEAN /\ outcome' \in [Starts -> Outcomes]
    BY DEF Next, vars, TypeOK, Outcomes, Begins, Goes, EndsWith, start, BeginWithToken, BeginSaved,
           BeginUnregistered, VersionAccepted, VersionTooOld, Registered, RegistrationRefused,
           RegistrationUnanswered, OpenConfig, WriteConfig, SaveFails, Killed, Ended
  <1> DEFINE Granted == /\ file \in Tokens \cup {None, Torn} /\ consumed \subseteq Tokens
                        /\ saved \subseteq consumed /\ lost \subseteq consumed
  <1>3. Granted'
    <2> USE RegistrationAssumption DEF SavingInv, Saving, TypeOK, Goes, EndsWith
    <2>1. ASSUME UNCHANGED <<file, consumed, saved, lost>> PROVE Granted'
      BY <2>1
    <2>2. ASSUME NEW s \in Starts, Registered(s) PROVE Granted'
      BY <2>2 DEF Registered
    <2>3. ASSUME NEW s \in Starts, RegistrationUnanswered(s) PROVE Granted'
      BY <2>3 DEF RegistrationUnanswered
    <2>4. ASSUME NEW s \in Starts, OpenConfig(s) PROVE Granted'
      BY <2>4 DEF OpenConfig
    <2>5. ASSUME NEW s \in Starts, WriteConfig(s) PROVE Granted'
      BY <2>5 DEF WriteConfig
    <2>6. ASSUME NEW s \in Starts, SaveFails(s) PROVE Granted'
      BY <2>6 DEF SaveFails
    <2>7. ASSUME NEW s \in Starts, Killed(s) PROVE Granted'
      BY <2>7 DEF Killed
    <2> QED
      BY <2>1, <2>2, <2>3, <2>4, <2>5, <2>6, <2>7
      DEF Next, vars, BeginWithToken, BeginSaved, BeginUnregistered, VersionAccepted,
          VersionTooOld, RegistrationRefused, Ended
  <1> QED
    BY <1>1, <1>2, <1>3 DEF SavingInv, TypeOK

(* Processes, file and what became of the tokens stay within their types:  *)
(* nothing is saved or lost that the cloud did not grant.                  *)
THEOREM TypeCorrect == Spec => []TypeOK
  <1>1. Init => TypeOK
    BY DEF Init, TypeOK, Outcomes
  <1> QED
    BY <1>1, SavingInvInitially, SavingInvKept, TypesKept, PTL DEF Spec
=============================================================================
