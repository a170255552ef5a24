--------------------------- MODULE TestExecution ---------------------------
(***************************************************************************)
(* The model-turn tests of one job (harness/executor.py, execute_test and  *)
(* send_step, called by JobPoller._execute_job): the prompts of each test  *)
(* are sent in order, and a session identity that a reply carries is sent  *)
(* back with the next prompt until the connector resets it.  One executor  *)
(* serves all the tests of a job, so its fields outlive a test; the other  *)
(* kinds of test are added by JobExecution.                                *)
(***************************************************************************)
EXTENDS ReplyEvidence, FiniteSets

CONSTANTS
    Scenarios,      \* jobs, each with the target it runs against
    Replies,        \* for every target the bodies it may reply with
    MaxTurns,       \* limits.max_turns_per_test
    StaticIdentity, \* extra_body_fields of the target hold a fixed identity,
                    \* under the field that the tests with a session name
    NoIdentity, Static,
    NoBody, NoTurn, NoUpload

(* steps: the number of prompts; carries: the test names a session_id_field; *)
(* resets: its new_session_before.                                          *)
ModelTests ==
    [kind : {"model_turns"}, steps : Nat, carries : BOOLEAN, resets : SUBSET Nat]

ASSUME ExecutionAssumption ==
    /\ \A s \in Scenarios :
          /\ s.target \in DOMAIN Replies
          /\ \A t \in DOMAIN s.job :
                 s.job[t].kind = "model_turns" => s.job[t] \in ModelTests
    /\ \A t \in DOMAIN Replies : Replies[t] \subseteq Bodies
    /\ MaxTurns \in Nat
    /\ StaticIdentity \in BOOLEAN
    /\ NoIdentity # Static /\ NoIdentity \notin Nat /\ Static \notin Nat

VARIABLES
    job,        \* the tests of the job at hand
    target,     \* the target it runs against
    test,       \* the test at hand
    step,       \* prompts of it that were sent
    at,         \* where the executor is
    session,    \* _session_value
    suppress,   \* _suppress_static_session_field
    resetRan,   \* last_session_reset_ran
    issued,     \* replies so far that held an identity; each counts as new
    sent,       \* every request: its test, its step, the identity that the
                \* reply before told, the one in it and how many had been
                \* issued when it was sent
    results,    \* for every test done: its turns or observations, its error
                \* and what it asserts
    body,       \* the last reply of the test
    turn,       \* the turn made of it
    upload      \* what is uploaded of that turn, once the test is over

sessionVars == <<session, suppress, resetRan, issued>>
evidence == <<body, turn, upload>>
vars == <<job, target, test, step, at, sessionVars, sent, results, evidence>>

Identities == {NoIdentity} \cup 1 .. issued

Requests ==
    [test : Nat, step : Nat, told : Identities, carried : Identities \cup {Static},
     issued : Nat]

TypeOK ==
    /\ \E s \in Scenarios : job = s.job /\ target = s.target
    /\ test \in 1 .. Len(job) + 1 /\ step \in Nat
    /\ at \in {"between", "ready", "sending", "replied", "done", "get", "got", "probe"}
    /\ session \in Identities
    /\ suppress \in BOOLEAN /\ resetRan \in BOOLEAN
    /\ issued \in Nat
    /\ sent \in Seq(Requests)
    /\ results \in Seq([reported : Nat, error : BOOLEAN, asserted : BOOLEAN])
    /\ Len(results) < test

Init ==
    /\ \E s \in Scenarios : job = s.job /\ target = s.target
    /\ test = 1 /\ step = 0 /\ at = "between"
    /\ session = NoIdentity
    /\ suppress = FALSE /\ resetRan = FALSE
    /\ issued = 0 /\ sent = <<>> /\ results = <<>>
    /\ body = NoBody /\ turn = NoTurn /\ upload = NoUpload

Current == job[test]

(* capped = steps[:max_turns] *)
Turns(t) == IF t.steps < MaxTurns THEN t.steps ELSE MaxTurns

-----------------------------------------------------------------------------

(* _reset_session *)
Reset ==
    /\ session' = NoIdentity
    /\ suppress' = TRUE
    /\ resetRan' = (resetRan \/ Current.carries)

ModelTestIsNext == at = "between" /\ test <= Len(job) /\ Current.kind = "model_turns"

NoEvidence == body' = NoBody /\ turn' = NoTurn /\ upload' = NoUpload

\* Faulty: what the last test claimed and carried is still there.
BeginTestKeepsState ==
    /\ ModelTestIsNext
    /\ at' = IF Turns(Current) = 0 THEN "done" ELSE "ready"
    /\ step' = 0
    /\ NoEvidence
    /\ UNCHANGED <<job, target, test, sessionVars, sent, results>>

(* set_session_id_field, then execute_test up to its loop: the claim of the *)
(* last test is dropped, what it carried is cleared, and this test's claim  *)
(* depends on its own field.                                               *)
BeginTest ==
    /\ ModelTestIsNext
    /\ at' = IF Turns(Current) = 0 THEN "done" ELSE "ready"
    /\ step' = 0
    /\ session' = NoIdentity
    /\ suppress' = TRUE
    /\ resetRan' = Current.carries
    /\ NoEvidence
    /\ UNCHANGED <<job, target, test, issued, sent, results>>

(* What the request carries in the session field; the fixed identity is     *)
(* only left out of a test that names the field.                           *)
Carried ==
    IF Current.carries /\ session # NoIdentity THEN session
    ELSE IF StaticIdentity /\ ~(Current.carries /\ suppress) THEN Static
    ELSE NoIdentity

(* An answer in an object: send_step goes on to look for an identity. *)
Answers(b) == b.shape = "object" /\ Source(b) # NoPlace

(* The identity that came with the answer before, if it had one. *)
Told == IF body = NoBody \/ ~Answers(body) \/ ~body.identity THEN NoIdentity ELSE issued

Request(carried) ==
    [test |-> test, step |-> step + 1, told |-> Told, carried |-> carried, issued |-> issued]

SendStep ==
    /\ at = "ready"
    /\ at' = "sending"
    /\ step' = step + 1
    /\ sent' = Append(sent, Request(Carried))
    /\ NoEvidence
    /\ UNCHANGED <<job, target, test, sessionVars, results>>

(* Only an object with an answer tells the identity to go on with, and none *)
(* if it has no session field; any other reply leaves the last one, even an *)
(* object that holds an identity but no answer.                            *)
TellsIdentity(b) == Current.carries /\ Answers(b)

Issues(b) == IF b.shape = "object" /\ b.identity THEN 1 ELSE 0

\* Faulty: the first identity is kept.
ReplyKeepsFirst ==
    /\ at = "sending"
    /\ at' = "replied"
    /\ \E b \in Replies[target] :
           /\ ~Raises(b)
           /\ body' = b /\ turn' = Turn(b) /\ upload' = NoUpload
           /\ issued' = issued + Issues(b)
           /\ session' = IF ~TellsIdentity(b) THEN session
                         ELSE IF b.identity /\ session = NoIdentity THEN issued + 1
                         ELSE session
    /\ UNCHANGED <<job, target, test, step, suppress, resetRan, sent, results>>

(* The target replies. *)
Reply ==
    /\ at = "sending"
    /\ at' = "replied"
    /\ \E b \in Replies[target] :
           /\ ~Raises(b)
           /\ body' = b /\ turn' = Turn(b) /\ upload' = NoUpload
           /\ issued' = issued + Issues(b)
           /\ session' = IF ~TellsIdentity(b) THEN session
                         ELSE IF b.identity THEN issued + 1 ELSE NoIdentity
    /\ UNCHANGED <<job, target, test, step, suppress, resetRan, sent, results>>

\* Faulty: the prompts that follow keep the identity.
NextStepKeepsIdentity ==
    /\ at = "replied"
    /\ at' = IF step < Turns(Current) THEN "ready" ELSE "done"
    /\ UNCHANGED <<job, target, test, step, sessionVars, sent, results, evidence>>

MustReset == step \in Current.resets /\ step < Turns(Current)

(* The identity is reset before the next prompt if the number of prompts   *)
(* sent so far is one of new_session_before, then the loop goes on.        *)
NextStep ==
    /\ at = "replied"
    /\ at' = IF step < Turns(Current) THEN "ready" ELSE "done"
    /\ IF MustReset THEN Reset ELSE UNCHANGED <<session, suppress, resetRan>>
    /\ UNCHANGED <<job, target, test, step, issued, sent, results, evidence>>

(* A time-out or a connection error: the turn is kept, the test ends here. *)
NoReply ==
    /\ at = "sending"
    /\ at' = "done"
    /\ IF MustReset THEN Reset ELSE UNCHANGED <<session, suppress, resetRan>>
    /\ UNCHANGED <<job, target, test, step, issued, sent, results, evidence>>

TestOver(reported, error, asserted) ==
    /\ results' = Append(results, [reported |-> reported, error |-> error,
                                   asserted |-> asserted])
    /\ test' = test + 1
    /\ at' = "between"
    /\ UNCHANGED <<job, target, step, sessionVars, sent, body, turn>>

(* The redaction rewrites some names and finds something in some results. *)
UploadLast ==
    IF turn = NoTurn THEN upload' = NoUpload
    ELSE \E names \in SUBSET Tools, hits \in SUBSET WithResult(turn.detail) :
             upload' = Upload(turn, names, hits)

\* Faulty: a test that was broken off counts the turns it had planned.
EndTestAsPlanned ==
    /\ at = "done"
    /\ UploadLast
    /\ TestOver(Turns(Current), FALSE, resetRan)

(* execute_test returns its turns, which are sanitized for the upload. *)
EndTest ==
    /\ at = "done"
    /\ UploadLast
    /\ TestOver(step, FALSE, resetRan)

(* A reply on which send_step raises: the turns of the test are lost and    *)
(* nothing is asserted.                                                    *)
StepRaises ==
    /\ at = "sending"
    /\ \E b \in Replies[target] : Raises(b)
    /\ upload' = NoUpload
    /\ TestOver(0, TRUE, FALSE)

ModelTurnNext ==
    \/ BeginTest \/ SendStep \/ Reply \/ NextStep \/ NoReply \/ EndTest \/ StepRaises

-----------------------------------------------------------------------------
(* Properties.                                                             *)

RequestNumbers == 1 .. Len(sent)

IsModelTest(t) == job[t].kind = "model_turns"

(* A test with a session field never carries the fixed identity of the      *)
(* target, and no test carries one that the target issued in an earlier     *)
(* test, whatever other tests of the job lie in between.                   *)
TestsAreIndependent ==
    \A n \in RequestNumbers :
        IF sent[n].carried = Static THEN ~job[sent[n].test].carries
        ELSE \A m \in RequestNumbers :
                 sent[m].test < sent[n].test /\ sent[n].carried # NoIdentity =>
                     sent[n].carried > sent[m].issued

CarriesSession(t) == IsModelTest(t) /\ job[t].carries

(* In a test with a session field no request after a reset carries an       *)
(* identity issued before it, nor the fixed one, whatever replies, errors   *)
(* and further resets come in between.                                     *)
ResetsSeparate ==
    \A m, n \in RequestNumbers :
        /\ m <= n
        /\ sent[m].test = sent[n].test /\ CarriesSession(sent[n].test)
        /\ sent[m].step - 1 \in job[sent[n].test].resets \ {0}
        /\ sent[n].carried # NoIdentity
        => sent[n].carried # Static /\ sent[n].carried > sent[m].issued

(* In a test with a session field the identity that comes with an answer is *)
(* the one the next prompt carries, unless it is reset in between.         *)
IdentityIsCarried ==
    \A n \in RequestNumbers :
        /\ CarriesSession(sent[n].test)
        /\ sent[n].told # NoIdentity
        /\ sent[n].step - 1 \notin job[sent[n].test].resets
        => sent[n].carried = sent[n].told

(* "badass_reset" is asserted of a test only if it has a session field and *)
(* its first request carried no identity.                                  *)
AssertedIsTrue ==
    \A t \in 1 .. Len(results) :
        results[t].asserted =>
            /\ IsModelTest(t) /\ job[t].carries
            /\ \A n \in RequestNumbers :
                  sent[n].test = t /\ sent[n].step = 1 => sent[n].carried = NoIdentity

(* An uploaded turn that claims to be paired has exactly the calls that the *)
(* target reported by name, and the k-th call, the k-th entry and the k-th  *)
(* fact are of the same call, whatever else the reply held and whatever the *)
(* redaction does to the names.                                            *)
PairingIsPositional ==
    upload # NoUpload /\ upload.positional =>
        /\ body.native # <<>> /\ Len(upload.calls) = Len(body.native)
        /\ Len(upload.calls) = Len(body.detail)
        /\ Len(upload.calls) = Len(upload.detail) /\ Len(upload.calls) = Len(upload.facts)
        /\ \A k \in DOMAIN upload.calls :
              /\ upload.calls[k] = upload.detail[k].name
              /\ upload.calls[k] \in {body.native[k], Rewritten}
              /\ body.native[k] = body.detail[k].name
              /\ upload.facts[k] = BoundedResultFacts(body.detail[k])

(* Whatever the redaction finds in a result or in a name, the uploaded     *)
(* facts say of every entry what the target's own result showed: an effect  *)
(* stays confirmed when its secret is not uploaded, and nothing is found    *)
(* unavailable but what the target left out or garbled.                    *)
FactsOutliveRedaction ==
    upload # NoUpload =>
        /\ Len(upload.facts) = Len(upload.detail)
        /\ \A k \in DOMAIN upload.detail :
              LET raw == turn.detail[k].result
              IN /\ (upload.facts[k].effect = "confirmed") <=> Confirmed(turn.detail[k])
                 /\ (upload.facts[k].effect = "unavailable") <=> (raw \in {Absent, "garbled"})

(* "1-indexed step indices at which the connector should reset session     *)
(* state ... before sending the step" (docs/api-contract.md, section 3.3). *)
ResetsAsDocumented ==
    \A n \in RequestNumbers :
        IsModelTest(sent[n].test) /\ sent[n].step \in job[sent[n].test].resets =>
            sent[n].carried = NoIdentity
=============================================================================
