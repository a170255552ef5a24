--------------------------- MODULE MCJobExecution ---------------------------
(* Small jobs and targets for JobExecution. *)
EXTENDS JobExecution

-----------------------------------------------------------------------------
(* Targets.                                                                *)

InField == [NoValues EXCEPT !["field"] = "text"]
OnlyBlank == [NoValues EXCEPT !["field"] = "blank"]

Answer(identity) == Body("object", InField, <<>>, <<>>, 0, identity)

(* One reply of each kind that the session handling distinguishes. *)
PlainReplies ==
    {Answer(TRUE), Answer(FALSE), Body("object", OnlyBlank, <<>>, <<>>, 0, TRUE),
     OpaqueBody("raw text"), OpaqueBody("no object")}

(* Every combination of texts in the places an answer is looked for. *)
AnswerReplies ==
    {Body("object", values, <<>>, <<>>, 0, FALSE) : values \in [ToSet(Places) -> Values]}

UpTo2(S) == {<<>>} \cup {<<x>> : x \in S} \cup {<<x, y>> : x \in S, y \in S}

(* Every list of up to two calls with every detail, tool_use blocks or not. *)
CallReplies ==
    {Body("object", InField, native, detail, uses, FALSE) :
        native \in UpTo2(Tools \cup {Blank, CallObject}),
        detail \in UpTo2(Entries \cup {NotAnObject}), uses \in 0 .. 1}

AnyReplies == AnswerReplies \cup CallReplies \cup {OpaqueBody(shape) : shape \in Opaque}

SmallReplies == [plain |-> PlainReplies, any |-> AnyReplies]

-----------------------------------------------------------------------------
(* Jobs.                                                                   *)

ModelTest(steps, carries, resets) ==
    [kind |-> "model_turns", steps |-> steps, carries |-> carries, resets |-> resets]

(* Tests of up to three prompts, with and without a session field, some of  *)
(* them cut to three by MaxTurns, with every set of resets.                *)
SomeTests ==
    {ModelTest(n, TRUE, resets) : n \in {2, 4}, resets \in SUBSET (0 .. 2)}
        \cup {ModelTest(1, FALSE, resets) : resets \in {{}, {1}}}

Surface == [kind |-> "surface_probe", paths |-> 2]

Enforcement(p) == [kind |-> "enforcement_probe", probe |-> p]

SafeProbe(referenced, variants) ==
    [destructive |-> FALSE, nonMutating |-> TRUE, needsFixture |-> FALSE, fixture |-> FALSE,
     optedIn |-> FALSE, referenced |-> referenced,
     variants |-> [v \in 1 .. variants |-> [nonMutating |-> Unset, needsFixture |-> Unset]]]

(* A probe between two tests that carry a session, and probes in a row. *)
MixedJobs ==
    {<<ModelTest(2, TRUE, {}), other, ModelTest(2, TRUE, {1})>> :
        other \in {Surface, Enforcement(SafeProbe(FALSE, 1)), Enforcement(SafeProbe(TRUE, 1))}}
        \cup {<<Enforcement(SafeProbe(r, 2)), Surface, Enforcement(SafeProbe(~r, 1))>> :
                 r \in BOOLEAN}

SmallScenarios ==
    [job : {<<t, u>> : t \in SomeTests, u \in SomeTests} \cup MixedJobs, target : {"plain"}]
        \cup [job : {<<Enforcement(p)>> : p \in Probes}, target : {"plain"}]
        \cup [job : {<<ModelTest(1, FALSE, {})>>}, target : {"any"}]

(* The prompts and resets of the example in docs/api-contract.md, section   *)
(* 3.3; its tests name no session field, these do.                         *)
DocumentedScenario ==
    {[job |-> <<ModelTest(1, TRUE, {}), ModelTest(2, TRUE, {2})>>, target |-> "plain"]}
=============================================================================
