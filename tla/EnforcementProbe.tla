--------------------------- MODULE EnforcementProbe ---------------------------
(***************************************************************************)
(* LocalTestExecutor.execute_enforcement_probe (harness/executor.py): for   *)
(* every variant of a probe one request with the authorised headers and one *)
(* with the variant's, in this order, unless the guards on side effects     *)
(* refuse the probe or the variant.  The cloud compares the two             *)
(* observations of a variant; the connector reports them and no verdict.   *)
(* One executor makes the probes of a job one after the other.             *)
(***************************************************************************)
EXTENDS Naturals, Sequences

CONSTANTS
    MaxVariants,    \* bound: unauthorised variants of a probe
    Unset,          \* a variant does not override the probe's value
    NoHeaders

ASSUME ProbeAssumption == MaxVariants \in Nat \ {0} /\ Unset \notin BOOLEAN

VARIABLES
    probe,          \* the probe as deserialised, with the connector's opt-in
    place,          \* "start", "next", "sent" or "done"
    leg,            \* the leg at hand: a variant and whether it is authorised
    prepared,       \* the header dictionaries made for the variant, by leg:
                    \* whose headers each holds
    headers,        \* whose headers the dictionary in use holds
    requests,       \* requests made or tried: the leg and whose headers it carried
    observations    \* what is reported, in order

probeVars == <<probe, place, leg, prepared, headers, requests, observations>>

Flag == BOOLEAN \cup {Unset}

Variants ==
    UNION {[1 .. n -> [nonMutating : Flag, needsFixture : Flag]] : n \in 1 .. MaxVariants}

(* PUT, PATCH and DELETE are destructive methods; referenced: of schema 3,   *)
(* whose headers a builder makes for every leg.                             *)
Probes ==
    [destructive : BOOLEAN, nonMutating : BOOLEAN, needsFixture : BOOLEAN,
     fixture : BOOLEAN, optedIn : BOOLEAN, referenced : BOOLEAN, variants : Variants]

NoProbe ==
    [destructive |-> FALSE, nonMutating |-> TRUE, needsFixture |-> FALSE, fixture |-> FALSE,
     optedIn |-> FALSE, referenced |-> FALSE, variants |-> <<>>]

Leg == [variant : 1 .. MaxVariants + 1, authorized : BOOLEAN]

Outcome == {"refused", "reply", "timeout", "error"}

NoneLeft == [a \in BOOLEAN |-> NoHeaders]

ProbeTypeOK ==
    /\ probe \in Probes \cup {NoProbe}
    /\ place \in {"start", "next", "sent", "done"}
    /\ leg \in Leg
    /\ prepared \in [BOOLEAN -> Leg \cup {NoHeaders}]
    /\ headers \in Leg \cup {NoHeaders}
    /\ requests \subseteq [leg : Leg, headers : Leg \cup {NoHeaders}]
    /\ observations \in Seq([leg : Leg, outcome : Outcome])

FirstLeg == [variant |-> 1, authorized |-> TRUE]

ProbeInit ==
    /\ probe = NoProbe
    /\ place = "done"
    /\ leg = FirstLeg
    /\ prepared = NoneLeft
    /\ headers = NoHeaders
    /\ requests = {}
    /\ observations = <<>>

-----------------------------------------------------------------------------
Count == Len(probe.variants)

Overridden(flag, default) == IF flag = Unset THEN default ELSE flag

(* The guard of the whole probe. *)
Refused ==
    /\ probe.destructive
    /\ probe.nonMutating \/ ~probe.optedIn \/ ~probe.needsFixture \/ ~probe.fixture

NonMutating(v) == Overridden(probe.variants[v].nonMutating, probe.nonMutating)

NeedsFixture(v) == Overridden(probe.variants[v].needsFixture, probe.needsFixture)

\* Faulty: a variant is held to the probe's own flag.
VariantRefusedByProbe(v) ==
    ~probe.nonMutating /\ (~probe.optedIn \/ ~NeedsFixture(v) \/ ~probe.fixture)

(* The guard of one variant. *)
VariantRefused(v) ==
    ~NonMutating(v) /\ (~probe.optedIn \/ ~NeedsFixture(v) \/ ~probe.fixture)

Of(v, a) == [variant |-> v, authorized |-> a]

Observe(l, what) == [leg |-> l, outcome |-> what]

(* The legs of the probe, in the order in which they are reported. *)
LegAt(k) == Of((k + 1) \div 2, k % 2 = 1)

GoesTo(v) ==
    /\ leg' = Of(v, TRUE)
    /\ place' = IF v > Count THEN "done" ELSE "next"

-----------------------------------------------------------------------------
(* A probe of the job begins, with nothing left of the last one. *)
ProbeBegins(p) ==
    /\ place = "done"
    /\ probe' = p
    /\ place' = "start"
    /\ leg' = FirstLeg
    /\ prepared' = NoneLeft
    /\ headers' = NoHeaders
    /\ requests' = {}
    /\ observations' = <<>>

RefuseProbe ==
    /\ place = "start"
    /\ Refused
    /\ observations' = [k \in 1 .. 2 * Count |-> Observe(LegAt(k), "refused")]
    /\ place' = "done"
    /\ UNCHANGED <<probe, leg, prepared, headers, requests>>

AcceptProbe ==
    /\ place = "start"
    /\ ~Refused
    /\ place' = "next"
    /\ UNCHANGED <<probe, leg, prepared, headers, requests, observations>>

(* Both legs of the variant are reported as refused. *)
RefuseVariant ==
    /\ place = "next" /\ leg.authorized
    /\ VariantRefused(leg.variant)
    /\ observations' = observations \o <<Observe(leg, "refused"),
                                         Observe(Of(leg.variant, FALSE), "refused")>>
    /\ GoesTo(leg.variant + 1)
    /\ UNCHANGED <<probe, prepared, headers, requests>>

MaySend == place = "next" /\ (leg.authorized => ~VariantRefused(leg.variant))

InUse(dicts) == IF probe.referenced THEN leg ELSE dicts[leg.authorized]

Sends(dicts) ==
    /\ MaySend
    /\ prepared' = dicts
    /\ headers' = InUse(dicts)
    /\ requests' = requests \cup {[leg |-> leg, headers |-> InUse(dicts)]}
    /\ place' = "sent"
    /\ UNCHANGED <<probe, leg, observations>>

\* Faulty: the dictionaries are made once for the probe.
SendLegPreparedOnce ==
    Sends(IF leg = FirstLeg THEN [a \in BOOLEAN |-> Of(leg.variant, a)] ELSE prepared)

(* Two dictionaries are made before the first leg of a variant, and each is *)
(* what its leg uses, unless a builder makes one for the leg: those of a    *)
(* referenced credential were found valid before the first leg.            *)
SendLeg ==
    Sends(IF leg.authorized THEN [a \in BOOLEAN |-> Of(leg.variant, a)] ELSE prepared)

LegIsOver ==
    /\ place = "sent"
    /\ headers' = NoHeaders
    /\ prepared' = IF probe.referenced THEN prepared
                   ELSE [prepared EXCEPT ![leg.authorized] = NoHeaders]
    /\ IF leg.authorized
       THEN leg' = Of(leg.variant, FALSE) /\ place' = "next"
       ELSE GoesTo(leg.variant + 1)
    /\ UNCHANGED <<probe, requests>>

\* Faulty: a leg that fails is not reported.
LegEndsUnreported ==
    /\ LegIsOver
    /\ \E what \in Outcome \ {"refused"} :
           observations' = IF what = "error" THEN observations
                           ELSE Append(observations, Observe(leg, what))

(* A reply, a timeout or any other error is reported; the dictionary in use *)
(* is emptied in every case, be it a prepared one, and the next leg begins. *)
LegEnds ==
    /\ LegIsOver
    /\ \E what \in Outcome \ {"refused"} :
           observations' = Append(observations, Observe(leg, what))

ProbeStep == RefuseProbe \/ AcceptProbe \/ RefuseVariant \/ SendLeg \/ LegEnds

ProbeNext == ProbeStep \/ \E p \in Probes : ProbeBegins(p)

ProbeSpec == ProbeInit /\ [][ProbeNext]_probeVars

-----------------------------------------------------------------------------
(* Properties.                                                             *)

(* The cloud compares the observations by place: whatever the guards refuse *)
(* and whichever requests fail, the two of a variant follow each other, in  *)
(* the order of the variants, none is missing at the end, and exactly those *)
(* are reported as refused whose requests were not made.                    *)
ObservationsPaired ==
    /\ \A k \in DOMAIN observations :
          /\ observations[k].leg = LegAt(k)
          /\ observations[k].outcome = "refused" <=>
                \A r \in requests : r.leg # observations[k].leg
    /\ place = "done" => Len(observations) = 2 * Count

(* No request that may change the target is made without the operator's    *)
(* opt-in and an isolated fixture, whatever a variant overrides.           *)
MutationIsGuarded ==
    \A r \in requests :
        probe.destructive \/ ~NonMutating(r.leg.variant) => probe.optedIn /\ probe.fixture

(* Every request carries all the headers of its own leg, though the         *)
(* dictionary a leg uses is emptied after it, and none are in use between    *)
(* requests: neither does the authorised credential reach an unauthorised   *)
(* leg nor is an authorised leg sent without it.                            *)
OwnHeaders ==
    /\ \A r \in requests : r.headers = r.leg
    /\ place # "sent" => headers = NoHeaders
=============================================================================
