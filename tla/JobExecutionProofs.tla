-------------------------- MODULE JobExecutionProofs --------------------------
(***************************************************************************)
(* For every job of a connector, with any number of tests, prompts, paths   *)
(* and variants and any replies of the target.  Of its enforcement probes:  *)
(* no request that may change the target is made without the opt-in and the *)
(* fixture, every request carries the headers of its own leg, and every leg *)
(* is reported in its place.  Of its model-turn tests: no identity crosses  *)
(* a reset or a test, and what is asserted, reported and uploaded is true.  *)
(***************************************************************************)
EXTENDS JobExecution, FiniteSetTheorems, WellFoundedInduction, TLAPS

-----------------------------------------------------------------------------
(* The guards have been passed for every request made or about to be made: *)
(* the probe's when the loop is entered, the variant's when its first leg  *)
(* is.                                                                     *)
Passed(v) == ~Refused /\ ~VariantRefused(v)

GuardInv ==
    /\ place = "start" => requests = {} /\ leg = FirstLeg
    /\ place \in {"next", "sent"} => ~Refused
    /\ place = "next" /\ ~leg.authorized => ~VariantRefused(leg.variant)
    /\ place = "sent" => ~VariantRefused(leg.variant)
    /\ \A r \in requests : Passed(r.leg.variant)

LEMMA GuardInvInitially == ProbeInit => GuardInv
  BY DEF ProbeInit, GuardInv

(* A probe in its course stays the one that was deserialised, and so do its *)
(* guards.                                                                  *)
LEMMA StepKeepsProbe ==
    ASSUME ProbeStep
    PROVE  /\ probe' = probe
           /\ Refused' = Refused /\ \A v : VariantRefused(v)' = VariantRefused(v)
<1>1. probe' = probe
  BY DEF ProbeStep, RefuseProbe, AcceptProbe, RefuseVariant, SendLeg, Sends, LegEnds, LegIsOver
<1> QED
  BY <1>1 DEF Refused, VariantRefused, NonMutating, NeedsFixture

(* Every step keeps the guards' invariant; a probe that begins has made no  *)
(* request.                                                                 *)
LEMMA GuardInvKept == GuardInv /\ [ProbeNext]_probeVars => GuardInv'
<1> SUFFICES ASSUME GuardInv, [ProbeNext]_probeVars
             PROVE  GuardInv'
  OBVIOUS
<1>1. ASSUME ProbeStep
      PROVE  Refused' = Refused /\ \A v : VariantRefused(v)' = VariantRefused(v)
  BY <1>1, StepKeepsProbe
<1>2. CASE RefuseProbe
  <2>1. place = "start" /\ place' = "done" /\ requests' = requests
    BY <1>2 DEF RefuseProbe
  <2>2. requests = {}
    BY <2>1 DEF GuardInv
  <2> QED
    BY <2>1, <2>2 DEF GuardInv
<1>3. CASE AcceptProbe
  <2>1. /\ place = "start" /\ place' = "next" /\ ~Refused
        /\ leg' = leg /\ requests' = requests
    BY <1>3 DEF AcceptProbe
  <2>2. requests' = {} /\ leg'.authorized
    BY <2>1 DEF GuardInv, FirstLeg
  <2> QED
    BY <1>1, <1>3, <2>1, <2>2 DEF GuardInv, ProbeStep
<1>4. CASE RefuseVariant
  BY <1>1, <1>4 DEF RefuseVariant, GoesTo, Of, GuardInv, Passed, ProbeStep
<1>5. CASE SendLeg
  BY <1>1, <1>5 DEF SendLeg, Sends, MaySend, GuardInv, Passed, ProbeStep
<1>6. CASE LegEnds
  BY <1>1, <1>6 DEF LegEnds, LegIsOver, GoesTo, Of, GuardInv, Passed, ProbeStep
<1>7. ASSUME NEW p \in Probes, ProbeBegins(p)
      PROVE  GuardInv'
  BY <1>7 DEF ProbeBegins, GuardInv
<1>8. CASE UNCHANGED probeVars
  <2>1. Refused' = Refused /\ \A v : VariantRefused(v)' = VariantRefused(v)
    BY <1>8 DEF probeVars, Refused, VariantRefused, NonMutating, NeedsFixture
  <2> QED
    BY <1>8, <2>1 DEF probeVars, GuardInv, Passed
<1> QED
  BY <1>2, <1>3, <1>4, <1>5, <1>6, <1>7, <1>8 DEF ProbeNext, ProbeStep

(* The probe at hand is a probe of a job, or none has begun. *)
LEMMA ProbeInvariant == ProbeSpec => [](probe \in Probes \cup {NoProbe})
<1>1. ProbeInit => probe \in Probes \cup {NoProbe}
  BY DEF ProbeInit
<1>2. probe \in Probes \cup {NoProbe} /\ [ProbeNext]_probeVars
        => (probe \in Probes \cup {NoProbe})'
  BY StepKeepsProbe DEF ProbeNext, ProbeBegins, probeVars
<1> QED
  BY <1>1, <1>2, PTL DEF ProbeSpec

(* The operator's opt-in and an isolated fixture stand before every request *)
(* that may change the target, whatever a variant overrides.               *)
THEOREM MutationsAreGuarded == ProbeSpec => []MutationIsGuarded
<1>1. probe \in Probes \cup {NoProbe} /\ GuardInv => MutationIsGuarded
  BY DEF Probes, NoProbe, GuardInv, Passed, Refused, VariantRefused, MutationIsGuarded
<1> QED
  BY <1>1, GuardInvInitially, GuardInvKept, ProbeInvariant, PTL DEF ProbeSpec

-----------------------------------------------------------------------------
(* The dictionary of the unauthorised leg is still whole when its turn      *)
(* comes: the authorised leg empties only its own.                          *)
AnyLeg == [variant : Nat, authorized : BOOLEAN]

HeadersInv ==
    /\ leg \in AnyLeg
    /\ prepared \in [BOOLEAN -> AnyLeg \cup {NoHeaders}]
    /\ place = "start" => leg = FirstLeg
    /\ place = "sent" \/ (place = "next" /\ ~leg.authorized) =>
          prepared[FALSE] = Of(leg.variant, FALSE)
    /\ OwnHeaders

(* A leg goes out with the headers made for it, whether its dictionary is   *)
(* made now, was made with its variant, or comes from the builder.          *)
LEMMA LegInUse ==
    ASSUME HeadersInv, SendLeg
    PROVE  /\ headers' = leg
           /\ requests' = requests \cup {[leg |-> leg, headers |-> leg]}
           /\ prepared' \in [BOOLEAN -> AnyLeg \cup {NoHeaders}]
           /\ prepared'[FALSE] = Of(leg.variant, FALSE)
           /\ leg' = leg /\ place' = "sent"
<1> DEFINE Fresh == [a \in BOOLEAN |-> Of(leg.variant, a)]
           dicts == IF leg.authorized THEN Fresh ELSE prepared
<1>1. leg \in AnyLeg /\ leg.variant \in Nat /\ leg.authorized \in BOOLEAN
  BY DEF HeadersInv, AnyLeg
<1>2. Fresh \in [BOOLEAN -> AnyLeg \cup {NoHeaders}] /\ Fresh[FALSE] = Of(leg.variant, FALSE)
  BY <1>1 DEF Of, AnyLeg
<1>3. leg = Of(leg.variant, leg.authorized)
  BY <1>1 DEF Of, AnyLeg
<1>4. dicts[FALSE] = Of(leg.variant, FALSE) /\ dicts[leg.authorized] = leg
  BY <1>1, <1>2, <1>3 DEF HeadersInv, SendLeg, Sends, MaySend
<1>5. dicts \in [BOOLEAN -> AnyLeg \cup {NoHeaders}]
  BY <1>2 DEF HeadersInv
<1>6. Sends(dicts)
  BY DEF SendLeg
<1> HIDE DEF dicts
<1> QED
  BY <1>4, <1>5, <1>6 DEF Sends, InUse

LEMMA HeadersInvKept == HeadersInv /\ [ProbeNext]_probeVars => HeadersInv'
<1> SUFFICES ASSUME HeadersInv, [ProbeNext]_probeVars
             PROVE  HeadersInv'
  OBVIOUS
<1>0. leg \in AnyLeg /\ leg.variant \in Nat /\ leg.authorized \in BOOLEAN
  BY DEF HeadersInv, AnyLeg
<1>1. FirstLeg \in AnyLeg /\ NoneLeft \in [BOOLEAN -> AnyLeg \cup {NoHeaders}]
  BY DEF FirstLeg, AnyLeg, NoneLeft
<1>2. CASE RefuseProbe
  BY <1>2 DEF RefuseProbe, HeadersInv, OwnHeaders
<1>3. CASE AcceptProbe
  <2>1. leg' = FirstLeg /\ FirstLeg.authorized
    BY <1>3 DEF AcceptProbe, HeadersInv, FirstLeg
  <2> QED
    BY <1>3, <2>1 DEF AcceptProbe, HeadersInv, OwnHeaders
<1>4. CASE RefuseVariant
  <2>1. /\ leg' = Of(leg.variant + 1, TRUE)
        /\ place = "next" /\ place' \in {"next", "done"}
        /\ prepared' = prepared /\ headers' = headers /\ requests' = requests
    BY <1>4 DEF RefuseVariant, GoesTo
  <2>2. leg' \in AnyLeg /\ leg'.authorized = TRUE
    BY <1>0, <2>1 DEF Of, AnyLeg
  <2>3. OwnHeaders'
    BY <2>1 DEF HeadersInv, OwnHeaders
  <2> QED
    BY <2>1, <2>2, <2>3 DEF HeadersInv
<1>5. CASE SendLeg
  <2>1. /\ headers' = leg /\ leg' = leg /\ place' = "sent"
        /\ requests' = requests \cup {[leg |-> leg, headers |-> leg]}
        /\ prepared' \in [BOOLEAN -> AnyLeg \cup {NoHeaders}]
        /\ prepared'[FALSE] = Of(leg.variant, FALSE)
    BY <1>5, LegInUse
  <2>2. OwnHeaders'
    BY <2>1 DEF HeadersInv, OwnHeaders
  <2> QED
    BY <2>1, <2>2 DEF HeadersInv
<1>6. CASE LegEnds
  <2>1. prepared' \in [BOOLEAN -> AnyLeg \cup {NoHeaders}]
    BY <1>6 DEF LegEnds, LegIsOver, HeadersInv
  <2>2. CASE leg.authorized
    <3>1. leg' = Of(leg.variant, FALSE) /\ place' = "next"
      BY <1>6, <2>2 DEF LegEnds, LegIsOver
    <3>2. prepared'[FALSE] = Of(leg.variant, FALSE)
      BY <1>0, <1>6, <2>2 DEF LegEnds, LegIsOver, HeadersInv
    <3>3. leg' \in AnyLeg /\ leg'.variant = leg.variant
      BY <1>0, <3>1 DEF Of, AnyLeg
    <3>4. OwnHeaders'
      BY <1>6, <3>1 DEF LegEnds, LegIsOver, HeadersInv, OwnHeaders
    <3> QED
      BY <2>1, <3>1, <3>2, <3>3, <3>4 DEF HeadersInv
  <2>3. CASE ~leg.authorized
    <3>1. leg' = Of(leg.variant + 1, TRUE) /\ place' \in {"next", "done"}
      BY <1>6, <2>3 DEF LegEnds, LegIsOver, GoesTo
    <3>2. leg' \in AnyLeg /\ leg'.authorized = TRUE
      BY <1>0, <3>1 DEF Of, AnyLeg
    <3>3. OwnHeaders'
      BY <1>6 DEF LegEnds, LegIsOver, HeadersInv, OwnHeaders
    <3> QED
      BY <2>1, <3>1, <3>2, <3>3 DEF HeadersInv
  <2> QED
    BY <2>2, <2>3
<1>7. ASSUME NEW p \in Probes, ProbeBegins(p)
      PROVE  HeadersInv'
  BY <1>1, <1>7 DEF ProbeBegins, HeadersInv, OwnHeaders
<1>8. CASE UNCHANGED probeVars
  BY <1>8 DEF probeVars, HeadersInv, OwnHeaders
<1> QED
  BY <1>2, <1>3, <1>4, <1>5, <1>6, <1>7, <1>8 DEF ProbeNext, ProbeStep

(* Every request carries all its own leg's headers and no other's, though   *)
(* the dictionaries are emptied one after the other.                        *)
THEOREM HeadersAreOwn == ProbeSpec => []OwnHeaders
<1>1. ProbeInit => HeadersInv
  BY DEF ProbeInit, HeadersInv, FirstLeg, AnyLeg, NoneLeft, OwnHeaders
<1>2. HeadersInv => OwnHeaders
  BY DEF HeadersInv
<1> QED
  BY <1>1, <1>2, HeadersInvKept, PTL DEF ProbeSpec

-----------------------------------------------------------------------------
(* Observations are made leg after leg: so many are behind the leg at hand. *)
NumberedLeg == [variant : Nat \ {0}, authorized : BOOLEAN]

Behind(l) == IF l.authorized THEN 2 * l.variant - 2 ELSE 2 * l.variant - 1

Observed == [leg : NumberedLeg, outcome : Outcome]

Answered(l) == \E r \in requests : r.leg = l

(* A leg is reported in its place, as refused if no request was made for   *)
(* it; requests have been made for those legs and the one at hand only.    *)
PairInv ==
    /\ leg \in NumberedLeg /\ Count \in Nat
    /\ observations \in Seq(Observed)
    /\ place = "start" => leg = FirstLeg /\ observations = <<>> /\ requests = {}
    /\ place \in {"start", "next", "sent"} =>
          leg.variant <= Count /\ Len(observations) = Behind(leg)
    /\ place = "sent" => Answered(leg)
    /\ place = "done" => Len(observations) = 2 * Count
    /\ \A r \in requests :
          \/ place = "sent" /\ r.leg = leg
          \/ \E k \in 1 .. Len(observations) : r.leg = LegAt(k)
    /\ \A k \in 1 .. Len(observations) :
          /\ observations[k].leg = LegAt(k)
          /\ observations[k].outcome = "refused" <=> ~Answered(LegAt(k))

LEMMA LegsAreNumbered ==
    /\ \A k \in Nat \ {0} : LegAt(k) \in NumberedLeg
    /\ \A k, m \in Nat \ {0} : LegAt(k) = LegAt(m) => k = m
    /\ \A l \in NumberedLeg : Behind(l) \in Nat /\ LegAt(Behind(l) + 1) = l
<1>1. ASSUME NEW k \in Nat \ {0} PROVE LegAt(k) \in NumberedLeg /\ Behind(LegAt(k)) = k - 1
  <2>1. (k + 1) \div 2 \in Nat \ {0} /\ (k % 2 = 1) \in BOOLEAN
    OBVIOUS
  <2>2. LegAt(k) \in NumberedLeg
    BY <2>1 DEF LegAt, Of, NumberedLeg
  <2>3. CASE k % 2 = 1
    <3>1. 2 * ((k + 1) \div 2) = k + 1
      BY <2>3
    <3>2. LegAt(k).variant = (k + 1) \div 2 /\ LegAt(k).authorized
      BY <2>3 DEF LegAt, Of
    <3> QED
      BY <2>1, <2>2, <3>1, <3>2 DEF Behind
  <2>4. CASE k % 2 # 1
    <3>1. 2 * ((k + 1) \div 2) = k
      BY <2>4
    <3> QED
      BY <2>2, <2>4, <3>1 DEF LegAt, Of, Behind
  <2> QED
    BY <2>2, <2>3, <2>4
<1>2. ASSUME NEW l \in NumberedLeg PROVE Behind(l) \in Nat /\ LegAt(Behind(l) + 1) = l
  <2>1. PICK v \in Nat \ {0}, a \in BOOLEAN : l = [variant |-> v, authorized |-> a]
    BY DEF NumberedLeg
  <2>2. CASE a = TRUE
    <3>1. Behind(l) = 2 * v - 2
      BY <2>1, <2>2 DEF Behind
    <3>2. (2 * v - 2 + 1 + 1) \div 2 = v /\ ((2 * v - 2 + 1) % 2 = 1) = TRUE
      OBVIOUS
    <3>3. Behind(l) \in Nat
      BY <3>1
    <3>4. LegAt(Behind(l) + 1) = l
      BY <2>1, <2>2, <3>1, <3>2, Zenon DEF LegAt, Of
    <3> QED
      BY <3>3, <3>4
  <2>3. CASE a = FALSE
    <3>1. Behind(l) = 2 * v - 1
      BY <2>1, <2>3 DEF Behind
    <3>2. (2 * v - 1 + 1 + 1) \div 2 = v /\ (2 * v - 1 + 1) % 2 # 1
      OBVIOUS
    <3> QED
      BY <2>1, <2>3, <3>1, <3>2 DEF LegAt, Of
  <2> QED
    BY <2>2, <2>3
<1>3. ASSUME NEW k \in Nat \ {0}, NEW m \in Nat \ {0}, LegAt(k) = LegAt(m) PROVE k = m
  BY <1>1, <1>3
<1> QED
  BY <1>1, <1>2, <1>3

LEMMA PairInvInitially == ProbeInit => PairInv
<1> SUFFICES ASSUME ProbeInit PROVE PairInv
  OBVIOUS
<1>1. Count = 0 /\ Len(observations) = 0
  BY DEF ProbeInit, NoProbe, Count
<1>2. leg \in NumberedLeg
  BY DEF ProbeInit, FirstLeg, NumberedLeg
<1> QED
  BY <1>1, <1>2 DEF ProbeInit, PairInv

(* An observation more for the leg at hand is in its place.                *)
LEMMA ReportedInPlace ==
    ASSUME PairInv, place \in {"next", "sent"}
    PROVE  /\ Len(observations) \in Nat
           /\ LegAt(Len(observations) + 1) = leg
           /\ \A what \in Outcome : Append(observations, Observe(leg, what)) \in Seq(Observed)
           /\ \A k \in 1 .. Len(observations) : LegAt(k) # leg
<1>1. Len(observations) \in Nat /\ Len(observations) = Behind(leg) /\ leg \in NumberedLeg
  BY DEF PairInv
<1>2. LegAt(Len(observations) + 1) = leg
  BY <1>1, LegsAreNumbered
<1>3. \A k \in 1 .. Len(observations) : LegAt(k) # leg
  BY <1>1, <1>2, LegsAreNumbered
<1>4. \A what \in Outcome : Observe(leg, what) \in Observed
  BY <1>1 DEF Observe, Observed
<1> QED
  BY <1>1, <1>2, <1>3, <1>4 DEF PairInv

LEMMA PairInvStep == PairInv /\ [ProbeNext]_probeVars => PairInv'
<1> SUFFICES ASSUME PairInv, [ProbeNext]_probeVars
             PROVE  PairInv'
  OBVIOUS
<1>0. leg.variant \in Nat \ {0} /\ leg.authorized \in BOOLEAN /\ Count \in Nat
  BY DEF PairInv, NumberedLeg
<1>1. ASSUME ProbeStep PROVE Count' = Count
  BY <1>1, StepKeepsProbe DEF Count
<1>2. CASE RefuseProbe
  <2>1. /\ place = "start" /\ place' = "done" /\ leg' = leg /\ requests' = {}
        /\ observations' = [k \in 1 .. 2 * Count |-> Observe(LegAt(k), "refused")]
    BY <1>2 DEF RefuseProbe, PairInv
  <2>2. \A k \in 1 .. 2 * Count : Observe(LegAt(k), "refused") \in Observed
    BY LegsAreNumbered DEF Observe, Observed, Outcome
  <2>3. observations' \in Seq(Observed) /\ Len(observations') = 2 * Count
    BY <1>0, <2>1, <2>2
  <2>4. \A k \in 1 .. Len(observations') :
            observations'[k].leg = LegAt(k) /\ observations'[k].outcome = "refused"
    BY <2>1, <2>3 DEF Observe
  <2> QED
    BY <1>1, <1>2, <2>1, <2>3, <2>4 DEF PairInv, Answered, ProbeStep
<1>3. CASE AcceptProbe
  BY <1>1, <1>3 DEF AcceptProbe, PairInv, Answered, ProbeStep
<1>4. CASE SendLeg
  <2>1. /\ place = "next" /\ place' = "sent" /\ leg' = leg /\ observations' = observations
        /\ \E h : requests' = requests \cup {[leg |-> leg, headers |-> h]}
    BY <1>4 DEF SendLeg, Sends, MaySend
  <2>2. PICK h : requests' = requests \cup {[leg |-> leg, headers |-> h]}
    BY <2>1
  <2>3. \A r : r \in requests' <=> r \in requests \/ r = [leg |-> leg, headers |-> h]
    BY <2>2
  <2>4. [leg |-> leg, headers |-> h].leg = leg
    OBVIOUS
  <2>5. Answered(leg)' /\ \A l : l # leg => (Answered(l)' <=> Answered(l))
    BY <2>1, <2>3, <2>4, Zenon DEF Answered
  <2>6. \A r \in requests' : r \in requests \/ r.leg = leg
    BY <2>3
  <2>7. \A k \in 1 .. Len(observations) : LegAt(k) # leg
    BY <2>1, ReportedInPlace
  <2> QED
    BY <1>1, <1>4, <2>1, <2>5, <2>6, <2>7 DEF PairInv, ProbeStep
<1>5. CASE LegEnds
  <2>1. PICK what \in Outcome \ {"refused"} :
            observations' = Append(observations, Observe(leg, what))
    BY <1>5 DEF LegEnds
  <2>2. /\ place = "sent" /\ requests' = requests
        /\ IF leg.authorized THEN leg' = Of(leg.variant, FALSE) /\ place' = "next"
           ELSE GoesTo(leg.variant + 1)
    BY <1>5 DEF LegEnds, LegIsOver
  <2>3. /\ observations' \in Seq(Observed) /\ Len(observations') = Len(observations) + 1
        /\ \A k \in 1 .. Len(observations) : observations'[k] = observations[k]
        /\ observations'[Len(observations) + 1] = Observe(leg, what)
    BY <2>1, <2>2, ReportedInPlace DEF PairInv
  <2>4. LegAt(Len(observations) + 1) = leg
    BY <2>2, ReportedInPlace
  <2>5. \A k \in 1 .. Len(observations') :
            /\ observations'[k].leg = LegAt(k)
            /\ observations'[k].outcome = "refused" <=> ~Answered(LegAt(k))
    BY <2>1, <2>2, <2>3, <2>4 DEF PairInv, Observe
  <2>6. \A r \in requests' : \E k \in 1 .. Len(observations') : r.leg = LegAt(k)
    BY <2>2, <2>3, <2>4 DEF PairInv
  <2>7. /\ leg' \in NumberedLeg /\ place' \in {"next", "done"}
        /\ place' = "next" => leg'.variant <= Count /\ Len(observations') = Behind(leg')
        /\ place' = "done" => Len(observations') = 2 * Count
    <3>1. leg.variant <= Count /\ Len(observations) = Behind(leg)
      BY <2>2 DEF PairInv
    <3>2. CASE leg.authorized
      <4>1. leg' = Of(leg.variant, FALSE) /\ place' = "next"
        BY <2>2, <3>2
      <4>2. leg' \in NumberedLeg /\ leg'.variant = leg.variant /\ ~leg'.authorized
        BY <1>0, <4>1 DEF Of, NumberedLeg
      <4>3. Behind(leg) = 2 * leg.variant - 2 /\ Behind(leg') = 2 * leg.variant - 1
        BY <3>2, <4>2 DEF Behind
      <4>4. place' = "next"
        BY <4>1
      <4> QED
        BY <1>0, <2>3, <3>1, <4>2, <4>3, <4>4
    <3>3. CASE ~leg.authorized
      <4>1. leg' = Of(leg.variant + 1, TRUE)
            /\ place' = IF leg.variant + 1 > Count THEN "done" ELSE "next"
        BY <2>2, <3>3 DEF GoesTo
      <4>2. leg' \in NumberedLeg /\ leg'.variant = leg.variant + 1 /\ leg'.authorized
        BY <1>0, <4>1 DEF Of, NumberedLeg
      <4>3. Behind(leg) = 2 * leg.variant - 1 /\ Behind(leg') = 2 * (leg.variant + 1) - 2
        BY <3>3, <4>2 DEF Behind
      <4>4. place' = IF leg.variant + 1 > Count THEN "done" ELSE "next"
        BY <4>1
      <4>5. Len(observations') = 2 * leg.variant
        BY <1>0, <2>3, <3>1, <4>3
      <4>6. leg.variant + 1 > Count => leg.variant = Count
        BY <1>0, <3>1
      <4>7. place' = "next" => leg.variant + 1 <= Count
        BY <1>0, <4>4
      <4>8. Behind(leg') = 2 * leg.variant
        BY <1>0, <4>3
      <4> QED
        BY <4>2, <4>4, <4>5, <4>6, <4>7, <4>8
    <3> QED
      BY <3>2, <3>3
  <2> QED
    BY <1>1, <1>5, <2>2, <2>3, <2>5, <2>6, <2>7 DEF PairInv, ProbeStep, Answered
<1>6. CASE RefuseVariant
  <2> DEFINE other == Of(leg.variant, FALSE)
             n == Len(observations)
  <2>1. /\ place = "next" /\ leg.authorized /\ requests' = requests
        /\ observations' = observations \o <<Observe(leg, "refused"), Observe(other, "refused")>>
        /\ leg' = Of(leg.variant + 1, TRUE)
        /\ place' = IF leg.variant + 1 > Count THEN "done" ELSE "next"
    BY <1>6 DEF RefuseVariant, GoesTo
  <2>2. n \in Nat /\ n = 2 * leg.variant - 2 /\ leg.variant <= Count /\ LegAt(n + 1) = leg
    BY <1>0, <2>1, ReportedInPlace DEF PairInv, Behind
  <2>3. other \in NumberedLeg /\ LegAt(n + 2) = other
    <3>1. other \in NumberedLeg /\ Behind(other) = n + 1
      BY <1>0, <2>2 DEF Of, NumberedLeg, Behind
    <3>2. LegAt(Behind(other) + 1) = other
      BY <3>1, LegsAreNumbered
    <3>3. n + 1 + 1 = n + 2
      BY <2>2
    <3> QED
      BY <3>1, <3>2, <3>3
  <2>4. Observe(leg, "refused") \in Observed /\ Observe(other, "refused") \in Observed
    BY <2>3 DEF Observe, Observed, Outcome, PairInv
  <2>5. /\ observations' \in Seq(Observed) /\ Len(observations') = n + 2
        /\ \A k \in 1 .. n : observations'[k] = observations[k]
        /\ observations'[n + 1] = Observe(leg, "refused")
        /\ observations'[n + 2] = Observe(other, "refused")
    <3> HIDE DEF other
    <3> QED
      BY <2>1, <2>2, <2>4 DEF PairInv
  <2>6. ~Answered(leg) /\ ~Answered(other)
    <3>1. ASSUME NEW k \in 1 .. n PROVE LegAt(k) # leg /\ LegAt(k) # other
      <4>1. /\ k \in Nat \ {0} /\ n + 1 \in Nat \ {0} /\ n + 2 \in Nat \ {0}
            /\ k # n + 1 /\ k # n + 2
        BY <2>2
      <4> HIDE DEF n, other
      <4> QED
        BY <4>1, <2>2, <2>3, LegsAreNumbered
    <3> QED
      BY <2>1, <3>1 DEF PairInv, Answered
  <2>7. \A k \in 1 .. Len(observations') :
            /\ observations'[k].leg = LegAt(k)
            /\ observations'[k].outcome = "refused" <=> ~Answered(LegAt(k))
    <3>1. \A k \in 1 .. Len(observations') : k \in 1 .. n \/ k = n + 1 \/ k = n + 2
      BY <2>2, <2>5
    <3>2. ASSUME NEW k \in 1 .. n
          PROVE  /\ observations'[k].leg = LegAt(k)
                 /\ observations'[k].outcome = "refused" <=> ~Answered(LegAt(k))
      BY <2>5 DEF PairInv
    <3>3. /\ observations'[n + 1].leg = LegAt(n + 1)
          /\ observations'[n + 1].outcome = "refused" /\ ~Answered(LegAt(n + 1))
      BY <2>2, <2>5, <2>6 DEF Observe
    <3>4. /\ observations'[n + 2].leg = LegAt(n + 2)
          /\ observations'[n + 2].outcome = "refused" /\ ~Answered(LegAt(n + 2))
      <4> HIDE DEF other, n
      <4> QED
        BY <2>3, <2>5, <2>6 DEF Observe
    <3> HIDE DEF other, n
    <3> QED
      BY <3>1, <3>2, <3>3, <3>4
  <2>8. \A r \in requests' : \E k \in 1 .. Len(observations') : r.leg = LegAt(k)
    BY <2>1, <2>2, <2>5 DEF PairInv
  <2>9. /\ leg' \in NumberedLeg /\ place' \in {"next", "done"}
        /\ place' = "next" => leg'.variant <= Count /\ Len(observations') = Behind(leg')
        /\ place' = "done" => Len(observations') = 2 * Count
    <3>1. leg' \in NumberedLeg /\ leg'.variant = leg.variant + 1 /\ leg'.authorized
      BY <1>0, <2>1 DEF Of, NumberedLeg
    <3>2. Behind(leg') = 2 * (leg.variant + 1) - 2
      BY <3>1 DEF Behind
    <3>3. /\ place' = IF leg.variant + 1 > Count THEN "done" ELSE "next"
          /\ Len(observations') = n + 2 /\ n = 2 * leg.variant - 2 /\ leg.variant <= Count
      BY <2>1, <2>2, <2>5
    <3> HIDE DEF n
    <3> QED
      BY <1>0, <3>1, <3>2, <3>3
  <2> QED
    BY <1>1, <1>6, <2>1, <2>5, <2>7, <2>8, <2>9 DEF PairInv, ProbeStep, Answered
<1>7. ASSUME NEW p \in Probes, ProbeBegins(p)
      PROVE  PairInv'
  <2>1. /\ place' = "start" /\ leg' = FirstLeg /\ observations' = <<>> /\ requests' = {}
        /\ probe' = p
    BY <1>7 DEF ProbeBegins
  <2>2. Len(p.variants) \in Nat /\ Len(p.variants) >= 1
    <3>1. p.variants \in Variants
      BY DEF Probes
    <3>2. PICK n \in 1 .. MaxVariants :
              p.variants \in [1 .. n -> [nonMutating : Flag, needsFixture : Flag]]
      BY <3>1 DEF Variants
    <3>3. Len(p.variants) = n
      BY <3>2, ProbeAssumption
    <3> QED
      BY <3>2, <3>3, ProbeAssumption
  <2>3. Count' \in Nat /\ Count' >= 1
    BY <2>1, <2>2 DEF Count
  <2>4. FirstLeg \in NumberedLeg /\ FirstLeg.variant = 1 /\ Behind(FirstLeg) = 0
    BY DEF FirstLeg, NumberedLeg, Behind
  <2> QED
    BY <2>1, <2>3, <2>4 DEF PairInv, Answered
<1>8. CASE UNCHANGED probeVars
  BY <1>8 DEF probeVars, PairInv, Answered, Count
<1> QED
  BY <1>2, <1>3, <1>4, <1>5, <1>6, <1>7, <1>8 DEF ProbeNext, ProbeStep

(* The observations of a variant follow each other, in the order of the    *)
(* variants, whatever the guards refuse and whichever requests fail.       *)
THEOREM ObservationsAreComplete == ProbeSpec => []ObservationsPaired
<1>1. PairInv => ObservationsPaired
  <2> SUFFICES ASSUME PairInv PROVE ObservationsPaired
    OBVIOUS
  <2>1. DOMAIN observations = 1 .. Len(observations)
    BY DEF PairInv
  <2>2. \A l : ~Answered(l) <=> \A r \in requests : r.leg # l
    BY DEF Answered
  <2>3. ASSUME NEW k \in DOMAIN observations
        PROVE  /\ observations[k].leg = LegAt(k)
               /\ observations[k].outcome = "refused" <=>
                     \A r \in requests : r.leg # observations[k].leg
    <3>1. /\ observations[k].leg = LegAt(k)
          /\ observations[k].outcome = "refused" <=> ~Answered(LegAt(k))
      BY <2>1 DEF PairInv
    <3> QED
      BY <2>2, <3>1
  <2>4. place = "done" => Len(observations) = 2 * Count
    BY DEF PairInv
  <2> QED
    BY <2>3, <2>4 DEF ObservationsPaired
<1> QED
  BY <1>1, PairInvInitially, PairInvStep, PTL DEF ProbeSpec

-----------------------------------------------------------------------------
(* The tests of a job are those that were deserialised, and the one at hand *)
(* is counted from one.                                                     *)
JobInv ==
    /\ job \in Seq(ModelTests \cup SurfaceTests \cup EnforcementTests)
    /\ test \in Nat \ {0}

LEMMA JobInvKept == JobInv /\ [JobNext]_jobVars => JobInv'
<1> SUFFICES ASSUME JobInv, [JobNext]_jobVars
             PROVE  JobInv'
  OBVIOUS
<1>1. job' = job /\ test' \in {test, test + 1}
  BY DEF JobNext, jobVars, vars, ModelTurns, ModelTurnNext, BeginTest, SendStep, Reply, NextStep,
         NoReply, EndTest, StepRaises, TestOver, BeginSurfaceProbe, GetPath, EndSurfaceProbe, SurfaceProbeRaises,
         BeginEnforcementProbe, ReferenceUnresolved, ProbeGoesOn, EndEnforcementProbe, JobOver
<1> QED
  BY <1>1 DEF JobInv

(* A job is a sequence of probes as far as its probes are concerned: every  *)
(* step of its loop is a step of a probe, begins one, or leaves them alone.  *)
THEOREM JobMakesProbes == JobSpec => ProbeSpec
<1>1. JobInit => ProbeInit
  BY DEF JobInit
<1>2. JobInit => JobInv
  BY JobAssumption DEF JobInit, Init, JobInv
<1>3. JobInv /\ [JobNext]_jobVars => [ProbeNext]_probeVars
  <2> SUFFICES ASSUME JobInv, [JobNext]_jobVars
               PROVE  [ProbeNext]_probeVars
    OBVIOUS
  <2>1. CASE BeginEnforcementProbe
    <3>1. Current \in ModelTests \cup SurfaceTests \cup EnforcementTests
      BY <2>1 DEF BeginEnforcementProbe, IsNext, JobInv, Current
    <3>2. Current.kind = "enforcement_probe"
      BY <2>1 DEF BeginEnforcementProbe, IsNext
    <3>3. Current.probe \in Probes
      BY <3>1, <3>2 DEF ModelTests, SurfaceTests, EnforcementTests
    <3>4. ProbeBegins(Current.probe)
      BY <2>1 DEF BeginEnforcementProbe
    <3> QED
      BY <3>3, <3>4 DEF ProbeNext
  <2>2. CASE ProbeGoesOn
    BY <2>2 DEF ProbeGoesOn, ProbeNext
  <2>3. CASE \/ ModelTurns \/ BeginSurfaceProbe \/ GetPath \/ EndSurfaceProbe \/ SurfaceProbeRaises
             \/ ReferenceUnresolved \/ EndEnforcementProbe
    BY <2>3 DEF ModelTurns, BeginSurfaceProbe, GetPath, EndSurfaceProbe, SurfaceProbeRaises, ReferenceUnresolved,
                EndEnforcementProbe, probeVars
  <2>4. CASE JobOver \/ UNCHANGED jobVars
    BY <2>4 DEF JobOver, jobVars
  <2> QED
    BY <2>1, <2>2, <2>3, <2>4 DEF JobNext
<1> QED
  BY <1>1, <1>2, <1>3, JobInvKept, PTL DEF JobSpec, ProbeSpec

(* Hence all of it holds of every job, between its other tests.             *)
THEOREM JobIsGuarded ==
    JobSpec => [](MutationIsGuarded /\ OwnHeaders /\ ObservationsPaired)
  BY JobMakesProbes, MutationsAreGuarded, HeadersAreOwn, ObservationsAreComplete, PTL

-----------------------------------------------------------------------------
(* The session of the model-turn tests.                                    *)

InModelTest == at \in {"ready", "sending", "replied", "done"}

AnyRequest ==
    [test : Nat, step : Nat \ {0}, told : Nat \cup {NoIdentity},
     carried : Nat \cup {NoIdentity, Static}, issued : Nat]

(* Requests that no identity issued before them may outlive, in this test. *)
Bars(m) ==
    \/ sent[m].test < test
    \/ sent[m].test = test /\ sent[m].step - 1 \in Current.resets \ {0}

TestPlaces == {"between", "ready", "sending", "replied", "done", "get", "got", "probe"}

(* Where the executor is in the test at hand.                              *)
HereInv ==
    /\ at \in TestPlaces
    /\ step \in Nat /\ issued \in Nat /\ session \in Nat \cup {NoIdentity}
    /\ at # "between" => test <= Len(job)
    /\ InModelTest => Current.kind = "model_turns"
    /\ at \in {"get", "got"} => Current.kind = "surface_probe"
    /\ at = "probe" => Current.kind = "enforcement_probe"

(* What it has sent of it.                                                 *)
SentInv ==
    /\ sent \in Seq(AnyRequest)
    /\ \A n \in RequestNumbers :
          sent[n].test <= test /\ sent[n].issued <= issued /\ (at = "between" => sent[n].test < test)
    /\ at = "ready" /\ step = 0 => \A n \in RequestNumbers : sent[n].test < test
    /\ at \in {"sending", "replied"} \/ (at = "ready" /\ step # 0) =>
          sent # <<>> /\ Last(sent).test = test /\ Last(sent).step = step

(* The identity in use was issued after every request that bars older ones, *)
(* and is the one that came with the last answer unless it is to be reset.  *)
IdentityInv ==
    /\ InModelTest => suppress = TRUE
    /\ InModelTest /\ session # NoIdentity =>
          /\ session <= issued
          /\ \A m \in RequestNumbers : Bars(m) => session > sent[m].issued
    /\ at = "ready" /\ (step = 0 \/ step \in Current.resets) => session = NoIdentity
    /\ at = "ready" /\ step = 0 => Told = NoIdentity
    /\ at = "replied" /\ Current.carries /\ Told # NoIdentity => session = Told
    /\ at = "ready" /\ Current.carries /\ Told # NoIdentity /\ step \notin Current.resets =>
          session = Told

SessionInv == JobInv /\ HereInv /\ SentInv /\ IdentityInv

LEMMA SessionInvInitially == JobInit => SessionInv
<1> SUFFICES ASSUME JobInit PROVE SessionInv
  OBVIOUS
<1>1. JobInv
  BY JobAssumption DEF JobInit, Init, JobInv
<1> QED
  BY <1>1 DEF JobInit, Init, SessionInv, HereInv, SentInv, IdentityInv, InModelTest, RequestNumbers, TestPlaces

(* A request more leaves those before it in place.                         *)
LEMMA RequestAppended ==
    ASSUME HereInv, SentInv, NEW carried \in Nat \cup {NoIdentity, Static},
           sent' = Append(sent, Request(carried)), test \in Nat
    PROVE  /\ sent' \in Seq(AnyRequest) /\ Len(sent') = Len(sent) + 1 /\ Len(sent) \in Nat
           /\ \A n \in RequestNumbers : sent'[n] = sent[n] /\ sent[n] \in AnyRequest
           /\ Last(sent)' = Request(carried) /\ sent' # <<>>
           /\ RequestNumbers' = RequestNumbers \cup {Len(sent) + 1}
<1>1. Request(carried) \in AnyRequest
  <2>1. Told \in Nat \cup {NoIdentity}
    BY DEF HereInv, Told
  <2> QED
    BY <2>1 DEF HereInv, Request, AnyRequest
<1>2. sent \in Seq(AnyRequest)
  BY DEF SentInv
<1> QED
  BY <1>1, <1>2 DEF RequestNumbers, Last

(* What the next prompt carries: the session's identity if the test names a *)
(* field for it, and otherwise at most the fixed one of the target.        *)
LEMMA CarriedBySession ==
    ASSUME SessionInv, at = "ready"
    PROVE  /\ Current.carries => Carried = session
           /\ ~Current.carries => Carried \in {Static, NoIdentity}
           /\ Carried \in {session, Static, NoIdentity}
<1>1. suppress = TRUE
  BY DEF SessionInv, IdentityInv, InModelTest
<1> QED
  BY <1>1, Zenon DEF Carried

LEMMA JobStays == [JobNext]_jobVars => job' = job
BY DEF JobNext, jobVars, vars, ModelTurns, ModelTurnNext, BeginTest, SendStep, Reply, NextStep,
       NoReply, EndTest, StepRaises, TestOver, BeginSurfaceProbe, GetPath, EndSurfaceProbe, SurfaceProbeRaises,
       BeginEnforcementProbe, ReferenceUnresolved, ProbeGoesOn, EndEnforcementProbe, JobOver

LEMMA HereInvStep == SessionInv /\ [JobNext]_jobVars => HereInv'
<1> SUFFICES ASSUME SessionInv, [JobNext]_jobVars
             PROVE  HereInv'
  OBVIOUS
<1>0. HereInv /\ test \in Nat \ {0} /\ job' = job
  BY JobStays DEF SessionInv, JobInv
<1> USE DEF sessionVars, InModelTest, TestPlaces, HereInv, Current
<1>1. CASE BeginTest
  BY <1>0, <1>1 DEF BeginTest, ModelTestIsNext
<1>2. CASE SendStep
  BY <1>0, <1>2 DEF SendStep
<1>3. CASE Reply
  <2>1. /\ at = "sending" /\ at' = "replied" /\ test' = test /\ step' = step
        /\ issued' \in Nat /\ session' \in Nat \cup {NoIdentity}
    BY <1>0, <1>3 DEF Reply, Issues
  <2> QED
    BY <1>0, <2>1
<1>4. CASE NextStep
  BY <1>0, <1>4 DEF NextStep, Reset
<1>5. CASE NoReply
  BY <1>0, <1>5 DEF NoReply, Reset
<1>6. CASE EndTest \/ StepRaises
  BY <1>0, <1>6 DEF EndTest, StepRaises, TestOver
<1>7. CASE EndSurfaceProbe \/ SurfaceProbeRaises \/ EndEnforcementProbe \/ ReferenceUnresolved
  BY <1>0, <1>7 DEF EndSurfaceProbe, SurfaceProbeRaises, EndEnforcementProbe, ReferenceUnresolved, TestOver
<1>8. CASE BeginSurfaceProbe \/ BeginEnforcementProbe
  BY <1>0, <1>8 DEF BeginSurfaceProbe, BeginEnforcementProbe, IsNext
<1>9. CASE GetPath
  BY <1>0, <1>9 DEF GetPath
<1>10. CASE ProbeGoesOn \/ JobOver \/ UNCHANGED jobVars
  BY <1>0, <1>10 DEF ProbeGoesOn, JobOver, jobVars, vars
<1> QED
  BY <1>1, <1>2, <1>3, <1>4, <1>5, <1>6, <1>7, <1>8, <1>9, <1>10
  DEF JobNext, ModelTurns, ModelTurnNext

LEMMA SentInvStep == SessionInv /\ [JobNext]_jobVars => SentInv'
<1> SUFFICES ASSUME SessionInv, [JobNext]_jobVars
             PROVE  SentInv'
  OBVIOUS
<1>0. /\ HereInv /\ SentInv /\ test \in Nat \ {0} /\ step \in Nat /\ issued \in Nat
      /\ \A n \in RequestNumbers : sent[n] \in AnyRequest
  BY DEF SessionInv, JobInv, HereInv, SentInv, RequestNumbers
<1>1. CASE BeginTest
  BY <1>0, <1>1 DEF BeginTest, ModelTestIsNext, SentInv, RequestNumbers
<1>2. CASE SendStep
  <2>1. /\ at = "ready" /\ at' = "sending" /\ step' = step + 1 /\ test' = test
        /\ issued' = issued /\ sent' = Append(sent, Request(Carried))
    BY <1>2 DEF SendStep, sessionVars
  <2>2. Carried \in Nat \cup {NoIdentity, Static}
    BY <2>1, CarriedBySession DEF SessionInv, HereInv
  <2>3. /\ sent' \in Seq(AnyRequest) /\ sent' # <<>>
        /\ \A n \in RequestNumbers : sent'[n] = sent[n]
        /\ sent'[Len(sent) + 1] = Request(Carried) /\ Last(sent)' = Request(Carried)
        /\ RequestNumbers' = RequestNumbers \cup {Len(sent) + 1}
    BY <1>0, <2>1, <2>2, RequestAppended DEF Last, RequestNumbers
  <2>4. /\ Request(Carried).test = test /\ Request(Carried).step = step + 1
        /\ Request(Carried).issued = issued
    BY DEF Request
  <2>5. \A n \in RequestNumbers' : sent'[n].test <= test /\ sent'[n].issued <= issued
    BY <1>0, <2>3, <2>4 DEF SentInv
  <2>6. Last(sent)'.test = test /\ Last(sent)'.step = step + 1
    BY <2>3, <2>4
  <2> QED
    BY <2>1, <2>3, <2>5, <2>6 DEF SentInv
<1>3. CASE Reply
  <2>1. /\ at = "sending" /\ at' = "replied" /\ test' = test /\ step' = step /\ sent' = sent
        /\ issued' \in {issued, issued + 1}
    BY <1>0, <1>3 DEF Reply, Issues
  <2>2. \A n \in RequestNumbers : sent[n].issued <= issued'
    <3>1. \A n \in RequestNumbers : sent[n].issued \in Nat /\ sent[n].issued <= issued
      BY <1>0 DEF SentInv, AnyRequest
    <3> QED
      BY <1>0, <2>1, <3>1
  <2> QED
    BY <1>0, <2>1, <2>2 DEF SentInv, RequestNumbers
<1>4. CASE NextStep
  <2>1. /\ at = "replied" /\ at' \in {"ready", "done"} /\ test' = test /\ step' = step
        /\ sent' = sent /\ issued' = issued
    BY <1>4 DEF NextStep
  <2>2. step # 0
    <3>1. /\ sent \in Seq(AnyRequest) /\ sent # <<>> /\ Last(sent).step = step
      BY <1>0, <2>1 DEF SentInv
    <3>2. Last(sent) \in AnyRequest
      BY <3>1 DEF Last
    <3> QED
      BY <3>1, <3>2 DEF AnyRequest
  <2> QED
    BY <1>0, <2>1, <2>2 DEF SentInv, RequestNumbers
<1>5. CASE NoReply
  BY <1>0, <1>5 DEF NoReply, SentInv, RequestNumbers
<1>6. CASE EndTest \/ StepRaises
  <2>1. at' = "between" /\ test' = test + 1 /\ sent' = sent /\ issued' = issued
    BY <1>6 DEF EndTest, StepRaises, TestOver, sessionVars
  <2>2. \A n \in RequestNumbers :
            sent[n].test <= test + 1 /\ sent[n].test < test + 1 /\ sent[n].issued <= issued
    BY <1>0 DEF SentInv, AnyRequest
  <2>3. /\ RequestNumbers' = RequestNumbers /\ sent' \in Seq(AnyRequest)
        /\ \A n \in RequestNumbers' : sent'[n] = sent[n]
    BY <1>0, <2>1 DEF SentInv, RequestNumbers
  <2> QED
    BY <2>1, <2>2, <2>3 DEF SentInv
<1>7. CASE EndSurfaceProbe \/ SurfaceProbeRaises \/ EndEnforcementProbe \/ ReferenceUnresolved
  <2>1. at' = "between" /\ test' = test + 1 /\ sent' = sent /\ issued' = issued
    BY <1>7 DEF EndSurfaceProbe, SurfaceProbeRaises, EndEnforcementProbe, ReferenceUnresolved, TestOver, sessionVars
  <2>2. \A n \in RequestNumbers :
            sent[n].test <= test + 1 /\ sent[n].test < test + 1 /\ sent[n].issued <= issued
    BY <1>0 DEF SentInv, AnyRequest
  <2>3. /\ RequestNumbers' = RequestNumbers /\ sent' \in Seq(AnyRequest)
        /\ \A n \in RequestNumbers' : sent'[n] = sent[n]
    BY <1>0, <2>1 DEF SentInv, RequestNumbers
  <2> QED
    BY <2>1, <2>2, <2>3 DEF SentInv
<1>8. CASE BeginSurfaceProbe \/ BeginEnforcementProbe
  <2>1. at' \in {"get", "got", "probe"} /\ test' = test /\ sent' = sent /\ issued' = issued
    BY <1>8 DEF BeginSurfaceProbe, BeginEnforcementProbe, sessionVars
  <2> QED
    BY <1>0, <2>1 DEF SentInv, RequestNumbers
<1>9. CASE GetPath
  <2>1. /\ at = "get" /\ at' \in {"get", "got"} /\ step' = step + 1 /\ test' = test
        /\ issued' = issued /\ sent' = Append(sent, Request(NoIdentity))
    BY <1>9 DEF GetPath, sessionVars
  <2>2. /\ sent' \in Seq(AnyRequest)
        /\ \A n \in RequestNumbers : sent'[n] = sent[n]
        /\ sent'[Len(sent) + 1] = Request(NoIdentity)
        /\ RequestNumbers' = RequestNumbers \cup {Len(sent) + 1}
    BY <1>0, <2>1, RequestAppended DEF Last, RequestNumbers
  <2>3. Request(NoIdentity).test = test /\ Request(NoIdentity).issued = issued
    BY DEF Request
  <2>4. \A n \in RequestNumbers' : sent'[n].test <= test /\ sent'[n].issued <= issued
    BY <1>0, <2>2, <2>3 DEF SentInv
  <2> QED
    BY <2>1, <2>2, <2>4 DEF SentInv
<1>10. CASE ProbeGoesOn \/ JobOver \/ UNCHANGED jobVars
  BY <1>0, <1>10 DEF ProbeGoesOn, JobOver, jobVars, vars, sessionVars, SentInv, RequestNumbers
<1> QED
  BY <1>1, <1>2, <1>3, <1>4, <1>5, <1>6, <1>7, <1>8, <1>9, <1>10
  DEF JobNext, ModelTurns, ModelTurnNext

(* Between two requests of a test nothing bars what was not barred before,  *)
(* and the identity in use only gives way to a new one or to none.         *)
LEMMA IdentityInvStep == SessionInv /\ [JobNext]_jobVars => IdentityInv'
<1> SUFFICES ASSUME SessionInv, [JobNext]_jobVars
             PROVE  IdentityInv'
  OBVIOUS
<1>0. /\ HereInv /\ SentInv /\ IdentityInv /\ test \in Nat \ {0} /\ step \in Nat /\ issued \in Nat
      /\ \A n \in RequestNumbers : sent[n] \in AnyRequest
      /\ job' = job
  BY JobStays DEF SessionInv, JobInv, HereInv, SentInv, RequestNumbers
<1>1. CASE BeginTest
  <2>1. /\ at' \in {"ready", "done"} /\ suppress' = TRUE /\ session' = NoIdentity
        /\ body' = NoBody
    BY <1>1 DEF BeginTest, NoEvidence
  <2>2. Told' = NoIdentity
    BY <2>1 DEF Told
  <2> QED
    BY <2>1, <2>2 DEF IdentityInv
<1>2. CASE SendStep
  <2>1. /\ at = "ready" /\ at' = "sending" /\ step' = step + 1 /\ test' = test
        /\ issued' = issued /\ session' = session /\ suppress' = suppress
        /\ sent' = Append(sent, Request(Carried))
    BY <1>2 DEF SendStep, sessionVars
  <2>2. Carried \in Nat \cup {NoIdentity, Static}
    BY <2>1, CarriedBySession DEF SessionInv, HereInv
  <2>3. /\ \A n \in RequestNumbers : sent'[n] = sent[n]
        /\ sent'[Len(sent) + 1] = Request(Carried) /\ Last(sent)' = Request(Carried)
        /\ RequestNumbers' = RequestNumbers \cup {Len(sent) + 1}
    BY <1>0, <2>1, <2>2, RequestAppended DEF Last, RequestNumbers
  <2>4. /\ Request(Carried).test = test /\ Request(Carried).step - 1 = step
        /\ Request(Carried).issued = issued
    BY <1>0 DEF Request
  <2>5. suppress' = TRUE
    BY <1>0, <2>1, <2>3, <2>4 DEF IdentityInv, InModelTest
  <2>6. ASSUME session # NoIdentity
        PROVE  /\ session <= issued
               /\ \A m \in RequestNumbers' : Bars(m)' => session > sent'[m].issued
    <3>1. step # 0 /\ step \notin Current.resets
      BY <1>0, <2>1, <2>6 DEF IdentityInv
    <3>2. /\ session <= issued
          /\ \A m \in RequestNumbers : Bars(m) => session > sent[m].issued
      BY <1>0, <2>1, <2>6 DEF IdentityInv, InModelTest
    <3>3. \A m \in RequestNumbers : Bars(m)' <=> Bars(m)
      BY <1>0, <2>1, <2>3 DEF Bars, Current
    <3>4. ASSUME NEW m, m = Len(sent) + 1 PROVE ~Bars(m)'
      <4>1. sent'[m] = Request(Carried)
        BY <2>3, <3>4
      <4> QED
        BY <1>0, <2>1, <2>4, <3>1, <4>1 DEF Bars, Current
    <3> QED
      BY <2>3, <3>2, <3>3, <3>4
  <2> QED
    BY <2>1, <2>5, <2>6 DEF IdentityInv
<1>3. CASE Reply
  <2>1. /\ at = "sending" /\ at' = "replied" /\ test' = test /\ step' = step /\ sent' = sent
        /\ suppress' = suppress /\ Current' = Current
    BY <1>0, <1>3 DEF Reply, Current
  <2>2. \/ issued' = issued + 1 /\ session' = issued + 1
        \/ issued' \in {issued, issued + 1} /\ session' \in {session, NoIdentity}
    BY <1>0, <1>3 DEF Reply, TellsIdentity, Issues, Answers
  <2>3. \A m \in RequestNumbers : sent[m].issued <= issued
    BY <1>0 DEF SentInv
  <2>4. RequestNumbers' = RequestNumbers /\ \A m \in RequestNumbers : Bars(m)' <=> Bars(m)
    BY <1>0, <2>1 DEF RequestNumbers, Bars, IdentityInv
  <2>5. suppress' = TRUE
    BY <1>0, <2>1 DEF IdentityInv, InModelTest
  <2>6. Current'.carries /\ Told' # NoIdentity => session' = Told'
    <3>1. SUFFICES ASSUME Current.carries, Told' # NoIdentity PROVE session' = Told'
      BY <2>1
    <3>2. PICK b \in Replies[target] :
              /\ body' = b /\ issued' = issued + Issues(b)
              /\ session' = IF ~TellsIdentity(b) THEN session
                            ELSE IF b.identity THEN issued + 1 ELSE NoIdentity
      BY <1>3 DEF Reply
    <3>3. Answers(b) /\ b.identity /\ Told' = issued'
      BY <3>1, <3>2, Zenon DEF Told
    <3>4. issued' = issued + 1
      BY <3>2, <3>3 DEF Issues, Answers
    <3>5. session' = issued + 1
      BY <3>1, <3>2, <3>3, Zenon DEF TellsIdentity
    <3> QED
      BY <3>3, <3>4, <3>5
  <2>7. CASE issued' = issued + 1 /\ session' = issued + 1
    <3>1. \A m \in RequestNumbers : session' > sent[m].issued
      BY <1>0, <2>3, <2>7 DEF AnyRequest
    <3> QED
      BY <1>0, <2>1, <2>4, <2>5, <2>6, <2>7, <3>1 DEF IdentityInv
  <2>8. CASE issued' \in {issued, issued + 1} /\ session' \in {session, NoIdentity}
    <3>1. session' # NoIdentity =>
              /\ session' <= issued'
              /\ \A m \in RequestNumbers : Bars(m) => session' > sent[m].issued
      <4>1. session # NoIdentity =>
                /\ session <= issued
                /\ \A m \in RequestNumbers : Bars(m) => session > sent[m].issued
        BY <1>0, <2>1 DEF IdentityInv, InModelTest
      <4> QED
        BY <1>0, <2>8, <4>1 DEF HereInv
    <3> QED
      BY <1>0, <2>1, <2>4, <2>5, <2>6, <2>8, <3>1 DEF IdentityInv
  <2> QED
    BY <2>2, <2>7, <2>8
<1>4. CASE NextStep
  <2>1. /\ at = "replied" /\ at' = IF step < Turns(Current) THEN "ready" ELSE "done"
        /\ test' = test /\ step' = step /\ sent' = sent /\ issued' = issued
        /\ Current' = Current /\ Told' = Told
        /\ IF MustReset THEN session' = NoIdentity /\ suppress' = TRUE
           ELSE session' = session /\ suppress' = suppress
    BY <1>0, <1>4 DEF NextStep, Reset, Current, Told, evidence
  <2>2. /\ RequestNumbers' = RequestNumbers /\ \A m \in RequestNumbers : Bars(m)' <=> Bars(m)
        /\ Last(sent)' = Last(sent)
    BY <1>0, <2>1 DEF RequestNumbers, Bars, Last
  <2>3. step # 0
    BY <1>0, <2>1 DEF SentInv, AnyRequest, Last, RequestNumbers
  <2>4. suppress' = TRUE
    BY <1>0, <2>1 DEF IdentityInv, InModelTest
  <2>5. session' # NoIdentity =>
            /\ session' = session /\ session <= issued
            /\ \A m \in RequestNumbers : Bars(m) => session > sent[m].issued
    BY <1>0, <2>1 DEF IdentityInv, InModelTest
  <2>6. at' = "ready" /\ step \in Current.resets => session' = NoIdentity
    BY <2>1 DEF MustReset
  <2>7. at' = "ready" /\ Current.carries /\ Told # NoIdentity /\ step \notin Current.resets =>
            session' = Told
    BY <1>0, <2>1 DEF IdentityInv, MustReset
  <2>8. at' \in {"ready", "done"}
    BY <2>1
  <2> QED
    BY <2>1, <2>2, <2>3, <2>4, <2>5, <2>6, <2>7, <2>8 DEF IdentityInv
<1>5. CASE NoReply
  <2>1. /\ at = "sending" /\ at' = "done"
        /\ test' = test /\ sent' = sent /\ issued' = issued /\ Current' = Current
        /\ \/ session' = NoIdentity /\ suppress' = TRUE
           \/ session' = session /\ suppress' = suppress
    BY <1>0, <1>5 DEF NoReply, Reset, Current
  <2>2. RequestNumbers' = RequestNumbers /\ \A m \in RequestNumbers : Bars(m)' <=> Bars(m)
    BY <1>0, <2>1 DEF RequestNumbers, Bars
  <2> QED
    BY <1>0, <2>1, <2>2 DEF IdentityInv, InModelTest
<1>6. CASE EndTest \/ StepRaises \/ EndSurfaceProbe \/ SurfaceProbeRaises \/ EndEnforcementProbe \/ ReferenceUnresolved
  <2>1. at' = "between"
    BY <1>6 DEF EndTest, StepRaises, EndSurfaceProbe, SurfaceProbeRaises, EndEnforcementProbe, ReferenceUnresolved,
                TestOver
  <2> QED
    BY <2>1 DEF IdentityInv, InModelTest
<1>7. CASE BeginSurfaceProbe \/ BeginEnforcementProbe \/ GetPath
  <2>1. at' \in {"get", "got", "probe"}
    BY <1>7 DEF BeginSurfaceProbe, BeginEnforcementProbe, GetPath
  <2> QED
    BY <2>1 DEF IdentityInv, InModelTest
<1>8. CASE ProbeGoesOn \/ JobOver \/ UNCHANGED jobVars
  <2>1. UNCHANGED vars
    BY <1>8 DEF ProbeGoesOn, JobOver, jobVars
  <2> QED
    BY <1>0, <2>1 DEF vars, sessionVars, evidence, IdentityInv, InModelTest, RequestNumbers, Bars,
                      Current, Told
<1> QED
  BY <1>1, <1>2, <1>3, <1>4, <1>5, <1>6, <1>7, <1>8 DEF JobNext, ModelTurns, ModelTurnNext

LEMMA SessionInvariant == JobSpec => []SessionInv
<1>1. SessionInv /\ [JobNext]_jobVars => SessionInv'
  BY JobInvKept, HereInvStep, SentInvStep, IdentityInvStep DEF SessionInv
<1> QED
  BY <1>1, SessionInvInitially, PTL DEF JobSpec

(* A step makes no request, or one that carries the identity in use, the   *)
(* fixed one or none.                                                      *)
LEMMA NewRequest ==
    ASSUME SessionInv, [JobNext]_jobVars
    PROVE  \/ sent' = sent
           \/ \E c \in {session, Static, NoIdentity} :
                 /\ \/ SendStep /\ (Current.carries => c = session)
                    \/ GetPath /\ c = NoIdentity
                 /\ RequestNumbers' = RequestNumbers \cup {Len(sent) + 1}
                 /\ Len(sent) + 1 \notin RequestNumbers /\ Len(sent) \in Nat
                 /\ \A n \in RequestNumbers : sent'[n] = sent[n] /\ n <= Len(sent)
                 /\ sent'[Len(sent) + 1].test = test /\ sent'[Len(sent) + 1].step = step + 1
                 /\ sent'[Len(sent) + 1].carried = c /\ sent'[Len(sent) + 1].issued = issued
                 /\ sent'[Len(sent) + 1].told = Told
<1>0. HereInv /\ SentInv /\ test \in Nat
  BY DEF SessionInv, JobInv
<1>1. CASE SendStep
  <2>1. at = "ready" /\ sent' = Append(sent, Request(Carried))
    BY <1>1 DEF SendStep
  <2>2. Carried \in {session, Static, NoIdentity} /\ (Current.carries => Carried = session)
    BY <2>1, CarriedBySession
  <2>3. Carried \in Nat \cup {NoIdentity, Static}
    BY <1>0, <2>2 DEF HereInv
  <2> QED
    BY <1>0, <1>1, <2>1, <2>2, <2>3, RequestAppended DEF Last, RequestNumbers, Request
<1>2. CASE GetPath
  <2>1. sent' = Append(sent, Request(NoIdentity))
    BY <1>2 DEF GetPath
  <2> QED
    BY <1>0, <1>2, <2>1, RequestAppended DEF Last, RequestNumbers, Request
<1>3. CASE ~SendStep /\ ~GetPath
  BY <1>3 DEF JobNext, jobVars, vars, ModelTurns, ModelTurnNext, BeginTest, Reply, NextStep,
              NoReply, EndTest, StepRaises, TestOver, BeginSurfaceProbe, EndSurfaceProbe, SurfaceProbeRaises,
              BeginEnforcementProbe, ReferenceUnresolved, ProbeGoesOn, EndEnforcementProbe, JobOver
<1> QED
  BY <1>1, <1>2, <1>3

(* The identity that a prompt carries was issued after whatever bars older  *)
(* ones, and is the last one issued if the reply before it told one.       *)
LEMMA CarriedIsFresh ==
    ASSUME SessionInv, at = "ready", session # NoIdentity
    PROVE  /\ session \in Nat /\ session # Static
           /\ step # 0 /\ step \notin Current.resets
           /\ \A m \in RequestNumbers : Bars(m) => session > sent[m].issued
  BY ExecutionAssumption DEF SessionInv, HereInv, IdentityInv, InModelTest

LEMMA IndependentStep ==
    SessionInv /\ TestsAreIndependent /\ [JobNext]_jobVars => TestsAreIndependent'
<1> SUFFICES ASSUME SessionInv, TestsAreIndependent, [JobNext]_jobVars
             PROVE  TestsAreIndependent'
  OBVIOUS
<1>1. CASE sent' = sent
  BY <1>1, JobStays, Zenon DEF TestsAreIndependent, RequestNumbers
<1>2. CASE sent' # sent
  <2>1. PICK c \in {session, Static, NoIdentity} :
                 /\ \/ SendStep /\ (Current.carries => c = session)
                    \/ GetPath /\ c = NoIdentity
                 /\ RequestNumbers' = RequestNumbers \cup {Len(sent) + 1}
                 /\ Len(sent) + 1 \notin RequestNumbers /\ Len(sent) \in Nat
                 /\ \A n \in RequestNumbers : sent'[n] = sent[n] /\ n <= Len(sent)
                 /\ sent'[Len(sent) + 1].test = test /\ sent'[Len(sent) + 1].step = step + 1
                 /\ sent'[Len(sent) + 1].carried = c /\ sent'[Len(sent) + 1].issued = issued
                 /\ sent'[Len(sent) + 1].told = Told
    BY <1>2, NewRequest
  <2>2. \A n \in RequestNumbers' : sent'[n].test \in Nat /\ sent'[n].test <= test
    <3>1. sent \in Seq(AnyRequest) /\ test \in Nat
          /\ \A n \in RequestNumbers : sent[n].test <= test
      BY DEF SessionInv, JobInv, SentInv
    <3>2. \A n \in RequestNumbers : sent[n] \in AnyRequest
      BY <3>1 DEF RequestNumbers
    <3>3. \A n \in RequestNumbers : sent[n].test \in Nat
      BY <3>2 DEF AnyRequest
    <3> QED
      BY <2>1, <3>1, <3>3
  <2>3. c \notin {NoIdentity, Static} =>
            \A m \in RequestNumbers : sent[m].test < test => c > sent[m].issued
    BY <2>1, CarriedIsFresh DEF SendStep, Bars
  <2>4. c = Static => ~Current.carries
    <3>1. session # Static /\ NoIdentity # Static
      BY ExecutionAssumption DEF SessionInv, HereInv
    <3> QED
      BY <2>1, <3>1, Zenon
  <2>5. ASSUME NEW n \in RequestNumbers', sent'[n].carried = Static
        PROVE  ~job[sent'[n].test].carries
    <3>1. CASE n \in RequestNumbers
      BY <2>1, <2>5, <3>1, Zenon DEF TestsAreIndependent
    <3>2. CASE n = Len(sent) + 1
      BY <2>1, <2>4, <2>5, <3>2, Zenon DEF Current
    <3> QED
      BY <2>1, <3>1, <3>2
  <2>6. ASSUME NEW m \in RequestNumbers', NEW n \in RequestNumbers',
               sent'[m].test < sent'[n].test, sent'[n].carried \notin {NoIdentity, Static}
        PROVE  sent'[n].carried > sent'[m].issued
    <3>1. m \in RequestNumbers
      <4>1. sent'[m].test # test
        BY <2>2, <2>6
      <4> QED
        BY <2>1, <4>1
    <3>2. CASE n \in RequestNumbers
      BY <2>1, <2>6, <3>1, <3>2 DEF TestsAreIndependent
    <3>3. CASE n = Len(sent) + 1
      BY <2>1, <2>3, <2>6, <3>1, <3>3
    <3> QED
      BY <2>1, <3>2, <3>3
  <2>7. job' = job
    BY JobStays
  <2> HIDE <2>1
  <2> QED
    BY <2>5, <2>6, <2>7, Zenon DEF TestsAreIndependent
<1> QED
  BY <1>1, <1>2, JobStays

(* No test with a session field carries the fixed identity of the target,  *)
(* and no test carries an identity of an earlier one.                      *)
THEOREM TestsShareNoIdentity == JobSpec => []TestsAreIndependent
<1>1. JobInit => TestsAreIndependent
  BY DEF JobInit, Init, TestsAreIndependent, RequestNumbers
<1> QED
  BY <1>1, SessionInvariant, IndependentStep, PTL DEF JobSpec

LEMMA SeparateStep == SessionInv /\ ResetsSeparate /\ [JobNext]_jobVars => ResetsSeparate'
<1> SUFFICES ASSUME SessionInv, ResetsSeparate, [JobNext]_jobVars
             PROVE  ResetsSeparate'
  OBVIOUS
<1>0. job' = job
  BY JobStays
<1>1. CASE sent' = sent
  BY <1>0, <1>1, Zenon DEF ResetsSeparate, RequestNumbers, CarriesSession, IsModelTest
<1>2. CASE sent' # sent
  <2>1. PICK c \in {session, Static, NoIdentity} :
                 /\ \/ SendStep /\ (Current.carries => c = session)
                    \/ GetPath /\ c = NoIdentity
                 /\ RequestNumbers' = RequestNumbers \cup {Len(sent) + 1}
                 /\ Len(sent) + 1 \notin RequestNumbers /\ Len(sent) \in Nat
                 /\ \A n \in RequestNumbers : sent'[n] = sent[n] /\ n <= Len(sent)
                 /\ sent'[Len(sent) + 1].test = test /\ sent'[Len(sent) + 1].step = step + 1
                 /\ sent'[Len(sent) + 1].carried = c /\ sent'[Len(sent) + 1].issued = issued
                 /\ sent'[Len(sent) + 1].told = Told
    BY <1>2, NewRequest
  <2>2. c = session /\ c # NoIdentity =>
            /\ c # Static /\ step \notin Current.resets /\ step \in Nat
            /\ \A m \in RequestNumbers :
                  sent[m].test = test /\ sent[m].step - 1 \in Current.resets \ {0} =>
                      c > sent[m].issued
    BY <2>1, CarriedIsFresh DEF SendStep, Bars, SessionInv, HereInv
  <2>3. SUFFICES ASSUME NEW m \in RequestNumbers', NEW n \in RequestNumbers', m <= n,
                        sent'[m].test = sent'[n].test, CarriesSession(sent'[n].test),
                        sent'[m].step - 1 \in job[sent'[n].test].resets \ {0},
                        sent'[n].carried # NoIdentity
                 PROVE  sent'[n].carried # Static /\ sent'[n].carried > sent'[m].issued
    BY <1>0, Zenon DEF ResetsSeparate, CarriesSession, IsModelTest
  <2>4. CASE n \in RequestNumbers
    <3>1. m \in RequestNumbers
      BY <2>1, <2>3, <2>4 DEF RequestNumbers
    <3> QED
      BY <2>1, <2>3, <2>4, <3>1 DEF ResetsSeparate
  <2>5. CASE n = Len(sent) + 1
    <3>0. sent'[n].test = test /\ sent'[n].carried = c /\ c # NoIdentity
      BY <2>1, <2>3, <2>5
    <3>1. sent'[n].test = test /\ sent'[n].carried = c /\ c # NoIdentity /\ c = session
      <4>1. Current.carries
        BY <2>3, <3>0, Zenon DEF CarriesSession, Current
      <4> QED
        BY <2>1, <3>0, <4>1, Zenon
    <3>2. job[sent'[n].test].resets = Current.resets
      BY <3>1 DEF Current
    <3>3. m \in RequestNumbers
      <4>1. sent'[Len(sent) + 1].step - 1 = step
        BY <2>1, <2>2, <3>1
      <4> QED
        BY <2>1, <2>2, <2>3, <3>1, <3>2, <4>1
    <3> QED
      BY <2>1, <2>2, <2>3, <3>1, <3>2, <3>3
  <2> QED
    BY <2>1, <2>4, <2>5
<1> QED
  BY <1>1, <1>2

(* No request after a reset carries an identity issued before it.          *)
THEOREM NoIdentityOutlivesAReset == JobSpec => []ResetsSeparate
<1>1. JobInit => ResetsSeparate
  BY DEF JobInit, Init, ResetsSeparate, RequestNumbers
<1> QED
  BY <1>1, SessionInvariant, SeparateStep, PTL DEF JobSpec

LEMMA CarriedStep == SessionInv /\ IdentityIsCarried /\ [JobNext]_jobVars => IdentityIsCarried'
<1> SUFFICES ASSUME SessionInv, IdentityIsCarried, [JobNext]_jobVars
             PROVE  IdentityIsCarried'
  OBVIOUS
<1>0. job' = job
  BY JobStays
<1>1. CASE sent' = sent
  BY <1>0, <1>1, Zenon DEF IdentityIsCarried, RequestNumbers, CarriesSession, IsModelTest
<1>2. CASE sent' # sent
  <2>1. PICK c \in {session, Static, NoIdentity} :
                 /\ \/ SendStep /\ (Current.carries => c = session)
                    \/ GetPath /\ c = NoIdentity
                 /\ RequestNumbers' = RequestNumbers \cup {Len(sent) + 1}
                 /\ Len(sent) + 1 \notin RequestNumbers /\ Len(sent) \in Nat
                 /\ \A n \in RequestNumbers : sent'[n] = sent[n] /\ n <= Len(sent)
                 /\ sent'[Len(sent) + 1].test = test /\ sent'[Len(sent) + 1].step = step + 1
                 /\ sent'[Len(sent) + 1].carried = c /\ sent'[Len(sent) + 1].issued = issued
                 /\ sent'[Len(sent) + 1].told = Told
    BY <1>2, NewRequest
  <2>2. SUFFICES ASSUME NEW n \in RequestNumbers', CarriesSession(sent'[n].test),
                        sent'[n].told # NoIdentity,
                        sent'[n].step - 1 \notin job[sent'[n].test].resets
                 PROVE  sent'[n].carried = sent'[n].told
    BY <1>0, Zenon DEF IdentityIsCarried, CarriesSession, IsModelTest
  <2>3. CASE n \in RequestNumbers
    BY <2>1, <2>2, <2>3, Zenon DEF IdentityIsCarried
  <2>4. CASE n = Len(sent) + 1
    <3>1. /\ sent'[n].test = test /\ sent'[n].carried = c /\ sent'[n].told = Told
          /\ sent'[n].step = step + 1
      BY <2>1, <2>4
    <3>2. /\ Current.kind = "model_turns" /\ Current.carries
          /\ Told # NoIdentity /\ step + 1 - 1 \notin Current.resets
      <4>1. job[test].kind = "model_turns" /\ job[test].carries
        BY <2>2, <3>1, Zenon DEF CarriesSession, IsModelTest
      <4>2. Told # NoIdentity
        BY <2>2, <3>1
      <4>3. step + 1 - 1 \notin job[test].resets
        <5>1. sent'[n].step - 1 \notin job[sent'[n].test].resets
          BY <2>2
        <5>2. sent'[n].step = step + 1 /\ sent'[n].test = test /\ step \in Nat
          BY <3>1 DEF SessionInv, HereInv
        <5> HIDE <2>2, <3>1
        <5> QED
          BY <5>1, <5>2
      <4> QED
        BY <4>1, <4>2, <4>3, Zenon DEF Current
    <3>3. SendStep /\ at = "ready" /\ ~GetPath
      BY <2>1, <3>2 DEF SendStep, SessionInv, HereInv, GetPath
    <3>4. step \in Nat /\ step + 1 - 1 = step
      BY DEF SessionInv, HereInv
    <3>5. session = Told
      BY <3>2, <3>3, <3>4, Zenon DEF SessionInv, IdentityInv
    <3>6. c = session
      BY <2>1, <3>2, <3>3, Zenon
    <3> QED
      BY <3>1, <3>5, <3>6
  <2> QED
    BY <2>1, <2>3, <2>4
<1> QED
  BY <1>1, <1>2

(* The next prompt of a test with a session field carries the identity that *)
(* came with the answer before, unless it is reset in between.             *)
THEOREM IdentityIsPassedOn == JobSpec => []IdentityIsCarried
<1>1. JobInit => IdentityIsCarried
  BY DEF JobInit, Init, IdentityIsCarried, RequestNumbers
<1> QED
  BY <1>1, SessionInvariant, CarriedStep, PTL DEF JobSpec

-----------------------------------------------------------------------------
(* The results.                                                            *)

NumbersOf(t) == {n \in RequestNumbers : sent[n].test = t}

AnyResult == [reported : Nat, error : BOOLEAN, asserted : BOOLEAN]

LengthInv ==
    /\ results \in Seq(AnyResult) /\ Len(results) = test - 1
    /\ resetRan \in BOOLEAN

(* What the test at hand has to report so far.                             *)
CountInv ==
    /\ at = "get" => step < Current.paths
    /\ at = "got" => step = Current.paths
    /\ at = "probe" => probe = Current.probe
    /\ InModelTest => IsFiniteSet(NumbersOf(test)) /\ Cardinality(NumbersOf(test)) = step

(* What it may assert: first requests carry no identity if there is a field. *)
AssertInv ==
    /\ InModelTest /\ resetRan = TRUE => Current.carries = TRUE
    /\ \A n \in RequestNumbers :
          sent[n].step = 1 /\ job[sent[n].test].carries => sent[n].carried = NoIdentity

ResultsInv == SessionInv /\ PairInv /\ LengthInv /\ CountInv /\ AssertInv

LEMMA ResultsInvInitially == JobInit => LengthInv /\ CountInv /\ AssertInv
<1> SUFFICES ASSUME JobInit PROVE LengthInv /\ CountInv /\ AssertInv
  OBVIOUS
<1>1. results \in Seq(AnyResult) /\ Len(results) = test - 1
  BY DEF JobInit, Init
<1>2. resetRan \in BOOLEAN
  BY DEF JobInit, Init
<1> QED
  BY <1>1, <1>2 DEF JobInit, Init, LengthInv, CountInv, AssertInv, InModelTest, RequestNumbers

(* A test that ends leaves one result.                                     *)
NewResult(reported, error, asserted) ==
    /\ results' = Append(results, [reported |-> reported, error |-> error, asserted |-> asserted])
    /\ test' = test + 1 /\ at' = "between" /\ sent' = sent /\ resetRan' = resetRan

LEMMA Ends ==
    ASSUME [JobNext]_jobVars
    PROVE  \/ results' = results /\ test' = test
           \/ at = "done" /\ NewResult(step, FALSE, resetRan)
           \/ NewResult(0, TRUE, FALSE)
           \/ at \in {"get", "got"} /\ NewResult(0, FALSE, FALSE)
           \/ at = "got" /\ NewResult(step, FALSE, FALSE)
           \/ at = "probe" /\ place = "done" /\ NewResult(Len(observations), FALSE, FALSE)
<1>1. CASE EndTest
  BY <1>1 DEF EndTest, TestOver, NewResult, sessionVars
<1>2. CASE StepRaises
  BY <1>2 DEF StepRaises, TestOver, NewResult, sessionVars
<1>3. CASE EndSurfaceProbe
  BY <1>3 DEF EndSurfaceProbe, SurfaceProbeRaises, TestOver, NewResult, sessionVars
<1>4. CASE ReferenceUnresolved
  BY <1>4 DEF ReferenceUnresolved, TestOver, NewResult, sessionVars
<1>5. CASE EndEnforcementProbe
  BY <1>5 DEF EndEnforcementProbe, TestOver, NewResult, sessionVars
<1>6. CASE ~(EndTest \/ StepRaises \/ EndSurfaceProbe \/ SurfaceProbeRaises \/ ReferenceUnresolved \/ EndEnforcementProbe)
  BY <1>6 DEF JobNext, jobVars, vars, ModelTurns, ModelTurnNext, BeginTest, SendStep, Reply,
              NextStep, NoReply, BeginSurfaceProbe, GetPath, BeginEnforcementProbe, ProbeGoesOn,
              JobOver
<1>7. CASE SurfaceProbeRaises
  BY <1>7 DEF SurfaceProbeRaises, TestOver, NewResult, sessionVars
<1> QED
  BY <1>1, <1>2, <1>3, <1>4, <1>5, <1>6, <1>7

LEMMA LengthInvStep == ResultsInv /\ [JobNext]_jobVars => LengthInv'
<1> SUFFICES ASSUME ResultsInv, [JobNext]_jobVars
             PROVE  LengthInv'
  OBVIOUS
<1>0. /\ LengthInv /\ step \in Nat /\ Len(observations) \in Nat /\ test \in Nat
      /\ resetRan \in BOOLEAN
  BY DEF ResultsInv, SessionInv, HereInv, JobInv, PairInv, LengthInv
<1>1. \/ results' = results /\ test' = test
      \/ \E r \in AnyResult : results' = Append(results, r) /\ test' = test + 1
  <2>1. ASSUME NEW n \in Nat, NEW e \in BOOLEAN, NEW a \in BOOLEAN, NewResult(n, e, a)
        PROVE  \E r \in AnyResult : results' = Append(results, r) /\ test' = test + 1
    <3>1. [reported |-> n, error |-> e, asserted |-> a] \in AnyResult
      BY DEF AnyResult
    <3> QED
      BY <2>1, <3>1 DEF NewResult
  <2> QED
    BY <1>0, <2>1, Ends
<1>2. resetRan' \in BOOLEAN
  <2>1. job \in Seq(ModelTests \cup SurfaceTests \cup EnforcementTests) /\ test \in Nat \ {0}
    BY DEF ResultsInv, SessionInv, JobInv
  <2>2. InModelTest \/ ModelTestIsNext => Current.carries \in BOOLEAN
    <3>1. InModelTest \/ ModelTestIsNext => Current \in ModelTests
      BY <2>1 DEF ResultsInv, SessionInv, HereInv, InModelTest, ModelTestIsNext, Current,
                  SurfaceTests, EnforcementTests
    <3> QED
      BY <3>1 DEF ModelTests
  <2>3. \/ resetRan' = resetRan
        \/ InModelTest /\ resetRan' = (resetRan \/ Current.carries)
        \/ ModelTestIsNext /\ resetRan' = Current.carries
    BY DEF JobNext, jobVars, vars, ModelTurns, ModelTurnNext, BeginTest, SendStep, Reply, NextStep,
           NoReply, EndTest, StepRaises, TestOver, BeginSurfaceProbe, GetPath, EndSurfaceProbe, SurfaceProbeRaises,
           BeginEnforcementProbe, ReferenceUnresolved, ProbeGoesOn, EndEnforcementProbe, JobOver,
           Reset, sessionVars, InModelTest
  <2> QED
    BY <1>0, <2>2, <2>3
<1> QED
  BY <1>0, <1>1, <1>2 DEF LengthInv

(* Requests of the tests before the one at hand are over.                  *)
LEMMA NumbersStep ==
    ASSUME SessionInv, [JobNext]_jobVars
    PROVE  /\ \A t \in 1 .. test - 1 : NumbersOf(t)' = NumbersOf(t)
           /\ sent' = sent => \A t : NumbersOf(t)' = NumbersOf(t)
           /\ SendStep => /\ NumbersOf(test)' = NumbersOf(test) \cup {Len(sent) + 1}
                          /\ Len(sent) + 1 \notin NumbersOf(test)
<1>1. sent' = sent => \A t : NumbersOf(t)' = NumbersOf(t)
  BY DEF NumbersOf, RequestNumbers
<1>2. CASE sent' # sent
  <2>1. PICK c \in {session, Static, NoIdentity} :
                 /\ RequestNumbers' = RequestNumbers \cup {Len(sent) + 1}
                 /\ Len(sent) + 1 \notin RequestNumbers
                 /\ \A n \in RequestNumbers : sent'[n] = sent[n]
                 /\ sent'[Len(sent) + 1].test = test
    BY <1>2, NewRequest
  <2>2. ASSUME NEW t \in 1 .. test - 1 PROVE NumbersOf(t)' = NumbersOf(t)
    <3>1. t # test
      BY DEF SessionInv, JobInv
    <3> QED
      BY <2>1, <3>1 DEF NumbersOf
  <2>3. SendStep => test' = test
    BY DEF SendStep
  <2>4. ASSUME SendStep
        PROVE  /\ NumbersOf(test)' = NumbersOf(test) \cup {Len(sent) + 1}
               /\ Len(sent) + 1 \notin NumbersOf(test)
    BY <2>1, <2>3, <2>4 DEF NumbersOf
  <2> QED
    BY <1>2, <2>2, <2>4
<1>3. CASE sent' = sent
  <2>1. ~SendStep
    <3>1. ASSUME SendStep PROVE FALSE
      <4>1. at = "ready" /\ sent' = Append(sent, Request(Carried))
        BY <3>1 DEF SendStep
      <4>2. Carried \in {session, Static, NoIdentity}
        BY <4>1, CarriedBySession
      <4>3. Carried \in Nat \cup {NoIdentity, Static}
        BY <4>2 DEF SessionInv, HereInv
      <4> QED
        BY <1>3, <4>1, <4>3, RequestAppended DEF SessionInv, JobInv
    <3> QED
      BY <3>1
  <2> QED
    BY <1>1, <1>3, <2>1
<1> QED
  BY <1>1, <1>2, <1>3

LEMMA CountInvStep == ResultsInv /\ [JobNext]_jobVars => CountInv'
<1> SUFFICES ASSUME ResultsInv, [JobNext]_jobVars
             PROVE  CountInv'
  OBVIOUS
<1>0. /\ HereInv /\ SentInv /\ CountInv /\ SessionInv
      /\ test \in Nat \ {0} /\ step \in Nat /\ job' = job
      /\ job \in Seq(ModelTests \cup SurfaceTests \cup EnforcementTests)
  BY JobStays DEF ResultsInv, SessionInv, JobInv, HereInv
<1>1. CASE BeginTest
  <2>1. at' \in {"ready", "done"} /\ step' = 0 /\ test' = test /\ sent' = sent /\ at = "between"
    BY <1>1 DEF BeginTest, ModelTestIsNext
  <2>2. NumbersOf(test) = {}
    BY <1>0, <2>1 DEF SentInv, NumbersOf, AnyRequest, RequestNumbers
  <2>3. NumbersOf(test)' = {}
    BY <2>1, <2>2 DEF NumbersOf, RequestNumbers
  <2> QED
    BY <2>1, <2>3, FS_EmptySet DEF CountInv
<1>2. CASE SendStep
  <2>1. at' = "sending" /\ at = "ready" /\ step' = step + 1 /\ test' = test
    BY <1>2 DEF SendStep
  <2>2. /\ NumbersOf(test)' = NumbersOf(test) \cup {Len(sent) + 1}
        /\ Len(sent) + 1 \notin NumbersOf(test)
    BY <1>0, <1>2, NumbersStep
  <2>3. IsFiniteSet(NumbersOf(test)) /\ Cardinality(NumbersOf(test)) = step
    BY <1>0, <2>1 DEF CountInv, InModelTest
  <2>4. IsFiniteSet(NumbersOf(test)') /\ Cardinality(NumbersOf(test)') = step + 1
    BY <2>2, <2>3, FS_AddElement
  <2> QED
    BY <2>1, <2>4 DEF CountInv
<1>3. CASE Reply \/ NextStep \/ NoReply
  <2>1. /\ InModelTest /\ at' \in {"ready", "replied", "done"}
        /\ step' = step /\ test' = test /\ sent' = sent
    BY <1>3 DEF Reply, NextStep, NoReply, InModelTest
  <2>2. NumbersOf(test)' = NumbersOf(test)
    BY <2>1 DEF NumbersOf, RequestNumbers
  <2> QED
    BY <1>0, <2>1, <2>2 DEF CountInv
<1>4. CASE EndTest \/ StepRaises \/ EndSurfaceProbe \/ SurfaceProbeRaises \/ EndEnforcementProbe \/ ReferenceUnresolved
  <2>1. at' = "between"
    BY <1>4 DEF EndTest, StepRaises, EndSurfaceProbe, SurfaceProbeRaises, EndEnforcementProbe, ReferenceUnresolved,
                TestOver
  <2> QED
    BY <2>1 DEF CountInv, InModelTest
<1>5. CASE BeginSurfaceProbe
  <2>1. /\ step' = 0 /\ test' = test /\ Current' = Current
        /\ at' = IF Current.paths = 0 THEN "got" ELSE "get"
        /\ test <= Len(job) /\ Current.kind = "surface_probe"
    BY <1>0, <1>5 DEF BeginSurfaceProbe, IsNext, Current
  <2>2. Current.paths \in Nat
    <3>1. Current \in SurfaceTests
      BY <1>0, <2>1 DEF Current, ModelTests, SurfaceTests, EnforcementTests
    <3> QED
      BY <3>1 DEF SurfaceTests
  <2> QED
    BY <2>1, <2>2 DEF CountInv, InModelTest
<1>6. CASE GetPath
  <2>1. /\ at = "get" /\ step' = step + 1 /\ test' = test /\ Current' = Current
        /\ at' = IF step + 1 < Current.paths THEN "get" ELSE "got"
    BY <1>0, <1>6 DEF GetPath, Current
  <2>2. Current.paths \in Nat
    <3>1. Current \in SurfaceTests
      BY <1>0, <2>1 DEF HereInv, Current, ModelTests, SurfaceTests, EnforcementTests
    <3> QED
      BY <3>1 DEF SurfaceTests
  <2>3. step < Current.paths
    BY <1>0, <2>1 DEF CountInv
  <2> QED
    BY <1>0, <2>1, <2>2, <2>3 DEF CountInv, InModelTest
<1>7. CASE BeginEnforcementProbe
  <2>1. at' = "probe" /\ probe' = Current.probe /\ Current' = Current
    BY <1>0, <1>7 DEF BeginEnforcementProbe, ProbeBegins, Current
  <2> QED
    BY <2>1 DEF CountInv, InModelTest
<1>8. CASE ProbeGoesOn
  <2>1. at' = at /\ at = "probe" /\ probe' = probe /\ Current' = Current
    BY <1>0, <1>8, StepKeepsProbe DEF ProbeGoesOn, vars, Current
  <2> QED
    BY <1>0, <2>1 DEF CountInv, InModelTest
<1>9. CASE JobOver \/ UNCHANGED jobVars
  <2>1. UNCHANGED <<at, step, test, probe, sent, job>>
    BY <1>9 DEF JobOver, jobVars, vars, probeVars
  <2>2. NumbersOf(test)' = NumbersOf(test) /\ Current' = Current
    BY <2>1 DEF NumbersOf, RequestNumbers, Current
  <2> QED
    BY <1>0, <2>1, <2>2 DEF CountInv, InModelTest
<1> QED
  BY <1>1, <1>2, <1>3, <1>4, <1>5, <1>6, <1>7, <1>8, <1>9 DEF JobNext, ModelTurns, ModelTurnNext

LEMMA AssertInvStep == ResultsInv /\ [JobNext]_jobVars => AssertInv'
<1> SUFFICES ASSUME ResultsInv, [JobNext]_jobVars
             PROVE  AssertInv'
  OBVIOUS
<1>0. SessionInv /\ AssertInv /\ HereInv /\ job' = job
  BY JobStays DEF ResultsInv, SessionInv
<1>1. InModelTest' /\ resetRan' = TRUE => Current'.carries = TRUE
  <2>1. CASE BeginTest
    <3>1. resetRan' = Current.carries /\ Current' = Current
      BY <1>0, <2>1 DEF BeginTest, Current
    <3> QED
      BY <3>1
  <2>2. CASE NextStep \/ NoReply
    <3>1. /\ InModelTest /\ Current' = Current
          /\ resetRan' = resetRan \/ resetRan' = (resetRan \/ Current.carries)
      BY <1>0, <2>2 DEF NextStep, NoReply, Reset, InModelTest, Current
    <3>2. Current \in ModelTests
      BY <3>1 DEF ResultsInv, SessionInv, HereInv, JobInv, Current, InModelTest, SurfaceTests,
                  EnforcementTests
    <3>3. Current.carries \in BOOLEAN
      BY <3>2 DEF ModelTests
    <3>4. resetRan = TRUE => Current.carries = TRUE
      BY <1>0, <3>1 DEF AssertInv
    <3>5. resetRan \in BOOLEAN
      BY DEF ResultsInv, LengthInv
    <3> QED
      BY <3>1, <3>3, <3>4, <3>5, Zenon
  <2>3. CASE SendStep \/ Reply
    <3>1. InModelTest /\ Current' = Current /\ resetRan' = resetRan
      BY <1>0, <2>3 DEF SendStep, Reply, sessionVars, InModelTest, Current
    <3> QED
      BY <1>0, <3>1 DEF AssertInv
  <2>4. CASE UNCHANGED vars
    <3>1. InModelTest' = InModelTest /\ Current' = Current /\ resetRan' = resetRan
      BY <2>4 DEF vars, sessionVars, InModelTest, Current
    <3> QED
      BY <1>0, <3>1 DEF AssertInv
  <2>5. CASE at' \in {"between", "get", "got", "probe"}
    BY <2>5 DEF InModelTest
  <2> QED
    BY <2>1, <2>2, <2>3, <2>4, <2>5
    DEF JobNext, jobVars, ModelTurns, ModelTurnNext, EndTest, StepRaises, TestOver,
        BeginSurfaceProbe, GetPath, EndSurfaceProbe, SurfaceProbeRaises, BeginEnforcementProbe, ReferenceUnresolved,
        ProbeGoesOn, EndEnforcementProbe, JobOver
<1>2. \A n \in RequestNumbers' :
          sent'[n].step = 1 /\ job[sent'[n].test].carries => sent'[n].carried = NoIdentity
  <2>1. CASE sent' = sent
    BY <1>0, <2>1, Zenon DEF AssertInv, RequestNumbers
  <2>2. CASE sent' # sent
    <3>1. PICK c \in {session, Static, NoIdentity} :
                 /\ (SendStep /\ (Current.carries => c = session)) \/ c = NoIdentity
                 /\ RequestNumbers' = RequestNumbers \cup {Len(sent) + 1}
                 /\ \A n \in RequestNumbers : sent'[n] = sent[n]
                 /\ sent'[Len(sent) + 1].step = step + 1 /\ sent'[Len(sent) + 1].test = test
                 /\ sent'[Len(sent) + 1].carried = c
      BY <1>0, <2>2, NewRequest
    <3>2. step + 1 = 1 /\ c = session => c = NoIdentity
      BY <1>0, <3>1, CarriedIsFresh DEF SendStep, HereInv
    <3>3. step + 1 = 1 /\ Current.carries => c = NoIdentity
      BY <3>1, <3>2, Zenon
    <3>4. ASSUME NEW n \in RequestNumbers', sent'[n].step = 1, job[sent'[n].test].carries
          PROVE  sent'[n].carried = NoIdentity
      <4>1. CASE n \in RequestNumbers
        BY <1>0, <3>1, <3>4, <4>1, Zenon DEF AssertInv
      <4>2. CASE n = Len(sent) + 1
        BY <3>1, <3>3, <3>4, <4>2, Zenon DEF Current
      <4> QED
        BY <3>1, <4>1, <4>2
    <3> QED
      BY <3>4
  <2> QED
    BY <2>1, <2>2
<1> QED
  BY <1>0, <1>1, <1>2, Zenon DEF AssertInv

LEMMA ResultsInvariant == JobSpec => []ResultsInv
<1>1. [JobNext]_jobVars /\ ResultsInv /\ SessionInv' /\ PairInv' => ResultsInv'
  BY LengthInvStep, CountInvStep, AssertInvStep DEF ResultsInv
<1>2. ProbeSpec => []PairInv
  BY PairInvInitially, PairInvStep, PTL DEF ProbeSpec
<1>3. JobInit => LengthInv /\ CountInv /\ AssertInv
  BY ResultsInvInitially
<1>4. SessionInv /\ PairInv /\ LengthInv /\ CountInv /\ AssertInv => ResultsInv
  BY DEF ResultsInv
<1> QED
  BY <1>1, <1>2, <1>3, <1>4, SessionInvariant, JobMakesProbes, PTL DEF JobSpec

(* What was due of a test that is over stays so.                           *)
LEMMA DueStays ==
    ASSUME ResultsInv, [JobNext]_jobVars, NEW t \in 1 .. Len(results)
    PROVE  Due(t)' = Due(t)
<1>1. job' = job
  BY JobStays
<1>2. NumbersOf(t)' = NumbersOf(t)
  BY NumbersStep DEF ResultsInv, LengthInv
<1>3. {n \in RequestNumbers : sent[n].test = t}' = {n \in RequestNumbers : sent[n].test = t}
  BY <1>2 DEF NumbersOf
<1> QED
  BY <1>1, <1>3, Zenon DEF Due

(* A test that ends without an error has reported what is due.             *)
LEMMA ReportsAllDue ==
    ASSUME ResultsInv, [JobNext]_jobVars, test' # test
    PROVE  \E n \in Nat, e \in BOOLEAN, a \in BOOLEAN :
              /\ NewResult(n, e, a)
              /\ ~e => n = Due(test) \/ (Current.kind = "surface_probe" /\ n = 0)
              /\ a => Current.kind = "model_turns" /\ Current.carries
<1>0. /\ HereInv /\ CountInv /\ PairInv /\ AssertInv /\ step \in Nat
      /\ resetRan \in BOOLEAN /\ Len(observations) \in Nat
  BY DEF ResultsInv, SessionInv, HereInv, LengthInv, PairInv
<1>1. CASE at = "done" /\ NewResult(step, FALSE, resetRan)
  <2>1. Current.kind = "model_turns" /\ Cardinality(NumbersOf(test)) = step
    BY <1>0, <1>1 DEF HereInv, CountInv, InModelTest
  <2>2. Due(test) = Cardinality(NumbersOf(test))
    BY <2>1, Zenon DEF Due, Current, NumbersOf
  <2>3. resetRan => Current.carries
    BY <1>0, <1>1 DEF AssertInv, InModelTest
  <2> QED
    BY <1>0, <1>1, <2>1, <2>2, <2>3, Zenon
<1>2. CASE NewResult(0, TRUE, FALSE)
  BY <1>2
<1>3. CASE at = "got" /\ NewResult(step, FALSE, FALSE)
  <2>1. Current.kind = "surface_probe" /\ step = Current.paths
    BY <1>0, <1>3 DEF HereInv, CountInv
  <2>2. "surface_probe" # "model_turns"
    OBVIOUS
  <2>3. Due(test) = Current.paths
    BY <2>1, <2>2, Zenon DEF Due, Current
  <2> QED
    BY <1>0, <1>3, <2>1, <2>3, Zenon
<1>4. CASE at = "probe" /\ place = "done" /\ NewResult(Len(observations), FALSE, FALSE)
  <2>1. Current.kind = "enforcement_probe" /\ Len(observations) = 2 * Len(Current.probe.variants)
    BY <1>0, <1>4 DEF HereInv, CountInv, PairInv, Count
  <2>2. "enforcement_probe" # "model_turns" /\ "enforcement_probe" # "surface_probe"
    OBVIOUS
  <2>3. Due(test) = 2 * Len(Current.probe.variants)
    BY <2>1, <2>2, Zenon DEF Due, Current
  <2> QED
    BY <1>0, <1>4, <2>1, <2>3, Zenon
<1>5. CASE at \in {"get", "got"} /\ NewResult(0, FALSE, FALSE)
  <2>1. Current.kind = "surface_probe"
    BY <1>0, <1>5 DEF HereInv
  <2> QED
    BY <1>5, <2>1, Zenon
<1> QED
  BY <1>1, <1>2, <1>3, <1>4, <1>5, Ends

LEMMA CompleteStep ==
    ResultsInv /\ ResultsAreComplete /\ [JobNext]_jobVars /\ ResultsInv' => ResultsAreComplete'
<1> SUFFICES ASSUME ResultsInv, ResultsAreComplete, [JobNext]_jobVars, ResultsInv'
             PROVE  ResultsAreComplete'
  OBVIOUS
<1>1. Len(results)' = test' - 1
  BY DEF ResultsInv, LengthInv
<1>2. results \in Seq(AnyResult) /\ test \in Nat /\ Len(results) = test - 1
  BY DEF ResultsInv, LengthInv, SessionInv, JobInv
<1>3. ASSUME NEW t \in 1 .. Len(results)', ~results'[t].error
      PROVE  \/ results'[t].reported = Due(t)'
             \/ job[t].kind = "surface_probe" /\ results'[t].reported = 0
  <2>1. CASE test' = test
    <3>1. results' = results
      BY <1>2, <2>1, Ends DEF NewResult
    <3>2. /\ t \in 1 .. Len(results)
          /\ \/ results[t].reported = Due(t)
             \/ job[t].kind = "surface_probe" /\ results[t].reported = 0
      BY <1>3, <3>1 DEF ResultsAreComplete
    <3> QED
      BY <3>1, <3>2, DueStays
  <2>2. CASE test' # test
    <3>1. PICK n \in Nat, e \in BOOLEAN, a \in BOOLEAN :
              /\ NewResult(n, e, a)
              /\ ~e => n = Due(test) \/ (Current.kind = "surface_probe" /\ n = 0)
      BY <2>2, ReportsAllDue
    <3> DEFINE r == [reported |-> n, error |-> e, asserted |-> a]
    <3>2. r \in AnyResult /\ results' = Append(results, r) /\ r.reported = n /\ r.error = e
      BY <3>1 DEF AnyResult, NewResult
    <3> HIDE DEF r
    <3>3. /\ Len(results)' = Len(results) + 1 /\ results'[Len(results) + 1] = r
          /\ \A k \in 1 .. Len(results) : results'[k] = results[k]
      BY <1>2, <3>2
    <3>4. CASE t \in 1 .. Len(results)
      <4>1. \/ results[t].reported = Due(t)
            \/ job[t].kind = "surface_probe" /\ results[t].reported = 0
        BY <1>3, <3>3, <3>4 DEF ResultsAreComplete
      <4> QED
        BY <3>3, <3>4, <4>1, DueStays
    <3>5. CASE t = test
      <4>1. results'[t] = r
        BY <1>2, <3>3, <3>5
      <4>2. n = Due(t) \/ (job[t].kind = "surface_probe" /\ n = 0)
        <5>1. ~e
          BY <1>3, <3>2, <4>1
        <5> QED
          BY <3>1, <3>5, <5>1 DEF Current
      <4>3. Due(t)' = Due(t)
        <5>1. job' = job /\ sent' = sent
          BY <3>1, JobStays DEF NewResult
        <5> QED
          BY <5>1, Zenon DEF Due, RequestNumbers
      <4> QED
        BY <3>2, <4>1, <4>2, <4>3
    <3> QED
      BY <1>2, <3>3, <3>4, <3>5
  <2> QED
    BY <2>1, <2>2
<1>4. job' = job
  BY JobStays
<1> QED
  BY <1>1, <1>3, <1>4, Zenon DEF ResultsAreComplete

(* There is one result for each test done, in order, and one without an    *)
(* error reports all that is due, whatever was refused or got no reply, or  *)
(* is the empty one of a surface probe that raised.                        *)
THEOREM ResultsReportAllDue == JobSpec => []ResultsAreComplete
<1>1. JobInit => ResultsAreComplete
  BY DEF JobInit, Init, ResultsAreComplete
<1> QED
  BY <1>1, ResultsInvariant, CompleteStep, PTL DEF JobSpec

LEMMA AssertedStep ==
    ResultsInv /\ AssertedIsTrue /\ [JobNext]_jobVars /\ ResultsInv' => AssertedIsTrue'
<1> SUFFICES ASSUME ResultsInv, AssertedIsTrue, [JobNext]_jobVars, ResultsInv'
             PROVE  AssertedIsTrue'
  OBVIOUS
<1>1. job' = job
  BY JobStays
<1>2. results \in Seq(AnyResult) /\ test \in Nat /\ Len(results) = test - 1
  BY DEF ResultsInv, LengthInv, SessionInv, JobInv
<1>3. \A n \in RequestNumbers' :
          sent'[n].step = 1 /\ job[sent'[n].test].carries => sent'[n].carried = NoIdentity
  BY <1>1, Zenon DEF ResultsInv, AssertInv
<1>4. ASSUME NEW t \in 1 .. Len(results)', results'[t].asserted
      PROVE  job[t].kind = "model_turns" /\ job[t].carries
  <2>1. CASE test' = test
    <3>1. results' = results
      BY <1>2, <2>1, Ends DEF NewResult
    <3> QED
      BY <1>4, <3>1 DEF AssertedIsTrue, IsModelTest
  <2>2. CASE test' # test
    <3>1. PICK n \in Nat, e \in BOOLEAN, a \in BOOLEAN :
              NewResult(n, e, a) /\ (a => Current.kind = "model_turns" /\ Current.carries)
      BY <2>2, ReportsAllDue
    <3> DEFINE r == [reported |-> n, error |-> e, asserted |-> a]
    <3>2. r \in AnyResult /\ results' = Append(results, r) /\ r.asserted = a
      BY <3>1 DEF AnyResult, NewResult
    <3> HIDE DEF r
    <3>3. /\ Len(results)' = Len(results) + 1 /\ results'[Len(results) + 1] = r
          /\ \A k \in 1 .. Len(results) : results'[k] = results[k]
      BY <1>2, <3>2
    <3>4. CASE t \in 1 .. Len(results)
      BY <1>4, <3>3, <3>4 DEF AssertedIsTrue, IsModelTest
    <3>5. CASE t = test
      <4>1. results'[t] = r
        BY <1>2, <3>3, <3>5
      <4>2. a
        BY <1>4, <3>2, <4>1, Zenon
      <4> QED
        BY <3>1, <3>5, <4>2, Zenon DEF Current
    <3> QED
      BY <1>2, <3>3, <3>4, <3>5
  <2> QED
    BY <2>1, <2>2
<1> QED
  BY <1>1, <1>3, <1>4, Zenon DEF AssertedIsTrue, IsModelTest

(* "badass_reset" is asserted only of a test with a session field whose    *)
(* first request carried no identity.                                      *)
THEOREM AssertionsAreTrue == JobSpec => []AssertedIsTrue
<1>1. JobInit => AssertedIsTrue
  BY DEF JobInit, Init, AssertedIsTrue
<1> QED
  BY <1>1, ResultsInvariant, AssertedStep, PTL DEF JobSpec

-----------------------------------------------------------------------------
(* What is kept of a reply.                                                *)

(* A set of numbers has a least element.                                   *)
LEMMA LeastNumber ==
    ASSUME NEW S, S \subseteq Nat, S # {}
    PROVE  \E x \in S : \A y \in S : x <= y
<1> DEFINE Less == {ss \in Nat \X Nat : ss[1] < ss[2]}
<1>1. IsWellFoundedOn(Less, Nat)
  BY Zenon, NatLessThanWellFounded DEF OpToRel
<1>2. \E x \in S : \A y \in S : ~ (<<y, x>> \in Less)
  <2> HIDE DEF Less
  <2> QED
    BY <1>1, WFMin
<1>3. PICK x \in S : \A y \in S : ~ (<<y, x>> \in Less)
  BY <1>2
<1>4. ASSUME NEW y \in S PROVE x <= y
  <2>1. ~ (<<y, x>>[1] < <<y, x>>[2])
    BY <1>3
  <2> QED
    BY <2>1
<1> QED
  BY <1>4

(* Each number up to the size of a set of places is the rank of one of them. *)
LEMMA RanksAreTaken ==
    ASSUME NEW n \in Nat, NEW S \in SUBSET (1 .. n), NEW i \in 1 .. Cardinality(S)
    PROVE  \E k \in S : Cardinality({j \in S : j <= k}) = i
<1> DEFINE UpTo(k) == {j \in S : j <= k}
<1>1. IsFiniteSet(S)
  <2>1. IsFiniteSet(1 .. n)
    BY FS_Interval
  <2> QED
    BY <2>1, FS_Subset
<1>2. Cardinality(S) \in Nat
  BY <1>1, FS_CardinalityType
<1>3. i \in Nat \ {0} /\ i <= Cardinality(S)
  BY <1>2
<1>4. \A j \in S : j \in Nat \ {0} /\ j <= n
  OBVIOUS
<1>5. UpTo(n) = S /\ UpTo(0) = {}
  <2>1. \A j \in S : j <= n /\ ~(j <= 0)
    BY <1>4
  <2> QED
    BY <2>1
<1>6. ASSUME NEW k \in Nat PROVE IsFiniteSet(UpTo(k)) /\ Cardinality(UpTo(k)) \in Nat
  BY <1>1, FS_Subset, FS_CardinalityType
<1>7. ASSUME NEW k \in Nat, k # 0
      PROVE  /\ k - 1 \in Nat
             /\ k \notin S => UpTo(k) = UpTo(k - 1)
             /\ k \in S => UpTo(k) = UpTo(k - 1) \cup {k} /\ k \notin UpTo(k - 1)
  <2>1. \A j \in S : j <= k <=> j <= k - 1 \/ j = k
    BY <1>4, <1>7
  <2>2. k - 1 \in Nat /\ ~(k <= k - 1)
    BY <1>7
  <2> QED
    BY <2>1, <2>2
<1> HIDE DEF UpTo
<1> DEFINE Reaching == {k \in Nat : Cardinality(UpTo(k)) >= i}
<1>8. n \in Reaching
  BY <1>2, <1>3, <1>5
<1>9. PICK k \in Reaching : \A m \in Reaching : k <= m
  <2> HIDE DEF Reaching
  <2>1. Reaching \subseteq Nat
    BY DEF Reaching
  <2> QED
    BY <1>8, <2>1, LeastNumber
<1>10. k \in Nat /\ Cardinality(UpTo(k)) >= i
  OBVIOUS
<1>11. k # 0
  <2>1. Cardinality(UpTo(0)) = 0
    BY <1>5, FS_EmptySet
  <2> QED
    BY <1>3, <1>10, <2>1
<1>12. k - 1 \in Nat /\ Cardinality(UpTo(k - 1)) < i /\ Cardinality(UpTo(k - 1)) \in Nat
  <2>1. k - 1 \in Nat /\ ~(k <= k - 1)
    BY <1>10, <1>11
  <2>2. k - 1 \notin Reaching
    BY <1>9, <2>1
  <2> QED
    BY <1>3, <1>6, <2>1, <2>2
<1>13. k \in S
  BY <1>6, <1>7, <1>10, <1>11, <1>12, <1>3
<1>14. Cardinality(UpTo(k)) = Cardinality(UpTo(k - 1)) + 1
  BY <1>6, <1>7, <1>10, <1>11, <1>12, <1>13, FS_AddElement
<1>15. Cardinality(UpTo(k)) = i
  BY <1>3, <1>10, <1>12, <1>14
<1> QED
  BY <1>13, <1>15 DEF UpTo

(* What is kept of a sequence was in it, at a place that is kept.          *)
LEMMA KeptWasThere ==
    ASSUME NEW D, NEW s \in Seq(D), NEW S \in SUBSET (DOMAIN s)
    PROVE  /\ Kept(s, S) \in Seq(D) /\ Len(Kept(s, S)) = Cardinality(S)
           /\ \A i \in DOMAIN Kept(s, S) : \E k \in S : Kept(s, S)[i] = s[k]
<1>1. DOMAIN s = 1 .. Len(s) /\ Len(s) \in Nat
  OBVIOUS
<1>2. IsFiniteSet(S)
  <2>1. IsFiniteSet(1 .. Len(s))
    BY <1>1, FS_Interval
  <2> QED
    BY <1>1, <2>1, FS_Subset
<1>3. Cardinality(S) \in Nat
  BY <1>2, FS_CardinalityType
<1> DEFINE Place(i) == CHOOSE k \in S : Cardinality({j \in S : j <= k}) = i
<1>4. ASSUME NEW i \in 1 .. Cardinality(S) PROVE Place(i) \in S
  BY <1>1, RanksAreTaken
<1>5. Kept(s, S) = [i \in 1 .. Cardinality(S) |-> s[Place(i)]]
  BY DEF Kept
<1> HIDE DEF Place
<1>6. \A i \in 1 .. Cardinality(S) : s[Place(i)] \in D
  BY <1>1, <1>4
<1>7. Kept(s, S) \in Seq(D) /\ Len(Kept(s, S)) = Cardinality(S)
  BY <1>3, <1>5, <1>6
<1> QED
  BY <1>4, <1>5, <1>7

(* Nothing is dropped if all places are kept.                              *)
LEMMA AllKept ==
    ASSUME NEW D, NEW s \in Seq(D)
    PROVE  Kept(s, DOMAIN s) = s
<1> DEFINE S == DOMAIN s
           Rank(k) == Cardinality({j \in S : j <= k})
           Place(i) == CHOOSE k \in S : Rank(k) = i
<1>1. S = 1 .. Len(s) /\ Len(s) \in Nat
  OBVIOUS
<1>2. ASSUME NEW n \in Nat PROVE Cardinality(1 .. n) = n
  <2>1. Cardinality(1 .. n) = IF 1 > n THEN 0 ELSE n - 1 + 1
    BY FS_Interval
  <2> QED
    BY <2>1
<1>3. Cardinality(S) = Len(s)
  BY <1>1, <1>2
<1>4. ASSUME NEW k \in S PROVE Rank(k) = k
  <2>1. {j \in S : j <= k} = 1 .. k /\ k \in Nat
    BY <1>1
  <2> QED
    BY <1>2, <2>1
<1>5. Kept(s, S) = [i \in 1 .. Cardinality(S) |-> s[Place(i)]]
  BY DEF Kept
<1> HIDE DEF Rank
<1>6. ASSUME NEW i \in S PROVE Place(i) = i
  BY <1>4
<1> HIDE DEF Place
<1>7. Kept(s, S) = [i \in S |-> s[i]]
  BY <1>1, <1>3, <1>5, <1>6
<1> QED
  BY <1>1, <1>7

Details == Seq(Entries \cup {NotAnObject})

(* What is kept of the last reply, and uploaded, was made of it.           *)
EvidenceInv ==
    /\ target \in DOMAIN Replies
    /\ turn # NoTurn => body \in Replies[target] /\ turn = Turn(body)
    /\ upload # NoUpload =>
          /\ turn # NoTurn
          /\ \E names \in SUBSET Tools, hits \in SUBSET WithResult(turn.detail) :
                upload = Upload(turn, names, hits)

LEMMA EvidenceInvariant == JobSpec => []EvidenceInv
<1>1. JobInit => EvidenceInv
  BY ExecutionAssumption DEF JobInit, Init, EvidenceInv
<1>2. EvidenceInv /\ [JobNext]_jobVars => EvidenceInv'
  <2> SUFFICES ASSUME EvidenceInv, [JobNext]_jobVars
               PROVE  EvidenceInv'
    OBVIOUS
  <2>1. target' = target
    BY DEF JobNext, jobVars, vars, ModelTurns, ModelTurnNext, BeginTest, SendStep, Reply, NextStep,
           NoReply, EndTest, StepRaises, TestOver, BeginSurfaceProbe, GetPath, EndSurfaceProbe, SurfaceProbeRaises,
           BeginEnforcementProbe, ReferenceUnresolved, ProbeGoesOn, EndEnforcementProbe, JobOver
  <2>2. CASE Reply
    <3>1. PICK b \in Replies[target] : body' = b /\ turn' = Turn(b) /\ upload' = NoUpload
      BY <2>2 DEF Reply
    <3> QED
      BY <2>1, <3>1 DEF EvidenceInv
  <2>3. CASE EndTest
    <3>1. /\ \/ turn = NoTurn /\ upload' = NoUpload
             \/ turn # NoTurn /\ \E names \in SUBSET Tools, hits \in SUBSET WithResult(turn.detail) :
                                    upload' = Upload(turn, names, hits)
          /\ body' = body /\ turn' = turn
      BY <2>3 DEF EndTest, UploadLast, TestOver
    <3> QED
      BY <2>1, <3>1 DEF EvidenceInv
  <2>4. CASE StepRaises
    <3>1. upload' = NoUpload /\ body' = body /\ turn' = turn
      BY <2>4 DEF StepRaises, TestOver
    <3> QED
      BY <2>1, <3>1 DEF EvidenceInv
  <2>5. CASE NoEvidence
    BY <2>1, <2>5 DEF NoEvidence, EvidenceInv
  <2>6. CASE UNCHANGED evidence
    BY <2>1, <2>6 DEF evidence, EvidenceInv
  <2> QED
    BY <2>2, <2>3, <2>4, <2>5, <2>6
    DEF JobNext, jobVars, vars, ModelTurns, ModelTurnNext, BeginTest, SendStep, NextStep, NoReply,
        TestOver, BeginSurfaceProbe, GetPath, EndSurfaceProbe, SurfaceProbeRaises, BeginEnforcementProbe,
        ReferenceUnresolved, ProbeGoesOn, EndEnforcementProbe, JobOver, evidence
<1> QED
  BY <1>1, <1>2, PTL DEF JobSpec

(* What a reply holds is of its type, and so are the entries of its turn.  *)
LEMMA DetailsOfATurn ==
    ASSUME NEW b \in Bodies
    PROVE  /\ b.detail \in Details
           /\ Turn(b).detail \in Details
           /\ Turn(b).calls = TurnCalls(b).calls
           /\ Turn(b).positional = TurnCalls(b).positional
           /\ Turn(b).detail =
                 Kept(b.detail, {k \in DOMAIN b.detail : b.detail[k] # NotAnObject})
<1>1. b.detail \in Details
  BY DEF Bodies, Details
<1> DEFINE S == {k \in DOMAIN b.detail : b.detail[k] # NotAnObject}
<1>2. Turn(b).detail = Kept(b.detail, S)
  BY DEF Turn
<1>3. Kept(b.detail, S) \in Details
  <2>1. S \in SUBSET (DOMAIN b.detail)
    OBVIOUS
  <2> HIDE DEF S
  <2> QED
    BY <1>1, <2>1, KeptWasThere DEF Details
<1>4. Turn(b).calls = TurnCalls(b).calls /\ Turn(b).positional = TurnCalls(b).positional
  BY DEF Turn
<1> QED
  BY <1>1, <1>2, <1>3, <1>4

(* A turn is paired only if every name of the reply has its entry.         *)
LEMMA PairedTurns ==
    ASSUME NEW b \in Bodies, Turn(b).positional
    PROVE  /\ Turn(b).calls = b.native /\ b.native # <<>> /\ Turn(b).detail = b.detail
           /\ Agrees(b.native, b.detail)
<1> DEFINE captured == CaptureNativeCalls(b.native, b.detail)
<1>1. TurnCalls(b).positional
  BY DetailsOfATurn
<1>2. TurnCalls(b) = captured /\ captured.positional
  BY <1>1 DEF TurnCalls
<1>3. NamesOnly(b.native) /\ Agrees(b.native, b.detail)
  BY <1>2 DEF CaptureNativeCalls
<1>4. captured.calls = b.native
  BY <1>3 DEF CaptureNativeCalls
<1>5. b.native # <<>>
  BY <1>3 DEF NamesOnly
<1>6. b.native \in Seq(Tools \cup {Blank, CallObject}) /\ b.detail \in Details
  BY DEF Bodies, Details
<1>7. DOMAIN b.native = DOMAIN b.detail
  BY <1>3, <1>6 DEF Agrees, Details
<1>8. {k \in DOMAIN b.detail : b.detail[k] # NotAnObject} = DOMAIN b.detail
  BY <1>3, <1>7 DEF Agrees
<1>9. Turn(b).detail = b.detail
  BY <1>6, <1>8, DetailsOfATurn, AllKept DEF Details
<1> QED
  BY <1>2, <1>3, <1>4, <1>5, <1>9, DetailsOfATurn

(* What the redaction leaves in place, whatever it rewrites.               *)
LEMMA UploadOfATurn ==
    ASSUME NEW t, t.detail \in Details, NEW names, NEW hits
    PROVE  /\ Upload(t, names, hits).calls = [k \in DOMAIN t.calls |-> RedactName(t.calls[k], names)]
           /\ Upload(t, names, hits).positional = t.positional
           /\ Len(Upload(t, names, hits).detail) = Len(t.detail)
           /\ Len(Upload(t, names, hits).facts) = Len(t.detail)
           /\ DOMAIN Upload(t, names, hits).detail = DOMAIN t.detail
           /\ \A k \in DOMAIN t.detail :
                 /\ Upload(t, names, hits).detail[k].name = RedactName(t.detail[k].name, names)
                 /\ Upload(t, names, hits).facts[k] = BoundedResultFacts(t.detail[k])
<1>1. /\ Upload(t, names, hits).calls = [k \in DOMAIN t.calls |-> RedactName(t.calls[k], names)]
      /\ Upload(t, names, hits).positional = t.positional
      /\ Upload(t, names, hits).detail = RedactValue(t.detail, names, hits)
      /\ Upload(t, names, hits).facts = [k \in DOMAIN t.detail |-> BoundedResultFacts(t.detail[k])]
  BY DEF Upload, Facts
<1>2. DOMAIN t.detail = 1 .. Len(t.detail) /\ Len(t.detail) \in Nat
  BY DEF Details
<1>3. /\ DOMAIN RedactValue(t.detail, names, hits) = DOMAIN t.detail
      /\ Len(RedactValue(t.detail, names, hits)) = Len(t.detail)
      /\ \A k \in DOMAIN t.detail :
            RedactValue(t.detail, names, hits)[k].name = RedactName(t.detail[k].name, names)
  BY <1>2 DEF RedactValue
<1> QED
  BY <1>1, <1>2, <1>3

(* What the facts of an entry say.                                         *)
LEMMA FactsOfAnEntry ==
    ASSUME NEW e \in Entries \cup {NotAnObject}
    PROVE  /\ (BoundedResultFacts(e).effect = "confirmed") <=> Confirmed(e)
           /\ (BoundedResultFacts(e).effect = "unavailable") <=> (e.result \in {Absent, "garbled"})
<1>1. e.result # "redacted"
  BY DEF Entries, ResultKinds, NotAnObject, Absent
<1>2. CASE e.result \in {Absent, "garbled"}
  <2>1. ~Confirmed(e)
    BY <1>2 DEF Confirmed, Absent
  <2>2. BoundedResultFacts(e).effect = "unavailable"
    BY <1>2 DEF BoundedResultFacts
  <2> QED
    BY <1>2, <2>1, <2>2
<1>3. CASE e.result \notin {Absent, "garbled"}
  <2>1. BoundedResultFacts(e).effect = IF Confirmed(e) THEN "confirmed" ELSE "not_confirmed"
    BY <1>1, <1>3 DEF BoundedResultFacts
  <2> QED
    BY <1>3, <2>1
<1> QED
  BY <1>2, <1>3

(* An uploaded turn that claims to be paired has each call, entry and fact *)
(* in the place of the same call of the reply, under one name.             *)
THEOREM PairsAreOfOneCall == JobSpec => []PairingIsPositional
<1>1. EvidenceInv => PairingIsPositional
  <2> SUFFICES ASSUME EvidenceInv, upload # NoUpload, upload.positional
               PROVE  /\ body.native # <<>> /\ Len(upload.calls) = Len(body.native)
                      /\ Len(upload.calls) = Len(body.detail)
                      /\ Len(upload.calls) = Len(upload.detail)
                      /\ Len(upload.calls) = Len(upload.facts)
                      /\ \A k \in DOMAIN upload.calls :
                            /\ upload.calls[k] = upload.detail[k].name
                            /\ upload.calls[k] \in {body.native[k], Rewritten}
                            /\ body.native[k] = body.detail[k].name
                            /\ upload.facts[k] = BoundedResultFacts(body.detail[k])
    BY DEF PairingIsPositional
  <2>1. turn = Turn(body) /\ body \in Bodies
    BY ExecutionAssumption DEF EvidenceInv
  <2>2. turn.detail \in Details /\ body.detail \in Details
    BY <2>1, DetailsOfATurn
  <2>3. PICK names, hits : upload = Upload(turn, names, hits)
    BY DEF EvidenceInv
  <2>4. /\ upload.calls = [k \in DOMAIN turn.calls |-> RedactName(turn.calls[k], names)]
        /\ turn.positional
        /\ Len(upload.detail) = Len(turn.detail) /\ Len(upload.facts) = Len(turn.detail)
        /\ \A k \in DOMAIN turn.detail :
              /\ upload.detail[k].name = RedactName(turn.detail[k].name, names)
              /\ upload.facts[k] = BoundedResultFacts(turn.detail[k])
    BY <2>2, <2>3, UploadOfATurn
  <2>5. /\ turn.calls = body.native /\ body.native # <<>> /\ turn.detail = body.detail
        /\ Agrees(body.native, body.detail)
    BY <2>1, <2>4, PairedTurns
  <2>6. /\ DOMAIN body.native = DOMAIN body.detail /\ Len(body.native) = Len(body.detail)
        /\ Len(upload.calls) = Len(body.native)
    <3>1. body.native \in Seq(Tools \cup {Blank, CallObject})
      BY <2>1 DEF Bodies
    <3>2. upload.calls = [k \in 1 .. Len(body.native) |-> RedactName(body.native[k], names)]
      BY <2>4, <2>5, <3>1
    <3> QED
      BY <2>2, <2>5, <3>1, <3>2 DEF Agrees, Details
  <2>7. ASSUME NEW k \in DOMAIN body.native
        PROVE  /\ upload.calls[k] = upload.detail[k].name
               /\ upload.calls[k] \in {body.native[k], Rewritten}
               /\ body.native[k] = body.detail[k].name
               /\ upload.facts[k] = BoundedResultFacts(body.detail[k])
    <3>1. body.detail[k].name = body.native[k]
      BY <2>5 DEF Agrees
    <3>2. upload.calls[k] = RedactName(body.native[k], names)
      BY <2>4, <2>5
    <3> QED
      BY <2>4, <2>5, <2>6, <3>1, <3>2 DEF RedactName
  <2> QED
    BY <2>4, <2>5, <2>6, <2>7
<1> QED
  BY <1>1, EvidenceInvariant, PTL

(* The uploaded facts say of every entry what the target's own result      *)
(* showed, whatever the redaction finds in it.                             *)
THEOREM FactsAreOfTheRawResult == JobSpec => []FactsOutliveRedaction
<1>1. EvidenceInv => FactsOutliveRedaction
  <2> SUFFICES ASSUME EvidenceInv, upload # NoUpload
               PROVE  /\ Len(upload.facts) = Len(upload.detail)
                      /\ \A k \in DOMAIN upload.detail :
                            /\ (upload.facts[k].effect = "confirmed") <=> Confirmed(turn.detail[k])
                            /\ (upload.facts[k].effect = "unavailable") <=>
                                  (turn.detail[k].result \in {Absent, "garbled"})
    BY DEF FactsOutliveRedaction
  <2>1. turn = Turn(body) /\ body \in Bodies
    BY ExecutionAssumption DEF EvidenceInv
  <2>2. turn.detail \in Details
    BY <2>1, DetailsOfATurn
  <2>3. PICK names, hits : upload = Upload(turn, names, hits)
    BY DEF EvidenceInv
  <2>4. /\ DOMAIN upload.detail = DOMAIN turn.detail
        /\ Len(upload.detail) = Len(turn.detail) /\ Len(upload.facts) = Len(turn.detail)
        /\ \A k \in DOMAIN turn.detail : upload.facts[k] = BoundedResultFacts(turn.detail[k])
    <3>1. upload.detail = RedactValue(turn.detail, names, hits) /\ upload.facts = Facts(turn.detail)
      BY <2>3 DEF Upload
    <3>2. DOMAIN turn.detail = 1 .. Len(turn.detail) /\ Len(turn.detail) \in Nat
      BY <2>2 DEF Details
    <3> QED
      BY <3>1, <3>2 DEF RedactValue, Facts
  <2>5. ASSUME NEW k \in DOMAIN upload.detail
        PROVE  /\ (upload.facts[k].effect = "confirmed") <=> Confirmed(turn.detail[k])
               /\ (upload.facts[k].effect = "unavailable") <=>
                     (turn.detail[k].result \in {Absent, "garbled"})
    <3>1. turn.detail[k] \in Entries \cup {NotAnObject}
      BY <2>2, <2>4 DEF Details
    <3>2. upload.facts[k] = BoundedResultFacts(turn.detail[k])
      BY <2>4
    <3> QED
      BY <3>1, <3>2, FactsOfAnEntry
  <2> QED
    BY <2>4, <2>5
<1> QED
  BY <1>1, EvidenceInvariant, PTL

-----------------------------------------------------------------------------
(* Types.                                                                  *)

LEMMA FewVariants ==
    ASSUME probe \in Probes \cup {NoProbe} PROVE Count \in Nat /\ Count <= MaxVariants
<1>1. CASE probe \in Probes
  <2>1. probe.variants \in Variants
    BY <1>1 DEF Probes
  <2>2. PICK n \in 1 .. MaxVariants :
            probe.variants \in [1 .. n -> [nonMutating : Flag, needsFixture : Flag]]
    BY <2>1 DEF Variants
  <2>3. Len(probe.variants) = n
    BY <2>2, ProbeAssumption
  <2> QED
    BY <2>2, <2>3, ProbeAssumption DEF Count
<1>2. CASE probe = NoProbe
  <2>1. Len(NoProbe.variants) = 0
    BY DEF NoProbe
  <2> QED
    BY <1>2, <2>1, ProbeAssumption DEF Count
<1> QED
  BY <1>1, <1>2

LegTypes ==
    /\ probe \in Probes \cup {NoProbe}
    /\ place \in {"start", "next", "sent", "done"}
    /\ leg \in Leg
    /\ prepared \in [BOOLEAN -> Leg \cup {NoHeaders}]
    /\ headers \in Leg \cup {NoHeaders}
    /\ requests \subseteq [leg : Leg, headers : Leg \cup {NoHeaders}]

LEMMA LegTypesStep == LegTypes /\ PairInv /\ HeadersInv /\ [ProbeNext]_probeVars => LegTypes'
<1> SUFFICES ASSUME LegTypes, PairInv, HeadersInv, [ProbeNext]_probeVars
             PROVE  LegTypes'
  OBVIOUS
<1>0. /\ Count \in Nat /\ Count <= MaxVariants /\ MaxVariants \in Nat \ {0}
      /\ leg \in Leg /\ leg.variant \in Nat \ {0}
  BY FewVariants, ProbeAssumption DEF LegTypes, Leg
<1>1. \A v \in 1 .. MaxVariants + 1 : Of(v, TRUE) \in Leg /\ Of(v, FALSE) \in Leg
  BY DEF Of, Leg
<1>2. FirstLeg \in Leg /\ NoneLeft \in [BOOLEAN -> Leg \cup {NoHeaders}]
  BY <1>0 DEF FirstLeg, Leg, NoneLeft
<1>3. CASE RefuseProbe \/ AcceptProbe
  BY <1>3 DEF RefuseProbe, AcceptProbe, LegTypes
<1>4. CASE RefuseVariant
  <2>1. /\ place = "next" /\ leg' = Of(leg.variant + 1, TRUE) /\ place' \in {"next", "done"}
        /\ probe' = probe /\ prepared' = prepared /\ headers' = headers /\ requests' = requests
    BY <1>4 DEF RefuseVariant, GoesTo
  <2>2. leg.variant + 1 \in 1 .. MaxVariants + 1
    BY <1>0, <2>1 DEF PairInv
  <2> QED
    BY <1>1, <2>1, <2>2 DEF LegTypes
<1>5. CASE SendLeg
  <2>1. /\ headers' = leg /\ leg' = leg /\ place' = "sent" /\ probe' = probe
        /\ requests' = requests \cup {[leg |-> leg, headers |-> leg]}
    BY <1>5, LegInUse DEF SendLeg, Sends
  <2>2. prepared' \in [BOOLEAN -> Leg \cup {NoHeaders}]
    <3>1. \A a \in BOOLEAN : Of(leg.variant, a) \in Leg
      BY <1>0 DEF Of, Leg
    <3>2. prepared' = IF leg.authorized THEN [a \in BOOLEAN |-> Of(leg.variant, a)] ELSE prepared
      BY <1>5 DEF SendLeg, Sends
    <3> QED
      BY <3>1, <3>2 DEF LegTypes
  <2> QED
    BY <1>0, <2>1, <2>2 DEF LegTypes
<1>6. CASE LegEnds
  <2>1. /\ place = "sent" /\ headers' = NoHeaders /\ probe' = probe /\ requests' = requests
        /\ prepared' \in {prepared, [prepared EXCEPT ![leg.authorized] = NoHeaders]}
        /\ IF leg.authorized THEN leg' = Of(leg.variant, FALSE) /\ place' = "next"
           ELSE GoesTo(leg.variant + 1)
    BY <1>6 DEF LegEnds, LegIsOver
  <2>2. leg.variant \in 1 .. MaxVariants + 1 /\ leg.variant + 1 \in 1 .. MaxVariants + 1
    BY <1>0, <2>1 DEF PairInv
  <2>3. leg' \in Leg /\ place' \in {"next", "done"}
    BY <1>1, <2>1, <2>2 DEF GoesTo
  <2>4. prepared' \in [BOOLEAN -> Leg \cup {NoHeaders}]
    BY <2>1 DEF LegTypes
  <2> QED
    BY <2>1, <2>3, <2>4 DEF LegTypes
<1>7. ASSUME NEW p \in Probes, ProbeBegins(p) PROVE LegTypes'
  BY <1>2, <1>7 DEF ProbeBegins, LegTypes
<1>8. CASE UNCHANGED probeVars
  BY <1>8 DEF probeVars, LegTypes
<1> QED
  BY <1>3, <1>4, <1>5, <1>6, <1>7, <1>8 DEF ProbeNext, ProbeStep

(* The probes of a job stay within their types: no leg is reported that the *)
(* probe does not have.                                                    *)
LEMMA ProbeTypes == ProbeSpec => []ProbeTypeOK
<1>1. ProbeInit => LegTypes /\ HeadersInv
  <2> SUFFICES ASSUME ProbeInit PROVE LegTypes /\ HeadersInv
    OBVIOUS
  <2>1. FirstLeg \in Leg /\ NoneLeft \in [BOOLEAN -> Leg \cup {NoHeaders}]
    BY ProbeAssumption DEF FirstLeg, Leg, NoneLeft
  <2>2. HeadersInv
    BY DEF ProbeInit, HeadersInv, FirstLeg, AnyLeg, NoneLeft, OwnHeaders
  <2> QED
    BY <2>1, <2>2 DEF ProbeInit, LegTypes
<1>2. LegTypes /\ PairInv => ProbeTypeOK
  <2> SUFFICES ASSUME LegTypes, PairInv PROVE ProbeTypeOK
    OBVIOUS
  <2>1. /\ Count \in Nat /\ Count <= MaxVariants /\ MaxVariants \in Nat
        /\ leg.variant \in Nat \ {0} /\ leg.authorized \in BOOLEAN
    BY FewVariants, ProbeAssumption DEF LegTypes, Leg
  <2>2. Len(observations) \in Nat /\ Len(observations) <= 2 * MaxVariants
    <3>1. Behind(leg) = 2 * leg.variant - 2 \/ Behind(leg) = 2 * leg.variant - 1
      BY DEF Behind
    <3>2. Len(observations) \in Nat
      BY DEF PairInv
    <3>3. CASE place = "done"
      BY <2>1, <3>2, <3>3 DEF PairInv
    <3>4. CASE place # "done"
      <4>1. leg.variant <= Count /\ Len(observations) = Behind(leg)
        BY <3>4 DEF LegTypes, PairInv
      <4> QED
        BY <2>1, <3>1, <3>2, <4>1
    <3> QED
      BY <3>3, <3>4
  <2>3. ASSUME NEW k \in 1 .. Len(observations)
        PROVE  observations[k] \in [leg : Leg, outcome : Outcome]
    <3>1. observations[k] \in Observed /\ observations[k].leg = LegAt(k)
      BY DEF PairInv
    <3>2. (k + 1) \div 2 \in 1 .. MaxVariants + 1
      BY <2>1, <2>2
    <3>3. LegAt(k) \in Leg
      <4>1. LegAt(k) \in NumberedLeg
        BY <2>2, LegsAreNumbered
      <4>2. LegAt(k).variant = (k + 1) \div 2
        BY Zenon DEF LegAt, Of
      <4> QED
        BY <3>2, <4>1, <4>2 DEF NumberedLeg, Leg
    <3> QED
      BY <3>1, <3>3 DEF Observed
  <2> DEFINE Reported == [leg : Leg, outcome : Outcome]
  <2>4. observations \in Seq(Reported)
    <3>1. observations \in Seq(Observed) /\ \A k \in 1 .. Len(observations) : observations[k] \in Reported
      BY <2>3 DEF PairInv
    <3> HIDE DEF Reported
    <3> QED
      BY <3>1
  <2> QED
    BY <2>4 DEF LegTypes, ProbeTypeOK
<1> QED
  BY <1>1, <1>2, LegTypesStep, HeadersInvKept, PairInvInitially, PairInvStep, PTL DEF ProbeSpec

(* Identities are issued one by one, and none is carried before it is.     *)
CarriedInv ==
    /\ \E s \in Scenarios : job = s.job /\ target = s.target
    /\ test <= Len(job) + 1
    /\ suppress \in BOOLEAN
    /\ session \in Identities /\ Told \in Identities
    /\ \A n \in RequestNumbers :
          sent[n].told \in Identities /\ sent[n].carried \in Identities \cup {Static}

LEMMA CarriedInvStep == SessionInv /\ CarriedInv /\ [JobNext]_jobVars => CarriedInv'
<1> SUFFICES ASSUME SessionInv, CarriedInv, [JobNext]_jobVars
             PROVE  CarriedInv'
  OBVIOUS
<1>0. issued \in Nat /\ HereInv /\ test \in Nat \ {0} /\ Len(job) \in Nat
  BY DEF SessionInv, HereInv, JobInv
<1>1. job' = job /\ target' = target
  BY DEF JobNext, jobVars, vars, ModelTurns, ModelTurnNext, BeginTest, SendStep, Reply, NextStep,
         NoReply, EndTest, StepRaises, TestOver, BeginSurfaceProbe, GetPath, EndSurfaceProbe, SurfaceProbeRaises,
         BeginEnforcementProbe, ReferenceUnresolved, ProbeGoesOn, EndEnforcementProbe, JobOver
<1>2. test' <= Len(job) + 1
  <2>1. CASE EndTest \/ StepRaises \/ EndSurfaceProbe \/ SurfaceProbeRaises \/ EndEnforcementProbe
    <3>1. test' = test + 1 /\ at # "between"
      BY <2>1 DEF EndTest, StepRaises, EndSurfaceProbe, SurfaceProbeRaises, EndEnforcementProbe, TestOver
    <3> QED
      BY <1>0, <3>1 DEF HereInv
  <2>2. CASE ReferenceUnresolved
    <3>1. test' = test + 1 /\ test <= Len(job)
      BY <2>2 DEF ReferenceUnresolved, IsNext, TestOver
    <3> QED
      BY <1>0, <3>1
  <2>3. CASE ~(EndTest \/ StepRaises \/ EndSurfaceProbe \/ SurfaceProbeRaises \/ EndEnforcementProbe \/ ReferenceUnresolved)
    <3>1. test' = test
      BY <2>3 DEF JobNext, jobVars, vars, ModelTurns, ModelTurnNext, BeginTest, SendStep, Reply,
           NextStep, NoReply, BeginSurfaceProbe, GetPath, BeginEnforcementProbe, ProbeGoesOn,
           JobOver
    <3> QED
      BY <3>1 DEF CarriedInv
  <2> QED
    BY <2>1, <2>2, <2>3
<1>3. suppress' \in BOOLEAN
  <2>1. suppress' = suppress \/ suppress' = TRUE
    BY DEF JobNext, jobVars, vars, ModelTurns, ModelTurnNext, BeginTest, SendStep, Reply,
           NextStep, NoReply, Reset, EndTest, StepRaises, TestOver, BeginSurfaceProbe, GetPath,
           EndSurfaceProbe, SurfaceProbeRaises, BeginEnforcementProbe, ReferenceUnresolved, ProbeGoesOn,
           EndEnforcementProbe, JobOver, sessionVars
  <2> QED
    BY <2>1 DEF CarriedInv
<1>4. Identities \subseteq Identities' /\ session' \in Identities'
  <2>1. \/ issued' \in {issued, issued + 1} /\ session' \in {session, NoIdentity}
        \/ issued' = issued + 1 /\ session' = issued + 1
    <3>1. CASE Reply
      BY <1>0, <3>1 DEF Reply, Issues, TellsIdentity, Answers
    <3>2. CASE ~Reply
      BY <3>2 DEF JobNext, jobVars, vars, ModelTurns, ModelTurnNext, BeginTest, SendStep, NextStep,
           NoReply, Reset, EndTest, StepRaises, TestOver, BeginSurfaceProbe, GetPath,
           EndSurfaceProbe, SurfaceProbeRaises, BeginEnforcementProbe, ReferenceUnresolved, ProbeGoesOn,
           EndEnforcementProbe, JobOver, sessionVars
    <3> QED
      BY <3>1, <3>2
  <2> QED
    BY <1>0, <2>1 DEF CarriedInv, Identities
<1>5. \A n \in RequestNumbers' :
          sent'[n].told \in Identities' /\ sent'[n].carried \in Identities' \cup {Static}
  <2>1. CASE sent' = sent
    BY <1>4, <2>1 DEF CarriedInv, RequestNumbers
  <2>2. CASE sent' # sent
    <3>1. PICK c \in {session, Static, NoIdentity} :
                 /\ RequestNumbers' = RequestNumbers \cup {Len(sent) + 1}
                 /\ \A n \in RequestNumbers : sent'[n] = sent[n]
                 /\ sent'[Len(sent) + 1].carried = c /\ sent'[Len(sent) + 1].told = Told
      BY <2>2, NewRequest
    <3>2. c \in Identities' \cup {Static}
      BY <1>4 DEF CarriedInv, Identities
    <3>3. Told \in Identities'
      BY <1>4 DEF CarriedInv
    <3> QED
      BY <1>4, <3>1, <3>2, <3>3 DEF CarriedInv
  <2> QED
    BY <2>1, <2>2
<1>6. Told' \in Identities'
  <2>1. CASE Reply
    <3>1. PICK b \in Replies[target] : body' = b /\ issued' = issued + Issues(b)
      BY <2>1 DEF Reply
    <3>2. Told' # NoIdentity => b.shape = "object" /\ b.identity /\ Told' = issued'
      BY <3>1, Zenon DEF Told, Answers
    <3>3. Told' # NoIdentity => issued' = issued + 1 /\ Told' = issued'
      BY <3>1, <3>2 DEF Issues
    <3> QED
      BY <1>0, <3>3 DEF Identities
  <2>2. CASE body' = NoBody
    BY <2>2 DEF Told, Identities
  <2>3. CASE body' = body /\ issued' = issued
    BY <2>3 DEF Told, CarriedInv, Identities
  <2> QED
    BY <2>1, <2>2, <2>3
    DEF JobNext, jobVars, vars, ModelTurns, ModelTurnNext, BeginTest, SendStep, NextStep, NoReply,
        EndTest, StepRaises, TestOver, BeginSurfaceProbe, GetPath, EndSurfaceProbe,
        SurfaceProbeRaises, BeginEnforcementProbe, ReferenceUnresolved, ProbeGoesOn,
        EndEnforcementProbe, JobOver, NoEvidence, evidence, sessionVars
<1> QED
  BY <1>1, <1>2, <1>3, <1>4, <1>5, <1>6 DEF CarriedInv

(* The state of a job stays within its types: every identity carried was   *)
(* issued by then, and no test is run that the job does not have.          *)
THEOREM TypeCorrect == JobSpec => []JobTypeOK
<1>1. JobInit => CarriedInv
  <2> SUFFICES ASSUME JobInit PROVE CarriedInv
    OBVIOUS
  <2>1. PICK s \in Scenarios : job = s.job /\ target = s.target
    BY DEF JobInit, Init
  <2>2. Len(job) \in Nat
    BY <2>1, JobAssumption
  <2>3. test <= Len(job) + 1
    BY <2>2 DEF JobInit, Init
  <2>4. suppress \in BOOLEAN
    BY DEF JobInit, Init
  <2>5. session \in Identities /\ Told \in Identities
    BY DEF JobInit, Init, Identities, Told
  <2>6. RequestNumbers = {}
    BY DEF JobInit, Init, RequestNumbers
  <2> QED
    BY <2>1, <2>3, <2>4, <2>5, <2>6 DEF CarriedInv
<1>2. ResultsInv /\ CarriedInv => TypeOK
  <2> SUFFICES ASSUME ResultsInv, CarriedInv PROVE TypeOK
    OBVIOUS
  <2>1. /\ HereInv /\ SentInv /\ LengthInv /\ JobInv
        /\ test \in Nat \ {0} /\ Len(job) \in Nat /\ Len(results) \in Nat
    BY DEF ResultsInv, SessionInv, JobInv, LengthInv
  <2>2. sent \in Seq(Requests)
    <3>1. sent \in Seq(AnyRequest) /\ RequestNumbers = 1 .. Len(sent)
      BY <2>1 DEF SentInv, RequestNumbers
    <3>2. \A r \in AnyRequest :
              r.told \in Identities /\ r.carried \in Identities \cup {Static} => r \in Requests
      BY DEF AnyRequest, Requests
    <3>3. \A n \in 1 .. Len(sent) : sent[n] \in Requests
      BY <3>1, <3>2 DEF CarriedInv
    <3> QED
      BY <3>1, <3>3
  <2>3. test \in 1 .. Len(job) + 1 /\ Len(results) < test
    BY <2>1 DEF CarriedInv, LengthInv
  <2>4. at \in TestPlaces /\ step \in Nat /\ issued \in Nat
    BY <2>1 DEF HereInv
  <2>5. results \in Seq([reported : Nat, error : BOOLEAN, asserted : BOOLEAN])
    BY <2>1 DEF LengthInv, AnyResult
  <2>6. resetRan \in BOOLEAN
    BY <2>1 DEF LengthInv
  <2> QED
    BY <2>2, <2>3, <2>4, <2>5, <2>6 DEF TypeOK, CarriedInv, TestPlaces
<1>3. TypeOK /\ ProbeTypeOK => JobTypeOK
  BY DEF JobTypeOK
<1>4. ResultsInv => SessionInv
  BY DEF ResultsInv
<1> QED
  BY <1>1, <1>2, <1>3, <1>4, CarriedInvStep, ResultsInvariant, ProbeTypes, JobMakesProbes, PTL
  DEF JobSpec
=============================================================================
