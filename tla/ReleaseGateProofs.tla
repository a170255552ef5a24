-------------------------- MODULE ReleaseGateProofs --------------------------
(* Theorems about ReleaseGate, for any number of edits. *)
EXTENDS ReleaseGate, TLAPS

(* What a build publishes: the code of its sdist, guarded, in its wheel. *)
RecordFit(made) ==
    \A d \in Distributions :
        made[d].wheel = made[d].code /\ made[d].wheel # "unfit" /\ made[d].text # "unfit"

Types ==
    /\ build \in Builds
    /\ tree \in [Distributions -> Trees] /\ stage \in [Distributions -> Trees]
    /\ built \in [Distributions -> Artifacts]
    /\ records \in [Builds -> [Distributions -> Artifacts]]

(* A stage is guarded once it is complete, and not touched until the next. *)
StageInv ==
    /\ step \in {"scan runner", "copy runner code", "copy runner texts", "guard runner"} =>
          Fit(stage["protocol"])
    /\ step \in Building => \A d \in Distributions : Fit(stage[d])

ArtifactInv ==
    /\ step \in {"guard runner artifacts", "publish"} => ArtifactsFit("protocol")
    /\ step = "publish" => ArtifactsFit("runner")

RecordInv ==
    /\ build = "second" => RecordFit(records["first"])
    /\ step \in {"compare", "install", "passed"} =>
          build = "second" /\ RecordFit(records["second"])
    /\ step \in {"install", "passed"} => records["first"] = records["second"]

GuardedInv == Types /\ StageInv /\ ArtifactInv /\ RecordInv

-----------------------------------------------------------------------------

LEMMA GuardedInvInitially == Init => GuardedInv
  <1> SUFFICES ASSUME Init PROVE GuardedInv
    OBVIOUS
  <1>1. Types
    <2>1. /\ tree \in [Distributions -> {t \in Trees : t.code # "v2" /\ t.text # "v2"}]
          /\ build = "first"
          /\ stage = [d \in Distributions |-> NoTree]
          /\ built = [d \in Distributions |-> NoArtifacts]
          /\ records = [b \in Builds |-> [d \in Distributions |-> NoArtifacts]]
      BY Zenon DEF Init
    <2>2. NoTree \in Trees /\ NoArtifacts \in Artifacts
      BY DEF Trees, Artifacts, NoTree, NoArtifacts, Contents, Versions
    <2> QED
      BY <2>1, <2>2 DEF Types, Builds
  <1>2. StageInv /\ ArtifactInv /\ RecordInv
    BY DEF Init, StageInv, ArtifactInv, RecordInv, Building
  <1> QED
    BY <1>1, <1>2 DEF GuardedInv

LEMMA TypesKept == Types /\ [Next]_vars => Types'
  <1> SUFFICES ASSUME Types, [Next]_vars PROVE Types'
    OBVIOUS
  <1> USE DEF Types
  <1>1. CASE Edit
    BY <1>1 DEF Edit, Distributions, Trees
  <1>2. CASE GateFails
    BY <1>2 DEF GateFails
  <1>3. CASE CopyProtocol
    <2>1. /\ tree["protocol"] \in Trees /\ stage["protocol"] \in Trees
          /\ UNCHANGED <<build, tree, built, records>>
      BY <1>3 DEF CopyProtocol, Proceed, Stage, Distributions
    <2>2. \E copied \in Trees : stage' = [stage EXCEPT !["protocol"] = copied]
      BY <1>3, <2>1 DEF CopyProtocol, Stage, Trees
    <2> QED
      BY <2>1, <2>2
  <1>4. CASE StageRunner
    <2>1. /\ tree["runner"] \in Trees /\ stage["runner"] \in Trees
          /\ UNCHANGED <<build, tree, built, records>>
      BY <1>4 DEF StageRunner, Proceed, Stage, Distributions
    <2>2. \E copied \in Trees : stage' = [stage EXCEPT !["runner"] = copied]
      BY <1>4, <2>1 DEF StageRunner, Stage, Trees
    <2> QED
      BY <2>1, <2>2
  <1>5. CASE GuardSource
    BY <1>5 DEF GuardSource, Proceed
  <1>6. CASE UvBuild
    <2>1. PICK d \in Distributions : Build(d)
      BY <1>6 DEF UvBuild, Distributions
    <2>2. Made(stage[d]) \subseteq Artifacts
      <3>1. stage[d] \in Trees
        OBVIOUS
      <3> DEFINE faithful == [wheel |-> stage[d].code, code |-> stage[d].code,
                              text |-> stage[d].text, version |-> stage[d].version]
      <3>2. \A c \in Contents :
               /\ [faithful EXCEPT !.wheel = c] \in Artifacts
               /\ [faithful EXCEPT !.code = c] \in Artifacts
               /\ [faithful EXCEPT !.text = c] \in Artifacts
        BY <3>1 DEF Artifacts, Trees
      <3> QED
        BY <3>2 DEF Made
    <2>3. built' \in [Distributions -> Artifacts]
      BY <2>1, <2>2 DEF Build
    <2> QED
      BY <1>6, <2>1, <2>3 DEF UvBuild, Proceed, Build
  <1>7. CASE GuardArtifacts
    BY <1>7 DEF GuardArtifacts, Proceed
  <1>8. CASE Publish
    BY <1>8 DEF Publish, Builds
  <1>9. CASE Compare
    BY <1>9 DEF Compare, Proceed
  <1>10. CASE CleanInstall
    BY <1>10 DEF CleanInstall
  <1>11. CASE UNCHANGED vars
    BY <1>11 DEF vars
  <1> QED
    BY <1>1, <1>2, <1>3, <1>4, <1>5, <1>6, <1>7, <1>8, <1>9, <1>10, <1>11 DEF Next, Gate

LEMMA GuardedInvKept == GuardedInv /\ [Next]_vars => GuardedInv'
  <1> SUFFICES ASSUME GuardedInv, [Next]_vars PROVE (StageInv /\ ArtifactInv /\ RecordInv)'
    BY TypesKept DEF GuardedInv
  <1> USE DEF GuardedInv
  <1>1. CASE Edit
    BY <1>1 DEF Edit, StageInv, ArtifactInv, RecordInv, ArtifactsFit
  <1>2. CASE GateFails
    BY <1>2 DEF GateFails, StageInv, ArtifactInv, RecordInv, Building
  <1>3. CASE CopyProtocol
    BY <1>3 DEF CopyProtocol, Proceed, StageInv, ArtifactInv, RecordInv, Building
  <1>4. CASE StageRunner
    <2>1. stage'["protocol"] = stage["protocol"]
      BY <1>4 DEF StageRunner, Stage, Types, Distributions
    <2> QED
      BY <1>4, <2>1 DEF StageRunner, Proceed, StageInv, ArtifactInv, RecordInv, Building
  <1>5. CASE GuardSource
    BY <1>5 DEF GuardSource, Proceed, StageInv, ArtifactInv, RecordInv, Building, Distributions
  <1>6. CASE UvBuild
    BY <1>6 DEF UvBuild, Build, Proceed, StageInv, ArtifactInv, RecordInv, Building
  <1>7. CASE GuardArtifacts
    BY <1>7 DEF GuardArtifacts, Proceed, StageInv, ArtifactInv, RecordInv, Building, ArtifactsFit
  <1>8. CASE Publish
    <2>1. RecordFit(built)
      BY <1>8 DEF Publish, StageInv, ArtifactInv, RecordFit, Building, ArtifactsFit, Fit,
                  WheelFit, SdistFit, Distributions
    <2>2. records' = [records EXCEPT ![build] = built] /\ build' = "second"
      BY <1>8 DEF Publish
    <2>3. CASE build = "first"
      <3>1. records'["first"] = built
        BY <2>2, <2>3 DEF Types, Builds
      <3>2. step' = "copy protocol texts"
        BY <1>8, <2>3 DEF Publish
      <3> QED
        BY <2>1, <2>2, <3>1, <3>2 DEF StageInv, ArtifactInv, RecordInv, Building
    <2>4. CASE build = "second"
      <3>1. records'["first"] = records["first"] /\ records'["second"] = built
        BY <2>2, <2>4 DEF Types, Builds
      <3>2. step' = "compare"
        BY <1>8, <2>4 DEF Publish
      <3> QED
        BY <2>1, <2>2, <2>4, <3>1, <3>2 DEF StageInv, ArtifactInv, RecordInv, Building
    <2> QED
      BY <2>3, <2>4 DEF Types, Builds
  <1>9. CASE Compare
    BY <1>9 DEF Compare, Proceed, StageInv, ArtifactInv, RecordInv, Building
  <1>10. CASE CleanInstall
    BY <1>10 DEF CleanInstall, StageInv, ArtifactInv, RecordInv, Building
  <1>11. CASE UNCHANGED vars
    BY <1>11 DEF vars, StageInv, ArtifactInv, RecordInv, ArtifactsFit
  <1> QED
    BY <1>1, <1>2, <1>3, <1>4, <1>5, <1>6, <1>7, <1>8, <1>9, <1>10, <1>11 DEF Next, Gate

LEMMA GuardedInvGivesSafety == GuardedInv => OnlyGuardedIsReleased
  <1> SUFFICES ASSUME GuardedInv PROVE OnlyGuardedIsReleased
    OBVIOUS
  <1>1. step \in Building => \A d \in Distributions : Fit(stage[d])
    BY DEF GuardedInv, StageInv
  <1>2. ASSUME step = "passed", NEW d \in Distributions, NEW a \in Builds, NEW b \in Builds
        PROVE  /\ records[a][d].wheel = records[b][d].code
               /\ records[a][d].wheel # "unfit" /\ records[a][d].text # "unfit"
    <2>1. records[a] = records["second"] /\ records[b] = records["second"]
      BY <1>2 DEF GuardedInv, RecordInv, Builds
    <2>2. RecordFit(records["second"])
      BY <1>2 DEF GuardedInv, RecordInv
    <2> QED
      BY <2>1, <2>2 DEF RecordFit
  <1> QED
    BY <1>1, <1>2 DEF OnlyGuardedIsReleased

(* Whatever is edited while the release gate runs, and however often, only *)
(* guarded sources are built, and only fit artifacts that agree released.  *)
THEOREM OnlyGuardedReleases == Spec => []OnlyGuardedIsReleased
  <1>1. Spec => []GuardedInv
    BY GuardedInvInitially, GuardedInvKept, PTL DEF Spec
  <1> QED
    BY <1>1, GuardedInvGivesSafety, PTL

-----------------------------------------------------------------------------

(* Before the first release is published there are only wheels of earlier  *)
(* ones; after that its wheel is the only one of its version and the only   *)
(* new one.  A gate that passed has installed one wheel of each directory. *)
OutputInv ==
    /\ build \in Builds
    /\ output \in [Builds -> [Distributions -> SUBSET Wheels]]
    /\ records \in [Builds -> [Distributions -> Artifacts]]
    /\ build = "first" =>
          \A d \in Distributions : \A w \in output["first"][d] : w.stale = TRUE
    /\ build = "second" =>
          \A d \in Distributions : \A w \in output["first"][d] :
              w.version = records["first"][d].version \/ w.stale # TRUE =>
                  w = Fresh(d, records["first"])
    /\ step \in {"compare", "install", "passed"} => build = "second"
    /\ step \in {"install", "passed"} => records["first"] = records["second"]
    /\ step = "passed" =>
          \E p \in output["first"]["protocol"], r \in output["first"]["runner"] :
              /\ p.version = "expected" /\ Prints(r.code) = "expected"
              /\ installed = [protocol |-> {p}, runner |-> {r}]

LEMMA OutputInvInitially == Init => OutputInv
  <1> SUFFICES ASSUME Init PROVE OutputInv
    OBVIOUS
  <1>1. PICK left \in [Distributions -> SUBSET Leftovers] :
            output = [first |-> left, second |-> [d \in Distributions |-> {}]]
    BY Zenon DEF Init
  <1>2. Leftovers \subseteq Wheels /\ \A w \in Leftovers : w.stale = TRUE
    BY DEF Leftovers, Wheels, Contents
  <1>3. left \in [Distributions -> SUBSET Wheels]
    BY <1>1, <1>2
  <1>4. output \in [Builds -> [Distributions -> SUBSET Wheels]]
    BY <1>1, <1>3 DEF Builds
  <1>6. \A d \in Distributions : \A w \in output["first"][d] : w.stale = TRUE
    BY <1>1, <1>2
  <1>5. records \in [Builds -> [Distributions -> Artifacts]]
    <2>1. records = [b \in Builds |-> [d \in Distributions |-> NoArtifacts]]
      BY Zenon DEF Init
    <2> QED
      BY <2>1 DEF Artifacts, NoArtifacts, Contents, Versions
  <1>7. build = "first" /\ step = "copy protocol texts"
    BY Zenon DEF Init
  <1> QED
    BY <1>4, <1>5, <1>6, <1>7 DEF OutputInv, Builds

LEMMA OutputInvKept == Types /\ OutputInv /\ [Next]_vars => OutputInv'
  <1> SUFFICES ASSUME Types, OutputInv, [Next]_vars PROVE OutputInv'
    OBVIOUS
  <1> USE DEF OutputInv
  <1>1. CASE Edit \/ GateFails
    BY <1>1 DEF Edit, GateFails, Over
  <1>2. CASE CopyProtocol \/ StageRunner \/ GuardSource \/ UvBuild \/ GuardArtifacts
    BY <1>2 DEF CopyProtocol, StageRunner, GuardSource, UvBuild, GuardArtifacts, Proceed
  <1>3. CASE Publish
    <2> DEFINE Kept(d) == {w \in output[build][d] : w.version # built[d].version}
               published == [d \in Distributions |-> Kept(d) \cup {Fresh(d, built)}]
    <2>1. /\ output' = [output EXCEPT ![build] = published]
          /\ records' = [records EXCEPT ![build] = built]
          /\ build' = "second"
          /\ step' = IF build = "first" THEN "copy protocol texts" ELSE "compare"
      BY <1>3 DEF Publish
    <2>2. \A d \in Distributions : Fresh(d, built) \in Wheels
      BY DEF Fresh, Wheel, Wheels, Types, Artifacts
    <2>3. published \in [Distributions -> SUBSET Wheels]
      BY <2>2
    <2>4. /\ output' \in [Builds -> [Distributions -> SUBSET Wheels]]
          /\ records' \in [Builds -> [Distributions -> Artifacts]]
      BY <2>1, <2>3 DEF Types
    <2>5. \A d \in Distributions : \A w \in output'["first"][d] :
              w.version = records'["first"][d].version \/ w.stale # TRUE =>
                  w = Fresh(d, records'["first"])
      <3>1. CASE build = "first"
        <4>1. output'["first"] = published /\ records'["first"] = built
          BY <2>1, <3>1 DEF Builds
        <4>2. \A d \in Distributions : \A w \in published[d] :
                  w.version = built[d].version \/ w.stale # TRUE => w = Fresh(d, built)
          BY <3>1
        <4> QED
          BY <4>1, <4>2
      <3>2. CASE build = "second"
        <4>1. output'["first"] = output["first"] /\ records'["first"] = records["first"]
          BY <2>1, <3>2 DEF Builds
        <4> QED
          BY <4>1, <3>2 DEF Fresh
      <3> QED
        BY <3>1, <3>2 DEF Builds
    <2> QED
      BY <2>1, <2>4, <2>5 DEF Builds
  <1>4. CASE Compare
    BY <1>4 DEF Compare, Proceed
  <1>5. CASE CleanInstall
    <2>1. PICK p \in output["first"]["protocol"], r \in output["first"]["runner"] :
              /\ p.version = "expected" /\ Prints(r.code) = "expected"
              /\ installed' = [protocol |-> {p}, runner |-> {r}]
      BY <1>5 DEF CleanInstall
    <2> QED
      BY <1>5, <2>1 DEF CleanInstall
  <1>6. CASE UNCHANGED vars
    BY <1>6 DEF vars
  <1> QED
    BY <1>1, <1>2, <1>3, <1>4, <1>5, <1>6 DEF Next, Gate

(* A release gate that passed has installed the protocol that it published, *)
(* if that has the expected version, and the runner that it published, if   *)
(* no runner of an earlier release prints the version of this one.         *)
THEOREM InstallsTheRelease == Spec => []InstalledIsReleased
  <1>1. Init => Types
    BY GuardedInvInitially DEF GuardedInv
  <1>2. Spec => [](Types /\ OutputInv)
    BY <1>1, TypesKept, OutputInvInitially, OutputInvKept, PTL DEF Spec
  <1>3. OutputInv => InstalledIsReleased
    <2> SUFFICES ASSUME OutputInv, step = "passed"
                 PROVE  InstalledIsReleased
      BY DEF InstalledIsReleased
    <2>1. PICK p \in output["first"]["protocol"], r \in output["first"]["runner"] :
              /\ p.version = "expected" /\ Prints(r.code) = "expected"
              /\ installed = [protocol |-> {p}, runner |-> {r}]
      BY DEF OutputInv
    <2>2. records["first"] = records["second"] /\ build = "second"
      BY DEF OutputInv
    <2>3. /\ p.version = records["first"]["protocol"].version => p = Fresh("protocol", records["first"])
          /\ r.stale # TRUE => r = Fresh("runner", records["first"])
      BY <2>2 DEF OutputInv, Distributions
    <2>4. ASSUME \A w \in output["first"]["runner"] : w.stale => Prints(w.code) # "expected"
          PROVE  r.stale # TRUE
      BY <2>1, <2>4, Zenon
    <2> HIDE DEF Prints
    <2> QED
      BY <2>1, <2>2, <2>3, <2>4 DEF InstalledIsReleased
  <1> QED
    BY <1>2, <1>3, PTL

LEMMA InstalledTypesKept ==
    ReleaseTypeOK /\ Types /\ OutputInv /\ [Next]_vars /\ (Types /\ OutputInv)' => ReleaseTypeOK'
  <1> SUFFICES ASSUME ReleaseTypeOK, OutputInv, [Next]_vars, Types', OutputInv'
               PROVE  ReleaseTypeOK'
    OBVIOUS
  <1>1. edits' \in 0 .. MaxEdits
    <2>1. CASE Edit
      <3>1. edits < MaxEdits /\ edits' = edits + 1
        BY <2>1 DEF Edit
      <3> QED
        BY <3>1, ReleaseAssumption DEF ReleaseTypeOK
    <2>2. CASE ~Edit
      <3>1. edits' = edits
        BY <2>2 DEF Next, vars, GateFails, Gate, CopyProtocol, StageRunner, GuardSource, UvBuild,
                    GuardArtifacts, Proceed, Publish, Compare, CleanInstall
      <3> QED
        BY <3>1 DEF ReleaseTypeOK
    <2> QED
      BY <2>1, <2>2
  <1>2. step' \in Steps
    BY DEF Next, vars, Edit, GateFails, Gate, CopyProtocol, StageRunner, GuardSource, UvBuild,
           GuardArtifacts, Proceed, Publish, Compare, CleanInstall, ReleaseTypeOK, Steps
  <1>3. installed' \in [Distributions -> SUBSET Wheels]
    <2>1. CASE CleanInstall
      BY <2>1 DEF CleanInstall, OutputInv, Builds, Distributions
    <2>2. CASE ~CleanInstall
      BY <2>2 DEF Next, vars, Edit, GateFails, Gate, CopyProtocol, StageRunner, GuardSource,
                  UvBuild, GuardArtifacts, Proceed, Publish, Compare, ReleaseTypeOK
    <2> QED
      BY <2>1, <2>2
  <1> QED
    BY <1>1, <1>2, <1>3 DEF Types, OutputInv, ReleaseTypeOK

(* Trees, stages, builds and directories stay within their types, whatever *)
(* the build tools make.                                                   *)
THEOREM TypeCorrect == Spec => []ReleaseTypeOK
  <1>1. Init => Types /\ OutputInv
    BY GuardedInvInitially, OutputInvInitially DEF GuardedInv
  <1>2. Init => ReleaseTypeOK
    <2> SUFFICES ASSUME Init PROVE ReleaseTypeOK
      OBVIOUS
    <2>1. edits \in 0 .. MaxEdits
      <3>1. edits = 0
        BY DEF Init
      <3> QED
        BY <3>1, ReleaseAssumption
    <2>2. step \in Steps
      BY DEF Init, Steps
    <2>3. installed \in [Distributions -> SUBSET Wheels]
      BY DEF Init
    <2> QED
      BY <1>1, <2>1, <2>2, <2>3 DEF Types, OutputInv, ReleaseTypeOK
  <1> QED
    BY <1>1, <1>2, TypesKept, OutputInvKept, InstalledTypesKept, PTL DEF Spec
=============================================================================
