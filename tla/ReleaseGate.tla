----------------------------- MODULE ReleaseGate -----------------------------
(***************************************************************************)
(* "release_gate.py all" (scripts/release_gate.py, with the guard of       *)
(* scripts/export_guard.py): the two distributions are staged from the     *)
(* working tree, guarded, built, guarded again and published to a          *)
(* directory, twice; the two releases are compared, and the first one is   *)
(* installed.  Meanwhile the working tree may be edited, and the build     *)
(* tools may produce anything.                                             *)
(***************************************************************************)
EXTENDS Naturals

CONSTANTS
    MaxEdits,       \* bound: edits of the working tree
    CurrentCode     \* contents of a package whose __version__ is the expected one

ASSUME ReleaseAssumption == MaxEdits \in Nat

VARIABLES
    tree,           \* the working tree of each distribution
    edits,          \* edits so far
    build,          \* the build at hand
    step,           \* where the gate is
    stage,          \* what it copied of each tree
    built,          \* what the build tool made of each stage
    output,         \* the wheels in the output directory of each build
    records,        \* the manifests of each build
    installed       \* the wheel installed of each distribution

vars == <<tree, edits, build, step, stage, built, output, records, installed>>

Distributions == {"protocol", "runner"}
Builds == {"first", "second"}

(* Contents differ, or have something that the guard refuses: a secret, a  *)
(* private host or import, a path that the allowlist does not name.        *)
Contents == {"v1", "v2", "unfit"}

(* The version that the gate read when it started or has written into it,  *)
(* and any other: that of pyproject.toml and of a wheel's name.  What the   *)
(* installed program prints is a constant of its code.                     *)
Versions == {"expected", "other"}

Prints(code) == IF code \in CurrentCode THEN "expected" ELSE "other"

(* The Python files of the package, the other files, and pyproject.toml. *)
Trees == [code : Contents, text : Contents, version : Versions]
NoTree == [code |-> "v1", text |-> "v1", version |-> "expected"]

(* What a wheel holds, and what an sdist holds. *)
Artifacts == [wheel : Contents, code : Contents, text : Contents, version : Versions]
NoArtifacts == [wheel |-> "v1", code |-> "v1", text |-> "v1", version |-> "expected"]

Wheel(code, version, stale) == [code |-> code, version |-> version, stale |-> stale]
Wheels == [code : Contents, version : Versions, stale : BOOLEAN]

Steps ==
    {"copy protocol texts", "copy protocol code", "guard protocol",
     "scan runner", "copy runner code", "copy runner texts", "guard runner",
     "build protocol", "build runner", "guard protocol artifacts", "guard runner artifacts",
     "publish", "compare", "install", "passed", "failed"}

ReleaseTypeOK ==
    /\ tree \in [Distributions -> Trees] /\ edits \in 0 .. MaxEdits
    /\ build \in Builds /\ step \in Steps
    /\ stage \in [Distributions -> Trees]
    /\ built \in [Distributions -> Artifacts]
    /\ output \in [Builds -> [Distributions -> SUBSET Wheels]]
    /\ records \in [Builds -> [Distributions -> Artifacts]]
    /\ installed \in [Distributions -> SUBSET Wheels]

(* Nobody empties the output directory: wheels of earlier releases may be   *)
(* in it, one of each version.                                             *)
Leftovers == [code : {"v1", "v2"}, version : Versions, stale : {TRUE}]

(* The gate takes the version of the runner from its tree.                 *)
Init ==
    /\ tree \in [Distributions -> {t \in Trees : t.code # "v2" /\ t.text # "v2"}]
    /\ tree["runner"].version = "expected"
    /\ edits = 0 /\ build = "first" /\ step = "copy protocol texts"
    /\ stage = [d \in Distributions |-> NoTree]
    /\ built = [d \in Distributions |-> NoArtifacts]
    /\ \E left \in [Distributions -> SUBSET Leftovers] :
          /\ \A d \in Distributions :
                \A a, b \in left[d] : a.version = b.version => a = b
          /\ output = [first |-> left, second |-> [d \in Distributions |-> {}]]
    /\ records = [b \in Builds |-> [d \in Distributions |-> NoArtifacts]]
    /\ installed = [d \in Distributions |-> {}]

Over == step \in {"passed", "failed"}

-----------------------------------------------------------------------------
(* The environment.                                                        *)

Edit ==
    /\ ~Over /\ edits < MaxEdits
    /\ edits' = edits + 1
    /\ \E d \in Distributions :
          \/ \E c \in Contents : tree' = [tree EXCEPT ![d].code = c]
          \/ \E c \in Contents : tree' = [tree EXCEPT ![d].text = c]
          \/ \E v \in Versions : tree' = [tree EXCEPT ![d].version = v]
    /\ UNCHANGED <<build, step, stage, built, output, records, installed>>

(* A command fails, a file is missing or cannot be written, a build does   *)
(* not produce exactly one wheel and one sdist, or the stage does not pin  *)
(* the protocol.                                                           *)
GateFails ==
    /\ ~Over
    /\ step' = "failed"
    /\ UNCHANGED <<tree, edits, build, stage, built, output, records, installed>>

-----------------------------------------------------------------------------
(* Staging.                                                                *)

Proceed(from, to) ==
    /\ step = from /\ step' = to
    /\ UNCHANGED <<tree, edits, build, output, records, installed>>

Stage(d, copied) == stage' = [stage EXCEPT ![d] = copied] /\ UNCHANGED built

(* copy_protocol copies file by file and looks at no content. *)
CopyProtocol ==
    \/ /\ Proceed("copy protocol texts", "copy protocol code")
       /\ Stage("protocol", [tree["protocol"] EXCEPT !.code = stage["protocol"].code])
    \/ /\ Proceed("copy protocol code", "guard protocol")
       /\ Stage("protocol", [stage["protocol"] EXCEPT !.code = tree["protocol"].code])

Fit(t) == t.code # "unfit" /\ t.text # "unfit"

(* Every file is read and scanned; pyproject.toml is written as it was     *)
(* read, the others are copied from the tree as it is by then.             *)
StageRunner ==
    \/ /\ Fit(tree["runner"])
       /\ Proceed("scan runner", "copy runner code")
       /\ Stage("runner", [stage["runner"] EXCEPT !.version = tree["runner"].version])
    \/ /\ Proceed("copy runner code", "copy runner texts")
       /\ Stage("runner", [stage["runner"] EXCEPT !.code = tree["runner"].code])
    \/ /\ Proceed("copy runner texts", "guard runner")
       /\ Stage("runner", [stage["runner"] EXCEPT !.text = tree["runner"].text])

\* Faulty: the stage of the runner is taken for what was scanned.
GuardSourceProtocolOnly ==
    /\ \/ Fit(stage["protocol"]) /\ Proceed("guard protocol", "scan runner")
       \/ Proceed("guard runner", "build protocol")
    /\ UNCHANGED <<stage, built>>

GuardSource ==
    /\ \/ Fit(stage["protocol"]) /\ Proceed("guard protocol", "scan runner")
       \/ Fit(stage["runner"]) /\ Proceed("guard runner", "build protocol")
    /\ UNCHANGED <<stage, built>>

-----------------------------------------------------------------------------
(* Building.                                                               *)

(* A build is faithful to its stage, or one of its parts is not. *)
Made(t) ==
    LET faithful == [wheel |-> t.code, code |-> t.code, text |-> t.text, version |-> t.version]
    IN  {[faithful EXCEPT !.wheel = c] : c \in Contents}
            \cup {[faithful EXCEPT !.code = c] : c \in Contents}
            \cup {[faithful EXCEPT !.text = c] : c \in Contents}

Build(d) == built' \in {[built EXCEPT ![d] = a] : a \in Made(stage[d])} /\ UNCHANGED stage

UvBuild ==
    \/ Proceed("build protocol", "build runner") /\ Build("protocol")
    \/ Proceed("build runner", "guard protocol artifacts") /\ Build("runner")

(* A wheel holds the package of the stage and its metadata, nothing else. *)
WheelFit(made, source) == made.wheel = source.code

(* So does an sdist, whose other files are scanned and not compared. *)
SdistFit(made, source) == made.code = source.code /\ made.text # "unfit"

ArtifactsFit(d) ==
    Fit(stage[d]) /\ WheelFit(built[d], stage[d]) /\ SdistFit(built[d], stage[d])

GuardArtifacts ==
    /\ \/ /\ ArtifactsFit("protocol")
          /\ Proceed("guard protocol artifacts", "guard runner artifacts")
       \/ /\ ArtifactsFit("runner")
          /\ Proceed("guard runner artifacts", "publish")
    /\ UNCHANGED <<stage, built>>

Fresh(d, made) == Wheel(made[d].wheel, made[d].version, FALSE)

(* A wheel has its version in its name and replaces one of that name. *)
Publish ==
    /\ step = "publish"
    /\ output' = [output EXCEPT ![build] = [d \in Distributions |->
                     {w \in @[d] : w.version # built[d].version} \cup {Fresh(d, built)}]]
    /\ records' = [records EXCEPT ![build] = built]
    /\ build' = "second"
    /\ step' = IF build = "first" THEN "copy protocol texts" ELSE "compare"
    /\ UNCHANGED <<tree, edits, stage, built, installed>>

(* The scratch directory goes with the build; digests are not compared. *)
Compare ==
    /\ records["first"] = records["second"]
    /\ Proceed("compare", "install")
    /\ UNCHANGED <<stage, built>>

\* Faulty: what was installed is not asked for its version.
CleanInstallUnasked ==
    /\ step = "install"
    /\ step' = "passed"
    /\ \E p \in output["first"]["protocol"], r \in output["first"]["runner"] :
          /\ p.version = "expected"
          /\ installed' = [protocol |-> {p}, runner |-> {r}]
    /\ UNCHANGED <<tree, edits, build, stage, built, output, records>>

(* Any wheel of the directory is taken.  The runner requires the expected  *)
(* protocol, and what it prints for its version is looked at.              *)
CleanInstall ==
    /\ step = "install"
    /\ step' = "passed"
    /\ \E p \in output["first"]["protocol"], r \in output["first"]["runner"] :
          /\ p.version = "expected" /\ Prints(r.code) = "expected"
          /\ installed' = [protocol |-> {p}, runner |-> {r}]
    /\ UNCHANGED <<tree, edits, build, stage, built, output, records>>

Gate ==
    \/ CopyProtocol \/ StageRunner \/ GuardSource \/ UvBuild \/ GuardArtifacts
    \/ Publish \/ Compare \/ CleanInstall

Next == Edit \/ GateFails \/ Gate \/ (Over /\ UNCHANGED vars)

Spec == Init /\ [][Next]_vars

-----------------------------------------------------------------------------
(* Properties.                                                             *)

Building ==
    {"build protocol", "build runner", "guard protocol artifacts", "guard runner artifacts",
     "publish"}

(* Whatever is edited while the gate runs, a build tool only sees sources  *)
(* that were guarded as they are, and what a passed gate published holds   *)
(* nothing unfit, with the same code in wheel and sdist of both builds.    *)
OnlyGuardedIsReleased ==
    /\ step \in Building => \A d \in Distributions : Fit(stage[d])
    /\ step = "passed" =>
          \A d \in Distributions, a, b \in Builds :
              /\ records[a][d].wheel = records[b][d].code
              /\ records[a][d].wheel # "unfit" /\ records[a][d].text # "unfit"

(* A gate that passed has installed the wheels that it published, although *)
(* it takes any from a directory with an earlier release: a protocol wheel *)
(* of the version that it published was replaced, and others are refused;  *)
(* of a runner wheel only what it prints is asked, so that one whose code   *)
(* prints the version of this release passes for it.                       *)
InstalledIsReleased ==
    step = "passed" =>
        /\ records["first"]["protocol"].version = "expected" =>
              installed["protocol"] = {Fresh("protocol", records["second"])}
        /\ (\A w \in output["first"]["runner"] : w.stale => Prints(w.code) # "expected") =>
              installed["runner"] = {Fresh("runner", records["second"])}
=============================================================================
