\* Two edits at any moment, and an output directory with or without wheels
\* of earlier releases, whose code prints this version or another.
SPECIFICATION Spec
CONSTANTS
    MaxEdits = 2
    CurrentCode = {"v1"}
INVARIANTS
    OnlyGuardedIsReleased
    InstalledIsReleased
