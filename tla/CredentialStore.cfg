\* Two references, two credentials for each, one command at a time.
SPECIFICATION Spec
CONSTANTS
    Refs = {admin, guest}
    Credentials = {old, new}
    Nothing = nothing
    Writers = {w1}
    Careful = TRUE
INVARIANTS
    Settled
    ProbeIsComplete
    ProbeIsCoherent
