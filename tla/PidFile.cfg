\* One connector at a time, two concurrent commands, two process ids.
SPECIFICATION Spec
CONSTANTS
    Pids = {p1, p2}
    NoPid = none
    Ports = {7890}
    StatusCommands = {status1}
    StopCommands = {stop1}
    Overlaps = {}
INVARIANTS
    ServingIsNamed
PROPERTIES
    NotRunningIsTrue
