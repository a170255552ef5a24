\* One connector at a time, and commands that overlap its start.
SPECIFICATION FairSpec
CONSTANTS
    Pids = {p1, p2}
    NoPid = none
    Ports = {7890}
    StatusCommands = {status1}
    StopCommands = {stop1}
    Overlaps = {"commands"}
PROPERTIES
    NotRunningIsTrue
