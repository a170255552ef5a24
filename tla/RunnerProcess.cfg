\* One connector process, two doublings of the heartbeat's back-off.
SPECIFICATION FairSpec
CONSTANTS
    InitialBackoff = 1
    MaxBackoff = 3
INVARIANTS
    FailureHasACause
    
PROPERTIES
    ShutdownCompletes
