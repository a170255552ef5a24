\* The exit status after a refused heartbeat.
SPECIFICATION Spec
CONSTANTS
    InitialBackoff = 1
    MaxBackoff = 3
INVARIANTS
    RefusalExitsWithOne
