\* Three requests, two of which fit, and one command; clients and the target
\* may never finish what they begin.
SPECIFICATION CommandsSpec
CONSTANTS
    MaxCaptures = 2
    MaxRequests = 3
    Traffic <- SmallTraffic
INVARIANTS
    CapturesSurvive
    SavedCountIsTrue
    ConversationIsFound
    ValidationStaysAtOrigin
PROPERTIES
    SessionEnds
