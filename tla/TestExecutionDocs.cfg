\* The job that the API contract shows.
SPECIFICATION JobSpec
CONSTANTS
    Scenarios <- DocumentedScenario
    Replies <- SmallReplies
    MaxTurns = 3
    StaticIdentity = TRUE
    NoIdentity = NoIdentity
    Static = Static
    NoBody = NoBody
    NoTurn = NoTurn
    NoUpload = NoUpload
    MaxVariants = 2
    Unset = Unset
    NoHeaders = NoHeaders
INVARIANTS
    ResetsAsDocumented
