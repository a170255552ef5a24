\* Two tests of up to three prompts, every probe of one or two variants, mixed
\* jobs of three tests, and every reply to a single prompt.
SPECIFICATION JobSpec
CONSTANTS
    Scenarios <- SmallScenarios
    Replies <- SmallReplies
    MaxTurns = 3
    StaticIdentity = TRUE
    NoIdentity = NoIdentity
    Static = Static
    NoBody = NoBody
    NoTurn = NoTurn
    NoUpload = NoUpload
    MaxVariants = 2
    Unset = Unset
    NoHeaders = NoHeaders
INVARIANTS
    
    ResetsSeparate
    IdentityIsCarried
    AssertedIsTrue
    ResultsAreComplete
    PairingIsPositional
    FactsOutliveRedaction
    ObservationsPaired
    MutationIsGuarded
    OwnHeaders
