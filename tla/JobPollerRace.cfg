\* Two connectors that accept the envelope race for one guarded job.
SPECIFICATION Spec
CONSTANTS
    r1 = r1
    r2 = r2
    j1 = j1
    j2 = j2
    none = none
    Runners <- TwoRunners
    Jobs <- OneJob
    Tests <- GuardedTests
    Accepts <- AllAccept
    ProbesMessagePath <- OneJob
    NoJob = none
    NoRunner = none
INVARIANTS
    TypeOK
    EachTestOnceByOwner
    PreflightBoundary
    CompletedCoversDispatches
    SuccessIsCompletion
    ActiveRunShown
    NoWorkAfterStop
PROPERTIES
    ImplementsContract
