\* One connector and two jobs, one of which it rejects: what must eventually happen.
SPECIFICATION FairSpec
CONSTANTS
    r1 = r1
    r2 = r2
    j1 = j1
    j2 = j2
    none = none
    Runners <- OneRunner
    Jobs <- TwoJobs
    Tests <- TinyTests
    Accepts <- BadEnvelope
    ProbesMessagePath <- OneJob
    NoJob = none
    NoRunner = none
PROPERTIES
    JobIsLeft
    StopEndsThread
    JobIsServed
