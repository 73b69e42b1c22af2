CONSTANTS
    jobA = jobA
    jobB = jobB
    None = None
    Jobs = {jobA, jobB}
    Callers = {c1, c2}
    Interval <- MCInterval
    InitialDelay <- MCInitialDelay
    Kind <- MCKind
    MaxTime = 1
SPECIFICATION FairSpec
INVARIANTS
    TypeOK
    JobExclusion
    InFlightIsActive
    OutcomeTimesOrdered
    RunRecordedOnce
    OutcomeIsStored
PROPERTIES
    ClaimsSpaced
    ImplementsJobScheduler
    EveryRunEnds
    DueJobRuns
