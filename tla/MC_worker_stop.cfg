CONSTANTS
    jobA = jobA
    jobB = jobB
    supervisor = supervisor
    None = None
    Jobs = {jobA}
    Callers <- MCCallers
    Interval <- MCInterval
    InitialDelay <- MCInitialDelay
    Kind <- MCKind
    MaxTime = 2
    Threshold = 1
    CleanupInterval = 2
    MaxRuns = 3
    MaxCrashes = 0
    Retention = 1
    MaxSetBack = 0
CHECK_DEADLOCK FALSE
SPECIFICATION FairWorkerSpec
INVARIANTS
    AlertOncePerStreak
PROPERTIES
    StopTerminates
