CONSTANTS
    jobA = jobA
    jobB = jobB
    supervisor = supervisor
    None = None
    Jobs = {jobA}
    Callers <- MCCallers
    Interval <- MCInterval
    InitialDelay <- MCInitialDelay
    Kind <- MCKind
    MaxTime = 2
    Threshold = 2
    CleanupInterval = 1
    MaxRuns = 2
    MaxCrashes = 1
    Retention = 1
    MaxSetBack = 2
CHECK_DEADLOCK FALSE
SPECIFICATION WorkerSpec
INVARIANTS
    GracefulExit
    RecordsWhole
PROPERTIES
    RetentionSpares
    CleanupsSpaced
