CONSTANTS
    NoTimestamp = NoTimestamp
    FutureTolerance = 1
    MaxLBankAge = 1
    MaxReceiveAge = 1
    MaxSourceAge = 2
    MinimumFreshSources = 2
    WarningDeviation = 50
    DegradedDeviation = 100
    AvoidDeviation = 200
    MaxDispersion = 100
    Venues <- MCVenues
    Books <- MCBooks
    Multiples = {1, 2}
    MaxLatency = 1
    MaxSpread = 250
    MinDepth = 400
    Interval = 4
    LoadTimeout = 2
    HttpTimeout = 1
    MaxPieces = 1
    None = None
    Bad = Bad
    MaxTime = 5
SPECIFICATION Spec
INVARIANTS
    AcceptedIsRecent
    SnapshotIsItsAnswers
    OrphansBounded
CHECK_DEADLOCK FALSE
