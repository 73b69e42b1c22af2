CONSTANTS
    None = None
    NoTimestamp = NoTimestamp
    Times <- MCTimes
    Ttls <- MCTtls
    FutureTolerance = 1
    MaxLBankAge = 3
    MaxReceiveAge = 2
    MaxSourceAge = 4
    MinimumFreshSources = 2
    WarningDeviation = 20
    DegradedDeviation = 50
    AvoidDeviation = 100
    MaxDispersion = 100
    Requests <- MCRequests
    MaxDiscoveryRecords = 2
    MaxStructureAge = 4
    MaxEntryDeviation = 50
    MaxAttempts = 2
SPECIFICATION AssemblySpec
INVARIANTS
    DatedByWindow
    ReadyIffBacked
    GateTrail
    StoredPairAgrees
PROPERTIES
    OnlyForward
    ImplementsLifecycle
CHECK_DEADLOCK FALSE
