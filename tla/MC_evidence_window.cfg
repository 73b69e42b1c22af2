CONSTANTS
    None = None
    MinBreakDistance = 10
    MinBreakBody = 4500
    FakeBreakMaxBars = 1
    MaxZoneAge = 3
    PivotLeft = 1
    PivotRight = 1
    MinTouches = 2
    TouchSeparation = 2
    ClusterTolerance = 750
    ZonePadding = 200
    MaxZoneWidth = 1800
    ZoneRejection = 250
    MaxZones = 5
    SuccessfulH4Closes = 1
    SuccessfulM15Closes = 2
    MinAttempt = 5
    MaxPenetration = 800
    MaxVolumeRatio = 85
    MinRejectionBody = 2500
    MinRejection = 5
    MaxPullback = 4
    MaxSetupAge = 4
    MinContinuation = 3
    Histories <- MCHistories
    Prices <- MCPrices
    Ratio = 2
    H4Limit = 6
    M15Limit = 4
    CandleLookup = 2
    MaxAge = 2
    MaxLag = 0
    MaxDelay = 0
    MaxCandles = 4
SPECIFICATION Spec
INVARIANTS
    ReclaimCancels
CHECK_DEADLOCK FALSE
