CONSTANTS
    None = None
    MinBreakDistance = 10
    MinBreakBody = 4500
    FakeBreakMaxBars = 1
    MaxZoneAge = 3
    PivotLeft = 1
    PivotRight = 1
    MinTouches = 2
    TouchSeparation = 3
    ClusterTolerance = 75
    ZonePadding = 20
    MaxZoneWidth = 120
    ZoneRejection = 25
    MaxZones = 2
    SuccessfulH4Closes = 1
    SuccessfulM15Closes = 2
    MinAttempt = 5
    MaxPenetration = 100
    MaxVolumeRatio = 85
    MinRejectionBody = 2500
    MinRejection = 5
    MaxPullback = 3
    MaxSetupAge = 4
    MinContinuation = 3
    MaxCandles = 6
    MaxZoneCandles = 8
    ConfirmedAt = 1
SPECIFICATION Spec
INVARIANTS
    ZoneEvidenced
    EventsMatchPrices
    PolicyOnlyInConflicts
    DrawdownIsDeepestFall
    CancelledIffReclaimed
    VerdictEvidenced
PROPERTIES
    PivotsResume
    ResolvedStands
    DecisionsStand
CHECK_DEADLOCK FALSE
