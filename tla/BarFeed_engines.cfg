SPECIFICATION FeedSpec
CONSTANTS
    Candles <- Prints
    Ceiling = 48
    MaxBars = 5
    MinBars = 3
    SwingReach = 1
    StackRisk = 12
    StackLayers = 2
    Lookahead = 3
    RetestSlack = 1
    StopBeyond = 1
    SweepPad = 1
    Window = 6
    DedupeFloor = 1
    PerDollar = 1
    StopBuffer = 1
    BandSlack = 1
    NearBand = 2
    PathSlack = 1
    TopGap = 2
    VoidMin = 6
    StackRiskCap = 20
    TouchDistance = 1
    DayLength = 3
    StopPad = 1
    BinSize = 2
    Bins = 4
    Floor = 3900
    Balance = 5000
    ScanTimes <- Clocks
    SellLevels = {8, 10}
    SellFloors = {2, 4}
    SellPartials <- Partials
INVARIANTS
    PlansProtected
    ReadsTheSameUpsideDown
    ReplaysAgree
    SessionCallsAgree
PROPERTY
    ClosedNeverRepaints
CHECK_DEADLOCK FALSE
