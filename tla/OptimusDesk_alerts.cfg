SPECIFICATION Spec
CONSTANTS
    Candles <- Prints
    PerDay = 2
    MaxBars = 3
    ScanMin = 2
    RefreshMin = 3
    SwingReach = 1
    BootMap <- Boot
    PostedMaps <- Posts
    Scans = {s1, s2, dry}
    Previews = {dry}
    Feeds <- Tape
    PaidFeeds <- Paid
    MaxFaults = 2
    MaxCards = 3
    Lookahead = 3
    RetestSlack = 1
    StopBeyond = 1
    SweepPad = 1
    Window = 6
    DedupeFloor = 1
    PerDollar = 2
    StopBuffer = 1
    BandSlack = 1
    NearBand = 2
    PathSlack = 1
    TopGap = 2
    VoidMin = 6
    StackRiskCap = 20
    TouchDistance = 1
INVARIANTS
    CardsBounded
    StaircaseDescends
PROPERTY
    ArmedIsAnswered
CHECK_DEADLOCK FALSE
