SPECIFICATION Spec
CONSTANTS
    c1 = c1
    c2 = c2
    Calls <- TwoCalls
    Levels <- SomeLevels
    Histories <- SomeSeries
    Anchors <- SomeAnchors
    Nets <- SomeNets
    Overrides <- SomeUnlocks
    GoldPrices <- SomePrices
    MaxFaults = 1
SYMMETRY Interchangeable
INVARIANTS
    ChatMatchesMarkers
    LongsWaitForTheTop
CHECK_DEADLOCK FALSE
