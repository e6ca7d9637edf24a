SPECIFICATION Spec
CONSTANTS
    c1 = c1
    c2 = c2
    Calls <- OneCall
    Levels <- SomeLevels
    Histories <- SomeSeries
    Anchors <- SomeAnchors
    Nets <- SomeNets
    Overrides <- SomeUnlocks
    GoldPrices <- SomePrices
    MaxFaults = 0
PROPERTY
    ArmedBoardIsPushed
CHECK_DEADLOCK FALSE
