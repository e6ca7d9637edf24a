SPECIFICATION FairSpec
CONSTANTS
    MaxPositions = 2
    RiskCap = 6
    MinCapture = 2
    Openers = {o1}
    Monitors = {m1, m2}
    Cards <- SlowCards
    Prices = {3, 6}
    Boxes <- NoBoxes
    Times = {9, 22}
    MaxRows = 1
    MaxFaults = 1
PROPERTIES
    BreakEvenStays
    LimitsResolve
    PositionsEnd
