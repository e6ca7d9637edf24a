SPECIFICATION Spec
CONSTANTS
    MaxPositions = 2
    RiskCap = 6
    MinCapture = 2
    Openers = {o1}
    Monitors = {m1}
    Cards <- HeldCards
    Prices = {2, 4, 6, 8}
    Boxes <- HighBox
    Times = {9, 22, 46}
    MaxRows = 2
    MaxFaults = 0
INVARIANT
    HoldExitsInFavour
