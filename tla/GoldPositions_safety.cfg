SPECIFICATION Spec
CONSTANTS
    MaxPositions = 2
    RiskCap = 5
    MinCapture = 2
    Openers = {o1, o2}
    Monitors = {m1}
    Cards <- BookCards
    Prices = {1, 4, 9}
    Boxes <- OneBox
    Times = {9, 22}
    MaxRows = 4
    MaxFaults = 1
INVARIANTS
    TypeOK
    LiveBounded
    RiskBounded
    DuplicatesBounded
    TrailedNeverLoses
    ExitWithinPlan
PROPERTY
    ResultsFinal
