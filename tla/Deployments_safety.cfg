SPECIFICATION Spec
CONSTANTS
    MaxPositions = 2
    RiskCap = 45
    MinCapture = 0
    MinScore = 550
    WeeklyBudget <- Budget
    TierFactors <- Factors
    Polls = {p1}
    Confirms = {c1}
    Musters = {m1}
    Deploying = {p1}
    Readings = {"SELL_OTE", "LEAVE"}
    Biases = {"none"}
    Boards <- Layers
    SellCard <- Sell
    Rejections <- Reject
    Days = {0, 7}
    MaxRunning = 2
    MaxRows = 3
    MaxFaults = 1
INVARIANTS
    TypeOK
    WeeklyBudgetBounded
    FedOncePerFlip
    RejectionTakenOnce
PROPERTY
    FlipAnnounced
VIEW AnyOrder
