SPECIFICATION Spec
CONSTANTS
    Partials <- Banks
    Fractions <- Shares
    MinTrades = 3
    MinSample = 2
    TradeTarget = 4
    Setups <- Found
    Nodes <- NodeSets
    Asks = {20}
    Results <- Outcomes
    Accounts <- Fleet
    Balance = 5000
    Tier = 12
    Risk = 20
    Rates <- DayRates
    VarLimit = 32
    Known <- DataFor
    Trades = {t1, t2, t3}
    MaxTrades = 4
INVARIANTS
    DayLossBounded
    OrdersCoverCard
    VerdictsAgree
PROPERTY
    VarNeverPushedOver
SYMMETRY AnyTrade
CHECK_DEADLOCK FALSE
