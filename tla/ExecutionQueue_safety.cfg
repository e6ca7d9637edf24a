SPECIFICATION FairSpec
CONSTANTS
    Connectors = {"acc1", "acc2"}
    Accounts = {"acc1", "acc2"}
    AllAccounts = "*"
    AccountOf <- FleetConnectors
    Callers = {t1}
    Handlers = {h1, h2}
    Plans <- FleetPlans
    PendingLimit = 20
    RecentLimit = 400
    MaxSignals = 1
    MaxFaults = 1
    NoMsg = NoMsg
INVARIANTS
    TypeOK
    CopiesBounded
    TicketsAreReal
    BreakEvenOnlyArmed
    ModifiesBounded
    RunnersFollowTheirPartial
    BooksMatchBroker
PROPERTIES
    QueueDrains
    ArmedRunnersAreMoved
