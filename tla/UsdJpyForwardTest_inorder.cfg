SPECIFICATION Spec
CONSTANTS
    Lookback = 3
    HoldDays = 2
    ZSquared = 1
    Requests = {r1, r2}
    Prices = {0, 1, 3}
    LastDay = 6
    Slices <- SeriesAndDays
    Gaps = FALSE
    MaxBatches = 2
    MaxFaults = 1
SYMMETRY AnyRequest
CHECK_DEADLOCK FALSE
INVARIANT
    TypeOK
PROPERTIES
    ImplementsWorkbook
