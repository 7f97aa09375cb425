SPECIFICATION FairSpec
CONSTANTS
    Items = {i1}
    Adjusters = {a1, a2, a3}
    Deltas <- MCDeltas
    Openings = {2, 3}
    None = None
    LowStock = 1
INVARIANTS
    TypeOK
    NeverNegative
    SerialStockIsBooked
    SerialAlertsAreRight
PROPERTIES
    AdjustmentsEnd
CHECK_DEADLOCK FALSE
