SPECIFICATION Spec
CONSTANTS
    Items = {i1}
    Adjusters = {a1, a2, a3}
    Deltas <- MCDeltas
    Openings = {2, 3}
    None = None
    LowStock = 1
INVARIANTS
    ConcurrencySafe
CHECK_DEADLOCK FALSE
