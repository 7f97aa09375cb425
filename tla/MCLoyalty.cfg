SPECIFICATION Spec
CONSTANTS
    Customers = {c1}
    silver = silver
    gold = gold
    rose = rose
    Tiers = {silver, gold, rose}
    MinPoints <- MCMinPoints
    MaxPoints <- MCMaxPoints
    Redemptions = {r1, r2}
    Updates = {u1}
    Costs = {2}
    Balances = {0, 2}
    Deltas <- MCDeltas
    None = None
INVARIANTS
    TypeOK
    PointsAreBooked
    OverdraftsAreRaces
    SerialTiersFollow
CHECK_DEADLOCK FALSE
