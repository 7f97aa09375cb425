SPECIFICATION Spec
CONSTANTS
    Requests = {x1, x2, x3}
    Approvals = {x3}
    Drafts = {d1}
    Prices = {0, 2}
    Costs = {1, 3}
    Null = Null
    MaxRows = 2
    Refills = {r1, r2}
    Opening = Opening
    Items = {1, 2}
    Products = {p1, p2}
    Quantities = {1, 2}
    Names = {n1}
    Domains = {m1, m2}
    Registrations = {v1, v2}
    Routines = {v3, v4}
    Plans = {Free, Pro}
    Free = Free
    NoPlan = NoPlan
INVARIANTS
    TypeOK
    PriceCoversCost
    ApprovedDraftsAreApplied
    RefillsAreStocked
    AccountsAreWhole
    PlansAreAccounted
PROPERTIES
    RemovalsAreWhole
CHECK_DEADLOCK FALSE
