SPECIFICATION Spec
CONSTANTS
    a1 = a1
    g1 = g1
    s1 = s1
    b1 = b1
    None = None
    Requests = {r1}
    Approvals = {a1}
    Suggestions = {g1}
    Snapshots = {s1}
    Brands = {b1}
    Decisions <- MCDecisions
    BrandOf <- MCBrandOf
    MaxTime = 1
    MaxFaults = 0
INVARIANTS
    FailureRecordsIncident
