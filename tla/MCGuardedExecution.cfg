SPECIFICATION FairSpec
CONSTANTS
    a1 = a1
    g1 = g1
    s1 = s1
    s2 = s2
    b1 = b1
    None = None
    Requests = {r1}
    Approvals = {a1}
    Suggestions = {g1}
    Snapshots = {s1, s2}
    Brands = {b1}
    Decisions <- MCDecisions
    BrandOf <- MCBrandOf
    MaxTime = 1
    MaxFaults = 2
INVARIANTS
    TypeOK
    StopsBind
    OneFaultLeavesTrace
    IncidentsPointToSuccess
PROPERTIES
    GlobalStopIsAbsolute
    RequestsEnd
    KeepsAccount
