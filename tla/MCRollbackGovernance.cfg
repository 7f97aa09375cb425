SPECIFICATION Spec
CONSTANTS
    None = None
    e1 = e1
    e2 = e2
    ExecutedAt <- MCExecutedAt
    Executions = {e1, e2}
    Incidents = {i1, i2}
    Requesters = {c1, c2}
    Finalizers = {f1, f2}
    Window = 0
    MaxTime = 1
SYMMETRY Symmetry
INVARIANTS
    TypeOK
    RollbacksAreTied
    WindowIsHonoured
    SerialCallsKeepLifecycle
    OrphansComeFromAborts
CHECK_DEADLOCK FALSE
