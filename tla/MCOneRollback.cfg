SPECIFICATION Spec
CONSTANTS
    None = None
    e1 = e1
    e2 = e2
    ExecutedAt <- MCExecutedAt
    Executions = {e1, e2}
    Incidents = {i1, i2}
    Requesters = {c1, c2}
    Finalizers = {f1}
    Window = 0
    MaxTime = 1
INVARIANTS
    OneRollbackPerExecution
CHECK_DEADLOCK FALSE
