SPECIFICATION Spec
CONSTANTS
    Suggestions = {s1}
    Calls = {x1, x2, x3, x4}
    MaxRuns = 2
    NoRow = NoRow
    Cycles = {c1, c2}
    Actions = {1, 2}
    MaxRestarts = 1
    Intents = {i1, i2}
    TTL = 2
    MaxTime = 6
    MaxReboots = 1
INVARIANTS
    TypeOK
    ExecutedOnce
    DecisionsStand
    RunsAreRecorded
    SwitchIsObeyed
    HandoffsAreTimely
CHECK_DEADLOCK FALSE
