SPECIFICATION Spec
CONSTANTS
    v1 = v1
    v2 = v2
    v3 = v3
    r1 = r1
    r2 = r2
    log = log
    gated = gated
    notify = notify
    unknown = unknown
    malformed = malformed
    Events = {e1}
    Versions = {v1, v2, v3}
    Rules = {r1, r2}
    Configs = {log, gated, notify, unknown, malformed}
    Params <- MCParams
    ParamsOf <- MCParamsOf
    RuleOf <- MCRuleOf
    Actions <- MCActions
    Registered = {log, gated, notify, malformed}
    Valid = {log, gated, notify, unknown}
    Metadata <- MCMetadata
    Settings <- MCSettings
    Loaders = {"esm"}
    MaxFaults = 0
INVARIANTS
    AllowedActionsRun
CHECK_DEADLOCK FALSE
