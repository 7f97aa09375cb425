------------------------------ MODULE MCRuleEngine ------------------------------
(***************************************************************************)
(* Two versions of one rule that share their first action, and whose       *)
(* second ones differ in type but not in params; a version of another      *)
(* rule.  log and notify may run, gated needs approval in production,      *)
(* unknown has no runner, and malformed is refused by its runner's schema. *)
(***************************************************************************)
EXTENDS RuleEngine, TLC

CONSTANTS v1, v2, v3, r1, r2, log, gated, notify, unknown, malformed

MCRuleOf  == v1 :> r1 @@ v2 :> r1 @@ v3 :> r2
MCActions == v1 :> <<log, gated>> @@ v2 :> <<log, notify>> @@ v3 :> <<unknown, malformed>>

\* notify has the params of gated.
MCParams   == {log, gated, unknown, malformed}
MCParamsOf == [c \in MCParams \cup {notify} |-> IF c = notify THEN gated ELSE c]

MCMetadata ==
    [c \in {log, gated, notify, unknown, malformed} |->
        [risk |-> "MEDIUM", approval |-> IF c = gated THEN {"production"} ELSE {}]]

Production ==
    [killSwitch |-> FALSE, autonomy |-> TRUE, maxRisk |-> "CRITICAL",
     stage |-> "production", dryRun |-> FALSE]

MCSettings ==
    {Production, [Production EXCEPT !.stage = "staging"],
     [Production EXCEPT !.maxRisk = "LOW"], [Production EXCEPT !.dryRun = TRUE]}
================================================================================
