----------------------------- MODULE MCSuggestions -----------------------------
(***************************************************************************)
(* Three components that share no state: each behaviour is one of one of   *)
(* them, so that their states add up instead of multiplying.               *)
(***************************************************************************)
EXTENDS SuggestionLifecycle, AutonomyCycle, ExecutionIntent

VARIABLE active

Init ==
    /\ active \in {"suggestions", "cycles", "intents"}
    /\ SuggestionInit /\ CycleInit /\ IntentInit
    /\ active # "suggestions" => op = CHOOSE o \in [Calls -> Ops] : TRUE

Next ==
    /\ UNCHANGED active
    /\ \/ active = "suggestions" /\ SuggestionNext /\ UNCHANGED <<cycleVars, intentVars>>
       \/ active = "cycles" /\ CycleNext /\ UNCHANGED <<suggestionVars, intentVars>>
       \/ active = "intents" /\ IntentNext /\ UNCHANGED <<suggestionVars, cycleVars>>

Spec == Init /\ [][Next]_<<active, suggestionVars, cycleVars, intentVars>>

TypeOK == SuggestionTypeOK /\ CycleTypeOK /\ IntentTypeOK
================================================================================
