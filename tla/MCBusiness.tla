------------------------------- MODULE MCBusiness -------------------------------
(***************************************************************************)
(* Three components that share no state: each behaviour is one of one of   *)
(* them, so that their states add up instead of multiplying.               *)
(***************************************************************************)
EXTENDS Pricing, StandPos, Accounts

VARIABLE active

Init ==
    /\ active \in {"pricing", "stand", "accounts"}
    /\ PricingInit /\ StandInit /\ AccountInit
    /\ \A l \in Lines : line[l].quantity = l[2]       \* told apart by their position
    /\ active # "pricing" =>
          /\ row = NoPricing /\ draft = [d \in Drafts |-> NoDraft]
    /\ active # "stand" => \A l \in Lines : Product(l) = CHOOSE p \in Products : TRUE
    /\ active # "stand" => callerPc[Opening] = "failed"

Next ==
    /\ UNCHANGED active
    /\ \/ active = "pricing" /\ PricingNext /\ UNCHANGED <<standVars, accountVars>>
       \/ active = "stand" /\ StandNext /\ UNCHANGED <<pricingVars, accountVars>>
       \/ active = "accounts" /\ AccountNext /\ UNCHANGED <<pricingVars, standVars>>

Spec == Init /\ [][Next]_<<active, pricingVars, standVars, accountVars>>

TypeOK == PricingTypeOK /\ StandTypeOK /\ AccountTypeOK
================================================================================
