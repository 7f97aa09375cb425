--------------------------- MODULE AccountableAction ---------------------------
(***************************************************************************)
(* What POST /automation/execute promises its auditors, whatever the       *)
(* guard, the kill switches, the database and the process do meanwhile:    *)
(* a request has at most one effect and at most one ledger row, the row is *)
(* never rewritten, a SUCCESS row is written only after the effect, and    *)
(* nothing more happens for a request once it is over.  GuardedExecution   *)
(* implements this specification.                                          *)
(***************************************************************************)
CONSTANT Requests

VARIABLES
    effects,    \* the requests whose approved action has run
    book,       \* the ledger row of each request, "none" when there is none
    over        \* the requests that are answered or died with the process

vars == <<effects, book, over>>

Results == {"SUCCESS", "FAILED"}

Init ==
    /\ effects = {}
    /\ book = [r \in Requests |-> "none"]
    /\ over = {}

Open(r) == r \notin over /\ book[r] = "none"

Perform(r) ==
    /\ Open(r)
    /\ r \notin effects
    /\ effects' = effects \cup {r}
    /\ UNCHANGED <<book, over>>

\* The caller may be answered with the write of the row, or later.
Record(r, result) ==
    /\ Open(r)
    /\ result = "SUCCESS" => r \in effects
    /\ book' = [book EXCEPT ![r] = result]
    /\ over' \in {over, over \cup {r}}
    /\ UNCHANGED effects

\* Requests end without a row too: refused, or lost with the process.
End(S) ==
    /\ over' = over \cup S
    /\ UNCHANGED <<effects, book>>

Next ==
    \/ \E r \in Requests : Perform(r)
    \/ \E r \in Requests, result \in Results : Record(r, result)
    \/ \E S \in SUBSET Requests : End(S)

Spec == Init /\ [][Next]_vars
================================================================================
