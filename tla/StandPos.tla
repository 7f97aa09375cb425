--------------------------------- MODULE StandPos ---------------------------------
(***************************************************************************)
(* Refills of one stand location: createRefill of StandPosService.  The    *)
(* lines of a refill are stored concurrently, each by a find followed by   *)
(* an increment or a new row, with no transaction and no unique key.       *)
(***************************************************************************)
EXTENDS Naturals, FiniteSetsExt

CONSTANTS
    Refills,        \* calls of createRefill
    Opening,        \* the call of createLocation that made the location
    Items,          \* positions in the items of a refill
    Products,
    Quantities

Callers == Refills \cup {Opening}
Lines == Refills \X Items

ASSUME RefillsAssumption == Opening \notin Refills /\ Quantities \subseteq Nat \ {0}

VARIABLES
    callerPc,       \* the step each call takes next
    linePc,         \* and each line of a refill
    line,           \* product and quantity
    units,          \* calls that have created a StandUnit of the location
    orders,         \* refills that have an order
    booked,         \* lines that have a StandRefillItem
    stockRows,      \* lines that have created a StandInventory row
    quantity,       \* of the row each line has created
    found,          \* the row a line has found
    stocked,        \* history: lines whose quantity has been added
    twins           \* history: products, and Opening for the unit, two callers found
                    \* missing at once

standVars == <<callerPc, linePc, line, units, orders, booked, stockRows, quantity, found, stocked, twins>>

CallerPhases == {"idle", "findUnit", "createUnit", "order", "lines", "snapshot", "done", "failed"}
LinePhases == {"idle", "item", "find", "increment", "create", "done", "failed"}
Line == [product : Products, quantity : Quantities]
NoLine == <<>>

Product(l) == line[l].product
LinesOf(r) == {r} \X Items
RowsOf(p) == {l \in stockRows : Product(l) = p}

StandInit ==
    /\ callerPc \in {[c \in Callers |-> IF c = Opening THEN phase ELSE "idle"] : phase \in {"findUnit", "failed"}}
    /\ linePc = [l \in Lines |-> "idle"]
    /\ line \in [Lines -> Line]
    /\ units = {} /\ orders = {} /\ booked = {} /\ stockRows = {} /\ stocked = {} /\ twins = {}
    /\ quantity = [l \in Lines |-> 0]
    /\ found = [l \in Lines |-> NoLine]

ToPhase(c, from, to) == callerPc[c] = from /\ callerPc' = [callerPc EXCEPT ![c] = to]
LineTo(l, from, to) == linePc[l] = from /\ linePc' = [linePc EXCEPT ![l] = to]
StockUnchanged == UNCHANGED <<stockRows, quantity, found, stocked>>

CreateRefill(r) ==
    /\ ToPhase(r, "idle", "findUnit")
    /\ UNCHANGED <<linePc, line, units, orders, booked, twins>> /\ StockUnchanged

--------------------------------------------------------------------------------
\* ensureLocationUnit, and what its caller goes on with.
AfterUnit(c) == IF c = Opening THEN "done" ELSE "order"

FindUnit(c) ==
    /\ ToPhase(c, "findUnit", IF units = {} THEN "createUnit" ELSE AfterUnit(c))
    /\ twins' = IF units = {} /\ \E d \in Callers \ {c} : callerPc[d] = "createUnit"
                THEN twins \cup {Opening} ELSE twins
    /\ UNCHANGED <<linePc, line, units, orders, booked>> /\ StockUnchanged

CreateUnit(c) ==
    /\ ToPhase(c, "createUnit", AfterUnit(c))
    /\ units' = units \cup {c}
    /\ UNCHANGED <<linePc, line, orders, booked, twins>> /\ StockUnchanged

\* standRefillOrder.create; then every line is begun.
CreateOrder(r) ==
    /\ ToPhase(r, "order", "lines")
    /\ orders' = orders \cup {r}
    /\ linePc' = [l \in Lines |-> IF l \in LinesOf(r) THEN "item" ELSE linePc[l]]
    /\ UNCHANGED <<line, units, booked, twins>> /\ StockUnchanged

--------------------------------------------------------------------------------
(***************************************************************************)
(* A line of a refill                                                      *)
(***************************************************************************)
CreateItem(l) ==
    /\ LineTo(l, "item", "find")
    /\ booked' = booked \cup {l}
    /\ UNCHANGED <<callerPc, line, units, orders, twins>> /\ StockUnchanged

\* standInventory.findFirst: any row of the product.
FindStock(l) ==
    LET rows == RowsOf(Product(l))
    IN  /\ LineTo(l, "find", IF rows = {} THEN "create" ELSE "increment")
        /\ found' \in {[found EXCEPT ![l] = row] : row \in IF rows = {} THEN {NoLine} ELSE rows}
        /\ twins' = IF rows = {} /\ \E k \in Lines \ {l} : linePc[k] = "create" /\ Product(k) = Product(l)
                    THEN twins \cup {Product(l)} ELSE twins
        /\ UNCHANGED <<callerPc, line, units, orders, booked, stockRows, quantity, stocked>>

IncrementStock(l) ==
    /\ LineTo(l, "increment", "done")
    /\ quantity' = [quantity EXCEPT ![found[l]] = @ + line[l].quantity]
    /\ stocked' = stocked \cup {l}
    /\ UNCHANGED <<callerPc, line, units, orders, booked, stockRows, found, twins>>

CreateStock(l) ==
    /\ LineTo(l, "create", "done")
    /\ stockRows' = stockRows \cup {l}
    /\ quantity' = [quantity EXCEPT ![l] = line[l].quantity]
    /\ stocked' = stocked \cup {l}
    /\ UNCHANGED <<callerPc, line, units, orders, booked, found, twins>>

\* A line fails: Promise.all rejects and the refill is answered with the error,
\* while the other lines go on.
FailLine(l) ==
    /\ linePc[l] \notin {"idle", "done", "failed"}
    /\ linePc' = [linePc EXCEPT ![l] = "failed"]
    /\ callerPc' = [callerPc EXCEPT ![l[1]] = "failed"]
    /\ UNCHANGED <<line, units, orders, booked, twins>> /\ StockUnchanged

--------------------------------------------------------------------------------
\* Mutant: the lines are not awaited.
NotAwaited(r) == TRUE

AllDone(r) == \A l \in LinesOf(r) : linePc[l] = "done"

AwaitLines(r) ==
    /\ AllDone(r)
    /\ ToPhase(r, "lines", "snapshot")
    /\ UNCHANGED <<linePc, line, units, orders, booked, twins>> /\ StockUnchanged

\* standPerformanceSnapshot.create, the event and the answer.
Answer(r) ==
    /\ ToPhase(r, "snapshot", "done")
    /\ UNCHANGED <<linePc, line, units, orders, booked, twins>> /\ StockUnchanged

\* Another call to the database fails.
FailRefill(c) ==
    /\ callerPc[c] \in {"findUnit", "createUnit", "order", "snapshot"}
    /\ callerPc' = [callerPc EXCEPT ![c] = "failed"]
    /\ UNCHANGED <<linePc, line, units, orders, booked, twins>> /\ StockUnchanged

\* The process dies, with all that is in progress.
Crash ==
    /\ callerPc' = [c \in Callers |-> IF callerPc[c] \in {"idle", "done"} THEN callerPc[c] ELSE "failed"]
    /\ linePc' = [l \in Lines |-> IF linePc[l] \in {"idle", "done"} THEN linePc[l] ELSE "failed"]
    /\ UNCHANGED <<line, units, orders, booked, twins>> /\ StockUnchanged

LineStep(l) == CreateItem(l) \/ FindStock(l) \/ IncrementStock(l) \/ CreateStock(l) \/ FailLine(l)
RefillStep(r) == CreateRefill(r) \/ CreateOrder(r) \/ AwaitLines(r) \/ Answer(r)
UnitStep(c) == FindUnit(c) \/ CreateUnit(c) \/ FailRefill(c)

StandNext ==
    \/ \E r \in Refills : RefillStep(r)
    \/ \E c \in Callers : UnitStep(c)
    \/ \E l \in Lines : LineStep(l)
    \/ Crash

StandSpec == StandInit /\ [][StandNext]_standVars

--------------------------------------------------------------------------------
StandTypeOK ==
    /\ callerPc \in [Callers -> CallerPhases]
    /\ linePc \in [Lines -> LinePhases]
    /\ line \in [Lines -> Line]
    /\ units \subseteq Callers /\ orders \subseteq Refills
    /\ booked \subseteq Lines /\ stockRows \subseteq Lines /\ stocked \subseteq Lines
    /\ quantity \in [Lines -> Nat]
    /\ found \in [Lines -> Lines \cup {NoLine}]
    /\ twins \subseteq Products \cup {Opening}

Total(f, S) == MapThenSumSet(LAMBDA l : f[l], S)

\* However the lines of several refills interleave and fail: the rows of a product
\* together hold what was stocked of it, no line counted twice or lost; a refill that
\* is answered is booked and stocked in full; and a product has a second row, or the
\* location a second unit, only if two callers found it missing at once.
RefillsAreStocked ==
    /\ \A p \in Products :
          /\ Total(quantity, RowsOf(p)) =
                Total([l \in Lines |-> line[l].quantity], {l \in stocked : Product(l) = p})
          /\ p \notin twins => Cardinality(RowsOf(p)) <= 1
    /\ Opening \notin twins => Cardinality(units) <= 1
    /\ stocked \subseteq booked
    /\ \A r \in Refills : callerPc[r] \in {"snapshot", "done"} =>
                             /\ r \in orders
                             /\ LinesOf(r) \subseteq stocked
================================================================================
