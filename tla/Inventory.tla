------------------------------- MODULE Inventory -------------------------------
(***************************************************************************)
(* Stock adjustments: createInventoryAdjustment and the interactive        *)
(* transaction it runs, adjustInventoryStock.                              *)
(*                                                                         *)
(* The transaction runs at PostgreSQL's default level, read committed: a   *)
(* read takes no lock and sees what is committed; an update waits for the  *)
(* row lock of another transaction, then writes the value it was given.    *)
(* Nothing a transaction wrote is seen, or stays, unless it commits.       *)
(***************************************************************************)
EXTENDS Integers

CONSTANTS
    Items,          \* ids of InventoryItem rows
    Adjusters,      \* calls of createInventoryAdjustment
    Deltas,         \* the deltas they may be called with
    Openings,       \* the quantities an item may be created with
    None,           \* no quantity given
    LowStock        \* lowStockThreshold

ASSUME DeltasAssumption   == Deltas \subseteq Int
ASSUME OpeningsAssumption == Openings \subseteq Nat     \* z.number().int().min(0)
ASSUME LowStockAssumption == LowStock \in Int /\ None \notin Int

VARIABLES
    items,          \* the rows that exist
    quantity,       \* committed quantity of each
    transactions,   \* total of an item's InventoryTransaction rows
    adjustments,    \* total of an item's StockAdjustment rows
    pc,
    input,          \* the item and the delta of each call
    previous,       \* previousQuantity, a local of the transaction
    announced,      \* calls that published inventory.stock.low
    opening,        \* history: the quantity an item was created with
    crossed,        \* history: calls whose commit brought the stock down to LowStock
    overlapped      \* history: items that two transactions worked on at once

books == <<transactions, adjustments>>
vars == <<items, quantity, books, pc, input, previous, announced, opening, crossed, overlapped>>

Input == [item : Items, delta : Deltas]

\* Phases are named after the call to the database that comes next.
Locking == {"createTransaction", "createAdjustment", "commit"}
Working == {"update"} \cup Locking
Running == {"find"} \cup Working
Phases  == {"idle", "done", "failed"} \cup Running

Item(a) == input[a].item
WorkingOn(i) == {a \in Adjusters : pc[a] \in Working /\ Item(a) = i}

Init ==
    /\ items = {}
    /\ quantity = [i \in Items |-> 0]
    /\ transactions = [i \in Items |-> 0]
    /\ adjustments = [i \in Items |-> 0]
    /\ pc = [a \in Adjusters |-> "idle"]
    /\ input \in [Adjusters -> Input]
    /\ previous = [a \in Adjusters |-> 0]
    /\ announced = {}
    /\ opening = [i \in Items |-> 0]
    /\ crossed = {}
    /\ overlapped = {}

Goto(a, phase) == pc' = [pc EXCEPT ![a] = phase]

\* A step of a transaction, or its end, of which nothing is visible outside.
Silent(a, from, to) ==
    /\ pc[a] \in from
    /\ Goto(a, to)
    /\ UNCHANGED <<items, quantity, books, input, previous, announced, opening, crossed, overlapped>>

--------------------------------------------------------------------------------
\* Mutant: the default of an omitted quantity is forgotten.
OpeningQuantityAsGiven(given) == given

\* quantity: input.quantity ?? 0
OpeningQuantity(given) == IF given = None THEN 0 ELSE given

CreateInventoryItem(i) ==
    /\ i \notin items
    /\ items' = items \cup {i}
    /\ \E given \in Openings \cup {None} :
          /\ quantity' = [quantity EXCEPT ![i] = OpeningQuantity(given)]
          /\ opening' = [opening EXCEPT ![i] = OpeningQuantity(given)]
    /\ UNCHANGED <<books, pc, input, previous, announced, crossed, overlapped>>

Call(a) == Silent(a, {"idle"}, "find")

\* newQuantity, as the read sees it.
Remaining(a) == quantity[Item(a)] + input[a].delta

Refused(a) == Item(a) \notin items \/ Remaining(a) < 0

\* findFirst, and the two errors the function throws.
FindItem(a) ==
    /\ pc[a] = "find" /\ ~Refused(a)
    /\ Goto(a, "update")
    /\ previous' = [previous EXCEPT ![a] = quantity[Item(a)]]
    /\ overlapped' = IF WorkingOn(Item(a)) = {} THEN overlapped ELSE overlapped \cup {Item(a)}
    /\ UNCHANGED <<items, quantity, books, input, announced, opening, crossed>>

Refuse(a) == Refused(a) /\ Silent(a, {"find"}, "failed")

\* Mutant: a transaction that was rolled back keeps its lock.
LockFreeOrStuck(i) == \A b \in Adjusters : pc[b] \in Locking \cup {"failed"} => Item(b) # i

LockFree(i) == \A b \in Adjusters : pc[b] \in Locking => Item(b) # i

UpdateQuantity(a) == LockFree(Item(a)) /\ Silent(a, {"update"}, "createTransaction")

CreateInventoryTransaction(a) == Silent(a, {"createTransaction"}, "createAdjustment")

CreateStockAdjustment(a) == Silent(a, {"createAdjustment"}, "commit")

\* Mutant: the row is incremented, after a check of what was read.
NewQuantityByIncrement(a) == quantity[Item(a)] + input[a].delta

NewQuantity(a) == previous[a] + input[a].delta

\* Mutant: an alert for every adjustment that leaves the stock low.
AlertWheneverLow(before, after) == after <= LowStock

Alert(before, after) == after <= LowStock /\ before > LowStock

\* The commit, and the alert when the process hears of it.  The alert compares
\* what the transaction read and wrote.
Commit(a) ==
    /\ pc[a] = "commit"
    /\ quantity' = [quantity EXCEPT ![Item(a)] = NewQuantity(a)]
    /\ transactions' = [transactions EXCEPT ![Item(a)] = @ + input[a].delta]
    /\ adjustments' = [adjustments EXCEPT ![Item(a)] = @ + input[a].delta]
    /\ crossed' = IF quantity[Item(a)] > LowStock /\ NewQuantity(a) <= LowStock
                  THEN crossed \cup {a} ELSE crossed
    /\ \/ /\ Goto(a, "done")
          /\ announced' = IF Alert(previous[a], NewQuantity(a))
                          THEN announced \cup {a} ELSE announced
       \/ Goto(a, "failed") /\ UNCHANGED announced
    /\ UNCHANGED <<items, input, previous, opening, overlapped>>

\* Mutant: the update is not part of the transaction and stays.
RollBackBooksOnly(a) ==
    /\ pc[a] \in Running
    /\ Goto(a, "failed")
    /\ quantity' = IF pc[a] \in Locking
                   THEN [quantity EXCEPT ![Item(a)] = NewQuantity(a)] ELSE quantity
    /\ UNCHANGED <<items, books, input, previous, announced, opening, crossed, overlapped>>

\* A call to the database fails (a value it cannot hold, a lost connection, the
\* transaction's time limit) or the process dies: everything is rolled back.
RollBack(a) == Silent(a, Running, "failed")

--------------------------------------------------------------------------------
Adjust(a) ==
    \/ FindItem(a) \/ Refuse(a)
    \/ UpdateQuantity(a) \/ CreateInventoryTransaction(a) \/ CreateStockAdjustment(a)
    \/ Commit(a)

Next ==
    \/ \E i \in Items : CreateInventoryItem(i)
    \/ \E a \in Adjusters : Call(a) \/ Adjust(a) \/ RollBack(a)

Spec == Init /\ [][Next]_vars

\* The event loop resumes a call once the database has answered, and the
\* database grants a lock that stays free to one that waits for it.
FairSpec == Spec /\ \A a \in Adjusters : WF_vars(Adjust(a))

--------------------------------------------------------------------------------
TypeOK ==
    /\ items \subseteq Items
    /\ quantity \in [Items -> Int]
    /\ transactions \in [Items -> Int]
    /\ adjustments \in [Items -> Int]
    /\ pc \in [Adjusters -> Phases]
    /\ input \in [Adjusters -> Input]
    /\ previous \in [Adjusters -> Int]
    /\ announced \subseteq Adjusters
    /\ opening \in [Items -> Int]
    /\ crossed \subseteq Adjusters
    /\ overlapped \subseteq Items

\* However adjustments interleave, no stock becomes negative: each writes a
\* quantity that it has checked, even when it overwrites another's.
NeverNegative == \A i \in Items : quantity[i] >= 0

\* As long as no two transactions work on an item at once, its stock is what it
\* was created with and what both books say since, and whatever was rolled back
\* has left no trace.
SerialStockIsBooked ==
    \A i \in Items \ overlapped :
        /\ quantity[i] = opening[i] + transactions[i]
        /\ adjustments[i] = transactions[i]

\* Without overlap, an alert is published for the adjustments that bring the
\* stock down to the threshold and for no others.  It is missed only when the
\* process never heard of the commit.
SerialAlertsAreRight ==
    \A a \in Adjusters : Item(a) \notin overlapped =>
        /\ a \in announced => a \in crossed
        /\ a \in crossed => a \in announced \/ pc[a] = "failed"

\* Every adjustment ends: a lock is given up by whoever holds it.
AdjustmentsEnd == \A a \in Adjusters : (pc[a] = "find") ~> (pc[a] \in {"done", "failed"})

\* inventory.repository.ts:2-3 and 17: the adjustment is atomic and safe under
\* concurrency, because the transaction "serializes".
ConcurrencySafe == \A i \in Items : quantity[i] = opening[i] + transactions[i]
================================================================================
