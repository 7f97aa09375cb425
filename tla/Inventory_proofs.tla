---------------------------- MODULE Inventory_proofs ----------------------------
(***************************************************************************)
(* What holds of stock adjustments for all items, calls, deltas and        *)
(* thresholds.                                                             *)
(***************************************************************************)
EXTENDS Inventory, TLAPS

\* What a transaction is about to write has been checked.
Checked == \A a \in Adjusters : pc[a] \in Working => previous[a] + input[a].delta >= 0

\* Nothing works on an item that does not exist, and nothing is booked for it.
Unstocked ==
    \A i \in Items \ items :
        /\ WorkingOn(i) = {}
        /\ transactions[i] = 0 /\ adjustments[i] = 0

\* Without overlap, whoever works on an item is alone, and what it has read is
\* still so.
AloneAndFresh ==
    \A i \in Items \ overlapped :
        /\ \A a, b \in WorkingOn(i) : a = b
        /\ \A a \in WorkingOn(i) : previous[a] = quantity[i]

\* A call that has not committed has brought nothing down and announced nothing.
Quiet == \A a \in Adjusters :
            pc[a] \in {"idle"} \cup Running => a \notin crossed /\ a \notin announced

Inv == /\ TypeOK /\ Checked /\ Unstocked /\ AloneAndFresh /\ Quiet
       /\ NeverNegative /\ SerialStockIsBooked /\ SerialAlertsAreRight

\* The invariant holds when there are no items yet.
LEMMA InitInv == Init => Inv
BY DEF Init, Inv, TypeOK, Checked, Unstocked, AloneAndFresh, Quiet, NeverNegative,
       SerialStockIsBooked, SerialAlertsAreRight, WorkingOn, Item, Phases, Working, Locking,
       Running, Input

\* A step that changes only where a call is, and never into the work on an item
\* from outside, keeps the invariant.
LEMMA SilentInv ==
    ASSUME Inv, NEW a \in Adjusters, NEW from, NEW to \in Phases, Silent(a, from, to),
           pc[a] \in {"idle"} \cup Running, to \in Working => pc[a] \in Working
    PROVE  Inv'
<1> USE DEF Inv
<1>1. /\ pc' = [pc EXCEPT ![a] = to]
      /\ UNCHANGED <<items, quantity, transactions, adjustments, input, previous, announced,
                     opening, crossed, overlapped>>
  BY DEF Silent, Goto, books
<1>2. TypeOK'
  BY <1>1 DEF TypeOK
<1>3. \A b \in Adjusters : pc'[b] \in Working => pc[b] \in Working
  BY <1>1 DEF TypeOK
<1>4. \A i : WorkingOn(i)' \subseteq WorkingOn(i)
  BY <1>1, <1>3 DEF WorkingOn, Item
<1>5. Checked' /\ Unstocked'
  BY <1>1, <1>3, <1>4 DEF Checked, Unstocked
<1>6. AloneAndFresh'
  BY <1>1, <1>4 DEF AloneAndFresh, WorkingOn
<1>7. Quiet'
  BY <1>1 DEF Quiet, TypeOK
<1>8. NeverNegative' /\ SerialStockIsBooked'
  BY <1>1 DEF NeverNegative, SerialStockIsBooked
<1>9. SerialAlertsAreRight'
  <2>1. a \notin crossed /\ a \notin announced
    BY DEF Quiet
  <2> QED BY <1>1, <2>1 DEF SerialAlertsAreRight, Item, TypeOK
<1> QED BY <1>2, <1>5, <1>6, <1>7, <1>8, <1>9

\* A new item has the stock it was opened with, and nobody works on it.
LEMMA CreateInv == ASSUME Inv, NEW i \in Items, CreateInventoryItem(i) PROVE Inv'
<1> USE DEF Inv
<1>1. PICK q \in Nat :
        /\ quantity' = [quantity EXCEPT ![i] = q]
        /\ opening' = [opening EXCEPT ![i] = q]
  BY OpeningsAssumption DEF CreateInventoryItem, OpeningQuantity
<1>2. /\ i \notin items /\ items' = items \cup {i}
      /\ UNCHANGED <<transactions, adjustments, pc, input, previous, announced, crossed, overlapped>>
  BY DEF CreateInventoryItem, books
<1>3. TypeOK'
  BY <1>1, <1>2 DEF TypeOK
<1>4. Checked' /\ Quiet' /\ SerialAlertsAreRight'
  BY <1>2 DEF Checked, Quiet, SerialAlertsAreRight, Item
<1>5. \A j : WorkingOn(j)' = WorkingOn(j)
  BY <1>2 DEF WorkingOn, Item
<1>6. Unstocked'
  BY <1>2, <1>5 DEF Unstocked
<1>7. WorkingOn(i) = {} /\ transactions[i] = 0 /\ adjustments[i] = 0
  BY <1>2 DEF Unstocked
<1>8. AloneAndFresh'
  BY <1>1, <1>2, <1>5, <1>7 DEF AloneAndFresh, TypeOK
<1>9. NeverNegative' /\ SerialStockIsBooked'
  BY <1>1, <1>2, <1>7 DEF NeverNegative, SerialStockIsBooked, TypeOK
<1> QED BY <1>3, <1>4, <1>6, <1>8, <1>9

\* Whoever reads an item that nobody works on knows its stock; otherwise the item
\* is overlapped from now on.
LEMMA FindInv == ASSUME Inv, NEW a \in Adjusters, FindItem(a) PROVE Inv'
<1> USE DEF Inv
<1>1. /\ pc[a] = "find" /\ ~Refused(a)
      /\ pc' = [pc EXCEPT ![a] = "update"]
      /\ previous' = [previous EXCEPT ![a] = quantity[Item(a)]]
      /\ overlapped' = IF WorkingOn(Item(a)) = {} THEN overlapped ELSE overlapped \cup {Item(a)}
      /\ UNCHANGED <<items, quantity, transactions, adjustments, input, announced, opening, crossed>>
  BY DEF FindItem, Goto, books
<1>2. /\ Item(a) \in items /\ Item(a) \in Items
      /\ quantity[Item(a)] \in Int /\ quantity[Item(a)] + input[a].delta >= 0
  <2>1. input[a].item \in Items /\ input[a].delta \in Int
    BY DeltasAssumption DEF TypeOK, Input
  <2>2. quantity[Item(a)] \in Int
    BY <2>1 DEF TypeOK, Item
  <2> QED BY <1>1, <2>1, <2>2 DEF Refused, Remaining, Item
<1>3. TypeOK'
  BY <1>1, <1>2 DEF TypeOK, Phases, Running, Working
<1>4. Checked'
  BY <1>1, <1>2 DEF Checked, TypeOK
<1>5. \A b : b \in Adjusters /\ b # a => (pc'[b] = pc[b] /\ previous'[b] = previous[b])
  BY <1>1 DEF TypeOK
<1>6. \A i : i # Item(a) => WorkingOn(i)' = WorkingOn(i) /\ a \notin WorkingOn(i)
  BY <1>1, <1>5 DEF WorkingOn, Item
<1>7. Unstocked'
  BY <1>1, <1>2, <1>6 DEF Unstocked
<1>8. AloneAndFresh'
  <2> SUFFICES ASSUME NEW i \in Items \ overlapped'
               PROVE  /\ \A b, c \in WorkingOn(i)' : b = c
                      /\ \A b \in WorkingOn(i)' : previous'[b] = quantity[i]
    BY <1>1 DEF AloneAndFresh
  <2>1. i \notin overlapped
    BY <1>1
  <2>2. CASE i = Item(a)
    <3>1. WorkingOn(i) = {}
      BY <1>1, <2>2
    <3>2. WorkingOn(i)' \subseteq {a}
      BY <1>1, <1>5, <3>1 DEF WorkingOn, Item
    <3> QED BY <1>1, <2>2, <3>2 DEF TypeOK
  <2>3. CASE i # Item(a)
    BY <1>5, <1>6, <2>1, <2>3 DEF AloneAndFresh, WorkingOn
  <2> QED BY <2>2, <2>3
<1>9. Quiet' /\ NeverNegative'
  BY <1>1 DEF Quiet, NeverNegative, TypeOK, Running
<1>10. SerialStockIsBooked' /\ SerialAlertsAreRight'
  BY <1>1 DEF SerialStockIsBooked, SerialAlertsAreRight, Item, TypeOK, Quiet, Running
<1> QED BY <1>3, <1>4, <1>7, <1>8, <1>9, <1>10

\* A commit writes what was checked and books its delta; without overlap what was
\* read is still the stock.
LEMMA CommitInv == ASSUME Inv, NEW a \in Adjusters, Commit(a) PROVE Inv'
<1> USE DEF Inv
<1> DEFINE i == Item(a)
           d == input[a].delta
           new == previous[a] + d
<1>1. /\ pc[a] = "commit"
      /\ quantity' = [quantity EXCEPT ![i] = new]
      /\ transactions' = [transactions EXCEPT ![i] = @ + d]
      /\ adjustments' = [adjustments EXCEPT ![i] = @ + d]
      /\ crossed' = IF quantity[i] > LowStock /\ new <= LowStock
                    THEN crossed \cup {a} ELSE crossed
      /\ UNCHANGED <<items, input, previous, opening, overlapped>>
  BY DEF Commit, NewQuantity
<1>2. \/ /\ pc' = [pc EXCEPT ![a] = "done"]
         /\ announced' = IF new <= LowStock /\ previous[a] > LowStock
                         THEN announced \cup {a} ELSE announced
      \/ pc' = [pc EXCEPT ![a] = "failed"] /\ announced' = announced
  BY DEF Commit, Goto, Alert, NewQuantity
<1>3. i \in Items /\ d \in Int /\ new \in Int
  <2>1. input[a].item \in Items /\ input[a].delta \in Int /\ previous[a] \in Int
    BY DeltasAssumption DEF TypeOK, Input
  <2> QED BY <2>1 DEF Item
<1>4. a \in WorkingOn(i) /\ i \in items
  BY <1>1, <1>3 DEF WorkingOn, Unstocked, Working, Locking
<1>5. \A b \in Adjusters : b # a => pc'[b] = pc[b]
  BY <1>2 DEF TypeOK
<1>6. pc'[a] \in {"done", "failed"}
  BY <1>2 DEF TypeOK
<1>7. \A j : WorkingOn(j)' = WorkingOn(j) \ {a}
  BY <1>1, <1>5, <1>6 DEF WorkingOn, Item, Working, Locking
<1>8. TypeOK'
  BY <1>1, <1>2, <1>3 DEF TypeOK, Phases
<1>9. Checked' /\ NeverNegative'
  <2>1. new >= 0
    BY <1>1 DEF Checked, Working, Locking
  <2>2. NeverNegative'
    BY <1>1, <1>3, <2>1 DEF NeverNegative, TypeOK
  <2>3. Checked'
    BY <1>1, <1>5, <1>6 DEF Checked, Working, Locking
  <2> QED BY <2>2, <2>3
<1>10. Unstocked'
  BY <1>1, <1>4, <1>7 DEF Unstocked, TypeOK
<1>11. AloneAndFresh'
  <2> SUFFICES ASSUME NEW j \in Items \ overlapped
               PROVE  /\ \A b, c \in WorkingOn(j)' : b = c
                      /\ \A b \in WorkingOn(j)' : previous[b] = quantity'[j]
    BY <1>1 DEF AloneAndFresh
  <2>1. CASE j = i
    BY <1>4, <1>7, <2>1 DEF AloneAndFresh
  <2>2. CASE j # i
    BY <1>1, <1>7, <2>2 DEF AloneAndFresh, TypeOK
  <2> QED BY <2>1, <2>2
<1>12. i \notin overlapped => previous[a] = quantity[i]
  BY <1>3, <1>4 DEF AloneAndFresh
<1>13. SerialStockIsBooked'
  <2> SUFFICES ASSUME NEW j \in Items \ overlapped
               PROVE  /\ quantity'[j] = opening[j] + transactions'[j]
                      /\ adjustments'[j] = transactions'[j]
    BY <1>1 DEF SerialStockIsBooked
  <2>1. /\ quantity[j] = opening[j] + transactions[j] /\ adjustments[j] = transactions[j]
        /\ quantity[j] \in Int /\ opening[j] \in Int /\ transactions[j] \in Int
    BY DEF SerialStockIsBooked, TypeOK
  <2>2. CASE j = i
    <3>1. quantity'[j] = quantity[j] + d
      BY <1>1, <1>3, <1>12, <2>2 DEF TypeOK
    <3>2. transactions'[j] = transactions[j] + d /\ adjustments'[j] = adjustments[j] + d
      BY <1>1, <1>3, <2>2 DEF TypeOK
    <3> QED BY <1>3, <2>1, <3>1, <3>2
  <2>3. CASE j # i
    BY <1>1, <2>1, <2>3 DEF TypeOK
  <2> QED BY <2>2, <2>3
<1>14. Quiet'
  BY <1>1, <1>2, <1>5, <1>6 DEF Quiet, Running, Working, Locking
<1>15. SerialAlertsAreRight'
  <2>1. a \notin crossed /\ a \notin announced
    BY <1>1 DEF Quiet, Running, Working, Locking
  <2>2. i \notin overlapped =>
           /\ a \in announced' => a \in crossed'
           /\ a \in crossed' => a \in announced' \/ pc'[a] = "failed"
    BY <1>1, <1>2, <1>12, <2>1 DEF TypeOK
  <2>3. \A b \in Adjusters : b # a =>
           /\ b \in announced' <=> b \in announced
           /\ b \in crossed' <=> b \in crossed
    BY <1>1, <1>2
  <2> SUFFICES ASSUME NEW b \in Adjusters, Item(b) \notin overlapped
               PROVE  /\ b \in announced' => b \in crossed'
                      /\ b \in crossed' => b \in announced' \/ pc'[b] = "failed"
    BY <1>1 DEF SerialAlertsAreRight, Item
  <2>4. CASE b = a
    BY <2>2, <2>4
  <2>5. CASE b # a
    BY <1>5, <2>3, <2>5 DEF SerialAlertsAreRight
  <2> QED BY <2>4, <2>5
<1> QED BY <1>8, <1>9, <1>10, <1>11, <1>13, <1>14, <1>15

\* The inductive invariant.
THEOREM Invariance == Spec => []Inv
<1>1. Inv /\ [Next]_vars => Inv'
  <2> SUFFICES ASSUME Inv, [Next]_vars PROVE Inv'
    OBVIOUS
  <2> USE DEF Phases, Running, Working, Locking
  <2>1. ASSUME NEW i \in Items, CreateInventoryItem(i) PROVE Inv'
    BY <2>1, CreateInv
  <2>2. ASSUME NEW a \in Adjusters, Call(a) PROVE Inv'
    <3>1. Silent(a, {"idle"}, "find") /\ pc[a] = "idle"
      BY <2>2 DEF Call, Silent
    <3> QED BY <3>1, SilentInv
  <2>3. ASSUME NEW a \in Adjusters, FindItem(a) PROVE Inv'
    BY <2>3, FindInv
  <2>4. ASSUME NEW a \in Adjusters, Refuse(a) PROVE Inv'
    <3>1. Silent(a, {"find"}, "failed") /\ pc[a] = "find"
      BY <2>4 DEF Refuse, Silent
    <3> QED BY <3>1, SilentInv
  <2>5. ASSUME NEW a \in Adjusters, UpdateQuantity(a) PROVE Inv'
    <3>1. Silent(a, {"update"}, "createTransaction") /\ pc[a] = "update"
      BY <2>5 DEF UpdateQuantity, Silent
    <3> QED BY <3>1, SilentInv
  <2>6. ASSUME NEW a \in Adjusters, CreateInventoryTransaction(a) PROVE Inv'
    <3>1. Silent(a, {"createTransaction"}, "createAdjustment") /\ pc[a] = "createTransaction"
      BY <2>6 DEF CreateInventoryTransaction, Silent
    <3> QED BY <3>1, SilentInv
  <2>7. ASSUME NEW a \in Adjusters, CreateStockAdjustment(a) PROVE Inv'
    <3>1. Silent(a, {"createAdjustment"}, "commit") /\ pc[a] = "createAdjustment"
      BY <2>7 DEF CreateStockAdjustment, Silent
    <3> QED BY <3>1, SilentInv
  <2>8. ASSUME NEW a \in Adjusters, Commit(a) PROVE Inv'
    BY <2>8, CommitInv
  <2>9. ASSUME NEW a \in Adjusters, RollBack(a) PROVE Inv'
    <3>1. Silent(a, Running, "failed") /\ pc[a] \in Running
      BY <2>9 DEF RollBack, Silent
    <3> QED BY <3>1, SilentInv
  <2>10. CASE UNCHANGED vars
    BY <2>10 DEF vars, books, Inv, TypeOK, Checked, Unstocked, AloneAndFresh, Quiet, NeverNegative,
                SerialStockIsBooked, SerialAlertsAreRight, WorkingOn, Item
  <2> QED BY <2>1, <2>2, <2>3, <2>4, <2>5, <2>6, <2>7, <2>8, <2>9, <2>10 DEF Next, Adjust
<1> QED BY <1>1, InitInv, PTL DEF Spec

\* The variables keep their types.
THEOREM TypeCorrect == Spec => []TypeOK
<1>1. Inv => TypeOK
  BY DEF Inv
<1> QED BY <1>1, Invariance, PTL

\* For any number of overlapping adjustments, stock is never negative: the
\* transaction writes the quantity that it checked.
THEOREM StockIsNeverNegative == Spec => []NeverNegative
<1>1. Inv => NeverNegative
  BY DEF Inv
<1> QED BY <1>1, Invariance, PTL

\* The stock of an item on which no two adjustments overlapped is what both
\* books say, whatever was refused or rolled back.
THEOREM StockIsBooked == Spec => []SerialStockIsBooked
<1>1. Inv => SerialStockIsBooked
  BY DEF Inv
<1> QED BY <1>1, Invariance, PTL

\* On such an item the low-stock alerts are the crossings of the threshold, but
\* for those whose commit the process never heard of.
THEOREM AlertsAreRight == Spec => []SerialAlertsAreRight
<1>1. Inv => SerialAlertsAreRight
  BY DEF Inv
<1> QED BY <1>1, Invariance, PTL

--------------------------------------------------------------------------------
\* One transaction at a time has the lock of an item, and the item exists.
OneHolder ==
    /\ \A a, b \in Adjusters :
          pc[a] \in Locking /\ pc[b] \in Locking /\ Item(a) = Item(b) => a = b
    /\ \A a \in Adjusters : pc[a] \in Working => Item(a) \in items

\* Whoever holds the lock of an item is the only one to change its stock.
LocksBind ==
    [][\A a \in Adjusters :
          pc[a] \in Locking /\ quantity'[Item(a)] # quantity[Item(a)] => Commit(a)]_vars

\* A call gets the lock only when it is free, and works only on an item that it found.
LEMMA HolderStep == TypeOK /\ OneHolder /\ [Next]_vars => OneHolder'
<1> SUFFICES ASSUME TypeOK, OneHolder, [Next]_vars PROVE OneHolder'
  OBVIOUS
<1> USE DEF OneHolder
<1>1. ASSUME pc' = pc, input' = input, items \subseteq items' PROVE OneHolder'
  BY <1>1 DEF Item
<1>2. ASSUME NEW a \in Adjusters, NEW phase, pc' = [pc EXCEPT ![a] = phase],
             input' = input, items' = items,
             phase \in Locking => pc[a] \in Locking \/ (pc[a] = "update" /\ LockFree(Item(a))),
             phase \in Working => Item(a) \in items
      PROVE  OneHolder'
  <2>1. \A b \in Adjusters : pc'[b] = IF b = a THEN phase ELSE pc[b]
    BY <1>2 DEF TypeOK
  <2>2. \A b \in Adjusters : Item(b)' = Item(b)
    BY <1>2 DEF Item
  <2>3. ASSUME NEW b \in Adjusters, NEW c \in Adjusters, pc'[b] \in Locking, pc'[c] \in Locking,
               Item(b) = Item(c)
        PROVE  b = c
    BY <1>2, <2>1, <2>3 DEF LockFree
  <2>4. \A b \in Adjusters : pc'[b] \in Working => Item(b) \in items
    BY <1>2, <2>1
  <2> QED BY <1>2, <2>2, <2>3, <2>4
<1>3. CASE UNCHANGED vars
  BY <1>1, <1>3 DEF vars
<1>4. ASSUME NEW i \in Items, CreateInventoryItem(i) PROVE OneHolder'
  BY <1>1, <1>4 DEF CreateInventoryItem
<1>5. ASSUME NEW a \in Adjusters, Call(a) \/ Adjust(a) \/ RollBack(a) PROVE OneHolder'
  <2>1. CASE Call(a) \/ Refuse(a) \/ RollBack(a)
    <3>1. PICK phase \in {"find", "failed"} :
             pc' = [pc EXCEPT ![a] = phase] /\ input' = input /\ items' = items
      BY <2>1 DEF Call, Refuse, RollBack, Silent, Goto
    <3> QED BY <1>2, <3>1 DEF Working, Locking
  <2>2. CASE FindItem(a)
    BY <1>2, <2>2 DEF FindItem, Refused, Goto, Locking
  <2>3. CASE UpdateQuantity(a)
    BY <1>2, <2>3 DEF UpdateQuantity, Silent, Goto, Working
  <2>4. CASE CreateInventoryTransaction(a) \/ CreateStockAdjustment(a)
    <3>1. PICK phase \in {"createAdjustment", "commit"} :
             pc' = [pc EXCEPT ![a] = phase] /\ input' = input /\ items' = items
      BY <2>4 DEF CreateInventoryTransaction, CreateStockAdjustment, Silent, Goto
    <3>2. pc[a] \in Locking /\ pc[a] \in Working
      BY <2>4 DEF CreateInventoryTransaction, CreateStockAdjustment, Silent, Working, Locking
    <3> QED BY <1>2, <3>1, <3>2
  <2>5. CASE Commit(a)
    <3>1. PICK phase \in {"done", "failed"} :
             pc' = [pc EXCEPT ![a] = phase] /\ input' = input /\ items' = items
      BY <2>5 DEF Commit, Goto
    <3> QED BY <1>2, <3>1 DEF Working, Locking
  <2> QED BY <1>5, <2>1, <2>2, <2>3, <2>4, <2>5 DEF Adjust
<1> QED BY <1>3, <1>4, <1>5 DEF Next

\* An adjustment that has the row's lock is not interfered with until it ends: no other
\* commit, and no new item, changes that stock.  What is lost by overlapping adjustments is
\* lost between the read and the lock (inventory.repository.ts: findFirst takes no lock,
\* the update takes one and keeps it).
THEOREM LocksHold == Spec => LocksBind
<1>1. Init => OneHolder
  BY DEF Init, OneHolder, Locking, Working
<1>2. ASSUME TypeOK, OneHolder, [Next]_vars, NEW a \in Adjusters, pc[a] \in Locking,
             quantity'[Item(a)] # quantity[Item(a)]
      PROVE  Commit(a)
  <2>1. PICK b \in Adjusters : Commit(b)
    <3>1. Item(a) \in items
      BY <1>2 DEF OneHolder, Working
    <3>2. ASSUME NEW i \in Items, CreateInventoryItem(i) PROVE FALSE
      BY <1>2, <3>1, <3>2 DEF CreateInventoryItem, TypeOK
    <3> QED BY <1>2, <3>2 DEF Next, vars, Call, Adjust, RollBack, FindItem, Refuse, UpdateQuantity,
            CreateInventoryTransaction, CreateStockAdjustment, Silent
  <2>2. Item(b) = Item(a) /\ pc[b] \in Locking
    BY <1>2, <2>1 DEF Commit, TypeOK, Locking
  <2> QED BY <1>2, <2>1, <2>2 DEF OneHolder
<1>3. TypeOK /\ OneHolder /\ [Next]_vars
        => [\A a \in Adjusters :
              pc[a] \in Locking /\ quantity'[Item(a)] # quantity[Item(a)] => Commit(a)]_vars
  BY <1>2
<1> QED BY <1>1, <1>3, HolderStep, TypeCorrect, PTL DEF Spec, LocksBind
================================================================================
