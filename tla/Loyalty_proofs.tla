----------------------------- MODULE Loyalty_proofs -----------------------------
(***************************************************************************)
(* What holds of points and tiers for all customers, calls, costs and      *)
(* tiers.                                                                  *)
(***************************************************************************)
EXTENDS Loyalty, TLAPS, WellFoundedInduction

\* An update that nobody overtook has read the balance.
Seen ==
    \A x \in Updates :
        pc[x] = "write" /\ body[x].balance = None /\ Customer(x) \notin stale =>
            seen[x] = balance[Customer(x)]

\* A redemption that nobody overtook since its check is still covered.
Covered ==
    \A x \in Redemptions \ raced :
        pc[x] \in Locking \cup {"increment"} => balance[Customer(x)] >= body[x].cost

\* Without overlap, a call is alone, and the tier it is about to write is right.
Alone ==
    \A x, y \in Calls :
        /\ pc[x] \in InProgress /\ pc[y] \in InProgress
        /\ Customer(x) = Customer(y) /\ Customer(x) \notin mixed
        => x = y
Targeted ==
    \A x \in Calls :
        pc[x] = "updateTier" /\ Customer(x) \notin mixed => target[x] \in TiersFor(balance[Customer(x)])

Inv == /\ TypeOK /\ Seen /\ Covered /\ Alone /\ Targeted
       /\ PointsAreBooked /\ OverdraftsAreRaces /\ SerialTiersFollow

--------------------------------------------------------------------------------
\* There is a highest tier among those whose range holds the points: a call always
\* finds a tier, or none, to go on with.
LEMMA HighestTier ==
    ASSUME NEW p \in Int
    PROVE  TiersFor(p) \subseteq Tiers \cup {None} /\ TiersFor(p) # {}
<1>1. CASE Eligible(p) = {}
  BY <1>1 DEF TiersFor
<1>2. CASE Eligible(p) # {}
  <2> DEFINE Gap(t) == p - MinPoints[t]
             Gaps == {Gap(t) : t \in Eligible(p)}
  <2>1. \A t \in Eligible(p) : t \in Tiers /\ MinPoints[t] \in Nat /\ Gap(t) \in Nat
    BY TiersAssumption DEF Eligible
  <2>2. Gaps \subseteq Nat /\ Gaps # {}
    BY <1>2, <2>1
  <2>3. PICK n \in Gaps : \A m \in Gaps : ~ (<<m, n>> \in OpToRel(<, Nat))
    <3> HIDE DEF Gaps
    <3>1. IsWellFoundedOn(OpToRel(<, Nat), Nat)
      BY NatLessThanWellFounded
    <3> QED BY <2>2, <3>1, WFMin
  <2>4. \A m \in Gaps : n <= m
    <3> SUFFICES ASSUME NEW m \in Gaps, ~ (n <= m) PROVE FALSE
      OBVIOUS
    <3> HIDE DEF Gaps
    <3>1. <<m, n>> \in Nat \X Nat /\ <<m, n>>[1] < <<m, n>>[2]
      BY <2>2
    <3>2. <<m, n>> \in OpToRel(<, Nat)
      BY <3>1, Zenon DEF OpToRel
    <3> QED BY <2>3, <3>2
  <2>5. PICK t \in Eligible(p) : n = Gap(t)
    OBVIOUS
  <2>6. \A s \in Eligible(p) : MinPoints[s] <= MinPoints[t]
    <3> SUFFICES ASSUME NEW s \in Eligible(p) PROVE MinPoints[s] <= MinPoints[t]
      OBVIOUS
    <3>1. n <= Gap(s)
      BY <2>4
    <3> QED BY <2>1, <2>5, <3>1
  <2> QED BY <1>2, <2>1, <2>6 DEF TiersFor
<1> QED BY <1>1, <1>2

\* What a call is made with has its type.
LEMMA Typed ==
    ASSUME TypeOK, NEW x \in Calls
    PROVE  /\ Customer(x) \in Customers /\ Delta(x) \in Int
           /\ x \in Redemptions => body[x].cost \in Nat
           /\ x \in Updates => body[x].balance \in Int \cup {None}
<1>1. CASE x \in Redemptions
  <2>1. body[x] \in RedeemBody
    BY <1>1 DEF TypeOK
  <2>2. body[x].customer \in Customers /\ body[x].cost \in Nat
    BY <2>1, PointsAssumption DEF RedeemBody
  <2> QED BY <1>1, <2>2, CallsAssumption DEF Customer, Delta
<1>2. CASE x \in Updates
  <2>1. body[x] \in UpdateBody
    BY <1>2 DEF TypeOK
  <2>2. /\ body[x].customer \in Customers /\ body[x].delta \in Int
        /\ body[x].balance \in Int \cup {None}
    BY <2>1, PointsAssumption DEF UpdateBody
  <2> QED BY <1>2, <2>2, CallsAssumption DEF Customer, Delta
<1> QED BY <1>1, <1>2 DEF Calls

\* The invariant holds before the first call.
LEMMA InitInv == Init => Inv
<1> SUFFICES ASSUME Init PROVE Inv
  OBVIOUS
<1>1. TypeOK
  <2>1. /\ opening \in [Customers -> Int] /\ balance \in [Customers -> Int]
        /\ body \in [Calls -> RedeemBody \cup UpdateBody]
        /\ \A x \in Redemptions : body[x] \in RedeemBody
        /\ \A x \in Updates : body[x] \in UpdateBody
    BY PointsAssumption DEF Init
  <2> QED BY <2>1 DEF Init, TypeOK, Phases
<1>2. \A x \in Calls : pc[x] = "idle"
  BY DEF Init
<1>3. Seen /\ Covered /\ Alone /\ Targeted
  BY <1>2 DEF Seen, Covered, Alone, Targeted, InProgress, Locking, Calls
<1>4. PointsAreBooked
  <2>1. \A c \in Customers :
           /\ balance[c] = opening[c] /\ opening[c] \in Int
           /\ rewards[c] = 0 /\ changes[c] = 0 /\ spent[c] = 0 /\ corrected[c] = 0
    BY <1>1 DEF Init, TypeOK
  <2> SUFFICES ASSUME NEW c \in Customers
               PROVE  /\ rewards[c] = 0 - spent[c]
                      /\ balance[c] = opening[c] + rewards[c] + changes[c] + corrected[c]
    BY DEF PointsAreBooked
  <2> QED BY <2>1
<1>5. OverdraftsAreRaces /\ SerialTiersFollow
  BY DEF Init, OverdraftsAreRaces, SerialTiersFollow
<1> QED BY <1>1, <1>3, <1>4, <1>5 DEF Inv

\* A step that only reads keeps the invariant if what it reads or checks is what
\* its next phase relies on.
LEMMA StepInv ==
    ASSUME Inv, NEW x \in Calls, NEW from, NEW to \in Phases, Step(x, from, to),
           pc[x] \in InProgress,
           seen' \in [Calls -> Int], target' \in [Calls -> Tiers \cup {None}],
           \A y \in Calls : y # x => seen'[y] = seen[y] /\ target'[y] = target[y],
           to = "write" => seen'[x] = balance[Customer(x)],
           to = "updateTier" => target'[x] \in TiersFor(balance[Customer(x)]),
           x \in Redemptions /\ to \in Locking \cup {"increment"} =>
               \/ pc[x] \in Locking \cup {"increment"}
               \/ balance[Customer(x)] >= body[x].cost
    PROVE  Inv'
<1> USE DEF Inv
<1>1. /\ pc' = [pc EXCEPT ![x] = to]
      /\ UNCHANGED <<balance, rewards, changes, spent, tier, body, opening, corrected, stale,
                     raced, uncovered, due, mixed>>
  BY DEF Step, Goto, points, ghosts
<1>2. pc'[x] = to /\ \A y \in Calls : y # x => pc'[y] = pc[y]
  BY <1>1 DEF TypeOK
<1>3. TypeOK'
  BY <1>1 DEF TypeOK
<1>4. Seen'
  <2> SUFFICES ASSUME NEW y \in Updates, pc'[y] = "write", body[y].balance = None,
                      Customer(y) \notin stale
               PROVE  seen'[y] = balance[Customer(y)]
    BY <1>1 DEF Seen, Customer
  <2> QED BY <1>2 DEF Seen, Calls
<1>5. Covered'
  <2> SUFFICES ASSUME NEW y \in Redemptions \ raced, pc'[y] \in Locking \cup {"increment"}
               PROVE  balance[Customer(y)] >= body[y].cost
    BY <1>1 DEF Covered, Customer
  <2> QED BY <1>2 DEF Covered, Calls
<1>6. Alone'
  BY <1>1, <1>2 DEF Alone, Customer
<1>7. Targeted'
  <2> SUFFICES ASSUME NEW y \in Calls, pc'[y] = "updateTier", Customer(y) \notin mixed
               PROVE  target'[y] \in TiersFor(balance[Customer(y)])
    BY <1>1 DEF Targeted, Customer
  <2> QED BY <1>2 DEF Targeted
<1>8. PointsAreBooked' /\ OverdraftsAreRaces' /\ SerialTiersFollow'
  BY <1>1 DEF PointsAreBooked, OverdraftsAreRaces, SerialTiersFollow
<1> QED BY <1>3, <1>4, <1>5, <1>6, <1>7, <1>8

\* A call that finds its customer busy is noted, and one that does not is alone.
LEMMA CallInv == ASSUME Inv, NEW x \in Calls, Call(x) PROVE Inv'
<1> USE DEF Inv
<1>1. /\ pc[x] = "idle"
      /\ pc' = [pc EXCEPT ![x] = IF x \in Redemptions THEN "check" ELSE "read"]
      /\ mixed' = IF \E y \in Calls : pc[y] \in InProgress /\ Customer(y) = Customer(x)
                  THEN mixed \cup {Customer(x)} ELSE mixed
      /\ UNCHANGED <<balance, rewards, changes, spent, tier, body, seen, target, opening,
                     corrected, stale, raced, uncovered, due>>
  BY DEF Call, Goto, points, ghosts
<1>2. pc'[x] \in {"check", "read"} /\ \A y \in Calls : y # x => pc'[y] = pc[y]
  BY <1>1 DEF TypeOK
<1>3. TypeOK'
  BY <1>1, Typed DEF TypeOK, Phases
<1>4. Seen' /\ Covered'
  BY <1>1, <1>2 DEF Seen, Covered, Calls, Customer, Locking
<1>5. Alone'
  <2> SUFFICES ASSUME NEW y \in Calls, NEW z \in Calls, pc'[y] \in InProgress,
                      pc'[z] \in InProgress, Customer(y) = Customer(z),
                      Customer(y) \notin mixed', y # z
               PROVE  FALSE
    BY <1>1 DEF Alone, Customer
  <2> QED BY <1>1, <1>2 DEF Alone
<1>6. Targeted'
  BY <1>1, <1>2 DEF Targeted, Customer
<1>7. PointsAreBooked' /\ OverdraftsAreRaces' /\ SerialTiersFollow'
  BY <1>1 DEF PointsAreBooked, OverdraftsAreRaces, SerialTiersFollow
<1> QED BY <1>3, <1>4, <1>5, <1>6, <1>7

\* What a changed balance does to those who have read it: whoever relies on it
\* is noted as overtaken, and without overlap there is nobody but x.
LEMMA OvertakesInv ==
    ASSUME Inv, NEW x \in Calls, NEW to, Goto(x, to), Overtakes(x),
           pc[x] \in InProgress, to \notin {"write", "increment", "updateTier"} \cup Locking,
           UNCHANGED <<body, seen, target, mixed, tier>>,
           \A c \in Customers : c # Customer(x) => balance'[c] = balance[c]
    PROVE  Seen' /\ Covered' /\ Alone' /\ Targeted' /\ SerialTiersFollow'
<1> USE DEF Inv
<1>1. pc'[x] = to /\ \A y \in Calls : y # x => pc'[y] = pc[y]
  BY DEF Goto, TypeOK
<1>2. \A y \in Calls : Customer(y) \in Customers /\ Customer(y)' = Customer(y)
  BY Typed DEF Customer
<1>3. /\ raced' = raced \cup {y \in Redemptions \ {x} : /\ pc[y] \in Locking \cup {"increment"}
                                                       /\ Customer(y) = Customer(x)}
      /\ stale' = IF \E y \in Updates \ {x} : /\ pc[y] = "write" /\ body[y].balance = None
                                             /\ Customer(y) = Customer(x)
                  THEN stale \cup {Customer(x)} ELSE stale
      /\ due' = due \cup {Customer(x)}
  BY DEF Overtakes
<1>4. Seen'
  <2> SUFFICES ASSUME NEW y \in Updates, pc'[y] = "write", body[y].balance = None,
                      Customer(y) \notin stale'
               PROVE  seen[y] = balance'[Customer(y)]
    BY <1>2 DEF Seen, Calls
  <2>1. y # x /\ y \in Calls
    BY <1>1 DEF Calls
  <2>2. Customer(y) # Customer(x) /\ Customer(y) \notin stale
    BY <1>1, <1>3, <2>1
  <2> QED BY <1>1, <1>2, <2>1, <2>2 DEF Seen
<1>5. Covered'
  <2> SUFFICES ASSUME NEW y \in Redemptions \ raced', pc'[y] \in Locking \cup {"increment"}
               PROVE  balance'[Customer(y)] >= body[y].cost
    BY <1>2 DEF Covered, Calls
  <2>1. y # x /\ y \in Calls
    BY <1>1 DEF Calls
  <2>2. Customer(y) # Customer(x) /\ y \notin raced
    BY <1>1, <1>3, <2>1
  <2> QED BY <1>1, <1>2, <2>1, <2>2 DEF Covered
<1>6. Alone'
  <2> SUFFICES ASSUME NEW y \in Calls, NEW z \in Calls, pc'[y] \in InProgress,
                      pc'[z] \in InProgress, Customer(y) = Customer(z), Customer(y) \notin mixed
               PROVE  y = z
    BY <1>2 DEF Alone
  <2> QED BY <1>1 DEF Alone
<1>7. Targeted'
  <2> SUFFICES ASSUME NEW y \in Calls, pc'[y] = "updateTier", Customer(y) \notin mixed
               PROVE  target[y] \in TiersFor(balance'[Customer(y)])
    BY <1>2 DEF Targeted, TiersFor, Eligible
  <2>1. y # x
    BY <1>1
  <2>2. Customer(y) # Customer(x)
    BY <1>1, <2>1 DEF Alone, InProgress, Phases
  <2> QED BY <1>1, <1>2, <2>1, <2>2 DEF Targeted
<1>8. SerialTiersFollow'
  <2> SUFFICES ASSUME NEW c \in Customers \ (mixed \cup due')
               PROVE  tier[c] \in TiersFor(balance'[c])
    BY DEF SerialTiersFollow, TiersFor, Eligible
  <2>1. c # Customer(x) /\ c \notin due
    BY <1>3
  <2> QED BY <2>1 DEF SerialTiersFollow
<1> QED BY <1>4, <1>5, <1>6, <1>7, <1>8

\* An update writes what it was given, which counts as a correction, or what it
\* has read, which is the balance unless somebody overtook it.
LEMMA WriteInv == ASSUME Inv, NEW x \in Updates, WriteCustomer(x) PROVE Inv'
<1> USE DEF Inv
<1> DEFINE c == Customer(x)
           new == UpdatedBalance(x)
<1>1. /\ pc[x] = "write"
      /\ balance' = [balance EXCEPT ![c] = new]
      /\ corrected' = IF body[x].balance = None THEN corrected
                      ELSE [corrected EXCEPT ![c] = @ + body[x].balance - balance[c]]
      /\ Overtakes(x)
      /\ UNCHANGED <<rewards, changes, spent, tier, body, seen, target, opening, uncovered, mixed>>
  BY DEF WriteCustomer
<1>2. PICK to \in {"done", "findCustomer", "failed"} : Goto(x, to)
  BY DEF WriteCustomer
<1>3. x \in Calls /\ c \in Customers /\ body[x].balance \in Int \cup {None} /\ seen[x] \in Int
  BY Typed DEF Calls, TypeOK
<1>4. new \in Int
  BY <1>3 DEF UpdatedBalance
<1>5. TypeOK'
  <2>1. balance' \in [Customers -> Int]
    BY <1>1, <1>4 DEF TypeOK
  <2>2. corrected' \in [Customers -> Int]
    <3>1. balance[c] \in Int /\ corrected[c] \in Int
      BY <1>3 DEF TypeOK
    <3>2. body[x].balance # None => corrected[c] + body[x].balance - balance[c] \in Int
      BY <1>3, <3>1
    <3> QED BY <1>1, <3>2 DEF TypeOK
  <2>3. raced' \subseteq Redemptions /\ stale' \subseteq Customers /\ due' \subseteq Customers
    BY <1>1, <1>3 DEF Overtakes, TypeOK
  <2>4. pc' \in [Calls -> Phases]
    BY <1>2 DEF Goto, TypeOK, Phases
  <2> QED BY <1>1, <2>1, <2>2, <2>3, <2>4 DEF TypeOK
<1>6. Seen' /\ Covered' /\ Alone' /\ Targeted' /\ SerialTiersFollow'
  <2>1. pc[x] \in InProgress
    BY <1>1 DEF InProgress, Phases
  <2>2. to \notin {"write", "increment", "updateTier"} \cup Locking
    BY <1>2 DEF Locking
  <2>3. \A d \in Customers : d # c => balance'[d] = balance[d]
    BY <1>1 DEF TypeOK
  <2> QED BY <1>1, <1>2, <1>3, <2>1, <2>2, <2>3, OvertakesInv
<1>7. PointsAreBooked'
  <2> SUFFICES ASSUME NEW d \in Customers, d \notin stale'
               PROVE  balance'[d] = opening[d] + rewards[d] + changes[d] + corrected'[d]
    BY <1>1 DEF PointsAreBooked
  <2>1. d \notin stale
    BY <1>1 DEF Overtakes
  <2>2. /\ balance[d] = opening[d] + rewards[d] + changes[d] + corrected[d]
        /\ balance[d] \in Int /\ opening[d] \in Int /\ rewards[d] \in Int
        /\ changes[d] \in Int /\ corrected[d] \in Int
    BY <2>1 DEF PointsAreBooked, TypeOK
  <2>3. CASE d # c
    BY <1>1, <2>2, <2>3 DEF TypeOK
  <2>4. CASE d = c /\ body[x].balance = None
    <3>1. seen[x] = balance[c]
      BY <1>1, <2>1, <2>4 DEF Seen
    <3> QED BY <1>1, <1>3, <2>2, <2>4, <3>1 DEF UpdatedBalance, TypeOK
  <2>5. CASE d = c /\ body[x].balance # None
    <3>1. balance'[d] = body[x].balance
      BY <1>1, <1>3, <2>5 DEF UpdatedBalance, TypeOK
    <3>2. corrected'[d] = corrected[d] + body[x].balance - balance[d]
      BY <1>1, <1>3, <2>5 DEF TypeOK
    <3> QED BY <1>3, <2>2, <2>5, <3>1, <3>2
  <2> QED BY <2>3, <2>4, <2>5
<1>8. OverdraftsAreRaces'
  BY <1>1 DEF OverdraftsAreRaces, Overtakes
<1> QED BY <1>5, <1>6, <1>7, <1>8

\* A commit adds its change to the balance and to the books, whatever the balance
\* is by then; a redemption that takes too much has been overtaken.
LEMMA CommitInv == ASSUME Inv, NEW x \in Calls, Commit(x) PROVE Inv'
<1> USE DEF Inv
<1> DEFINE c == Customer(x)
           d == Delta(x)
<1>1. /\ pc[x] = "commit"
      /\ balance' = [balance EXCEPT ![c] = @ + d]
      /\ Overtakes(x)
      /\ UNCHANGED <<tier, body, seen, target, opening, corrected, mixed>>
  BY DEF Commit
<1>2. PICK to \in {"findTiers", "failed"} : Goto(x, to)
  BY DEF Commit
<1>3. x \in Redemptions =>
         /\ rewards' = [rewards EXCEPT ![c] = @ + d]
         /\ spent' = [spent EXCEPT ![c] = @ + body[x].cost]
         /\ uncovered' = IF balance[c] < body[x].cost THEN uncovered \cup {x} ELSE uncovered
         /\ changes' = changes
  BY DEF Commit
<1>4. x \notin Redemptions =>
         /\ changes' = [changes EXCEPT ![c] = @ + d]
         /\ rewards' = rewards /\ spent' = spent /\ uncovered' = uncovered
  BY DEF Commit
<1>5. /\ c \in Customers /\ d \in Int
      /\ x \in Redemptions => body[x].cost \in Nat /\ d = 0 - body[x].cost
  BY Typed DEF Delta
<1>6. /\ balance[c] \in Int /\ rewards[c] \in Int /\ changes[c] \in Int /\ spent[c] \in Nat
      /\ opening[c] \in Int /\ corrected[c] \in Int
  BY <1>5 DEF TypeOK
<1>7. TypeOK'
  <2>1. balance' \in [Customers -> Int]
    BY <1>1, <1>5, <1>6 DEF TypeOK
  <2>2. /\ rewards' \in [Customers -> Int] /\ spent' \in [Customers -> Nat]
        /\ changes' \in [Customers -> Int] /\ uncovered' \subseteq Redemptions
    <3>1. CASE x \in Redemptions
      BY <1>3, <1>5, <1>6, <3>1 DEF TypeOK
    <3>2. CASE x \notin Redemptions
      BY <1>4, <1>5, <1>6, <3>2 DEF TypeOK
    <3> QED BY <3>1, <3>2
  <2>3. raced' \subseteq Redemptions /\ stale' \subseteq Customers /\ due' \subseteq Customers
    BY <1>1, <1>5 DEF Overtakes, TypeOK
  <2>4. pc' \in [Calls -> Phases]
    BY <1>2 DEF Goto, TypeOK, Phases
  <2> QED BY <1>1, <2>1, <2>2, <2>3, <2>4 DEF TypeOK
<1>8. Seen' /\ Covered' /\ Alone' /\ Targeted' /\ SerialTiersFollow'
  <2>1. pc[x] \in InProgress
    BY <1>1 DEF InProgress, Phases, Locking
  <2>2. to \notin {"write", "increment", "updateTier"} \cup Locking
    BY <1>2 DEF Locking
  <2>3. \A e \in Customers : e # c => balance'[e] = balance[e]
    BY <1>1 DEF TypeOK
  <2> QED BY <1>1, <1>2, <2>1, <2>2, <2>3, OvertakesInv
<1>9. PointsAreBooked'
  <2> SUFFICES ASSUME NEW e \in Customers
               PROVE  /\ rewards'[e] = 0 - spent'[e]
                      /\ e \notin stale' =>
                            balance'[e] = opening[e] + rewards'[e] + changes'[e] + corrected[e]
    BY <1>1 DEF PointsAreBooked
  <2>1. /\ rewards[e] = 0 - spent[e]
        /\ e \notin stale' => balance[e] = opening[e] + rewards[e] + changes[e] + corrected[e]
    BY <1>1 DEF PointsAreBooked, Overtakes
  <2>2. CASE e # c
    <3>1. /\ balance'[e] = balance[e] /\ rewards'[e] = rewards[e]
          /\ changes'[e] = changes[e] /\ spent'[e] = spent[e]
      BY <1>1, <1>3, <1>4, <2>2 DEF TypeOK
    <3> QED BY <2>1, <3>1
  <2>3. CASE e = c /\ x \in Redemptions
    <3>1. /\ balance'[c] = balance[c] + d /\ rewards'[c] = rewards[c] + d
          /\ changes'[c] = changes[c] /\ spent'[c] = spent[c] + body[x].cost
      BY <1>1, <1>3, <1>5, <2>3 DEF TypeOK
    <3> QED BY <1>5, <1>6, <2>1, <2>3, <3>1
  <2>4. CASE e = c /\ x \notin Redemptions
    <3>1. /\ balance'[c] = balance[c] + d /\ rewards'[c] = rewards[c]
          /\ changes'[c] = changes[c] + d /\ spent'[c] = spent[c]
      BY <1>1, <1>4, <1>5, <2>4 DEF TypeOK
    <3> QED BY <1>5, <1>6, <2>1, <2>4, <3>1
  <2> QED BY <2>2, <2>3, <2>4
<1>10. OverdraftsAreRaces'
  <2>1. raced \subseteq raced'
    BY <1>1 DEF Overtakes
  <2>2. x \in Redemptions /\ balance[c] < body[x].cost => x \in raced
    BY <1>1, <1>5, <1>6 DEF Covered, Locking
  <2> QED BY <1>3, <1>4, <2>1, <2>2 DEF OverdraftsAreRaces
<1> QED BY <1>7, <1>8, <1>9, <1>10

\* A call that settles the tier ends with a tier for the points, unless another
\* call was in progress.
LEMMA SettleInv ==
    ASSUME Inv, NEW x \in Calls, NEW to \in {"done", "failed"}, Settle(x, to), target' = target,
           pc[x] \in InProgress,
           NEW new \in Tiers \cup {None}, tier' = [tier EXCEPT ![Customer(x)] = new],
           Customer(x) \notin mixed => new \in TiersFor(balance[Customer(x)])
    PROVE  Inv'
<1> USE DEF Inv
<1>1. /\ pc' = [pc EXCEPT ![x] = to] /\ due' = due \ {Customer(x)}
      /\ UNCHANGED <<balance, rewards, changes, spent, body, seen, opening, corrected, stale,
                     raced, uncovered, mixed>>
  BY DEF Settle, Goto, points
<1>2. pc'[x] = to /\ \A y \in Calls : y # x => pc'[y] = pc[y]
  BY <1>1 DEF TypeOK
<1>3. TypeOK'
  BY <1>1 DEF TypeOK, Phases
<1>4. Seen' /\ Covered'
  BY <1>1, <1>2 DEF Seen, Covered, Calls, Customer, Locking
<1>5. Alone'
  BY <1>1, <1>2 DEF Alone, Customer
<1>6. Targeted'
  BY <1>1, <1>2 DEF Targeted, Customer
<1>7. SerialTiersFollow'
  <2> SUFFICES ASSUME NEW c \in Customers \ (mixed \cup due')
               PROVE  tier'[c] \in TiersFor(balance[c])
    BY <1>1 DEF SerialTiersFollow
  <2>1. CASE c = Customer(x)
    BY <2>1 DEF TypeOK
  <2>2. CASE c # Customer(x)
    BY <1>1, <2>2 DEF SerialTiersFollow, TypeOK
  <2> QED BY <2>1, <2>2
<1>8. PointsAreBooked' /\ OverdraftsAreRaces'
  BY <1>1 DEF PointsAreBooked, OverdraftsAreRaces
<1> QED BY <1>3, <1>4, <1>5, <1>6, <1>7, <1>8

\* The tier is settled, or the call goes on with the tier it has resolved.
LEMMA FindTiersInv == ASSUME Inv, NEW x \in Calls, FindTiers(x) PROVE Inv'
<1> USE DEF Inv
<1>1. balance[Customer(x)] \in Int
  BY Typed DEF TypeOK
<1>2. PICK new \in TiersFor(balance[Customer(x)]) : Resolve(x, new)
  BY DEF FindTiers
<1>3. new \in Tiers \cup {None}
  BY <1>1, HighestTier
<1>4. pc[x] = "findTiers" /\ pc[x] \in InProgress
  BY <1>2 DEF Resolve, InProgress, Phases
<1>5. CASE new = tier[Customer(x)] /\ Settle(x, "done") /\ UNCHANGED <<tier, target>>
  <2>1. tier' = [tier EXCEPT ![Customer(x)] = new]
    BY <1>5 DEF TypeOK
  <2> QED BY <1>3, <1>4, <1>5, <2>1, SettleInv
<1>6. CASE /\ Step(x, {"findTiers"}, "updateTier")
           /\ target' = [target EXCEPT ![x] = new] /\ UNCHANGED seen
  <2>1. /\ target' \in [Calls -> Tiers \cup {None}] /\ target'[x] = new /\ seen' \in [Calls -> Int]
        /\ \A y \in Calls : y # x => seen'[y] = seen[y] /\ target'[y] = target[y]
    BY <1>3, <1>6 DEF TypeOK
  <2> QED BY <1>4, <1>6, <2>1, StepInv DEF Phases, Locking
<1> QED BY <1>2, <1>5, <1>6 DEF Resolve

\* Every step of every call keeps the invariant.
LEMMA NextInv == ASSUME Inv, [Next]_vars PROVE Inv'
<1> USE DEF Inv
<1>1. CASE UNCHANGED vars
  BY <1>1 DEF vars, points, ghosts, TypeOK, Seen, Covered, Alone, Targeted, PointsAreBooked,
              OverdraftsAreRaces, SerialTiersFollow, Customer
<1>2. ASSUME NEW x \in Calls, Call(x) PROVE Inv'
  BY <1>2, CallInv
<1>3. ASSUME NEW x \in Calls, NEW from \in SUBSET InProgress, NEW to \in Phases,
             Step(x, from, to), UNCHANGED <<seen, target>>, to \notin {"write", "updateTier"},
             x \in Redemptions /\ to \in Locking \cup {"increment"} =>
                 \/ pc[x] \in Locking \cup {"increment"}
                 \/ balance[Customer(x)] >= body[x].cost
      PROVE  Inv'
  <2>1. pc[x] \in InProgress
    BY <1>3 DEF Step
  <2>2. seen' \in [Calls -> Int] /\ target' \in [Calls -> Tiers \cup {None}]
    BY <1>3 DEF TypeOK
  <2> QED BY <1>3, <2>1, <2>2, StepInv
<1>4. ASSUME NEW x \in Redemptions, CheckPoints(x) PROVE Inv'
  <2>1. x \in Calls /\ balance[Customer(x)] \in Int /\ body[x].cost \in Nat
    BY Typed DEF Calls, TypeOK
  <2>2. {"check"} \subseteq InProgress
    BY DEF InProgress, Phases
  <2>3. CASE body[x].cost > balance[Customer(x)]
    <3>1. Step(x, {"check"}, "failed") /\ UNCHANGED <<seen, target>>
      BY <1>4, <2>3 DEF CheckPoints
    <3> QED BY <1>3, <2>1, <2>2, <3>1 DEF Phases, Locking
  <2>4. CASE ~ (body[x].cost > balance[Customer(x)])
    <3>1. Step(x, {"check"}, "increment") /\ UNCHANGED <<seen, target>>
      BY <1>4, <2>4 DEF CheckPoints
    <3>2. balance[Customer(x)] >= body[x].cost
      BY <2>1, <2>4
    <3> QED BY <1>3, <2>1, <2>2, <3>1, <3>2 DEF Phases, Locking
  <2> QED BY <2>3, <2>4
<1>5. ASSUME NEW x \in Updates, ReadCustomer(x) PROVE Inv'
  <2>1. x \in Calls /\ Customer(x) \in Customers /\ balance[Customer(x)] \in Int
    BY Typed DEF Calls, TypeOK
  <2>2. /\ seen' \in [Calls -> Int] /\ seen'[x] = balance[Customer(x)] /\ target' = target
        /\ \A y \in Calls : y # x => seen'[y] = seen[y]
    BY <1>5, <2>1 DEF ReadCustomer, TypeOK
  <2>3. Step(x, {"read"}, "write") /\ pc[x] \in InProgress
    BY <1>5 DEF ReadCustomer, Step, InProgress, Phases
  <2> QED BY <2>1, <2>2, <2>3, StepInv DEF TypeOK, Phases, Locking
<1>6. ASSUME NEW x \in Updates, FindCustomer(x) PROVE Inv'
  <2>1. Step(x, {"findCustomer"}, "increment") /\ UNCHANGED <<seen, target>>
    BY <1>6 DEF FindCustomer
  <2>2. x \in Calls /\ x \notin Redemptions /\ {"findCustomer"} \subseteq InProgress
    BY CallsAssumption DEF Calls, InProgress, Phases
  <2> QED BY <1>3, <2>1, <2>2 DEF Phases
<1>7. ASSUME NEW x \in Calls, Increment(x) \/ CreateTransaction(x) \/ CreateRedemption(x)
      PROVE  Inv'
  <2>1. PICK from \in {"increment", "createTransaction", "createRedemption"}, to \in Locking :
           Step(x, {from}, to) /\ UNCHANGED <<seen, target>>
    BY <1>7 DEF Increment, CreateTransaction, CreateRedemption, Locking
  <2>2. pc[x] \in Locking \cup {"increment"} /\ {from} \subseteq InProgress
    BY <2>1 DEF Step, Locking, InProgress, Phases
  <2> QED BY <1>3, <2>1, <2>2 DEF Phases, Locking
<1>8. ASSUME NEW x \in Calls, UpdateTier(x) PROVE Inv'
  <2>1. /\ pc[x] = "updateTier" /\ tier' = [tier EXCEPT ![Customer(x)] = target[x]]
        /\ Settle(x, "done") \/ Settle(x, "failed")
        /\ target' = target
    BY <1>8 DEF UpdateTier
  <2>2. /\ target[x] \in Tiers \cup {None} /\ pc[x] \in InProgress
        /\ Customer(x) \notin mixed => target[x] \in TiersFor(balance[Customer(x)])
    BY <2>1 DEF TypeOK, Targeted, InProgress, Phases
  <2> QED BY <2>1, <2>2, SettleInv
<1>9. ASSUME NEW x \in Calls, Abort(x) PROVE Inv'
  <2>1. Step(x, InProgress, "failed") /\ UNCHANGED <<seen, target>>
    BY <1>9 DEF Abort
  <2> QED BY <1>3, <2>1 DEF Phases, Locking
<1>10. ASSUME NEW x \in Calls, Resume(x) PROVE Inv'
  <2>1. CASE Commit(x)
    BY <2>1, CommitInv
  <2>2. CASE FindTiers(x)
    BY <2>2, FindTiersInv
  <2>3. CASE x \in Updates /\ WriteCustomer(x)
    BY <2>3, WriteInv
  <2> QED BY <1>4, <1>5, <1>6, <1>7, <1>8, <1>10, <2>1, <2>2, <2>3
             DEF Resume, Change, Redeem, Update
<1> QED BY <1>1, <1>2, <1>9, <1>10 DEF Next

--------------------------------------------------------------------------------
\* The inductive invariant.
THEOREM Invariance == Spec => []Inv
<1>1. Inv /\ [Next]_vars => Inv'
  BY NextInv
<1> QED BY <1>1, InitInv, PTL DEF Spec

\* The variables keep their types; in particular a tier that is settled exists.
THEOREM TypeCorrect == Spec => []TypeOK
<1>1. Inv => TypeOK
  BY DEF Inv
<1> QED BY <1>1, Invariance, PTL

\* However many calls interleave and are rolled back, a balance departs from the
\* books only where an update has written back what was no longer so.
THEOREM Booked == Spec => []PointsAreBooked
<1>1. Inv => PointsAreBooked
  BY DEF Inv
<1> QED BY <1>1, Invariance, PTL

\* A redemption that takes more than there is has been overtaken since its check.
THEOREM Overdrafts == Spec => []OverdraftsAreRaces
<1>1. Inv => OverdraftsAreRaces
  BY DEF Inv
<1> QED BY <1>1, Invariance, PTL

\* Without overlap, a settled tier is one of the tiers for the points.
THEOREM TiersFollow == Spec => []SerialTiersFollow
<1>1. Inv => SerialTiersFollow
  BY DEF Inv
<1> QED BY <1>1, Invariance, PTL
================================================================================
