-------------------------------- MODULE Loyalty --------------------------------
(***************************************************************************)
(* Loyalty points and tiers: redeemReward, and update with the             *)
(* adjustPoints it calls, of LoyaltyService.                               *)
(*                                                                         *)
(* Points are changed in two ways: by an increment inside a transaction    *)
(* that also writes the books (applyPointsDelta), and by update, which     *)
(* writes the whole row it has read.  At PostgreSQL's read committed level *)
(* reads take no lock, and every write waits for the lock of the row.      *)
(***************************************************************************)
EXTENDS Integers

CONSTANTS
    Customers,              \* ids of LoyaltyCustomer rows, all of one program
    Tiers,                  \* its tiers
    MinPoints, MaxPoints,   \* of each tier; MaxPoints may be None
    Redemptions,            \* calls of redeemReward
    Updates,                \* calls of update
    Costs,                  \* costs of rewards
    Balances,               \* balances customers are created or updated with
    Deltas,                 \* pointsDelta; 0 is none
    None

Calls == Redemptions \cup Updates

ASSUME CallsAssumption  == Redemptions \cap Updates = {}
ASSUME PointsAssumption == /\ Costs \subseteq Nat /\ Balances \subseteq Int /\ Deltas \subseteq Int
                           /\ None \notin Int /\ None \notin Tiers
ASSUME TiersAssumption  == /\ MinPoints \in [Tiers -> Nat]
                           /\ MaxPoints \in [Tiers -> Nat \cup {None}]

VARIABLES
    balance,        \* pointsBalance
    tier,           \* tierId
    rewards,        \* total of the LoyaltyTransaction rows of redemptions
    changes,        \* total of the other LoyaltyTransaction rows
    spent,          \* total of the RewardRedemption rows
    pc,
    body,           \* what each call was made with
    seen,           \* the balance a call has read
    target,         \* the tier it is about to write
    opening,        \* history: the balance a customer began with
    corrected,      \* history: what explicit balances have added
    stale,          \* history: customers whose balance changed under an update
    raced,          \* history: redemptions under which the balance changed
    uncovered,      \* history: redemptions that took more than there was
    mixed,          \* history: customers with two calls in progress at once
    due             \* history: customers whose points changed since their tier was settled

points == <<balance, rewards, changes, spent>>
ghosts == <<corrected, stale, raced, uncovered, due>>
vars   == <<points, tier, pc, body, seen, target, opening, ghosts, mixed>>

\* Phases are named after the call to the database that comes next.
Locking == {"createTransaction", "createRedemption", "commit"}
Phases == {"idle", "check", "read", "write", "findCustomer", "increment",
           "findTiers", "updateTier", "done", "failed"} \cup Locking
InProgress == Phases \ {"idle", "done", "failed"}

RedeemBody == [customer : Customers, cost : Costs]
UpdateBody == [customer : Customers, balance : Balances \cup {None}, delta : Deltas]

Customer(x) == body[x].customer
Delta(x) == IF x \in Redemptions THEN 0 - body[x].cost ELSE body[x].delta

LockFree(c) == \A y \in Calls : pc[y] \in Locking => Customer(y) # c

\* The highest tier whose range holds the points, if any; nothing keeps two tiers
\* from beginning at the same points, and then it is either.
Eligible(p) == {t \in Tiers : p >= MinPoints[t] /\ (MaxPoints[t] = None \/ p <= MaxPoints[t])}
TiersFor(p) ==
    IF Eligible(p) = {} THEN {None}
    ELSE {t \in Eligible(p) : \A s \in Eligible(p) : MinPoints[s] <= MinPoints[t]}

\* The lowest one, for a mutant.
LowestTiersFor(p) ==
    IF Eligible(p) = {} THEN {None}
    ELSE {t \in Eligible(p) : \A s \in Eligible(p) : MinPoints[t] <= MinPoints[s]}

Init ==
    /\ opening \in [Customers -> Balances]
    /\ balance = opening
    /\ tier = [c \in Customers |-> None]
    /\ rewards = [c \in Customers |-> 0]
    /\ changes = [c \in Customers |-> 0]
    /\ spent = [c \in Customers |-> 0]
    /\ pc = [x \in Calls |-> "idle"]
    /\ body \in {b \in [Calls -> RedeemBody \cup UpdateBody] :
                    /\ \A x \in Redemptions : b[x] \in RedeemBody
                    /\ \A x \in Updates : b[x] \in UpdateBody}
    /\ seen = [x \in Calls |-> 0]
    /\ target = [x \in Calls |-> None]
    /\ corrected = [c \in Customers |-> 0]
    /\ stale = {} /\ raced = {} /\ uncovered = {} /\ mixed = {}
    /\ due = Customers

Goto(x, phase) == pc' = [pc EXCEPT ![x] = phase]

\* A step that reads, or whose writes nobody sees yet.
Step(x, from, to) ==
    /\ pc[x] \in from
    /\ Goto(x, to)
    /\ UNCHANGED <<points, tier, body, opening, ghosts, mixed>>

--------------------------------------------------------------------------------
Call(x) ==
    /\ pc[x] = "idle"
    /\ Goto(x, IF x \in Redemptions THEN "check" ELSE "read")
    /\ mixed' = IF \E y \in Calls : pc[y] \in InProgress /\ Customer(y) = Customer(x)
                THEN mixed \cup {Customer(x)} ELSE mixed
    /\ UNCHANGED <<points, tier, body, seen, target, opening, ghosts>>

\* Mutant: a reward may cost one point more than there is.
CheckPointsLeniently(x) ==
    /\ Step(x, {"check"}, IF body[x].cost > balance[Customer(x)] + 1 THEN "failed" ELSE "increment")
    /\ UNCHANGED <<seen, target>>

\* findUserLoyaltyById, and "Customer does not have enough points".
CheckPoints(x) ==
    /\ Step(x, {"check"}, IF body[x].cost > balance[Customer(x)] THEN "failed" ELSE "increment")
    /\ UNCHANGED <<seen, target>>

\* findUserLoyaltyById in update.
ReadCustomer(x) ==
    /\ Step(x, {"read"}, "write")
    /\ seen' = [seen EXCEPT ![x] = balance[Customer(x)]]
    /\ UNCHANGED target

\* What becomes of the calls that have read a balance which x now changes.
Overtakes(x) ==
    /\ raced' = raced \cup {y \in Redemptions \ {x} : /\ pc[y] \in Locking \cup {"increment"}
                                                      /\ Customer(y) = Customer(x)}
    /\ stale' = IF \E y \in Updates \ {x} : /\ pc[y] = "write" /\ body[y].balance = None
                                            /\ Customer(y) = Customer(x)
                THEN stale \cup {Customer(x)} ELSE stale
    /\ due' = due \cup {Customer(x)}

\* Mutant: what is not given is not taken from the row that was read.
UpdatedBalanceAsGiven(x) == body[x].balance

\* pointsBalance: input.pointsBalance ?? existing.pointsBalance
UpdatedBalance(x) == IF body[x].balance = None THEN seen[x] ELSE body[x].balance

\* updateUserLoyalty; then adjustPoints, if there is a delta.  The tier is not
\* looked at otherwise.
WriteCustomer(x) ==
    LET c == Customer(x)
        to == IF body[x].delta = 0 THEN "done" ELSE "findCustomer"
    IN  /\ pc[x] = "write" /\ LockFree(c)
        /\ balance' = [balance EXCEPT ![c] = UpdatedBalance(x)]
        /\ corrected' = IF body[x].balance = None THEN corrected
                        ELSE [corrected EXCEPT ![c] = @ + body[x].balance - balance[c]]
        /\ Overtakes(x)
        /\ Goto(x, to) \/ Goto(x, "failed")
        /\ UNCHANGED <<rewards, changes, spent, tier, body, seen, target, opening, uncovered, mixed>>

FindCustomer(x) == Step(x, {"findCustomer"}, "increment") /\ UNCHANGED <<seen, target>>

--------------------------------------------------------------------------------
(***************************************************************************)
(* applyPointsDelta: one transaction.                                      *)
(***************************************************************************)
Increment(x) ==
    /\ LockFree(Customer(x))
    /\ Step(x, {"increment"}, "createTransaction")
    /\ UNCHANGED <<seen, target>>

CreateTransaction(x) ==
    /\ Step(x, {"createTransaction"}, IF x \in Redemptions THEN "createRedemption" ELSE "commit")
    /\ UNCHANGED <<seen, target>>

CreateRedemption(x) == Step(x, {"createRedemption"}, "commit") /\ UNCHANGED <<seen, target>>

Commit(x) ==
    LET c == Customer(x)
    IN  /\ pc[x] = "commit"
        /\ balance' = [balance EXCEPT ![c] = @ + Delta(x)]
        /\ IF x \in Redemptions
           THEN /\ rewards' = [rewards EXCEPT ![c] = @ + Delta(x)]
                /\ spent' = [spent EXCEPT ![c] = @ + body[x].cost]
                /\ uncovered' = IF balance[c] < body[x].cost THEN uncovered \cup {x} ELSE uncovered
                /\ UNCHANGED changes
           ELSE /\ changes' = [changes EXCEPT ![c] = @ + Delta(x)]
                /\ UNCHANGED <<rewards, spent, uncovered>>
        /\ Overtakes(x)
        /\ Goto(x, "findTiers") \/ Goto(x, "failed")
        /\ UNCHANGED <<tier, body, seen, target, opening, corrected, mixed>>

--------------------------------------------------------------------------------
(***************************************************************************)
(* resolveTierForCustomer                                                  *)
(***************************************************************************)
Settle(x, to) ==
    /\ Goto(x, to)
    /\ due' = due \ {Customer(x)}
    /\ UNCHANGED <<points, body, seen, opening, corrected, stale, raced, uncovered, mixed>>

Resolve(x, new) ==
    /\ pc[x] = "findTiers"
    /\ \/ /\ new = tier[Customer(x)]
          /\ Settle(x, "done")
          /\ UNCHANGED <<tier, target>>
       \/ /\ new # tier[Customer(x)]
          /\ Step(x, {"findTiers"}, "updateTier")
          /\ target' = [target EXCEPT ![x] = new]
          /\ UNCHANGED seen

\* Mutant: the tiers are sorted the other way.
FindTiersLowest(x) == \E t \in LowestTiersFor(balance[Customer(x)]) : Resolve(x, t)

FindTiers(x) == \E t \in TiersFor(balance[Customer(x)]) : Resolve(x, t)

UpdateTier(x) ==
    /\ pc[x] = "updateTier" /\ LockFree(Customer(x))
    /\ tier' = [tier EXCEPT ![Customer(x)] = target[x]]
    /\ Settle(x, "done") \/ Settle(x, "failed")
    /\ UNCHANGED target

\* Mutant: the increment is not part of the transaction and stays.
AbortKeepingPoints(x) ==
    /\ pc[x] \in Locking
    /\ Goto(x, "failed")
    /\ balance' = [balance EXCEPT ![Customer(x)] = @ + Delta(x)]
    /\ Overtakes(x)
    /\ UNCHANGED <<rewards, changes, spent, tier, body, seen, target, opening, corrected, uncovered, mixed>>

\* A call to the database fails or the process dies.
Abort(x) == Step(x, InProgress, "failed") /\ UNCHANGED <<seen, target>>

--------------------------------------------------------------------------------
Redeem(x) == CheckPoints(x) \/ CreateRedemption(x)
Update(x) == ReadCustomer(x) \/ WriteCustomer(x) \/ FindCustomer(x)
Change(x) == Increment(x) \/ CreateTransaction(x) \/ Commit(x) \/ FindTiers(x) \/ UpdateTier(x)

Resume(x) == Change(x) \/ (x \in Redemptions /\ Redeem(x)) \/ (x \in Updates /\ Update(x))

Next == \E x \in Calls : Call(x) \/ Resume(x) \/ Abort(x)

Spec == Init /\ [][Next]_vars

--------------------------------------------------------------------------------
TypeOK ==
    /\ balance \in [Customers -> Int]
    /\ tier \in [Customers -> Tiers \cup {None}]
    /\ rewards \in [Customers -> Int]
    /\ changes \in [Customers -> Int]
    /\ spent \in [Customers -> Nat]
    /\ pc \in [Calls -> Phases]
    /\ body \in [Calls -> RedeemBody \cup UpdateBody]
    /\ \A x \in Redemptions : body[x] \in RedeemBody
    /\ \A x \in Updates : body[x] \in UpdateBody
    /\ seen \in [Calls -> Int]
    /\ target \in [Calls -> Tiers \cup {None}]
    /\ opening \in [Customers -> Int]
    /\ corrected \in [Customers -> Int]
    /\ stale \subseteq Customers /\ mixed \subseteq Customers /\ due \subseteq Customers
    /\ raced \subseteq Redemptions /\ uncovered \subseteq Redemptions

\* However redemptions and adjustments interleave and are rolled back, the
\* balance is what the books say, and a redemption is in both of them.  Points
\* are lost, or come back, only where an update that leaves them alone has
\* written a balance that changed after it was read.
PointsAreBooked ==
    \A c \in Customers :
        /\ rewards[c] = 0 - spent[c]
        /\ c \notin stale => balance[c] = opening[c] + rewards[c] + changes[c] + corrected[c]

\* A redemption takes more points than there are only if another call changed
\* the balance after the points were checked.
OverdraftsAreRaces == uncovered \subseteq raced

\* Where calls for a customer never overlap, a tier that was settled since the
\* points last changed is one of the tiers for the points.
SerialTiersFollow ==
    \A c \in Customers \ (mixed \cup due) : tier[c] \in TiersFor(balance[c])
================================================================================
