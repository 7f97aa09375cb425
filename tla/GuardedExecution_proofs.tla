------------------------- MODULE GuardedExecution_proofs -------------------------
(***************************************************************************)
(* Theorems about GuardedExecution, for every set of requests, approvals,  *)
(* suggestions and brands and for every bound.                             *)
(***************************************************************************)
EXTENDS GuardedExecution, TLAPS

USE NoneAssumption, BoundAssumption

--------------------------------------------------------------------------------
(***************************************************************************)
(* Type correctness.                                                       *)
(***************************************************************************)
LEMMA InForceType == \A in : InForce(in) \subseteq Stops
BY DEF InForce

\* The initial states are well typed.
LEMMA InitType == Init => TypeOK
BY DecisionsAssumption DEF Init, TypeOK, Times, Row, Statuses, Phases

\* A failed call stays within its bound.
LEMMA FaultType ==
    ASSUME TypeOK, NEW r \in Requests, Fault(r) \/ NoFault
    PROVE  faults' \in [Requests -> 0 .. MaxFaults]
BY DEF TypeOK, Fault, CanFault, NoFault

\* A request goes on to a phase.
LEMMA GotoType ==
    ASSUME TypeOK, NEW r \in Requests, NEW phase \in Phases, Goto(r, phase)
    PROVE  pc' \in [Requests -> Phases]
BY DEF TypeOK, Goto

\* The handlers of a request keep the types.
LEMMA HandleType ==
    ASSUME TypeOK, NEW r \in Requests, Receive(r) \/ Handle(r)
    PROVE  TypeOK'
<1> USE FaultType, GotoType DEF Phases, Guarding, Running, Over
<1>1. CASE Receive(r)
  BY <1>1, InForceType DEF Receive, Arrive, TypeOK, world
<1>2. CASE GetApprovalDecision(r)
  <2>1. approvals \in [Approvals -> Row] /\ input[r] \in Inputs
    BY DEF TypeOK
  <2>2. loaded' \in [Requests -> Row]
    BY <1>2, <2>1 DEF GetApprovalDecision, TypeOK, Inputs
  <2>3. QED
    BY <1>2, <2>2 DEF GetApprovalDecision, TypeOK, world
<1>3. CASE AssertBrandAllowed(r)
  BY <1>3 DEF AssertBrandAllowed, CheckSwitch, TypeOK, world
<1>4. CASE AssertTargetAllowed(r)
  BY <1>4 DEF AssertTargetAllowed, CheckSwitch, TypeOK, world
<1>5. CASE Enforce(r)
  BY <1>5 DEF Enforce, Conclude, TypeOK, world
<1>6. CASE EnsureExecutionAllowed(r)
  BY <1>6 DEF EnsureExecutionAllowed, TypeOK, world
<1>7. CASE Act(r)
  BY <1>7 DEF Act, TypeOK, world
<1>8. CASE LogSuccess(r)
  BY <1>8 DEF LogSuccess, Insert, TypeOK, world
<1>9. CASE RecordExecutionIncident(r)
  BY <1>9 DEF RecordExecutionIncident, TryIncident, Connects, TypeOK, world
<1>10. CASE LogFailed(r)
  BY <1>10 DEF LogFailed, Insert, TypeOK, world
<1>11. QED
  BY <1>1, <1>2, <1>3, <1>4, <1>5, <1>6, <1>7, <1>8, <1>9, <1>10 DEF Handle

\* The stops that are lifted are taken off those standing.
LEMMA ElsewhereType ==
    ASSUME TypeOK, Elsewhere
    PROVE  standing' \in [Requests -> SUBSET Stops]
BY DEF Elsewhere, TypeOK

\* The rest of the world keeps the types.
LEMMA WorldType ==
    ASSUME TypeOK, World
    PROVE  TypeOK'
<1> USE ElsewhereType DEF Elsewhere
<1>1. ASSUME NEW a \in Approvals, Decide(a) PROVE TypeOK'
  BY <1>1 DEF Decide, TypeOK, Row, Statuses
<1>2. ASSUME NEW a \in Approvals, Revoke(a) PROVE TypeOK'
  BY <1>2 DEF Revoke, TypeOK, Row
<1>3. ASSUME NEW b \in Brands, ToggleBrandSwitch(b) PROVE TypeOK'
  BY <1>3 DEF ToggleBrandSwitch, TypeOK
<1>4. ASSUME NEW t \in SwitchTargets, ToggleExecutionSwitch(t) PROVE TypeOK'
  BY <1>4 DEF ToggleExecutionSwitch, SwitchTargets, TypeOK
<1>5. CASE Tick
  BY <1>5 DEF Tick, TypeOK, Times
<1>6. CASE Restart
  BY <1>6 DEF Restart, TypeOK, Phases, Over
<1>7. QED
  BY <1>1, <1>2, <1>3, <1>4, <1>5, <1>6 DEF World

\* Every variable keeps its type: the phases, the bound on failed calls and
\* the rows the database may hold.
THEOREM TypeCorrect == Spec => []TypeOK
<1>1. TypeOK /\ [Next]_vars => TypeOK'
  <2>1. CASE UNCHANGED vars
    BY <2>1 DEF vars, TypeOK
  <2>2. QED
    BY <2>1, HandleType, WorldType DEF Next
<1>2. QED
  BY InitType, <1>1, PTL DEF Spec

--------------------------------------------------------------------------------
(***************************************************************************)
(* The guard.  A stop still standing is in force, so a check that finds it *)
(* not in force has it lifted for good, however old the row is by the time *)
(* it is used.                                                             *)
(***************************************************************************)
Loaded == {"getBrandKillSwitch", "findApprovalSwitch", "enforce"}

Standing ==
    \A r \in Requests : pc[r] # "idle" => standing[r] \subseteq InForce(input[r])

RowLoaded ==
    \A r \in Requests : pc[r] \in Loaded =>
        /\ input[r].approval # None
        /\ loaded[r].status = "APPROVED" => "unapproved" \notin standing[r]
        /\ ~loaded[r].revoked => "revoked" \notin standing[r]

SwitchesRead ==
    \A r \in Requests :
        /\ pc[r] \in {"findApprovalSwitch", "enforce"} => "brand" \notin standing[r]
        /\ pc[r] = "enforce" => "approval" \notin standing[r]

Cleared ==
    \A r \in Requests :
        /\ pc[r] \in Running => standing[r] = {}
        /\ r \in effects => standing[r] = {} /\ pc[r] # "idle"

GuardInv == TypeOK /\ Standing /\ RowLoaded /\ SwitchesRead /\ Cleared

\* A stop that does not apply is not in force.
LEMMA NotInForce ==
    ASSUME NEW in \in Inputs, in.approval # None
    PROVE  /\ "missing" \notin InForce(in)
           /\ Matches(in) => "mismatch" \notin InForce(in)
           /\ approvals[in.approval].status = "APPROVED" => "unapproved" \notin InForce(in)
           /\ ~approvals[in.approval].revoked => "revoked" \notin InForce(in)
           /\ ~Expired(in.approval) => "expired" \notin InForce(in)
           /\ ~BrandStopped(in.approval) => "brand" \notin InForce(in)
           /\ in.approval \notin switches => "approval" \notin InForce(in)
BY DEF InForce, Stops

\* What is in force depends only on the world and on the body of the request.
LEMMA InForceFrame ==
    ASSUME UNCHANGED <<world, input>>, NEW r \in Requests
    PROVE  InForce(input[r])' = InForce(input[r])
BY DEF InForce, Matches, Expired, BrandStopped, Brand, world

\* A step of a handler that leaves the history alone and neither starts nor
\* ends the guard keeps what the guard has established.
LEMMA HandlerFrame ==
    ASSUME GuardInv, UNCHANGED <<world, input, standing>>,
           \A r \in Requests : pc'[r] # "idle" => pc[r] # "idle"
    PROVE  Standing'
BY InForceFrame DEF GuardInv, Standing

\* The handlers keep what the guard knows: each check rules out one stop.
LEMMA HandleGuards ==
    ASSUME GuardInv, NEW r \in Requests, Receive(r) \/ Handle(r)
    PROVE  GuardInv'
<1> USE DEF GuardInv
<1>1. TypeOK'
  BY HandleType
<1>2. pc \in [Requests -> Phases] /\ loaded \in [Requests -> Row]
      /\ standing \in [Requests -> SUBSET Stops] /\ input \in [Requests -> Inputs]
  BY DEF TypeOK
<1>3. CASE Receive(r)
  <2>1. standing' = [standing EXCEPT ![r] = InForce(input[r])]
        /\ UNCHANGED <<world, input, loaded, effects>>
        /\ pc[r] = "idle" /\ pc'[r] \in {"getApprovalDecision", "refused"}
        /\ \A q \in Requests \ {r} : pc'[q] = pc[q]
    BY <1>2, <1>3 DEF Receive, Arrive, Goto
  <2>2. Standing'
    BY <1>2, <2>1, InForceFrame DEF Standing
  <2>3. RowLoaded' /\ SwitchesRead'
    BY <1>2, <2>1 DEF RowLoaded, SwitchesRead, Loaded
  <2>4. Cleared'
    BY <1>2, <2>1 DEF Cleared, Running
  <2>5. QED
    BY <1>1, <2>2, <2>3, <2>4
<1>4. CASE Handle(r)
  <2>1. UNCHANGED <<world, input, standing>>
    BY <1>4 DEF Handle, GetApprovalDecision, AssertBrandAllowed, AssertTargetAllowed,
                CheckSwitch, Enforce, Conclude, EnsureExecutionAllowed, Act, LogSuccess,
                RecordExecutionIncident, TryIncident, LogFailed
  <2>2. pc[r] # "idle" /\ \A q \in Requests \ {r} : pc'[q] = pc[q]
    BY <1>2, <1>4 DEF Handle, GetApprovalDecision, AssertBrandAllowed, AssertTargetAllowed,
                CheckSwitch, Enforce, Conclude, EnsureExecutionAllowed, Act, LogSuccess,
                RecordExecutionIncident, TryIncident, LogFailed, Goto
  <2>3. Standing'
    BY <2>1, <2>2, HandlerFrame
  <2>4. standing[r] \subseteq InForce(input[r]) /\ input[r] \in Inputs
    BY <1>2, <2>2 DEF Standing
  <2>5. CASE GetApprovalDecision(r)
    <3>1. \/ /\ input[r].approval # None
             /\ pc' = [pc EXCEPT ![r] = "getBrandKillSwitch"]
             /\ loaded' = [loaded EXCEPT ![r] = approvals[input[r].approval]]
          \/ pc' = [pc EXCEPT ![r] = "refused"] /\ loaded' = loaded
      BY <2>5 DEF GetApprovalDecision, Goto
    <3>2. effects' = effects
      BY <2>5 DEF GetApprovalDecision
    <3>3. RowLoaded'
      BY <1>2, <2>1, <2>4, <3>1, NotInForce DEF RowLoaded, Loaded
    <3>4. SwitchesRead' /\ Cleared'
      BY <1>2, <2>1, <2>2, <3>1, <3>2 DEF SwitchesRead, Cleared, Running
    <3>5. QED
      BY <1>1, <2>3, <3>3, <3>4
  <2>6. CASE AssertBrandAllowed(r)
    <3>1. /\ pc[r] = "getBrandKillSwitch"
          /\ \/ /\ ~BrandStopped(input[r].approval)
                /\ pc' = [pc EXCEPT ![r] = "findApprovalSwitch"]
             \/ pc' = [pc EXCEPT ![r] = "refused"]
          /\ UNCHANGED <<loaded, effects>>
      BY <2>6 DEF AssertBrandAllowed, CheckSwitch, Goto
    <3>2. RowLoaded' /\ Cleared'
      BY <1>2, <2>1, <3>1 DEF RowLoaded, Loaded, Cleared, Running
    <3>3. input[r].approval # None
      BY <3>1 DEF RowLoaded, Loaded
    <3>4. SwitchesRead'
      BY <1>2, <2>1, <2>4, <3>1, <3>3, NotInForce DEF SwitchesRead
    <3>5. QED
      BY <1>1, <2>3, <3>2, <3>4
  <2>7. CASE AssertTargetAllowed(r)
    <3>1. /\ pc[r] = "findApprovalSwitch"
          /\ \/ /\ input[r].approval \notin switches
                /\ pc' = [pc EXCEPT ![r] = "enforce"]
             \/ pc' = [pc EXCEPT ![r] = "refused"]
          /\ UNCHANGED <<loaded, effects>>
      BY <2>7 DEF AssertTargetAllowed, CheckSwitch, Goto
    <3>2. RowLoaded' /\ Cleared'
      BY <1>2, <2>1, <3>1 DEF RowLoaded, Loaded, Cleared, Running
    <3>3. input[r].approval # None
      BY <3>1 DEF RowLoaded, Loaded
    <3>4. SwitchesRead'
      BY <1>2, <2>1, <2>4, <3>1, <3>3, NotInForce DEF SwitchesRead
    <3>5. QED
      BY <1>1, <2>3, <3>2, <3>4
  <2>8. CASE Enforce(r)
    <3>1. /\ pc[r] = "enforce"
          /\ \/ /\ loaded[r].status = "APPROVED" /\ ~loaded[r].revoked
                /\ Matches(input[r]) /\ ~Expired(input[r].approval)
                /\ pc' = [pc EXCEPT ![r] = "findExecutionSwitch"]
             \/ pc' = [pc EXCEPT ![r] = "refused"]
          /\ UNCHANGED <<loaded, effects>>
      BY <2>8 DEF Enforce, Conclude, Goto
    <3>2. RowLoaded' /\ SwitchesRead'
      BY <1>2, <2>1, <3>1 DEF RowLoaded, SwitchesRead, Loaded
    <3>3. input[r].approval # None
      BY <3>1 DEF RowLoaded, Loaded
    <3>4. ASSUME pc'[r] = "findExecutionSwitch"
          PROVE  standing[r] = {}
      <4>1. /\ "missing" \notin standing[r] /\ "mismatch" \notin standing[r]
            /\ "expired" \notin standing[r]
        BY <1>2, <2>4, <3>1, <3>3, <3>4, NotInForce
      <4>2. "unapproved" \notin standing[r] /\ "revoked" \notin standing[r]
        BY <1>2, <3>1, <3>4 DEF RowLoaded, Loaded
      <4>3. "brand" \notin standing[r] /\ "approval" \notin standing[r]
        BY <3>1 DEF SwitchesRead
      <4>4. QED
        BY <1>2, <4>1, <4>2, <4>3 DEF Stops
    <3>5. Cleared'
      BY <1>2, <2>1, <3>1, <3>4 DEF Cleared, Running
    <3>6. QED
      BY <1>1, <2>3, <3>2, <3>5
  <2>9. CASE EnsureExecutionAllowed(r) \/ Act(r) \/ LogSuccess(r)
             \/ RecordExecutionIncident(r) \/ LogFailed(r)
    <3>1. /\ pc[r] \in Running /\ pc'[r] \notin Loaded \cup {"idle"}
          /\ loaded' = loaded
          /\ effects' \subseteq effects \cup {r}
      BY <1>2, <2>9 DEF EnsureExecutionAllowed, Act, LogSuccess, RecordExecutionIncident,
                        TryIncident, LogFailed, Goto, Running, Loaded
    <3>2. RowLoaded' /\ SwitchesRead'
      BY <1>2, <2>1, <2>2, <3>1 DEF RowLoaded, SwitchesRead, Loaded
    <3>3. Cleared'
      BY <1>2, <2>1, <2>2, <3>1 DEF Cleared
    <3>4. QED
      BY <1>1, <2>3, <3>2, <3>3
  <2>10. QED
    BY <1>4, <2>5, <2>6, <2>7, <2>8, <2>9 DEF Handle
<1>5. QED
  BY <1>3, <1>4

\* The rest of the world only lifts the stops that stand.
LEMMA WorldGuards ==
    ASSUME GuardInv, World
    PROVE  GuardInv'
<1> USE DEF GuardInv
<1>1. TypeOK'
  BY WorldType
<1>2. pc \in [Requests -> Phases]
  BY DEF TypeOK
<1>3. /\ UNCHANGED <<input, loaded, effects>>
      /\ standing' = [r \in Requests |-> standing[r] \cap InForce(input[r])']
  BY DEF World, Decide, Revoke, ToggleBrandSwitch, ToggleExecutionSwitch, Tick, Restart,
         Elsewhere
<1>4. \A r \in Requests : pc'[r] = pc[r] \/ (pc[r] # "idle" /\ pc'[r] = "lost")
  BY <1>2 DEF World, Decide, Revoke, ToggleBrandSwitch, ToggleExecutionSwitch, Tick, Restart,
              InFlight, Guarding, Running
<1>5. \A r \in Requests : /\ standing'[r] \subseteq standing[r]
                         /\ standing'[r] \subseteq InForce(input[r])'
  BY <1>3
<1>6. Standing'
  BY <1>5 DEF Standing
<1>7. RowLoaded' /\ SwitchesRead'
  BY <1>3, <1>4, <1>5 DEF RowLoaded, SwitchesRead, Loaded
<1>8. Cleared'
  BY <1>3, <1>4, <1>5 DEF Cleared, Running
<1>9. QED
  BY <1>1, <1>6, <1>7, <1>8

\* What the guard knows, it knows at all times.
LEMMA GuardInvariant == Spec => []GuardInv
<1>1. Init => GuardInv
  BY InitType DEF Init, GuardInv, Standing, RowLoaded, SwitchesRead, Cleared, Loaded, Running
<1>2. GuardInv /\ [Next]_vars => GuardInv'
  <2>1. ASSUME GuardInv, UNCHANGED vars PROVE GuardInv'
    <3>1. UNCHANGED <<world, input>>
      BY <2>1 DEF vars, world
    <3>2. TypeOK'
      BY <2>1 DEF GuardInv, TypeOK, vars
    <3>3. Standing'
      BY <2>1, <3>1, InForceFrame DEF GuardInv, Standing, vars
    <3>4. QED
      BY <2>1, <3>2, <3>3 DEF GuardInv, RowLoaded, SwitchesRead, Cleared, vars
  <2>2. QED
    BY <2>1, HandleGuards, WorldGuards DEF Next
<1>3. QED
  BY <1>1, <1>2, PTL DEF Spec

\* The guard overlooks no stop: whatever the operators and the clock do while
\* it awaits its reads, a request whose action runs saw each stop lifted.
THEOREM GuardIsSound == Spec => []StopsBind
<1>1. GuardInv => StopsBind
  BY DEF GuardInv, TypeOK, Cleared, StopsBind
<1>2. QED
  BY GuardInvariant, <1>1, PTL

--------------------------------------------------------------------------------
(***************************************************************************)
(* The ledger.  Before the action there is no row; the incident and the    *)
(* FAILED row find at most the SUCCESS row whose reply was lost; and a     *)
(* request that acted reaches them only by a failed call.                  *)
(***************************************************************************)
Unlogged == {"idle", "refused", "findExecutionSwitch", "act", "logSuccess"} \cup Guarding

RowsInOrder ==
    \A r \in Requests :
        /\ pc[r] \in Unlogged => ledger[r] = "none"
        /\ pc[r] \in {"createIncident", "logFailed"} => ledger[r] \in {"none", "SUCCESS"}
        /\ pc[r] = "succeeded" => ledger[r] = "SUCCESS"
        /\ ledger[r] = "SUCCESS" => r \in effects

ActedInOrder ==
    \A r \in Requests :
        /\ pc[r] = "logSuccess" => r \in effects
        /\ r \in effects => pc[r] \notin Unlogged \ {"logSuccess"}

FaultsCounted ==
    \A r \in effects : ledger[r] = "none" =>
        /\ pc[r] \in {"createIncident", "logFailed"} => faults[r] >= 1
        /\ pc[r] = "failed" => faults[r] >= 2

LedgerInv == TypeOK /\ RowsInOrder /\ ActedInOrder /\ FaultsCounted
             /\ IncidentsPointToSuccess

\* The handlers keep the ledger in step with the phases.
LEMMA HandleLedger ==
    ASSUME LedgerInv, NEW r \in Requests, Receive(r) \/ Handle(r)
    PROVE  LedgerInv'
<1> USE DEF LedgerInv
<1>1. TypeOK'
  BY HandleType
<1>2. /\ pc \in [Requests -> Phases] /\ ledger \in [Requests -> {"none", "SUCCESS", "FAILED"}]
      /\ faults \in [Requests -> Nat] /\ effects \subseteq Requests
      /\ incidents \subseteq Requests
  BY DEF TypeOK
<1>3. CASE \/ Receive(r) \/ GetApprovalDecision(r) \/ AssertBrandAllowed(r)
           \/ AssertTargetAllowed(r) \/ Enforce(r)
  <2>1. /\ pc[r] \in {"idle"} \cup Guarding
        /\ pc'[r] \in {"refused", "findExecutionSwitch"} \cup Guarding
        /\ \A q \in Requests \ {r} : pc'[q] = pc[q] /\ faults'[q] = faults[q]
        /\ UNCHANGED <<effects, ledger, incidents>>
    BY <1>2, <1>3 DEF Receive, Arrive, GetApprovalDecision, AssertBrandAllowed,
         AssertTargetAllowed, CheckSwitch, Enforce, Conclude, Goto, Fault, NoFault, Guarding
  <2>2. r \notin effects /\ ledger[r] = "none"
    BY <2>1 DEF RowsInOrder, ActedInOrder, Unlogged, Guarding
  <2>3. RowsInOrder' /\ ActedInOrder'
    BY <2>1, <2>2 DEF RowsInOrder, ActedInOrder, Unlogged, Guarding
  <2>4. FaultsCounted' /\ IncidentsPointToSuccess'
    BY <1>2, <2>1, <2>2 DEF FaultsCounted, IncidentsPointToSuccess
  <2>5. QED
    BY <1>1, <2>3, <2>4
<1>4. CASE EnsureExecutionAllowed(r)
  <2>1. /\ pc[r] = "findExecutionSwitch" /\ pc'[r] \in {"act", "createIncident"}
        /\ \A q \in Requests \ {r} : pc'[q] = pc[q] /\ faults'[q] = faults[q]
        /\ UNCHANGED <<effects, ledger, incidents>>
    BY <1>2, <1>4 DEF EnsureExecutionAllowed, Goto, Fault, NoFault
  <2>2. r \notin effects /\ ledger[r] = "none"
    BY <2>1 DEF RowsInOrder, ActedInOrder, Unlogged
  <2>3. RowsInOrder' /\ ActedInOrder'
    BY <2>1, <2>2 DEF RowsInOrder, ActedInOrder, Unlogged, Guarding
  <2>4. FaultsCounted' /\ IncidentsPointToSuccess'
    BY <1>2, <2>1, <2>2 DEF FaultsCounted, IncidentsPointToSuccess
  <2>5. QED
    BY <1>1, <2>3, <2>4
<1>5. CASE Act(r)
  <2>1. /\ pc[r] = "act" /\ pc' = [pc EXCEPT ![r] = "logSuccess"]
        /\ effects' = effects \cup {r} /\ UNCHANGED <<ledger, incidents, faults>>
    BY <1>5 DEF Act, Goto
  <2>2. RowsInOrder' /\ ActedInOrder'
    BY <1>2, <2>1 DEF RowsInOrder, ActedInOrder, Unlogged, Guarding
  <2>3. FaultsCounted' /\ IncidentsPointToSuccess'
    BY <1>2, <2>1 DEF FaultsCounted, IncidentsPointToSuccess
  <2>4. QED
    BY <1>1, <2>2, <2>3
<1>6. CASE LogSuccess(r)
  <2>1. pc[r] = "logSuccess" /\ r \in effects /\ ledger[r] = "none"
    BY <1>6 DEF LogSuccess, RowsInOrder, ActedInOrder, Unlogged
  <2>2. /\ effects' = effects /\ incidents' = incidents
        /\ \/ /\ ledger' = [ledger EXCEPT ![r] = "SUCCESS"] /\ faults' = faults
              /\ pc' = [pc EXCEPT ![r] = "succeeded"]
           \/ /\ ledger' \in {ledger, [ledger EXCEPT ![r] = "SUCCESS"]}
              /\ faults' = [faults EXCEPT ![r] = @ + 1]
              /\ pc' = [pc EXCEPT ![r] = "createIncident"]
    BY <1>6, <2>1 DEF LogSuccess, Insert, Goto, Fault, NoFault
  <2>3. RowsInOrder' /\ ActedInOrder'
    BY <1>2, <2>1, <2>2 DEF RowsInOrder, ActedInOrder, Unlogged, Guarding
  <2>4. FaultsCounted' /\ IncidentsPointToSuccess'
    BY <1>2, <2>1, <2>2 DEF FaultsCounted, IncidentsPointToSuccess
  <2>5. QED
    BY <1>1, <2>3, <2>4
<1>7. CASE RecordExecutionIncident(r)
  <2>1. /\ pc[r] = "createIncident" /\ pc' = [pc EXCEPT ![r] = "logFailed"]
        /\ incidents' = incidents \/ (ledger[r] # "none" /\ incidents' = incidents \cup {r})
        /\ UNCHANGED <<effects, ledger>>
        /\ faults' = faults \/ faults' = [faults EXCEPT ![r] = @ + 1]
    BY <1>7 DEF RecordExecutionIncident, TryIncident, Connects, Goto, Fault, NoFault
  <2>2. RowsInOrder' /\ ActedInOrder'
    BY <1>2, <2>1 DEF RowsInOrder, ActedInOrder, Unlogged, Guarding
  <2>3. FaultsCounted'
    BY <1>2, <2>1 DEF FaultsCounted
  <2>4. IncidentsPointToSuccess'
    BY <1>2, <2>1 DEF IncidentsPointToSuccess, RowsInOrder
  <2>5. QED
    BY <1>1, <2>2, <2>3, <2>4
<1>8. CASE LogFailed(r)
  <2>1. /\ pc[r] = "logFailed" /\ pc' = [pc EXCEPT ![r] = "failed"]
        /\ UNCHANGED <<effects, incidents>>
        /\ \/ faults' = faults /\ ledger' = Insert(r, "FAILED")
           \/ /\ faults' = [faults EXCEPT ![r] = @ + 1]
              /\ ledger' \in {ledger, Insert(r, "FAILED")}
    BY <1>8 DEF LogFailed, Goto, Fault, NoFault
  <2>2. /\ ledger[r] = "none" => Insert(r, "FAILED") = [ledger EXCEPT ![r] = "FAILED"]
        /\ ledger[r] # "none" => Insert(r, "FAILED") = ledger
    BY DEF Insert
  <2>3. RowsInOrder' /\ ActedInOrder'
    BY <1>2, <2>1, <2>2 DEF RowsInOrder, ActedInOrder, Unlogged, Guarding
  <2>4. FaultsCounted'
    BY <1>2, <2>1, <2>2 DEF FaultsCounted
  <2>5. IncidentsPointToSuccess'
    BY <1>2, <2>1, <2>2 DEF IncidentsPointToSuccess
  <2>6. QED
    BY <1>1, <2>3, <2>4, <2>5
<1>9. QED
  BY <1>3, <1>4, <1>5, <1>6, <1>7, <1>8 DEF Handle

\* Nobody else touches the ledger; a restart loses requests, not rows.
LEMMA WorldLedger ==
    ASSUME LedgerInv, World
    PROVE  LedgerInv'
<1> USE DEF LedgerInv
<1>1. TypeOK'
  BY WorldType
<1>2. UNCHANGED <<effects, ledger, incidents, faults>>
  BY DEF World, Decide, Revoke, ToggleBrandSwitch, ToggleExecutionSwitch, Tick, Restart,
         Elsewhere
<1>3. \A r \in Requests : pc'[r] = pc[r] \/ pc'[r] = "lost"
  BY DEF TypeOK, World, Decide, Revoke, ToggleBrandSwitch, ToggleExecutionSwitch, Tick,
         Restart, InFlight
<1>4. RowsInOrder' /\ ActedInOrder'
  BY <1>2, <1>3 DEF RowsInOrder, ActedInOrder, Unlogged, Guarding
<1>5. FaultsCounted' /\ IncidentsPointToSuccess'
  BY <1>2, <1>3 DEF TypeOK, FaultsCounted, IncidentsPointToSuccess
<1>6. QED
  BY <1>1, <1>4, <1>5

\* The ledger is in step with the phases at all times.
LEMMA LedgerInvariant == Spec => []LedgerInv
<1>1. Init => LedgerInv
  BY InitType DEF Init, LedgerInv, RowsInOrder, ActedInOrder, FaultsCounted,
     IncidentsPointToSuccess
<1>2. LedgerInv /\ [Next]_vars => LedgerInv'
  <2>1. CASE UNCHANGED vars
    BY <2>1 DEF vars, LedgerInv, TypeOK, RowsInOrder, ActedInOrder, FaultsCounted,
       IncidentsPointToSuccess
  <2>2. QED
    BY <2>1, HandleLedger, WorldLedger DEF Next
<1>3. QED
  BY <1>1, <1>2, PTL DEF Spec

\* An incident that names an execution names one whose ledger row says
\* SUCCESS: the row a failure would need is written only afterwards.
THEOREM IncidentsNeedRows == Spec => []IncidentsPointToSuccess
<1>1. LedgerInv => IncidentsPointToSuccess
  BY DEF LedgerInv
<1>2. QED
  BY LedgerInvariant, <1>1, PTL

\* One failed database call never hides an action from the ledger.
THEOREM TraceSurvivesOneFault == Spec => []OneFaultLeavesTrace
<1>1. LedgerInv => OneFaultLeavesTrace
  BY DEF LedgerInv, TypeOK, OneFaultLeavesTrace, FaultsCounted, RowsInOrder
<1>2. QED
  BY LedgerInvariant, <1>1, PTL

--------------------------------------------------------------------------------
(***************************************************************************)
(* The promise to the auditors: each step of the service is a step of      *)
(* AccountableAction, or changes nothing an auditor sees.                  *)
(***************************************************************************)
Finished == {r \in Requests : pc[r] \in Over}

\* A handler's step is one that an auditor would accept, or hidden from it.
LEMMA HandleRefines ==
    ASSUME LedgerInv, NEW r \in Requests, Receive(r) \/ Handle(r)
    PROVE  Accountable!Next \/ UNCHANGED Accountable!vars
<1> USE DEF LedgerInv
<1>1. /\ pc \in [Requests -> Phases] /\ ledger \in [Requests -> {"none", "SUCCESS", "FAILED"}]
      /\ effects \subseteq Requests
  BY DEF TypeOK
<1>2. CASE /\ UNCHANGED <<effects, ledger>>
           /\ \E phase \in Phases : Goto(r, phase) /\ (pc[r] \in Over => phase \in Over)
  <2>1. Finished' = Finished \/ Finished' = Finished \cup {r}
    BY <1>1, <1>2 DEF Finished, Goto
  <2>2. Accountable!End({r}) \/ UNCHANGED Accountable!vars
    BY <1>2, <2>1 DEF Accountable!End, Accountable!vars, Finished
  <2>3. QED
    BY <2>2 DEF Accountable!Next
<1>3. CASE \/ Receive(r) \/ GetApprovalDecision(r) \/ AssertBrandAllowed(r)
           \/ AssertTargetAllowed(r) \/ Enforce(r) \/ EnsureExecutionAllowed(r)
           \/ RecordExecutionIncident(r)
  BY <1>2, <1>3 DEF Receive, Arrive, GetApprovalDecision, AssertBrandAllowed,
     AssertTargetAllowed, CheckSwitch, Enforce, Conclude, EnsureExecutionAllowed,
     RecordExecutionIncident, TryIncident, Phases, Guarding, Running, Over
<1>4. CASE Act(r)
  <2>1. /\ pc[r] = "act" /\ r \notin effects /\ ledger[r] = "none"
        /\ effects' = effects \cup {r} /\ UNCHANGED ledger
    BY <1>4 DEF Act, RowsInOrder, ActedInOrder, Unlogged
  <2>2. Finished' = Finished /\ r \notin Finished
    BY <1>1, <1>4, <2>1 DEF Act, Goto, Finished, Over
  <2>3. Accountable!Perform(r)
    BY <2>1, <2>2 DEF Accountable!Perform, Accountable!Open, Finished
  <2>4. QED
    BY <2>3 DEF Accountable!Next
<1>5. CASE LogSuccess(r)
  <2>1. pc[r] = "logSuccess" /\ r \in effects /\ ledger[r] = "none" /\ effects' = effects
    BY <1>5 DEF LogSuccess, RowsInOrder, ActedInOrder, Unlogged
  <2>2. r \notin Finished
    BY <2>1 DEF Finished, Over
  <2>3. CASE ledger' = [ledger EXCEPT ![r] = "SUCCESS"]
    <3>1. Finished' \in {Finished, Finished \cup {r}}
      BY <1>1, <1>5, <2>1 DEF LogSuccess, Goto, Finished, Over
    <3>2. Accountable!Record(r, "SUCCESS")
      BY <2>1, <2>2, <2>3, <3>1 DEF Accountable!Record, Accountable!Open, Finished
    <3>3. QED
      BY <3>2 DEF Accountable!Next, Accountable!Results
  <2>4. CASE ledger' = ledger /\ Goto(r, "createIncident")
    BY <1>2, <2>1, <2>4 DEF Phases, Running, Over
  <2>5. QED
    BY <1>5, <2>1, <2>3, <2>4 DEF LogSuccess, Insert
<1>6. CASE LogFailed(r)
  <2>1. pc[r] = "logFailed" /\ Goto(r, "failed") /\ effects' = effects
    BY <1>6 DEF LogFailed
  <2>2. CASE ledger[r] = "none" /\ ledger' = [ledger EXCEPT ![r] = "FAILED"]
    <3>1. r \notin Finished /\ Finished' = Finished \cup {r}
      BY <1>1, <2>1 DEF Goto, Finished, Over
    <3>2. Accountable!Record(r, "FAILED")
      BY <2>1, <2>2, <3>1 DEF Accountable!Record, Accountable!Open, Finished
    <3>3. QED
      BY <3>2 DEF Accountable!Next, Accountable!Results
  <2>3. CASE ledger' = ledger
    BY <1>2, <2>1, <2>3 DEF Phases, Over
  <2>4. QED
    BY <1>6, <2>2, <2>3 DEF LogFailed, Insert
<1>7. QED
  BY <1>3, <1>4, <1>5, <1>6 DEF Handle

\* The rest of the world is hidden from an auditor, but for requests lost by a restart.
LEMMA WorldRefines ==
    ASSUME TypeOK, World
    PROVE  Accountable!Next \/ UNCHANGED Accountable!vars
<1>1. UNCHANGED <<effects, ledger>>
  BY DEF World, Decide, Revoke, ToggleBrandSwitch, ToggleExecutionSwitch, Tick, Restart,
         Elsewhere
<1>2. CASE Restart
  <2>1. PICK S \in SUBSET Requests : S = InFlight
    BY DEF InFlight
  <2>2. Finished' = Finished \cup S
    BY <1>2, <2>1 DEF TypeOK, Restart, Finished, InFlight, Over
  <2>3. Accountable!End(S)
    BY <1>1, <2>2 DEF Accountable!End, Finished
  <2>4. QED
    BY <2>3 DEF Accountable!Next
<1>3. CASE UNCHANGED pc
  BY <1>1, <1>3 DEF Accountable!vars
<1>4. QED
  BY <1>2, <1>3 DEF World, Decide, Revoke, ToggleBrandSwitch, ToggleExecutionSwitch, Tick

\* The service implements what its auditors are promised: one effect and one
\* row per request, a row never rewritten, nothing after the answer.
THEOREM Accountability == Spec => KeepsAccount
<1>1. Init => Accountable!Init
  BY DEF Init, Accountable!Init, Over
<1>2. LedgerInv /\ [Next]_vars => [Accountable!Next]_(Accountable!vars)
  <2>1. CASE UNCHANGED vars
    BY <2>1 DEF vars, Accountable!vars
  <2>2. QED
    BY <2>1, HandleRefines, WorldRefines DEF Next, LedgerInv
<1>3. QED
  BY <1>1, <1>2, LedgerInvariant, PTL DEF Spec, KeepsAccount, Accountable!Spec

--------------------------------------------------------------------------------
(***************************************************************************)
(* The global stop.  The flags are checked once, on arrival; they cannot   *)
(* change while the request lives.                                         *)
(***************************************************************************)
FlagsHold == \A r \in InFlight : ExecutionEnabled /\ ~GlobalDisabled

\* No action runs in a process whose global stop is on or whose execution
\* flag is off, although nothing checks the flags after the arrival.
THEOREM GlobalStop == Spec => GlobalStopIsAbsolute
<1>1. Init => FlagsHold
  BY DEF Init, FlagsHold, InFlight, Guarding, Running
<1>2. TypeOK /\ FlagsHold /\ [Next]_vars => FlagsHold'
  <2> SUFFICES ASSUME TypeOK, FlagsHold, [Next]_vars PROVE FlagsHold'
    OBVIOUS
  <2>1. ASSUME NEW r \in Requests, Receive(r) PROVE FlagsHold'
    BY <2>1 DEF TypeOK, FlagsHold, InFlight, Receive, Arrive, Goto, world, Guarding, Running,
       ExecutionEnabled, GlobalDisabled
  <2>2. ASSUME NEW r \in Requests, Handle(r) PROVE FlagsHold'
    <3>1. env' = env /\ pc[r] \in Guarding \cup Running /\ \A q \in Requests \ {r} : pc'[q] = pc[q]
      BY <2>2 DEF TypeOK, Handle, GetApprovalDecision, AssertBrandAllowed,
         AssertTargetAllowed, CheckSwitch, Enforce, Conclude, EnsureExecutionAllowed, Act,
         LogSuccess, RecordExecutionIncident, TryIncident, LogFailed, Goto, world,
         Guarding, Running
    <3>2. QED
      BY <2>2, <3>1 DEF FlagsHold, InFlight, ExecutionEnabled, GlobalDisabled
  <2>3. CASE Restart
    BY <2>3 DEF TypeOK, FlagsHold, InFlight, Restart, Guarding, Running
  <2>4. CASE UNCHANGED <<env, pc>>
    BY <2>4 DEF FlagsHold, InFlight, ExecutionEnabled, GlobalDisabled
  <2>5. QED
    BY <2>1, <2>2, <2>3, <2>4 DEF Next, World, Decide, Revoke, ToggleBrandSwitch,
       ToggleExecutionSwitch, Tick, vars
<1>3. FlagsHold /\ [Next]_vars =>
        [effects' # effects => ExecutionEnabled /\ ~GlobalDisabled]_vars
  <2>1. ASSUME FlagsHold, NEW r \in Requests, Act(r)
        PROVE  ExecutionEnabled /\ ~GlobalDisabled
    BY <2>1 DEF FlagsHold, Act, InFlight, Running
  <2>2. ASSUME Next, \A r \in Requests : ~Act(r) PROVE effects' = effects
    BY <2>2 DEF Next, Receive, Arrive, Handle, GetApprovalDecision, AssertBrandAllowed,
       AssertTargetAllowed, CheckSwitch, Enforce, Conclude, EnsureExecutionAllowed,
       LogSuccess, RecordExecutionIncident, TryIncident, LogFailed, World, Decide, Revoke,
       ToggleBrandSwitch, ToggleExecutionSwitch, Tick, Restart, Elsewhere
  <2>3. QED
    BY <2>1, <2>2
<1>4. QED
  BY <1>1, <1>2, <1>3, TypeCorrect, PTL DEF Spec, GlobalStopIsAbsolute
================================================================================
