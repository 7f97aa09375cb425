------------------------ MODULE RollbackGovernance_proofs ------------------------
(***************************************************************************)
(* Theorems about RollbackGovernance, for every number of executions,      *)
(* incidents and concurrent calls and for every window.                    *)
(***************************************************************************)
EXTENDS RollbackGovernance, TLAPS

--------------------------------------------------------------------------------
(***************************************************************************)
(* What a call holds while it is in progress.                              *)
(***************************************************************************)
CallsHaveBodies ==
    /\ \A c \in Requesters :
          pc[c] \notin Finalizing /\ (pc[c] \in Requesting => request[c] \in Request)
    /\ \A c \in Finalizers :
          pc[c] \notin Requesting /\ (pc[c] \in Finalizing => verdict[c] \in Verdict)

RowsAreWhole ==
    \A c \in Requesters :
        \/ rollbacks[c] = NoRollback
        \/ /\ rollbacks[c].status # "none"
           /\ rollbacks[c].execution \in Executions
           /\ rollbacks[c].incident \in Incidents

\* A finalizer past its check has a row to update.
FinalizersHaveRows ==
    \A c \in Finalizers : pc[c] \in {"update", "readIncident", "resolve"} =>
        rollbacks[verdict[c].rollback].status # "none"

Closed == {"MITIGATED", "RESOLVED"}

\* What a requester has checked and what stays true of it, whoever interleaves.
Checked(c) ==
    LET e == request[c].execution
        i == request[c].incident
    IN  /\ pc[c] \notin Ended => rollbacks[c] = NoRollback
        /\ pc[c] \in Requesting => began[c] <= now
        /\ pc[c] \in Requesting \ {"getExecution"} =>
              Logged(e) /\ began[c] <= ExecutedAt[e] + Window
        /\ pc[c] \in {"getRollbackByExecution", "rereadIncident", "mitigate", "create"} =>
              incidents[i].status # "none" /\ incidents[i].execution \in {None, e}
        /\ pc[c] = "create" => incidents[i].status \in Closed

Types == TypeOK /\ CallsHaveBodies /\ RowsAreWhole /\ FinalizersHaveRows

\* The initial states are well typed.
LEMMA InitTypes == Init => Types
<1> SUFFICES ASSUME Init PROVE Types
  OBVIOUS
<1>1. [status |-> "none", execution |-> None] \in Incident /\ NoRollback \in Rollback
  BY DEF Incident, IncidentStatuses, Rollback, NoRollback
<1>2. 0 \in Times
  BY TimeAssumption DEF Times
<1>3. "idle" \in Phases \ (Requesting \cup Finalizing)
  BY DEF Phases, Requesting, Finalizing
<1>4. TypeOK
  BY <1>1, <1>2, <1>3 DEF Init, TypeOK
<1>5. CallsHaveBodies /\ RowsAreWhole /\ FinalizersHaveRows
  BY <1>3 DEF Init, CallsHaveBodies, RowsAreWhole, FinalizersHaveRows, Calls, Finalizing
<1>6. QED
  BY <1>4, <1>5 DEF Types

--------------------------------------------------------------------------------
(***************************************************************************)
(* Steps that move a call and leave the rows alone.                        *)
(***************************************************************************)
LEMMA PhasesApart ==
    /\ Requesting \cup Finalizing \cup Ended \subseteq Phases
    /\ Requesting \cap Finalizing = {}
    /\ (Requesting \cup Finalizing) \cap (Ended \cup {"idle"}) = {}
    /\ {"getRollbackByExecution", "rereadIncident", "mitigate", "create"} \subseteq Requesting
    /\ {"getExecution", "getIncident"} \subseteq Requesting
    /\ {"getRollback", "update", "readIncident", "resolve"} = Finalizing
    /\ "answered" \in Ended /\ "aborted" \in Ended /\ "idle" \notin Ended
BY DEF Phases, Requesting, Finalizing, Ended

\* A call is a request or a finalization, never both.
LEMMA CallsApart ==
    /\ Requesters \subseteq Calls /\ Finalizers \subseteq Calls
    /\ \A c \in Requesters, d \in Finalizers : c # d
BY CallsAssumption DEF Calls

\* A call goes on to a phase, and no other call moves.
LEMMA GotoType ==
    ASSUME TypeOK, NEW c \in Calls, NEW phase \in Phases, Goto(c, phase)
    PROVE  /\ pc' \in [Calls -> Phases]
           /\ pc'[c] = phase
           /\ \A d \in Calls : d # c => pc'[d] = pc[d]
BY DEF TypeOK, Goto

\* Where a step may take a call without giving it a body.
Onward(c, phase) ==
    \/ phase \in Ended
    \/ c \in Requesters /\ pc[c] \in Requesting /\ phase \in Requesting
    \/ c \in Finalizers /\ pc[c] \in Finalizing /\ phase \in Finalizing

\* Going on without touching the requests keeps the bodies they came with.
LEMMA MoveBodies ==
    ASSUME Types, NEW c \in Calls, NEW phase \in Phases, Goto(c, phase), Onward(c, phase),
           UNCHANGED <<request, verdict>>
    PROVE  CallsHaveBodies'
<1>1. CallsHaveBodies /\ TypeOK
  BY DEF Types
<1>2. pc'[c] = phase /\ \A d \in Calls : d # c => pc'[d] = pc[d]
  BY <1>1, GotoType
<1>3. QED
  BY <1>1, <1>2, PhasesApart, CallsApart DEF CallsHaveBodies, Onward

\* A finalizer goes on to decide only about a row that exists.
LEMMA MoveRows ==
    ASSUME Types, NEW c \in Calls, NEW phase \in Phases, Goto(c, phase),
           UNCHANGED <<rollbacks, verdict>>,
           \/ phase \notin {"update", "readIncident", "resolve"}
           \/ rollbacks[verdict[c].rollback].status # "none"
    PROVE  RowsAreWhole' /\ FinalizersHaveRows'
<1>1. RowsAreWhole /\ FinalizersHaveRows /\ TypeOK
  BY DEF Types
<1>2. pc'[c] = phase /\ \A d \in Calls : d # c => pc'[d] = pc[d]
  BY <1>1, GotoType
<1>3. QED
  BY <1>1, <1>2, CallsApart DEF RowsAreWhole, FinalizersHaveRows

\* Going on without touching the tables keeps the types.
LEMMA MoveTypes ==
    ASSUME Types, NEW c \in Calls, NEW phase \in Phases, Goto(c, phase), Onward(c, phase),
           UNCHANGED <<now, rows, request, verdict, began, overlapped>>,
           \/ phase \notin {"update", "readIncident", "resolve"}
           \/ rollbacks[verdict[c].rollback].status # "none"
    PROVE  Types'
<1>1. TypeOK'
  BY GotoType DEF Types, TypeOK, rows
<1>2. QED
  BY <1>1, MoveBodies, MoveRows DEF Types, rows

--------------------------------------------------------------------------------
\* A call begins by noting whether it overlaps another, and touches no table.
LEMMA CallType ==
    ASSUME TypeOK, NEW c \in Calls, NEW phase \in Phases, Call(c, phase)
    PROVE  /\ UNCHANGED <<now, incidents, rollbacks>>
           /\ Goto(c, phase)
           /\ overlapped' \in BOOLEAN
BY DEF Call, rows, TypeOK

\* The steps of requestRollback keep the types.
LEMMA RequestTypes ==
    ASSUME Types, NEW c \in Requesters, CallRequest(c) \/ RequestStep(c)
    PROVE  Types'
<1>1. TypeOK /\ CallsHaveBodies /\ RowsAreWhole /\ FinalizersHaveRows /\ c \in Calls
  BY CallsApart DEF Types
<1>2. CASE CallRequest(c)
  <2>1. PICK body \in Request : request' = [request EXCEPT ![c] = body]
    BY <1>2 DEF CallRequest
  <2>2. UNCHANGED <<now, incidents, rollbacks, verdict>> /\ Goto(c, "getExecution")
        /\ began' = [began EXCEPT ![c] = now] /\ overlapped' \in BOOLEAN
    BY <1>1, <1>2, CallType, PhasesApart DEF CallRequest
  <2>3. /\ pc' \in [Calls -> Phases] /\ pc'[c] = "getExecution"
        /\ \A d \in Calls : d # c => pc'[d] = pc[d]
    BY <1>1, <2>2, GotoType, PhasesApart
  <2>4. TypeOK'
    BY <1>1, <2>1, <2>2, <2>3 DEF TypeOK
  <2>5. CallsHaveBodies'
    BY <1>1, <2>1, <2>2, <2>3, PhasesApart, CallsApart DEF CallsHaveBodies, TypeOK
  <2>6. RowsAreWhole' /\ FinalizersHaveRows'
    BY <1>1, <2>2, <2>3, MoveRows, PhasesApart
  <2>7. QED
    BY <2>4, <2>5, <2>6 DEF Types
<1>3. CASE GetExecution(c) \/ GetIncident(c) \/ GetRollbackByExecution(c) \/ RereadIncident(c)
  <2>1. \E phase \in {"getIncident", "getRollbackByExecution", "rereadIncident",
                      "mitigate", "answered"} : Goto(c, phase)
    BY <1>3 DEF GetExecution, GetIncident, GetRollbackByExecution, RereadIncident, Check
  <2>2. /\ UNCHANGED <<now, rows, request, verdict, began, overlapped>>
        /\ pc[c] \in Requesting
    BY <1>3 DEF GetExecution, GetIncident, GetRollbackByExecution, RereadIncident, Check,
                Requesting
  <2>3. QED
    BY <1>1, <2>1, <2>2, MoveTypes, PhasesApart DEF Onward
<1>4. CASE Mitigate(c)
  <2>1. /\ incidents' = [incidents EXCEPT ![request[c].incident].status = "MITIGATED"]
        /\ Goto(c, "create") /\ pc[c] \in Requesting
        /\ UNCHANGED <<now, rollbacks, request, verdict, began, overlapped>>
    BY <1>4 DEF Mitigate, SetIncident, Requesting
  <2>2. incidents' \in [Incidents -> Incident]
    BY <1>1, <2>1 DEF TypeOK, Incident, IncidentStatuses
  <2>3. TypeOK'
    BY <1>1, <2>1, <2>2, GotoType, PhasesApart DEF TypeOK
  <2>4. CallsHaveBodies' /\ RowsAreWhole' /\ FinalizersHaveRows'
    BY <1>1, <2>1, MoveBodies, MoveRows, PhasesApart DEF Onward
  <2>5. QED
    BY <2>3, <2>4 DEF Types
<1>5. CASE CreateRollbackExecution(c)
  <2>1. request[c] \in Request
    BY <1>1, <1>5, PhasesApart DEF CreateRollbackExecution, CallsHaveBodies
  <2> DEFINE row == [status |-> "PENDING", execution |-> request[c].execution,
                     incident |-> request[c].incident]
  <2>2. /\ rollbacks' = [rollbacks EXCEPT ![c] = row]
        /\ Goto(c, "answered")
        /\ UNCHANGED <<now, incidents, request, verdict, began, overlapped>>
    BY <1>5 DEF CreateRollbackExecution
  <2>3. row \in Rollback /\ row.status # "none" /\ row.execution \in Executions
        /\ row.incident \in Incidents
    BY <2>1 DEF Rollback, RollbackStatuses, Request
  <2> HIDE DEF row
  <2>4. TypeOK'
    BY <1>1, <2>2, <2>3, GotoType, PhasesApart DEF TypeOK
  <2>5. CallsHaveBodies'
    BY <1>1, <2>2, MoveBodies, PhasesApart DEF Onward
  <2>6. RowsAreWhole'
    BY <1>1, <2>2, <2>3 DEF RowsAreWhole, TypeOK
  <2>7. FinalizersHaveRows'
    BY <1>1, <2>2, <2>3, GotoType, PhasesApart, CallsApart DEF FinalizersHaveRows, TypeOK
  <2>8. QED
    BY <2>4, <2>5, <2>6, <2>7 DEF Types
<1>6. QED
  BY <1>2, <1>3, <1>4, <1>5 DEF RequestStep

\* The steps of finalizeRollback keep the types.
LEMMA FinalizeTypes ==
    ASSUME Types, NEW c \in Finalizers, CallFinalize(c) \/ FinalizeStep(c)
    PROVE  Types'
<1>1. TypeOK /\ CallsHaveBodies /\ RowsAreWhole /\ FinalizersHaveRows /\ c \in Calls
  BY CallsApart DEF Types
<1>2. CASE CallFinalize(c)
  <2>1. PICK body \in Verdict : verdict' = [verdict EXCEPT ![c] = body]
    BY <1>2 DEF CallFinalize
  <2>2. UNCHANGED <<now, incidents, rollbacks, request, began>> /\ Goto(c, "getRollback")
        /\ overlapped' \in BOOLEAN
    BY <1>1, <1>2, CallType, PhasesApart DEF CallFinalize
  <2>3. /\ pc' \in [Calls -> Phases] /\ pc'[c] = "getRollback"
        /\ \A d \in Calls : d # c => pc'[d] = pc[d]
    BY <1>1, <2>2, GotoType, PhasesApart
  <2>4. TypeOK'
    BY <1>1, <2>1, <2>2, <2>3 DEF TypeOK
  <2>5. CallsHaveBodies'
    BY <1>1, <2>1, <2>2, <2>3, PhasesApart, CallsApart DEF CallsHaveBodies, TypeOK
  <2>6. RowsAreWhole' /\ FinalizersHaveRows'
    BY <1>1, <2>1, <2>2, <2>3, CallsApart DEF RowsAreWhole, FinalizersHaveRows, TypeOK
  <2>7. QED
    BY <2>4, <2>5, <2>6 DEF Types
<1>3. CASE GetRollbackById(c) \/ ReadIncident(c)
  <2>1. \E phase \in {"update", "resolve", "answered"} :
           Goto(c, phase) /\ (phase # "answered" =>
                                rollbacks[verdict[c].rollback].status # "none")
    BY <1>1, <1>3 DEF GetRollbackById, ReadIncident, Check, FinalizersHaveRows
  <2>2. /\ UNCHANGED <<now, rows, request, verdict, began, overlapped>>
        /\ pc[c] \in Finalizing
    BY <1>3 DEF GetRollbackById, ReadIncident, Check, Finalizing
  <2>3. QED
    BY <1>1, <2>1, <2>2, MoveTypes, PhasesApart DEF Onward
<1>4. CASE UpdateRollbackExecution(c)
  <2> DEFINE b == verdict[c].rollback
             s == verdict[c].status
  <2>1. b \in Requesters /\ s \in RollbackStatuses /\ rollbacks[b].status # "none"
    BY <1>1, <1>4, PhasesApart
    DEF UpdateRollbackExecution, CallsHaveBodies, FinalizersHaveRows, Verdict
  <2>2. rollbacks' = [rollbacks EXCEPT ![b].status = s]
        /\ UNCHANGED <<now, incidents, request, verdict, began, overlapped>>
    BY <1>4 DEF UpdateRollbackExecution
  <2>3. PICK phase \in {"readIncident", "answered"} : Goto(c, phase) /\ pc[c] \in Finalizing
    BY <1>4, PhasesApart DEF UpdateRollbackExecution
  <2> HIDE DEF b, s
  <2>4. /\ rollbacks' \in [Requesters -> Rollback]
        /\ \A d \in Requesters :
              /\ rollbacks'[d].execution = rollbacks[d].execution
              /\ rollbacks'[d].incident = rollbacks[d].incident
              /\ d # b => rollbacks'[d] = rollbacks[d]
        /\ rollbacks'[b].status = s
    BY <1>1, <2>1, <2>2 DEF TypeOK, Rollback
  <2>5. s # "none" /\ rollbacks[b] # NoRollback
    BY <2>1 DEF RollbackStatuses, NoRollback
  <2>6. TypeOK'
    BY <1>1, <2>2, <2>3, <2>4, GotoType, PhasesApart DEF TypeOK
  <2>7. CallsHaveBodies'
    BY <1>1, <2>2, <2>3, MoveBodies, PhasesApart DEF Onward
  <2>8. RowsAreWhole'
    BY <1>1, <2>4, <2>5 DEF RowsAreWhole
  <2>9. FinalizersHaveRows'
    <3>1. \A d \in Finalizers : pc'[d] \in {"update", "readIncident", "resolve"} =>
             rollbacks[verdict[d].rollback].status # "none" /\ verdict[d].rollback \in Requesters
      <4>1. \A d \in Finalizers : d # c => pc'[d] = pc[d]
        BY <1>1, <2>3, GotoType, PhasesApart, CallsApart
      <4>2. verdict[c].rollback \in Requesters /\ rollbacks[verdict[c].rollback].status # "none"
        BY <2>1 DEF b
      <4>3. QED
        BY <1>1, <4>1, <4>2, PhasesApart DEF FinalizersHaveRows, CallsHaveBodies, Verdict
    <3>2. QED
      BY <2>2, <2>4, <2>5, <3>1 DEF FinalizersHaveRows
  <2>10. QED
    BY <2>6, <2>7, <2>8, <2>9 DEF Types
<1>5. CASE Resolve(c)
  <2>1. /\ incidents' = [incidents EXCEPT ![IncidentOf(c)].status = "RESOLVED"]
        /\ Goto(c, "answered")
        /\ UNCHANGED <<now, rollbacks, request, verdict, began, overlapped>>
    BY <1>5 DEF Resolve, SetIncident
  <2>2. incidents' \in [Incidents -> Incident]
    BY <1>1, <2>1 DEF TypeOK, Incident, IncidentStatuses
  <2>3. TypeOK'
    BY <1>1, <2>1, <2>2, GotoType, PhasesApart DEF TypeOK
  <2>4. CallsHaveBodies' /\ RowsAreWhole' /\ FinalizersHaveRows'
    BY <1>1, <2>1, MoveBodies, MoveRows, PhasesApart DEF Onward
  <2>5. QED
    BY <2>3, <2>4 DEF Types
<1>6. QED
  BY <1>2, <1>3, <1>4, <1>5 DEF FinalizeStep

\* The rest of the world keeps the types.
LEMMA WorldTypes ==
    ASSUME Types, World
    PROVE  Types'
<1>1. ASSUME NEW c \in Calls, Abort(c) PROVE Types'
  BY <1>1, MoveTypes, PhasesApart DEF Abort, Onward
<1>2. ASSUME NEW i \in Incidents, CreateIncident(i) PROVE Types'
  BY <1>2 DEF CreateIncident, Types, TypeOK, CallsHaveBodies, RowsAreWhole,
              FinalizersHaveRows, Incident, IncidentStatuses
<1>3. CASE Tick
  <2>1. now' \in Times
    BY <1>3, TimeAssumption DEF Tick, Types, TypeOK, Times
  <2>2. QED
    BY <1>3, <2>1 DEF Tick, rows, Types, TypeOK, CallsHaveBodies, RowsAreWhole,
                      FinalizersHaveRows
<1>4. QED
  BY <1>1, <1>2, <1>3 DEF World

\* Every step keeps the types.
LEMMA NextTypes == Types /\ [Next]_vars => Types'
<1>1. Types /\ UNCHANGED vars => Types'
  BY DEF vars, Types, TypeOK, CallsHaveBodies, RowsAreWhole, FinalizersHaveRows
<1>2. QED
  BY <1>1, RequestTypes, FinalizeTypes, WorldTypes DEF Next

\* Every variable keeps its type, whatever the calls interleave: a row is
\* written whole, and a call in progress has a body and a row to work on.
THEOREM TypeCorrect == Spec => []TypeOK
<1>1. Types => TypeOK
  BY DEF Types
<1>2. QED
  BY InitTypes, NextTypes, <1>1, PTL DEF Spec

--------------------------------------------------------------------------------
(***************************************************************************)
(* Rollbacks are tied to what was checked.  The argument: time and         *)
(* incidents only advance (an incident keeps its execution, and never      *)
(* opens again), so what a requester has checked stays true until its row  *)
(* is written.                                                             *)
(***************************************************************************)
Advances ==
    /\ now <= now'
    /\ \A i \in Incidents : incidents[i].status # "none" =>
          /\ incidents'[i].status # "none"
          /\ incidents'[i].execution = incidents[i].execution
          /\ incidents[i].status \in Closed => incidents'[i].status \in Closed

\* Where time and incidents stand still, nothing goes back.
LEMMA SameAdvances == Types /\ UNCHANGED <<now, incidents>> => Advances
BY DEF Advances, Types, TypeOK, Times

\* Closing an incident never opens one.
LEMMA SetIncidentAdvances ==
    ASSUME Types, NEW c, NEW from, NEW i, NEW status \in Closed, NEW next,
           SetIncident(c, from, i, status, next)
    PROVE  Advances
<1>1. incidents' = [incidents EXCEPT ![i].status = status] /\ now' = now
  BY DEF SetIncident
<1>2. incidents \in [Incidents -> Incident] /\ now \in Times /\ "none" \notin Closed
  BY DEF Types, TypeOK, Closed
<1>3. QED
  BY <1>1, <1>2 DEF Advances, Incident, Times

\* No step takes time back or opens an incident again.
LEMMA NextAdvances == Types /\ [Next]_vars => Advances
<1> SUFFICES ASSUME Types, [Next]_vars PROVE Advances
  OBVIOUS
<1>1. CASE UNCHANGED vars
  BY <1>1, SameAdvances DEF vars
<1>2. ASSUME NEW c \in Requesters, CallRequest(c) \/ RequestStep(c) PROVE Advances
  <2>1. CASE Mitigate(c)
    BY <2>1, SetIncidentAdvances DEF Mitigate, Closed
  <2>2. CASE ~Mitigate(c)
    <3>1. UNCHANGED <<now, incidents>>
      BY <1>2, <2>2 DEF RequestStep, CallRequest, Call, GetExecution, GetIncident,
            GetRollbackByExecution, RereadIncident, Check, CreateRollbackExecution, rows
    <3>2. QED
      BY <3>1, SameAdvances
  <2>3. QED
    BY <2>1, <2>2
<1>3. ASSUME NEW c \in Finalizers, CallFinalize(c) \/ FinalizeStep(c) PROVE Advances
  <2>1. CASE Resolve(c)
    BY <2>1, SetIncidentAdvances DEF Resolve, Closed
  <2>2. CASE ~Resolve(c)
    <3>1. UNCHANGED <<now, incidents>>
      BY <1>3, <2>2 DEF FinalizeStep, CallFinalize, Call, GetRollbackById, ReadIncident,
            Check, UpdateRollbackExecution, rows
    <3>2. QED
      BY <3>1, SameAdvances
  <2>3. QED
    BY <2>1, <2>2
<1>4. CASE World
  <2>1. ASSUME NEW c \in Calls, Abort(c) PROVE Advances
    BY <2>1, SameAdvances DEF Abort, rows
  <2>2. ASSUME NEW i \in Incidents, CreateIncident(i) PROVE Advances
    BY <2>2 DEF CreateIncident, Advances, Types, TypeOK, Times, Incident
  <2>3. CASE Tick
    BY <2>3 DEF Tick, rows, Advances, Types, TypeOK, Times
  <2>4. QED
    BY <1>4, <2>1, <2>2, <2>3 DEF World
<1>5. QED
  BY <1>1, <1>2, <1>3, <1>4 DEF Next

\* What was checked stays true while the call itself does not move.
LEMMA CheckedFrame ==
    ASSUME Types, Advances, NEW c \in Requesters, Checked(c), now' \in Times,
           UNCHANGED <<pc[c], request[c], began[c]>>,
           rollbacks[c] = NoRollback => rollbacks'[c] = NoRollback
    PROVE  Checked(c)'
<1>1. /\ pc[c] \in Requesting => request[c] \in Request
      /\ now \in Int /\ now' \in Int /\ began[c] \in Int /\ now <= now'
      /\ ExecutedAt \in [Executions -> Nat]
  BY TimeAssumption DEF Types, CallsHaveBodies, TypeOK, Times, Advances
<1>2. pc[c] \in Requesting =>
        request[c].execution \in Executions /\ request[c].incident \in Incidents
  BY <1>1 DEF Request
<1>3. /\ pc[c] \in Requesting => began[c] <= now'
      /\ pc[c] \in Requesting \ {"getExecution"} =>
            /\ ExecutedAt[request[c].execution] <= now'
            /\ began[c] <= ExecutedAt[request[c].execution] + Window
  BY <1>1, <1>2 DEF Checked, Logged
<1>4. /\ pc[c] \in {"getRollbackByExecution", "rereadIncident", "mitigate", "create"} =>
            /\ incidents'[request[c].incident].status # "none"
            /\ incidents'[request[c].incident].execution \in {None, request[c].execution}
      /\ pc[c] = "create" => incidents'[request[c].incident].status \in Closed
  BY <1>2, PhasesApart DEF Checked, Advances
<1>5. pc[c] \notin Ended => rollbacks'[c] = NoRollback
  BY DEF Checked
<1>6. QED
  BY <1>3, <1>4, <1>5 DEF Checked, Logged

\* What a step of one call leaves to the requesters.
LEMMA RequestOthers ==
    ASSUME Types, NEW c \in Requesters, CallRequest(c) \/ RequestStep(c)
    PROVE  \A d \in Requesters : d # c =>
              UNCHANGED <<pc[d], request[d], began[d], rollbacks[d]>>
<1>1. TypeOK /\ c \in Calls /\ Requesters \subseteq Calls
  BY CallsApart DEF Types
<1>2. \A d \in Calls : d # c => pc'[d] = pc[d]
  BY <1>1 DEF RequestStep, CallRequest, Call, GetExecution, GetIncident,
        GetRollbackByExecution, RereadIncident, Check, Mitigate, SetIncident,
        CreateRollbackExecution, Goto, TypeOK
<1>3. CASE CallRequest(c)
  BY <1>1, <1>2, <1>3 DEF CallRequest, Call, rows, TypeOK
<1>4. CASE RequestStep(c)
  <2>1. UNCHANGED <<request, began>>
    BY <1>4 DEF RequestStep, GetExecution, GetIncident, GetRollbackByExecution,
          RereadIncident, Check, Mitigate, SetIncident, CreateRollbackExecution
  <2>2. \A d \in Requesters : d # c => rollbacks'[d] = rollbacks[d]
    BY <1>1, <1>4 DEF RequestStep, GetExecution, GetIncident, GetRollbackByExecution,
          RereadIncident, Check, Mitigate, SetIncident, CreateRollbackExecution, rows, TypeOK
  <2>3. QED
    BY <1>1, <1>2, <2>1, <2>2
<1>5. QED
  BY <1>3, <1>4

\* A row keeps what it is tied to.
Kept(d) ==
    /\ rollbacks[d] = NoRollback => rollbacks'[d] = NoRollback
    /\ rollbacks[d].status # "none" =>
          /\ rollbacks'[d].status # "none"
          /\ rollbacks'[d].execution = rollbacks[d].execution
          /\ rollbacks'[d].incident = rollbacks[d].incident

\* A row that is left alone is kept.
LEMMA SameKept == ASSUME NEW d, rollbacks'[d] = rollbacks[d] PROVE Kept(d)
BY DEF Kept

\* A finalizer keeps every requester's place and row.
LEMMA FinalizeOthers ==
    ASSUME Types, NEW c \in Finalizers, CallFinalize(c) \/ FinalizeStep(c)
    PROVE  \A d \in Requesters : UNCHANGED <<pc[d], request[d], began[d]>> /\ Kept(d)
<1>1. /\ TypeOK /\ c \in Calls /\ Requesters \subseteq Calls /\ c \notin Requesters
      /\ CallsHaveBodies /\ FinalizersHaveRows
  BY CallsApart DEF Types
<1>2. \A d \in Calls : d # c => pc'[d] = pc[d]
  BY <1>1 DEF FinalizeStep, CallFinalize, Call, GetRollbackById, ReadIncident, Check,
        UpdateRollbackExecution, Resolve, SetIncident, Goto, TypeOK
<1>3. UNCHANGED <<request, began>>
  BY DEF FinalizeStep, CallFinalize, GetRollbackById, ReadIncident, Check,
        UpdateRollbackExecution, Resolve, SetIncident
<1>4. \A d \in Requesters : Kept(d)
  <2>1. CASE UpdateRollbackExecution(c)
    <3>1. /\ verdict[c].rollback \in Requesters /\ verdict[c].status # "none"
          /\ rollbacks[verdict[c].rollback].status # "none"
      BY <1>1, <2>1, PhasesApart DEF UpdateRollbackExecution, CallsHaveBodies,
            FinalizersHaveRows, Verdict, RollbackStatuses
    <3>2. rollbacks' = [rollbacks EXCEPT ![verdict[c].rollback].status = verdict[c].status]
      BY <2>1 DEF UpdateRollbackExecution
    <3>3. rollbacks \in [Requesters -> Rollback]
      BY <1>1 DEF TypeOK
    <3>4. QED
      BY <3>1, <3>2, <3>3 DEF Kept, Rollback, NoRollback
  <2>2. CASE ~UpdateRollbackExecution(c)
    <3>1. rollbacks' = rollbacks
      BY <2>2 DEF FinalizeStep, CallFinalize, Call, GetRollbackById, ReadIncident, Check,
            Resolve, SetIncident, rows
    <3>2. QED
      BY <3>1, SameKept
  <2>3. QED
    BY <2>1, <2>2
<1>5. QED
  BY <1>1, <1>2, <1>3, <1>4

\* The rest of the world moves no call but to abort it, and writes no rollback.
LEMMA WorldOthers ==
    ASSUME Types, World
    PROVE  /\ UNCHANGED <<request, began, rollbacks>>
           /\ \A c \in Calls : pc'[c] = pc[c] \/ (c \in InProgress /\ pc'[c] = "aborted")
<1>1. pc \in [Calls -> Phases]
  BY DEF Types, TypeOK
<1>2. QED
  BY <1>1 DEF World, Abort, CreateIncident, Tick, Goto, rows

\* A requester that goes on has checked what its new phase relies on.
LEMMA RequestChecked ==
    ASSUME Types, Types', Advances, NEW c \in Requesters, Checked(c),
           CallRequest(c) \/ RequestStep(c)
    PROVE  Checked(c)'
<1>1. /\ TypeOK /\ CallsHaveBodies /\ c \in Calls /\ now \in Int /\ now <= now
      /\ now' \in Times /\ began[c] \in Int
  BY CallsApart, TimeAssumption DEF Types, TypeOK, Times
<1>2. CASE CallRequest(c)
  <2>1. /\ pc[c] = "idle" /\ began' = [began EXCEPT ![c] = now]
        /\ Goto(c, "getExecution") /\ UNCHANGED <<now, rollbacks>>
    BY <1>2 DEF CallRequest, Call, rows
  <2>2. pc'[c] = "getExecution" /\ began'[c] = now
    BY <1>1, <2>1, GotoType, PhasesApart DEF TypeOK
  <2>3. rollbacks[c] = NoRollback
    BY <2>1, PhasesApart DEF Checked
  <2>4. began'[c] <= now' /\ rollbacks'[c] = NoRollback
    BY <1>1, <2>1, <2>2, <2>3
  <2>5. QED
    BY <2>2, <2>4 DEF Checked
<1>3. ASSUME NEW phase \in Phases, Goto(c, phase), phase \in Ended PROVE Checked(c)'
  <2>1. pc'[c] \in Ended
    BY <1>1, <1>3, GotoType
  <2>2. QED
    BY <2>1, PhasesApart DEF Checked
<1>4. CASE GetExecution(c)
  <2>1. PICK phase \in {"getIncident", "answered"} :
           /\ Goto(c, phase)
           /\ phase = "getIncident" => InWindow(request[c].execution, Window)
    BY <1>4 DEF GetExecution, Check
  <2>2. pc[c] = "getExecution" /\ UNCHANGED <<now, rows, request, began>>
    BY <1>4 DEF GetExecution, Check
  <2>3. CASE phase = "getIncident"
    <3>1. pc'[c] = "getIncident"
      BY <1>1, <2>1, <2>3, GotoType, PhasesApart
    <3>2. request[c].execution \in Executions
      BY <1>1, <2>2, PhasesApart DEF CallsHaveBodies, Request
    <3>3. /\ Logged(request[c].execution) /\ began[c] <= now
          /\ now - ExecutedAt[request[c].execution] <= Window
          /\ rollbacks[c] = NoRollback
      BY <2>1, <2>2, <2>3, PhasesApart DEF InWindow, Checked
    <3>4. began[c] <= ExecutedAt[request[c].execution] + Window
      BY <1>1, <3>2, <3>3, TimeAssumption
    <3>5. QED
      BY <2>2, <3>1, <3>3, <3>4, PhasesApart DEF Checked, Logged, rows
  <2>4. QED
    BY <1>3, <2>1, <2>3, PhasesApart
<1>5. CASE GetIncident(c)
  <2> DEFINE incident == incidents[request[c].incident]
  <2>1. PICK phase \in {"getRollbackByExecution", "answered"} :
           /\ Goto(c, phase)
           /\ phase = "getRollbackByExecution" =>
                 incident.status = "OPEN" /\ incident.execution \in {None, request[c].execution}
    BY <1>5 DEF GetIncident, Check
  <2>2. pc[c] = "getIncident" /\ UNCHANGED <<now, rows, request, began>>
    BY <1>5 DEF GetIncident, Check
  <2>3. CASE phase = "getRollbackByExecution"
    <3>1. pc'[c] = "getRollbackByExecution"
      BY <1>1, <2>1, <2>3, GotoType, PhasesApart
    <3>2. QED
      BY <2>1, <2>2, <2>3, <3>1, PhasesApart DEF Checked, Logged, rows
  <2>4. QED
    BY <1>3, <2>1, <2>3, PhasesApart
<1>6. CASE GetRollbackByExecution(c) \/ RereadIncident(c)
  <2>1. PICK phase \in {"rereadIncident", "mitigate", "answered"} : Goto(c, phase)
    BY <1>6 DEF GetRollbackByExecution, RereadIncident, Check
  <2>2. /\ pc[c] \in {"getRollbackByExecution", "rereadIncident"}
        /\ UNCHANGED <<now, rows, request, began>>
    BY <1>6 DEF GetRollbackByExecution, RereadIncident, Check
  <2>3. CASE phase # "answered"
    <3>1. pc'[c] \in {"rereadIncident", "mitigate"}
      BY <1>1, <2>1, <2>3, GotoType, PhasesApart
    <3>2. QED
      BY <2>2, <3>1, PhasesApart DEF Checked, Logged, rows
  <2>4. QED
    BY <1>3, <2>1, <2>3, PhasesApart
<1>7. CASE Mitigate(c)
  <2> DEFINE i == request[c].incident
  <2>1. /\ pc[c] = "mitigate" /\ UNCHANGED <<now, rollbacks, request, began>>
        /\ incidents' = [incidents EXCEPT ![i].status = "MITIGATED"]
        /\ Goto(c, "create")
    BY <1>7 DEF Mitigate, SetIncident
  <2>2. pc'[c] = "create" /\ i \in Incidents
    BY <1>1, <2>1, GotoType, PhasesApart DEF CallsHaveBodies, Request
  <2>3. incidents'[i].status = "MITIGATED" /\ incidents'[i].execution = incidents[i].execution
    BY <1>1, <2>1, <2>2 DEF TypeOK, Incident
  <2>4. QED
    BY <2>1, <2>2, <2>3, PhasesApart DEF Checked, Logged, Closed
<1>8. CASE CreateRollbackExecution(c)
  BY <1>3, <1>8, PhasesApart DEF CreateRollbackExecution
<1>9. QED
  BY <1>2, <1>4, <1>5, <1>6, <1>7, <1>8 DEF RequestStep

Ties == RollbacksAreTied /\ WindowIsHonoured
RollbackInv == Types /\ (\A c \in Requesters : Checked(c)) /\ Ties

\* A row is tied when what its call had checked still holds.
TiedRow(c) ==
    rollbacks[c].status # "none" =>
        LET e == rollbacks[c].execution
            i == rollbacks[c].incident
        IN  /\ Logged(e)
            /\ incidents[i].status \in Closed
            /\ incidents[i].execution \in {None, e}
            /\ began[c] <= ExecutedAt[e] + Window

\* The ties of the rollbacks, one requester at a time.
LEMMA TiesAreRows == Ties <=> \A c \in Requesters : TiedRow(c)
BY DEF Ties, RollbacksAreTied, WindowIsHonoured, Created, TiedRow, Closed

\* A rollback that is kept stays tied to its incident and its execution.
LEMMA TiedFrame ==
    ASSUME Types, Advances, now' \in Times, NEW c \in Requesters, TiedRow(c), Kept(c),
           began'[c] = began[c], rollbacks[c].status # "none"
    PROVE  TiedRow(c)'
<1>1. rollbacks[c].execution \in Executions /\ rollbacks[c].incident \in Incidents
  BY DEF Types, RowsAreWhole, NoRollback
<1>2. /\ now \in Int /\ now' \in Int /\ now <= now' /\ "none" \notin Closed
      /\ ExecutedAt[rollbacks[c].execution] \in Int
  BY <1>1, TimeAssumption DEF Types, TypeOK, Times, Advances, Closed
<1>3. QED
  BY <1>1, <1>2 DEF TiedRow, Kept, Advances, Logged

\* A rollback is created tied, from what its requester has checked.
LEMMA RequestTies ==
    ASSUME RollbackInv, Types', Advances, NEW c \in Requesters,
           CallRequest(c) \/ RequestStep(c)
    PROVE  TiedRow(c)'
<1>1. TypeOK /\ Checked(c)
  BY DEF RollbackInv, Types
<1>2. pc[c] \in Requesting \cup {"idle"}
  BY PhasesApart DEF CallRequest, Call, RequestStep, GetExecution, GetIncident,
        GetRollbackByExecution, RereadIncident, Check, Mitigate, SetIncident,
        CreateRollbackExecution
<1>3. rollbacks[c] = NoRollback
  BY <1>1, <1>2, PhasesApart DEF Checked
<1>4. CASE CreateRollbackExecution(c)
  <2>1. /\ UNCHANGED <<now, incidents, began>>
        /\ rollbacks'[c].execution = request[c].execution
        /\ rollbacks'[c].incident = request[c].incident
    BY <1>1, <1>4 DEF CreateRollbackExecution, TypeOK
  <2>2. /\ Logged(request[c].execution)
        /\ began[c] <= ExecutedAt[request[c].execution] + Window
        /\ incidents[request[c].incident].status \in Closed
        /\ incidents[request[c].incident].execution \in {None, request[c].execution}
    BY <1>1, <1>4, PhasesApart DEF CreateRollbackExecution, Checked
  <2>3. QED
    BY <2>1, <2>2 DEF TiedRow, Logged
<1>5. CASE ~CreateRollbackExecution(c)
  <2>1. rollbacks' = rollbacks
    BY <1>5 DEF CallRequest, Call, RequestStep, GetExecution, GetIncident,
          GetRollbackByExecution, RereadIncident, Check, Mitigate, SetIncident, rows
  <2>2. QED
    BY <1>3, <2>1 DEF TiedRow, NoRollback
<1>6. QED
  BY <1>4, <1>5

\* Whoever is left alone keeps what it has checked and what its rollback is tied to.
LEMMA OthersKeepInv ==
    ASSUME RollbackInv, Types', Advances, NEW c \in Requesters, Kept(c),
           UNCHANGED <<pc[c], request[c], began[c]>>
    PROVE  Checked(c)' /\ TiedRow(c)'
<1>1. now' \in Times /\ Types /\ Checked(c) /\ TiedRow(c)
  BY TiesAreRows DEF RollbackInv, Types, TypeOK
<1>2. Checked(c)'
  BY <1>1, CheckedFrame DEF Kept
<1>3. rollbacks[c] = NoRollback \/ rollbacks[c].status # "none"
  BY <1>1 DEF Types, RowsAreWhole
<1>4. TiedRow(c)'
  BY <1>1, <1>3, TiedFrame DEF Kept, TiedRow, NoRollback
<1>5. QED
  BY <1>2, <1>4

\* Every step keeps the invariant.
LEMMA NextRollbackInv == RollbackInv /\ [Next]_vars => RollbackInv'
<1> SUFFICES ASSUME RollbackInv, [Next]_vars PROVE RollbackInv'
  OBVIOUS
<1>1. Types' /\ Advances /\ Types
  BY NextTypes, NextAdvances DEF RollbackInv
<1>2. SUFFICES \A d \in Requesters : Checked(d)' /\ TiedRow(d)'
  <2>1. (\A d \in Requesters : TiedRow(d)') => Ties'
    BY DEF Ties, RollbacksAreTied, WindowIsHonoured, Created, TiedRow, Closed, Logged
  <2>2. QED
    BY <1>1, <2>1 DEF RollbackInv
<1>3. CASE UNCHANGED vars
  BY <1>1, <1>3, OthersKeepInv, SameKept DEF vars
<1>4. ASSUME NEW c \in Requesters, CallRequest(c) \/ RequestStep(c)
      PROVE  \A d \in Requesters : Checked(d)' /\ TiedRow(d)'
  <2>1. Checked(c)' /\ TiedRow(c)'
    BY <1>1, <1>4, RequestChecked, RequestTies DEF RollbackInv
  <2>2. \A d \in Requesters : d # c => Checked(d)' /\ TiedRow(d)'
    BY <1>1, <1>4, RequestOthers, OthersKeepInv, SameKept
  <2>3. QED
    BY <2>1, <2>2
<1>5. ASSUME NEW c \in Finalizers, CallFinalize(c) \/ FinalizeStep(c)
      PROVE  \A d \in Requesters : Checked(d)' /\ TiedRow(d)'
  BY <1>1, <1>5, FinalizeOthers, OthersKeepInv
<1>6. CASE World
  <2> SUFFICES ASSUME NEW d \in Requesters PROVE Checked(d)' /\ TiedRow(d)'
    OBVIOUS
  <2>1. UNCHANGED <<request, began, rollbacks>> /\ (pc'[d] = pc[d] \/ pc'[d] = "aborted")
    BY <1>1, <1>6, WorldOthers, CallsApart
  <2>2. CASE pc'[d] = pc[d]
    BY <1>1, <2>1, <2>2, OthersKeepInv, SameKept
  <2>3. CASE pc'[d] = "aborted"
    <3>1. Checked(d)'
      BY <2>3, PhasesApart DEF Checked
    <3>2. now' \in Times /\ TiedRow(d)
      BY <1>1, TiesAreRows DEF RollbackInv, Types, TypeOK
    <3>3. TiedRow(d)'
      BY <1>1, <2>1, <3>2, TiedFrame, SameKept DEF TiedRow
    <3>4. QED
      BY <3>1, <3>3
  <2>4. QED
    BY <2>1, <2>2, <2>3
<1>7. QED
  BY <1>3, <1>4, <1>5, <1>6 DEF Next

\* The invariant holds before anything is asked for.
LEMMA InitRollbackInv == Init => RollbackInv
<1>1. Init => \A c \in Requesters : Checked(c)
  BY PhasesApart DEF Init, Checked, Calls
<1>2. Init => Ties
  BY DEF Init, Ties, RollbacksAreTied, WindowIsHonoured, Created, NoRollback
<1>3. QED
  BY <1>1, <1>2, InitTypes DEF RollbackInv

\* Whatever interleaves, a rollback is of a logged execution and for an
\* incident about that execution or about none, which is no longer open.
THEOREM Tied == Spec => []RollbacksAreTied
<1>1. RollbackInv => RollbacksAreTied
  BY DEF RollbackInv, Ties
<1>2. QED
  BY InitRollbackInv, NextRollbackInv, <1>1, PTL DEF Spec

\* No interleaving and no delay makes a call that began after the window had
\* closed create a rollback.
THEOREM WindowHolds == Spec => []WindowIsHonoured
<1>1. RollbackInv => WindowIsHonoured
  BY DEF RollbackInv, Ties
<1>2. QED
  BY InitRollbackInv, NextRollbackInv, <1>1, PTL DEF Spec

--------------------------------------------------------------------------------
(***************************************************************************)
(* Orphans.  A requester is the only one that mitigates, it goes on to     *)
(* create the row, and a row is never deleted.                             *)
(***************************************************************************)
LEMMA OtherRequestSteps ==
    ASSUME NEW c \in Requesters, CallRequest(c) \/ RequestStep(c)
    PROVE  /\ Mitigate(c) \/ incidents' = incidents
           /\ CreateRollbackExecution(c) \/ rollbacks' = rollbacks
           /\ CallRequest(c) \/ UNCHANGED <<request, began, verdict>>
           /\ pc[c] \in Requesting \cup {"idle"}
BY PhasesApart DEF CallRequest, Call, RequestStep, GetExecution, GetIncident,
      GetRollbackByExecution, RereadIncident, Check, Mitigate, SetIncident,
      CreateRollbackExecution, rows

\* A rollback is written by its creation, and otherwise kept.
LEMMA StepKeeps ==
    ASSUME RollbackInv, [Next]_vars, NEW d \in Requesters
    PROVE  Kept(d) \/ CreateRollbackExecution(d)
<1>1. Types
  BY DEF RollbackInv
<1>2. ASSUME NEW c \in Requesters, CallRequest(c) \/ RequestStep(c)
      PROVE  Kept(d) \/ CreateRollbackExecution(d)
  BY <1>1, <1>2, RequestOthers, OtherRequestSteps, SameKept
<1>3. CASE UNCHANGED vars
  BY <1>3, SameKept DEF vars
<1>4. QED
  BY <1>1, <1>2, <1>3, FinalizeOthers, WorldOthers, SameKept DEF Next

\* The creator had no row before.
LEMMA CreatorIsNew ==
    ASSUME RollbackInv, NEW c \in Requesters, CreateRollbackExecution(c)
    PROVE  /\ rollbacks[c] = NoRollback
           /\ rollbacks' = [rollbacks EXCEPT ![c] =
                               [status |-> "PENDING", execution |-> request[c].execution,
                                incident |-> request[c].incident]]
           /\ rollbacks \in [Requesters -> Rollback]
BY PhasesApart DEF RollbackInv, Checked, CreateRollbackExecution, Types, TypeOK

\* An incident loses none of its rollbacks.
LEMMA RollbacksStay ==
    ASSUME RollbackInv, [Next]_vars, NEW i \in Incidents, NEW d \in RollbacksFor(i)
    PROVE  d \in RollbacksFor(i)'
<1>1. rollbacks[d] # NoRollback /\ d \in Requesters /\ rollbacks[d].incident = i
  BY NoneAssumption DEF RollbacksFor, NoRollback
<1>2. rollbacks[d].status # "none"
  BY <1>1 DEF RollbackInv, Types, RowsAreWhole
<1>3. QED
  BY <1>1, <1>2, StepKeeps, CreatorIsNew DEF Kept, RollbacksFor

\* An incident is mitigated by a requester that asked to.
LEMMA MitigatedHow ==
    ASSUME Types, [Next]_vars, NEW i \in Incidents, incidents'[i].status = "MITIGATED"
    PROVE  \/ incidents[i].status = "MITIGATED"
           \/ \E c \in Requesters : Mitigate(c) /\ request[c].incident = i
<1>1. incidents \in [Incidents -> Incident]
  BY DEF Types, TypeOK
<1>2. ASSUME NEW c \in Requesters, Mitigate(c), request[c].incident # i
      PROVE  incidents'[i] = incidents[i]
  BY <1>1, <1>2 DEF Mitigate, SetIncident
<1>3. ASSUME NEW c \in Finalizers, CallFinalize(c) \/ FinalizeStep(c)
      PROVE  incidents'[i] = incidents[i] \/ incidents'[i].status = "RESOLVED"
  BY <1>1, <1>3 DEF FinalizeStep, CallFinalize, Call, GetRollbackById, ReadIncident, Check,
        UpdateRollbackExecution, Resolve, SetIncident, rows, Incident
<1>4. CASE World
  BY <1>1, <1>4 DEF World, Abort, CreateIncident, Tick, rows, Incident
<1>5. CASE UNCHANGED vars
  BY <1>5 DEF vars
<1>6. QED
  BY <1>2, <1>3, <1>4, <1>5, OtherRequestSteps DEF Next

Pending(c, i) == pc[c] \in {"create", "aborted"} /\ request[c].incident = i

\* Who is about to create a rollback for an incident stays so, or is aborted, or has created it.
LEMMA PendingStays ==
    ASSUME RollbackInv, [Next]_vars, NEW i \in Incidents, NEW c \in Requesters, Pending(c, i)
    PROVE  Pending(c, i)' \/ c \in RollbacksFor(i)'
<1>1. Types /\ c \in Calls /\ request[c].incident = i /\ pc[c] \in {"create", "aborted"}
  BY CallsApart DEF RollbackInv, Pending
<1>2. CASE UNCHANGED vars
  BY <1>1, <1>2 DEF vars, Pending
<1>3. ASSUME NEW d \in Requesters, CallRequest(d) \/ RequestStep(d)
      PROVE  Pending(c, i)' \/ c \in RollbacksFor(i)'
  <2>1. CASE d # c
    BY <1>1, <1>3, <2>1, RequestOthers DEF Pending
  <2>2. CASE d = c
    <3>1. CreateRollbackExecution(c)
      BY <1>1, <1>3, <2>2, PhasesApart DEF CallRequest, Call, RequestStep, GetExecution,
            GetIncident, GetRollbackByExecution, RereadIncident, Check, Mitigate, SetIncident
    <3>2. QED
      BY <1>1, <3>1, CreatorIsNew DEF RollbacksFor
  <2>3. QED
    BY <2>1, <2>2
<1>4. ASSUME NEW d \in Finalizers, CallFinalize(d) \/ FinalizeStep(d)
      PROVE  Pending(c, i)'
  BY <1>1, <1>4, FinalizeOthers DEF Pending
<1>5. CASE World
  BY <1>1, <1>5, WorldOthers DEF Pending
<1>6. QED
  BY <1>2, <1>3, <1>4, <1>5 DEF Next

\* An incident is mitigated without a rollback only while the call is about
\* to create it, or for good when that call was cut short.
THEOREM Orphans == Spec => []OrphansComeFromAborts
<1>1. Init => OrphansComeFromAborts
  BY DEF Init, OrphansComeFromAborts
<1>2. RollbackInv /\ OrphansComeFromAborts /\ [Next]_vars => OrphansComeFromAborts'
  <2> SUFFICES ASSUME RollbackInv, OrphansComeFromAborts, [Next]_vars,
                      NEW i \in Incidents, incidents'[i].status = "MITIGATED"
               PROVE  \/ RollbacksFor(i)' # {}
                      \/ \E c \in Requesters : Pending(c, i)'
    BY DEF OrphansComeFromAborts, Pending
  <2>1. Types
    BY DEF RollbackInv
  <2>2. CASE incidents[i].status = "MITIGATED"
    BY <2>2, RollbacksStay, PendingStays DEF OrphansComeFromAborts, Pending
  <2>3. ASSUME NEW c \in Requesters, Mitigate(c), request[c].incident = i
        PROVE  Pending(c, i)'
    <3>1. Goto(c, "create") /\ request' = request
      BY <2>3 DEF Mitigate, SetIncident
    <3>2. pc'[c] = "create"
      BY <2>1, <3>1, GotoType, PhasesApart, CallsApart DEF Types
    <3>3. QED
      BY <2>3, <3>1, <3>2 DEF Pending
  <2>4. QED
    BY <2>1, <2>2, <2>3, MitigatedHow
<1>3. QED
  BY <1>1, <1>2, InitRollbackInv, NextRollbackInv, PTL DEF Spec

--------------------------------------------------------------------------------
(***************************************************************************)
(* Calls that do not overlap.  While no two calls have been in progress at *)
(* once, the call in progress is alone with the rows, so what it has read  *)
(* is still so when it writes.                                             *)
(***************************************************************************)
Alone == \A c, d \in InProgress : c = d

FreshRequest(c) ==
    LET e == request[c].execution
        i == request[c].incident
    IN  /\ pc[c] \in {"rereadIncident", "mitigate", "create"} => RollbacksOf(e) = {}
        /\ pc[c] \in {"getRollbackByExecution", "rereadIncident", "mitigate"} => IsOpen(i)
        /\ pc[c] = "create" => incidents[i].status = "MITIGATED" /\ RollbacksFor(i) = {}

FreshVerdict(c) ==
    LET status == rollbacks[verdict[c].rollback].status
    IN  /\ pc[c] = "update" => status = "PENDING"
        /\ pc[c] \in {"readIncident", "resolve"} => status = "EXECUTED"

OneEach ==
    \A c, d \in Created :
        \/ rollbacks[c].execution = rollbacks[d].execution
        \/ rollbacks[c].incident = rollbacks[d].incident
        => c = d

ResolvedByRollback ==
    \A i \in Incidents : incidents[i].status = "RESOLVED" =>
        \E c \in RollbacksFor(i) : rollbacks[c].status = "EXECUTED"

Fresh == /\ \A c \in Requesters : FreshRequest(c)
         /\ \A c \in Finalizers : FreshVerdict(c)
Serial == Alone /\ Fresh /\ OneEach /\ ResolvedByRollback

SerialInv == RollbackInv /\ (~overlapped => Serial)

\* The strengthened invariant implies the lifecycle of serial calls.
LEMMA SerialMeans == SerialInv => SerialCallsKeepLifecycle
BY DEF SerialInv, Serial, OneEach, ResolvedByRollback, SerialCallsKeepLifecycle

\* Nobody overlaps at the start.
LEMMA InitSerial == Init => SerialInv
<1>1. Init => Alone /\ Fresh
  BY PhasesApart, CallsApart DEF Init, Alone, InProgress, Fresh, FreshRequest, FreshVerdict
<1>2. Init => OneEach /\ ResolvedByRollback
  BY DEF Init, OneEach, Created, NoRollback, ResolvedByRollback
<1>3. QED
  BY <1>1, <1>2, InitRollbackInv DEF SerialInv, Serial

\* A call that is not in progress has nothing to be fresh about.
LEMMA IdleIsFresh ==
    ASSUME NEW c \in Calls, c \notin InProgress
    PROVE  FreshRequest(c) /\ FreshVerdict(c)
BY PhasesApart DEF InProgress, FreshRequest, FreshVerdict

\* When only c moves and every other call is at rest, only c is in question.
LEMMA LoneMover ==
    ASSUME TypeOK, NEW c \in Calls, \A d \in Calls : d # c => pc'[d] = pc[d],
           InProgress \subseteq {c},
           c \in Requesters => FreshRequest(c)',
           c \in Finalizers => FreshVerdict(c)'
    PROVE  Alone' /\ Fresh'
<1>1. \A d \in Calls : d # c => pc'[d] \notin Requesting \cup Finalizing
  BY DEF InProgress
<1>2. Alone'
  BY <1>1 DEF Alone, InProgress
<1>3. \A d \in Calls : d # c => FreshRequest(d)' /\ FreshVerdict(d)'
  BY <1>1, PhasesApart DEF FreshRequest, FreshVerdict
<1>4. QED
  BY <1>2, <1>3, CallsApart DEF Fresh

\* Where incidents and rollbacks are left alone, the lifecycle is.
LEMMA SameLifecycle ==
    ASSUME OneEach, ResolvedByRollback, UNCHANGED <<incidents, rollbacks>>
    PROVE  OneEach' /\ ResolvedByRollback'
BY DEF OneEach, Created, ResolvedByRollback, RollbacksFor

\* A call begins when none is in progress.
LEMMA SerialCall ==
    ASSUME RollbackInv, Serial, NEW c \in Calls, NEW phase \in {"getExecution", "getRollback"},
           Call(c, phase), ~overlapped', [Next]_vars
    PROVE  Serial'
<1>1. /\ InProgress = {} /\ pc' = [pc EXCEPT ![c] = phase]
      /\ UNCHANGED <<incidents, rollbacks>> /\ TypeOK
  BY DEF Call, Goto, rows, RollbackInv, Types
<1>2. pc'[c] = phase /\ \A d \in Calls : d # c => pc'[d] = pc[d]
  BY <1>1 DEF TypeOK
<1>3. FreshRequest(c)' /\ FreshVerdict(c)'
  BY <1>2 DEF FreshRequest, FreshVerdict
<1>4. Alone' /\ Fresh'
  BY <1>1, <1>2, <1>3, LoneMover
<1>5. QED
  BY <1>1, <1>4, SameLifecycle DEF Serial

\* An open incident has no rollback.
LEMMA OpenHasNone ==
    ASSUME RollbackInv, NEW i \in Incidents, IsOpen(i)
    PROVE  RollbacksFor(i) = {}
<1>1. \A c \in RollbacksFor(i) : c \in Created
  BY NoneAssumption DEF RollbackInv, Types, RowsAreWhole, RollbacksFor, Created, NoRollback
<1>2. QED
  BY <1>1 DEF RollbackInv, Ties, RollbacksAreTied, RollbacksFor, IsOpen

\* Alone, requestRollback still sees what it read, and keeps the lifecycle.
LEMMA SerialRequest ==
    ASSUME RollbackInv, Serial, NEW c \in Requesters, RequestStep(c), c \in InProgress
    PROVE  Serial'
<1>1. /\ TypeOK /\ c \in Calls /\ FreshRequest(c) /\ InProgress \subseteq {c} /\ Types
      /\ OneEach /\ ResolvedByRollback
  BY CallsApart DEF RollbackInv, Types, Serial, Fresh, Alone
<1>2. c \notin Finalizers /\ request[c] \in Request
  BY <1>1, CallsApart DEF Types, CallsHaveBodies, InProgress
<1>3. request[c].execution \in Executions /\ request[c].incident \in Incidents
  BY <1>2 DEF Request
<1>4. ASSUME NEW phase \in Phases, Goto(c, phase),
             pc'[c] = phase => FreshRequest(c)'
      PROVE  Alone' /\ Fresh'
  <2>1. pc'[c] = phase /\ \A d \in Calls : d # c => pc'[d] = pc[d]
    BY <1>1, <1>4, GotoType
  <2>2. QED
    BY <1>1, <1>2, <1>4, <2>1, LoneMover
<1>5. CASE GetExecution(c)
  <2>1. PICK phase \in {"getIncident", "answered"} : Goto(c, phase)
    BY <1>5 DEF GetExecution, Check
  <2>2. pc'[c] = phase => FreshRequest(c)'
    BY <2>1 DEF FreshRequest
  <2>3. UNCHANGED <<incidents, rollbacks>>
    BY <1>5 DEF GetExecution, Check, rows
  <2>4. QED
    BY <1>1, <1>4, <2>1, <2>2, <2>3, SameLifecycle, PhasesApart DEF Serial
<1>6. CASE GetIncident(c)
  <2>1. PICK phase \in {"getRollbackByExecution", "answered"} :
           /\ Goto(c, phase)
           /\ phase = "getRollbackByExecution" => IsOpen(request[c].incident)
    BY <1>6 DEF GetIncident, Check, IsOpen
  <2>2. UNCHANGED <<incidents, rollbacks, request>>
    BY <1>6 DEF GetIncident, Check, rows
  <2>3. pc'[c] = phase => FreshRequest(c)'
    BY <2>1, <2>2 DEF FreshRequest, IsOpen
  <2>4. QED
    BY <1>1, <1>4, <2>1, <2>2, <2>3, SameLifecycle, PhasesApart DEF Serial
<1>7. CASE GetRollbackByExecution(c)
  <2>1. PICK phase \in {"rereadIncident", "answered"} :
           /\ Goto(c, phase)
           /\ phase = "rereadIncident" => RollbacksOf(request[c].execution) = {}
    BY <1>7 DEF GetRollbackByExecution, Check
  <2>2. UNCHANGED <<incidents, rollbacks, request>> /\ IsOpen(request[c].incident)
    BY <1>1, <1>7 DEF GetRollbackByExecution, Check, rows, FreshRequest
  <2>3. pc'[c] = phase => FreshRequest(c)'
    BY <2>1, <2>2 DEF FreshRequest, IsOpen, RollbacksOf
  <2>4. QED
    BY <1>1, <1>4, <2>1, <2>2, <2>3, SameLifecycle, PhasesApart DEF Serial
<1>8. CASE RereadIncident(c)
  <2>1. PICK phase \in {"mitigate", "answered"} : Goto(c, phase)
    BY <1>8 DEF RereadIncident, Check
  <2>2. /\ UNCHANGED <<incidents, rollbacks, request>>
        /\ IsOpen(request[c].incident) /\ RollbacksOf(request[c].execution) = {}
    BY <1>1, <1>8 DEF RereadIncident, Check, rows, FreshRequest
  <2>3. pc'[c] = phase => FreshRequest(c)'
    BY <2>1, <2>2 DEF FreshRequest, IsOpen, RollbacksOf
  <2>4. QED
    BY <1>1, <1>4, <2>1, <2>2, <2>3, SameLifecycle, PhasesApart DEF Serial
<1>9. CASE Mitigate(c)
  <2> DEFINE i == request[c].incident
  <2>1. /\ Goto(c, "create") /\ UNCHANGED <<rollbacks, request>>
        /\ incidents' = [incidents EXCEPT ![i].status = "MITIGATED"]
        /\ IsOpen(i) /\ RollbacksOf(request[c].execution) = {}
    BY <1>1, <1>9 DEF Mitigate, SetIncident, FreshRequest
  <2>2. /\ incidents'[i].status = "MITIGATED"
        /\ \A j \in Incidents : j # i => incidents'[j] = incidents[j]
    BY <1>1, <1>3, <2>1 DEF TypeOK, Incident
  <2>3. RollbacksFor(i) = {}
    BY <1>3, <2>1, OpenHasNone
  <2>4. pc'[c] = "create" => FreshRequest(c)'
    BY <2>1, <2>2, <2>3 DEF FreshRequest, RollbacksFor, RollbacksOf
  <2>5. OneEach' /\ ResolvedByRollback'
    BY <1>1, <2>1, <2>2 DEF OneEach, Created, ResolvedByRollback, RollbacksFor
  <2>6. QED
    BY <1>4, <2>1, <2>4, <2>5, PhasesApart DEF Serial
<1>10. CASE CreateRollbackExecution(c)
  <2>1. /\ Goto(c, "answered") /\ UNCHANGED <<incidents, request>>
        /\ RollbacksOf(request[c].execution) = {} /\ RollbacksFor(request[c].incident) = {}
    BY <1>1, <1>10 DEF CreateRollbackExecution, FreshRequest
  <2>2. /\ rollbacks[c] = NoRollback
        /\ rollbacks'[c].execution = request[c].execution
        /\ rollbacks'[c].incident = request[c].incident
        /\ \A d \in Requesters : d # c => rollbacks'[d] = rollbacks[d]
    BY <1>10, CreatorIsNew
  <2>3. pc'[c] = "answered" => FreshRequest(c)'
    BY DEF FreshRequest
  <2>4. OneEach'
    BY <1>1, <2>1, <2>2 DEF OneEach, Created, RollbacksOf, RollbacksFor
  <2>5. ResolvedByRollback'
    BY <1>1, <2>1, <2>2 DEF ResolvedByRollback, RollbacksFor, NoRollback
  <2>6. QED
    BY <1>4, <2>1, <2>3, <2>4, <2>5, PhasesApart DEF Serial
<1>11. QED
  BY <1>5, <1>6, <1>7, <1>8, <1>9, <1>10 DEF RequestStep

\* Alone, finalizeRollback does too.
LEMMA SerialFinalize ==
    ASSUME RollbackInv, Serial, NEW c \in Finalizers, FinalizeStep(c), c \in InProgress
    PROVE  Serial'
<1>1. /\ TypeOK /\ c \in Calls /\ FreshVerdict(c) /\ InProgress \subseteq {c} /\ Types
      /\ OneEach /\ ResolvedByRollback
  BY CallsApart DEF RollbackInv, Types, Serial, Fresh, Alone
<1>2. c \notin Requesters /\ verdict[c].rollback \in Requesters
  BY <1>1, CallsApart DEF Types, CallsHaveBodies, InProgress, Verdict
<1>3. ASSUME NEW phase \in Phases, Goto(c, phase),
             pc'[c] = phase => FreshVerdict(c)'
      PROVE  Alone' /\ Fresh'
  <2>1. pc'[c] = phase /\ \A d \in Calls : d # c => pc'[d] = pc[d]
    BY <1>1, <1>3, GotoType
  <2>2. QED
    BY <1>1, <1>2, <1>3, <2>1, LoneMover
<1>4. CASE GetRollbackById(c) \/ ReadIncident(c)
  <2>1. PICK phase \in {"update", "resolve", "answered"} :
           /\ Goto(c, phase)
           /\ phase = "update" => rollbacks[verdict[c].rollback].status = "PENDING"
           /\ phase = "resolve" => rollbacks[verdict[c].rollback].status = "EXECUTED"
    BY <1>1, <1>4 DEF GetRollbackById, ReadIncident, Check, FreshVerdict
  <2>2. UNCHANGED <<incidents, rollbacks, verdict>>
    BY <1>4 DEF GetRollbackById, ReadIncident, Check, rows
  <2>3. pc'[c] = phase => FreshVerdict(c)'
    BY <2>1, <2>2 DEF FreshVerdict
  <2>4. QED
    BY <1>1, <1>3, <2>1, <2>2, <2>3, SameLifecycle, PhasesApart DEF Serial
<1>5. CASE UpdateRollbackExecution(c)
  <2> DEFINE b == verdict[c].rollback
  <2>1. PICK phase \in {"readIncident", "answered"} :
           Goto(c, phase) /\ (phase = "readIncident" => verdict[c].status = "EXECUTED")
    BY <1>5 DEF UpdateRollbackExecution
  <2>2. /\ rollbacks' = [rollbacks EXCEPT ![b].status = verdict[c].status]
        /\ UNCHANGED <<incidents, verdict>> /\ rollbacks[b].status = "PENDING"
    BY <1>1, <1>5 DEF UpdateRollbackExecution, FreshVerdict
  <2>3. /\ rollbacks'[b].status = verdict[c].status
        /\ \A d \in Requesters : /\ d # b => rollbacks'[d] = rollbacks[d]
                                 /\ rollbacks'[d].execution = rollbacks[d].execution
                                 /\ rollbacks'[d].incident = rollbacks[d].incident
    BY <1>1, <1>2, <2>2 DEF TypeOK, Rollback
  <2>4. pc'[c] = phase => FreshVerdict(c)'
    BY <2>1, <2>2, <2>3 DEF FreshVerdict
  <2>5. OneEach'
    <3>1. Created' \subseteq Created
      BY <2>2, <2>3 DEF Created
    <3>2. QED
      BY <1>1, <2>3, <3>1 DEF OneEach, Created
  <2>6. ResolvedByRollback'
    BY <1>1, <2>2, <2>3 DEF ResolvedByRollback, RollbacksFor
  <2>7. QED
    BY <1>3, <2>1, <2>4, <2>5, <2>6, PhasesApart DEF Serial
<1>6. CASE Resolve(c)
  <2> DEFINE b == verdict[c].rollback
  <2>1. /\ Goto(c, "answered") /\ UNCHANGED rollbacks
        /\ incidents' = [incidents EXCEPT ![rollbacks[b].incident].status = "RESOLVED"]
        /\ rollbacks[b].status = "EXECUTED"
    BY <1>1, <1>6 DEF Resolve, SetIncident, IncidentOf, FreshVerdict
  <2>2. \A i \in Incidents : i # rollbacks[b].incident => incidents'[i] = incidents[i]
    BY <1>1, <2>1 DEF TypeOK
  <2>3. ResolvedByRollback'
    BY <1>1, <1>2, <2>1, <2>2 DEF ResolvedByRollback, RollbacksFor
  <2>4. OneEach'
    BY <1>1, <2>1 DEF OneEach, Created
  <2>5. pc'[c] = "answered" => FreshVerdict(c)'
    BY DEF FreshVerdict
  <2>6. QED
    BY <1>3, <2>1, <2>3, <2>4, <2>5, PhasesApart DEF Serial
<1>7. QED
  BY <1>4, <1>5, <1>6 DEF FinalizeStep

\* The rest of the world writes nothing that a lone call relies on.
LEMMA SerialWorld ==
    ASSUME RollbackInv, Serial, World
    PROVE  Serial'
<1>1. TypeOK /\ Types /\ Alone /\ Fresh /\ OneEach /\ ResolvedByRollback
  BY DEF RollbackInv, Types, Serial
<1>2. ASSUME NEW c \in Calls, Abort(c) PROVE Serial'
  <2>1. /\ Goto(c, "aborted") /\ UNCHANGED <<incidents, rollbacks>> /\ c \in InProgress
    BY <1>2 DEF Abort, rows
  <2>2. pc'[c] = "aborted" /\ \A d \in Calls : d # c => pc'[d] = pc[d]
    BY <1>1, <2>1, GotoType, PhasesApart
  <2>3. FreshRequest(c)' /\ FreshVerdict(c)'
    BY <2>2 DEF FreshRequest, FreshVerdict
  <2>4. Alone' /\ Fresh'
    BY <1>1, <2>1, <2>2, <2>3, LoneMover DEF Alone
  <2>5. QED
    BY <1>1, <2>1, <2>4, SameLifecycle DEF Serial
<1>3. ASSUME NEW i \in Incidents, CreateIncident(i) PROVE Serial'
  <2>1. /\ UNCHANGED <<rollbacks, pc, request, verdict>>
        /\ incidents[i].status = "none" /\ incidents'[i].status = "OPEN"
        /\ \A j \in Incidents : j # i => incidents'[j] = incidents[j]
    BY <1>1, <1>3 DEF CreateIncident, TypeOK
  <2>2. Alone' /\ \A c \in Finalizers : FreshVerdict(c)'
    BY <1>1, <2>1 DEF Alone, InProgress, Fresh, FreshVerdict
  <2>3. ASSUME NEW c \in Requesters PROVE FreshRequest(c)'
    <3>1. FreshRequest(c)
      BY <1>1 DEF Fresh
    <3>2. pc[c] \in Requesting => request[c].incident \in Incidents
      BY <1>1 DEF Types, CallsHaveBodies, Request
    <3>3. QED
      BY <2>1, <3>1, <3>2, PhasesApart DEF FreshRequest, IsOpen, RollbacksOf, RollbacksFor
  <2>4. OneEach' /\ ResolvedByRollback'
    BY <1>1, <2>1 DEF OneEach, Created, ResolvedByRollback, RollbacksFor
  <2>5. QED
    BY <2>2, <2>3, <2>4 DEF Serial, Fresh
<1>4. CASE Tick
  BY <1>1, <1>4 DEF Tick, rows, Serial, Alone, InProgress, Fresh, FreshRequest, FreshVerdict,
        IsOpen, RollbacksOf, RollbacksFor, OneEach, Created, ResolvedByRollback
<1>5. QED
  BY <1>2, <1>3, <1>4 DEF World

\* Every step keeps the lifecycle while calls do not overlap.
LEMMA NextSerial == SerialInv /\ [Next]_vars => SerialInv'
<1> SUFFICES ASSUME SerialInv, [Next]_vars, ~overlapped' PROVE Serial'
  BY NextRollbackInv DEF SerialInv
<1>1. RollbackInv /\ (~overlapped => Serial)
  BY DEF SerialInv
<1>2. CASE UNCHANGED vars
  BY <1>1, <1>2 DEF vars, Serial, Alone, InProgress, Fresh, FreshRequest, FreshVerdict,
        IsOpen, RollbacksOf, RollbacksFor, OneEach, Created, ResolvedByRollback
<1>3. ASSUME NEW c \in Requesters, CallRequest(c) PROVE Serial'
  BY <1>1, <1>3, SerialCall, CallsApart DEF CallRequest, Call
<1>4. ASSUME NEW c \in Finalizers, CallFinalize(c) PROVE Serial'
  BY <1>1, <1>4, SerialCall, CallsApart DEF CallFinalize, Call
<1>5. ASSUME NEW c \in Requesters, RequestStep(c) PROVE Serial'
  <2>1. overlapped' = overlapped /\ pc[c] \in Requesting
    BY <1>5, PhasesApart DEF RequestStep, GetExecution, GetIncident, GetRollbackByExecution,
          RereadIncident, Check, Mitigate, SetIncident, CreateRollbackExecution
  <2>2. QED
    BY <1>1, <1>5, <2>1, SerialRequest, CallsApart DEF InProgress
<1>6. ASSUME NEW c \in Finalizers, FinalizeStep(c) PROVE Serial'
  <2>1. overlapped' = overlapped /\ pc[c] \in Finalizing
    BY <1>6, PhasesApart DEF FinalizeStep, GetRollbackById, ReadIncident, Check,
          UpdateRollbackExecution, Resolve, SetIncident
  <2>2. QED
    BY <1>1, <1>6, <2>1, SerialFinalize, CallsApart DEF InProgress
<1>7. CASE World
  <2>1. overlapped' = overlapped
    BY <1>7 DEF World, Abort, CreateIncident, Tick
  <2>2. QED
    BY <1>1, <1>7, <2>1, SerialWorld
<1>8. QED
  BY <1>2, <1>3, <1>4, <1>5, <1>6, <1>7 DEF Next

\* As long as no two calls have been in progress at once there is one rollback
\* of an execution and one for an incident, and a resolved incident has an
\* executed rollback: the lifecycle fails only by overlap.
THEOREM SerialLifecycle == Spec => []SerialCallsKeepLifecycle
BY InitSerial, NextSerial, SerialMeans, PTL DEF Spec
================================================================================
