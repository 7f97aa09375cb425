--------------------------- MODULE RollbackGovernance ---------------------------
(***************************************************************************)
(* Incidents and rollbacks: AutomationRollbackService and the part of      *)
(* AutomationIncidentService and AutomationGovernanceRepository it awaits. *)
(*                                                                         *)
(* A call runs from one await to the next; the calls of several operators  *)
(* interleave there, on tables that hold no lock and no unique key but the *)
(* primary one.  A call may also end at any await, because the database    *)
(* refused, the reply was lost or the process died (Abort).                *)
(***************************************************************************)
EXTENDS Integers

CONSTANTS
    Executions,     \* ids of AutomationExecutionLedger rows
    ExecutedAt,     \* when each is written, for good
    Incidents,      \* ids of AutomationIncident rows
    Requesters,     \* calls of requestRollback; each stands for its rollback id
    Finalizers,     \* calls of finalizeRollback
    None,           \* null, or no such row
    Window,         \* AUTOMATION_ROLLBACK_WINDOW_MINUTES
    MaxTime         \* bound: the clock stops here

Times == 0 .. MaxTime
Calls == Requesters \cup Finalizers

ASSUME NoneAssumption  == None \notin Executions \cup Incidents \cup Requesters \cup Times
ASSUME CallsAssumption == Requesters \cap Finalizers = {}
ASSUME TimeAssumption  == /\ Window \in Nat /\ MaxTime \in Nat
                          /\ ExecutedAt \in [Executions -> Nat]

VARIABLES
    now,
    incidents,      \* status and relatedExecutionId
    rollbacks,      \* the row each requester created
    pc,
    request,        \* executionId and incidentId a requester was called with
    verdict,        \* rollbackId and status a finalizer was called with
    began,          \* history: when a requester was called
    overlapped      \* history: two calls have been in progress at once

rows == <<incidents, rollbacks>>
vars == <<now, incidents, rollbacks, pc, request, verdict, began, overlapped>>

IncidentStatuses == {"none", "OPEN", "MITIGATED", "RESOLVED"}
RollbackStatuses == {"PENDING", "EXECUTED", "FAILED"}

Incident == [status : IncidentStatuses, execution : Executions \cup {None}]
Rollback == [status : RollbackStatuses \cup {"none"},
             execution : Executions \cup {None}, incident : Incidents \cup {None}]
Request  == [execution : Executions, incident : Incidents]
Verdict  == [rollback : Requesters, status : RollbackStatuses]

\* Phases are named after the call to the database that comes next.
Requesting == {"getExecution", "getIncident", "getRollbackByExecution",
               "rereadIncident", "mitigate", "create"}
Finalizing == {"getRollback", "update", "readIncident", "resolve"}
Ended      == {"answered", "aborted"}
Phases     == {"idle"} \cup Requesting \cup Finalizing \cup Ended

InProgress == {c \in Calls : pc[c] \in Requesting \cup Finalizing}

Logged(e) == ExecutedAt[e] <= now

NoRollback == [status |-> "none", execution |-> None, incident |-> None]

RollbacksOf(e) == {c \in Requesters : rollbacks[c].execution = e}
RollbacksFor(i) == {c \in Requesters : rollbacks[c].incident = i}

--------------------------------------------------------------------------------
Init ==
    /\ now = 0
    /\ incidents = [i \in Incidents |-> [status |-> "none", execution |-> None]]
    /\ rollbacks = [c \in Requesters |-> NoRollback]
    /\ pc = [c \in Calls |-> "idle"]
    /\ request = [c \in Requesters |-> None]
    /\ verdict = [c \in Finalizers |-> None]
    /\ began = [c \in Requesters |-> 0]
    /\ overlapped = FALSE

Goto(c, phase) == pc' = [pc EXCEPT ![c] = phase]

\* A call is answered by its result or by the error a failed check throws.
Check(c, from, passes, next) ==
    /\ pc[c] = from
    /\ Goto(c, IF passes THEN next ELSE "answered")
    /\ UNCHANGED <<now, rows, request, verdict, began, overlapped>>

Call(c, phase) ==
    /\ pc[c] = "idle"
    /\ Goto(c, phase)
    /\ overlapped' = (overlapped \/ InProgress # {})
    /\ UNCHANGED <<now, rows>>

(***************************************************************************)
(* requestRollback                                                         *)
(***************************************************************************)
CallRequest(c) ==
    /\ Call(c, "getExecution")
    /\ \E body \in Request : request' = [request EXCEPT ![c] = body]
    /\ began' = [began EXCEPT ![c] = now]
    /\ UNCHANGED verdict

\* Every logged result, SUCCESS or FAILED, may be rolled back.
InWindow(e, length) == Logged(e) /\ now - ExecutedAt[e] <= length

\* Mutant: one unit late.
GetExecutionLate(c) ==
    Check(c, "getExecution", InWindow(request[c].execution, Window + 1), "getIncident")

GetExecution(c) ==
    Check(c, "getExecution", InWindow(request[c].execution, Window), "getIncident")

\* Mutant: any open incident will do.
GetIncidentOfAny(c) ==
    Check(c, "getIncident", incidents[request[c].incident].status = "OPEN",
          "getRollbackByExecution")

GetIncident(c) ==
    LET incident == incidents[request[c].incident]
    IN  Check(c, "getIncident",
              /\ incident.status = "OPEN"
              /\ incident.execution \in {None, request[c].execution},
              "getRollbackByExecution")

\* Mutant: it looks for a rollback of the incident.
GetRollbackByIncident(c) ==
    Check(c, "getRollbackByExecution", RollbacksFor(request[c].incident) = {},
          "rereadIncident")

GetRollbackByExecution(c) ==
    Check(c, "getRollbackByExecution", RollbacksOf(request[c].execution) = {},
          "rereadIncident")

IsOpen(i) == incidents[i].status = "OPEN"

\* markMitigated reads the incident again, ...
RereadIncident(c) == Check(c, "rereadIncident", IsOpen(request[c].incident), "mitigate")

\* ... and then writes whatever it has become.
SetIncident(c, from, i, status, next) ==
    /\ pc[c] = from
    /\ incidents' = [incidents EXCEPT ![i].status = status]
    /\ Goto(c, next)
    /\ UNCHANGED <<now, rollbacks, request, verdict, began, overlapped>>

\* Mutant: the call is answered once the incident is mitigated.
MitigateAndReturn(c) ==
    SetIncident(c, "mitigate", request[c].incident, "MITIGATED", "answered")

Mitigate(c) == SetIncident(c, "mitigate", request[c].incident, "MITIGATED", "create")

\* Mutant: the row gets a status that AutomationRollbackStatus lacks.
CreateAsCreated(c) ==
    /\ pc[c] = "create"
    /\ rollbacks' = [rollbacks EXCEPT ![c] =
                        [status |-> "CREATED", execution |-> request[c].execution,
                         incident |-> request[c].incident]]
    /\ Goto(c, "answered")
    /\ UNCHANGED <<now, incidents, request, verdict, began, overlapped>>

CreateRollbackExecution(c) ==
    /\ pc[c] = "create"
    /\ rollbacks' = [rollbacks EXCEPT ![c] =
                        [status |-> "PENDING", execution |-> request[c].execution,
                         incident |-> request[c].incident]]
    /\ Goto(c, "answered")
    /\ UNCHANGED <<now, incidents, request, verdict, began, overlapped>>

(***************************************************************************)
(* finalizeRollback                                                        *)
(***************************************************************************)
CallFinalize(c) ==
    /\ Call(c, "getRollback")
    /\ \E body \in Verdict : verdict' = [verdict EXCEPT ![c] = body]
    /\ UNCHANGED <<request, began>>

GetRollbackById(c) ==
    Check(c, "getRollback", rollbacks[verdict[c].rollback].status = "PENDING", "update")

UpdateRollbackExecution(c) ==
    /\ pc[c] = "update"
    /\ rollbacks' = [rollbacks EXCEPT ![verdict[c].rollback].status = verdict[c].status]
    /\ Goto(c, IF verdict[c].status = "EXECUTED" THEN "readIncident" ELSE "answered")
    /\ UNCHANGED <<now, incidents, request, verdict, began, overlapped>>

IncidentOf(c) == rollbacks[verdict[c].rollback].incident

\* markResolved: the same read, then the same blind write.
ReadIncident(c) ==
    Check(c, "readIncident", incidents[IncidentOf(c)].status = "MITIGATED", "resolve")

Resolve(c) == SetIncident(c, "resolve", IncidentOf(c), "RESOLVED", "answered")

--------------------------------------------------------------------------------
(***************************************************************************)
(* The rest of the world.                                                  *)
(***************************************************************************)
Abort(c) ==
    /\ c \in InProgress
    /\ Goto(c, "aborted")
    /\ UNCHANGED <<now, rows, request, verdict, began, overlapped>>

\* createIncident: an incident may concern no execution, or one that is logged.
CreateIncident(i) ==
    /\ incidents[i].status = "none"
    /\ \E e \in {x \in Executions : Logged(x)} \cup {None} :
          incidents' = [incidents EXCEPT ![i] = [status |-> "OPEN", execution |-> e]]
    /\ UNCHANGED <<now, rollbacks, pc, request, verdict, began, overlapped>>

Tick ==
    /\ now < MaxTime
    /\ now' = now + 1
    /\ UNCHANGED <<rows, pc, request, verdict, began, overlapped>>

--------------------------------------------------------------------------------
RequestStep(c) ==
    \/ GetExecution(c)
    \/ GetIncident(c)
    \/ GetRollbackByExecution(c)
    \/ RereadIncident(c)
    \/ Mitigate(c)
    \/ CreateRollbackExecution(c)

FinalizeStep(c) ==
    \/ GetRollbackById(c)
    \/ UpdateRollbackExecution(c)
    \/ ReadIncident(c)
    \/ Resolve(c)

World ==
    \/ \E c \in Calls : Abort(c)
    \/ \E i \in Incidents : CreateIncident(i)
    \/ Tick

Next ==
    \/ \E c \in Requesters : CallRequest(c) \/ RequestStep(c)
    \/ \E c \in Finalizers : CallFinalize(c) \/ FinalizeStep(c)
    \/ World

Spec == Init /\ [][Next]_vars

--------------------------------------------------------------------------------
TypeOK ==
    /\ now \in Times
    /\ incidents \in [Incidents -> Incident]
    /\ rollbacks \in [Requesters -> Rollback]
    /\ pc \in [Calls -> Phases]
    /\ request \in [Requesters -> Request \cup {None}]
    /\ verdict \in [Finalizers -> Verdict \cup {None}]
    /\ began \in [Requesters -> Times]
    /\ overlapped \in BOOLEAN

Created == {c \in Requesters : rollbacks[c].status # "none"}

\* Whatever interleaves, a rollback is tied to a logged execution and to an
\* incident about that execution or about none, which is no longer open.
RollbacksAreTied ==
    \A c \in Created :
        LET incident == incidents[rollbacks[c].incident]
        IN  /\ Logged(rollbacks[c].execution)
            /\ incident.status \in {"MITIGATED", "RESOLVED"}
            /\ incident.execution \in {None, rollbacks[c].execution}

\* A rollback is created only by a call that began inside the window, even
\* when its row is written after the window has closed.
WindowIsHonoured ==
    \A c \in Created : began[c] <= ExecutedAt[rollbacks[c].execution] + Window

\* Calls that do not overlap keep what the service promises: one rollback of
\* an execution and one for an incident, and a resolved incident has a rollback
\* that was executed.
SerialCallsKeepLifecycle ==
    ~overlapped =>
        /\ \A c, d \in Created :
              \/ rollbacks[c].execution = rollbacks[d].execution
              \/ rollbacks[c].incident = rollbacks[d].incident
              => c = d
        /\ \A i \in Incidents : incidents[i].status = "RESOLVED" =>
              \E c \in RollbacksFor(i) : rollbacks[c].status = "EXECUTED"

\* An incident is mitigated without a rollback only for as long as the call
\* is about to create it, or for good when that call was cut short.
OrphansComeFromAborts ==
    \A i \in Incidents : incidents[i].status = "MITIGATED" =>
        \/ RollbacksFor(i) # {}
        \/ \E c \in Requesters : pc[c] \in {"create", "aborted"} /\ request[c].incident = i

\* docs/incidents-and-rollbacks.md: a rollback is permitted only when no prior
\* rollback is recorded for that execution.
OneRollbackPerExecution ==
    \A c, d \in Created : rollbacks[c].execution = rollbacks[d].execution => c = d
================================================================================
