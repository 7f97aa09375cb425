---------------------------- MODULE GuardedExecution ----------------------------
(***************************************************************************)
(* The guarded execution of an approved automation action:                 *)
(* AutomationExecutionService.execute, AutomationExecutionGuard,           *)
(* AutomationKillSwitchService and the two repositories they await.        *)
(*                                                                         *)
(* A request is one call of execute.  The server is single-threaded, so a  *)
(* step is what runs between two awaits: one database call and the code    *)
(* that follows it, cut once more where that code uses a value it read     *)
(* earlier.  Between two steps the approval workflow and the operators,    *)
(* which write the same tables and live outside this code, may do          *)
(* anything, a database call may fail, and the process may restart.        *)
(***************************************************************************)
EXTENDS Naturals

CONSTANTS
    Requests,       \* calls of execute; each stands for its own executionId
    Approvals,      \* rows of AutomationApprovalDecision
    Suggestions,
    Snapshots,
    Brands,
    None,           \* null, and the id of a row that does not exist
    Decisions,      \* what the approval workflow may write into a row for good
    BrandOf,        \* the brandId of a suggestion, or None
    MaxTime,        \* bound: the clock stops here
    MaxFaults       \* bound: failed database calls per request

Times == 0 .. MaxTime

ApprovalTerms ==
    [suggestion  : Suggestions \cup {None},
     snapshot    : Snapshots,
     environment : {"this", "another"},     \* approval.environment vs NODE_ENV
     expiresAt   : Times \cup {None}]

ASSUME DecisionsAssumption == Decisions \subseteq ApprovalTerms
ASSUME BrandAssumption == BrandOf \in [Suggestions -> Brands \cup {None}]
ASSUME NoneAssumption  == /\ None \notin Approvals /\ None \notin Suggestions
                          /\ None \notin Brands /\ None \notin Times
ASSUME BoundAssumption == MaxTime \in Nat /\ MaxFaults \in Nat

VARIABLES
    now,            \* the clock the expiry is compared with
    env,            \* the settings the running process was started with
    terms,          \* the lasting columns of each approval row
    approvals,      \* its status and revokedAt
    brandSwitch,    \* AutomationBrandKillSwitch.enabled
    switches,       \* targets of active AutomationExecutionKillSwitch rows
    pc,             \* where each request stands
    input,          \* its body
    loaded,         \* the approval row it read
    effects,        \* the requests whose action has run
    ledger,         \* AutomationExecutionLedger
    incidents,      \* the requests an AutomationIncident row points to
    faults,         \* failed database calls of each request
    standing        \* history: the stops in force ever since a request arrived

world == <<now, env, terms, approvals, brandSwitch, switches>>
vars  == <<now, env, terms, approvals, brandSwitch, switches, pc, input, loaded,
           effects, ledger, incidents, faults, standing>>

\* "CLOSED" stands for REJECTED, REVOKED and EXPIRED: the guard asks for APPROVED.
Statuses == {"PENDING", "APPROVED", "CLOSED"}
Row      == [status : Statuses, revoked : BOOLEAN]
Inputs   == [approval   : Approvals \cup {None},
             suggestion : Suggestions,
             snapshot   : Snapshots]

\* Phases are named after the call the request waits for.
Guarding == {"getApprovalDecision", "getBrandKillSwitch",
             "findApprovalSwitch", "enforce"}
Running  == {"findExecutionSwitch", "act", "logSuccess",
             "createIncident", "logFailed"}
Over     == {"refused", "succeeded", "failed", "lost"}
Phases   == {"idle"} \cup Guarding \cup Running \cup Over

\* A variable of the environment is absent, or some text (the empty text is
\* like an absent one).  z.coerce.boolean() is Boolean(text): only absence is
\* false, and the text "false" is true.
Settings == {"unset", "false", "true"}
Env      == [AUTOMATION_EXECUTION_ENABLED : Settings,
             AUTOMATION_GLOBAL_DISABLED   : Settings]

Coerce(setting) == setting # "unset"

ExecutionEnabled == Coerce(env.AUTOMATION_EXECUTION_ENABLED)
GlobalDisabled   == Coerce(env.AUTOMATION_GLOBAL_DISABLED)

InFlight == {r \in Requests : pc[r] \in Guarding \cup Running}

--------------------------------------------------------------------------------
(***************************************************************************)
(* What forbids a request with body in, right now.                         *)
(***************************************************************************)
Brand(a) == IF terms[a].suggestion = None THEN None
            ELSE BrandOf[terms[a].suggestion]

Expired(a) == terms[a].expiresAt # None /\ terms[a].expiresAt <= now

Matches(in) ==
    LET t == terms[in.approval]
    IN  /\ t.suggestion \in {None, in.suggestion}
        /\ t.snapshot = in.snapshot
        /\ t.environment = "this"

BrandStopped(a) == Brand(a) # None /\ brandSwitch[Brand(a)]

Stops == {"missing", "mismatch", "unapproved", "revoked", "expired",
          "brand", "approval"}

InForce(in) ==
    {s \in Stops :
        LET a == in.approval
        IN  IF s = "missing" THEN a = None
            ELSE /\ a # None
                 /\ CASE s = "mismatch"   -> ~Matches(in)
                      [] s = "unapproved" -> approvals[a].status # "APPROVED"
                      [] s = "revoked"    -> approvals[a].revoked
                      [] s = "expired"    -> Expired(a)
                      [] s = "brand"      -> BrandStopped(a)
                      [] s = "approval"   -> a \in switches}

--------------------------------------------------------------------------------
Init ==
    /\ now = 0
    /\ env \in Env
    /\ terms \in [Approvals -> Decisions]
    /\ approvals = [a \in Approvals |-> [status |-> "PENDING", revoked |-> FALSE]]
    /\ brandSwitch = [b \in Brands |-> FALSE]
    /\ switches = {}
    /\ pc = [r \in Requests |-> "idle"]
    /\ input \in [Requests -> Inputs]
    /\ loaded = [r \in Requests |-> [status |-> "PENDING", revoked |-> FALSE]]
    /\ effects = {}
    /\ ledger = [r \in Requests |-> "none"]
    /\ incidents = {}
    /\ faults = [r \in Requests |-> 0]
    /\ standing = [r \in Requests |-> {}]

Goto(r, phase) == pc' = [pc EXCEPT ![r] = phase]

CanFault(r) == faults[r] < MaxFaults
Fault(r)    == CanFault(r) /\ faults' = [faults EXCEPT ![r] = @ + 1]
NoFault     == UNCHANGED faults

(***************************************************************************)
(* The guard.                                                              *)
(***************************************************************************)
Arrive(r, accepted) ==
    /\ pc[r] = "idle"
    /\ Goto(r, IF accepted THEN "getApprovalDecision" ELSE "refused")
    /\ standing' = [standing EXCEPT ![r] = InForce(input[r])]
    /\ UNCHANGED <<world, input, loaded, effects, ledger, incidents, faults>>

\* Mutant: the call of assertGlobalEnabled is dropped.
ReceiveDespiteGlobalStop(r) == Arrive(r, ExecutionEnabled)

\* assertGlobalEnabled and the feature flag: both before the first await.
Receive(r) == Arrive(r, ExecutionEnabled /\ ~GlobalDisabled)

GetApprovalDecision(r) ==
    LET a == input[r].approval
    IN  /\ pc[r] = "getApprovalDecision"
        /\ \/ /\ a # None
              /\ loaded' = [loaded EXCEPT ![r] = approvals[a]]
              /\ Goto(r, "getBrandKillSwitch")
              /\ NoFault
           \/ a = None /\ Goto(r, "refused") /\ NoFault /\ UNCHANGED loaded
           \/ Fault(r) /\ Goto(r, "refused") /\ UNCHANGED loaded
        /\ UNCHANGED <<world, input, effects, ledger, incidents, standing>>

\* A failed read of a switch refuses the request: the error is not caught.
CheckSwitch(r, from, stopped, next) ==
    /\ pc[r] = from
    /\ \/ Goto(r, IF stopped THEN "refused" ELSE next) /\ NoFault
       \/ Fault(r) /\ Goto(r, "refused")
    /\ UNCHANGED <<world, input, loaded, effects, ledger, incidents, standing>>

\* Without a brand there is nothing to read.
AssertBrandAllowed(r) ==
    /\ CheckSwitch(r, "getBrandKillSwitch", BrandStopped(input[r].approval),
                   "findApprovalSwitch")
    /\ Brand(input[r].approval) = None => NoFault

AssertTargetAllowed(r) ==
    CheckSwitch(r, "findApprovalSwitch", input[r].approval \in switches, "enforce")

Conclude(r, executable) ==
    /\ pc[r] = "enforce"
    /\ Goto(r, IF executable THEN "findExecutionSwitch" ELSE "refused")
    /\ UNCHANGED <<world, input, loaded, effects, ledger, incidents, faults,
                   standing>>

\* Mutant: revokedAt is not looked at.
EnforceWithoutRevocation(r) ==
    Conclude(r, /\ loaded[r].status = "APPROVED"
                /\ Matches(input[r])
                /\ ~Expired(input[r].approval))

\* Status and revocation are those of the row read three awaits ago; the
\* expiry is compared with the present.
Enforce(r) ==
    Conclude(r, /\ loaded[r].status = "APPROVED"
                /\ ~loaded[r].revoked
                /\ Matches(input[r])
                /\ ~Expired(input[r].approval))

(***************************************************************************)
(* The try block: from here on an error is a failed execution.  The two    *)
(* rows of a request would have the same id, so the second INSERT fails.   *)
(***************************************************************************)
EnsureExecutionAllowed(r) ==
    /\ pc[r] = "findExecutionSwitch"
    /\ \/ Goto(r, IF r \in switches THEN "createIncident" ELSE "act") /\ NoFault
       \/ Fault(r) /\ Goto(r, "createIncident")
    /\ UNCHANGED <<world, input, loaded, effects, ledger, incidents, standing>>

Act(r) ==
    /\ pc[r] = "act"
    /\ effects' = effects \cup {r}
    /\ Goto(r, "logSuccess")
    /\ UNCHANGED <<world, input, loaded, ledger, incidents, faults, standing>>

\* Mutants: the row is overwritten; the duplicate is recorded as a result.
Upsert(r, result) == [ledger EXCEPT ![r] = result]
InsertOrMark(r, result) ==
    [ledger EXCEPT ![r] = IF @ = "none" THEN result ELSE "CONFLICT"]

Insert(r, result) ==
    IF ledger[r] = "none" THEN [ledger EXCEPT ![r] = result] ELSE ledger

\* A failing INSERT is either not applied or applied with its reply lost.
LogSuccess(r) ==
    /\ pc[r] = "logSuccess"
    /\ \/ /\ ledger' = Insert(r, "SUCCESS")
          /\ Goto(r, "succeeded") /\ NoFault
       \/ /\ ledger' \in {ledger, Insert(r, "SUCCESS")}
          /\ Goto(r, "createIncident") /\ Fault(r)
    /\ UNCHANGED <<world, input, loaded, effects, incidents, standing>>

\* Mutant: relatedExecutionId is a plain column.
ConnectsAnything(r) == TRUE

\* relatedExecution: { connect } needs the ledger row to exist.
Connects(r) == ledger[r] # "none"

TryIncident(r, onError) ==
    /\ pc[r] = "createIncident"
    /\ LET created == IF Connects(r) THEN incidents \cup {r} ELSE incidents
       IN  \/ /\ incidents' = created /\ NoFault
              /\ Goto(r, IF Connects(r) THEN "logFailed" ELSE onError)
           \/ /\ incidents' \in {incidents, created} /\ Fault(r)
              /\ Goto(r, onError)
    /\ UNCHANGED <<world, input, loaded, effects, ledger, standing>>

\* Mutants: the error of createIncident is not swallowed; it is retried.
RecordIncidentOrThrow(r) == TryIncident(r, "failed")
RecordIncidentRetrying(r) == TryIncident(r, "createIncident")

RecordExecutionIncident(r) == TryIncident(r, "logFailed")

LogFailed(r) ==
    /\ pc[r] = "logFailed"
    /\ Goto(r, "failed")
    /\ \/ ledger' = Insert(r, "FAILED") /\ NoFault
       \/ ledger' \in {ledger, Insert(r, "FAILED")} /\ Fault(r)
    /\ UNCHANGED <<world, input, loaded, effects, incidents, standing>>

--------------------------------------------------------------------------------
(***************************************************************************)
(* The rest of the world.  A stop counts as standing for a request while   *)
(* no step lifts it.                                                       *)
(***************************************************************************)
Elsewhere ==
    /\ UNCHANGED <<terms, input, loaded, effects, ledger, incidents, faults>>
    /\ standing' = [r \in Requests |-> standing[r] \cap InForce(input[r])']

Decide(a) ==
    /\ \E status \in Statuses \ {"PENDING"} :
          /\ approvals[a].status \notin {status, "CLOSED"}
          /\ approvals' = [approvals EXCEPT ![a].status = status]
    /\ UNCHANGED <<now, env, brandSwitch, switches, pc>>
    /\ Elsewhere

Revoke(a) ==
    /\ ~approvals[a].revoked
    /\ approvals' = [approvals EXCEPT ![a].revoked = TRUE]
    /\ UNCHANGED <<now, env, brandSwitch, switches, pc>>
    /\ Elsewhere

ToggleBrandSwitch(b) ==
    /\ brandSwitch' = [brandSwitch EXCEPT ![b] = ~@]
    /\ UNCHANGED <<now, env, approvals, switches, pc>>
    /\ Elsewhere

\* A target is an approval, or an execution whose id is known: it is made
\* up when the guard has passed.
SwitchTargets == Approvals \cup {r \in Requests : pc[r] \in Running}

ToggleExecutionSwitch(t) ==
    /\ switches' = IF t \in switches THEN switches \ {t} ELSE switches \cup {t}
    /\ UNCHANGED <<now, env, approvals, brandSwitch, pc>>
    /\ Elsewhere

Tick ==
    /\ now < MaxTime
    /\ now' = now + 1
    /\ UNCHANGED <<env, approvals, brandSwitch, switches, pc>>
    /\ Elsewhere

\* The flags are read once per process; what was in flight is gone.
Restart ==
    /\ env' \in Env
    /\ pc' = [r \in Requests |-> IF r \in InFlight THEN "lost" ELSE pc[r]]
    /\ UNCHANGED <<now, approvals, brandSwitch, switches>>
    /\ Elsewhere

--------------------------------------------------------------------------------
Handle(r) ==
    \/ GetApprovalDecision(r)
    \/ AssertBrandAllowed(r)
    \/ AssertTargetAllowed(r)
    \/ Enforce(r)
    \/ EnsureExecutionAllowed(r)
    \/ Act(r)
    \/ LogSuccess(r)
    \/ RecordExecutionIncident(r)
    \/ LogFailed(r)

World ==
    \/ \E a \in Approvals : Decide(a) \/ Revoke(a)
    \/ \E b \in Brands : ToggleBrandSwitch(b)
    \/ \E t \in SwitchTargets : ToggleExecutionSwitch(t)
    \/ Tick
    \/ Restart

Next ==
    \/ \E r \in Requests : Receive(r) \/ Handle(r)
    \/ World

Spec == Init /\ [][Next]_vars

\* The event loop resumes every handler, and a database call returns or fails.
FairSpec == Spec /\ \A r \in Requests : WF_vars(Handle(r))

--------------------------------------------------------------------------------
TypeOK ==
    /\ now \in Times
    /\ env \in Env
    /\ terms \in [Approvals -> ApprovalTerms]
    /\ approvals \in [Approvals -> Row]
    /\ brandSwitch \in [Brands -> BOOLEAN]
    /\ switches \subseteq Approvals \cup Requests
    /\ pc \in [Requests -> Phases]
    /\ input \in [Requests -> Inputs]
    /\ loaded \in [Requests -> Row]
    /\ effects \subseteq Requests
    /\ ledger \in [Requests -> {"none", "SUCCESS", "FAILED"}]
    /\ incidents \subseteq Requests
    /\ faults \in [Requests -> 0 .. MaxFaults]
    /\ standing \in [Requests -> SUBSET Stops]

\* No stop that was in force when a request arrived, and never lifted while
\* the guard awaited its reads, is overlooked: every check is made although
\* the rows are read at different moments and used later.
StopsBind == \A r \in effects : standing[r] = {}

\* A process whose global kill switch is on, or whose execution flag is off,
\* runs no action: one check on arrival is enough because a restart, the only
\* thing that changes the flags, ends what was in flight.
GlobalStopIsAbsolute ==
    [][effects' # effects => ExecutionEnabled /\ ~GlobalDisabled]_vars

\* The FAILED row and the swallowed incident error make the ledger survive
\* any one failed database call: whoever acted and was answered has a row.
OneFaultLeavesTrace ==
    \A r \in effects :
        pc[r] \in {"succeeded", "failed"} /\ faults[r] <= 1 => ledger[r] # "none"

\* An incident is linked to an execution only when the row it needs is there
\* already, and then that row says SUCCESS.
IncidentsPointToSuccess == \A r \in incidents : ledger[r] = "SUCCESS"

\* A request that is accepted is answered, or dies with the process.
RequestsEnd == \A r \in Requests : pc[r] # "idle" ~> pc[r] \in Over

Accountable == INSTANCE AccountableAction
                 WITH book <- ledger,
                      over <- {r \in Requests : pc[r] \in Over}

\* The service implements what its auditors are promised.
KeepsAccount == Accountable!Spec

\* docs/incidents-and-rollbacks.md: every failure that bubbles up to the
\* execution layer records an incident before the error is rethrown.
FailureRecordsIncident ==
    \A r \in Requests : pc[r] = "failed" /\ faults[r] = 0 => r \in incidents

\* docs/automation-execution.md: the feature flag is set to true, and the
\* endpoint is fail-closed otherwise.
FlagFailsClosed ==
    [][effects' # effects => env.AUTOMATION_EXECUTION_ENABLED = "true"]_vars
================================================================================
