------------------------------- MODULE RuleEngine -------------------------------
(***************************************************************************)
(* The automation rule engine: runAutomationEngine, which hands each event *)
(* to every rule version it matches, and executeAutomationActions, which   *)
(* keeps an AutomationRun for the version and an AutomationActionRun for   *)
(* each of its actions.                                                    *)
(*                                                                         *)
(* Events are handled concurrently, each one from await to await; for one  *)
(* event the versions come one after the other, and so do their actions.   *)
(* Two versions of a rule whose actions at one place have the same params  *)
(* share the dedup key, hence the row, whatever the types of the actions.  *)
(* Any call to the database may fail, applied or not; the error leaves the *)
(* executor, unless it is the SUCCESS of an action that is written, and    *)
(* the engine goes on with the next version.  The events live in memory: a *)
(* restart loses them.                                                     *)
(***************************************************************************)
EXTENDS Naturals, Sequences, FiniteSets

CONSTANTS
    Events,         \* domain events, each published once
    Versions,       \* ACTIVE versions of ACTIVE rules
    Rules,
    Configs,        \* actions: a type with its params
    Params,         \* normalized params
    ParamsOf,       \* those of a Config
    RuleOf,         \* the rule of a version
    Actions,        \* the actions of a version, a sequence of Configs
    Registered,     \* the Configs whose type has a runner
    Valid,          \* the Configs the runner's schema accepts
    Metadata,       \* the metadata of the runner of a Config
    Settings,       \* what the process may be started with
    Loaders,        \* how the build may load modules
    MaxFaults       \* bound: failed database calls

Risks     == {"LOW", "MEDIUM", "HIGH", "CRITICAL"}
Ceilings  == Risks \cup {"other"}       \* "other": any text that names no risk
Stages    == {"production", "staging", "development"}
Meta      == [risk : Risks, approval : SUBSET Stages]
Setting   == [killSwitch : BOOLEAN, autonomy : BOOLEAN, maxRisk : Ceilings,
              stage : Stages, dryRun : BOOLEAN]

ASSUME RuleAssumption     == IsFiniteSet(Versions) /\ RuleOf \in [Versions -> Rules]
ASSUME ActionAssumption   == /\ Actions \in [Versions -> Seq(Configs)]
                             /\ ParamsOf \in [Configs -> Params]
ASSUME RunnerAssumption   == /\ Registered \subseteq Configs /\ Valid \subseteq Configs
                             /\ Metadata \in [Configs -> Meta]
ASSUME SettingsAssumption == /\ Settings \subseteq Setting
                             /\ Loaders \subseteq {"esm", "commonjs"}
                             /\ MaxFaults \in Nat

VARIABLES
    setting,        \* process.env
    loader,
    pc,             \* where the handling of each event stands
    matched,        \* the versions it matched, in the order they come
    frame,          \* the locals of the loop over them and of the executor
    runs,           \* AutomationRun.status, by event and version
    rows,           \* AutomationActionRun, by dedup key
    lastRun,        \* AutomationRule.lastRunStatus
    starts,         \* history: the executions of a runner, by dedup key
    faults

fixed  == <<setting, loader>>
tables == <<runs, rows, lastRun>>
vars   == <<setting, loader, pc, matched, frame, runs, rows, lastRun, starts, faults>>

Ended       == {"SUCCESS", "FAILED", "PARTIAL"}
RunStatuses == {"none", "PENDING", "RUNNING"} \cup Ended
RowStatuses == {"none", "PENDING", "RUNNING", "SUCCESS", "FAILED", "RETRYING"}

\* config: the actionType and actionConfig it was last claimed for.
Row         == [status : RowStatuses, attempts : 0 .. Cardinality(Versions),
                config : Configs \cup {"none"}]
NoRow       == [status |-> "none", attempts |-> 0, config |-> "none"]

\* done: the runner has resolved in time.
Execution   == [config : Configs, done : BOOLEAN]

\* Phases are named after the call that is awaited.
Awaiting == {"load", "createRun", "markRunning", "find", "claim", "attempt", "settle",
             "finalize", "updateRule"}
Phases   == {"idle", "running"} \cup Awaiting \cup {"over", "lost"}

Indices == UNION {DOMAIN Actions[v] : v \in Versions}

\* buildDedupKey: neither the version nor the type of the action is part of it.
Keys == [rule : Rules, event : Events, index : Indices, params : Params]
KeyOf(e, v, i) ==
    [rule |-> RuleOf[v], event |-> e, index |-> i, params |-> ParamsOf[Actions[v][i]]]

\* turn: the place of the version in matched; index: that of its action;
\* attempts: those of the row claimed for it; verdict: the status it is about to
\* get; summaries: the statuses of the actions so far.
Frame == [turn : 1 .. Cardinality(Versions) + 1, index : Nat,
          attempts : 0 .. Cardinality(Versions), verdict : RowStatuses,
          summaries : SUBSET (RowStatuses \cup {"SKIPPED"})]

Fresh(turn) ==
    [turn |-> turn, index |-> 1, attempts |-> 0, verdict |-> "none", summaries |-> {}]

Version(e) == matched[e][frame[e].turn]
Config(e)  == Actions[Version(e)][frame[e].index]
Key(e)     == KeyOf(e, Version(e), frame[e].index)

\* findMany without an order: the versions whose conditions hold, in any order.
Matches == {s \in UNION {[1 .. n -> Versions] : n \in 0 .. Cardinality(Versions)} :
              \A i, j \in DOMAIN s : s[i] = s[j] => i = j}

--------------------------------------------------------------------------------
(***************************************************************************)
(* canPerform, in the order of its rules; the executor has no approvals.   *)
(***************************************************************************)
Rank == [LOW |-> 1, MEDIUM |-> 2, HIGH |-> 3, CRITICAL |-> 4, other |-> 4]

CanPerform(meta) ==
    IF setting.killSwitch \/ ~setting.autonomy \/ Rank[meta.risk] > Rank[setting.maxRisk]
      THEN "DENY"
      ELSE IF setting.stage \in meta.approval THEN "REQUIRE_APPROVAL" ELSE "ALLOW"

--------------------------------------------------------------------------------
Init ==
    /\ setting \in Settings
    /\ loader \in Loaders
    /\ pc = [e \in Events |-> "idle"]
    /\ matched = [e \in Events |-> <<>>]
    /\ frame = [e \in Events |-> Fresh(1)]
    /\ runs = [x \in Events \X Versions |-> "none"]
    /\ rows = [k \in Keys |-> NoRow]
    /\ lastRun = [r \in Rules |-> "none"]
    /\ starts = [k \in Keys |-> <<>>]
    /\ faults = 0

Fault   == faults < MaxFaults /\ faults' = faults + 1
NoFault == UNCHANGED faults

Resume(e, phase, locals) ==
    /\ pc' = [pc EXCEPT ![e] = phase]
    /\ frame' = [frame EXCEPT ![e] = locals]

\* The executor has returned or thrown: on to the next version.
NextVersion(e) ==
    IF frame[e].turn = Len(matched[e])
      THEN Resume(e, "over", Fresh(1))
      ELSE Resume(e, "createRun", Fresh(frame[e].turn + 1))

\* Mutant: the executor is called outside the engine's try.
GiveUp(e) == Resume(e, "over", Fresh(1))

\* The catch of runAutomationEngine.
Throw(e) == NextVersion(e)

\* A write to a table is applied and answered, or it throws, applied or not.
Await(e, table, written, phase, locals) ==
    \/ table' = written /\ Resume(e, phase, locals) /\ NoFault
    \/ table' \in {table, written} /\ Throw(e) /\ Fault

--------------------------------------------------------------------------------
(***************************************************************************)
(* runAutomationEngine.                                                    *)
(***************************************************************************)
Publish(e) ==
    /\ pc[e] = "idle"
    /\ Resume(e, "load", Fresh(1))
    /\ UNCHANGED <<fixed, matched, tables, starts, faults>>

\* A dry run reports every action SKIPPED and writes nothing.
LoadMatchingRules(e) ==
    /\ pc[e] = "load"
    /\ \/ /\ \E s \in Matches :
                /\ matched' = [matched EXCEPT ![e] = s]
                /\ Resume(e, IF s = <<>> \/ setting.dryRun THEN "over" ELSE "createRun",
                          Fresh(1))
          /\ NoFault
       \/ Resume(e, "over", Fresh(1)) /\ Fault /\ UNCHANGED matched
    /\ UNCHANGED <<fixed, tables, starts>>

(***************************************************************************)
(* executeAutomationActions.                                               *)
(***************************************************************************)
SetRun(e, from, status, next) ==
    /\ pc[e] = from
    /\ Await(e, runs, [runs EXCEPT ![<<e, Version(e)>>] = status], next, frame[e])
    /\ UNCHANGED <<fixed, matched, rows, lastRun, starts>>

\* The loop over the actions, from the i-th on.
From(i, e) == IF i <= Len(Actions[Version(e)]) THEN "find" ELSE "finalize"

CreateAutomationRun(e) == SetRun(e, "createRun", "PENDING", "markRunning")
MarkRunRunning(e)      == SetRun(e, "markRunning", "RUNNING", From(1, e))

\* The locals once the action at hand has got its status.
Summarized(e, status) ==
    [frame[e] EXCEPT !.index = @ + 1, !.summaries = @ \cup {status}]

Find(e, done) ==
    /\ pc[e] = "find"
    /\ \/ /\ IF done THEN Resume(e, From(frame[e].index + 1, e), Summarized(e, "SKIPPED"))
                    ELSE Resume(e, "claim", frame[e])
          /\ NoFault
       \/ Throw(e) /\ Fault
    /\ UNCHANGED <<fixed, matched, tables, starts>>

\* Mutant: the row of a previous success is executed again.
FindWithoutDedup(e) == Find(e, FALSE)

FindActionRun(e) == Find(e, rows[Key(e)].status = "SUCCESS")

Verdict(e, status) == [frame[e] EXCEPT !.verdict = status]

\* The locals once the row is claimed: the attempts are those of the row that the
\* write returns; without a runner the action is going to be FAILED.
Claimed(e) == [frame[e] EXCEPT !.attempts = rows[Key(e)].attempts, !.verdict = "FAILED"]

\* createActionRun, or the row that was found is taken over by this run.
ClaimActionRun(e) ==
    /\ pc[e] = "claim"
    /\ Await(e, rows, [rows EXCEPT ![Key(e)] = [@ EXCEPT !.status = "PENDING", !.config = Config(e)]],
             IF Config(e) \in Registered THEN "attempt" ELSE "settle",
             Claimed(e))
    /\ UNCHANGED <<fixed, matched, runs, lastRun, starts>>

Decision(e) ==
    IF Config(e) \in Valid THEN CanPerform(Metadata[Config(e)]) ELSE "INVALID"

\* The gate loads can-perform.js by a require that an ES module does not have.
GateThrows(e) == Config(e) \in Valid /\ loader = "esm"

\* Once the attempt is written: the validation, the gate, and the runner.
Start(e, attempts) ==
    LET written  == [rows EXCEPT ![Key(e)] = [@ EXCEPT !.status = "RUNNING", !.attempts = attempts]]
        run      == [config |-> Config(e), done |-> FALSE]
        decision == Decision(e)
    IN  /\ pc[e] = "attempt"
        /\ \/ /\ GateThrows(e)
              /\ rows' = written /\ Throw(e) /\ NoFault /\ UNCHANGED starts
           \/ /\ ~GateThrows(e) /\ decision = "ALLOW"
              /\ starts' = [starts EXCEPT ![Key(e)] = Append(@, run)]
              /\ rows' = written /\ Resume(e, "running", frame[e]) /\ NoFault
           \/ /\ ~GateThrows(e) /\ decision # "ALLOW"
              /\ Resume(e, "settle", Verdict(e, IF decision = "REQUIRE_APPROVAL"
                                                 THEN "PENDING" ELSE "FAILED"))
              /\ rows' = written /\ NoFault /\ UNCHANGED starts
           \/ rows' \in {rows, written} /\ Throw(e) /\ Fault /\ UNCHANGED starts
        /\ UNCHANGED <<fixed, matched, runs, lastRun>>

\* Mutant: a row that is taken over starts again from one attempt.
StartAfresh(e) == Start(e, 1)

StartAttempt(e) == Start(e, frame[e].attempts + 1)

Finish(e, status) ==
    /\ pc[e] = "running"
    /\ Resume(e, "settle", Verdict(e, status))
    /\ UNCHANGED <<fixed, matched, tables, faults>>

Resolved(log) == [log EXCEPT ![Len(log)].done = TRUE]

\* runner.execute resolves, throws RetryableActionError, or throws.
RunnerReturns(e) ==
    \/ Finish(e, "SUCCESS") /\ starts' = [starts EXCEPT ![Key(e)] = Resolved(@)]
    \/ \E status \in {"RETRYING", "FAILED"} : Finish(e, status) /\ UNCHANGED starts

\* Mutant: the runner is awaited without a timeout.
TimeoutNever(e) == pc[e] = "running" /\ UNCHANGED vars

\* executeWithTimeout gives up on the runner, which may still be at work.
Timeout(e) == Finish(e, "FAILED") /\ UNCHANGED starts

\* The error of the SUCCESS write is caught where those of the runner are, and the
\* row is written again; any other leaves the executor.
Fails(e) ==
    IF frame[e].verdict = "SUCCESS" THEN Resume(e, "settle", Verdict(e, "FAILED")) ELSE Throw(e)

SettleActionRun(e) ==
    LET status  == frame[e].verdict
        written == [rows EXCEPT ![Key(e)].status = status]
    IN  /\ pc[e] = "settle"
        /\ \/ /\ rows' = written /\ NoFault
              /\ Resume(e, From(frame[e].index + 1, e), Summarized(e, status))
           \/ rows' \in {rows, written} /\ Fails(e) /\ Fault
        /\ UNCHANGED <<fixed, matched, runs, lastRun, starts>>

\* Mutant: a retry that is due later counts as success.
FinalStatusBlind(statuses) == IF "FAILED" \in statuses THEN "FAILED" ELSE "SUCCESS"

\* Mutant: a run that had nothing left to do is SKIPPED.
FinalStatusSkipped(statuses) ==
    IF "FAILED" \in statuses THEN "FAILED"
    ELSE IF statuses = {"SKIPPED"} THEN "SKIPPED"
    ELSE IF "RETRYING" \in statuses THEN "PARTIAL" ELSE "SUCCESS"

\* An action that waits for approval does not count.
FinalStatus(statuses) ==
    IF "FAILED" \in statuses THEN "FAILED"
    ELSE IF "RETRYING" \in statuses THEN "PARTIAL" ELSE "SUCCESS"

FinalizeAutomationRun(e) ==
    SetRun(e, "finalize", FinalStatus(frame[e].summaries), "updateRule")

UpdateRuleLastRun(e) ==
    LET written == [lastRun EXCEPT ![RuleOf[Version(e)]] = FinalStatus(frame[e].summaries)]
    IN  /\ pc[e] = "updateRule"
        /\ \/ lastRun' = written /\ NoFault
           \/ lastRun' \in {lastRun, written} /\ Fault
        /\ NextVersion(e)
        /\ UNCHANGED <<fixed, matched, runs, rows, starts>>

\* The event was only in memory.
Restart ==
    LET InProgress == {e \in Events : pc[e] \in Awaiting \cup {"running"}}
    IN  /\ InProgress # {}
        /\ pc' = [e \in Events |-> IF e \in InProgress THEN "lost" ELSE pc[e]]
        /\ frame' = [e \in Events |-> Fresh(1)]
        /\ UNCHANGED <<fixed, matched, tables, starts, faults>>

--------------------------------------------------------------------------------
Handle(e) ==
    \/ LoadMatchingRules(e)
    \/ CreateAutomationRun(e)
    \/ MarkRunRunning(e)
    \/ FindActionRun(e)
    \/ ClaimActionRun(e)
    \/ StartAttempt(e)
    \/ Timeout(e)
    \/ SettleActionRun(e)
    \/ FinalizeAutomationRun(e)
    \/ UpdateRuleLastRun(e)

Next ==
    \/ \E e \in Events : Publish(e) \/ Handle(e) \/ RunnerReturns(e)
    \/ Restart

Spec == Init /\ [][Next]_vars

\* The event loop resumes the executor, and its timer fires; a runner need
\* never return.
FairSpec == Spec /\ \A e \in Events : WF_vars(Handle(e))

--------------------------------------------------------------------------------
TypeOK ==
    /\ setting \in Settings
    /\ loader \in Loaders
    /\ pc \in [Events -> Phases]
    /\ matched \in [Events -> Matches]
    /\ frame \in [Events -> Frame]
    /\ runs \in [Events \X Versions -> RunStatuses]
    /\ rows \in [Keys -> Row]
    /\ lastRun \in [Rules -> {"none"} \cup Ended]
    /\ starts \in [Keys -> Seq(Execution)]
    /\ faults \in 0 .. MaxFaults

\* What has succeeded for an event is done with: another version that finds the row
\* neither runs it nor touches it.  Only the executor that wrote the SUCCESS may take
\* it back, and only when a call has failed.
SuccessIsFinal ==
    [][\A k \in Keys : rows[k].status = "SUCCESS" =>
          /\ starts'[k] = starts[k]
          /\ \/ rows'[k] = rows[k]
             \/ /\ faults > 0 /\ rows'[k] = [rows[k] EXCEPT !.status = "FAILED"]
                /\ \E e \in Events : pc[e] = "settle" /\ Key(e) = k]_vars

\* An attempt is on record before the runner starts, through failed writes,
\* restarts and rows that one run takes over from another.
AttemptsCoverStarts == \A k \in Keys : Len(starts[k]) <= rows[k].attempts

\* The action of another version that has the row of an action: a type of its own,
\* at the same place of the same rule and with the same params.
Shadowed(e, v, i) ==
    LET other == rows[KeyOf(e, v, i)].config
    IN  /\ other # Actions[v][i]
        /\ \E w \in Versions \ {v} : RuleOf[w] = RuleOf[v] /\ i \in DOMAIN Actions[w]
                                     /\ Actions[w][i] = other
        /\ ParamsOf[other] = ParamsOf[Actions[v][i]]

\* A run that reports SUCCESS has no action that failed or is to be retried: each
\* one needs approval, or has succeeded, for this version or an earlier one.  What
\* succeeded is the action itself, unless its key is shared by one of another type.
RunsTellTheTruth ==
    \A e \in Events, v \in Versions : runs[<<e, v>>] = "SUCCESS" =>
        \A i \in DOMAIN Actions[v] :
            \/ /\ rows[KeyOf(e, v, i)].status = "SUCCESS"
               /\ rows[KeyOf(e, v, i)].config = Actions[v][i] \/ Shadowed(e, v, i)
            \/ CanPerform(Metadata[Actions[v][i]]) = "REQUIRE_APPROVAL"

\* A rule that throws does not take the others with it: when an event has been
\* handled, every version it matched has its run, but for those whose own
\* creation failed.
RulesFailAlone ==
    \A e \in Events : pc[e] = "over" /\ ~setting.dryRun =>
        Cardinality({v \in Versions : /\ \E i \in DOMAIN matched[e] : matched[e][i] = v
                                      /\ runs[<<e, v>>] = "none"}) <= faults

\* Every event is handled to its end, whatever its runners do.
EventsEnd == \A e \in Events : pc[e] = "load" ~> pc[e] \in {"over", "lost"}

Started(k, c) == \E n \in DOMAIN starts[k] : starts[k][n].config = c

\* executor.policy.unit.test.ts: an action the policy allows is executed.
AllowedActionsRun ==
    \A e \in Events : pc[e] = "over" /\ ~setting.dryRun /\ faults = 0 =>
        \A n \in DOMAIN matched[e] :
            LET v == matched[e][n]
            IN  \A i \in DOMAIN Actions[v] :
                    /\ Actions[v][i] \in Registered \cap Valid
                    /\ CanPerform(Metadata[Actions[v][i]]) = "ALLOW"
                    => Started(KeyOf(e, v, i), Actions[v][i])
================================================================================
