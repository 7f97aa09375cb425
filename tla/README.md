# CREW-OS in TLA+

CREW-OS is a TypeScript monorepo: a Node.js/Express back end over PostgreSQL
(Prisma), a Next.js front end and a small shared package. Most of the back end
keeps records, one database call per request. What carries the program's own
logic is the automation and AI governance layer: which automatic action may
run, who approved it, what stops it, and what trace it leaves. This directory
models that layer first, and then the services that keep several rows in step:
stock, points, prices, refills, accounts.

Three facts about the code shape every module:

* **One thread, many calls.** The server is a single Node.js process. Code runs
  undisturbed from one `await` to the next; at each `await` any other call may
  run. A step of a model is therefore *one database call and the synchronous
  code after it*.
* **The database promises little.** The governance layer uses no transaction and
  no lock: what protects a row is its primary key or a unique column, so a
  model's table is a function from keys to rows, and a check made before an
  `await` may be stale after it. Inventory, loyalty, the removal of a product and
  the choice of a plan do use transactions, at PostgreSQL's default level, read committed (no isolation level
  is set anywhere): a read locks nothing and sees what is committed, an update
  waits for the lock of its row, and nothing is seen before the commit.
* **Anything may fail.** A database call may throw, and then it has been applied
  or not. The process may end; what it had in memory (requests in flight, events,
  timers) is gone, what is in the tables stays.

## 1. Inventory

Paths are relative to `src/apps/back-end/src`.

| Component | State | Operations | Interacts with | Hard behaviour | What makes it correct |
|---|---|---|---|---|---|
| Guarded execution (`modules/automation/automation.execution.service.ts`, `core/automation/execution/guard.ts`, `core/automation/governance/kill-switch.service.ts`) | ledger, incidents; reads approvals, three kill switches, environment | `execute` | approval workflow and operators write the rows it reads | stale reads across five awaits, failing writes after the action, restarts | no stop that stands is overlooked; one effect and one immutable row per request; a trace survives a fault |
| Incidents and rollbacks (`core/automation/governance`) | incidents, rollback ledger | `createIncident`, `markMitigated`, `markResolved`, `requestRollback`, `finalizeRollback` | reads the execution ledger | check-then-create, blind updates, calls cut short | a rollback is tied to a logged execution and a mitigated incident, in the window, once |
| Rule engine (`core/automation/engine`, `executor`, `policy`, `actions`) | runs, action runs, the rule's last status; events in memory | `runAutomationEngine`, `executeAutomationActions`, `canPerform` | domain bus, rule versions, runners | dedup keys shared by versions and by action types, timeouts against late answers, errors between writes, restarts | a success is left alone by whoever finds it, every start has its attempt, one rule fails alone, handling ends |
| Rule authoring (`modules/automation`) | rules, versions | create, edit, activation gates | rule engine reads ACTIVE versions | version numbers chosen by reading the latest | ACTIVE versions are immutable |
| AI suggestions (`modules/ai-suggestions`, `modules/ai-brain` autonomy routes, `core/events/consumers`, `core/automation/execution/automation-executor.ts`) | suggestions: a status and `executedAt` | create, approve, reject; decide a task; the consumer executes what was approved | the consumer of `ai.suggestion.approved` (only tests publish that event; the execute route publishes others and changes no row) | a status written by id whatever it is by then; an event delivered again; the mark after a run lost | a plan runs once, and what people decided stands |
| Autonomy loop (`core/ai/autonomy`, `modules/ai-brain`) | the switch and the maps of filed tasks, in memory; the options, plan and lists of each cycle | `setConfig`, `runCycle` with detectors, planner, loop and executor | governance, pipelines, insights; tasks are decided as suggestions | cycles that overlap each other and the switch, an error in the middle, a restart that empties the maps and sets the switch on | what ran is what is filed, in the order of dependencies and never without its approval; the switch is obeyed |
| Execution intents (`ai/execution-intent`, `ai/decision`) | store and audit log in memory; entries live a while | create, approve, reject, look up, hand off; all synchronous | decisions | the clock moves within an operation, and every read of the store drops what has expired; restart | what is handed over was approved once, not blocked and not too old |
| Inventory (`modules/inventory`, its repository) | stock, two books (transactions, adjustments) | `createInventoryItem`, `createInventoryAdjustment` | event bus (low stock) | a transaction that writes what it computed from an unlocked read | stock is never negative and is what the books say |
| Stand partners and stand POS (`modules/stand`, `modules/stand-pos`) | stands, units, stock rows, refill orders and their lines | `createLocation`, `createRefill`; records of partners, packages, sessions | partners, products | the lines of a refill are stored concurrently (`Promise.all`), each by a find and a create without a unique key; one fails and the others go on | stock is what was refilled; one row per product and unit |
| Loyalty (`modules/loyalty`, its repository) | points, tier, two books (transactions, redemptions) | `update`, `adjustPoints`, `redeemReward`, `resolveTierForCustomer` | event bus | points checked before the transaction that takes them; a whole row written back | the balance is what the books say, and the tier that of the balance |
| Authentication and onboarding (`modules/auth`, `modules/onboarding`, `modules/users`) | tenants, brands, users, onboarding profiles, plan changes; tokens are stateless and last seven days | register, login; start, persona, choice of a plan | every route | registration writes four tables one by one, and one that is cut short keeps the slug; a profile is unique per *status*; a plan is read before the transaction that changes it | whoever is registered has a tenant of their own, and whoever has finished onboarding is not sent back; the changes of a plan form a chain |
| Pricing (`modules/pricing`, `modules/product`) | one price row per product, drafts, history | create, update, delete; draft, submit, approve, reject; import; removal of a product | AI engines, product import | the margin is checked on a row read several calls before the write by id; an approval sets the status first and the price four calls later | a price covers its cost; an approved draft is applied; a product goes with its rows or not at all |
| Event buses (`core/events`) | handlers | publish, subscribe | everything | events are lost at a restart | a handler's error does not reach the publisher |
| Everything else | tables of records | create, read, update, delete | HTTP | little | validation |

`PROJECT.json` lists every component with its sources and whether it is
modelled, and every hazard with the line where it bites.

## 2. Plan

| # | Module | Composes / implements | State |
|---|---|---|---|
| 1 | `GuardedExecution` | implements `AccountableAction` | done, proved |
| 2 | `RollbackGovernance` | reads the ledger that 1 writes | done, proved |
| 3 | `RuleEngine` | | done, proved |
| 4 | `SuggestionLifecycle`, `AutonomyCycle` | checked together in `MCSuggestions` | done, proved |
| 5 | `Inventory` | | done, proved |
| 6 | `Loyalty` | | done, proved |
| 7 | `ExecutionIntent` | with 4 in `MCSuggestions` | done, proved |
| 8 | `Pricing`, `Accounts` | checked together in `MCBusiness` | done, proved |
| 9 | `StandPos` | with 8 in `MCBusiness` | done, proved |
| 10 | Rule versions and their activation gates | would give 3 its versions | open: several of its operations answer "Not implemented" |
| 11 | Partner orders and invoices | | open |

Modules that are proved about use no `RECURSIVE` operator; no module does.

## 3. Modules

### GuardedExecution, AccountableAction

One call of `execute` is a *request* `r`, which also stands for its
`executionId`. `pc[r]` names the database call that `r` waits for:

| Phase | Action | Code |
|---|---|---|
| `idle` | `Receive` | `assertGlobalEnabled` and the feature flag, before the first await |
| `getApprovalDecision` | `GetApprovalDecision` | guard.ts 52-56; copies the row into `loaded[r]` |
| `getBrandKillSwitch`, `findApprovalSwitch` | `AssertBrandAllowed`, `AssertTargetAllowed` | kill-switch.service.ts 36-61 |
| `enforce` | `Enforce` | guard.ts 60-64, on the row that was *loaded*, and the clock of *now* |
| `findExecutionSwitch` | `EnsureExecutionAllowed` | service 88 |
| `act` | `Act` | service 89; the only registered action logs and returns |
| `logSuccess` | `LogSuccess` | service 91 |
| `createIncident` | `RecordExecutionIncident` | service 119; the incident connects to a ledger row |
| `logFailed` | `LogFailed` | service 125, then the error is rethrown |

The approval workflow (`Decide`, `Revoke`), the operators (`ToggleBrandSwitch`,
`ToggleExecutionSwitch`), the clock and `Restart` are the environment: the code
that writes those tables is not in the repository. The columns of an approval
that never change are in `terms`, chosen once; `Decisions` are the combinations
considered. `standing[r]` is a history variable: the stops in force at the
arrival of `r` and never lifted since. Environment variables are read once per
process and coerced with `Boolean(text)`.

`AccountableAction` is what auditors are promised: at most one effect and one
row per request, rows never rewritten, `SUCCESS` only after the effect, nothing
after the end. `KeepsAccount` is the refinement.

### RollbackGovernance

Each call of `requestRollback` and `finalizeRollback` is an actor; a requester
also stands for the row it creates. `Check` is a read with the conflict it may
throw; `Mitigate` and `Resolve` are the blind writes of `updateIncident`, which
come one await after the status was read. `Abort` cuts a call short at any
await. `overlapped` and `began` are history variables. Result and identity of a
ledger row do not change, so the ledger is the constant time `ExecutedAt` of
each row. Validation of the three texts of a request happens before the first
read and only refuses, so it is left out.

### RuleEngine

An event is handled from `load` (the query for matching versions) through, for
each version, `createRun`, `markRunning`, for each action `find`, `claim`,
`attempt`, `running`, `settle`, then `finalize` and `updateRule`. `frame[e]`
holds the locals of the two loops. `Throw` is the catch of
`runAutomationEngine`: the error leaves the executor and the next version
starts. One error does not get that far (`Fails`): the SUCCESS of an action is
written in the `try` around its runner, so when that write fails, applied or not,
the catch takes it for a failure of the action, writes the row again as FAILED, and
the loop goes on. All other writes of a status are outside that `try`.

A row of `AutomationActionRun` is identified by its dedup key (`KeyOf`), a hash of
the rule, the event, the place of the action and its params. Neither the version
nor the action's type is part of it: two ACTIVE versions of a rule whose actions at
one place have equal params share the row, of whatever types they are, and that is
how a row is taken over (`ClaimActionRun` gives it the type and params of the
action at hand: `config`) and how the success of one type passes for another's
(`Shadowed`). `starts` is the log of the executions of a runner for a key, each
with what was run and whether it resolved in time.
The versions that match, and their order, are arbitrary, because activation is
not in the model and the query has no order. `CanPerform` is the policy, in the
order of its rules.

`loader` says how the build loads modules. The executor calls `require`, which
an ES module does not have; the package is one. With `"esm"` the policy gate
throws, with `"commonjs"` it does not; the passing run covers both, the
violation run only what is shipped.

### Inventory

An *adjuster* is one call of `createInventoryAdjustment`; `pc[a]` names the
database call that comes next. `FindItem` and `Refuse` are the read and the two
errors, `UpdateQuantity` takes the row lock, and the writes of a transaction
appear with `Commit`, in which the process then compares the quantities for the
alert, or never hears of the commit. `RollBack` is anything that ends a
transaction otherwise. `opening`, `crossed` and `overlapped` are history
variables. The rows of the books carry a product and a warehouse and no item;
the model counts those that are written for an item. Stock transfers have a
table and no code.

### Loyalty

Redemptions and updates are calls on a customer. `Increment` to `Commit` is
`applyPointsDelta`, whose increment is computed by the database from the
committed balance; `CreateRedemption` is its callback. `WriteCustomer` writes
the whole row that `ReadCustomer` has read, `FindTiers` and `UpdateTier` are
`resolveTierForCustomer`. `Overtakes` keeps the history: which calls have read a
balance that a commit has changed since. Rewards, programs and tiers are created
beforehand: nothing changes them.

### SuggestionLifecycle

A *call* is a request of one of the two controllers or a delivery of
`ai.suggestion.approved`; `op` says which, `callPc` what it does next. Requests
read the row (`FindSuggestion`; a decision on a task finds pending rows only, see
`Findable`) and write the status by id (`DecideSuggestion`). A delivery looks at
the status (`GetSuggestionStatus`), reads the row (`GetSuggestionById`), runs the
plan (`RunPlan`, which throws or returns) and marks the row. `LoseMark` is a mark
that is refused, or that takes place and is not answered: the catch that follows
marks the suggestion failed. `Cut` is any other failing call and the end of the
process. No code of the repository but its tests publishes the event, so
deliveries come from outside, any number of times. The controller's
`executeSuggestion` publishes events and changes no row; it is left out. The
histories name the excuses: suggestions two deliveries worked on at once
(`overlapped`), with a run whose mark was lost (`unmarked`), rejected under a
delivery (`late`); calls whose row was changed after they read it (`overtaken`),
and task decisions written over a row no longer pending (`overturned`).

### AutonomyCycle

A *cycle* is a call of `runCycle`: `detect`, `loop`, and for each task that is due
`govern`, `pipeline`, `insight`. `ListFor` is the order in which the executor
sorts a task: needs approval, waits for a dependency, autonomy is off, or is run.
`outcome` are the lists of a running cycle, `filed` the maps the service keeps
when it has ended. `Throw` leaves the cycle with nothing recorded; `RestartService`
empties the maps and, since the switch is a variable that starts as on, turns it
on. `wanted` is what the operator asked for last, `forgot` that a restart has
undone it, `excused` the cycles begun while it was wanted or forgotten, `against`
those that ran something while it was not wanted. An `autoExecute` that is not
given counts as asked for. What detectors find and pipelines answer is arbitrary;
a task depends on earlier tasks of its plan. `enqueue` and the decisions on filed
tasks are in `SuggestionLifecycle`, where their rows are.

### ExecutionIntent

Every operation is synchronous, so it is one action; but it reads the clock
several times, and each read of the store starts with `cleanupExpired`
(`Unexpired`). `DecideIntent` therefore has two times, the clock at its start and
at its `end`. `trail` is the audit log. A decision is an input: blocked, or not.

### Pricing

A *request* is any call that touches the price of the product: `request[x].kind`
says which, `requestPc[x]` the phase. `CheckRow` merges the reads of one check and
`CheckStatus` those of one decision on a draft: what lies between them can only be
the removal of what was read, which the later write refuses. The writes go by the
id that was read (`seen`). `SetStatus`, `SyncCheck`, `SyncFind`, `SyncWrite` are
the approval of a draft in the order of the code. An import checks no margin.
`RemoveProduct` is the one transaction; the foreign key of the history restricts
it, and then nothing goes. `outdated` are the calls under which the row has
changed since their check, `unguarded` says that the row was written last by an
import or on an outdated check, `applied` and `halted` what became of approvals.

### StandPos

`callerPc` is where a refill stands, `linePc` where each of its lines does:
`CreateOrder` starts all lines at once, each is `CreateItem`, `FindStock`, then
`IncrementStock` or `CreateStock`. A line that fails rejects the `Promise.all` and
the refill with it, and the others go on. `Opening` is the call of
`createLocation` that made the location: it looks for a unit as refills do.
`twins` are the products, and `Opening` for the unit, that two callers found
missing at once. A stock row is named after the line that created it.

### Accounts

A *visit* is a call: a registration, or an onboarding route of somebody who has a
user. `Registration` is the order of a registration's writes; the slug of a tenant
and of a brand, the email of a user, and the status among a user's profiles are
unique, so a write may be refused (then only `StopVisit` is left for the call).
`FindProfile` merges the reads of `ensureProfile`, because the tenant of a user
never changes. `FinalizePlanSelection` is the transaction in one step, since it
reads nothing: the plan it records as the old one was read before (`current`).
Histories: `wish`, the status the user's calls wrote last; `abandoned` slugs,
`doubled` users and `outrun` calls. `finalizeOnboarding` and `recordPlanChange`
are called by nothing.

## 4. Runs

| Run | What it asks | States |
|---|---|---|
| `guarded_execution` | Does every stop bind, does a trace survive one fault, is the account kept, does every request end, under all interleavings of a request with the world | 172 thousand |
| `rollback_governance` | What holds of incidents and rollbacks in every interleaving and what only without overlap | 3.1 million, up to symmetry |
| `rule_engine` | Dedup, attempts, run status, isolation and termination of the engine under shared keys, faults and restarts | 385 thousand |
| `suggestions` | Does a suggestion run once, does a decision stand, does a cycle record what it ran and obey the switch, is a handover timely, under redelivery, overlap, lost marks and restarts | 1.4 million |
| `business` | Does a price cover its cost, is an approved draft applied, a removal whole, a refill stocked, an account whole, a plan accounted for, in all interleavings with calls cut short | 2.4 million |
| `inventory` | Does stock stay non-negative, booked and rightly announced in every interleaving of adjustments | 121 thousand |
| `loyalty` | Where do points and tiers follow the books, and what exactly breaks that | 185 thousand |
| `flag_fails_closed` | Is the execution flag fail-closed? **No**: `AUTOMATION_EXECUTION_ENABLED=false` enables it | violation |
| `failure_records_incident` | Does every failure record an incident? **No**: a kill-switched execution records none | violation |
| `one_rollback` | Is there at most one rollback per execution? **No**: two overlapping requests create two | violation |
| `allowed_actions_run` | Does an action the policy allows run? **No**, in an ES module build the gate throws | violation |
| `concurrency_safe` | Is an adjustment safe under concurrency? **No**: two that overlap lose one of their deltas | violation |

What the properties say:

* `StopsBind`: nobody acts while a stop (missing, mismatched, unapproved, revoked
  or expired approval, brand or approval switch) that stood at arrival was never
  lifted. It does *not* say that a stop that comes during the guard binds: the
  approval row is three awaits old when it is tested.
* `GlobalStopIsAbsolute`: flags that never change within a process need one check.
* `OneFaultLeavesTrace`, `IncidentsPointToSuccess`, `RequestsEnd`, `KeepsAccount`:
  the catch block. A surprise is in `IncidentsPointToSuccess`: an incident is
  linked to an execution only if that execution's row says SUCCESS.
* `RollbacksAreTied`, `WindowIsHonoured`, `OrphansComeFromAborts` hold whatever
  interleaves. `SerialCallsKeepLifecycle` is the promise of the documents, and
  holds as long as no two calls overlap.
* `SuccessIsFinal`: one row serves every version of a rule that shares
  the key, and still whoever finds a success leaves it alone. The executor that
  wrote it may take it back, when the write was not answered; only when a call has
  failed can what was done be done again (`DoneOnce`, which is proved).
  `AttemptsCoverStarts`: each start is on record.
* `RunsTellTheTruth`: a run that reports SUCCESS has settled each action. It names
  the exception, `Shadowed`: the row found is that of another type, whose success
  is taken for that of an action which never ran. `AllowedUnlessShadowed`, which is
  proved, is the same from the other side: where the gate loads and no call fails, this is the
  only way in which an allowed action is not started. What the unit test says
  (`AllowedActionsRun`) needs both a gate that loads and keys that tell the types
  apart; the first is what the violation run shows.
* `RulesFailAlone`: each version without a run has cost a failed call. `EventsEnd`: a
  runner that hangs is given up. What it does after that is not in the model, nor
  is a retry, which no code makes.
* `ExecutedOnce`: redelivery and renewed approval do not run a plan twice; an
  overlap or a lost mark can. `DecisionsStand`: a rejection stands unless a
  delivery was already at work, and a decision on a task overwrites only what came
  between its own read and write.
* `RunsAreRecorded`: once a cycle has ended, completed is exactly what ran, in the
  order of dependencies. An error or a restart loses the record, and is the only
  excuse. `SwitchIsObeyed`: so is a restart for running against the operator's
  wish, or having begun before it.
* `HandoffsAreTimely`: approval never extends the life of an intent.
* `PriceCoversCost` names what can put a price below its cost: an import, and a
  write on a check that another call has outdated. `ApprovedDraftsAreApplied`: a
  draft that says APPROVED has reached the price, unless it was created so, or its
  approval stopped between the status and the price. `RemovalsAreWhole` is about
  every step: nothing is lost piecemeal, and nothing returns to a removed product.
* `RefillsAreStocked` adds up the stock rows: concurrent finds may create a second
  row for a product (`twins`), and still no quantity is lost or counted twice.
* `AccountsAreWhole`, `PlansAreAccounted`: the order of a registration's writes and
  the unique columns carry both; the slug of a registration that was cut short
  stays taken.
* `NeverNegative` holds however adjustments overlap, because each writes the very
  quantity it checked; that is also why one can be lost (`ConcurrencySafe`). An
  increment instead, without a check in the database, would make it negative:
  that is the mutant. `SerialStockIsBooked` and `SerialAlertsAreRight` are what
  remains: without overlap all three tables agree, whatever was rolled back.
* `PointsAreBooked` and `OverdraftsAreRaces` hold of all interleavings and name the
  only ways in which points go wrong; `SerialTiersFollow` needs calls that do
  not overlap, since the tier is written some awaits after it was computed. Where two
  tiers begin at the same points it is either of them.
* `AdjustmentsEnd`: whoever waits for the lock of a row gets it.

Every property of a passing run has a *mutant* in `PROJECT.json`: an operator
next to the one it replaces (its comment starts with "Mutant:") that makes a
plausible mistake, with which TLC finds the property violated.

### Bounds

* `GuardedExecution`: one request against the whole world. A request writes only
  rows of its own id and reads only what the world writes, so requests cannot
  disturb one another (the proofs cover any number of them); what interleaves is
  the request with the approval workflow, the operators, the clock and restarts.
  Three kinds of approval row (`MCDecisions`), two snapshots so that one may
  mismatch, two failing calls (one more than `OneFaultLeavesTrace` allows), and
  one tick to let an approval expire.
* `RollbackGovernance`: two requesters, two finalizers, two executions, two
  incidents: the smallest in which two calls race for one execution through one
  incident or two, and two finalizers for one verdict. Calls of a kind and
  incidents are symmetric (the run checks invariants only); executions differ in
  their time. The second execution is logged a tick later; the window is 0
  so that it closes. Checked without the deadlock test: each call is made once,
  so the model really stops.
* `RuleEngine`: one event, because two events share no row but the rule's last
  status, which no property reads (their dedup keys differ). Three versions of
  two rules in every order, two of which share the row of an equal action and that of
  two actions of different types; five kinds of action; two failing calls, enough for
  a SUCCESS and the FAILED after it both to be lost. Checked
  without the deadlock test: the event is published once, and then all is done.

* `MCSuggestions` and `MCBusiness` each check three components that share no state.
  `active` says which one a behaviour is about, so that their states add up; what
  is not active stays as it was. Both without the deadlock test: each call is made
  once.
* `SuggestionLifecycle`: one suggestion (calls on two share nothing), four calls of
  any kinds, so that a delivery may overlap two decisions or two deliveries a
  decision and another delivery; a plan may run to its end twice. `AutonomyCycle`:
  two cycles of two tasks with every dependency and approval between them, one
  restart. `ExecutionIntent`: two intents of lifetime 2, a clock up to 6, one
  restart: both can be created, decided and expire.
* `Pricing`: three requests, of which two are of any kind and the third approves a
  draft, because a draft's approval is the longest call and needs a partner and a
  disturber; one draft, prices 0 and 2, costs 1 and 3, so that each cost meets a
  price above and below it; two rows one after the other. `StandPos`: two refills
  of two lines and the opening of the location, two products; a line's quantity is
  its position, which tells sums apart. `Accounts`: two emails with one slug, two
  registrations, two onboarding calls, two plans.
* `Inventory`: three adjustments of one item (a lost update takes two, a third may
  wait for the lock), deltas -2, -1 and 2, openings 2, 3 or none given, so that
  withdrawals fit, overdraw alone and overdraw together, and the threshold 1 is
  crossed both ways. Two items share nothing.
* `Loyalty`: two redemptions of 2 points and one update, balances 0 and 2, deltas
  that reach the lower tier, the two higher ones, which begin at the same points, all
  three and none. Both modules are checked without
  the deadlock test: each call is made once.

### Fairness

Weak fairness of each handler's own next step: the event loop resumes a handler
once its database call has returned or thrown, and drivers do one or the other.
Nothing else is fair: no operator, clock, caller or runner need ever act. In
`RuleEngine` the runner's return is not fair, the timeout is. In `Inventory` a
step that waits for a row lock is enabled only while the lock is free; weak
fairness grants a lock that *stays* free. Each call is made once and locks one row
at a time, so nobody can be overtaken for ever. The other modules state no
fairness and no liveness: their calls neither wait nor retry.

## 5. Proofs

Eight modules (`Suggestions_proofs` serves three components, `Business_proofs` prices,
the stand and, with `Accounts_proofs`, what the three do together) prove for all values
of the constants (from the assumptions named in the modules, which TLC evaluates on
every run):

| Theorem | Statement |
|---|---|
| `GuardedExecution_proofs!TypeCorrect` | `Spec => []TypeOK` |
| `GuardIsSound` | `Spec => []StopsBind` |
| `IncidentsNeedRows` | `Spec => []IncidentsPointToSuccess` |
| `TraceSurvivesOneFault` | `Spec => []OneFaultLeavesTrace` |
| `GlobalStop` | `Spec => GlobalStopIsAbsolute` |
| `Accountability` | `Spec => KeepsAccount` |
| `RollbackGovernance_proofs!TypeCorrect` | `Spec => []TypeOK` |
| `Tied` | `Spec => []RollbacksAreTied` |
| `WindowHolds` | `Spec => []WindowIsHonoured` |
| `Orphans` | `Spec => []OrphansComeFromAborts` |
| `SerialLifecycle` | `Spec => []SerialCallsKeepLifecycle` |
| `RuleEngine_proofs!EngineTypes` | `Spec => []TypeOK` |
| `Covered` | `Spec => []AttemptsCoverStarts` |
| `Truthful` | `Spec => []RunsTellTheTruth` |
| `TruthfulByKeys` | `ASSUME KeysTell PROVE Spec => []SuccessIsOwn` |
| `FailAlone` | `Spec => []RulesFailAlone` |
| `SuccessLasts` | `Spec => SuccessIsFinal` |
| `NotDoneTwice` | `Spec => []DoneOnce` |
| `OnlyAllowed` | `Spec => []OnlyAllowedStart` |
| `AllowedRun` | `Spec => []AllowedUnlessShadowed` |
| `AllowedRunByKeys` | `ASSUME KeysTell PROVE Spec => [](loader = "commonjs" => AllowedActionsRun)` |
| `MovesForward` | `Spec => EventsMoveOn /\ []WorkIsBounded` |
| `AttemptsCounted` | `Spec => AttemptsAreCounted` |
| `Suggestions_proofs!SuggestionTypes`, `CycleTypes`, `IntentTypes` | the types of the three modules |
| `RunsOnce` | `SuggestionSpec => []ExecutedOnce` |
| `PeopleDecide` | `SuggestionSpec => []DecisionsStand` |
| `Recorded` | `CycleSpec => []RunsAreRecorded` |
| `Obeyed` | `CycleSpec => []SwitchIsObeyed` |
| `TimelyHandoffs` | `IntentSpec => []HandoffsAreTimely` |
| `SuggestionsCompose` | `Spec => SuggestionSpec /\ CycleSpec /\ IntentSpec` |
| `SuggestionsTypes`, `SuggestionsSafe` | `Spec => []TypeOK`, and all five invariants of the run of `Spec` |
| `Business_proofs!PricingTypes` | `PricingSpec => []PricingTypeOK` |
| `PricesCover` | `PricingSpec => []PriceCoversCost` |
| `DraftsAreApplied` | `PricingSpec => []ApprovedDraftsAreApplied` |
| `Removals` | `PricingSpec => RemovalsAreWhole` |
| `StandTypes` | `StandSpec => []StandTypeOK` |
| `RefillsStocked` | `StandSpec => []RefillsAreStocked` |
| `BusinessComposes` | `Spec => PricingSpec /\ StandSpec /\ AccountSpec` |
| `BusinessTypes`, `BusinessSafe` | `Spec => []TypeOK`, and everything else the run of `Spec` checks |
| `Accounts_proofs!AccountTypes` | `AccountSpec => []AccountTypeOK` |
| `Whole` | `AccountSpec => []AccountsAreWhole` |
| `PlansAccounted` | `AccountSpec => []PlansAreAccounted` |
| `Inventory_proofs!TypeCorrect` | `Spec => []TypeOK` |
| `StockIsNeverNegative` | `Spec => []NeverNegative` |
| `StockIsBooked` | `Spec => []SerialStockIsBooked` |
| `AlertsAreRight` | `Spec => []SerialAlertsAreRight` |
| `LocksHold` | `Spec => LocksBind` |
| `Loyalty_proofs!TypeCorrect` | `Spec => []TypeOK` |
| `Booked` | `Spec => []PointsAreBooked` |
| `Overdrafts` | `Spec => []OverdraftsAreRaces` |
| `TiersFollow` | `Spec => []SerialTiersFollow` |

The arguments:

* **The guard.** `StopsBind` is not inductive: it speaks of requests that have
  acted. `GuardInv` adds what a request knows at each phase: `Standing` (a stop
  that is standing is in force), `RowLoaded` (a loaded row that says
  APPROVED, or not revoked, means that this stop no longer stands), `SwitchesRead` (a
  switch already passed is not standing) and `Cleared` (past `enforce`, nothing
  stands). Each read removes one stop from what may be standing.
* **The ledger.** `LedgerInv`: `RowsInOrder` (which rows may exist at which
  phase), `ActedInOrder` (who has acted) and `FaultsCounted` (what a phase of the
  error path has cost). It implies the trace, the incidents and the refinement.
* **The flags.** `FlagsHold`: past `Receive` the process's flags permit execution,
  because a restart ends what is in flight.
* **Rollbacks.** `RollbackInv` says what a requester has established at each
  phase (`Checked`, `Advances`): its execution is logged, it began in the window,
  its incident concerns that execution and, once mitigated, is never OPEN again.
* **No overlap.** `SerialInv`: while calls do not overlap, whoever is in progress
  is alone (`Alone`), so that what it read is still so (`Fresh`); with these, one
  rollback for an execution (`OneEach`) and an incident resolved only by a
  decided rollback (`ResolvedByRollback`) are inductive.

* **Stock.** `Checked`: what a transaction is about to write is not negative, from
  the read to the commit; that alone gives `NeverNegative`. `AloneAndFresh`:
  without overlap there is one transaction on an item and it has read what is
  still committed. `Unstocked` (nothing happens to an item before it exists) and
  `Quiet` (who has not committed has announced nothing) close the induction.
  `OneHolder` (one call past the update of an item, and only of an item that
  exists) gives `LocksBind`: from the lock to the end nobody else changes that
  stock, so that whatever overlapping adjustments lose is lost between the read
  and the lock.

* **Points.** `Seen` and `Covered`: who was not overtaken still relies on what is so
  (an update on the balance it read, a redemption on the points it checked).
  `Alone` and `Targeted`: without overlap the tier about to be written is that of
  the points. `OvertakesInv` is the lemma they share, on what a changed balance
  does to everybody else. `HighestTier` shows that `TiersFor` is never empty, for
  any set of tiers, finite or not: the gaps between the points and the tiers below
  them are natural numbers and have a least one.

* **The rule engine.** `EngineInv` says of each event that its executor is at a
  matched version and one of its actions (`FrameFits`), that what it read of
  its row still holds of the table (`RowIsFresh`: other events have other keys), that the
  row of a success belongs to an action with its key (`RowsBelong`), that what was done
  is the last start of its key and is, or is about to be, a success (`DoneFits`), that no
  run relies on a row which may yet come to FAILED (`RowIsFree`), that a version attempts
  an action once (`AttemptsFit`: so even the type of `attempts` needs the invariant), and that what the summaries leave out is settled
  (`SummariesFit`), which `finalize` turns into the truth of the run. `Missing`
  are the matched versions passed without a run; `FaultsArePaid` counts them
  against the failed calls. `Leaves` is the lemma all errors share: what must hold
  for the engine to go on to the next version.
* **Which actions are started.** `OnlyAllowedStart` follows an attempt through the gate;
  `RegisteredAttempts` is what the claim has checked before. For `AllowedRun`,
  `TriedFit` says what an event has behind it when no call failed: every action of
  a version passed, every action before the one at hand, and the one at hand once
  it has a verdict, was started if it may run, or was skipped (`Skipped`) on a success
  that shadows it. A row found with SUCCESS counts because of `SuccessWasStarted`: what
  the row says it was claimed for was started, and by `SucceededFor` that is the action
  itself or one that shadows it. `KeysTell` says that no two versions of a rule differ at
  one place in the action type only; then nothing is shadowed, the success of a run is
  its own (`TruthfulByKeys`), and `AllowedActionsRun`, which run `allowed_actions_run`
  refutes, holds in a CommonJS build (`AllowedRunByKeys`): the loader and the key are all
  that is wrong.
* **A success.** `SuccessStays` goes through all steps: whoever finds the row skips it,
  `RowIsFresh` keeps it from those who are past that, and what is left is the second
  write of the executor whose first one was not answered.
* **Moving on.** `EventsMoveOn` is the half of `EventsEnd` that needs no fairness: version,
  action and awaited call, in this order, only grow (an action may be settled twice, as a
  success and then as failed), and `WorkIsBounded` says up to
  where. With the fairness of the handlers, which TLC assumes, this is why events end.
  `AttemptsAreCounted` rests on `RowIsFresh`: the number that the claim
  returned is still the row's when it is written.
* **Suggestions.** `WorkIsLone`: without overlap and lost marks one delivery is at
  work at most, and none once `executedAt` is set. `TasksStayPending`: who was not
  overtaken still sees the row it read.
* **Cycles.** `SwitchFollows` and `RunnersWereTold` carry the operator's wish into a
  running cycle; `RunsAreDue`, `RunsAreKnown`, `FilesAreLists` and `RunsAreOrdered`
  tie pipelines that ran to the lists, and these to the maps.
* **Intents.** `StoreIsFaithful`: what the store holds has the expiry it was created
  with and the trail its status tells.
* **Prices.** `MarginsHold`: a call that is not outdated is about to write a margin
  that covers the cost of the row as it is. `PhasesFit` (which kinds reach which
  phase) and `GoneForGood` (a removed product has nothing) close the induction.
* **The stand.** `StockAddsUp` compares two sums, of the rows of a product and of the lines
  stocked of it. Both are folds over finite sets, of which the prover knows only
  that they are the sum of one element and the rest, for some element: `TotalStep`
  to `TotalWith` establish, by a least counterexample on the cardinality, that the
  element does not matter and what adding or changing one does to the sum.
  `LinesFit` (a line that found a row still has it), `LoneRows` and `LoneUnit` (a second
  row or unit is on its way only if two looked at once) and `CallsFit` (a refill is
  answered when all its lines are through) close the induction.
* **Side by side.** The components of `MCSuggestions`, and of `MCBusiness`, share no
  variable, so a step of one is a stutter of the others (`OneComponentMoves`):
  the composed specification implements each of its parts (`SuggestionsCompose`,
  `BusinessComposes`), and every theorem about a part holds of the whole.
* **Accounts.** `BuildersOwn`: a slug has one registration building on it, and it
  has written what its phase says. `ProfilesFit`: the profile a call works on is
  the user's only one unless two calls found none. `PlansAreKnown`: who is about
  to change a plan and was not outrun has read the plan that stands.

Every invariant and every action property of the passing runs is proved. Only
model-checked: the liveness properties (`RequestsEnd`, `EventsEnd`, `AdjustmentsEnd`),
which need fairness and `ENABLED` and are out of the prover's reach (`MovesForward` is the
safe half of `EventsEnd`), and the five violations.

## 6. Not modelled, and why

* Text, logs, metrics, HTTP and permissions in front of the modelled operations.
* Who writes approvals and kill switches: no code here does.
* Condition evaluation: a pure function of the event, abstracted to its outcome.
* What an abandoned runner does after its timeout: the model records what resolved
  in time.
* What two overlapping finalizers leave: both are modelled, but nothing promises
  that the verdict and the incident agree then (the last write wins).
* `lastRunStatus` of a rule is written, and no property reads it: the runs of two events
  finish in any order, and nothing says which of them the rule should show.
* Whether and in which order events reach the rule engine is arbitrary; so is the
  set of ACTIVE versions. How versions are authored is not modelled, since several
  of its operations are not implemented.
* Of pricing: the brand's currency, competitor prices and the AI engines. Of stand
  POS: packages, sessions, reports and partner records, which are single writes.
  Affiliate rewards look before they create, but nothing calls them.
* Two hazards in `PROJECT.json` have no property, and of some a property covers one
  half (no overlap, the ending): each says why.
* The components marked `not_modelled` in `PROJECT.json`, each with its reason.
