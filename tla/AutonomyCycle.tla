------------------------------ MODULE AutonomyCycle ------------------------------
(***************************************************************************)
(* Autonomy cycles: runCycle of AutonomyService with the loop, planner and *)
(* executor it calls, the switch an operator sets, and the maps of tasks   *)
(* the service keeps in memory.  Cycles overlap: nothing keeps a second    *)
(* one from starting while the first awaits a governance check, a pipeline *)
(* or an insight.                                                          *)
(***************************************************************************)
EXTENDS Naturals

CONSTANTS
    Cycles,         \* calls of runCycle
    Actions,        \* 1..n: positions in a plan
    MaxRestarts     \* bound on the restarts of the process

ASSUME ActionsAssumption == /\ \A t \in Actions : t \in Nat \ {0} /\ 1..t \subseteq Actions
                            /\ MaxRestarts \in Nat

VARIABLES
    enabled,        \* globalAutonomyEnabled
    cyclePc,        \* the step each cycle takes next
    autoExecute,    \* the option the loop of a cycle was called with
    plan,           \* of each cycle
    task,           \* the task it is at
    outcome,        \* the list each task of a running cycle was put in
    filed,          \* the status under which the maps of the service hold it
    ranTasks,       \* history: pipelines that have run, by cycle and position
    wanted,         \* history: what the operator set last
    forgot,         \* history: whether a restart has undone that since
    excused,        \* history: cycles begun while it was wanted or forgotten
    against,        \* history: cycles that ran a pipeline while it was not wanted
    erased,         \* history: cycles begun before the last restart
    restarts

cycleHistories == <<ranTasks, wanted, forgot, excused, against, erased, restarts>>
cycleVars == <<enabled, cyclePc, autoExecute, plan, task, outcome, filed, cycleHistories>>

Executing == {"govern", "pipeline", "insight"}
CyclePhases == {"idle", "detect", "loop", "done", "failed"} \cup Executing
Outcomes == {"none", "pendingApproval", "queued", "blocked", "executed"}
Filed == {"none", "PENDING", "QUEUED", "BLOCKED", "COMPLETED"}

\* A task depends on earlier tasks of its own scenario only: their ids are taken
\* from those already made.
Plans == {p \in [requiresApproval : SUBSET Actions, dependencies : [Actions -> SUBSET Actions]] :
            \A t \in Actions : \A d \in p.dependencies[t] : d < t}
NoPlan == [requiresApproval |-> {}, dependencies |-> [t \in Actions |-> {}]]

CycleInit ==
    /\ enabled = TRUE /\ wanted = TRUE /\ forgot = FALSE
    /\ cyclePc = [c \in Cycles |-> "idle"]
    /\ autoExecute = [c \in Cycles |-> FALSE]
    /\ plan = [c \in Cycles |-> NoPlan]
    /\ task = [c \in Cycles |-> 0]
    /\ outcome = [c \in Cycles |-> [t \in Actions |-> "none"]]
    /\ filed = [c \in Cycles |-> [t \in Actions |-> "none"]]
    /\ ranTasks = {} /\ excused = {} /\ against = {} /\ erased = {}
    /\ restarts = 0

Advance(c, from, to) == cyclePc[c] = from /\ cyclePc' = [cyclePc EXCEPT ![c] = to]

\* Mutant: only a switch that is on is taken over.
Stored(v) == enabled \/ v

Given(v) == v

SetConfig(v) ==
    /\ enabled' = Given(v) /\ wanted' = v /\ forgot' = FALSE
    /\ UNCHANGED <<cyclePc, autoExecute, plan, task, outcome, filed, ranTasks, excused, against, erased, restarts>>

--------------------------------------------------------------------------------
\* runCycle, up to its first await; option is what the request asks for.
RunCycle(c, option) ==
    /\ Advance(c, "idle", "detect")
    /\ autoExecute' = [autoExecute EXCEPT ![c] = enabled /\ option]
    /\ excused' = IF wanted \/ forgot THEN excused \cup {c} ELSE excused
    /\ UNCHANGED <<enabled, plan, task, outcome, filed, ranTasks, wanted, forgot, against, erased, restarts>>

\* runAutonomyDetectors and planAutonomyTasks.
PlanTasks(c) ==
    /\ Advance(c, "detect", "loop")
    /\ plan' \in {[plan EXCEPT ![c] = p] : p \in Plans}
    /\ UNCHANGED <<enabled, autoExecute, task, outcome, filed, cycleHistories>>

Put(c, t, list) == outcome' = [outcome EXCEPT ![c][t] = list]

\* The list a task is put in before anything is run for it; "none" if it is run.
ListFor(c, t) ==
    CASE t \in plan[c].requiresApproval -> "pendingApproval"
      [] \E d \in plan[c].dependencies[t] : outcome[c][d] # "executed" -> "queued"
      [] ~autoExecute[c] -> "queued"
      [] OTHER -> "none"

Consider(c) ==
    LET t == task[c] + 1
    IN  /\ t \in Actions
        /\ Advance(c, "loop", IF ListFor(c, t) = "none" THEN "govern" ELSE "loop")
        /\ task' = [task EXCEPT ![c] = t]
        /\ Put(c, t, ListFor(c, t))
        /\ UNCHANGED <<enabled, autoExecute, plan, filed, cycleHistories>>

\* evaluatePlaybookGuardrail, runGovernanceEngine and mergeGovernanceChecks: safe
\* or not.
Govern(c) ==
    /\ \/ Advance(c, "govern", "pipeline") /\ UNCHANGED outcome
       \/ Advance(c, "govern", "loop") /\ Put(c, task[c], "blocked")
    /\ UNCHANGED <<enabled, autoExecute, plan, task, filed, cycleHistories>>

RunPipeline(c) ==
    /\ Advance(c, "pipeline", "insight")
    /\ ranTasks' = ranTasks \cup {<<c, task[c]>>}
    /\ against' = IF wanted THEN against ELSE against \cup {c}
    /\ UNCHANGED <<enabled, autoExecute, plan, task, outcome, filed, wanted, forgot, excused, erased, restarts>>

CreateInsight(c) ==
    /\ Advance(c, "insight", "loop")
    /\ Put(c, task[c], "executed")
    /\ UNCHANGED <<enabled, autoExecute, plan, task, filed, cycleHistories>>

\* Mutant: the loop catches it and goes on to the next task.
CatchThrow(c) ==
    /\ cyclePc[c] \in Executing
    /\ Advance(c, cyclePc[c], "loop")
    /\ Put(c, task[c], "blocked")
    /\ UNCHANGED <<enabled, autoExecute, plan, task, filed, cycleHistories>>

\* Detectors, governance, pipeline or insight throw: nothing catches it before
\* runCycle has been left, and what the cycle did is recorded nowhere.
Throw(c) ==
    /\ cyclePc[c] \in Executing \cup {"detect"}
    /\ Advance(c, cyclePc[c], "failed")
    /\ UNCHANGED <<enabled, autoExecute, plan, task, outcome, filed, cycleHistories>>

FiledAs(list) ==
    CASE list = "pendingApproval" -> "PENDING"
      [] list = "queued" -> "QUEUED"
      [] list = "blocked" -> "BLOCKED"
      [] list = "executed" -> "COMPLETED"
      [] OTHER -> "none"

\* The end of the loop and of runCycle.
FileTasks(c) ==
    /\ task[c] + 1 \notin Actions
    /\ Advance(c, "loop", "done")
    /\ filed' = [filed EXCEPT ![c] = [t \in Actions |-> FiledAs(outcome[c][t])]]
    /\ UNCHANGED <<enabled, autoExecute, plan, task, outcome, cycleHistories>>

\* The process restarts: the maps are empty, the switch is on, and the cycles in
\* progress are gone.
RestartService ==
    /\ restarts < MaxRestarts
    /\ restarts' = restarts + 1
    /\ enabled' = TRUE /\ forgot' = (forgot \/ ~wanted)
    /\ filed' = [c \in Cycles |-> [t \in Actions |-> "none"]]
    /\ cyclePc' = [c \in Cycles |-> IF cyclePc[c] \in {"idle", "done"} THEN cyclePc[c] ELSE "failed"]
    /\ erased' = {c \in Cycles : cyclePc[c] # "idle"}
    /\ UNCHANGED <<autoExecute, plan, task, outcome, ranTasks, wanted, excused, against>>

--------------------------------------------------------------------------------
CycleStep(c) ==
    \/ \E option \in BOOLEAN : RunCycle(c, option)
    \/ PlanTasks(c) \/ Consider(c) \/ Govern(c) \/ RunPipeline(c) \/ CreateInsight(c)
    \/ Throw(c) \/ FileTasks(c)

CycleNext ==
    \/ \E v \in BOOLEAN : SetConfig(v)
    \/ \E c \in Cycles : CycleStep(c)
    \/ RestartService

CycleSpec == CycleInit /\ [][CycleNext]_cycleVars

--------------------------------------------------------------------------------
CycleTypeOK ==
    /\ enabled \in BOOLEAN /\ wanted \in BOOLEAN /\ forgot \in BOOLEAN
    /\ cyclePc \in [Cycles -> CyclePhases]
    /\ autoExecute \in [Cycles -> BOOLEAN]
    /\ plan \in [Cycles -> Plans]
    /\ task \in [Cycles -> Actions \cup {0}]
    /\ outcome \in [Cycles -> [Actions -> Outcomes]]
    /\ filed \in [Cycles -> [Actions -> Filed]]
    /\ ranTasks \subseteq Cycles \X Actions
    /\ excused \subseteq Cycles /\ against \subseteq Cycles /\ erased \subseteq Cycles
    /\ restarts \in 0..MaxRestarts

\* However cycles overlap and fail: a task whose pipeline ran is among the completed
\* ones once its cycle has ended, and no other is, unless the cycle threw or the
\* process was restarted; every task it depends on ran before it; and none ran that
\* needed an approval.
RunsAreRecorded ==
    \A c \in Cycles, t \in Actions :
        /\ cyclePc[c] = "done" /\ c \notin erased =>
              (filed[c][t] = "COMPLETED" <=> <<c, t>> \in ranTasks)
        /\ <<c, t>> \in ranTasks =>
              /\ t \notin plan[c].requiresApproval
              /\ \A d \in plan[c].dependencies[t] : <<c, d>> \in ranTasks

\* A pipeline runs although the operator has switched autonomy off only in a cycle
\* that began before that, or after a restart that switched it on again.
SwitchIsObeyed == against \subseteq excused
================================================================================
