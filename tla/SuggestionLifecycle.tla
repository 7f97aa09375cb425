--------------------------- MODULE SuggestionLifecycle ---------------------------
(***************************************************************************)
(* The life of an AI suggestion: one row, decided by people through two    *)
(* controllers (ai-suggestions and ai-brain/autonomy) and executed by the  *)
(* consumer of ai.suggestion.approved.  Each of them reads the row, then   *)
(* writes it by id, whatever has become of it in between.                  *)
(***************************************************************************)
EXTENDS Naturals

CONSTANTS
    Suggestions,    \* ids of AISuggestion rows
    Calls,          \* requests and deliveries of ai.suggestion.approved
    MaxRuns,        \* bound on the runs of one plan
    NoRow

ASSUME SuggestionsAssumption == MaxRuns \in Nat /\ NoRow \notin {"pending", "approved", "rejected", "executed", "failed"}

VARIABLES
    status,         \* of each suggestion
    executedAt,     \* whether it is set
    callPc,         \* the step each call takes next
    op,             \* what each call is
    ran,            \* history: times the plan has run to its end
    verdict,        \* history: what people decided last
    overlapped,     \* history: suggestions two deliveries worked on at once
    unmarked,       \* history: suggestions with a run whose mark was lost
    late,           \* history: suggestions rejected under a delivery
    overtaken,      \* history: calls whose row changed after they had read it
    overturned      \* history: task decisions written over a row no longer pending

histories == <<ran, verdict, overlapped, unmarked, late, overtaken, overturned>>
suggestionVars == <<status, executedAt, callPc, op, histories>>

Statuses == {"pending", "approved", "rejected", "executed", "failed"}
Kinds == {"approve", "reject", "approveTask", "rejectTask", "deliver"}
Ops == [kind : Kinds, id : Suggestions]
TaskKinds == {"approveTask", "rejectTask"}
Working == {"run", "mark", "markFailed"}
CallPhases == {"idle", "find", "update", "getStatus", "read", "done"} \cup Working

Id(x) == op[x].id
Deliveries(s) == {x \in Calls : op[x].kind = "deliver" /\ Id(x) = s}
Worked(s) == \E x \in Deliveries(s) : callPc[x] \in Working

SuggestionInit ==
    /\ status = [s \in Suggestions |-> NoRow]
    /\ executedAt = [s \in Suggestions |-> FALSE]
    /\ callPc = [x \in Calls |-> "idle"]
    /\ op \in [Calls -> Ops]
    /\ ran = [s \in Suggestions |-> 0]
    /\ verdict = [s \in Suggestions |-> "pending"]
    /\ overlapped = {} /\ unmarked = {} /\ late = {} /\ overtaken = {} /\ overturned = {}

Proceed(x, from, to) == callPc[x] = from /\ callPc' = [callPc EXCEPT ![x] = to]
RowsUnchanged == UNCHANGED <<status, executedAt>>

\* enqueue: a row is created pending.
Enqueue(s) ==
    /\ status[s] = NoRow
    /\ status' = [status EXCEPT ![s] = "pending"]
    /\ UNCHANGED <<executedAt, callPc, op, histories>>

Request(x) ==
    /\ Proceed(x, "idle", IF op[x].kind = "deliver" THEN "getStatus" ELSE "find")
    /\ RowsUnchanged /\ UNCHANGED <<op, histories>>

--------------------------------------------------------------------------------
(***************************************************************************)
(* Decisions                                                               *)
(***************************************************************************)
Findable(x) == IF op[x].kind \in TaskKinds THEN {"pending"} ELSE Statuses

\* listSuggestions by id, and the permission check; findAISuggestions by id and
\* status for tasks.
FindSuggestion(x) ==
    /\ \/ status[Id(x)] \in Findable(x) /\ Proceed(x, "find", "update")
       \/ Proceed(x, "find", "done")
    /\ RowsUnchanged /\ UNCHANGED <<op, histories>>

\* The calls that have read a row which x now changes.
Overtake(x) ==
    overtaken' = overtaken \cup {y \in Calls \ {x} : Id(y) = Id(x) /\ callPc[y] = "update"}

\* Mutant: the name of the request is written as the status.
DecidedAsAsked(x) == op[x].kind

Decided(x) == IF op[x].kind \in {"approve", "approveTask"} THEN "approved" ELSE "rejected"

\* updateSuggestion, updateAISuggestion: executedAt stays.
DecideSuggestion(x) ==
    LET s == Id(x)
    IN  /\ Proceed(x, "update", "done")
        /\ status' = [status EXCEPT ![s] = Decided(x)]
        /\ verdict' = [verdict EXCEPT ![s] = Decided(x)]
        /\ late' = IF Decided(x) = "rejected" /\ Worked(s) THEN late \cup {s} ELSE late \ {s}
        /\ overturned' = IF op[x].kind \in TaskKinds /\ status[s] # "pending"
                         THEN overturned \cup {x} ELSE overturned
        /\ Overtake(x)
        /\ UNCHANGED <<executedAt, op, ran, overlapped, unmarked>>

--------------------------------------------------------------------------------
(***************************************************************************)
(* registerAiSuggestionApprovedConsumer and executeApprovedSuggestion      *)
(***************************************************************************)
GetSuggestionStatus(x) ==
    /\ Proceed(x, "getStatus", IF status[Id(x)] \in {"executed", "failed"} THEN "done" ELSE "read")
    /\ RowsUnchanged /\ UNCHANGED <<op, histories>>

\* Mutants: executedAt, the status are not looked at.
ExecutableAgain(s) == status[s] = "approved"
ExecutableUnlessStamped(s) == status[s] # NoRow /\ ~executedAt[s]

Executable(s) == status[s] = "approved" /\ ~executedAt[s]

GetSuggestionById(x) ==
    LET s == Id(x)
    IN  /\ Proceed(x, "read", IF Executable(s) THEN "run" ELSE "done")
        /\ overlapped' = IF Executable(s) /\ Worked(s) THEN overlapped \cup {s} ELSE overlapped
        /\ RowsUnchanged
        /\ UNCHANGED <<op, ran, verdict, unmarked, late, overtaken, overturned>>

\* planRunner: it throws, or returns its output.
RunPlan(x) ==
    LET s == Id(x)
    IN  /\ \/ /\ ran[s] < MaxRuns
              /\ Proceed(x, "run", "mark")
              /\ ran' = [ran EXCEPT ![s] = @ + 1]
           \/ /\ Proceed(x, "run", "markFailed")
              /\ UNCHANGED ran
        /\ RowsUnchanged
        /\ UNCHANGED <<op, verdict, overlapped, unmarked, late, overtaken, overturned>>

Mark(x, new) ==
    /\ status' = [status EXCEPT ![Id(x)] = new]
    /\ Overtake(x)

MarkSuggestionExecuted(x) ==
    /\ Proceed(x, "mark", "done")
    /\ Mark(x, "executed")
    /\ executedAt' = [executedAt EXCEPT ![Id(x)] = TRUE]
    /\ UNCHANGED <<op, ran, verdict, overlapped, unmarked, late, overturned>>

\* The write is refused, or takes place and its answer is lost: the catch of
\* executeApprovedSuggestion follows.
LoseMark(x) ==
    /\ Proceed(x, "mark", "markFailed")
    /\ unmarked' = unmarked \cup {Id(x)}
    /\ \/ RowsUnchanged /\ UNCHANGED overtaken
       \/ Mark(x, "executed") /\ executedAt' = [executedAt EXCEPT ![Id(x)] = TRUE]
    /\ UNCHANGED <<op, ran, verdict, overlapped, late, overturned>>

MarkSuggestionFailed(x) ==
    /\ Proceed(x, "markFailed", "done")
    /\ Mark(x, "failed")
    /\ UNCHANGED <<executedAt, op, ran, verdict, overlapped, unmarked, late, overturned>>

\* A call to the database fails outside that catch, or the process dies.
Cut(x) ==
    /\ callPc[x] \notin {"idle", "done"}
    /\ callPc' = [callPc EXCEPT ![x] = "done"]
    /\ unmarked' = IF callPc[x] = "mark" THEN unmarked \cup {Id(x)} ELSE unmarked
    /\ RowsUnchanged
    /\ UNCHANGED <<op, ran, verdict, overlapped, late, overtaken, overturned>>

--------------------------------------------------------------------------------
Decision(x) == Request(x) \/ FindSuggestion(x) \/ DecideSuggestion(x)
Delivery(x) == GetSuggestionStatus(x) \/ GetSuggestionById(x) \/ RunPlan(x)
               \/ MarkSuggestionExecuted(x) \/ LoseMark(x) \/ MarkSuggestionFailed(x)

SuggestionNext ==
    \/ \E s \in Suggestions : Enqueue(s)
    \/ \E x \in Calls : Decision(x) \/ Delivery(x) \/ Cut(x)

SuggestionSpec == SuggestionInit /\ [][SuggestionNext]_suggestionVars

--------------------------------------------------------------------------------
SuggestionTypeOK ==
    /\ status \in [Suggestions -> Statuses \cup {NoRow}]
    /\ executedAt \in [Suggestions -> BOOLEAN]
    /\ callPc \in [Calls -> CallPhases]
    /\ op \in [Calls -> Ops]
    /\ ran \in [Suggestions -> 0..MaxRuns]
    /\ verdict \in [Suggestions -> {"pending", "approved", "rejected"}]
    /\ overlapped \subseteq Suggestions /\ unmarked \subseteq Suggestions
    /\ late \subseteq Suggestions
    /\ overtaken \subseteq Calls /\ overturned \subseteq Calls

\* However often ai.suggestion.approved is delivered and the suggestion decided
\* again, its plan runs to its end once: twice only if two deliveries worked on
\* it at once or the mark of a run was lost, and only then can a suggestion that
\* was executed be left failed.
ExecutedOnce ==
    \A s \in Suggestions \ (overlapped \cup unmarked) :
        /\ ran[s] <= 1
        /\ executedAt[s] => status[s] # "failed"

RejectionsStand ==
    \A s \in Suggestions \ late :
        verdict[s] = "rejected" =>
            /\ status[s] = "rejected"
            /\ ~Worked(s)

TaskDecisionsDoNotOverturn == overturned \subseteq overtaken

\* What people decide stands.  A rejected suggestion stays rejected and no delivery
\* is about to run its plan, unless one had already read the row when it was
\* rejected; and a decision on an autonomy task is written over another decision or
\* a result only if that was written between its own two calls to the database.
DecisionsStand == RejectionsStand /\ TaskDecisionsDoNotOverturn
================================================================================
