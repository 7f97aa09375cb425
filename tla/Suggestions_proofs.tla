--------------------------- MODULE Suggestions_proofs ---------------------------
(***************************************************************************)
(* What holds of the three ways in which what the AI suggests comes to be  *)
(* run: suggestions, for any number of them, of decisions and deliveries;  *)
(* autonomy cycles, for any number of them and plans of any length; and    *)
(* execution intents, for any number of them, any lifetime and any clock;  *)
(* and of the three side by side, as MCSuggestions puts them.              *)
(***************************************************************************)
EXTENDS MCSuggestions, SequenceTheorems, TLAPS

(***************************************************************************)
(* Suggestions                                                             *)
(***************************************************************************)
\* Only deliveries take the steps of a delivery, only decisions those of a decision.
KindsFit ==
    \A x \in Calls :
        /\ callPc[x] \in Working \cup {"getStatus", "read"} => op[x].kind = "deliver"
        /\ callPc[x] \in {"find", "update"} => op[x].kind # "deliver"

\* A suggestion has one delivery at work at most, and none once executedAt is set; a
\* run is followed by its mark.
Lone(s) ==
    /\ \A x, y \in Deliveries(s) : callPc[x] \in Working /\ callPc[y] \in Working => x = y
    /\ executedAt[s] => ~Worked(s) /\ status[s] # "failed"
    /\ ran[s] <= 1
    /\ ran[s] # 0 => executedAt[s] \/ \E x \in Deliveries(s) : callPc[x] = "mark"
WorkIsLone == \A s \in Suggestions \ (overlapped \cup unmarked) : Lone(s)

\* A decision on a task that nobody overtook still finds it pending.
TasksStayPending ==
    \A x \in Calls \ overtaken :
        callPc[x] = "update" /\ op[x].kind \in TaskKinds => status[Id(x)] = "pending"

SuggestionInv == /\ SuggestionTypeOK /\ KindsFit /\ WorkIsLone /\ RejectionsStand
                 /\ TasksStayPending /\ TaskDecisionsDoNotOverturn

--------------------------------------------------------------------------------
\* What a call is about.
LEMMA TypedCall ==
    ASSUME SuggestionTypeOK, NEW x \in Calls
    PROVE  Id(x) \in Suggestions /\ op[x].kind \in Kinds
BY DEF SuggestionTypeOK, Ops, Id

\* The invariant holds before the first call.
LEMMA SuggestionInitInv == SuggestionInit => SuggestionInv
<1> SUFFICES ASSUME SuggestionInit PROVE SuggestionInv
  OBVIOUS
<1>1. SuggestionTypeOK
  BY SuggestionsAssumption DEF SuggestionInit, SuggestionTypeOK, CallPhases
<1>2. KindsFit /\ TasksStayPending /\ TaskDecisionsDoNotOverturn
  BY DEF SuggestionInit, KindsFit, TasksStayPending, TaskDecisionsDoNotOverturn, Working
<1>3. WorkIsLone /\ RejectionsStand
  BY DEF SuggestionInit, WorkIsLone, Lone, RejectionsStand, Worked, Deliveries, Working
<1> QED BY <1>1, <1>2, <1>3 DEF SuggestionInv

--------------------------------------------------------------------------------
\* A call moves to a phase in which it is not at work; no row and no history changes,
\* but for the note of a lost mark.
LEMMA QuietStep ==
    ASSUME SuggestionInv, NEW x \in Calls, NEW phase \in CallPhases \ Working,
           callPc[x] # "idle" \/ phase \in {"getStatus", "find"},
           callPc' = [callPc EXCEPT ![x] = phase],
           phase \in {"getStatus", "read"} => op[x].kind = "deliver",
           phase \in {"find", "update"} => op[x].kind # "deliver",
           phase = "update" /\ op[x].kind \in TaskKinds => status[Id(x)] = "pending",
           unmarked' = IF callPc[x] = "mark" THEN unmarked \cup {Id(x)} ELSE unmarked,
           UNCHANGED <<status, executedAt, op, ran, verdict, overlapped, late, overtaken, overturned>>
    PROVE  SuggestionInv'
<1> USE DEF SuggestionInv
<1>0. Id(x) \in Suggestions /\ \A y \in Calls : Id(y)' = Id(y)
  BY TypedCall DEF Id
<1>1. SuggestionTypeOK'
  BY <1>0 DEF SuggestionTypeOK
<1>2. KindsFit'
  BY DEF KindsFit, SuggestionTypeOK, Working
<1>3. \A y \in Calls : callPc'[y] \in Working => y # x /\ callPc'[y] = callPc[y]
  BY DEF SuggestionTypeOK
<1>4. \A s \in Suggestions : Deliveries(s)' = Deliveries(s) /\ (Worked(s)' => Worked(s))
  BY <1>0, <1>3 DEF Deliveries, Worked
<1>5. WorkIsLone'
  <2> SUFFICES ASSUME NEW s \in Suggestions, s \notin overlapped', s \notin unmarked'
               PROVE  Lone(s)'
    BY DEF WorkIsLone
  <2>1. Lone(s)
    BY DEF WorkIsLone
  <2>2. ASSUME NEW y \in Deliveries(s), callPc[y] = "mark"
        PROVE  callPc'[y] = "mark"
    BY <2>2 DEF Deliveries, SuggestionTypeOK
  <2>3. \A y, z \in Deliveries(s)' : callPc'[y] \in Working /\ callPc'[z] \in Working => y = z
    BY <2>1, <1>3, <1>4 DEF Lone, Deliveries
  <2> QED BY <2>1, <2>2, <2>3, <1>4 DEF Lone
<1>6. RejectionsStand'
  BY <1>4 DEF RejectionsStand
<1>7. TasksStayPending'
  BY <1>0 DEF TasksStayPending, SuggestionTypeOK
<1>8. TaskDecisionsDoNotOverturn'
  BY DEF TaskDecisionsDoNotOverturn
<1> QED BY <1>1, <1>2, <1>5, <1>6, <1>7, <1>8

\* A new suggestion is pending, and nothing has been decided about it.
LEMMA EnqueueStep ==
    ASSUME SuggestionInv, NEW s \in Suggestions, Enqueue(s)
    PROVE  SuggestionInv'
<1> USE DEF SuggestionInv, Enqueue, histories
<1>1. SuggestionTypeOK' /\ KindsFit' /\ TaskDecisionsDoNotOverturn'
  BY DEF SuggestionTypeOK, KindsFit, TaskDecisionsDoNotOverturn, Statuses
<1>2. \A t \in Suggestions : Deliveries(t)' = Deliveries(t) /\ Worked(t)' = Worked(t)
  BY DEF Deliveries, Worked, Id
<1>3. WorkIsLone'
  BY <1>2 DEF WorkIsLone, Lone, SuggestionTypeOK
<1>4. RejectionsStand'
  BY <1>2, SuggestionsAssumption DEF RejectionsStand, SuggestionTypeOK
<1>5. TasksStayPending'
  BY TypedCall DEF TasksStayPending, Id, SuggestionTypeOK
<1> QED BY <1>1, <1>3, <1>4, <1>5

\* What is overtaken is noted.
LEMMA OvertakeIsNoted ==
    ASSUME SuggestionTypeOK, NEW x \in Calls, Overtake(x),
           NEW y \in Calls \ {x}, Id(y) = Id(x), callPc[y] = "update"
    PROVE  y \in overtaken'
BY DEF Overtake

\* A decision is taken on the row as it was read.
LEMMA DecideStep ==
    ASSUME SuggestionInv, NEW x \in Calls, DecideSuggestion(x)
    PROVE  SuggestionInv'
<1> USE DEF SuggestionInv
<1> DEFINE s == Id(x)
<1>0. /\ s \in Suggestions /\ \A y \in Calls : Id(y)' = Id(y)
      /\ callPc[x] = "update" /\ callPc' = [callPc EXCEPT ![x] = "done"]
      /\ Decided(x) \in {"approved", "rejected"}
      /\ UNCHANGED <<executedAt, op, ran, overlapped, unmarked>>
  BY TypedCall DEF Id, DecideSuggestion, Proceed, Decided
<1>1. SuggestionTypeOK'
  <2>1. overtaken' \subseteq Calls /\ overturned' \subseteq Calls /\ late' \subseteq Suggestions
    BY <1>0 DEF DecideSuggestion, Overtake, SuggestionTypeOK
  <2> QED BY <1>0, <2>1 DEF DecideSuggestion, SuggestionTypeOK, Statuses, CallPhases
<1>2. KindsFit'
  BY <1>0 DEF KindsFit, SuggestionTypeOK, Working
<1>3. \A t \in Suggestions : Deliveries(t)' = Deliveries(t) /\ Worked(t)' = Worked(t)
  BY <1>0 DEF Deliveries, Worked, Id, SuggestionTypeOK, Working
<1>4. WorkIsLone'
  <2> SUFFICES ASSUME NEW t \in Suggestions, t \notin overlapped, t \notin unmarked
               PROVE  Lone(t)'
    BY <1>0 DEF WorkIsLone
  <2>1. Lone(t)
    BY DEF WorkIsLone
  <2>2. status'[t] = "failed" => status[t] = "failed"
    BY <1>0 DEF DecideSuggestion, SuggestionTypeOK
  <2>3. \A y \in Deliveries(t) : (callPc'[y] \in Working => callPc[y] \in Working)
                               /\ (callPc[y] = "mark" => callPc'[y] = "mark")
    BY <1>0 DEF Deliveries, SuggestionTypeOK, Working
  <2> QED BY <1>0, <1>3, <2>1, <2>2, <2>3 DEF Lone
<1>5. RejectionsStand'
  BY <1>0, <1>3 DEF DecideSuggestion, RejectionsStand, SuggestionTypeOK
<1>6. TasksStayPending'
  <2> SUFFICES ASSUME NEW y \in Calls, y \notin overtaken', callPc'[y] = "update",
                      op[y].kind \in TaskKinds
               PROVE  status'[Id(y)] = "pending"
    BY <1>0 DEF TasksStayPending
  <2>1. y # x /\ callPc[y] = "update" /\ y \notin overtaken
    BY <1>0 DEF SuggestionTypeOK, DecideSuggestion, Overtake
  <2>2. Id(y) # s
    BY <2>1, OvertakeIsNoted DEF DecideSuggestion
  <2> QED BY <2>1, <2>2, TypedCall DEF TasksStayPending, DecideSuggestion, SuggestionTypeOK
<1>7. TaskDecisionsDoNotOverturn'
  <2>1. overtaken \subseteq overtaken'
    BY DEF DecideSuggestion, Overtake
  <2> QED BY <2>1, <1>0 DEF TaskDecisionsDoNotOverturn, TasksStayPending, DecideSuggestion
<1> QED BY <1>1, <1>2, <1>4, <1>5, <1>6, <1>7

\* A delivery begins its work: on a suggestion another works on, that is noted.
LEMMA ReadStep ==
    ASSUME SuggestionInv, NEW x \in Calls, GetSuggestionById(x), Executable(Id(x))
    PROVE  SuggestionInv'
<1> USE DEF SuggestionInv
<1> DEFINE s == Id(x)
<1>0. /\ s \in Suggestions /\ \A y \in Calls : Id(y)' = Id(y)
      /\ callPc[x] = "read" /\ callPc' = [callPc EXCEPT ![x] = "run"]
      /\ op[x].kind = "deliver"
      /\ UNCHANGED <<status, executedAt, op, ran, verdict, unmarked, late, overtaken, overturned>>
      /\ overlapped' = IF Worked(s) THEN overlapped \cup {s} ELSE overlapped
  BY TypedCall DEF Id, GetSuggestionById, Proceed, KindsFit, RowsUnchanged
<1>1. SuggestionTypeOK'
  BY <1>0 DEF SuggestionTypeOK, CallPhases, Working
<1>2. KindsFit'
  BY <1>0 DEF KindsFit, SuggestionTypeOK, Working
<1>3. \A t \in Suggestions : Deliveries(t)' = Deliveries(t)
  BY <1>0 DEF Deliveries
<1>4. \A y \in Calls : y # x => callPc'[y] = callPc[y]
  BY <1>0 DEF SuggestionTypeOK
<1>5. \A t \in Suggestions : t # s => (Worked(t)' => Worked(t))
  BY <1>0, <1>3, <1>4 DEF Worked, Deliveries
<1>6. WorkIsLone'
  <2> SUFFICES ASSUME NEW t \in Suggestions, t \notin overlapped', t \notin unmarked
               PROVE  Lone(t)'
    BY <1>0 DEF WorkIsLone
  <2>1. Lone(t)
    BY <1>0 DEF WorkIsLone
  <2>2. ASSUME NEW y \in Deliveries(t), callPc[y] = "mark"
        PROVE  callPc'[y] = "mark"
    BY <2>2, <1>0, <1>4 DEF Deliveries
  <2>3. CASE t # s
    <3>1. \A y \in Deliveries(t) : callPc'[y] = callPc[y]
      BY <2>3, <1>4 DEF Deliveries
    <3> QED BY <1>0, <1>3, <1>5, <2>1, <2>2, <2>3, <3>1 DEF Lone
  <2>4. CASE t = s
    <3>1. ~Worked(s) /\ ~executedAt[s]
      BY <1>0, <2>4 DEF Executable
    <3>2. \A y \in Deliveries(s) : callPc'[y] \in Working => y = x
      BY <3>1, <1>4 DEF Worked, Deliveries
    <3> QED BY <1>0, <1>3, <2>1, <2>2, <2>4, <3>1, <3>2 DEF Lone
  <2> QED BY <2>3, <2>4
<1>7. RejectionsStand'
  BY <1>0, <1>5 DEF RejectionsStand, Executable
<1>8. TasksStayPending' /\ TaskDecisionsDoNotOverturn'
  BY <1>0, <1>4 DEF TasksStayPending, TaskDecisionsDoNotOverturn
<1> QED BY <1>1, <1>2, <1>6, <1>7, <1>8

\* A delivery at work goes on to another step of its work: only a run, whose mark
\* follows, or a mark that was lost, and noted, changes anything.
LEMMA GoOnStep ==
    ASSUME SuggestionInv, NEW x \in Calls, RunPlan(x)
    PROVE  SuggestionInv'
<1> USE DEF SuggestionInv
<1> DEFINE s == Id(x)
<1>0. /\ s \in Suggestions /\ \A y \in Calls : Id(y)' = Id(y)
      /\ callPc[x] = "run" /\ x \in Deliveries(s)
      /\ UNCHANGED <<status, executedAt, op, verdict, overlapped, unmarked, late, overtaken, overturned>>
  BY TypedCall DEF Id, RunPlan, Proceed, KindsFit, RowsUnchanged, Deliveries, Working
<1>1. \/ /\ callPc' = [callPc EXCEPT ![x] = "mark"]
         /\ ran[s] < MaxRuns /\ ran' = [ran EXCEPT ![s] = @ + 1]
      \/ callPc' = [callPc EXCEPT ![x] = "markFailed"] /\ UNCHANGED ran
  BY DEF RunPlan, Proceed
<1>2. SuggestionTypeOK'
  BY <1>0, <1>1, SuggestionsAssumption DEF SuggestionTypeOK, CallPhases, Working
<1>3. KindsFit'
  BY <1>0, <1>1 DEF KindsFit, SuggestionTypeOK, Working, Deliveries
<1>4. \A y \in Calls : y # x => callPc'[y] = callPc[y]
  BY <1>1 DEF SuggestionTypeOK
<1>5. callPc[x] \in Working /\ callPc'[x] \in Working
  BY <1>0, <1>1 DEF Working, SuggestionTypeOK
<1>6. \A t \in Suggestions : Deliveries(t)' = Deliveries(t) /\ Worked(t)' = Worked(t)
  BY <1>0, <1>4, <1>5 DEF Deliveries, Worked
<1>7. WorkIsLone'
  <2> SUFFICES ASSUME NEW t \in Suggestions, t \notin overlapped, t \notin unmarked
               PROVE  Lone(t)'
    BY <1>0 DEF WorkIsLone
  <2>1. Lone(t)
    BY DEF WorkIsLone
  <2>2. \A y, z \in Deliveries(t) : callPc'[y] \in Working /\ callPc'[z] \in Working => y = z
    BY <2>1, <1>4, <1>5 DEF Lone, Deliveries
  <2>3. CASE t # s
    <3>1. \A y \in Deliveries(t) : callPc'[y] = callPc[y]
      BY <2>3, <1>4 DEF Deliveries
    <3>2. ran'[t] = ran[t]
      BY <1>1, <2>3 DEF SuggestionTypeOK
    <3> QED BY <1>0, <1>6, <2>1, <2>2, <3>1, <3>2 DEF Lone
  <2>4. CASE t = s
    <3>1. ran[s] = 0
      <4>1. ~executedAt[s]
        BY <2>1, <2>4, <1>0, <1>5 DEF Lone, Worked
      <4>2. \A y \in Deliveries(s) : callPc[y] # "mark"
        BY <2>1, <2>4, <1>0 DEF Lone, Working
      <4> QED BY <2>1, <2>4, <4>1, <4>2 DEF Lone
    <3>2. ran'[s] <= 1 /\ (ran'[s] # 0 => callPc'[x] = "mark")
      BY <1>0, <1>1, <3>1 DEF SuggestionTypeOK
    <3> QED BY <1>0, <1>6, <2>1, <2>2, <2>4, <3>2 DEF Lone
  <2> QED BY <2>3, <2>4
<1>8. RejectionsStand'
  BY <1>0, <1>6 DEF RejectionsStand
<1>9. TasksStayPending' /\ TaskDecisionsDoNotOverturn'
  BY <1>0, <1>4, <1>5 DEF TasksStayPending, TaskDecisionsDoNotOverturn, Working
<1> QED BY <1>2, <1>3, <1>7, <1>8, <1>9

\* A delivery at work writes the row, marks it executed or failed, or loses its mark.
LEMMA MarkStep ==
    ASSUME SuggestionInv, NEW x \in Calls,
           MarkSuggestionExecuted(x) \/ LoseMark(x) \/ MarkSuggestionFailed(x)
    PROVE  SuggestionInv'
<1> USE DEF SuggestionInv
<1> DEFINE s == Id(x)
<1>0. /\ s \in Suggestions /\ \A y \in Calls : Id(y)' = Id(y)
      /\ callPc[x] \in {"mark", "markFailed"} /\ callPc[x] \in Working /\ x \in Deliveries(s)
      /\ UNCHANGED <<op, ran, verdict, overlapped, late, overturned>>
      /\ Worked(s)
  BY TypedCall DEF Id, MarkSuggestionExecuted, LoseMark, MarkSuggestionFailed, Proceed, KindsFit,
                   Deliveries, Working, Worked
<1>1. /\ status' \in {status, [status EXCEPT ![s] = "executed"], [status EXCEPT ![s] = "failed"]}
      /\ executedAt' \in {executedAt, [executedAt EXCEPT ![s] = TRUE]}
      /\ callPc' \in {[callPc EXCEPT ![x] = "done"], [callPc EXCEPT ![x] = "markFailed"]}
      /\ unmarked' \in {unmarked, unmarked \cup {s}}
      /\ (UNCHANGED status /\ UNCHANGED overtaken) \/ Overtake(x)
  BY DEF MarkSuggestionExecuted, LoseMark, MarkSuggestionFailed, Proceed, Mark, RowsUnchanged
<1>2. /\ overtaken \subseteq overtaken' /\ overtaken' \subseteq Calls
      /\ \A y \in Calls : y # x => callPc'[y] = callPc[y]
      /\ callPc'[x] \in {"done", "markFailed"}
      /\ \A t \in Suggestions : t # s => status'[t] = status[t] /\ executedAt'[t] = executedAt[t]
  BY <1>0, <1>1 DEF Overtake, SuggestionTypeOK
<1>3. SuggestionTypeOK'
  BY <1>0, <1>1, <1>2 DEF SuggestionTypeOK, CallPhases, Working, Statuses
<1>4. KindsFit'
  BY <1>0, <1>2 DEF KindsFit, Working, Deliveries
<1>5. \A t \in Suggestions : Deliveries(t)' = Deliveries(t) /\ (Worked(t)' => Worked(t))
  BY <1>0, <1>2 DEF Deliveries, Worked
<1>6. WorkIsLone'
  <2> SUFFICES ASSUME NEW t \in Suggestions, t \notin overlapped, t \notin unmarked'
               PROVE  Lone(t)'
    BY <1>0 DEF WorkIsLone
  <2>1. Lone(t)
    BY <1>1 DEF WorkIsLone
  <2>2. \A y, z \in Deliveries(t) : callPc'[y] \in Working /\ callPc'[z] \in Working => y = z
    BY <2>1, <1>0, <1>2 DEF Lone, Deliveries
  <2>3. CASE t # s
    <3>1. \A y \in Deliveries(t) : callPc'[y] = callPc[y]
      BY <2>3, <1>0, <1>2 DEF Deliveries
    <3> QED BY <1>0, <1>2, <1>5, <2>1, <2>2, <2>3, <3>1 DEF Lone
  <2>4. CASE t = s
    <3>1. ~executedAt[s]
      BY <1>0, <2>1, <2>4 DEF Lone
    <3>2. CASE MarkSuggestionExecuted(x)
      <4>1. executedAt'[s] /\ status'[s] = "executed" /\ callPc'[x] = "done"
        BY <1>0, <3>2 DEF MarkSuggestionExecuted, Mark, Proceed, SuggestionTypeOK
      <4>2. ~Worked(s)'
        BY <1>0, <1>2, <1>5, <2>1, <2>4, <4>1 DEF Lone, Worked, Working, Deliveries
      <4> QED BY <1>0, <1>5, <2>1, <2>2, <2>4, <4>1, <4>2 DEF Lone
    <3>3. CASE MarkSuggestionFailed(x)
      <4>1. executedAt' = executedAt /\ callPc[x] = "markFailed"
        BY <3>3 DEF MarkSuggestionFailed, Proceed
      <4>2. ran[s] = 0
        BY <1>0, <2>1, <2>4, <3>1, <4>1 DEF Lone, Working
      <4> QED BY <1>0, <1>5, <2>1, <2>2, <2>4, <3>1, <4>1, <4>2 DEF Lone
    <3>4. ~LoseMark(x)
      BY <2>4 DEF LoseMark
    <3> QED BY <3>2, <3>3, <3>4
  <2> QED BY <2>3, <2>4
<1>7. RejectionsStand'
  <2> SUFFICES ASSUME NEW t \in Suggestions, t \notin late, verdict[t] = "rejected"
               PROVE  status'[t] = "rejected" /\ ~Worked(t)'
    BY <1>0 DEF RejectionsStand
  <2>1. status[t] = "rejected" /\ ~Worked(t)
    BY DEF RejectionsStand
  <2>2. t # s
    BY <1>0, <2>1
  <2> QED BY <1>2, <1>5, <2>1, <2>2
<1>8. TasksStayPending'
  <2> SUFFICES ASSUME NEW y \in Calls, y \notin overtaken', callPc'[y] = "update",
                      op[y].kind \in TaskKinds
               PROVE  status'[Id(y)] = "pending"
    BY <1>0 DEF TasksStayPending
  <2>1. y # x /\ callPc[y] = "update" /\ y \notin overtaken
    BY <1>2
  <2>2. status[Id(y)] = "pending"
    BY <2>1 DEF TasksStayPending
  <2>3. Id(y) # s \/ status' = status
    BY <1>1, <2>1, OvertakeIsNoted
  <2> QED BY <1>2, <2>1, <2>2, <2>3, TypedCall
<1>9. TaskDecisionsDoNotOverturn'
  BY <1>0, <1>2 DEF TaskDecisionsDoNotOverturn
<1> QED BY <1>3, <1>4, <1>6, <1>7, <1>8, <1>9

--------------------------------------------------------------------------------
\* Every step keeps the invariant of the suggestions.
LEMMA SuggestionNextInv ==
    ASSUME SuggestionInv, [SuggestionNext]_suggestionVars
    PROVE  SuggestionInv'
<1>1. CASE UNCHANGED suggestionVars
  <2>1. /\ status' = status /\ executedAt' = executedAt /\ callPc' = callPc /\ op' = op
        /\ ran' = ran /\ verdict' = verdict /\ overlapped' = overlapped /\ unmarked' = unmarked
        /\ late' = late /\ overtaken' = overtaken /\ overturned' = overturned
    BY <1>1 DEF suggestionVars, histories
  <2>2. \A s : Worked(s)' = Worked(s) /\ Deliveries(s)' = Deliveries(s)
    BY <2>1 DEF Worked, Deliveries, Id
  <2>3. (WorkIsLone /\ RejectionsStand)'
    BY <2>1, <2>2 DEF SuggestionInv, WorkIsLone, Lone, RejectionsStand
  <2>4. (SuggestionTypeOK /\ KindsFit /\ TasksStayPending /\ TaskDecisionsDoNotOverturn)'
    BY <2>1 DEF SuggestionInv, SuggestionTypeOK, KindsFit, TasksStayPending,
                TaskDecisionsDoNotOverturn, Id
  <2> QED BY <2>3, <2>4 DEF SuggestionInv
<1>2. ASSUME NEW s \in Suggestions, Enqueue(s) PROVE SuggestionInv'
  BY <1>2, EnqueueStep
<1>3. ASSUME NEW x \in Calls, Request(x) PROVE SuggestionInv'
  BY <1>3, QuietStep DEF Request, Proceed, RowsUnchanged, histories, CallPhases, Working
<1>4. ASSUME NEW x \in Calls, FindSuggestion(x) PROVE SuggestionInv'
  <2>1. op[x].kind # "deliver"
    BY <1>4 DEF FindSuggestion, Proceed, SuggestionInv, KindsFit
  <2> QED BY <1>4, <2>1, QuietStep
          DEF FindSuggestion, Findable, Proceed, RowsUnchanged, histories, CallPhases, Working
<1>5. ASSUME NEW x \in Calls, DecideSuggestion(x) PROVE SuggestionInv'
  BY <1>5, DecideStep
<1>6. ASSUME NEW x \in Calls, GetSuggestionStatus(x) PROVE SuggestionInv'
  <2>1. op[x].kind = "deliver"
    BY <1>6 DEF GetSuggestionStatus, Proceed, SuggestionInv, KindsFit
  <2> QED BY <1>6, <2>1, QuietStep
          DEF GetSuggestionStatus, Proceed, RowsUnchanged, histories, CallPhases, Working
<1>7. ASSUME NEW x \in Calls, GetSuggestionById(x) PROVE SuggestionInv'
  <2>1. CASE Executable(Id(x))
    BY <1>7, <2>1, ReadStep
  <2>2. CASE ~Executable(Id(x))
    BY <1>7, <2>2, QuietStep DEF GetSuggestionById, Proceed, RowsUnchanged, CallPhases, Working
  <2> QED BY <2>1, <2>2
<1>8. ASSUME NEW x \in Calls, RunPlan(x) PROVE SuggestionInv'
  BY <1>8, GoOnStep
<1>9. ASSUME NEW x \in Calls, MarkSuggestionExecuted(x) \/ LoseMark(x) \/ MarkSuggestionFailed(x)
      PROVE  SuggestionInv'
  BY <1>9, MarkStep
<1>10. ASSUME NEW x \in Calls, Cut(x) PROVE SuggestionInv'
  BY <1>10, QuietStep DEF Cut, RowsUnchanged, CallPhases, Working
<1> QED BY <1>1, <1>2, <1>3, <1>4, <1>5, <1>6, <1>7, <1>8, <1>9, <1>10
        DEF SuggestionNext, Decision, Delivery

\* It holds at all times.
LEMMA SuggestionInvariance == SuggestionSpec => []SuggestionInv
BY SuggestionInitInv, SuggestionNextInv, PTL DEF SuggestionSpec

\* Every variable keeps its type, whatever the number of suggestions and calls.
THEOREM SuggestionTypes == SuggestionSpec => []SuggestionTypeOK
BY SuggestionInvariance, PTL DEF SuggestionInv

\* A plan runs to its end twice only where two deliveries overlapped or a mark was lost.
THEOREM RunsOnce == SuggestionSpec => []ExecutedOnce
<1>1. SuggestionInv => ExecutedOnce
  BY DEF SuggestionInv, WorkIsLone, Lone, ExecutedOnce
<1> QED BY <1>1, SuggestionInvariance, PTL

\* A rejection stands unless a delivery was already at work, and a decision on a task
\* overwrites only what came between its read and its write.
THEOREM PeopleDecide == SuggestionSpec => []DecisionsStand
<1>1. SuggestionInv => DecisionsStand
  BY DEF SuggestionInv, DecisionsStand
<1> QED BY <1>1, SuggestionInvariance, PTL

--------------------------------------------------------------------------------
(***************************************************************************)
(* Autonomy cycles                                                         *)
(***************************************************************************)
\* The switch is on only if the operator left it so, or a restart did.
SwitchFollows == enabled => wanted \/ forgot

\* Who runs a pipeline was told to, while that was wanted or forgotten.
RunnersWereTold ==
    \A c \in Cycles : /\ autoExecute[c] => c \in excused
                      /\ cyclePc[c] \in Executing => autoExecute[c]

\* A task that is being run needed no approval and waits for nothing.
RunsAreDue ==
    \A c \in Cycles : cyclePc[c] \in Executing =>
        /\ task[c] \in Actions /\ task[c] \notin plan[c].requiresApproval
        /\ \A d \in plan[c].dependencies[task[c]] : outcome[c][d] = "executed"
        /\ <<c, task[c]>> \in ranTasks <=> cyclePc[c] = "insight"

\* What a cycle calls executed has run; what has run is called so, but for the last
\* task while its insight is due.
RunsAreKnown ==
    \A c \in Cycles, t \in Actions :
        /\ outcome[c][t] = "executed" => <<c, t>> \in ranTasks
        /\ <<c, t>> \in ranTasks =>
              /\ cyclePc[c] \notin {"idle", "detect"} /\ t <= task[c]
              /\ outcome[c][t] = "executed" \/ (t = task[c] /\ cyclePc[c] \in {"insight", "failed"})

\* What a cycle has filed is what its lists held.
FilesAreLists ==
    \A c \in Cycles \ erased, t \in Actions :
        cyclePc[c] = "done" => filed[c][t] = FiledAs(outcome[c][t])

\* What runs has what it depends on behind it.
RunsAreOrdered ==
    \A c \in Cycles, t \in Actions : <<c, t>> \in ranTasks =>
        /\ t \notin plan[c].requiresApproval
        /\ \A d \in plan[c].dependencies[t] : <<c, d>> \in ranTasks

CycleInv == /\ CycleTypeOK /\ SwitchFollows /\ RunnersWereTold /\ SwitchIsObeyed
            /\ RunsAreDue /\ RunsAreKnown /\ FilesAreLists /\ RunsAreOrdered

--------------------------------------------------------------------------------
\* The fields of a plan: an action depends on earlier ones.
LEMMA PlanFields ==
    ASSUME NEW p \in Plans
    PROVE  /\ p.requiresApproval \in SUBSET Actions
           /\ \A t \in Actions : p.dependencies[t] \in SUBSET Actions
           /\ \A t \in Actions : \A d \in p.dependencies[t] : d \in Actions /\ d < t
<1>1. p.dependencies \in [Actions -> SUBSET Actions] /\ p.requiresApproval \in SUBSET Actions
  BY DEF Plans
<1> QED BY <1>1 DEF Plans

\* The invariant of the cycles holds before one runs.
LEMMA CycleInitInv == CycleInit => CycleInv
<1> SUFFICES ASSUME CycleInit PROVE CycleInv
  OBVIOUS
<1>1. NoPlan \in Plans
  BY DEF NoPlan, Plans
<1>2. CycleTypeOK
  <2>1. plan \in [Cycles -> Plans] /\ restarts \in 0..MaxRestarts
    BY <1>1, ActionsAssumption DEF CycleInit
  <2>2. outcome \in [Cycles -> [Actions -> Outcomes]] /\ filed \in [Cycles -> [Actions -> Filed]]
    BY DEF CycleInit, Outcomes, Filed
  <2>3. cyclePc \in [Cycles -> CyclePhases] /\ task \in [Cycles -> Actions \cup {0}]
    BY DEF CycleInit, CyclePhases
  <2> QED BY <2>1, <2>2, <2>3 DEF CycleInit, CycleTypeOK
<1>3. SwitchFollows /\ RunnersWereTold /\ SwitchIsObeyed /\ RunsAreDue
  BY DEF CycleInit, SwitchFollows, RunnersWereTold, SwitchIsObeyed, RunsAreDue, Executing
<1>4. RunsAreKnown /\ FilesAreLists /\ RunsAreOrdered
  BY DEF CycleInit, RunsAreKnown, FilesAreLists, RunsAreOrdered
<1> QED BY <1>2, <1>3, <1>4 DEF CycleInv

\* The positions of a plan are told by number.
LEMMA Positions ==
    ASSUME CycleTypeOK, NEW c \in Cycles
    PROVE  task[c] \in Nat /\ task[c] + 1 \in Nat /\ \A t \in Actions : t \in Nat
BY ActionsAssumption DEF CycleTypeOK

\* Putting a task in a list.
LEMMA Puts ==
    ASSUME CycleTypeOK, NEW c \in Cycles, NEW t \in Actions, NEW list \in Outcomes, Put(c, t, list)
    PROVE  /\ outcome' \in [Cycles -> [Actions -> Outcomes]]
           /\ outcome'[c][t] = list
           /\ \A b \in Cycles, u \in Actions : <<b, u>> # <<c, t>> => outcome'[b][u] = outcome[b][u]
BY DEF CycleTypeOK, Put

--------------------------------------------------------------------------------
\* The steps of a cycle keep the types.
LEMMA CycleTypeStep ==
    ASSUME CycleInv, NEW c \in Cycles, CycleStep(c)
    PROVE  CycleTypeOK'
<1> USE DEF CycleInv
<1>1. CASE \E option \in BOOLEAN : RunCycle(c, option)
  <2>1. PICK option \in BOOLEAN : RunCycle(c, option)
    BY <1>1
  <2>2. (enabled /\ option) \in BOOLEAN
    OBVIOUS
  <2>3. autoExecute' \in [Cycles -> BOOLEAN]
    BY <2>1, <2>2 DEF RunCycle, CycleTypeOK
  <2>4. excused' \subseteq Cycles
    BY <2>1 DEF RunCycle, CycleTypeOK
  <2>5. cyclePc' \in [Cycles -> CyclePhases]
    BY <2>1 DEF RunCycle, CycleTypeOK, Advance, CyclePhases
  <2> QED BY <2>1, <2>3, <2>4, <2>5 DEF RunCycle, CycleTypeOK
<1>2. CASE PlanTasks(c)
  BY <1>2 DEF PlanTasks, CycleTypeOK, Advance, CyclePhases, cycleHistories
<1>3. CASE Consider(c)
  <2>1. task[c] + 1 \in Actions /\ ListFor(c, task[c] + 1) \in Outcomes
    BY <1>3 DEF Consider, ListFor, Outcomes
  <2>2. outcome' \in [Cycles -> [Actions -> Outcomes]]
    BY <1>3, <2>1, Puts DEF Consider
  <2>3. cyclePc' \in [Cycles -> CyclePhases]
    BY <1>3 DEF Consider, CycleTypeOK, Advance, CyclePhases, Executing
  <2> QED BY <1>3, <2>1, <2>2, <2>3 DEF Consider, CycleTypeOK, cycleHistories
<1>4. CASE Govern(c)
  <2>1. task[c] \in Actions
    BY <1>4 DEF Govern, Advance, RunsAreDue, Executing
  <2>2. outcome' \in [Cycles -> [Actions -> Outcomes]]
    BY <1>4, <2>1, Puts DEF Govern, Outcomes, CycleTypeOK
  <2>3. cyclePc' \in [Cycles -> CyclePhases]
    BY <1>4 DEF Govern, CycleTypeOK, Advance, CyclePhases, Executing
  <2> QED BY <1>4, <2>2, <2>3 DEF Govern, CycleTypeOK, cycleHistories
<1>5. CASE RunPipeline(c)
  <2>1. task[c] \in Actions
    BY <1>5 DEF RunPipeline, Advance, RunsAreDue, Executing
  <2> QED BY <1>5, <2>1 DEF RunPipeline, CycleTypeOK, Advance, CyclePhases, Executing
<1>6. CASE CreateInsight(c)
  <2>1. task[c] \in Actions
    BY <1>6 DEF CreateInsight, Advance, RunsAreDue, Executing
  <2>2. outcome' \in [Cycles -> [Actions -> Outcomes]]
    BY <1>6, <2>1, Puts DEF CreateInsight, Outcomes
  <2> QED BY <1>6, <2>2 DEF CreateInsight, CycleTypeOK, Advance, CyclePhases, cycleHistories
<1>7. CASE Throw(c)
  BY <1>7 DEF Throw, CycleTypeOK, Advance, CyclePhases, cycleHistories
<1>8. CASE FileTasks(c)
  <2>1. [t \in Actions |-> FiledAs(outcome[c][t])] \in [Actions -> Filed]
    BY DEF FiledAs, Filed
  <2> QED BY <1>8, <2>1 DEF FileTasks, CycleTypeOK, Advance, CyclePhases, cycleHistories
<1> QED BY <1>1, <1>2, <1>3, <1>4, <1>5, <1>6, <1>7, <1>8 DEF CycleStep

--------------------------------------------------------------------------------
\* The switch, and the cycles that were told to run.
LEMMA SwitchStep ==
    ASSUME CycleInv, NEW c \in Cycles, CycleStep(c)
    PROVE  SwitchFollows' /\ RunnersWereTold' /\ SwitchIsObeyed'
<1> USE DEF CycleInv
<1>1. CASE \E option \in BOOLEAN : RunCycle(c, option)
  <2>1. PICK option \in BOOLEAN : RunCycle(c, option)
    BY <1>1
  <2>2. autoExecute'[c] => c \in excused'
    BY <2>1 DEF RunCycle, CycleTypeOK, SwitchFollows
  <2>3. /\ \A b \in Cycles \ {c} : autoExecute'[b] = autoExecute[b] /\ cyclePc'[b] = cyclePc[b]
        /\ excused \subseteq excused' /\ cyclePc'[c] \notin Executing
    BY <2>1 DEF RunCycle, Advance, CycleTypeOK, Executing
  <2> QED BY <2>1, <2>2, <2>3 DEF RunCycle, SwitchFollows, RunnersWereTold, SwitchIsObeyed
<1>2. CASE Consider(c)
  <2>1. cyclePc'[c] \in Executing => autoExecute[c]
    BY <1>2 DEF Consider, Advance, ListFor, CycleTypeOK, Executing
  <2>2. \A b \in Cycles \ {c} : cyclePc'[b] = cyclePc[b]
    BY <1>2 DEF Consider, Advance, CycleTypeOK
  <2> QED BY <1>2, <2>1, <2>2
          DEF Consider, cycleHistories, SwitchFollows, RunnersWereTold, SwitchIsObeyed
<1>3. CASE RunPipeline(c)
  <2>1. c \in excused
    BY <1>3 DEF RunPipeline, Advance, RunnersWereTold, Executing
  <2> QED BY <1>3, <2>1 DEF RunPipeline, Advance, CycleTypeOK, Executing,
                            SwitchFollows, RunnersWereTold, SwitchIsObeyed
<1>4. CASE PlanTasks(c) \/ Govern(c) \/ CreateInsight(c) \/ Throw(c) \/ FileTasks(c)
  BY <1>4 DEF PlanTasks, Govern, CreateInsight, Throw, FileTasks, Advance, CycleTypeOK, Executing,
              cycleHistories, SwitchFollows, RunnersWereTold, SwitchIsObeyed
<1> QED BY <1>1, <1>2, <1>3, <1>4 DEF CycleStep

\* A cycle leaves the others alone.
LEMMA OthersStay ==
    ASSUME CycleTypeOK, RunsAreDue, NEW c \in Cycles, CycleStep(c), NEW b \in Cycles \ {c}
    PROVE  /\ cyclePc'[b] = cyclePc[b] /\ plan'[b] = plan[b] /\ task'[b] = task[b]
           /\ outcome'[b] = outcome[b] /\ filed'[b] = filed[b]
           /\ \A t \in Actions : <<b, t>> \in ranTasks' <=> <<b, t>> \in ranTasks
BY DEF CycleTypeOK, CycleStep, RunCycle, PlanTasks, Consider, Govern, RunPipeline, CreateInsight,
       Throw, FileTasks, Advance, Put, cycleHistories

\* What was run is not forgotten.
LEMMA RunsStay ==
    ASSUME NEW c \in Cycles, CycleStep(c)
    PROVE  ranTasks \subseteq ranTasks' /\ erased' = erased
BY DEF CycleStep, RunCycle, PlanTasks, Consider, Govern, RunPipeline, CreateInsight, Throw, FileTasks,
       cycleHistories

\* A task that is begun has what it depends on behind it.
LEMMA DueStep ==
    ASSUME CycleInv, NEW c \in Cycles, CycleStep(c)
    PROVE  RunsAreDue'
<1> USE DEF CycleInv
<1> SUFFICES ASSUME cyclePc'[c] \in Executing
             PROVE  /\ task'[c] \in Actions /\ task'[c] \notin plan'[c].requiresApproval
                    /\ \A d \in plan'[c].dependencies[task'[c]] : outcome'[c][d] = "executed"
                    /\ <<c, task'[c]>> \in ranTasks' <=> cyclePc'[c] = "insight"
  <2> SUFFICES ASSUME NEW b \in Cycles \ {c}, cyclePc'[b] \in Executing
               PROVE  /\ task'[b] \in Actions /\ task'[b] \notin plan'[b].requiresApproval
                      /\ \A d \in plan'[b].dependencies[task'[b]] : outcome'[b][d] = "executed"
                      /\ <<b, task'[b]>> \in ranTasks' <=> cyclePc'[b] = "insight"
    BY DEF RunsAreDue
  <2> QED BY OthersStay DEF RunsAreDue
<1>1. CASE Consider(c)
  <2> DEFINE t == task[c] + 1
  <2>1. /\ t \in Actions /\ task'[c] = t /\ plan' = plan /\ ranTasks' = ranTasks
        /\ cyclePc'[c] # "insight"
    BY <1>1 DEF Consider, Advance, CycleTypeOK, cycleHistories
  <2>2. ListFor(c, t) = "none"
    BY <1>1 DEF Consider, Advance, CycleTypeOK, Executing
  <2>3. /\ t \notin plan[c].requiresApproval
        /\ \A d \in plan[c].dependencies[t] : outcome[c][d] = "executed"
    BY <2>2 DEF ListFor
  <2>4. \A d \in plan[c].dependencies[t] : d \in Actions /\ d # t
    BY <2>1, PlanFields, Positions DEF CycleTypeOK
  <2>5. \A d \in plan[c].dependencies[t] : outcome'[c][d] = "executed"
    <3> HIDE DEF t
    <3> QED BY <1>1, <2>1, <2>2, <2>3, <2>4, Puts DEF Consider, Outcomes, t
  <2>6. <<c, t>> \notin ranTasks
    BY <2>1, Positions DEF RunsAreKnown
  <2> QED BY <2>1, <2>3, <2>5, <2>6
<1>2. CASE Govern(c)
  BY <1>2 DEF Govern, Advance, RunsAreDue, CycleTypeOK, Executing, cycleHistories
<1>3. CASE RunPipeline(c)
  BY <1>3 DEF RunPipeline, Advance, RunsAreDue, CycleTypeOK, Executing
<1>4. CASE (\E option \in BOOLEAN : RunCycle(c, option)) \/ PlanTasks(c) \/ CreateInsight(c)
           \/ Throw(c) \/ FileTasks(c)
  BY <1>4 DEF RunCycle, PlanTasks, CreateInsight, Throw, FileTasks, Advance, CycleTypeOK, Executing
<1> QED BY <1>1, <1>2, <1>3, <1>4 DEF CycleStep

--------------------------------------------------------------------------------
\* The lists of a cycle and the pipelines it has run.
LEMMA KnownStep ==
    ASSUME CycleInv, NEW c \in Cycles, CycleStep(c)
    PROVE  RunsAreKnown'
<1> USE DEF CycleInv
<1> DEFINE Known(b, t) ==
      /\ outcome[b][t] = "executed" => <<b, t>> \in ranTasks
      /\ <<b, t>> \in ranTasks =>
            /\ cyclePc[b] \notin {"idle", "detect"} /\ t <= task[b]
            /\ outcome[b][t] = "executed" \/ (t = task[b] /\ cyclePc[b] \in {"insight", "failed"})
<1>0. \A b \in Cycles, t \in Actions : Known(b, t)
  BY DEF RunsAreKnown
<1> SUFFICES ASSUME NEW t \in Actions PROVE Known(c, t)'
  <2>1. ASSUME NEW b \in Cycles \ {c}, NEW t \in Actions PROVE Known(b, t)'
    BY <1>0, <2>1, OthersStay
  <2> QED BY <2>1 DEF RunsAreKnown
<1>1. CASE Consider(c)
  <2> DEFINE u == task[c] + 1
  <2>1. u \in Actions /\ task'[c] = u /\ ranTasks' = ranTasks /\ cyclePc[c] = "loop"
        /\ cyclePc'[c] \in {"loop", "govern"}
    BY <1>1 DEF Consider, CycleTypeOK, cycleHistories, Advance
  <2>2. ListFor(c, u) \in Outcomes /\ ListFor(c, u) # "executed"
    BY DEF ListFor, Outcomes
  <2>3. <<c, u>> \notin ranTasks
    BY <2>1, Positions DEF RunsAreKnown
  <2>4. outcome'[c][u] # "executed" /\ (t # u => outcome'[c][t] = outcome[c][t])
    <3> HIDE DEF u
    <3> QED BY <1>1, <2>1, <2>2, Puts DEF Consider, u
  <2>5. CASE t = u
    BY <2>1, <2>3, <2>4, <2>5
  <2>6. CASE t # u
    <3>1. <<c, t>> \in ranTasks => t <= u
      BY <1>0, Positions
    <3> QED BY <1>0, <2>1, <2>4, <2>6, <3>1
  <2> QED BY <2>5, <2>6
<1>2. CASE Govern(c)
  <2>1. /\ task[c] \in Actions /\ <<c, task[c]>> \notin ranTasks
        /\ cyclePc'[c] \in {"pipeline", "loop"} /\ cyclePc[c] = "govern"
        /\ ranTasks' = ranTasks /\ task' = task
    BY <1>2 DEF Govern, Advance, RunsAreDue, CycleTypeOK, Executing, cycleHistories
  <2>2. \/ outcome' = outcome
        \/ outcome'[c][task[c]] = "blocked" /\ (t # task[c] => outcome'[c][t] = outcome[c][t])
    BY <1>2, <2>1, Puts DEF Govern, Outcomes
  <2> QED BY <1>0, <2>1, <2>2
<1>3. CASE RunPipeline(c)
  <2>1. /\ task' = task /\ cyclePc'[c] = "insight" /\ cyclePc[c] = "pipeline" /\ outcome' = outcome
        /\ ranTasks' = ranTasks \cup {<<c, task[c]>>}
    BY <1>3 DEF RunPipeline, Advance, CycleTypeOK
  <2>2. CASE t = task[c]
    <3>1. task[c] <= task[c]
      BY Positions
    <3> QED BY <2>1, <2>2, <3>1
  <2>3. CASE t # task[c]
    BY <1>0, <2>1, <2>3
  <2> QED BY <2>2, <2>3
<1>4. CASE CreateInsight(c)
  <2>1. /\ task[c] \in Actions /\ task' = task
        /\ cyclePc'[c] = "loop" /\ cyclePc[c] = "insight" /\ ranTasks' = ranTasks
    BY <1>4 DEF CreateInsight, Advance, RunsAreDue, CycleTypeOK, Executing, cycleHistories
  <2>2. outcome'[c][task[c]] = "executed" /\ (t # task[c] => outcome'[c][t] = outcome[c][t])
    BY <1>4, <2>1, Puts DEF CreateInsight, Outcomes
  <2>3. t = task[c] => <<c, t>> \in ranTasks
    BY <2>1 DEF RunsAreDue, Executing
  <2> QED BY <1>0, <2>1, <2>2, <2>3
<1>5. CASE (\E option \in BOOLEAN : RunCycle(c, option)) \/ PlanTasks(c) \/ Throw(c) \/ FileTasks(c)
  <2>1. /\ outcome' = outcome /\ ranTasks' = ranTasks /\ task' = task
        /\ cyclePc[c] \notin {"idle", "detect"} => cyclePc'[c] \notin {"idle", "detect"}
        /\ cyclePc[c] \in {"insight", "failed"} => cyclePc'[c] \in {"insight", "failed"}
    BY <1>5 DEF RunCycle, PlanTasks, Throw, FileTasks, Advance, CycleTypeOK, Executing, cycleHistories
  <2> QED BY <1>0, <2>1
<1> QED BY <1>1, <1>2, <1>3, <1>4, <1>5 DEF CycleStep

\* What a cycle files is what its lists hold.
LEMMA FilesStep ==
    ASSUME CycleInv, NEW c \in Cycles, CycleStep(c)
    PROVE  FilesAreLists'
<1> USE DEF CycleInv
<1> SUFFICES ASSUME c \notin erased', NEW t \in Actions, cyclePc'[c] = "done"
             PROVE  filed'[c][t] = FiledAs(outcome'[c][t])
  <2>1. \A b \in Cycles \ {c} : b \notin erased' =>
          \A t \in Actions : cyclePc'[b] = "done" => filed'[b][t] = FiledAs(outcome'[b][t])
    BY OthersStay, RunsStay DEF FilesAreLists
  <2> QED BY <2>1 DEF FilesAreLists, FiledAs
<1>1. cyclePc[c] # "done" /\ FileTasks(c)
  BY DEF CycleStep, RunCycle, PlanTasks, Consider, Govern, RunPipeline, CreateInsight, Throw, FileTasks,
         Advance, CycleTypeOK, Executing
<1> QED BY <1>1 DEF FileTasks, CycleTypeOK

\* A pipeline runs only after those it depends on.
LEMMA OrderStep ==
    ASSUME CycleInv, NEW c \in Cycles, CycleStep(c)
    PROVE  RunsAreOrdered'
<1> USE DEF CycleInv
<1> SUFFICES ASSUME NEW t \in Actions, <<c, t>> \in ranTasks'
             PROVE  /\ t \notin plan'[c].requiresApproval
                    /\ \A d \in plan'[c].dependencies[t] : <<c, d>> \in ranTasks'
  <2> SUFFICES ASSUME NEW b \in Cycles \ {c}, NEW t \in Actions, <<b, t>> \in ranTasks'
               PROVE  /\ t \notin plan'[b].requiresApproval
                      /\ \A d \in plan'[b].dependencies[t] : <<b, d>> \in ranTasks'
    BY DEF RunsAreOrdered
  <2> QED BY OthersStay, RunsStay DEF RunsAreOrdered
<1>1. CASE <<c, t>> \in ranTasks
  <2>1. cyclePc[c] \notin {"idle", "detect"}
    BY <1>1 DEF RunsAreKnown
  <2>2. plan' = plan
    BY <2>1 DEF CycleStep, RunCycle, PlanTasks, Consider, Govern, RunPipeline, CreateInsight, Throw,
       FileTasks, Advance
  <2> QED BY <1>1, <2>2, RunsStay DEF RunsAreOrdered
<1>2. CASE <<c, t>> \notin ranTasks
  <2>1. RunPipeline(c)
    BY <1>2 DEF CycleStep, RunCycle, PlanTasks, Consider, Govern, CreateInsight, Throw, FileTasks,
       cycleHistories
  <2>2. t = task[c] /\ plan' = plan /\ cyclePc[c] \in Executing
    BY <1>2, <2>1 DEF RunPipeline, Advance, Executing
  <2>3. /\ t \notin plan[c].requiresApproval
        /\ \A d \in plan[c].dependencies[t] : outcome[c][d] = "executed"
    BY <2>2 DEF RunsAreDue
  <2>4. \A d \in plan[c].dependencies[t] : d \in Actions
    BY PlanFields DEF CycleTypeOK
  <2>5. \A d \in plan[c].dependencies[t] : <<c, d>> \in ranTasks
    BY <2>3, <2>4 DEF RunsAreKnown
  <2> QED BY <2>2, <2>3, <2>5, RunsStay
<1> QED BY <1>1, <1>2

--------------------------------------------------------------------------------
\* A restart erases what was filed and fails the cycles in progress.
LEMMA RestartStep ==
    ASSUME CycleInv, RestartService
    PROVE  CycleInv'
<1> USE DEF CycleInv
<1>1. /\ autoExecute' = autoExecute /\ plan' = plan /\ task' = task /\ outcome' = outcome
      /\ ranTasks' = ranTasks /\ excused' = excused /\ against' = against
      /\ \A c \in Cycles : cyclePc'[c] = IF cyclePc[c] \in {"idle", "done"} THEN cyclePc[c] ELSE "failed"
      /\ \A c \in Cycles : cyclePc[c] # "idle" => c \in erased'
  BY DEF RestartService
<1>2. CycleTypeOK'
  <2>1. cyclePc' \in [Cycles -> CyclePhases] /\ filed' \in [Cycles -> [Actions -> Filed]]
    BY DEF RestartService, CycleTypeOK, CyclePhases, Filed
  <2>2. enabled' \in BOOLEAN /\ forgot' \in BOOLEAN /\ wanted' \in BOOLEAN
    <3>1. (forgot \/ ~wanted) \in BOOLEAN
      OBVIOUS
    <3>2. forgot' = (forgot \/ ~wanted) /\ enabled' = TRUE /\ wanted' = wanted
      BY DEF RestartService
    <3> QED BY <3>1, <3>2, Zenon DEF CycleTypeOK
  <2>3. restarts' \in 0..MaxRestarts /\ erased' \subseteq Cycles
    BY ActionsAssumption DEF RestartService, CycleTypeOK
  <2> QED BY <1>1, <2>1, <2>2, <2>3 DEF CycleTypeOK
<1>3. SwitchFollows'
  BY DEF RestartService, SwitchFollows
<1>4. RunnersWereTold' /\ SwitchIsObeyed' /\ RunsAreDue'
  BY <1>1 DEF RunnersWereTold, SwitchIsObeyed, RunsAreDue, Executing
<1>5. RunsAreKnown' /\ RunsAreOrdered'
  BY <1>1 DEF RunsAreKnown, RunsAreOrdered
<1>6. FilesAreLists'
  BY <1>1 DEF FilesAreLists
<1> QED BY <1>2, <1>3, <1>4, <1>5, <1>6

\* Every step keeps the invariant of the cycles.
LEMMA CycleNextInv == CycleInv /\ [CycleNext]_cycleVars => CycleInv'
<1> SUFFICES ASSUME CycleInv, [CycleNext]_cycleVars PROVE CycleInv'
  OBVIOUS
<1>1. ASSUME NEW c \in Cycles, CycleStep(c) PROVE CycleInv'
  BY <1>1, CycleTypeStep, SwitchStep, DueStep, KnownStep, FilesStep, OrderStep DEF CycleInv
<1>2. ASSUME NEW v \in BOOLEAN, SetConfig(v) PROVE CycleInv'
  <2>1. /\ enabled' = v /\ wanted' = v /\ forgot' = FALSE /\ cyclePc' = cyclePc
        /\ autoExecute' = autoExecute /\ plan' = plan /\ task' = task /\ outcome' = outcome
        /\ filed' = filed /\ ranTasks' = ranTasks /\ excused' = excused /\ against' = against
        /\ erased' = erased /\ restarts' = restarts
    BY <1>2 DEF SetConfig, Given
  <2>2. CycleTypeOK' /\ SwitchFollows' /\ SwitchIsObeyed'
    BY <2>1 DEF CycleInv, CycleTypeOK, SwitchFollows, SwitchIsObeyed
  <2>3. RunnersWereTold' /\ RunsAreDue'
    BY <2>1 DEF CycleInv, RunnersWereTold, RunsAreDue
  <2>4. RunsAreKnown' /\ FilesAreLists' /\ RunsAreOrdered'
    BY <2>1 DEF CycleInv, RunsAreKnown, FilesAreLists, FiledAs, RunsAreOrdered
  <2> QED BY <2>2, <2>3, <2>4 DEF CycleInv
<1>3. CASE UNCHANGED cycleVars
  <2>1. /\ enabled' = enabled /\ wanted' = wanted /\ forgot' = forgot /\ cyclePc' = cyclePc
        /\ autoExecute' = autoExecute /\ plan' = plan /\ task' = task /\ outcome' = outcome
        /\ filed' = filed /\ ranTasks' = ranTasks /\ excused' = excused /\ against' = against
        /\ erased' = erased /\ restarts' = restarts
    BY <1>3 DEF cycleVars, cycleHistories
  <2>2. CycleTypeOK' /\ SwitchFollows' /\ SwitchIsObeyed'
    BY <2>1 DEF CycleInv, CycleTypeOK, SwitchFollows, SwitchIsObeyed
  <2>3. RunnersWereTold' /\ RunsAreDue'
    BY <2>1 DEF CycleInv, RunnersWereTold, RunsAreDue
  <2>4. RunsAreKnown' /\ FilesAreLists' /\ RunsAreOrdered'
    BY <2>1 DEF CycleInv, RunsAreKnown, FilesAreLists, FiledAs, RunsAreOrdered
  <2> QED BY <2>2, <2>3, <2>4 DEF CycleInv
<1> QED BY <1>1, <1>2, <1>3, RestartStep DEF CycleNext

\* It holds at all times.
LEMMA CycleInvariance == CycleSpec => []CycleInv
BY CycleInitInv, CycleNextInv, PTL DEF CycleSpec

\* Every variable keeps its type, for any cycles and plans of any length.
THEOREM CycleTypes == CycleSpec => []CycleTypeOK
BY CycleInvariance, PTL DEF CycleInv

\* A pipeline runs against the operator's wish only in a cycle begun before it, or
\* after a restart.
THEOREM Obeyed == CycleSpec => []SwitchIsObeyed
BY CycleInvariance, PTL DEF CycleInv

\* What ran is what is filed as completed, and ran after all it depends on.
THEOREM Recorded == CycleSpec => []RunsAreRecorded
<1>1. CycleInv => RunsAreRecorded
  <2> SUFFICES ASSUME CycleInv, NEW c \in Cycles, NEW t \in Actions
               PROVE  /\ cyclePc[c] = "done" /\ c \notin erased =>
                            (filed[c][t] = "COMPLETED" <=> <<c, t>> \in ranTasks)
                      /\ <<c, t>> \in ranTasks =>
                            /\ t \notin plan[c].requiresApproval
                            /\ \A d \in plan[c].dependencies[t] : <<c, d>> \in ranTasks
    BY DEF RunsAreRecorded
  <2>1. ASSUME cyclePc[c] = "done", c \notin erased
        PROVE  filed[c][t] = "COMPLETED" <=> <<c, t>> \in ranTasks
    <3>1. <<c, t>> \in ranTasks <=> outcome[c][t] = "executed"
      BY <2>1 DEF CycleInv, RunsAreKnown
    <3>2. filed[c][t] = FiledAs(outcome[c][t]) /\ outcome[c][t] \in Outcomes
      BY <2>1 DEF CycleInv, FilesAreLists, CycleTypeOK
    <3>3. FiledAs(outcome[c][t]) = "COMPLETED" <=> outcome[c][t] = "executed"
      BY <3>2 DEF FiledAs, Outcomes
    <3> QED BY <3>1, <3>2, <3>3
  <2> QED BY <2>1 DEF CycleInv, RunsAreOrdered
<1> QED BY <1>1, CycleInvariance, PTL

--------------------------------------------------------------------------------
(***************************************************************************)
(* Execution intents                                                       *)
(***************************************************************************)
\* What the audit log holds of an intent in the store.
Logged(i) == IF approval[i] = "PENDING" THEN <<"PENDING">> ELSE <<"PENDING", approval[i]>>

\* An intent in the store was created, lives as long as it was given, and was decided
\* only if it is not blocked.
StoreIsFaithful ==
    \A i \in store : /\ createdAt[i] > 0
                     /\ expiresAt[i] = createdAt[i] + TTL
                     /\ trail[i] = Logged(i)
                     /\ approval[i] # "PENDING" => ~blocked[i]

\* What is not created is not decided.
DecidedExist == \A i \in Intents : approval[i] # "PENDING" => createdAt[i] > 0

HandedExist == \A h \in handoffs : createdAt[h.intent] > 0

IntentInv == IntentTypeOK /\ StoreIsFaithful /\ DecidedExist /\ HandedExist /\ HandoffsAreTimely

--------------------------------------------------------------------------------
\* The invariant of the intents holds on an empty store.
LEMMA IntentInitInv == IntentInit => IntentInv
BY IntentsAssumption
   DEF IntentInit, IntentInv, IntentTypeOK, StoreIsFaithful, DecidedExist, HandedExist,
       HandoffsAreTimely, ApprovalStatuses

\* A handover stays as it was made while what was created keeps its beginning.
LEMMA HandoffsStay ==
    ASSUME IntentInv, handoffs' = handoffs,
           \A i \in Intents : createdAt[i] > 0 => createdAt'[i] = createdAt[i] /\ blocked'[i] = blocked[i]
    PROVE  HandedExist' /\ HandoffsAreTimely'
<1>1. \A h \in handoffs : h.intent \in Intents /\ createdAt[h.intent] > 0
  BY DEF IntentInv, IntentTypeOK, Handoffs, HandedExist
<1> QED BY <1>1 DEF IntentInv, HandedExist, HandoffsAreTimely

\* The trail of an intent that is decided.
LEMMA DecidedIntents ==
    ASSUME NEW new \in Verdicts
    PROVE  Append(<<"PENDING">>, new) = <<"PENDING", new>>
<1> DEFINE a == Append(<<"PENDING">>, new)
           b == <<"PENDING", new>>
<1>1. "PENDING" \in ApprovalStatuses /\ new \in ApprovalStatuses
  BY DEF Verdicts, ApprovalStatuses
<1>2. <<"PENDING">> \in Seq(ApprovalStatuses) /\ Len(<<"PENDING">>) = 1
  BY <1>1
<1>3. b \in Seq(ApprovalStatuses) /\ Len(b) = 2 /\ b[1] = "PENDING" /\ b[2] = new
  BY <1>1
<1>4. a \in Seq(ApprovalStatuses) /\ Len(a) = 2 /\ a[1] = "PENDING" /\ a[2] = new
  BY <1>1, <1>2
<1>5. \A i \in 1..Len(a) : a[i] = b[i]
  BY <1>3, <1>4
<1> HIDE DEF a, b
<1>6. a = b
  BY <1>3, <1>4, <1>5, SeqEqual
<1> QED BY <1>6 DEF a, b

\* An intent is created with its expiry, and its trail begins.
LEMMA CreateStep ==
    ASSUME IntentInv, NEW i \in Intents, NEW refused \in BOOLEAN, CreateIntent(i, refused)
    PROVE  IntentInv'
<1> USE IntentsAssumption DEF IntentInv
<1>1. IntentTypeOK'
  <2>1. clock + TTL \in Nat /\ clock \in Nat
    BY DEF IntentTypeOK
  <2>2. <<"PENDING">> \in Seq(ApprovalStatuses)
    BY DEF ApprovalStatuses
  <2> QED BY <2>1, <2>2 DEF CreateIntent, IntentTypeOK
<1>2. StoreIsFaithful'
  <2> SUFFICES ASSUME NEW j \in store' PROVE StoreIsFaithful!(j)'
    BY DEF StoreIsFaithful
  <2>1. CASE j = i
    <3>1. approval[i] = "PENDING"
      BY DEF CreateIntent, DecidedExist
    <3> QED BY <2>1, <3>1 DEF CreateIntent, IntentTypeOK, Logged
  <2>2. CASE j # i
    <3>1. j \in store /\ j \in Intents
      BY <2>2 DEF CreateIntent, IntentTypeOK
    <3> QED BY <2>2, <3>1 DEF CreateIntent, IntentTypeOK, StoreIsFaithful, Logged
  <2> QED BY <2>1, <2>2
<1>3. DecidedExist'
  BY DEF CreateIntent, DecidedExist, IntentTypeOK
<1>4. HandedExist' /\ HandoffsAreTimely'
  <2>1. \A j \in Intents : createdAt[j] > 0 => createdAt'[j] = createdAt[j] /\ blocked'[j] = blocked[j]
    BY DEF CreateIntent, IntentTypeOK
  <2> QED BY <2>1, HandoffsStay DEF CreateIntent
<1> QED BY <1>1, <1>2, <1>3, <1>4

\* A decision is added to the trail and leaves the expiry alone.
LEMMA DecideIntentStep ==
    ASSUME IntentInv, NEW i \in Intents, NEW new \in Verdicts, NEW end \in clock..MaxTime,
           DecideIntent(i, new, end)
    PROVE  IntentInv'
<1> USE IntentsAssumption DEF IntentInv
<1>1. expiresAt' = expiresAt /\ createdAt' = createdAt /\ blocked' = blocked /\ handoffs' = handoffs
  BY DEF DecideIntent, UpdatedExpiry, IntentTypeOK
<1>2. store' \subseteq store /\ i \in store /\ approval[i] = "PENDING" /\ ~blocked[i]
  BY DEF DecideIntent, Unexpired
<1>3. IntentTypeOK'
  <2>1. new \in ApprovalStatuses /\ Append(trail[i], new) \in Seq(ApprovalStatuses)
    BY DEF Verdicts, ApprovalStatuses, IntentTypeOK
  <2>2. end \in 0..MaxTime
    BY DEF IntentTypeOK
  <2> QED BY <1>1, <1>2, <2>1, <2>2 DEF DecideIntent, IntentTypeOK
<1>4. StoreIsFaithful'
  <2> SUFFICES ASSUME NEW j \in store' PROVE StoreIsFaithful!(j)'
    BY DEF StoreIsFaithful
  <2>1. j \in store /\ j \in Intents
    BY <1>2 DEF IntentTypeOK
  <2>2. CASE j = i
    <3>1. trail[i] = <<"PENDING">> /\ trail'[i] = Append(trail[i], new) /\ approval'[i] = new
      BY <1>2 DEF StoreIsFaithful, Logged, DecideIntent, IntentTypeOK
    <3>2. Append(<<"PENDING">>, new) = <<"PENDING", new>> /\ new # "PENDING"
      BY DecidedIntents DEF Verdicts
    <3> QED BY <1>1, <1>2, <2>1, <2>2, <3>1, <3>2 DEF StoreIsFaithful, Logged
  <2>3. CASE j # i
    <3>1. trail'[j] = trail[j] /\ approval'[j] = approval[j]
      BY <2>1, <2>3 DEF DecideIntent, IntentTypeOK
    <3> QED BY <1>1, <2>1, <3>1 DEF StoreIsFaithful, Logged
  <2> QED BY <2>2, <2>3
<1>5. DecidedExist'
  BY <1>1, <1>2 DEF DecideIntent, DecidedExist, StoreIsFaithful, IntentTypeOK
<1>6. HandedExist' /\ HandoffsAreTimely'
  BY <1>1, HandoffsStay
<1> QED BY <1>3, <1>4, <1>5, <1>6

\* A hand-off is of an approved intent that has not expired, with its trail as it is.
LEMMA HandoffStep ==
    ASSUME IntentInv, NEW i \in Intents, GetHandoffPayload(i)
    PROVE  IntentInv'
<1> USE IntentsAssumption DEF IntentInv
<1> DEFINE h == [intent |-> i, at |-> clock, trail |-> trail[i]]
<1>1. i \in store /\ clock <= expiresAt[i] /\ approval[i] = "APPROVED"
  BY DEF GetHandoffPayload, Unexpired, IntentTypeOK
<1>2. /\ trail[i] = <<"PENDING", "APPROVED">> /\ ~blocked[i]
      /\ createdAt[i] > 0 /\ clock <= createdAt[i] + TTL
  BY <1>1 DEF StoreIsFaithful, Logged
<1>3. /\ handoffs' = handoffs \cup {h} /\ createdAt' = createdAt /\ blocked' = blocked
      /\ h \in Handoffs
  BY DEF GetHandoffPayload, Handoffs, IntentTypeOK
<1>4. store' \subseteq store
  BY DEF GetHandoffPayload, Unexpired
<1>5. IntentTypeOK' /\ StoreIsFaithful' /\ DecidedExist'
  BY <1>3, <1>4 DEF GetHandoffPayload, IntentTypeOK, StoreIsFaithful, DecidedExist, Logged
<1>6. HandedExist' /\ HandoffsAreTimely'
  BY <1>2, <1>3 DEF HandedExist, HandoffsAreTimely
<1> QED BY <1>5, <1>6

\* Every step keeps the invariant of the intents.
LEMMA IntentNextInv == IntentInv /\ [IntentNext]_intentVars => IntentInv'
<1> SUFFICES ASSUME IntentInv, [IntentNext]_intentVars PROVE IntentInv'
  OBVIOUS
<1>1. CASE Tick \/ LookUp \/ Reboot \/ UNCHANGED intentVars
  <2> USE IntentsAssumption DEF IntentInv
  <2>1. /\ blocked' = blocked /\ approval' = approval /\ createdAt' = createdAt
        /\ expiresAt' = expiresAt /\ handoffs' = handoffs
        /\ store' \subseteq store
        /\ store' # {} => trail' = trail
    BY <1>1 DEF Tick, LookUp, Reboot, Unexpired, intentVars
  <2>2. IntentTypeOK'
    <3>1. clock' \in 0..MaxTime /\ reboots' \in 0..MaxReboots
      BY <1>1 DEF Tick, LookUp, Reboot, intentVars, IntentTypeOK
    <3>2. trail' \in [Intents -> Seq(ApprovalStatuses)]
      <4>1. <<>> \in Seq(ApprovalStatuses)
        OBVIOUS
      <4> QED BY <1>1, <4>1 DEF Tick, LookUp, Reboot, intentVars, IntentTypeOK
    <3> QED BY <2>1, <3>1, <3>2 DEF IntentTypeOK
  <2>3. StoreIsFaithful'
    BY <2>1 DEF StoreIsFaithful, Logged
  <2>4. DecidedExist'
    BY <2>1 DEF DecidedExist
  <2>5. HandedExist' /\ HandoffsAreTimely'
    BY <2>1, HandoffsStay
  <2> QED BY <2>2, <2>3, <2>4, <2>5
<1> QED BY <1>1, CreateStep, DecideIntentStep, HandoffStep DEF IntentNext

\* It holds at all times.
LEMMA IntentInvariance == IntentSpec => []IntentInv
BY IntentInitInv, IntentNextInv, PTL DEF IntentSpec

\* Every variable keeps its type, for any intents, lifetime and clock.
THEOREM IntentTypes == IntentSpec => []IntentTypeOK
BY IntentInvariance, PTL DEF IntentInv

\* What is handed over was approved once, never blocked, and in its lifetime.
THEOREM TimelyHandoffs == IntentSpec => []HandoffsAreTimely
BY IntentInvariance, PTL DEF IntentInv

--------------------------------------------------------------------------------
(***************************************************************************)
(* The composition                                                         *)
(***************************************************************************)
\* A step of the composition is a step of one component and none of the others.
LEMMA OneComponentMoves ==
    [Next]_<<active, suggestionVars, cycleVars, intentVars>> =>
        /\ [SuggestionNext]_suggestionVars
        /\ [CycleNext]_cycleVars
        /\ [IntentNext]_intentVars
BY DEF Next

\* Suggestions, autonomy cycles and execution intents share no state: what each does
\* beside the others is what it may do alone, so every theorem about one of them holds
\* of the three together.
THEOREM SuggestionsCompose == Spec => SuggestionSpec /\ CycleSpec /\ IntentSpec
<1>1. Init => SuggestionInit /\ CycleInit /\ IntentInit
  BY DEF Init
<1> QED BY <1>1, OneComponentMoves, PTL DEF Spec, SuggestionSpec, CycleSpec, IntentSpec

\* Every suggestion, call, cycle and intent keeps its type while the three run side by
\* side.
THEOREM SuggestionsTypes == Spec => []TypeOK
<1>1. SuggestionTypeOK /\ CycleTypeOK /\ IntentTypeOK => TypeOK
  BY DEF TypeOK
<1> QED BY <1>1, SuggestionsCompose, SuggestionTypes, CycleTypes, IntentTypes, PTL

\* And each keeps its promises there: what is executed and decided of a suggestion, what
\* the cycles run and record, and what is handed over of an intent.
THEOREM SuggestionsSafe ==
    Spec => [](/\ ExecutedOnce /\ DecisionsStand /\ SwitchIsObeyed
               /\ RunsAreRecorded /\ HandoffsAreTimely)
BY SuggestionsCompose, RunsOnce, PeopleDecide, Obeyed, Recorded, TimelyHandoffs, PTL
================================================================================
