---------------------------- MODULE RuleEngine_proofs ----------------------------
(***************************************************************************)
(* What holds of the rule engine for any events, rules, versions, actions  *)
(* and runners, and any number of failed calls and restarts.               *)
(***************************************************************************)
EXTENDS RuleEngine, SequenceTheorems, FiniteSetTheorems, TLAPS

\* The rows of an event: no other event has a key of them.
RowsOf(e) == {k \in Keys : k.event = e}

Executing(e) == pc[e] \in (Awaiting \ {"load"}) \cup {"running"}
Untried(e) == pc[e] \in {"createRun", "markRunning", "find", "claim", "attempt"}

\* The executor is at one of the matched versions, and at one of its actions.
FrameFits(e) ==
    /\ pc[e] \in {"idle", "load"} => matched[e] = <<>>
    /\ Executing(e) =>
        /\ frame[e].turn \in 1..Len(matched[e])
        /\ pc[e] \in {"createRun", "markRunning"} => frame[e].index = 1
        /\ pc[e] \in {"find", "claim", "attempt", "running", "settle"} =>
              frame[e].index \in 1..Len(Actions[Version(e)])
        /\ pc[e] = "finalize" => frame[e].index = Len(Actions[Version(e)]) + 1

\* The row that was found is not yet a SUCCESS, unless one was written whose answer
\* got lost; the claim has given it to the action at hand, and has read its attempts.
RowIsFresh(e) ==
    /\ pc[e] \in {"claim", "attempt", "running"} => rows[Key(e)].status # "SUCCESS"
    /\ pc[e] = "settle" /\ rows[Key(e)].status = "SUCCESS" =>
          frame[e].verdict = "FAILED" /\ faults > 0
    /\ pc[e] \in {"attempt", "running", "settle"} => rows[Key(e)].config = Config(e)
    /\ pc[e] = "attempt" => frame[e].attempts = rows[Key(e)].attempts

\* What succeeded is an action that has the key of the row.
RowsBelong(e) ==
    \A k \in RowsOf(e) : rows[k].status = "SUCCESS" =>
        \E w \in Versions : /\ k.index \in DOMAIN Actions[w] /\ KeyOf(e, w, k.index) = k
                            /\ Actions[w][k.index] = rows[k].config

\* What a runner has done is the last thing on record for its key, and it is a SUCCESS or
\* about to be one; otherwise a call has failed or the event is lost.
DoneFits(e) ==
    \A k \in RowsOf(e) : \A m \in DOMAIN starts[k] : starts[k][m].done =>
        \/ faults > 0
        \/ /\ m = Len(starts[k])
           /\ \/ rows[k].status = "SUCCESS" \/ pc[e] = "lost"
              \/ pc[e] = "settle" /\ frame[e].verdict = "SUCCESS" /\ Key(e) = k

\* No version attempts an action twice.
AttemptsFit(e) ==
    \A k \in RowsOf(e) :
        /\ pc[e] \in {"idle", "load"} => rows[k].attempts = 0
        /\ Executing(e) => /\ rows[k].attempts <= frame[e].turn
                           /\ k.index > frame[e].index => rows[k].attempts < frame[e].turn
                           /\ Untried(e) /\ k.index = frame[e].index => rows[k].attempts < frame[e].turn

AttemptsCover(e) == \A k \in RowsOf(e) : Len(starts[k]) <= rows[k].attempts

VerdictFits(e) ==
    pc[e] = "settle" =>
        \/ frame[e].verdict \in {"SUCCESS", "RETRYING", "FAILED"}
        \/ frame[e].verdict = "PENDING" /\ CanPerform(Metadata[Config(e)]) = "REQUIRE_APPROVAL"

\* An action of a version that is dealt with.
Settled(e, v, i) == \/ rows[KeyOf(e, v, i)].status = "SUCCESS"
                    \/ CanPerform(Metadata[Actions[v][i]]) = "REQUIRE_APPROVAL"

\* What the summaries leave out is settled.
SummariesFit(e) ==
    Executing(e) => \A i \in DOMAIN Actions[Version(e)] : i < frame[e].index =>
                        {"FAILED", "RETRYING"} \cap frame[e].summaries # {} \/ Settled(e, Version(e), i)

RunsTruly(e) ==
    \A v \in Versions : runs[<<e, v>>] = "SUCCESS" => \A i \in DOMAIN Actions[v] : Settled(e, v, i)

\* No run relies on the row at hand for its SUCCESS: the row may yet come to FAILED.
RowIsFree(e) ==
    pc[e] \in {"claim", "attempt", "running", "settle"} =>
        \A v \in Versions : runs[<<e, v>>] = "SUCCESS" => \A i \in DOMAIN Actions[v] :
            KeyOf(e, v, i) = Key(e) => CanPerform(Metadata[Actions[v][i]]) = "REQUIRE_APPROVAL"

\* The versions that the engine is done with, and those of them without a run.
Passed(e) == IF pc[e] = "over" THEN 1..Len(matched[e])
             ELSE IF Executing(e) THEN 1..(frame[e].turn - 1) ELSE {}
Missing(e) == {v \in Versions : runs[<<e, v>>] = "none" /\ \E i \in Passed(e) : matched[e][i] = v}

RunIsCreated(e) == Executing(e) /\ pc[e] # "createRun" => runs[<<e, Version(e)>>] # "none"
FaultsArePaid(e) == ~setting.dryRun => Cardinality(Missing(e)) <= faults

EventInv(e) == /\ FrameFits(e) /\ RowIsFresh(e) /\ AttemptsFit(e) /\ AttemptsCover(e)
               /\ RowsBelong(e) /\ DoneFits(e)
               /\ VerdictFits(e) /\ SummariesFit(e) /\ RunsTruly(e) /\ RowIsFree(e)
               /\ RunIsCreated(e) /\ FaultsArePaid(e)

EngineInv == TypeOK /\ \A e \in Events : EventInv(e)

--------------------------------------------------------------------------------
\* The versions an event matches are a sequence that names none twice.
LEMMA MatchesAreSequences ==
    ASSUME NEW s \in Matches
    PROVE  /\ s \in Seq(Versions) /\ Len(s) \in 0..Cardinality(Versions) /\ DOMAIN s = 1..Len(s)
           /\ \A i \in 1..Len(s) : s[i] \in Versions
<1>1. Cardinality(Versions) \in Nat
  BY RuleAssumption, FS_CardinalityType
<1>2. PICK n \in 0..Cardinality(Versions) : s \in [1..n -> Versions]
  BY DEF Matches
<1>3. s \in Seq(Versions) /\ Len(s) = n
  BY <1>1, <1>2
<1> QED BY <1>2, <1>3

\* Where an executing event stands.
LEMMA AtVersion ==
    ASSUME TypeOK, NEW e \in Events, FrameFits(e), Executing(e)
    PROVE  /\ Version(e) \in Versions /\ Version(e) = matched[e][frame[e].turn]
           /\ Actions[Version(e)] \in Seq(Configs)
           /\ DOMAIN Actions[Version(e)] = 1..Len(Actions[Version(e)])
           /\ Len(matched[e]) \in Nat /\ Len(matched[e]) <= Cardinality(Versions)
           /\ Cardinality(Versions) \in Nat /\ frame[e].turn \in Nat /\ frame[e].index \in Nat
<1>1. Cardinality(Versions) \in Nat
  BY RuleAssumption, FS_CardinalityType
<1>2. matched[e] \in Matches /\ frame[e] \in Frame
  BY DEF TypeOK
<1>3. Version(e) \in Versions
  BY <1>2, MatchesAreSequences DEF Version, FrameFits
<1>4. Actions[Version(e)] \in Seq(Configs)
  BY <1>3, ActionAssumption
<1> QED BY <1>1, <1>2, <1>3, <1>4, MatchesAreSequences DEF Version, Frame

\* The keys of a version's actions differ from each other.
LEMMA KeysOf ==
    ASSUME NEW e \in Events, NEW v \in Versions, NEW i \in DOMAIN Actions[v]
    PROVE  /\ KeyOf(e, v, i) \in RowsOf(e) /\ KeyOf(e, v, i).index = i
           /\ Actions[v][i] \in Configs /\ i \in Nat
<1>1. Actions[v] \in Seq(Configs)
  BY ActionAssumption
<1>2. Actions[v][i] \in Configs /\ i \in Nat
  BY <1>1
<1>3. i \in Indices /\ RuleOf[v] \in Rules
  BY RuleAssumption DEF Indices
<1>4. ParamsOf[Actions[v][i]] \in Params
  BY <1>2, ActionAssumption
<1> QED BY <1>2, <1>3, <1>4 DEF KeyOf, Keys, RowsOf

\* The key of the action at hand.
LEMMA KeyAtHand ==
    ASSUME TypeOK, NEW e \in Events, FrameFits(e),
           pc[e] \in {"find", "claim", "attempt", "running", "settle"}
    PROVE  /\ Key(e) \in RowsOf(e) /\ Key(e) \in Keys /\ Key(e).index = frame[e].index
           /\ Config(e) \in Configs /\ frame[e].index \in DOMAIN Actions[Version(e)]
           /\ Executing(e)
           /\ Key(e) = KeyOf(e, Version(e), frame[e].index) /\ Config(e) = Actions[Version(e)][frame[e].index]
<1>1. Executing(e)
  BY DEF Executing, Awaiting
<1>2. Version(e) \in Versions /\ frame[e].index \in DOMAIN Actions[Version(e)]
  BY <1>1, AtVersion DEF FrameFits
<1> QED BY <1>1, <1>2, KeysOf DEF Key, Config, RowsOf

\* What is appended to the executions of a key, or resolved, leaves the others alone.
LEMMA Logs ==
    ASSUME NEW log \in Seq(Execution), NEW run \in Execution
    PROVE  /\ Len(log) \in Nat /\ DOMAIN log = 1..Len(log)
           /\ Append(log, run) \in Seq(Execution) /\ Len(Append(log, run)) = Len(log) + 1
           /\ DOMAIN Append(log, run) = 1..(Len(log) + 1)
           /\ Append(log, run)[Len(log) + 1] = run
           /\ \A m \in 1..Len(log) : Append(log, run)[m] = log[m]
           /\ Resolved(log) \in Seq(Execution) /\ Len(Resolved(log)) = Len(log)
           /\ DOMAIN Resolved(log) = 1..Len(log)
           /\ \A m \in 1..Len(log) : /\ Resolved(log)[m].config = log[m].config
                                     /\ m # Len(log) => Resolved(log)[m] = log[m]
<1>1. Len(log) \in Nat /\ DOMAIN log = 1..Len(log) /\ \A m \in 1..Len(log) : log[m] \in Execution
  OBVIOUS
<1>2. /\ Append(log, run) \in Seq(Execution) /\ Len(Append(log, run)) = Len(log) + 1
      /\ Append(log, run)[Len(log) + 1] = run
      /\ \A m \in 1..Len(log) : Append(log, run)[m] = log[m]
  BY AppendProperties
<1>3. DOMAIN Append(log, run) = 1..(Len(log) + 1)
  BY <1>2
<1>4. DOMAIN Resolved(log) = 1..Len(log)
  BY <1>1 DEF Resolved
<1>5. \A m \in 1..Len(log) : /\ Resolved(log)[m].config = log[m].config
                             /\ m # Len(log) => Resolved(log)[m] = log[m]
                             /\ Resolved(log)[m] \in Execution
  BY <1>1 DEF Resolved, Execution
<1>6. Resolved(log) = [m \in 1..Len(log) |-> Resolved(log)[m]]
  BY <1>1 DEF Resolved
<1>7. Resolved(log) \in Seq(Execution) /\ Len(Resolved(log)) = Len(log)
  BY <1>1, <1>4, <1>5, <1>6
<1> QED BY <1>1, <1>2, <1>3, <1>4, <1>5, <1>7

\* The executions of the keys are logs.
LEMMA LogsOf ==
    ASSUME TypeOK, NEW k \in Keys
    PROVE  starts[k] \in Seq(Execution) /\ Len(starts[k]) \in Nat /\ DOMAIN starts[k] = 1..Len(starts[k])
BY DEF TypeOK

--------------------------------------------------------------------------------
\* The invariant holds before an event is published.
LEMMA EngineInitInv == Init => EngineInv
<1> SUFFICES ASSUME Init PROVE EngineInv
  OBVIOUS
<1>0. Cardinality(Versions) \in Nat
  BY RuleAssumption, FS_CardinalityType
<1>1. TypeOK
  <2>1. <<>> \in Matches
    <3>1. <<>> \in [1..0 -> Versions] /\ 0 \in 0..Cardinality(Versions)
      BY <1>0
    <3>2. \A i, j \in DOMAIN <<>> : <<>>[i] = <<>>[j] => i = j
      BY <3>1
    <3> QED BY <3>1, <3>2 DEF Matches
  <2>2. Fresh(1) \in Frame
    BY <1>0 DEF Fresh, Frame, RowStatuses
  <2>3. NoRow \in Row
    BY <1>0 DEF NoRow, Row, RowStatuses
  <2> QED BY <2>1, <2>2, <2>3, SettingsAssumption DEF Init, TypeOK, Phases, RunStatuses
<1>2. ASSUME NEW e \in Events PROVE EventInv(e)
  <2>1. pc[e] = "idle" /\ ~Executing(e) /\ matched[e] = <<>>
    BY DEF Init, Executing, Awaiting
  <2>2. /\ \A k \in RowsOf(e) : /\ rows[k].attempts = 0 /\ rows[k].status # "SUCCESS"
                                 /\ starts[k] = <<>> /\ Len(starts[k]) = 0 /\ DOMAIN starts[k] = {}
        /\ \A v \in Versions : runs[<<e, v>>] = "none"
    BY DEF Init, RowsOf, NoRow
  <2>3. Missing(e) = {}
    BY <2>1 DEF Missing, Passed
  <2>4. FaultsArePaid(e)
    BY <2>3, FS_EmptySet DEF FaultsArePaid, Init
  <2> QED BY <2>1, <2>2, <2>4 DEF EventInv, FrameFits, RowIsFresh, AttemptsFit, AttemptsCover,
          RowsBelong, DoneFits, VerdictFits, SummariesFit, RunsTruly, RowIsFree, RunIsCreated
<1> QED BY <1>1, <1>2 DEF EngineInv

--------------------------------------------------------------------------------
\* What a handler finds when it is resumed.
LEMMA Resumes ==
    ASSUME TypeOK, NEW e \in Events, NEW phase \in Phases, NEW locals \in Frame,
           Resume(e, phase, locals)
    PROVE  /\ pc' \in [Events -> Phases] /\ frame' \in [Events -> Frame]
           /\ pc'[e] = phase /\ frame'[e] = locals
           /\ \A f \in Events \ {e} : pc'[f] = pc[f] /\ frame'[f] = frame[f]
BY DEF Resume, TypeOK

\* The locals at the start of a version.
LEMMA FreshFrames ==
    ASSUME NEW turn \in 1..Cardinality(Versions) + 1
    PROVE  Fresh(turn) \in Frame /\ Fresh(turn).turn = turn /\ Fresh(turn).index = 1
<1>1. Cardinality(Versions) \in Nat
  BY RuleAssumption, FS_CardinalityType
<1> QED BY <1>1 DEF Fresh, Frame, RowStatuses

\* The executor has left a version: the next one begins, or all is over.
LEMMA NextVersions ==
    ASSUME TypeOK, NEW e \in Events, FrameFits(e), Executing(e), NextVersion(e)
    PROVE  /\ pc' \in [Events -> Phases] /\ frame' \in [Events -> Frame]
           /\ \A f \in Events \ {e} : pc'[f] = pc[f] /\ frame'[f] = frame[f]
           /\ \/ /\ pc'[e] = "over" /\ frame[e].turn = Len(matched[e]) /\ frame'[e] = Fresh(1)
              \/ /\ pc'[e] = "createRun" /\ frame[e].turn < Len(matched[e])
                 /\ frame'[e] = Fresh(frame[e].turn + 1)
<1>1. /\ frame[e].turn \in 1..Len(matched[e]) /\ Len(matched[e]) \in Nat
      /\ Len(matched[e]) <= Cardinality(Versions) /\ Cardinality(Versions) \in Nat
  BY AtVersion DEF FrameFits
<1>2. "over" \in Phases /\ "createRun" \in Phases
  BY DEF Phases, Awaiting
<1>3. CASE frame[e].turn = Len(matched[e])
  <2>1. Fresh(1) \in Frame
    BY <1>1, FreshFrames
  <2> QED BY <1>2, <1>3, <2>1, Resumes DEF NextVersion
<1>4. CASE frame[e].turn < Len(matched[e])
  <2>1. Fresh(frame[e].turn + 1) \in Frame
    BY <1>1, <1>4, FreshFrames
  <2> QED BY <1>1, <1>2, <1>4, <2>1, Resumes DEF NextVersion
<1> QED BY <1>1, <1>3, <1>4

\* A step that leaves an event, its rows and its runs alone keeps what holds of it.
LEMMA OthersKeep ==
    ASSUME EngineInv, TypeOK', NEW f \in Events,
           pc'[f] = pc[f], frame'[f] = frame[f], matched'[f] = matched[f], setting' = setting,
           \A k \in RowsOf(f) : rows'[k] = rows[k] /\ starts'[k] = starts[k],
           \A v \in Versions : runs'[<<f, v>>] = runs[<<f, v>>],
           faults <= faults'
    PROVE  EventInv(f)'
<1>1. EventInv(f) /\ TypeOK
  BY DEF EngineInv
<1>2. /\ Version(f)' = Version(f) /\ Key(f)' = Key(f) /\ Config(f)' = Config(f)
      /\ Executing(f)' = Executing(f) /\ Untried(f)' = Untried(f)
  BY DEF Version, Key, Config, Executing, Untried
<1>3. \A m : CanPerform(m)' = CanPerform(m)
  BY DEF CanPerform
<1>4. FrameFits(f)'
  BY <1>1, <1>2 DEF EventInv, FrameFits
<1>0. faults \in Nat /\ faults' \in Nat
  BY <1>1, SettingsAssumption DEF TypeOK
<1>5. RowIsFresh(f)'
  <2>1. pc[f] \in {"claim", "attempt", "running", "settle"} => Key(f) \in RowsOf(f)
    BY <1>1, KeyAtHand DEF EventInv
  <2> QED BY <1>0, <1>1, <1>2, <2>1 DEF EventInv, RowIsFresh
<1>6. AttemptsFit(f)' /\ AttemptsCover(f)'
  BY <1>1, <1>2 DEF EventInv, AttemptsFit, AttemptsCover, RowsOf
<1>7. VerdictFits(f)' /\ RowIsFree(f)'
  BY <1>1, <1>2, <1>3 DEF EventInv, VerdictFits, RowIsFree
<1>13. RowsBelong(f)' /\ DoneFits(f)'
  BY <1>0, <1>1, <1>2 DEF EventInv, RowsBelong, DoneFits, RowsOf
<1>8. \A v \in Versions : \A i \in DOMAIN Actions[v] : Settled(f, v, i)' = Settled(f, v, i)
  BY <1>3, KeysOf DEF Settled
<1>9. SummariesFit(f)'
  BY <1>1, <1>2, <1>8, AtVersion DEF EventInv, SummariesFit
<1>10. RunsTruly(f)'
  BY <1>1, <1>8 DEF EventInv, RunsTruly
<1>11. RunIsCreated(f)'
  BY <1>1, <1>2, AtVersion DEF EventInv, RunIsCreated
<1>12. FaultsArePaid(f)'
  <2>1. Missing(f)' = Missing(f)
    BY <1>2 DEF Missing, Passed
  <2>2. Cardinality(Missing(f)) \in Nat
    <3>1. Missing(f) \subseteq Versions
      BY DEF Missing
    <3> QED BY <3>1, RuleAssumption, FS_Subset, FS_CardinalityType
  <2> QED BY <1>1, <2>1, <2>2, SettingsAssumption DEF EventInv, FaultsArePaid, TypeOK
<1> QED BY <1>4, <1>5, <1>6, <1>7, <1>9, <1>10, <1>11, <1>12, <1>13 DEF EventInv

--------------------------------------------------------------------------------
\* Locals that an executor goes on with.
LEMMA Locals ==
    ASSUME TypeOK, NEW e \in Events
    PROVE  /\ frame[e] \in Frame
           /\ \A status \in RowStatuses : Verdict(e, status) \in Frame
           /\ \A status \in RowStatuses \cup {"SKIPPED"} : Summarized(e, status) \in Frame
           /\ Key(e) \in Keys => Claimed(e) \in Frame
<1>1. frame[e] \in Frame
  BY DEF TypeOK
<1>2. \A status \in RowStatuses \cup {"SKIPPED"} :
        frame[e].summaries \cup {status} \in SUBSET (RowStatuses \cup {"SKIPPED"})
  BY <1>1 DEF Frame
<1>3. frame[e].index + 1 \in Nat
  BY <1>1 DEF Frame
<1>4. Key(e) \in Keys => rows[Key(e)].attempts \in 0..Cardinality(Versions) /\ "FAILED" \in RowStatuses
  BY DEF TypeOK, Row, RowStatuses
<1> QED BY <1>1, <1>2, <1>3, <1>4 DEF Frame, Verdict, Summarized, Claimed

\* The phases an executor goes on to.
LEMMA Onward ==
    ASSUME NEW e \in Events, NEW i
    PROVE  From(i, e) \in {"find", "finalize"} /\ {"find", "finalize"} \subseteq Phases
BY DEF From, Phases, Awaiting

\* The writes of a run.
LEMMA SetRunTypes ==
    ASSUME EngineInv, NEW e \in Events, NEW from \in {"createRun", "markRunning", "finalize"},
           NEW status \in RunStatuses, NEW next \in Phases, SetRun(e, from, status, next)
    PROVE  TypeOK'
<1>1. TypeOK /\ FrameFits(e) /\ Executing(e)
  BY DEF EngineInv, EventInv, SetRun, Executing, Awaiting
<1>2. Version(e) \in Versions
  BY <1>1, AtVersion
<1>3. [runs EXCEPT ![<<e, Version(e)>>] = status] \in [Events \X Versions -> RunStatuses]
  BY <1>1, <1>2 DEF TypeOK
<1>4. runs' \in [Events \X Versions -> RunStatuses]
  BY <1>1, <1>3 DEF SetRun, Await, TypeOK
<1>5. pc' \in [Events -> Phases] /\ frame' \in [Events -> Frame]
  <2>1. CASE Resume(e, next, frame[e])
    BY <1>1, <2>1, Resumes, Locals
  <2>2. CASE NextVersion(e)
    BY <1>1, <2>2, NextVersions
  <2> QED BY <2>1, <2>2 DEF SetRun, Await, Throw
<1>6. faults' \in 0..MaxFaults
  BY <1>1, SettingsAssumption DEF SetRun, Await, Fault, NoFault, TypeOK
<1> QED BY <1>1, <1>4, <1>5, <1>6 DEF SetRun, TypeOK, fixed

\* The final status is one that a run ends with.
LEMMA FinalStatuses == \A s : FinalStatus(s) \in Ended
BY DEF FinalStatus, Ended

\* Every handler keeps the types.
LEMMA EngineTypeStep ==
    ASSUME EngineInv, NEW e \in Events, Publish(e) \/ Handle(e) \/ RunnerReturns(e)
    PROVE  TypeOK'
<1>1. TypeOK /\ EventInv(e) /\ FrameFits(e)
  BY DEF EngineInv, EventInv
<1>2. Fresh(1) \in Frame /\ Cardinality(Versions) \in Nat
  BY RuleAssumption, FS_CardinalityType, FreshFrames
<1>3. {"load", "over", "createRun", "markRunning", "claim", "attempt", "settle", "running", "updateRule"} \subseteq Phases
  BY DEF Phases, Awaiting
<1>4. frame[e] \in Frame
  BY <1>1 DEF TypeOK
<1>5. (Fault \/ NoFault) => faults' \in 0..MaxFaults
  BY <1>1, SettingsAssumption DEF Fault, NoFault, TypeOK
<1>6. CASE Publish(e)
  <2>1. Resume(e, "load", Fresh(1))
    BY <1>6 DEF Publish
  <2>2. pc' \in [Events -> Phases] /\ frame' \in [Events -> Frame]
    BY <1>1, <1>2, <1>3, <2>1, Resumes
  <2> QED BY <1>1, <1>6, <2>2 DEF Publish, TypeOK, fixed, tables
<1>7. CASE LoadMatchingRules(e)
  <2>1. pc' \in [Events -> Phases] /\ frame' \in [Events -> Frame]
    BY <1>1, <1>2, <1>3, <1>7, Resumes DEF LoadMatchingRules
  <2>2. matched' \in [Events -> Matches]
    BY <1>1, <1>7 DEF LoadMatchingRules, TypeOK
  <2> QED BY <1>1, <1>5, <1>7, <2>1, <2>2 DEF LoadMatchingRules, TypeOK, fixed, tables
<1>8. CASE CreateAutomationRun(e)
  BY <1>3, <1>8, SetRunTypes DEF CreateAutomationRun, RunStatuses
<1>9. CASE MarkRunRunning(e)
  <2>1. From(1, e) \in Phases
    BY Onward
  <2>2. PICK next \in Phases : next = From(1, e)
    BY <2>1
  <2>3. SetRun(e, "markRunning", "RUNNING", next)
    BY <1>9, <2>2 DEF MarkRunRunning, SetRun, Await, Resume
  <2> QED BY <2>3, SetRunTypes DEF RunStatuses
<1>10. CASE FinalizeAutomationRun(e)
  BY <1>3, <1>10, SetRunTypes, FinalStatuses DEF FinalizeAutomationRun, RunStatuses
<1>11. CASE FindActionRun(e)
  <2>1. pc[e] = "find" /\ Executing(e)
    BY <1>1, <1>11, KeyAtHand DEF FindActionRun, Find
  <2>2. pc' \in [Events -> Phases] /\ frame' \in [Events -> Frame]
    <3>1. CASE Throw(e)
      BY <1>1, <2>1, <3>1, NextVersions DEF Throw
    <3>2. CASE Resume(e, From(frame[e].index + 1, e), Summarized(e, "SKIPPED"))
      BY <1>1, <3>2, Resumes, Onward, Locals
    <3>3. CASE Resume(e, "claim", frame[e])
      BY <1>1, <1>3, <3>3, Resumes, Locals
    <3> QED BY <1>11, <3>1, <3>2, <3>3 DEF FindActionRun, Find
  <2> QED BY <1>1, <1>5, <1>11, <2>2 DEF FindActionRun, Find, TypeOK, fixed, tables
<1>12. CASE ClaimActionRun(e)
  <2>1. pc[e] = "claim" /\ Executing(e) /\ Key(e) \in Keys
    BY <1>1, <1>12, KeyAtHand DEF ClaimActionRun
  <2>2. [rows EXCEPT ![Key(e)] = [@ EXCEPT !.status = "PENDING", !.config = Config(e)]] \in [Keys -> Row]
    <3>1. Config(e) \in Configs
      BY <1>1, <2>1, KeyAtHand
    <3> QED BY <1>1, <2>1, <3>1 DEF TypeOK, Row, RowStatuses
  <2>3. rows' \in [Keys -> Row]
    BY <1>1, <1>12, <2>2 DEF ClaimActionRun, Await, TypeOK
  <2>4. pc' \in [Events -> Phases] /\ frame' \in [Events -> Frame]
    <3>1. CASE Throw(e)
      BY <1>1, <2>1, <3>1, NextVersions DEF Throw
    <3>2. CASE Resume(e, IF Config(e) \in Registered THEN "attempt" ELSE "settle", Claimed(e))
      BY <1>1, <1>3, <2>1, <3>2, Resumes, Locals
    <3> QED BY <1>12, <3>1, <3>2 DEF ClaimActionRun, Await
  <2> QED BY <1>1, <1>5, <1>12, <2>3, <2>4 DEF ClaimActionRun, Await, TypeOK, fixed
<1>13. CASE StartAttempt(e)
  <2>1. pc[e] = "attempt" /\ Executing(e) /\ Key(e) \in Keys /\ Key(e) \in RowsOf(e)
        /\ Key(e).index = frame[e].index
    BY <1>1, <1>13, KeyAtHand DEF StartAttempt, Start
  <2>2. frame[e].attempts + 1 \in 0..Cardinality(Versions)
    <3>1. rows[Key(e)].attempts = frame[e].attempts /\ rows[Key(e)].attempts < frame[e].turn
      BY <1>1, <2>1 DEF EventInv, RowIsFresh, AttemptsFit, Untried
    <3>2. frame[e].turn <= Cardinality(Versions) /\ frame[e].turn \in Nat /\ frame[e].attempts \in Nat
      BY <1>1, <1>4, <2>1, AtVersion DEF FrameFits, Frame
    <3> QED BY <1>2, <3>1, <3>2
  <2>3. [rows EXCEPT ![Key(e)] = [@ EXCEPT !.status = "RUNNING", !.attempts = frame[e].attempts + 1]]
           \in [Keys -> Row]
    BY <1>1, <2>1, <2>2 DEF TypeOK, Row, RowStatuses
  <2>4. rows' \in [Keys -> Row]
    BY <1>1, <1>13, <2>3 DEF StartAttempt, Start, TypeOK
  <2>5. starts' \in [Keys -> Seq(Execution)]
    <3>1. [config |-> Config(e), done |-> FALSE] \in Execution
      BY <1>1, <2>1, KeyAtHand DEF Execution
    <3>2. Append(starts[Key(e)], [config |-> Config(e), done |-> FALSE]) \in Seq(Execution)
      BY <1>1, <2>1, <3>1, LogsOf, Logs
    <3> QED BY <1>1, <1>13, <2>1, <3>2 DEF StartAttempt, Start, TypeOK
  <2>6. pc' \in [Events -> Phases] /\ frame' \in [Events -> Frame]
    <3>1. CASE Throw(e)
      BY <1>1, <2>1, <3>1, NextVersions DEF Throw
    <3>2. CASE Resume(e, "running", frame[e])
      BY <1>1, <1>3, <1>4, <3>2, Resumes
    <3>3. CASE Resume(e, "settle", Verdict(e, IF Decision(e) = "REQUIRE_APPROVAL" THEN "PENDING" ELSE "FAILED"))
      BY <1>1, <1>3, <3>3, Resumes, Locals DEF RowStatuses
    <3> QED BY <1>13, <3>1, <3>2, <3>3 DEF StartAttempt, Start
  <2> QED BY <1>1, <1>5, <1>13, <2>4, <2>5, <2>6 DEF StartAttempt, Start, TypeOK, fixed
<1>14. CASE Timeout(e) \/ RunnerReturns(e)
  <2>1. PICK status \in {"SUCCESS", "RETRYING", "FAILED"} : Finish(e, status)
    BY <1>14 DEF Timeout, RunnerReturns
  <2>2. pc' \in [Events -> Phases] /\ frame' \in [Events -> Frame]
    BY <1>1, <1>3, <2>1, Resumes, Locals DEF Finish, RowStatuses
  <2>3. starts' \in [Keys -> Seq(Execution)]
    <3>1. CASE starts' = starts
      BY <1>1, <3>1 DEF TypeOK
    <3>2. CASE starts' = [starts EXCEPT ![Key(e)] = Resolved(@)]
      <4>1. Key(e) \in Keys /\ Config(e) \in Configs
        BY <1>1, <2>1, KeyAtHand DEF Finish
      <4>2. [config |-> Config(e), done |-> FALSE] \in Execution
        BY <4>1 DEF Execution
      <4>3. Resolved(starts[Key(e)]) \in Seq(Execution)
        BY <1>1, <4>1, <4>2, LogsOf, Logs
      <4> QED BY <1>1, <3>2, <4>1, <4>3 DEF TypeOK
    <3> QED BY <1>14, <3>1, <3>2 DEF Timeout, RunnerReturns
  <2> QED BY <1>1, <2>1, <2>2, <2>3 DEF Finish, TypeOK, fixed, tables
<1>15. CASE SettleActionRun(e)
  <2>1. pc[e] = "settle" /\ Executing(e) /\ Key(e) \in Keys
    BY <1>1, <1>15, KeyAtHand DEF SettleActionRun
  <2>2. frame[e].verdict \in RowStatuses
    BY <1>4 DEF Frame
  <2>3. [rows EXCEPT ![Key(e)].status = frame[e].verdict] \in [Keys -> Row]
    BY <1>1, <2>1, <2>2 DEF TypeOK, Row
  <2>4. rows' \in [Keys -> Row]
    BY <1>1, <1>15, <2>3 DEF SettleActionRun, TypeOK
  <2>5. pc' \in [Events -> Phases] /\ frame' \in [Events -> Frame]
    <3>1. CASE Throw(e)
      BY <1>1, <2>1, <3>1, NextVersions DEF Throw
    <3>2. CASE Resume(e, From(frame[e].index + 1, e), Summarized(e, frame[e].verdict))
      BY <1>1, <2>2, <3>2, Resumes, Onward, Locals
    <3>3. CASE Resume(e, "settle", Verdict(e, "FAILED"))
      BY <1>1, <1>3, <3>3, Resumes, Locals DEF RowStatuses
    <3> QED BY <1>15, <3>1, <3>2, <3>3 DEF SettleActionRun, Fails
  <2> QED BY <1>1, <1>5, <1>15, <2>4, <2>5 DEF SettleActionRun, TypeOK, fixed
<1>16. CASE UpdateRuleLastRun(e)
  <2>1. pc[e] = "updateRule" /\ Executing(e)
    BY <1>16 DEF UpdateRuleLastRun, Executing, Awaiting
  <2>2. RuleOf[Version(e)] \in Rules
    BY <1>1, <2>1, AtVersion, RuleAssumption
  <2>3. lastRun' \in [Rules -> {"none"} \cup Ended]
    <3>1. lastRun \in [Rules -> {"none"} \cup Ended]
      BY <1>1 DEF TypeOK
    <3>2. PICK status \in Ended : status = FinalStatus(frame[e].summaries)
      BY FinalStatuses
    <3>3. lastRun' \in {lastRun, [lastRun EXCEPT ![RuleOf[Version(e)]] = status]}
      BY <1>16, <3>2 DEF UpdateRuleLastRun
    <3> QED BY <2>2, <3>1, <3>3
  <2>4. pc' \in [Events -> Phases] /\ frame' \in [Events -> Frame]
    BY <1>1, <1>16, <2>1, NextVersions DEF UpdateRuleLastRun
  <2> QED BY <1>1, <1>5, <1>16, <2>3, <2>4 DEF UpdateRuleLastRun, TypeOK, fixed
<1> QED BY <1>6, <1>7, <1>8, <1>9, <1>10, <1>11, <1>12, <1>13, <1>14, <1>15, <1>16 DEF Handle

--------------------------------------------------------------------------------
\* What a step of an event must keep for its runs to go on telling the truth.
LEMMA TruthIsKept ==
    ASSUME EngineInv, NEW e \in Events, setting' = setting,
           \A k \in RowsOf(e) : rows[k].status = "SUCCESS" =>
               rows'[k].status = "SUCCESS" \/ (pc[e] = "settle" /\ k = Key(e))
    PROVE  /\ \A v \in Versions : \A i \in DOMAIN Actions[v] :
                 Settled(e, v, i) /\ ~(pc[e] = "settle" /\ KeyOf(e, v, i) = Key(e))
                    => Settled(e, v, i)'
           /\ (\A v \in Versions : runs'[<<e, v>>] = "SUCCESS" => runs[<<e, v>>] = "SUCCESS")
                 => RunsTruly(e)'
<1>1. \A m : CanPerform(m)' = CanPerform(m)
  BY DEF CanPerform
<1>2. \A v \in Versions : \A i \in DOMAIN Actions[v] :
         Settled(e, v, i) /\ ~(pc[e] = "settle" /\ KeyOf(e, v, i) = Key(e)) => Settled(e, v, i)'
  BY <1>1, KeysOf DEF Settled
<1>3. ASSUME \A v \in Versions : runs'[<<e, v>>] = "SUCCESS" => runs[<<e, v>>] = "SUCCESS"
      PROVE  RunsTruly(e)'
  <2> SUFFICES ASSUME NEW v \in Versions, runs[<<e, v>>] = "SUCCESS", NEW i \in DOMAIN Actions[v]
               PROVE  Settled(e, v, i)'
    BY <1>3 DEF RunsTruly
  <2>1. Settled(e, v, i)
    BY DEF EngineInv, EventInv, RunsTruly
  <2>2. pc[e] = "settle" /\ KeyOf(e, v, i) = Key(e)
           => CanPerform(Metadata[Actions[v][i]]) = "REQUIRE_APPROVAL"
    BY DEF EngineInv, EventInv, RowIsFree
  <2> QED BY <1>1, <1>2, <2>1, <2>2 DEF Settled
<1> QED BY <1>2, <1>3

\* What a call keeps that neither starts a runner nor writes a SUCCESS or over one.
LEMMA LogIsKept ==
    ASSUME EngineInv, TypeOK', NEW e \in Events, pc[e] # "settle", pc[e] = "lost" => pc'[e] = "lost",
           faults <= faults',
           \A k \in RowsOf(e) : /\ starts'[k] = starts[k]
                                /\ rows[k].status = "SUCCESS" => rows'[k] = rows[k]
                                /\ rows'[k].status = "SUCCESS" => rows'[k] = rows[k]
    PROVE  RowsBelong(e)' /\ DoneFits(e)'
<1>1. faults \in Nat /\ faults' \in Nat
  BY SettingsAssumption DEF EngineInv, TypeOK
<1>2. RowsBelong(e)'
  BY DEF EngineInv, EventInv, RowsBelong, RowsOf
<1>3. DoneFits(e)'
  <2> SUFFICES ASSUME NEW k \in RowsOf(e), NEW m \in DOMAIN starts[k], starts[k][m].done,
                      ~(faults' > 0)
               PROVE  m = Len(starts[k]) /\ (rows'[k].status = "SUCCESS" \/ pc'[e] = "lost")
    BY DEF DoneFits, RowsOf
  <2>1. ~(faults > 0)
    BY <1>1
  <2> QED BY <2>1 DEF EngineInv, EventInv, DoneFits
<1> QED BY <1>2, <1>3

\* The versions without a run are counted.
LEMMA MissingIsFinite ==
    ASSUME NEW S \in SUBSET Versions, NEW T \in SUBSET Versions
    PROVE  /\ Cardinality(S) \in Nat /\ Cardinality(T) \in Nat
           /\ T \subseteq S => Cardinality(T) <= Cardinality(S)
           /\ \A v \in Versions : T \subseteq S \cup {v} => Cardinality(T) <= Cardinality(S) + 1
<1>1. IsFiniteSet(S) /\ IsFiniteSet(T)
  BY RuleAssumption, FS_Subset
<1>2. Cardinality(S) \in Nat /\ Cardinality(T) \in Nat
  BY <1>1, FS_CardinalityType
<1>3. T \subseteq S => Cardinality(T) <= Cardinality(S)
  BY <1>1, FS_Subset
<1>4. ASSUME NEW v \in Versions, T \subseteq S \cup {v}
      PROVE  Cardinality(T) <= Cardinality(S) + 1
  <2>0. /\ IsFiniteSet(S \cup {v})
        /\ Cardinality(S \cup {v}) = IF v \in S THEN Cardinality(S) ELSE Cardinality(S) + 1
    BY <1>1, FS_AddElement, Zenon
  <2>1. IsFiniteSet(S \cup {v}) /\ Cardinality(S \cup {v}) <= Cardinality(S) + 1
    BY <1>2, <2>0
  <2>2. Cardinality(T) <= Cardinality(S \cup {v}) /\ Cardinality(S \cup {v}) \in Nat
    BY <1>4, <2>1, FS_Subset, FS_CardinalityType
  <2> QED BY <1>2, <2>1, <2>2
<1> QED BY <1>2, <1>3, <1>4

\* While an event stays at its version, no version comes to be missing.
LEMMA StillPaid ==
    ASSUME EngineInv, TypeOK', NEW e \in Events,
           Executing(e), Executing(e)', frame'[e].turn = frame[e].turn,
           matched' = matched, setting' = setting, faults <= faults',
           \A v \in Versions : runs'[<<e, v>>] = "none" => runs[<<e, v>>] = "none"
    PROVE  FaultsArePaid(e)'
<1>1. pc[e] # "over" /\ pc'[e] # "over"
  BY DEF Executing, Awaiting
<1>2. Passed(e)' = Passed(e)
  BY <1>1 DEF Passed
<1>3. Missing(e)' \subseteq Missing(e) /\ Missing(e) \in SUBSET Versions /\ Missing(e)' \in SUBSET Versions
  BY <1>2 DEF Missing
<1>4. /\ Cardinality(Missing(e)') <= Cardinality(Missing(e))
      /\ Cardinality(Missing(e)) \in Nat /\ Cardinality(Missing(e)') \in Nat
  BY <1>3, MissingIsFinite
<1>5. faults \in Nat /\ faults' \in Nat
  BY SettingsAssumption DEF EngineInv, TypeOK
<1> QED BY <1>4, <1>5 DEF FaultsArePaid, EngineInv, EventInv

\* What must hold of an event when the executor leaves a version, whether by the end
\* of its actions or by an error.
LEMMA Leaves ==
    ASSUME EngineInv, TypeOK', NEW e \in Events, Executing(e), NextVersion(e),
           matched' = matched, setting' = setting, faults <= faults', RunsTruly(e)',
           RowsBelong(e)', DoneFits(e)',
           \A k \in RowsOf(e) : rows'[k].attempts <= frame[e].turn /\ Len(starts'[k]) <= rows'[k].attempts,
           \A v \in Versions : runs'[<<e, v>>] = "none" => runs[<<e, v>>] = "none",
           runs'[<<e, Version(e)>>] = "none" => faults < faults'
    PROVE  EventInv(e)'
<1> DEFINE turn == frame[e].turn
<1>1. TypeOK /\ FrameFits(e) /\ FaultsArePaid(e)
  BY DEF EngineInv, EventInv
<1>2. /\ turn \in 1..Len(matched[e]) /\ Len(matched[e]) \in Nat /\ turn \in Nat
      /\ Version(e) \in Versions /\ Version(e) = matched[e][turn]
      /\ Len(matched[e]) <= Cardinality(Versions) /\ Cardinality(Versions) \in Nat
  BY <1>1, AtVersion DEF FrameFits
<1>3. \/ pc'[e] = "over" /\ turn = Len(matched[e])
      \/ pc'[e] = "createRun" /\ turn < Len(matched[e]) /\ frame'[e] = Fresh(turn + 1)
  BY <1>1, NextVersions
<1>4. pc'[e] = "createRun" => frame'[e].turn = turn + 1 /\ frame'[e].index = 1
  BY <1>2, <1>3, FreshFrames
<1>5. Executing(e)' => pc'[e] = "createRun"
  BY <1>3 DEF Executing, Awaiting
<1>6. FrameFits(e)' /\ RowIsFresh(e)' /\ VerdictFits(e)' /\ RowIsFree(e)' /\ RunIsCreated(e)'
  BY <1>2, <1>3, <1>4, <1>5 DEF FrameFits, RowIsFresh, VerdictFits, RowIsFree, RunIsCreated
<1>7. AttemptsCover(e)'
  BY DEF AttemptsCover, RowsOf
<1>8. \A k \in RowsOf(e) : rows'[k].attempts \in Nat
  BY <1>2 DEF TypeOK, Row, RowsOf
<1>9. AttemptsFit(e)'
  BY <1>2, <1>3, <1>4, <1>5, <1>8 DEF AttemptsFit, RowsOf
<1>10. SummariesFit(e)'
  <2> SUFFICES ASSUME pc'[e] = "createRun", NEW i \in DOMAIN Actions[Version(e)'], i < frame'[e].index
               PROVE  FALSE
    BY <1>5 DEF SummariesFit
  <2>1. Version(e)' \in Versions
    <3>1. matched[e] \in Matches /\ Version(e)' = matched[e][turn + 1] /\ turn + 1 \in 1..Len(matched[e])
      BY <1>1, <1>2, <1>3, <1>4 DEF Version, TypeOK
    <3> QED BY <3>1, MatchesAreSequences
  <2>2. Actions[Version(e)'] \in Seq(Configs)
    BY <2>1, ActionAssumption
  <2> QED BY <1>4, <2>2
<1>11. FaultsArePaid(e)'
  <2>1. Passed(e) = 1..(turn - 1) /\ Passed(e)' = 1..turn
    <3>1. Passed(e) = 1..(turn - 1)
      BY DEF Passed, Executing, Awaiting
    <3>2. pc'[e] = "over" => Passed(e)' = 1..turn
      BY <1>3 DEF Passed
    <3>3. ASSUME pc'[e] = "createRun" PROVE Passed(e)' = 1..turn
      <4>1. pc'[e] # "over" /\ pc'[e] \in (Awaiting \ {"load"}) \cup {"running"}
        BY <3>3 DEF Awaiting
      <4>2. frame'[e].turn = turn + 1 /\ (turn + 1) - 1 = turn
        BY <1>2, <1>4, <3>3
      <4> QED BY <4>1, <4>2 DEF Passed, Executing
    <3> QED BY <1>3, <3>1, <3>2, <3>3
  <2>2. Missing(e) \in SUBSET Versions /\ Missing(e)' \in SUBSET Versions
    BY DEF Missing
  <2>3. Missing(e)' \subseteq Missing(e) \cup {Version(e)}
    <3>1. \A i \in 1..turn : i = turn \/ i \in 1..(turn - 1)
      BY <1>2
    <3> QED BY <1>2, <2>1, <3>1 DEF Missing
  <2>4. runs'[<<e, Version(e)>>] # "none" => Missing(e)' \subseteq Missing(e)
    <3>1. runs'[<<e, Version(e)>>] # "none" => Version(e) \notin Missing(e)'
      BY DEF Missing
    <3> QED BY <2>3, <3>1
  <2>5. faults \in Nat /\ faults' \in Nat
    BY <1>1, SettingsAssumption DEF TypeOK
  <2>6. /\ Cardinality(Missing(e)) \in Nat /\ Cardinality(Missing(e)') \in Nat
        /\ Cardinality(Missing(e)') <= Cardinality(Missing(e)) + 1
        /\ runs'[<<e, Version(e)>>] # "none" => Cardinality(Missing(e)') <= Cardinality(Missing(e))
    BY <1>2, <2>2, <2>3, <2>4, MissingIsFinite
  <2> QED BY <1>1, <2>5, <2>6 DEF FaultsArePaid
<1> QED BY <1>6, <1>7, <1>9, <1>10, <1>11 DEF EventInv

--------------------------------------------------------------------------------
\* A handler touches its own event only.
LEMMA StepsAreLocal ==
    ASSUME EngineInv, NEW e \in Events, Publish(e) \/ Handle(e) \/ RunnerReturns(e),
           NEW f \in Events \ {e}
    PROVE  /\ pc'[f] = pc[f] /\ frame'[f] = frame[f] /\ matched'[f] = matched[f]
           /\ \A k \in RowsOf(f) : rows'[k] = rows[k] /\ starts'[k] = starts[k]
           /\ \A v \in Versions : runs'[<<f, v>>] = runs[<<f, v>>]
           /\ setting' = setting /\ faults <= faults'
<1>1. TypeOK /\ FrameFits(e)
  BY DEF EngineInv, EventInv
<1>2. pc'[f] = pc[f] /\ frame'[f] = frame[f]
  <2>1. ASSUME NEW phase, NEW locals, Resume(e, phase, locals)
        PROVE  pc'[f] = pc[f] /\ frame'[f] = frame[f]
    BY <1>1, <2>1 DEF Resume, TypeOK
  <2>2. ASSUME NextVersion(e) PROVE pc'[f] = pc[f] /\ frame'[f] = frame[f]
    BY <2>1, <2>2 DEF NextVersion
  <2> QED BY <2>1, <2>2 DEF Publish, Handle, RunnerReturns, Timeout, Finish, LoadMatchingRules,
          CreateAutomationRun, MarkRunRunning, FinalizeAutomationRun, SetRun, Await, Throw,
          FindActionRun, Find, ClaimActionRun, StartAttempt, Start, SettleActionRun, Fails,
          UpdateRuleLastRun
<1>3. matched'[f] = matched[f] /\ setting' = setting
  BY <1>1 DEF Publish, Handle, RunnerReturns, Timeout, Finish, LoadMatchingRules,
     CreateAutomationRun, MarkRunRunning, FinalizeAutomationRun, SetRun, FindActionRun, Find,
     ClaimActionRun, StartAttempt, Start, SettleActionRun, UpdateRuleLastRun, TypeOK, fixed
<1>4. faults <= faults'
  BY <1>1, SettingsAssumption DEF Publish, Handle, RunnerReturns, Timeout, Finish,
     LoadMatchingRules, CreateAutomationRun, MarkRunRunning, FinalizeAutomationRun, SetRun, Await,
     FindActionRun, Find, ClaimActionRun, StartAttempt, Start, SettleActionRun,
     UpdateRuleLastRun, TypeOK, Fault, NoFault
<1>5. \A v \in Versions : runs'[<<f, v>>] = runs[<<f, v>>]
  BY <1>1 DEF Publish, Handle, RunnerReturns, Timeout, Finish, LoadMatchingRules,
     CreateAutomationRun, MarkRunRunning, FinalizeAutomationRun, SetRun, Await, FindActionRun,
     Find, ClaimActionRun, StartAttempt, Start, SettleActionRun, UpdateRuleLastRun, TypeOK, tables
<1>6. \A k \in RowsOf(f) : rows'[k] = rows[k] /\ starts'[k] = starts[k]
  <2>1. RowsOf(f) \subseteq Keys
    BY DEF RowsOf
  <2>2. CASE ClaimActionRun(e) \/ StartAttempt(e) \/ SettleActionRun(e) \/ RunnerReturns(e)
    <3>1. Key(e) \in RowsOf(e)
      BY <1>1, <2>2, KeyAtHand
         DEF ClaimActionRun, StartAttempt, Start, SettleActionRun, RunnerReturns, Finish
    <3>2. \A k \in RowsOf(f) : k # Key(e)
      BY <3>1 DEF RowsOf
    <3> QED BY <1>1, <2>1, <2>2, <3>2 DEF ClaimActionRun, StartAttempt, Start, SettleActionRun,
            RunnerReturns, Finish, tables, Await, TypeOK
  <2>3. CASE ~(ClaimActionRun(e) \/ StartAttempt(e) \/ SettleActionRun(e) \/ RunnerReturns(e))
    BY <2>3 DEF Publish, Handle, Timeout, Finish, LoadMatchingRules,
       CreateAutomationRun, MarkRunRunning, FinalizeAutomationRun, SetRun, FindActionRun, Find,
       UpdateRuleLastRun, tables
  <2> QED BY <2>2, <2>3
<1> QED BY <1>2, <1>3, <1>4, <1>5, <1>6

\* What an executor keeps while it stays at its version.
LEMMA Stays ==
    ASSUME EngineInv, TypeOK', NEW e \in Events,
           Executing(e), Executing(e)', frame'[e].turn = frame[e].turn,
           matched' = matched, setting' = setting, faults <= faults',
           \A v \in Versions : /\ runs'[<<e, v>>] = "none" => runs[<<e, v>>] = "none"
                               /\ runs'[<<e, v>>] = "SUCCESS" => runs[<<e, v>>] = "SUCCESS",
           \A k \in RowsOf(e) : rows[k].status = "SUCCESS" =>
               rows'[k].status = "SUCCESS" \/ (pc[e] = "settle" /\ k = Key(e))
    PROVE  /\ FaultsArePaid(e)' /\ RunsTruly(e)' /\ Version(e)' = Version(e)
           /\ pc[e] \in {"claim", "attempt", "running", "settle"} /\ frame'[e].index = frame[e].index
                 => RowIsFree(e)'
           /\ \A m : CanPerform(m)' = CanPerform(m)
           /\ \A i \in DOMAIN Actions[Version(e)] :
                 Settled(e, Version(e), i) /\ i # frame[e].index => Settled(e, Version(e), i)'
           /\ frame'[e].index = frame[e].index /\ frame[e].summaries \subseteq frame'[e].summaries
                 => SummariesFit(e)'
<1>1. TypeOK /\ FrameFits(e) /\ SummariesFit(e)
  BY DEF EngineInv, EventInv
<1>2. Version(e)' = Version(e) /\ Version(e) \in Versions
  BY <1>1, AtVersion DEF Version
<1>3. \A i \in DOMAIN Actions[Version(e)] :
         Settled(e, Version(e), i) /\ i # frame[e].index => Settled(e, Version(e), i)'
  <2>1. \A i \in DOMAIN Actions[Version(e)] :
           KeyOf(e, Version(e), i) = Key(e) /\ pc[e] = "settle" => i = frame[e].index
    BY <1>1, KeyAtHand DEF KeyOf
  <2> QED BY <1>2, <2>1, TruthIsKept
<1>4. RunsTruly(e)' /\ FaultsArePaid(e)'
  BY TruthIsKept, StillPaid
<1>5. \A m : CanPerform(m)' = CanPerform(m)
  BY DEF CanPerform
<1>6. ASSUME frame'[e].index = frame[e].index, frame[e].summaries \subseteq frame'[e].summaries
      PROVE  SummariesFit(e)'
  <2> SUFFICES ASSUME NEW i \in DOMAIN Actions[Version(e)], i < frame[e].index,
                      ~Settled(e, Version(e), i)'
               PROVE  {"FAILED", "RETRYING"} \cap frame'[e].summaries # {}
    BY <1>2, <1>6 DEF SummariesFit
  <2>1. frame[e].index \in Nat /\ i \in Nat
    BY <1>1, <1>2, AtVersion
  <2> QED BY <1>1, <1>3, <1>6, <2>1 DEF SummariesFit
<1>7. ASSUME pc[e] \in {"claim", "attempt", "running", "settle"}, frame'[e].index = frame[e].index
      PROVE  RowIsFree(e)'
  <2>1. Key(e)' = Key(e)
    BY <1>2, <1>7 DEF Key, KeyOf
  <2>2. \A v \in Versions : runs'[<<e, v>>] = "SUCCESS" => \A i \in DOMAIN Actions[v] :
            KeyOf(e, v, i) = Key(e) => CanPerform(Metadata[Actions[v][i]]) = "REQUIRE_APPROVAL"
    BY <1>7 DEF EngineInv, EventInv, RowIsFree
  <2> QED BY <1>5, <2>1, <2>2 DEF RowIsFree, KeyOf
<1> QED BY <1>2, <1>3, <1>4, <1>5, <1>6, <1>7


--------------------------------------------------------------------------------
(***************************************************************************)
(* Each handler keeps what holds of its event.                             *)
(***************************************************************************)
LEMMA PublishKeeps ==
    ASSUME EngineInv, TypeOK', NEW e \in Events, Publish(e)
    PROVE  EventInv(e)'
<1>1. TypeOK /\ EventInv(e) /\ pc[e] = "idle"
  BY DEF EngineInv, EventInv, Publish
<1>2. pc'[e] = "load"
  BY <1>1 DEF Publish, Resume, TypeOK
<1>3. /\ matched' = matched /\ runs' = runs /\ rows' = rows /\ starts' = starts /\ setting' = setting
      /\ faults' = faults
  BY DEF Publish, fixed, tables
<1>4. ~Executing(e)'
  BY <1>2 DEF Executing, Awaiting
<1>5. FrameFits(e)' /\ RowIsFresh(e)' /\ VerdictFits(e)' /\ SummariesFit(e)' /\ RowIsFree(e)'
      /\ RunIsCreated(e)'
  BY <1>1, <1>2, <1>3, <1>4 DEF EventInv, FrameFits, RowIsFresh, VerdictFits, SummariesFit, RowIsFree,
     RunIsCreated
<1>6. AttemptsFit(e)' /\ AttemptsCover(e)'
  BY <1>1, <1>3, <1>4 DEF EventInv, AttemptsFit, AttemptsCover, RowsOf
<1>7. RunsTruly(e)'
  BY <1>3, TruthIsKept
<1>8. Missing(e)' = Missing(e)
  BY <1>1, <1>2, <1>3, <1>4 DEF Missing, Passed, Executing, Awaiting
<1>9. FaultsArePaid(e)'
  BY <1>1, <1>3, <1>8 DEF EventInv, FaultsArePaid
<1>10. RowsBelong(e)' /\ DoneFits(e)'
  <2>1. faults <= faults'
    BY <1>1, <1>3, SettingsAssumption DEF TypeOK
  <2> QED BY <1>1, <1>2, <1>3, <2>1, LogIsKept
<1> QED BY <1>5, <1>6, <1>7, <1>9, <1>10 DEF EventInv

\* The matched versions are loaded: the executor starts at the first, if any.
LEMMA LoadKeeps ==
    ASSUME EngineInv, TypeOK', NEW e \in Events, LoadMatchingRules(e)
    PROVE  EventInv(e)'
<1>1. TypeOK /\ EventInv(e) /\ pc[e] = "load" /\ matched[e] = <<>>
  BY DEF EngineInv, EventInv, FrameFits, LoadMatchingRules
<1>2. /\ runs' = runs /\ rows' = rows /\ starts' = starts /\ setting' = setting
  BY DEF LoadMatchingRules, fixed, tables
<1>3. /\ frame'[e] = Fresh(1)
      /\ \/ pc'[e] = "over" /\ (matched'[e] = <<>> \/ setting.dryRun)
         \/ pc'[e] = "createRun" /\ matched'[e] # <<>>
  BY <1>1 DEF LoadMatchingRules, Resume, TypeOK
<1>4. matched'[e] \in Matches /\ faults' \in Nat
  BY SettingsAssumption DEF TypeOK
<1>5. /\ Len(matched'[e]) \in Nat
      /\ matched'[e] # <<>> => 1 \in 1..Len(matched'[e])
      /\ matched'[e] = <<>> => Len(matched'[e]) = 0
  BY <1>4, MatchesAreSequences
<1>6. Executing(e)' => pc'[e] = "createRun"
  BY <1>3 DEF Executing, Awaiting
<1>7. frame'[e].turn = 1 /\ frame'[e].index = 1
  BY <1>3 DEF Fresh
<1>8. FrameFits(e)' /\ RowIsFresh(e)' /\ VerdictFits(e)' /\ RowIsFree(e)' /\ RunIsCreated(e)'
  BY <1>3, <1>5, <1>6, <1>7 DEF FrameFits, RowIsFresh, VerdictFits, RowIsFree, RunIsCreated
<1>9. AttemptsFit(e)' /\ AttemptsCover(e)'
  BY <1>1, <1>2, <1>3, <1>7 DEF EventInv, AttemptsFit, AttemptsCover, RowsOf
<1>10. RunsTruly(e)'
  BY <1>2, TruthIsKept
<1>11. SummariesFit(e)'
  <2> SUFFICES ASSUME Executing(e)', NEW i \in DOMAIN Actions[Version(e)'], i < 1
               PROVE  FALSE
    BY <1>7 DEF SummariesFit
  <2>1. Version(e)' = matched'[e][1] /\ matched'[e] # <<>>
    BY <1>3, <1>6, <1>7 DEF Version
  <2>2. Version(e)' \in Versions
    BY <1>4, <1>5, <2>1, MatchesAreSequences
  <2>3. Actions[Version(e)'] \in Seq(Configs)
    BY <2>2, ActionAssumption
  <2> QED BY <2>3
<1>12. FaultsArePaid(e)'
  <2>1. CASE setting.dryRun
    BY <1>2, <2>1 DEF FaultsArePaid
  <2>2. CASE ~setting.dryRun
    <3>1. Passed(e)' = {}
      <4>1. CASE pc'[e] = "over"
        BY <1>3, <1>5, <2>2, <4>1 DEF Passed
      <4>2. CASE pc'[e] = "createRun"
        BY <1>7, <4>2 DEF Passed, Executing, Awaiting
      <4> QED BY <1>3, <4>1, <4>2
    <3>2. Missing(e)' = {}
      BY <3>1 DEF Missing
    <3> QED BY <1>4, <3>2, FS_EmptySet DEF FaultsArePaid
  <2> QED BY <2>1, <2>2
<1>13. RowsBelong(e)' /\ DoneFits(e)'
  <2>1. faults <= faults'
    BY <1>1, SettingsAssumption DEF LoadMatchingRules, Fault, NoFault, TypeOK
  <2> QED BY <1>1, <1>2, <2>1, LogIsKept
<1> QED BY <1>8, <1>9, <1>10, <1>11, <1>12, <1>13 DEF EventInv

\* What the rows of an event are when an executor leaves a version.
LEMMA AttemptsByTurn ==
    ASSUME EngineInv, NEW e \in Events, Executing(e), NEW k \in RowsOf(e)
    PROVE  /\ rows[k].attempts <= frame[e].turn /\ Len(starts[k]) <= rows[k].attempts
           /\ rows[k].attempts \in Nat /\ Len(starts[k]) \in Nat /\ frame[e].turn \in Nat
BY RuleAssumption, FS_CardinalityType, LogsOf
   DEF EngineInv, EventInv, AttemptsFit, AttemptsCover, TypeOK, Row, Frame, RowsOf

\* The run of a version is created, or the call fails and the version is without a run.
LEMMA CreateKeeps ==
    ASSUME EngineInv, TypeOK', NEW e \in Events, CreateAutomationRun(e)
    PROVE  EventInv(e)'
<1>1. TypeOK /\ EventInv(e) /\ FrameFits(e) /\ pc[e] = "createRun" /\ Executing(e)
  BY DEF EngineInv, EventInv, CreateAutomationRun, SetRun, Executing, Awaiting
<1>2. /\ matched' = matched /\ rows' = rows /\ starts' = starts /\ setting' = setting
      /\ runs' \in {runs, [runs EXCEPT ![<<e, Version(e)>>] = "PENDING"]}
  BY DEF CreateAutomationRun, SetRun, Await, fixed
<1>3. /\ Version(e) \in Versions /\ faults \in Nat
      /\ \A v \in Versions : /\ runs'[<<e, v>>] = "none" => runs[<<e, v>>] = "none"
                             /\ runs'[<<e, v>>] = "SUCCESS" => runs[<<e, v>>] = "SUCCESS"
  <2>1. Version(e) \in Versions /\ faults \in Nat
    BY <1>1, AtVersion, SettingsAssumption DEF TypeOK
  <2> QED BY <1>1, <1>2, <2>1 DEF TypeOK
<1>4. CASE NextVersion(e) /\ faults' = faults + 1
  <2>1. RunsTruly(e)'
    BY <1>2, <1>3, TruthIsKept
  <2>2. RowsBelong(e)' /\ DoneFits(e)'
    BY <1>1, <1>2, <1>3, <1>4, LogIsKept
  <2> QED BY <1>1, <1>2, <1>3, <1>4, <2>1, <2>2, Leaves, AttemptsByTurn
<1>5. CASE /\ Resume(e, "markRunning", frame[e]) /\ faults' = faults
           /\ runs' = [runs EXCEPT ![<<e, Version(e)>>] = "PENDING"]
  <2>1. pc'[e] = "markRunning" /\ frame'[e] = frame[e] /\ Executing(e)'
    BY <1>1, <1>5 DEF Resume, TypeOK, Executing, Awaiting
  <2>2. /\ Version(e)' = Version(e) /\ RunsTruly(e)' /\ FaultsArePaid(e)' /\ SummariesFit(e)'
    BY <1>1, <1>2, <1>3, <1>5, <2>1, Stays
  <2>3. FrameFits(e)' /\ RowIsFresh(e)' /\ VerdictFits(e)' /\ RowIsFree(e)'
    BY <1>1, <1>2, <2>1, <2>2 DEF FrameFits, RowIsFresh, VerdictFits, RowIsFree
  <2>4. RunIsCreated(e)'
    BY <1>1, <1>3, <1>5, <2>2 DEF RunIsCreated, TypeOK
  <2>5. AttemptsFit(e)' /\ AttemptsCover(e)'
    BY <1>1, <1>2, <2>1 DEF EventInv, AttemptsFit, AttemptsCover, RowsOf, Untried
  <2>6. RowsBelong(e)' /\ DoneFits(e)'
    BY <1>1, <1>2, <1>3, <1>5, LogIsKept
  <2> QED BY <2>2, <2>3, <2>4, <2>5, <2>6 DEF EventInv
<1> QED BY <1>2, <1>4, <1>5 DEF CreateAutomationRun, SetRun, Await, Throw, Fault, NoFault

\* The run is marked RUNNING, and the executor is at its first action.
LEMMA MarkKeeps ==
    ASSUME EngineInv, TypeOK', NEW e \in Events, MarkRunRunning(e)
    PROVE  EventInv(e)'
<1>1. /\ TypeOK /\ EventInv(e) /\ FrameFits(e) /\ pc[e] = "markRunning" /\ Executing(e)
      /\ frame[e].index = 1
  BY DEF EngineInv, EventInv, FrameFits, MarkRunRunning, SetRun, Executing, Awaiting
<1>2. /\ matched' = matched /\ rows' = rows /\ starts' = starts /\ setting' = setting
      /\ runs' \in {runs, [runs EXCEPT ![<<e, Version(e)>>] = "RUNNING"]}
  BY DEF MarkRunRunning, SetRun, Await, fixed
<1>3. /\ Version(e) \in Versions /\ faults \in Nat /\ runs'[<<e, Version(e)>>] # "none"
      /\ \A v \in Versions : /\ runs'[<<e, v>>] = "none" => runs[<<e, v>>] = "none"
                             /\ runs'[<<e, v>>] = "SUCCESS" => runs[<<e, v>>] = "SUCCESS"
  <2>1. Version(e) \in Versions /\ faults \in Nat /\ runs[<<e, Version(e)>>] # "none"
    BY <1>1, AtVersion, SettingsAssumption DEF TypeOK, EventInv, RunIsCreated
  <2> QED BY <1>1, <1>2, <2>1 DEF TypeOK
<1>4. CASE NextVersion(e) /\ faults' = faults + 1
  <2>1. RunsTruly(e)'
    BY <1>2, <1>3, TruthIsKept
  <2>2. RowsBelong(e)' /\ DoneFits(e)'
    BY <1>1, <1>2, <1>3, <1>4, LogIsKept
  <2> QED BY <1>1, <1>2, <1>3, <1>4, <2>1, <2>2, Leaves, AttemptsByTurn
<1>5. CASE Resume(e, From(1, e), frame[e]) /\ faults' = faults
  <2>1. pc'[e] = From(1, e) /\ frame'[e] = frame[e] /\ Executing(e)'
    BY <1>1, <1>5, Onward DEF Resume, TypeOK, Executing, Awaiting
  <2>2. /\ Version(e)' = Version(e) /\ RunsTruly(e)' /\ FaultsArePaid(e)' /\ SummariesFit(e)'
    BY <1>1, <1>2, <1>3, <1>5, <2>1, Stays
  <2>3. Actions[Version(e)] \in Seq(Configs)
    BY <1>3, ActionAssumption
  <2>4. \/ pc'[e] = "find" /\ 1 \in 1..Len(Actions[Version(e)])
        \/ pc'[e] = "finalize" /\ 1 = Len(Actions[Version(e)]) + 1
    BY <2>1, <2>3 DEF From
  <2>5. FrameFits(e)' /\ RowIsFresh(e)' /\ VerdictFits(e)' /\ RowIsFree(e)'
    BY <1>1, <1>2, <2>1, <2>2, <2>4 DEF FrameFits, RowIsFresh, VerdictFits, RowIsFree
  <2>6. RunIsCreated(e)'
    BY <1>3, <2>2 DEF RunIsCreated
  <2>7. AttemptsFit(e)' /\ AttemptsCover(e)'
    BY <1>1, <1>2, <2>1, <2>4 DEF EventInv, AttemptsFit, AttemptsCover, RowsOf, Untried
  <2>8. RowsBelong(e)' /\ DoneFits(e)'
    BY <1>1, <1>2, <1>3, <1>5, LogIsKept
  <2> QED BY <2>2, <2>5, <2>6, <2>7, <2>8 DEF EventInv
<1> QED BY <1>2, <1>4, <1>5 DEF MarkRunRunning, SetRun, Await, Throw, Fault, NoFault


\* What an executor has when it is at an action.
LEMMA AtAction ==
    ASSUME EngineInv, NEW e \in Events, pc[e] \in {"find", "claim", "attempt", "running", "settle"}
    PROVE  /\ TypeOK /\ EventInv(e) /\ FrameFits(e) /\ RunIsCreated(e) /\ Executing(e)
           /\ frame[e] \in Frame /\ faults \in Nat /\ runs[<<e, Version(e)>>] # "none"
           /\ Key(e) \in RowsOf(e) /\ Key(e).index = frame[e].index
           /\ Key(e) = KeyOf(e, Version(e), frame[e].index)
           /\ Config(e) = Actions[Version(e)][frame[e].index]
           /\ Version(e) \in Versions /\ Actions[Version(e)] \in Seq(Configs)
           /\ frame[e].index \in 1..Len(Actions[Version(e)]) /\ Config(e) \in Configs
<1>1. TypeOK /\ EventInv(e) /\ FrameFits(e) /\ RunIsCreated(e)
  BY DEF EngineInv, EventInv
<1>2. frame[e] \in Frame /\ faults \in Nat
  BY <1>1, SettingsAssumption DEF TypeOK
<1>3. Executing(e) /\ pc[e] # "createRun"
  BY DEF Executing, Awaiting
<1>4. runs[<<e, Version(e)>>] # "none"
  BY <1>1, <1>3 DEF RunIsCreated
<1>5. frame[e].index \in 1..Len(Actions[Version(e)])
  BY <1>1, <1>3 DEF FrameFits
<1>6. Version(e) \in Versions /\ Actions[Version(e)] \in Seq(Configs)
  BY <1>1, <1>3, AtVersion
<1> QED BY <1>1, <1>2, <1>3, <1>4, <1>5, <1>6, KeyAtHand

\* The row is read: it says SUCCESS, which settles the action, or it is claimed as it is.
LEMMA FindKeeps ==
    ASSUME EngineInv, TypeOK', NEW e \in Events, FindActionRun(e)
    PROVE  EventInv(e)'
<1>1. /\ TypeOK /\ EventInv(e) /\ FrameFits(e) /\ pc[e] = "find" /\ Executing(e)
      /\ RunIsCreated(e) /\ frame[e] \in Frame
  BY AtAction DEF FindActionRun, Find
<1>2. /\ matched' = matched /\ rows' = rows /\ starts' = starts /\ setting' = setting /\ runs' = runs
  BY DEF FindActionRun, Find, fixed, tables
<1>3. /\ faults \in Nat /\ runs[<<e, Version(e)>>] # "none"
      /\ Key(e) \in RowsOf(e) /\ Key(e).index = frame[e].index
      /\ Key(e) = KeyOf(e, Version(e), frame[e].index)
      /\ Version(e) \in Versions /\ Actions[Version(e)] \in Seq(Configs)
      /\ frame[e].index \in 1..Len(Actions[Version(e)])
  BY <1>1, AtAction
<1>4. CASE NextVersion(e) /\ faults' = faults + 1
  <2>1. RunsTruly(e)'
    BY <1>2, TruthIsKept
  <2>2. RowsBelong(e)' /\ DoneFits(e)'
    BY <1>1, <1>2, <1>3, <1>4, LogIsKept
  <2> QED BY <1>1, <1>2, <1>3, <1>4, <2>1, <2>2, Leaves, AttemptsByTurn
<1>5. CASE /\ rows[Key(e)].status = "SUCCESS" /\ faults' = faults
           /\ Resume(e, From(frame[e].index + 1, e), Summarized(e, "SKIPPED"))
  <2>1. /\ pc'[e] = From(frame[e].index + 1, e) /\ frame'[e] = Summarized(e, "SKIPPED")
        /\ pc'[e] \in {"find", "finalize"} /\ Executing(e)'
    BY <1>1, <1>5, Onward DEF Resume, TypeOK, Executing, Awaiting
  <2>2. /\ frame'[e].turn = frame[e].turn /\ frame'[e].index = frame[e].index + 1
        /\ frame'[e].summaries = frame[e].summaries \cup {"SKIPPED"}
    BY <1>1, <2>1 DEF Summarized, Frame
  <2>3. /\ Version(e)' = Version(e) /\ RunsTruly(e)' /\ FaultsArePaid(e)'
        /\ \A i \in DOMAIN Actions[Version(e)] :
              Settled(e, Version(e), i) /\ i # frame[e].index => Settled(e, Version(e), i)'
    BY <1>1, <1>2, <1>3, <1>5, <2>1, <2>2, Stays
  <2>4. \/ pc'[e] = "find" /\ frame[e].index + 1 \in 1..Len(Actions[Version(e)])
        \/ pc'[e] = "finalize" /\ frame[e].index + 1 = Len(Actions[Version(e)]) + 1
    BY <1>3, <2>1 DEF From
  <2>5. FrameFits(e)' /\ RowIsFresh(e)' /\ VerdictFits(e)' /\ RowIsFree(e)'
    BY <1>1, <1>2, <2>1, <2>2, <2>3, <2>4 DEF FrameFits, RowIsFresh, VerdictFits, RowIsFree
  <2>6. RunIsCreated(e)'
    BY <1>2, <1>3, <2>3 DEF RunIsCreated
  <2>7. AttemptsFit(e)' /\ AttemptsCover(e)'
    <3>1. \A k \in RowsOf(e) : k.index \in Nat
      BY ActionAssumption DEF RowsOf, Keys, Indices
    <3> QED BY <1>1, <1>2, <1>3, <2>1, <2>2, <3>1 DEF EventInv, AttemptsFit, AttemptsCover, RowsOf, Untried
  <2>8. SummariesFit(e)'
    <3> SUFFICES ASSUME NEW i \in DOMAIN Actions[Version(e)], i < frame[e].index + 1
                 PROVE  \/ {"FAILED", "RETRYING"} \cap frame'[e].summaries # {}
                        \/ Settled(e, Version(e), i)'
      BY <2>2, <2>3 DEF SummariesFit
    <3>1. CASE i = frame[e].index
      BY <1>2, <1>3, <1>5, <2>3, <3>1 DEF Settled
    <3>2. CASE i < frame[e].index
      <4>1. i # frame[e].index
        BY <1>3, <3>2
      <4> QED BY <1>1, <2>2, <2>3, <3>2, <4>1 DEF EventInv, SummariesFit
    <3> QED BY <1>3, <3>1, <3>2
  <2>9. RowsBelong(e)' /\ DoneFits(e)'
    BY <1>1, <1>2, <1>3, <1>5, LogIsKept
  <2> QED BY <2>3, <2>5, <2>6, <2>7, <2>8, <2>9 DEF EventInv
<1>6. CASE /\ rows[Key(e)].status # "SUCCESS" /\ faults' = faults
           /\ Resume(e, "claim", frame[e])
  <2>1. pc'[e] = "claim" /\ frame'[e] = frame[e] /\ Executing(e)'
    BY <1>1, <1>6 DEF Resume, TypeOK, Executing, Awaiting
  <2>2. /\ frame'[e].turn = frame[e].turn /\ frame'[e].index = frame[e].index
        /\ frame'[e].summaries = frame[e].summaries
    BY <2>1
  <2>3. /\ Version(e)' = Version(e) /\ RunsTruly(e)' /\ FaultsArePaid(e)' /\ SummariesFit(e)'
    <3>1. faults <= faults' /\ frame[e].summaries \subseteq frame'[e].summaries
      BY <1>3, <1>6, <2>2
    <3> QED BY <1>1, <1>2, <2>1, <2>2, <3>1, Stays
  <2>4. Key(e)' = Key(e) /\ \A m : CanPerform(m)' = CanPerform(m)
    BY <1>2, <2>2, <2>3 DEF Key, KeyOf, CanPerform
  <2>5. FrameFits(e)' /\ RowIsFresh(e)' /\ VerdictFits(e)'
    BY <1>1, <1>2, <1>6, <2>1, <2>2, <2>3, <2>4 DEF FrameFits, RowIsFresh, VerdictFits
  <2>6. RunIsCreated(e)'
    BY <1>2, <1>3, <2>3 DEF RunIsCreated
  <2>7. AttemptsFit(e)' /\ AttemptsCover(e)'
    BY <1>1, <1>2, <2>1, <2>2 DEF EventInv, AttemptsFit, AttemptsCover, RowsOf, Untried
  <2>8. RowIsFree(e)'
    <3> SUFFICES ASSUME NEW v \in Versions, runs[<<e, v>>] = "SUCCESS", NEW i \in DOMAIN Actions[v],
                        KeyOf(e, v, i) = Key(e)
                 PROVE  CanPerform(Metadata[Actions[v][i]]) = "REQUIRE_APPROVAL"
      BY <1>2, <2>4 DEF RowIsFree, KeyOf
    <3> QED BY <1>1, <1>6 DEF EventInv, RunsTruly, Settled
  <2>9. RowsBelong(e)' /\ DoneFits(e)'
    BY <1>1, <1>2, <1>3, <1>6, LogIsKept
  <2> QED BY <2>3, <2>5, <2>6, <2>7, <2>8, <2>9 DEF EventInv
<1> QED BY <1>4, <1>5, <1>6 DEF FindActionRun, Find, Throw, Fault, NoFault

\* The row is claimed: its attempts stay those that were read.
LEMMA ClaimKeeps ==
    ASSUME EngineInv, TypeOK', NEW e \in Events, ClaimActionRun(e)
    PROVE  EventInv(e)'
<1>1. /\ TypeOK /\ EventInv(e) /\ FrameFits(e) /\ pc[e] = "claim" /\ Executing(e)
      /\ RunIsCreated(e) /\ frame[e] \in Frame
  BY AtAction DEF ClaimActionRun
<1>2. /\ matched' = matched /\ starts' = starts /\ setting' = setting /\ runs' = runs
      /\ rows' \in {rows, [rows EXCEPT ![Key(e)] = [@ EXCEPT !.status = "PENDING", !.config = Config(e)]]}
  BY DEF ClaimActionRun, Await, fixed
<1>3. /\ faults \in Nat /\ runs[<<e, Version(e)>>] # "none"
      /\ Key(e) \in RowsOf(e) /\ Key(e).index = frame[e].index
      /\ frame[e].index \in 1..Len(Actions[Version(e)])
  BY <1>1, AtAction
<1>4. rows[Key(e)].status # "SUCCESS"
  BY <1>1 DEF EventInv, RowIsFresh
<1>5. \A k \in RowsOf(e) : /\ rows'[k].attempts = rows[k].attempts
                           /\ rows[k].status = "SUCCESS" => rows'[k].status = "SUCCESS"
                           /\ k = Key(e) => rows'[k].status # "SUCCESS"
                           /\ k # Key(e) => rows'[k] = rows[k]
  <2>1. \A k \in RowsOf(e) : k # Key(e) => rows'[k] = rows[k]
    BY <1>1, <1>2 DEF TypeOK, RowsOf
  <2>2. rows'[Key(e)].attempts = rows[Key(e)].attempts /\ rows'[Key(e)].status # "SUCCESS"
    <3>1. Key(e) \in Keys /\ rows[Key(e)] \in Row
      BY <1>1, <1>3 DEF TypeOK, RowsOf
    <3>2. rows'[Key(e)] \in {rows[Key(e)], [rows[Key(e)] EXCEPT !.status = "PENDING", !.config = Config(e)]}
      BY <1>1, <1>2, <3>1 DEF TypeOK
    <3> QED BY <1>4, <3>1, <3>2 DEF Row
  <2> QED BY <1>4, <2>1, <2>2
<1>6. ASSUME faults <= faults' PROVE RowsBelong(e)' /\ DoneFits(e)'
  BY <1>1, <1>2, <1>4, <1>5, <1>6, LogIsKept
<1>7. CASE NextVersion(e) /\ faults' = faults + 1
  <2>1. RunsTruly(e)'
    BY <1>2, <1>5, TruthIsKept
  <2> QED BY <1>1, <1>2, <1>3, <1>5, <1>7, <1>6, <2>1, Leaves, AttemptsByTurn
<1>8. CASE /\ faults' = faults
           /\ rows' = [rows EXCEPT ![Key(e)] = [@ EXCEPT !.status = "PENDING", !.config = Config(e)]]
           /\ Resume(e, IF Config(e) \in Registered THEN "attempt" ELSE "settle", Claimed(e))
  <2>1. pc'[e] \in {"attempt", "settle"} /\ frame'[e] = Claimed(e) /\ Executing(e)'
    BY <1>1, <1>8 DEF Resume, TypeOK, Executing, Awaiting
  <2>2. /\ frame'[e].turn = frame[e].turn /\ frame'[e].index = frame[e].index
        /\ frame'[e].summaries = frame[e].summaries /\ frame'[e].attempts = rows[Key(e)].attempts
        /\ frame'[e].verdict = "FAILED"
    BY <1>1, <2>1 DEF Frame, Claimed
  <2>3. /\ Version(e)' = Version(e) /\ RunsTruly(e)' /\ FaultsArePaid(e)' /\ SummariesFit(e)'
        /\ RowIsFree(e)'
    BY <1>1, <1>2, <1>3, <1>5, <1>8, <2>1, <2>2, Stays
  <2>4. Key(e)' = Key(e) /\ Config(e)' = Config(e) /\ rows'[Key(e)].config = Config(e)
    BY <1>1, <1>3, <1>8, <2>2, <2>3 DEF Key, KeyOf, Config, TypeOK, Row, RowsOf
  <2>5. FrameFits(e)' /\ RowIsFresh(e)' /\ VerdictFits(e)'
    BY <1>1, <1>2, <1>3, <1>4, <1>5, <2>1, <2>2, <2>3, <2>4 DEF FrameFits, RowIsFresh, VerdictFits
  <2>6. RunIsCreated(e)'
    BY <1>2, <1>3, <2>3 DEF RunIsCreated
  <2>7. AttemptsFit(e)' /\ AttemptsCover(e)'
    BY <1>1, <1>2, <1>5, <2>1, <2>2 DEF EventInv, AttemptsFit, AttemptsCover, RowsOf, Untried
  <2>8. RowsBelong(e)' /\ DoneFits(e)'
    BY <1>3, <1>8, <1>6
  <2> QED BY <2>3, <2>5, <2>6, <2>7, <2>8 DEF EventInv
<1> QED BY <1>2, <1>7, <1>8 DEF ClaimActionRun, Await, Throw, Fault, NoFault


\* The attempt is written: one more than the row's, and at most one for each version.
LEMMA StartKeeps ==
    ASSUME EngineInv, TypeOK', NEW e \in Events, StartAttempt(e)
    PROVE  EventInv(e)'
<1> DEFINE written == [rows[Key(e)] EXCEPT !.status = "RUNNING", !.attempts = frame[e].attempts + 1]
           run     == [config |-> Config(e), done |-> FALSE]
<1>1. /\ TypeOK /\ EventInv(e) /\ FrameFits(e) /\ pc[e] = "attempt" /\ Executing(e)
      /\ RunIsCreated(e) /\ frame[e] \in Frame
  BY AtAction DEF StartAttempt, Start
<1>2. /\ matched' = matched /\ setting' = setting /\ runs' = runs
      /\ rows' \in {rows, [rows EXCEPT ![Key(e)] = written]}
      /\ starts' \in {starts, [starts EXCEPT ![Key(e)] = Append(@, run)]}
      /\ starts' # starts => rows' = [rows EXCEPT ![Key(e)] = written]
  BY DEF StartAttempt, Start, fixed
<1>3. /\ faults \in Nat /\ runs[<<e, Version(e)>>] # "none"
      /\ Key(e) \in RowsOf(e) /\ Key(e) \in Keys /\ Key(e).index = frame[e].index
      /\ Config(e) = Actions[Version(e)][frame[e].index]
      /\ frame[e].index \in 1..Len(Actions[Version(e)]) /\ run \in Execution
  BY <1>1, AtAction DEF RowsOf, Execution
<1>4. /\ rows[Key(e)].status # "SUCCESS" /\ frame[e].attempts = rows[Key(e)].attempts
      /\ rows[Key(e)].config = Config(e)
      /\ rows[Key(e)].attempts < frame[e].turn
  BY <1>1, <1>3 DEF EventInv, RowIsFresh, AttemptsFit, Untried
<1>5. \A k \in RowsOf(e) : /\ rows[k].attempts <= frame[e].turn /\ Len(starts[k]) <= rows[k].attempts
                           /\ rows[k].attempts \in Nat /\ Len(starts[k]) \in Nat /\ frame[e].turn \in Nat
  BY <1>1, AttemptsByTurn
<1>6. \A k \in RowsOf(e) \ {Key(e)} : rows'[k] = rows[k] /\ starts'[k] = starts[k]
  BY <1>1, <1>2 DEF TypeOK, RowsOf
<1>7. \/ rows'[Key(e)] = rows[Key(e)] /\ starts'[Key(e)] = starts[Key(e)]
      \/ /\ rows'[Key(e)] = written
         /\ starts'[Key(e)] \in {starts[Key(e)], Append(starts[Key(e)], run)}
  BY <1>1, <1>2, <1>3 DEF TypeOK
<1>8. rows[Key(e)] \in Row /\ starts[Key(e)] \in Seq(Execution)
  BY <1>1, <1>3 DEF TypeOK
<1>9. written.status = "RUNNING" /\ written.attempts = frame[e].attempts + 1 /\ written.config = Config(e)
  BY <1>4, <1>8 DEF Row
<1>10. Len(Append(starts[Key(e)], run)) = Len(starts[Key(e)]) + 1
  BY <1>3, <1>8, Logs
<1> HIDE DEF written, run
<1>11. rows'[Key(e)].status # "SUCCESS" /\ rows'[Key(e)].attempts <= frame[e].turn
      /\ rows'[Key(e)].config = Config(e)
  BY <1>3, <1>4, <1>5, <1>7, <1>9
<1>12. Len(starts'[Key(e)]) <= rows'[Key(e)].attempts
  BY <1>3, <1>4, <1>5, <1>7, <1>9, <1>10
<1>13. \A k \in RowsOf(e) : /\ rows'[k].attempts <= frame[e].turn /\ Len(starts'[k]) <= rows'[k].attempts
                            /\ rows[k].status = "SUCCESS" => rows'[k].status = "SUCCESS"
  BY <1>4, <1>5, <1>6, <1>11, <1>12
<1>14. ASSUME faults' \in {faults, faults + 1} PROVE RowsBelong(e)' /\ DoneFits(e)'
  <2>1. RowsBelong(e)'
    BY <1>1, <1>6, <1>11 DEF EventInv, RowsBelong, RowsOf
  <2>2. DoneFits(e)'
    <3> SUFFICES ASSUME NEW k \in RowsOf(e), NEW m \in DOMAIN starts'[k], starts'[k][m].done,
                        ~(faults' > 0)
                 PROVE  m = Len(starts'[k]) /\ rows'[k].status = "SUCCESS"
      BY DEF DoneFits, RowsOf
    <3>1. ~(faults > 0)
      BY <1>3, <1>14
    <3>2. CASE k # Key(e)
      BY <1>1, <1>6, <3>1, <3>2 DEF EventInv, DoneFits
    <3>3. ~ \E n \in DOMAIN starts[Key(e)] : starts[Key(e)][n].done
      BY <1>1, <1>3, <1>4, <3>1 DEF EventInv, DoneFits
    <3>4. ~ \E n \in DOMAIN Append(starts[Key(e)], run) : Append(starts[Key(e)], run)[n].done
      <4> SUFFICES ASSUME NEW n \in 1..(Len(starts[Key(e)]) + 1) PROVE ~Append(starts[Key(e)], run)[n].done
        BY <1>3, <1>8, Logs
      <4>1. CASE n = Len(starts[Key(e)]) + 1
        BY <1>3, <1>8, <4>1, Logs DEF run
      <4>2. CASE n \in 1..Len(starts[Key(e)])
        BY <1>3, <1>8, <3>3, <4>2, Logs
      <4> QED BY <1>3, <1>5, <4>1, <4>2
    <3> QED BY <1>7, <3>2, <3>3, <3>4
  <2> QED BY <2>1, <2>2
<1>15. RunsTruly(e)'
  BY <1>2, <1>13, TruthIsKept
<1>16. CASE NextVersion(e) /\ faults' \in {faults, faults + 1}
  BY <1>1, <1>2, <1>3, <1>13, <1>15, <1>16, <1>14, Leaves
<1>17. CASE /\ faults' = faults /\ pc'[e] \in {"running", "settle"}
            /\ frame'[e].turn = frame[e].turn /\ frame'[e].index = frame[e].index
            /\ frame'[e].summaries = frame[e].summaries
            /\ pc'[e] = "settle" =>
                  \/ frame'[e].verdict = "FAILED"
                  \/ /\ frame'[e].verdict = "PENDING"
                     /\ CanPerform(Metadata[Config(e)]) = "REQUIRE_APPROVAL"
  <2>1. Executing(e)' /\ ~Untried(e)'
    BY <1>17 DEF Executing, Awaiting, Untried
  <2>2. faults <= faults'
    BY <1>3, <1>17
  <2>3. /\ Version(e)' = Version(e) /\ FaultsArePaid(e)' /\ SummariesFit(e)'
        /\ RowIsFree(e)' /\ \A m : CanPerform(m)' = CanPerform(m)
    BY <1>1, <1>2, <1>13, <1>17, <2>1, <2>2, Stays
  <2>4. Key(e)' = Key(e) /\ Config(e)' = Config(e)
    BY <1>17, <2>3 DEF Key, KeyOf, Config
  <2>5. FrameFits(e)' /\ RowIsFresh(e)'
    BY <1>2, <1>3, <1>11, <1>17, <1>1, <2>3, <2>4 DEF FrameFits, RowIsFresh
  <2>6. VerdictFits(e)'
    BY <1>17, <2>3, <2>4 DEF VerdictFits
  <2>7. RunIsCreated(e)'
    BY <1>2, <1>3, <2>3 DEF RunIsCreated
  <2>8. AttemptsFit(e)'
    <3> SUFFICES ASSUME NEW k \in RowsOf(e)
                 PROVE  /\ rows'[k].attempts <= frame[e].turn
                        /\ k.index > frame[e].index => rows'[k].attempts < frame[e].turn
      BY <1>17, <2>1 DEF AttemptsFit, RowsOf
    <3>1. k.index > frame[e].index => k # Key(e)
      BY <1>1, <1>3 DEF Frame
    <3> QED BY <1>1, <1>6, <1>13, <3>1 DEF EventInv, AttemptsFit
  <2>9. AttemptsCover(e)'
    BY <1>13 DEF AttemptsCover, RowsOf
  <2>10. RowsBelong(e)' /\ DoneFits(e)'
    BY <1>17, <1>14
  <2> QED BY <1>15, <2>3, <2>5, <2>6, <2>7, <2>8, <2>9, <2>10 DEF EventInv
<1>18. CASE Resume(e, "running", frame[e]) /\ faults' = faults
  <2>1. pc'[e] = "running" /\ frame'[e] = frame[e]
    BY <1>1, <1>18 DEF Resume, TypeOK
  <2> QED BY <1>17, <1>18, <2>1
<1>19. CASE /\ Decision(e) # "ALLOW" /\ faults' = faults
            /\ Resume(e, "settle", Verdict(e, IF Decision(e) = "REQUIRE_APPROVAL" THEN "PENDING" ELSE "FAILED"))
  <2>1. /\ pc'[e] = "settle"
        /\ frame'[e] = Verdict(e, IF Decision(e) = "REQUIRE_APPROVAL" THEN "PENDING" ELSE "FAILED")
    BY <1>1, <1>19 DEF Resume, TypeOK
  <2>2. /\ frame'[e].turn = frame[e].turn /\ frame'[e].index = frame[e].index
        /\ frame'[e].summaries = frame[e].summaries
        /\ frame'[e].verdict = IF Decision(e) = "REQUIRE_APPROVAL" THEN "PENDING" ELSE "FAILED"
    BY <1>1, <2>1 DEF Frame, Verdict
  <2>3. Decision(e) = "REQUIRE_APPROVAL" => CanPerform(Metadata[Config(e)]) = "REQUIRE_APPROVAL"
    BY DEF Decision
  <2> QED BY <1>17, <1>19, <2>1, <2>2, <2>3
<1> QED BY <1>2, <1>16, <1>18, <1>19 DEF StartAttempt, Start, Throw, Fault, NoFault


\* The runner returns or is given up on; nothing is written.
LEMMA FinishKeeps ==
    ASSUME EngineInv, TypeOK', NEW e \in Events, NEW status \in {"SUCCESS", "RETRYING", "FAILED"},
           Finish(e, status),
           \/ starts' = starts /\ status # "SUCCESS"
           \/ starts' = [starts EXCEPT ![Key(e)] = Resolved(@)] /\ status = "SUCCESS"
    PROVE  EventInv(e)'
<1>1. /\ TypeOK /\ EventInv(e) /\ FrameFits(e) /\ pc[e] = "running" /\ Executing(e)
      /\ frame[e] \in Frame
  BY AtAction DEF Finish
<1>2. /\ matched' = matched /\ rows' = rows /\ setting' = setting /\ runs' = runs
      /\ faults' = faults
  BY DEF Finish, fixed, tables
<1>3. /\ faults \in Nat /\ runs[<<e, Version(e)>>] # "none" /\ Key(e) \in RowsOf(e)
      /\ frame[e].index \in 1..Len(Actions[Version(e)])
      /\ Key(e) \in Keys /\ [config |-> Config(e), done |-> FALSE] \in Execution
  BY <1>1, AtAction DEF RowsOf, Execution
<1>4. pc'[e] = "settle" /\ frame'[e] = Verdict(e, status) /\ Executing(e)'
  BY <1>1 DEF Finish, Resume, TypeOK, Executing, Awaiting
<1>5. /\ frame'[e].turn = frame[e].turn /\ frame'[e].index = frame[e].index
      /\ frame'[e].summaries = frame[e].summaries /\ frame'[e].verdict = status
  BY <1>1, <1>4 DEF Verdict, Frame
<1>6. faults <= faults'
  BY <1>2, <1>3
<1>7. Version(e)' = Version(e) /\ RunsTruly(e)' /\ FaultsArePaid(e)' /\ SummariesFit(e)'
      /\ RowIsFree(e)'
  BY <1>1, <1>2, <1>4, <1>5, <1>6, Stays
<1>8. Key(e)' = Key(e) /\ Config(e)' = Config(e)
  BY <1>5, <1>7 DEF Key, KeyOf, Config
<1>9. FrameFits(e)' /\ RowIsFresh(e)' /\ VerdictFits(e)'
  BY <1>1, <1>2, <1>3, <1>4, <1>5, <1>7, <1>8 DEF EventInv, FrameFits, RowIsFresh, VerdictFits
<1>10. RunIsCreated(e)'
  BY <1>2, <1>3, <1>7 DEF RunIsCreated
<1>11. \A k \in RowsOf(e) : /\ Len(starts'[k]) = Len(starts[k]) /\ DOMAIN starts'[k] = DOMAIN starts[k]
                            /\ \A m \in DOMAIN starts[k] :
                                  starts'[k][m].done => \/ starts[k][m].done
                                                        \/ /\ m = Len(starts[k]) /\ k = Key(e)
                                                           /\ status = "SUCCESS"
  <2> SUFFICES ASSUME NEW k \in RowsOf(e)
               PROVE  /\ Len(starts'[k]) = Len(starts[k]) /\ DOMAIN starts'[k] = DOMAIN starts[k]
                      /\ \A m \in DOMAIN starts[k] :
                            starts'[k][m].done => \/ starts[k][m].done
                                                  \/ m = Len(starts[k]) /\ k = Key(e) /\ status = "SUCCESS"
    OBVIOUS
  <2>1. k \in Keys /\ starts[k] \in Seq(Execution)
    BY <1>1 DEF RowsOf, TypeOK
  <2>2. starts'[k] = starts[k] \/ (k = Key(e) /\ status = "SUCCESS" /\ starts'[k] = Resolved(starts[k]))
    BY <1>1, <2>1 DEF TypeOK
  <2>3. /\ DOMAIN starts[k] = 1..Len(starts[k]) /\ Len(Resolved(starts[k])) = Len(starts[k])
        /\ DOMAIN Resolved(starts[k]) = 1..Len(starts[k])
        /\ \A m \in 1..Len(starts[k]) : m # Len(starts[k]) => Resolved(starts[k])[m] = starts[k][m]
    BY <1>3, <2>1, Logs
  <2>4. CASE starts'[k] = starts[k]
    BY <2>4
  <2>5. CASE k = Key(e) /\ status = "SUCCESS" /\ starts'[k] = Resolved(starts[k])
    BY <2>3, <2>5
  <2> QED BY <2>2, <2>4, <2>5
<1>12. AttemptsFit(e)' /\ AttemptsCover(e)'
  BY <1>1, <1>2, <1>4, <1>5, <1>11 DEF EventInv, AttemptsFit, AttemptsCover, RowsOf, Untried
<1>13. RowsBelong(e)'
  BY <1>1, <1>2 DEF EventInv, RowsBelong, RowsOf
<1>14. DoneFits(e)'
  <2> SUFFICES ASSUME NEW k \in RowsOf(e), NEW m \in DOMAIN starts[k], starts'[k][m].done, ~(faults > 0)
               PROVE  /\ m = Len(starts[k])
                      /\ rows[k].status = "SUCCESS" \/ (status = "SUCCESS" /\ k = Key(e))
    BY <1>2, <1>4, <1>5, <1>8, <1>11 DEF DoneFits, RowsOf
  <2>1. CASE starts[k][m].done
    BY <1>1, <2>1 DEF EventInv, DoneFits
  <2> QED BY <1>11, <2>1
<1> QED BY <1>7, <1>9, <1>10, <1>12, <1>13, <1>14 DEF EventInv

\* The verdict is written: the action is settled, or the summaries keep it in mind.
LEMMA SettleKeeps ==
    ASSUME EngineInv, TypeOK', NEW e \in Events, SettleActionRun(e)
    PROVE  EventInv(e)'
<1> DEFINE verdict == frame[e].verdict
<1>1. /\ TypeOK /\ EventInv(e) /\ FrameFits(e) /\ pc[e] = "settle" /\ Executing(e)
      /\ frame[e] \in Frame
  BY AtAction DEF SettleActionRun
<1>2. /\ matched' = matched /\ starts' = starts /\ setting' = setting /\ runs' = runs
      /\ rows' \in {rows, [rows EXCEPT ![Key(e)].status = verdict]}
  BY DEF SettleActionRun, fixed
<1>3. /\ faults \in Nat /\ runs[<<e, Version(e)>>] # "none" /\ Key(e) \in RowsOf(e)
      /\ Key(e) = KeyOf(e, Version(e), frame[e].index) /\ Key(e).index = frame[e].index
      /\ Config(e) = Actions[Version(e)][frame[e].index]
      /\ Actions[Version(e)] \in Seq(Configs)
      /\ frame[e].index \in 1..Len(Actions[Version(e)])
  BY <1>1, AtAction
<1>4. /\ rows[Key(e)].status = "SUCCESS" => verdict = "FAILED" /\ faults > 0
      /\ rows[Key(e)].config = Config(e)
  BY <1>1 DEF EventInv, RowIsFresh
<1>5. \A k \in RowsOf(e) : /\ rows'[k].attempts = rows[k].attempts /\ rows'[k].config = rows[k].config
                           /\ k # Key(e) => rows'[k] = rows[k]
                           /\ rows'[k] = rows[k] \/ (k = Key(e) /\ rows'[k].status = verdict)
  <2>1. \A k \in RowsOf(e) : k \in Keys /\ rows[k] \in Row
    BY <1>1 DEF TypeOK, RowsOf
  <2>2. \A k \in RowsOf(e) : \/ rows'[k] = rows[k]
                             \/ k = Key(e) /\ rows'[k] = [rows[k] EXCEPT !.status = verdict]
    BY <1>1, <1>2, <2>1 DEF TypeOK
  <2> QED BY <2>1, <2>2 DEF Row
<1>6. RowsBelong(e)'
  <2> SUFFICES ASSUME NEW k \in RowsOf(e), rows'[k].status = "SUCCESS"
               PROVE  \E w \in Versions : /\ k.index \in DOMAIN Actions[w] /\ KeyOf(e, w, k.index) = k
                                          /\ Actions[w][k.index] = rows[k].config
    BY <1>5 DEF RowsBelong, RowsOf, KeyOf
  <2>1. CASE rows[k].status = "SUCCESS"
    BY <1>1, <2>1 DEF EventInv, RowsBelong
  <2>2. CASE rows[k].status # "SUCCESS"
    <3>1. k = Key(e)
      BY <1>5, <2>2
    <3>2. Version(e) \in Versions /\ frame[e].index \in DOMAIN Actions[Version(e)]
      BY <1>1, KeyAtHand, AtVersion
    <3> QED BY <1>3, <1>4, <3>1, <3>2
  <2> QED BY <2>1, <2>2
<1>7. ASSUME \/ faults' = faults + 1
             \/ faults' = faults /\ rows'[Key(e)].status = verdict
      PROVE  DoneFits(e)'
  <2> SUFFICES ASSUME NEW k \in RowsOf(e), NEW m \in DOMAIN starts[k], starts[k][m].done, ~(faults' > 0)
               PROVE  m = Len(starts[k]) /\ rows'[k].status = "SUCCESS"
    BY <1>2 DEF DoneFits, RowsOf
  <2>1. ~(faults > 0) /\ rows'[Key(e)].status = verdict
    BY <1>3, <1>7
  <2>2. m = Len(starts[k]) /\ (rows[k].status = "SUCCESS" \/ (verdict = "SUCCESS" /\ k = Key(e)))
    BY <1>1, <2>1 DEF EventInv, DoneFits
  <2> QED BY <1>4, <1>5, <2>1, <2>2
<1>8. CASE NextVersion(e) /\ faults' = faults + 1
  <2>1. RunsTruly(e)'
    BY <1>1, <1>2, <1>5, TruthIsKept
  <2> QED BY <1>1, <1>2, <1>3, <1>5, <1>6, <1>7, <1>8, <2>1, Leaves, AttemptsByTurn
<1>9. CASE /\ verdict = "SUCCESS" /\ faults' = faults + 1
           /\ Resume(e, "settle", Verdict(e, "FAILED"))
  <2>1. pc'[e] = "settle" /\ frame'[e] = Verdict(e, "FAILED") /\ Executing(e)'
    BY <1>1, <1>9 DEF Resume, TypeOK, Executing, Awaiting
  <2>2. /\ frame'[e].turn = frame[e].turn /\ frame'[e].index = frame[e].index
        /\ frame'[e].summaries = frame[e].summaries /\ frame'[e].verdict = "FAILED"
    BY <1>1, <2>1 DEF Verdict, Frame
  <2>3. faults <= faults' /\ faults' > 0
    BY <1>3, <1>9
  <2>4. /\ Version(e)' = Version(e) /\ RunsTruly(e)' /\ FaultsArePaid(e)' /\ SummariesFit(e)'
        /\ RowIsFree(e)'
    BY <1>1, <1>2, <1>5, <2>1, <2>2, <2>3, Stays
  <2>5. Key(e)' = Key(e) /\ Config(e)' = Config(e)
    BY <2>2, <2>4 DEF Key, KeyOf, Config
  <2>6. FrameFits(e)' /\ RowIsFresh(e)' /\ VerdictFits(e)'
    BY <1>1, <1>2, <1>3, <1>4, <1>5, <2>1, <2>2, <2>3, <2>4, <2>5 DEF FrameFits, RowIsFresh, VerdictFits
  <2>7. RunIsCreated(e)'
    BY <1>2, <1>3, <2>4 DEF RunIsCreated
  <2>8. AttemptsFit(e)' /\ AttemptsCover(e)'
    BY <1>1, <1>2, <1>5, <2>1, <2>2 DEF EventInv, AttemptsFit, AttemptsCover, RowsOf, Untried
  <2> QED BY <1>6, <1>7, <1>9, <2>4, <2>6, <2>7, <2>8 DEF EventInv
<1>10. CASE /\ faults' = faults /\ rows' = [rows EXCEPT ![Key(e)].status = verdict]
           /\ Resume(e, From(frame[e].index + 1, e), Summarized(e, verdict))
  <2>1. /\ pc'[e] = From(frame[e].index + 1, e) /\ frame'[e] = Summarized(e, verdict)
        /\ pc'[e] \in {"find", "finalize"} /\ Executing(e)'
    BY <1>1, <1>10, Onward DEF Resume, TypeOK, Executing, Awaiting
  <2>2. /\ frame'[e].turn = frame[e].turn /\ frame'[e].index = frame[e].index + 1
        /\ frame'[e].summaries = frame[e].summaries \cup {verdict}
    BY <1>1, <2>1 DEF Summarized, Frame
  <2>3. faults <= faults'
    BY <1>3, <1>10
  <2>4. /\ Version(e)' = Version(e) /\ RunsTruly(e)' /\ FaultsArePaid(e)'
        /\ \A m : CanPerform(m)' = CanPerform(m)
        /\ \A i \in DOMAIN Actions[Version(e)] :
              Settled(e, Version(e), i) /\ i # frame[e].index => Settled(e, Version(e), i)'
    BY <1>1, <1>2, <1>5, <2>1, <2>2, <2>3, Stays
  <2>5. \/ pc'[e] = "find" /\ frame[e].index + 1 \in 1..Len(Actions[Version(e)])
        \/ pc'[e] = "finalize" /\ frame[e].index + 1 = Len(Actions[Version(e)]) + 1
    BY <1>3, <2>1 DEF From
  <2>6. FrameFits(e)' /\ RowIsFresh(e)' /\ VerdictFits(e)' /\ RowIsFree(e)'
    BY <1>1, <1>2, <2>1, <2>2, <2>4, <2>5 DEF FrameFits, RowIsFresh, VerdictFits, RowIsFree
  <2>7. RunIsCreated(e)'
    BY <1>2, <1>3, <2>4 DEF RunIsCreated
  <2>8. AttemptsFit(e)' /\ AttemptsCover(e)'
    <3>1. \A k \in RowsOf(e) : k.index \in Nat
      BY ActionAssumption DEF RowsOf, Keys, Indices
    <3> QED BY <1>1, <1>2, <1>3, <1>5, <2>1, <2>2, <3>1
            DEF EventInv, AttemptsFit, AttemptsCover, RowsOf, Untried
  <2>9. SummariesFit(e)'
    <3> SUFFICES ASSUME NEW i \in DOMAIN Actions[Version(e)], i < frame[e].index + 1
                 PROVE  \/ {"FAILED", "RETRYING"} \cap frame'[e].summaries # {}
                        \/ Settled(e, Version(e), i)'
      BY <2>2, <2>4 DEF SummariesFit
    <3>1. CASE i = frame[e].index
      <4>1. rows'[Key(e)].status = verdict
        BY <1>1, <1>3, <1>10 DEF TypeOK, Row, RowsOf
      <4>2. CASE verdict \in {"RETRYING", "FAILED"}
        BY <2>2, <4>2
      <4>3. CASE verdict = "SUCCESS"
        BY <1>3, <2>4, <3>1, <4>1, <4>3 DEF Settled
      <4>4. CASE verdict = "PENDING" /\ CanPerform(Metadata[Config(e)]) = "REQUIRE_APPROVAL"
        BY <1>3, <2>4, <3>1, <4>4 DEF Settled
      <4> QED BY <1>1, <4>2, <4>3, <4>4 DEF EventInv, VerdictFits
    <3>2. CASE i < frame[e].index
      <4>1. i # frame[e].index
        BY <1>3, <3>2
      <4> QED BY <1>1, <2>2, <2>4, <3>2, <4>1 DEF EventInv, SummariesFit
    <3> QED BY <1>3, <3>1, <3>2
  <2>10. rows'[Key(e)].status = verdict
    BY <1>1, <1>3, <1>10 DEF TypeOK, Row, RowsOf
  <2> QED BY <1>6, <1>7, <1>10, <2>4, <2>6, <2>7, <2>8, <2>9, <2>10 DEF EventInv
<1> QED BY <1>2, <1>8, <1>9, <1>10 DEF SettleActionRun, Fails, Throw, Fault, NoFault

\* A run that is finalized SUCCESS has no action that failed or is to be retried.
LEMMA FinalizeKeeps ==
    ASSUME EngineInv, TypeOK', NEW e \in Events, FinalizeAutomationRun(e)
    PROVE  EventInv(e)'
<1> DEFINE status == FinalStatus(frame[e].summaries)
<1>1. /\ TypeOK /\ EventInv(e) /\ FrameFits(e) /\ pc[e] = "finalize" /\ Executing(e)
      /\ frame[e].index = Len(Actions[Version(e)]) + 1
  BY DEF EngineInv, EventInv, FrameFits, FinalizeAutomationRun, SetRun, Executing, Awaiting
<1>2. /\ matched' = matched /\ rows' = rows /\ starts' = starts /\ setting' = setting
      /\ runs' \in {runs, [runs EXCEPT ![<<e, Version(e)>>] = status]}
  BY DEF FinalizeAutomationRun, SetRun, Await, fixed
<1>3. /\ Version(e) \in Versions /\ Actions[Version(e)] \in Seq(Configs)
      /\ faults \in Nat /\ runs[<<e, Version(e)>>] # "none"
      /\ DOMAIN Actions[Version(e)] = 1..Len(Actions[Version(e)])
  BY <1>1, AtVersion, SettingsAssumption DEF TypeOK, EventInv, RunIsCreated
<1>4. status # "none"
  BY FinalStatuses DEF Ended
<1>5. \A v \in Versions : runs'[<<e, v>>] = "none" => runs[<<e, v>>] = "none"
  BY <1>1, <1>2, <1>3, <1>4 DEF TypeOK
<1>6. runs'[<<e, Version(e)>>] # "none"
  BY <1>3, <1>5
<1>7. \A m : CanPerform(m)' = CanPerform(m)
  BY <1>2 DEF CanPerform
<1>8. RunsTruly(e)'
  <2> SUFFICES ASSUME NEW v \in Versions, runs'[<<e, v>>] = "SUCCESS", NEW i \in DOMAIN Actions[v]
               PROVE  Settled(e, v, i)
    BY <1>2, <1>7 DEF RunsTruly, Settled
  <2>1. CASE runs[<<e, v>>] = "SUCCESS"
    BY <1>1, <2>1 DEF EventInv, RunsTruly
  <2>2. CASE runs[<<e, v>>] # "SUCCESS"
    <3>1. v = Version(e) /\ status = "SUCCESS"
      BY <1>1, <1>2, <1>3, <2>2 DEF TypeOK
    <3>2. {"FAILED", "RETRYING"} \cap frame[e].summaries = {}
      BY <3>1 DEF FinalStatus
    <3>3. i < frame[e].index
      BY <1>1, <1>3, <3>1
    <3> QED BY <1>1, <3>1, <3>2, <3>3 DEF EventInv, SummariesFit
  <2> QED BY <2>1, <2>2
<1>9. CASE NextVersion(e) /\ faults' = faults + 1
  <2>1. RowsBelong(e)' /\ DoneFits(e)'
    BY <1>1, <1>2, <1>3, <1>9, LogIsKept
  <2> QED BY <1>1, <1>2, <1>3, <1>5, <1>6, <1>8, <1>9, <2>1, Leaves, AttemptsByTurn
<1>10. CASE Resume(e, "updateRule", frame[e]) /\ faults' = faults
  <2>1. pc'[e] = "updateRule" /\ frame'[e] = frame[e] /\ Executing(e)'
    BY <1>1, <1>10 DEF Resume, TypeOK, Executing, Awaiting
  <2>2. FaultsArePaid(e)'
    BY <1>1, <1>2, <1>3, <1>5, <1>10, <2>1, StillPaid
  <2>3. Version(e)' = Version(e)
    BY <1>2, <2>1 DEF Version
  <2>4. FrameFits(e)' /\ RowIsFresh(e)' /\ VerdictFits(e)' /\ RowIsFree(e)' /\ RunIsCreated(e)'
    BY <1>1, <1>2, <1>6, <2>1, <2>3 DEF FrameFits, RowIsFresh, VerdictFits, RowIsFree, RunIsCreated
  <2>5. SummariesFit(e)'
    BY <1>1, <1>2, <1>7, <2>1, <2>3 DEF EventInv, SummariesFit, Settled
  <2>6. AttemptsFit(e)' /\ AttemptsCover(e)'
    BY <1>1, <1>2, <2>1 DEF EventInv, AttemptsFit, AttemptsCover, RowsOf, Untried
  <2>7. RowsBelong(e)' /\ DoneFits(e)'
    BY <1>1, <1>2, <1>3, <1>10, LogIsKept
  <2> QED BY <1>8, <2>2, <2>4, <2>5, <2>6, <2>7 DEF EventInv
<1> QED BY <1>2, <1>9, <1>10 DEF FinalizeAutomationRun, SetRun, Await, Throw, Fault, NoFault

\* The rule's last run is written, and the engine goes on to the next version.
LEMMA UpdateKeeps ==
    ASSUME EngineInv, TypeOK', NEW e \in Events, UpdateRuleLastRun(e)
    PROVE  EventInv(e)'
<1>1. /\ TypeOK /\ EventInv(e) /\ pc[e] = "updateRule" /\ Executing(e)
  BY DEF EngineInv, EventInv, UpdateRuleLastRun, Executing, Awaiting
<1>2. /\ matched' = matched /\ rows' = rows /\ starts' = starts /\ setting' = setting /\ runs' = runs
      /\ NextVersion(e) /\ faults' \in {faults, faults + 1}
  BY DEF UpdateRuleLastRun, fixed, Fault, NoFault
<1>3. faults \in Nat /\ runs[<<e, Version(e)>>] # "none"
  BY <1>1, SettingsAssumption DEF TypeOK, EventInv, RunIsCreated
<1>4. RunsTruly(e)'
  BY <1>2, TruthIsKept
<1>5. RowsBelong(e)' /\ DoneFits(e)'
  BY <1>1, <1>2, <1>3, LogIsKept
<1> QED BY <1>1, <1>2, <1>3, <1>4, <1>5, Leaves, AttemptsByTurn

--------------------------------------------------------------------------------
\* A restart loses what is in progress, and nothing else.
LEMMA RestartKeeps ==
    ASSUME EngineInv, Restart
    PROVE  EngineInv'
<1>1. TypeOK /\ \A e \in Events : EventInv(e)
  BY DEF EngineInv
<1>2. /\ UNCHANGED <<matched, rows, starts, setting, runs, faults, loader, lastRun>>
      /\ \A e \in Events : /\ frame'[e] = Fresh(1) /\ ~Executing(e)'
                           /\ pc'[e] = pc[e] \/ (pc[e] # "over" /\ pc'[e] = "lost")
                           /\ pc'[e] # "load" /\ pc[e] = "settle" => pc'[e] = "lost"
  <2>1. UNCHANGED <<matched, rows, starts, setting, runs, faults, loader, lastRun>>
    BY DEF Restart, fixed, tables
  <2>2. ASSUME NEW e \in Events
        PROVE  /\ frame'[e] = Fresh(1) /\ ~Executing(e)' /\ pc'[e] # "load"
               /\ pc'[e] = pc[e] \/ (pc[e] # "over" /\ pc'[e] = "lost")
               /\ pc[e] = "settle" => pc'[e] = "lost"
    BY DEF Restart, Executing, Awaiting
  <2> QED BY <2>1, <2>2
<1>3. TypeOK'
  <2>0. 1 \in 1..Cardinality(Versions) + 1
    BY RuleAssumption, FS_CardinalityType
  <2>1. pc' \in [Events -> Phases] /\ frame' \in [Events -> Frame]
    BY <1>1, <2>0, FreshFrames DEF Restart, TypeOK, Phases
  <2> QED BY <1>1, <1>2, <2>1 DEF TypeOK
<1>4. ASSUME NEW e \in Events PROVE EventInv(e)'
  <2>1. FrameFits(e)' /\ RowIsFresh(e)' /\ VerdictFits(e)' /\ SummariesFit(e)' /\ RowIsFree(e)'
        /\ RunIsCreated(e)'
    BY <1>1, <1>2 DEF EventInv, FrameFits, RowIsFresh, VerdictFits, SummariesFit, RowIsFree,
       RunIsCreated, Executing, Awaiting
  <2>5. RowsBelong(e)' /\ DoneFits(e)'
    BY <1>1, <1>2 DEF EventInv, RowsBelong, DoneFits, RowsOf
  <2>2. AttemptsFit(e)' /\ AttemptsCover(e)'
    BY <1>1, <1>2 DEF EventInv, AttemptsFit, AttemptsCover, RowsOf
  <2>3. RunsTruly(e)'
    BY <1>1, <1>2, TruthIsKept
  <2>4. FaultsArePaid(e)'
    <3>1. CASE pc'[e] = pc[e] /\ pc[e] = "over"
      <4>1. Missing(e)' = Missing(e)
        BY <1>2, <3>1 DEF Missing, Passed
      <4> QED BY <1>1, <1>2, <4>1 DEF EventInv, FaultsArePaid
    <3>2. CASE pc'[e] # "over"
      <4>1. Missing(e)' = {} /\ faults' \in Nat
        BY <1>2, <1>3, <3>2, SettingsAssumption DEF Missing, Passed, TypeOK
      <4> QED BY <4>1, FS_EmptySet DEF FaultsArePaid
    <3> QED BY <1>2, <3>1, <3>2
  <2> QED BY <2>1, <2>2, <2>3, <2>4, <2>5 DEF EventInv
<1> QED BY <1>3, <1>4 DEF EngineInv

\* Every step keeps the invariant.
LEMMA EngineNext ==
    EngineInv /\ [Next]_vars => EngineInv'
<1> SUFFICES ASSUME EngineInv, [Next]_vars PROVE EngineInv'
  OBVIOUS
<1>1. CASE UNCHANGED vars
  <2>1. TypeOK'
    BY <1>1 DEF EngineInv, TypeOK, vars
  <2>2. faults <= faults'
    BY <1>1, SettingsAssumption DEF EngineInv, TypeOK, vars
  <2> QED BY <1>1, <2>1, <2>2, OthersKeep DEF EngineInv, vars
<1>2. ASSUME NEW e \in Events, Publish(e) \/ Handle(e) \/ RunnerReturns(e) PROVE EngineInv'
  <2>1. TypeOK'
    BY <1>2, EngineTypeStep
  <2>2. ASSUME NEW f \in Events \ {e} PROVE EventInv(f)'
    BY <1>2, <2>1, StepsAreLocal, OthersKeep
  <2>3. EventInv(e)'
    <3>1. CASE Timeout(e) \/ RunnerReturns(e)
      BY <2>1, <3>1, FinishKeeps DEF Timeout, RunnerReturns
    <3> QED BY <1>2, <2>1, <3>1, PublishKeeps, LoadKeeps, CreateKeeps, MarkKeeps, FindKeeps,
            ClaimKeeps, StartKeeps, SettleKeeps, FinalizeKeeps, UpdateKeeps DEF Handle
  <2> QED BY <2>1, <2>2, <2>3 DEF EngineInv
<1> QED BY <1>1, <1>2, RestartKeeps DEF Next

\* The invariant holds at all times.
LEMMA EngineInvariance == Spec => []EngineInv
BY EngineInitInv, EngineNext, PTL DEF Spec

--------------------------------------------------------------------------------
\* Type correctness of the rule engine; that no row counts more attempts than
\* there are versions is the part that needs the invariant.
THEOREM EngineTypes == Spec => []TypeOK
<1>1. EngineInv => TypeOK
  BY DEF EngineInv
<1> QED BY <1>1, EngineInvariance, PTL

\* An attempt is on record before the runner starts (executor.ts: the update to
\* RUNNING with the attempt count precedes executeWithTimeout).
THEOREM Covered == Spec => []AttemptsCoverStarts
<1>1. EngineInv => AttemptsCoverStarts
  <2> SUFFICES ASSUME EngineInv, NEW k \in Keys PROVE Len(starts[k]) <= rows[k].attempts
    BY DEF AttemptsCoverStarts
  <2>1. k.event \in Events /\ k \in RowsOf(k.event)
    BY DEF Keys, RowsOf
  <2> QED BY <2>1 DEF EngineInv, EventInv, AttemptsCover
<1> QED BY <1>1, EngineInvariance, PTL

\* What succeeded for an action is the action, or one of another type whose version has
\* the row of it.
LEMMA SucceededFor ==
    ASSUME EngineInv, NEW e \in Events, NEW v \in Versions, NEW i \in DOMAIN Actions[v],
           rows[KeyOf(e, v, i)].status = "SUCCESS"
    PROVE  rows[KeyOf(e, v, i)].config = Actions[v][i] \/ Shadowed(e, v, i)
<1>1. KeyOf(e, v, i) \in RowsOf(e) /\ KeyOf(e, v, i).index = i
  BY KeysOf
<1>2. RowsBelong(e)
  BY DEF EngineInv, EventInv
<1>3. PICK w \in Versions : /\ i \in DOMAIN Actions[w] /\ KeyOf(e, w, i) = KeyOf(e, v, i)
                           /\ Actions[w][i] = rows[KeyOf(e, v, i)].config
  BY <1>1, <1>2 DEF RowsBelong
<1>4. RuleOf[w] = RuleOf[v] /\ ParamsOf[Actions[w][i]] = ParamsOf[Actions[v][i]]
  BY <1>3 DEF KeyOf
<1> QED BY <1>3, <1>4 DEF Shadowed

\* A run that reports SUCCESS has settled each of its actions: it needs approval, or it
\* succeeded, unless another type's success passed for it (executor.ts: finalStatus,
\* and the dedup on the status of a row whose key has no type).
THEOREM Truthful == Spec => []RunsTellTheTruth
<1>1. EngineInv => RunsTellTheTruth
  <2> SUFFICES ASSUME EngineInv, NEW e \in Events, NEW v \in Versions, runs[<<e, v>>] = "SUCCESS",
                      NEW i \in DOMAIN Actions[v], rows[KeyOf(e, v, i)].status = "SUCCESS"
               PROVE  rows[KeyOf(e, v, i)].config = Actions[v][i] \/ Shadowed(e, v, i)
    BY DEF EngineInv, EventInv, RunsTruly, Settled, RunsTellTheTruth
  <2> QED BY SucceededFor
<1> QED BY <1>1, EngineInvariance, PTL

\* No two versions of a rule have actions at one place that differ in type only.
KeysTell ==
    \A v, w \in Versions : RuleOf[v] = RuleOf[w] =>
        \A i \in DOMAIN Actions[v] \cap DOMAIN Actions[w] :
            ParamsOf[Actions[v][i]] = ParamsOf[Actions[w][i]] => Actions[v][i] = Actions[w][i]

\* A run that reports SUCCESS has itself to thank for it, or an earlier run of the same action.
SuccessIsOwn ==
    \A e \in Events, v \in Versions : runs[<<e, v>>] = "SUCCESS" =>
        \A i \in DOMAIN Actions[v] :
            \/ /\ rows[KeyOf(e, v, i)].status = "SUCCESS"
               /\ rows[KeyOf(e, v, i)].config = Actions[v][i]
            \/ CanPerform(Metadata[Actions[v][i]]) = "REQUIRE_APPROVAL"

\* Where the keys tell the types they leave out, no action is shadowed.
LEMMA KeysTellApart ==
    ASSUME KeysTell, NEW e \in Events, NEW v \in Versions, NEW i \in DOMAIN Actions[v]
    PROVE  ~Shadowed(e, v, i)
BY DEF KeysTell, Shadowed

\* Where the params tell the types apart, a run's SUCCESS is that of its own actions.
THEOREM TruthfulByKeys == ASSUME KeysTell PROVE Spec => []SuccessIsOwn
<1>1. RunsTellTheTruth => SuccessIsOwn
  BY KeysTellApart DEF RunsTellTheTruth, SuccessIsOwn
<1> QED BY <1>1, Truthful, PTL

\* A version that throws costs the others nothing (engine.ts: the try
\* around each call of the executor).
THEOREM FailAlone == Spec => []RulesFailAlone
<1>1. EngineInv => RulesFailAlone
  <2> SUFFICES ASSUME EngineInv, NEW e \in Events, pc[e] = "over", ~setting.dryRun
               PROVE  Cardinality({v \in Versions : /\ \E i \in DOMAIN matched[e] : matched[e][i] = v
                                                    /\ runs[<<e, v>>] = "none"}) <= faults
    BY DEF RulesFailAlone
  <2>1. DOMAIN matched[e] = 1..Len(matched[e])
    BY MatchesAreSequences DEF EngineInv, TypeOK
  <2>2. Passed(e) = DOMAIN matched[e]
    BY <2>1 DEF Passed
  <2>3. Missing(e) = {v \in Versions : /\ \E i \in DOMAIN matched[e] : matched[e][i] = v
                                       /\ runs[<<e, v>>] = "none"}
    BY <2>2 DEF Missing
  <2> QED BY <2>3 DEF EngineInv, EventInv, FaultsArePaid
<1> QED BY <1>1, EngineInvariance, PTL

\* A row that says SUCCESS is left alone, but for the executor that wrote it and got no answer.
LEMMA SuccessStays ==
    ASSUME EngineInv, [Next]_vars, NEW k \in Keys, rows[k].status = "SUCCESS"
    PROVE  /\ starts'[k] = starts[k]
           /\ \/ rows'[k] = rows[k]
              \/ /\ faults > 0 /\ rows'[k] = [rows[k] EXCEPT !.status = "FAILED"]
                 /\ \E e \in Events : pc[e] = "settle" /\ Key(e) = k
<1>1. TypeOK
  BY DEF EngineInv
<1>2. CASE UNCHANGED vars \/ Restart
  BY <1>2 DEF vars, Restart, tables
<1>3. ASSUME NEW e \in Events, ClaimActionRun(e) \/ StartAttempt(e) \/ RunnerReturns(e)
      PROVE  rows'[k] = rows[k] /\ starts'[k] = starts[k]
  <2>1. pc[e] \in {"claim", "attempt", "running"}
    BY <1>3 DEF ClaimActionRun, StartAttempt, Start, RunnerReturns, Finish
  <2>2. k # Key(e)
    BY <2>1 DEF EngineInv, EventInv, RowIsFresh
  <2> QED BY <1>1, <1>3, <2>2 DEF ClaimActionRun, StartAttempt, Start, RunnerReturns, Finish, tables,
          Await, TypeOK
<1>4. ASSUME NEW e \in Events, SettleActionRun(e)
      PROVE  /\ starts' = starts
             /\ \/ rows'[k] = rows[k]
                \/ /\ faults > 0 /\ rows'[k] = [rows[k] EXCEPT !.status = "FAILED"]
                   /\ pc[e] = "settle" /\ Key(e) = k
  <2>1. /\ starts' = starts /\ pc[e] = "settle"
        /\ rows' \in {rows, [rows EXCEPT ![Key(e)].status = frame[e].verdict]}
    BY <1>4 DEF SettleActionRun
  <2>2. Key(e) = k => frame[e].verdict = "FAILED" /\ faults > 0
    BY <2>1 DEF EngineInv, EventInv, RowIsFresh
  <2> QED BY <1>1, <2>1, <2>2 DEF TypeOK
<1>5. ASSUME NEW e \in Events, Publish(e) \/ Handle(e) \/ RunnerReturns(e),
             ~(ClaimActionRun(e) \/ StartAttempt(e) \/ SettleActionRun(e) \/ RunnerReturns(e))
      PROVE  rows' = rows /\ starts' = starts
  BY <1>5 DEF Publish, Handle, Timeout, Finish, LoadMatchingRules,
     CreateAutomationRun, MarkRunRunning, FinalizeAutomationRun, SetRun, FindActionRun, Find,
     UpdateRuleLastRun, tables
<1> QED BY <1>2, <1>3, <1>4, <1>5 DEF Next

\* What has succeeded is neither run again nor touched (executor.ts: the row found with
\* status SUCCESS makes the action SKIPPED), but by the executor whose SUCCESS was written
\* and not answered: the catch around the runner takes that for a failure of the action.
THEOREM SuccessLasts == Spec => SuccessIsFinal
<1>1. EngineInv /\ [Next]_vars
        => [\A k \in Keys : rows[k].status = "SUCCESS" =>
              /\ starts'[k] = starts[k]
              /\ \/ rows'[k] = rows[k]
                 \/ /\ faults > 0 /\ rows'[k] = [rows[k] EXCEPT !.status = "FAILED"]
                    /\ \E e \in Events : pc[e] = "settle" /\ Key(e) = k]_vars
  BY SuccessStays
<1> QED BY <1>1, EngineInvariance, PTL DEF Spec, SuccessIsFinal

\* What a runner has done in time is not done again for the event, by this version
\* or another, unless a call has failed: its SUCCESS may then not be on record.
DoneOnce ==
    \A k \in Keys : \A m, n \in DOMAIN starts[k] :
        m < n /\ starts[k][m].done => faults > 0

\* As long as no call fails, no action that was done in time for an event is done for it
\* again, however many versions share its row, and however often the process is restarted.
THEOREM NotDoneTwice == Spec => []DoneOnce
<1>1. EngineInv => DoneOnce
  <2> SUFFICES ASSUME EngineInv, NEW k \in Keys, NEW m \in DOMAIN starts[k], NEW n \in DOMAIN starts[k],
                      m < n, starts[k][m].done
               PROVE  faults > 0
    BY DEF DoneOnce
  <2>1. k.event \in Events /\ k \in RowsOf(k.event)
    BY DEF Keys, RowsOf
  <2>2. m # Len(starts[k])
    BY LogsOf DEF EngineInv
  <2> QED BY <2>1, <2>2 DEF EngineInv, EventInv, DoneFits
<1> QED BY <1>1, EngineInvariance, PTL

--------------------------------------------------------------------------------
(***************************************************************************)
(* Which actions are started.                                              *)
(***************************************************************************)
MayRun(c) == c \in Registered \cap Valid /\ CanPerform(Metadata[c]) = "ALLOW"

\* No runner starts that the policy, the registry or the schema refuses, and none at
\* all where the gate cannot be loaded.
OnlyAllowedStart == \A k \in Keys, c \in Configs : Started(k, c) => loader = "commonjs" /\ MayRun(c)

\* The runner is at work, or has done its work.
AtWork(e) == pc[e] = "running" \/ (pc[e] = "settle" /\ frame[e].verdict = "SUCCESS")

\* What has succeeded, or is about to be recorded so, was started.
SuccessWasStarted ==
    /\ \A k \in Keys : rows[k].status = "SUCCESS" => Started(k, rows[k].config)
    /\ \A e \in Events : AtWork(e) => Started(Key(e), Config(e))

\* Without a failed call, what an event has behind it was started if it may run, or was
\* skipped because its key has the SUCCESS of another type.
Skipped(e, v, i) == rows[KeyOf(e, v, i)].status = "SUCCESS" /\ Shadowed(e, v, i)
Tried(e, v, i) == MayRun(Actions[v][i]) => Started(KeyOf(e, v, i), Actions[v][i]) \/ Skipped(e, v, i)
AllTried(e, v) == \A i \in DOMAIN Actions[v] : Tried(e, v, i)
TriedFit(e) ==
    /\ pc[e] = "settle" => Tried(e, Version(e), frame[e].index)
    /\ Executing(e) => \A i \in DOMAIN Actions[Version(e)] :
                           i < frame[e].index \/ pc[e] = "updateRule" => Tried(e, Version(e), i)
    /\ \A n \in Passed(e) : AllTried(e, matched[e][n])

\* Only an action with a runner gets as far as an attempt.
RegisteredAttempts == \A e \in Events : pc[e] = "attempt" => Config(e) \in Registered

Undisturbed == loader = "commonjs" /\ faults = 0 /\ ~setting.dryRun
StartsInv == /\ RegisteredAttempts /\ OnlyAllowedStart /\ SuccessWasStarted
             /\ Undisturbed => \A e \in Events : TriedFit(e)

\* What a step does to the executions of a key.
LEMMA StartsChange ==
    ASSUME EngineInv, [Next]_vars, NEW k \in Keys
    PROVE  \/ starts'[k] = starts[k]
           \/ \E e \in Events : RunnerReturns(e) /\ k = Key(e) /\ starts'[k] = Resolved(starts[k])
           \/ \E e \in Events :
                 /\ StartAttempt(e) /\ k = Key(e) /\ ~GateThrows(e) /\ Decision(e) = "ALLOW"
                 /\ starts'[k] = Append(starts[k], [config |-> Config(e), done |-> FALSE])
                 /\ Resume(e, "running", frame[e])
                 /\ rows' = [rows EXCEPT ![k] = [@ EXCEPT !.status = "RUNNING",
                                                         !.attempts = frame[e].attempts + 1]]
<1>1. starts \in [Keys -> Seq(Execution)]
  BY DEF EngineInv, TypeOK
<1>2. ASSUME NEW e \in Events, StartAttempt(e)
      PROVE  \/ starts' = starts
             \/ /\ ~GateThrows(e) /\ Decision(e) = "ALLOW"
                /\ starts' = [starts EXCEPT ![Key(e)] = Append(@, [config |-> Config(e), done |-> FALSE])]
                /\ Resume(e, "running", frame[e])
                /\ rows' = [rows EXCEPT ![Key(e)] = [@ EXCEPT !.status = "RUNNING",
                                                             !.attempts = frame[e].attempts + 1]]
  BY <1>2 DEF StartAttempt, Start
<1>3. ASSUME NEW e \in Events, RunnerReturns(e)
      PROVE  starts' = starts \/ starts' = [starts EXCEPT ![Key(e)] = Resolved(@)]
  BY <1>3 DEF RunnerReturns
<1>4. ASSUME ~ \E e \in Events : StartAttempt(e) \/ RunnerReturns(e) PROVE starts' = starts
  BY <1>4 DEF Next, vars, Publish, Handle, Timeout, Finish, LoadMatchingRules,
     CreateAutomationRun, MarkRunRunning, FinalizeAutomationRun, SetRun, FindActionRun, Find,
     ClaimActionRun, SettleActionRun, UpdateRuleLastRun, Restart, tables, fixed
<1>5. ASSUME NEW e \in Events, StartAttempt(e), starts' # starts
      PROVE  IF k = Key(e) THEN starts'[k] = Append(starts[k], [config |-> Config(e), done |-> FALSE])
                           ELSE starts'[k] = starts[k]
  BY <1>1, <1>2, <1>5
<1>6. ASSUME NEW e \in Events, RunnerReturns(e), starts' # starts
      PROVE  IF k = Key(e) THEN starts'[k] = Resolved(starts[k]) ELSE starts'[k] = starts[k]
  BY <1>1, <1>3, <1>6
<1>7. CASE starts' = starts
  BY <1>7
<1>8. ASSUME NEW e \in Events, StartAttempt(e), starts' # starts, k = Key(e)
      PROVE  /\ ~GateThrows(e) /\ Decision(e) = "ALLOW"
             /\ Resume(e, "running", frame[e])
             /\ rows' = [rows EXCEPT ![k] = [@ EXCEPT !.status = "RUNNING",
                                                     !.attempts = frame[e].attempts + 1]]
  BY <1>2, <1>8
<1> QED BY <1>4, <1>5, <1>6, <1>7, <1>8

\* A start is never forgotten.
LEMMA StartedStays ==
    ASSUME EngineInv, [Next]_vars, NEW k \in Keys, NEW c, Started(k, c)
    PROVE  Started(k, c)'
<1>1. PICK n \in DOMAIN starts[k] : starts[k][n].config = c
  BY DEF Started
<1>2. /\ starts[k] \in Seq(Execution) /\ Len(starts[k]) \in Nat /\ DOMAIN starts[k] = 1..Len(starts[k])
  BY LogsOf DEF EngineInv
<1>3. starts[k][n] \in Execution /\ n \in 1..Len(starts[k])
  BY <1>1, <1>2
<1>4. CASE starts'[k] = starts[k]
  BY <1>1, <1>4 DEF Started
<1>5. CASE starts'[k] = Resolved(starts[k])
  <2>1. n \in DOMAIN Resolved(starts[k]) /\ Resolved(starts[k])[n].config = c
    BY <1>1, <1>2, <1>3, Logs
  <2> QED BY <1>5, <2>1 DEF Started
<1>6. ASSUME NEW e \in Events, StartAttempt(e), k = Key(e),
             starts'[k] = Append(starts[k], [config |-> Config(e), done |-> FALSE])
      PROVE  Started(k, c)'
  <2>1. [config |-> Config(e), done |-> FALSE] \in Execution
    BY <1>6, AtAction DEF StartAttempt, Start, Execution
  <2>2. /\ n \in DOMAIN Append(starts[k], [config |-> Config(e), done |-> FALSE])
        /\ Append(starts[k], [config |-> Config(e), done |-> FALSE])[n].config = c
    BY <1>1, <1>2, <1>3, <2>1, Logs
  <2> QED BY <1>6, <2>2 DEF Started
<1> QED BY <1>4, <1>5, <1>6, StartsChange

\* A start that is new has passed the gate.
LEMMA NewStart ==
    ASSUME EngineInv, [Next]_vars, NEW k \in Keys, NEW c, Started(k, c)', ~Started(k, c)
    PROVE  \E e \in Events : /\ StartAttempt(e) /\ k = Key(e) /\ c = Config(e)
                             /\ ~GateThrows(e) /\ Decision(e) = "ALLOW"
<1>1. PICK n \in DOMAIN starts'[k] : starts'[k][n].config = c
  BY DEF Started
<1>2. /\ starts[k] \in Seq(Execution) /\ Len(starts[k]) \in Nat /\ DOMAIN starts[k] = 1..Len(starts[k])
  BY LogsOf DEF EngineInv
<1>3. ASSUME NEW m \in 1..Len(starts[k]) PROVE starts[k][m].config # c
  BY <1>2 DEF Started
<1>4. starts'[k] # starts[k]
  BY <1>1, <1>2, <1>3
<1>5. ASSUME NEW e \in Events, RunnerReturns(e), k = Key(e), starts'[k] = Resolved(starts[k])
      PROVE  FALSE
  <2>1. [config |-> Config(e), done |-> FALSE] \in Execution
    BY <1>5, AtAction DEF RunnerReturns, Finish, Execution
  <2>2. DOMAIN starts'[k] = 1..Len(starts[k]) /\ starts'[k][n].config = starts[k][n].config
    BY <1>1, <1>2, <1>5, <2>1, Logs
  <2> QED BY <1>1, <1>3, <2>2
<1>6. ASSUME NEW e \in Events, StartAttempt(e),
             starts'[k] = Append(starts[k], [config |-> Config(e), done |-> FALSE])
      PROVE  c = Config(e)
  <2>1. [config |-> Config(e), done |-> FALSE] \in Execution
    BY <1>6, AtAction DEF StartAttempt, Start, Execution
  <2>2. /\ DOMAIN starts'[k] = 1..(Len(starts[k]) + 1)
        /\ starts'[k][Len(starts[k]) + 1] = [config |-> Config(e), done |-> FALSE]
        /\ \A m \in 1..Len(starts[k]) : starts'[k][m] = starts[k][m]
    BY <1>2, <1>6, <2>1, Logs
  <2>3. n = Len(starts[k]) + 1
    BY <1>1, <1>2, <1>3, <2>2
  <2> QED BY <1>1, <2>2, <2>3
<1> QED BY <1>4, <1>5, <1>6, StartsChange

\* The setting and the loader are fixed, and a failed call is never forgotten.
LEMMA FixedStay ==
    ASSUME EngineInv, [Next]_vars
    PROVE  /\ setting' = setting /\ loader' = loader
           /\ \A c : MayRun(c)' = MayRun(c)
           /\ Undisturbed' => Undisturbed
<1>1. TypeOK
  BY DEF EngineInv
<1>2. setting' = setting /\ loader' = loader
  BY DEF Next, vars, Publish, Handle, RunnerReturns, Timeout, Finish, LoadMatchingRules,
     CreateAutomationRun, MarkRunRunning, FinalizeAutomationRun, SetRun, FindActionRun, Find,
     ClaimActionRun, StartAttempt, Start, SettleActionRun, UpdateRuleLastRun, Restart, fixed
<1>3. \A c : MayRun(c)' = MayRun(c)
  BY <1>2 DEF MayRun, CanPerform
<1>4. faults' = 0 => faults = 0
  <2>0. faults \in Nat
    BY <1>1, SettingsAssumption DEF TypeOK
  <2>1. faults' = faults \/ faults' = faults + 1
    BY DEF Next, vars, Publish, Handle, RunnerReturns, Timeout, Finish, LoadMatchingRules,
       CreateAutomationRun, MarkRunRunning, FinalizeAutomationRun, SetRun, Await, FindActionRun, Find,
       ClaimActionRun, StartAttempt, Start, SettleActionRun, UpdateRuleLastRun, Restart, Fault, NoFault
  <2> QED BY <2>0, <2>1
<1> QED BY <1>2, <1>3, <1>4 DEF Undisturbed

\* The claim of an action goes on to an attempt only if there is a runner for it.
LEMMA RegisteredStep ==
    ASSUME EngineInv, [Next]_vars, RegisteredAttempts
    PROVE  RegisteredAttempts'
<1> SUFFICES ASSUME NEW e \in Events, pc'[e] = "attempt" PROVE Config(e)' \in Registered
  BY DEF RegisteredAttempts
<1>1. ASSUME UNCHANGED <<pc, frame, matched>> PROVE Config(e)' \in Registered
  BY <1>1 DEF RegisteredAttempts, Config, Version
<1>2. ASSUME NEW f \in Events, Publish(f) \/ Handle(f) \/ RunnerReturns(f) PROVE Config(e)' \in Registered
  <2>1. CASE f # e
    <3>1. pc'[e] = pc[e] /\ frame'[e] = frame[e] /\ matched'[e] = matched[e]
      BY <1>2, <2>1, StepsAreLocal
    <3> QED BY <3>1 DEF RegisteredAttempts, Config, Version
  <2>2. CASE f = e
    <3>1. ClaimActionRun(e)
      <4>1. pc \in [Events -> Phases]
        BY DEF EngineInv, TypeOK
      <4>2. ASSUME NEW phase, NEW locals, Resume(e, phase, locals) PROVE pc'[e] = phase
        BY <4>1, <4>2 DEF Resume
      <4>3. ~NextVersion(e)
        BY <4>2 DEF NextVersion
      <4> QED BY <1>2, <2>2, <4>2, <4>3, Onward
              DEF Publish, Handle, RunnerReturns, Timeout, Finish, LoadMatchingRules,
              CreateAutomationRun, MarkRunRunning, FinalizeAutomationRun, SetRun, Await, Throw,
              FindActionRun, Find, StartAttempt, Start, SettleActionRun, Fails, UpdateRuleLastRun
    <3>2. pc[e] = "claim" /\ TypeOK /\ frame[e] \in Frame
      BY <3>1, AtAction DEF ClaimActionRun
    <3>3. ~NextVersion(e)
      BY <3>2 DEF NextVersion, Resume, TypeOK
    <3>4. /\ Config(e) \in Registered /\ matched' = matched
          /\ frame'[e] = Claimed(e)
      BY <3>1, <3>2, <3>3 DEF ClaimActionRun, Await, Throw, Resume, TypeOK
    <3>5. frame'[e].turn = frame[e].turn /\ frame'[e].index = frame[e].index
      BY <3>2, <3>4 DEF Claimed, Frame
    <3> QED BY <3>4, <3>5 DEF Config, Version
  <2> QED BY <2>1, <2>2
<1>3. CASE Restart
  BY <1>3 DEF Restart, Awaiting, EngineInv, TypeOK
<1> QED BY <1>1, <1>2, <1>3 DEF Next, vars

\* Each start was allowed.
LEMMA OnlyAllowedStep ==
    ASSUME EngineInv, [Next]_vars, RegisteredAttempts, OnlyAllowedStart
    PROVE  OnlyAllowedStart'
<1> SUFFICES ASSUME NEW k \in Keys, NEW c \in Configs, Started(k, c)'
             PROVE  loader' = "commonjs" /\ MayRun(c)'
  BY DEF OnlyAllowedStart
<1>1. loader' = loader /\ MayRun(c)' = MayRun(c)
  BY FixedStay
<1>2. CASE Started(k, c)
  BY <1>1, <1>2 DEF OnlyAllowedStart
<1>3. ASSUME NEW e \in Events, StartAttempt(e), c = Config(e), ~GateThrows(e), Decision(e) = "ALLOW"
      PROVE  loader = "commonjs" /\ MayRun(c)
  <2>1. Loaders \subseteq {"esm", "commonjs"} /\ loader \in Loaders
    BY SettingsAssumption DEF EngineInv, TypeOK
  <2>2. Config(e) \in Valid /\ CanPerform(Metadata[Config(e)]) = "ALLOW" /\ loader = "commonjs"
    BY <1>3, <2>1 DEF Decision, GateThrows
  <2> QED BY <1>3, <2>2 DEF MayRun, RegisteredAttempts, StartAttempt, Start
<1> QED BY <1>1, <1>2, <1>3, NewStart

\* Only what was started succeeds.
LEMMA SuccessStep ==
    ASSUME EngineInv, [Next]_vars, StartsInv
    PROVE  SuccessWasStarted'
<1>0. TypeOK /\ SuccessWasStarted
  BY DEF EngineInv, StartsInv
<1>1. SUFFICES /\ \A k \in Keys : rows'[k].status = "SUCCESS" => Started(k, rows[k].config)'
               /\ \A e \in Events : AtWork(e)' => Started(Key(e), Config(e))'
  BY DEF SuccessWasStarted, Started
<1>2. ASSUME UNCHANGED <<pc, frame, matched, rows, starts>>
      PROVE  /\ \A k \in Keys : rows'[k].status = "SUCCESS" => Started(k, rows[k].config)'
             /\ \A e \in Events : AtWork(e)' => Started(Key(e), Config(e))'
  BY <1>0, <1>2 DEF SuccessWasStarted, AtWork, Key, Config, Version, Started
<1>3. CASE Restart
  <2>1. \A e \in Events : ~ AtWork(e)'
    BY <1>0, <1>3 DEF Restart, Awaiting, TypeOK, AtWork
  <2> QED BY <1>0, <1>3, <2>1 DEF Restart, tables, SuccessWasStarted, Started
<1>4. ASSUME NEW e \in Events, Publish(e) \/ Handle(e) \/ RunnerReturns(e)
      PROVE  /\ \A k \in Keys : rows'[k].status = "SUCCESS" => Started(k, rows[k].config)'
             /\ \A f \in Events : AtWork(f)' => Started(Key(f), Config(f))'
  <2>1. ASSUME NEW f \in Events \ {e}, AtWork(f)' PROVE Started(Key(f), Config(f))'
    <3>1. /\ pc'[f] = pc[f] /\ frame'[f] = frame[f] /\ matched'[f] = matched[f]
      BY <1>4, <2>1, StepsAreLocal
    <3>2. Key(f)' = Key(f) /\ Config(f)' = Config(f) /\ AtWork(f)
      BY <2>1, <3>1 DEF Key, Config, Version, AtWork
    <3>3. Key(f) \in Keys
      BY <3>2, AtAction DEF AtWork, RowsOf
    <3>4. Started(Key(f), Config(f))
      BY <1>0, <3>2 DEF SuccessWasStarted
    <3>5. PICK k \in Keys : k = Key(f)
      BY <3>3
    <3>6. PICK c : c = Config(f)
      OBVIOUS
    <3>7. Started(k, c)'
      BY <3>4, <3>5, <3>6, StartedStays
    <3> QED BY <3>2, <3>5, <3>6, <3>7 DEF Started
  <2>2. ASSUME NEW k \in Keys, rows'[k].status = "SUCCESS" PROVE Started(k, rows[k].config)'
    <3>1. CASE rows[k].status = "SUCCESS"
      <4>1. rows'[k] = rows[k]
        BY <1>0, <2>2, <3>1, SuccessStays DEF TypeOK, Row
      <4>2. PICK c : c = rows[k].config
        OBVIOUS
      <4>3. Started(k, c)
        BY <1>0, <3>1, <4>2 DEF SuccessWasStarted
      <4>4. Started(k, c)'
        BY <4>3, StartedStays
      <4> QED BY <4>1, <4>2, <4>4 DEF Started
    <3>2. CASE rows[k].status # "SUCCESS"
      <4>1. SettleActionRun(e)
        <5>1. CASE ClaimActionRun(e)
          <6>1. rows' \in {rows, [rows EXCEPT ![Key(e)] = [@ EXCEPT !.status = "PENDING", !.config = Config(e)]]}
            BY <5>1 DEF ClaimActionRun, Await
          <6>2. rows[k] \in Row /\ (rows'[k] = rows[k]
                  \/ rows'[k] = [rows[k] EXCEPT !.status = "PENDING", !.config = Config(e)])
            BY <1>0, <6>1 DEF TypeOK
          <6> QED BY <2>2, <3>2, <6>2 DEF Row
        <5>2. CASE StartAttempt(e)
          <6>1. rows' \in {rows, [rows EXCEPT ![Key(e)] = [@ EXCEPT !.status = "RUNNING",
                                                                  !.attempts = frame[e].attempts + 1]]}
            BY <5>2 DEF StartAttempt, Start
          <6>2. rows[k] \in Row /\ (rows'[k] = rows[k]
                  \/ rows'[k] = [rows[k] EXCEPT !.status = "RUNNING", !.attempts = frame[e].attempts + 1])
            BY <1>0, <6>1 DEF TypeOK
          <6> QED BY <2>2, <3>2, <6>2 DEF Row
        <5>3. ASSUME ~(ClaimActionRun(e) \/ StartAttempt(e) \/ SettleActionRun(e)) PROVE rows' = rows
          BY <1>4, <5>3 DEF Publish, Handle, RunnerReturns, Timeout, Finish, LoadMatchingRules,
             CreateAutomationRun, MarkRunRunning, FinalizeAutomationRun, SetRun, FindActionRun, Find,
             UpdateRuleLastRun, tables
        <5> QED BY <2>2, <3>2, <5>1, <5>2, <5>3
      <4>2. pc[e] = "settle" /\ rows' \in {rows, [rows EXCEPT ![Key(e)].status = frame[e].verdict]}
            /\ starts' = starts
        BY <4>1 DEF SettleActionRun
      <4>3. k = Key(e) /\ frame[e].verdict = "SUCCESS" /\ rows'[k].config = rows[k].config
        BY <1>0, <2>2, <3>2, <4>2 DEF TypeOK, Row
      <4>4. rows[k].config = Config(e)
        BY <4>2, <4>3 DEF EngineInv, EventInv, RowIsFresh
      <4>5. Started(k, Config(e))
        BY <1>0, <4>2, <4>3 DEF SuccessWasStarted, AtWork
      <4> QED BY <4>2, <4>3, <4>4, <4>5 DEF Started
    <3> QED BY <3>1, <3>2
  <2>3. ASSUME AtWork(e)' PROVE Started(Key(e), Config(e))'
    <3>1. ASSUME NEW phase, NEW locals, Resume(e, phase, locals) PROVE pc'[e] = phase /\ frame'[e] = locals
      BY <1>0, <3>1 DEF Resume, TypeOK
    <3>2. ~NextVersion(e)
      BY <2>3, <3>1 DEF NextVersion, AtWork
    <3>3. \/ ClaimActionRun(e) \/ StartAttempt(e) \/ SettleActionRun(e)
          \/ \E status \in {"SUCCESS", "RETRYING", "FAILED"} : Finish(e, status)
      BY <1>4, <2>3, <3>1, <3>2, Onward
         DEF AtWork, Publish, Handle, RunnerReturns, Timeout, LoadMatchingRules,
         CreateAutomationRun, MarkRunRunning, FinalizeAutomationRun, SetRun, Await, Throw,
         FindActionRun, Find, UpdateRuleLastRun
    <3>4. /\ pc[e] \in {"claim", "attempt", "running", "settle"} /\ frame[e] \in Frame
          /\ Key(e) \in RowsOf(e) /\ Key(e) \in Keys /\ matched' = matched /\ Config(e) \in Configs
      BY <3>3, AtAction DEF ClaimActionRun, StartAttempt, Start, SettleActionRun, Finish, RowsOf
    <3>5. frame'[e].turn = frame[e].turn /\ frame'[e].index = frame[e].index
             => Key(e)' = Key(e) /\ Config(e)' = Config(e)
      BY <3>4 DEF Key, Config, Version, KeyOf
    <3>6. CASE ClaimActionRun(e)
      <4>1. frame'[e] = Claimed(e) /\ pc'[e] # "running"
        BY <3>1, <3>2, <3>6 DEF ClaimActionRun, Await, Throw
      <4> QED BY <2>3, <3>4, <4>1 DEF Claimed, Frame, AtWork
    <3>7. CASE StartAttempt(e)
      <4>1. CASE Resume(e, "settle", Verdict(e, IF Decision(e) = "REQUIRE_APPROVAL" THEN "PENDING" ELSE "FAILED"))
        <5>1. pc'[e] = "settle"
              /\ frame'[e] = Verdict(e, IF Decision(e) = "REQUIRE_APPROVAL" THEN "PENDING" ELSE "FAILED")
          BY <3>1, <4>1
        <5> QED BY <2>3, <3>4, <5>1 DEF Verdict, Frame, AtWork
      <4>2. CASE /\ starts' = [starts EXCEPT ![Key(e)] = Append(@, [config |-> Config(e), done |-> FALSE])]
                 /\ Resume(e, "running", frame[e])
        <5>1. frame'[e] = frame[e]
          BY <3>1, <4>2
        <5>2. Key(e)' = Key(e) /\ Config(e)' = Config(e)
          BY <3>5, <5>1
        <5>3. starts'[Key(e)] = Append(starts[Key(e)], [config |-> Config(e), done |-> FALSE])
          BY <1>0, <3>4, <4>2 DEF TypeOK
        <5>4. starts[Key(e)] \in Seq(Execution) /\ [config |-> Config(e), done |-> FALSE] \in Execution
          BY <1>0, <3>4 DEF TypeOK, Execution
        <5>5. /\ Len(starts[Key(e)]) + 1 \in DOMAIN starts'[Key(e)]
              /\ starts'[Key(e)][Len(starts[Key(e)]) + 1].config = Config(e)
          BY <5>3, <5>4, Logs
        <5> QED BY <5>2, <5>5 DEF Started
      <4> QED BY <3>2, <3>7, <4>1, <4>2 DEF StartAttempt, Start, Throw
    <3>8. ASSUME NEW status \in {"SUCCESS", "RETRYING", "FAILED"}, Finish(e, status)
          PROVE  Started(Key(e), Config(e))'
      <4>1. frame'[e] = Verdict(e, status) /\ pc[e] = "running"
        BY <3>1, <3>8 DEF Finish
      <4>2. frame'[e].turn = frame[e].turn /\ frame'[e].index = frame[e].index
        BY <3>4, <4>1 DEF Verdict, Frame
      <4>3. PICK k \in Keys : k = Key(e)
        BY <3>4
      <4>4. PICK c \in Configs : c = Config(e)
        BY <3>4
      <4>5. Started(k, c)
        BY <1>0, <4>1, <4>3, <4>4 DEF SuccessWasStarted, AtWork
      <4>6. Started(k, c)'
        BY <4>5, StartedStays
      <4> QED BY <3>5, <4>2, <4>3, <4>4, <4>6 DEF Started
    <3>9. CASE SettleActionRun(e)
      <4>1. \/ Resume(e, From(frame[e].index + 1, e), Summarized(e, frame[e].verdict))
            \/ Resume(e, "settle", Verdict(e, "FAILED"))
        BY <3>2, <3>9 DEF SettleActionRun, Fails, Throw
      <4>2. pc'[e] \in {"find", "finalize"} \/ (pc'[e] = "settle" /\ frame'[e] = Verdict(e, "FAILED"))
        BY <3>1, <4>1, Onward
      <4> QED BY <2>3, <3>4, <4>2 DEF Verdict, Frame, AtWork
    <3> QED BY <3>3, <3>6, <3>7, <3>8, <3>9
  <2> QED BY <2>1, <2>2, <2>3
<1> QED BY <1>2, <1>3, <1>4 DEF Next, vars

\* What was tried stays tried.
LEMMA TriedStays ==
    ASSUME EngineInv, [Next]_vars, Undisturbed, NEW e \in Events, NEW v \in Versions,
           NEW i \in DOMAIN Actions[v], Tried(e, v, i)
    PROVE  Tried(e, v, i)'
<1>1. PICK k \in Keys : k = KeyOf(e, v, i)
  BY KeysOf DEF RowsOf
<1>2. MayRun(Actions[v][i])' = MayRun(Actions[v][i])
  BY FixedStay
<1>3. Started(k, Actions[v][i]) => Started(k, Actions[v][i])'
  BY StartedStays
<1>4. Skipped(e, v, i) => Skipped(e, v, i)'
  <2>1. rows[k].status = "SUCCESS" => rows'[k] = rows[k]
    <3>1. ~(faults > 0)
      BY DEF Undisturbed
    <3> QED BY <3>1, SuccessStays
  <2> QED BY <1>1, <2>1 DEF Skipped, Shadowed, KeyOf
<1> QED BY <1>1, <1>2, <1>3, <1>4 DEF Tried, Started, KeyOf

\* The versions an event has behind it are versions.
LEMMA PassedAreVersions ==
    ASSUME TypeOK, NEW e \in Events, FrameFits(e), NEW n \in Passed(e)
    PROVE  n \in 1..Len(matched[e]) /\ matched[e][n] \in Versions
<1>1. matched[e] \in Matches
  BY DEF TypeOK
<1>2. n \in 1..Len(matched[e])
  <2>1. CASE pc[e] = "over"
    BY <2>1 DEF Passed
  <2>2. CASE pc[e] # "over" /\ Executing(e)
    <3>1. frame[e].turn \in 1..Len(matched[e]) /\ Len(matched[e]) \in Nat
      BY <2>2, AtVersion DEF FrameFits
    <3> QED BY <2>2, <3>1 DEF Passed
  <2> QED BY <2>1, <2>2 DEF Passed
<1> QED BY <1>1, <1>2, MatchesAreSequences

\* While the executor stays at a version, the action it has got past was tried.
LEMMA TriedWithin ==
    ASSUME EngineInv, [Next]_vars, Undisturbed, NEW e \in Events, TriedFit(e), Executing(e), Executing(e)',
           frame'[e].turn = frame[e].turn, matched'[e] = matched[e],
           NEW v \in Versions, v = Version(e), NEW at \in Nat, at = frame[e].index,
           pc'[e] = "settle" => frame'[e].index = at /\ Tried(e, v, at)',
           \A i \in DOMAIN Actions[v] :
               i < frame'[e].index \/ pc'[e] = "updateRule" => i < at \/ Tried(e, v, i)'
    PROVE  TriedFit(e)'
<1>1. TypeOK /\ FrameFits(e)
  BY DEF EngineInv, EventInv
<1>2. Version(e)' = v
  BY DEF Version
<1>3. Passed(e)' = Passed(e)
  BY DEF Passed, Executing, Awaiting
<1>4. \A n \in Passed(e) : matched[e][n] \in Versions
  BY <1>1, PassedAreVersions
<1>5. \A n \in Passed(e) : AllTried(e, matched[e][n])'
  <2> SUFFICES ASSUME NEW n \in Passed(e) PROVE AllTried(e, matched[e][n])'
    OBVIOUS
  <2>1. PICK w \in Versions : w = matched[e][n]
    BY <1>4
  <2>2. AllTried(e, w)
    BY <2>1 DEF TriedFit
  <2>3. AllTried(e, w)'
    BY <2>2, TriedStays DEF AllTried
  <2> QED BY <2>1, <2>3 DEF AllTried, Tried, KeyOf
<1>6. \A i \in DOMAIN Actions[v] : i < frame'[e].index \/ pc'[e] = "updateRule" => Tried(e, v, i)'
  <2>1. \A i \in DOMAIN Actions[v] : i < at => Tried(e, v, i)
    BY DEF TriedFit
  <2> QED BY <2>1, TriedStays
<1>7. (pc[e] = "settle" => Tried(e, Version(e), frame[e].index))'
  BY <1>2 DEF Tried, KeyOf
<1>8. (\A i \in DOMAIN Actions[Version(e)] :
          i < frame[e].index \/ pc[e] = "updateRule" => Tried(e, Version(e), i))'
  BY <1>2, <1>6 DEF Tried, KeyOf
<1>9. (\A n \in Passed(e) : AllTried(e, matched[e][n]))'
  BY <1>3, <1>5 DEF AllTried, Tried, KeyOf
<1> QED BY <1>7, <1>8, <1>9 DEF TriedFit

\* When it leaves a version, all of it was tried.
LEMMA TriedBehind ==
    ASSUME EngineInv, [Next]_vars, Undisturbed, NEW e \in Events, TriedFit(e), Executing(e), NextVersion(e),
           matched'[e] = matched[e], AllTried(e, Version(e))
    PROVE  TriedFit(e)'
<1> DEFINE turn == frame[e].turn
<1>1. TypeOK /\ FrameFits(e)
  BY DEF EngineInv, EventInv
<1>2. /\ turn \in 1..Len(matched[e]) /\ Len(matched[e]) \in Nat /\ turn \in Nat
      /\ Version(e) \in Versions /\ Version(e) = matched[e][turn]
      /\ Len(matched[e]) <= Cardinality(Versions) /\ Cardinality(Versions) \in Nat
  BY <1>1, AtVersion DEF FrameFits
<1>3. \/ pc'[e] = "over" /\ turn = Len(matched[e])
      \/ pc'[e] = "createRun" /\ turn < Len(matched[e]) /\ frame'[e] = Fresh(turn + 1)
  BY <1>1, NextVersions
<1>4. pc'[e] = "createRun" => frame'[e].turn = turn + 1 /\ frame'[e].index = 1
  BY <1>2, <1>3, FreshFrames
<1>5. Passed(e) = 1..(turn - 1)
  BY DEF Passed, Executing, Awaiting
<1>6. Passed(e)' = 1..turn
  <2>1. pc'[e] = "over" => Passed(e)' = 1..turn
    BY <1>3 DEF Passed
  <2>2. ASSUME pc'[e] = "createRun" PROVE Passed(e)' = 1..turn
    <3>1. pc'[e] # "over" /\ pc'[e] \in (Awaiting \ {"load"}) \cup {"running"}
      BY <2>2 DEF Awaiting
    <3>2. frame'[e].turn = turn + 1 /\ (turn + 1) - 1 = turn
      BY <1>2, <1>4, <2>2
    <3> QED BY <3>1, <3>2 DEF Passed, Executing
  <2> QED BY <1>3, <2>1, <2>2
<1>7. ASSUME NEW n \in 1..turn PROVE AllTried(e, matched[e][n])'
  <2>1. n = turn \/ n \in Passed(e)
    BY <1>2, <1>5
  <2>2. PICK v \in Versions : v = matched[e][n]
    BY <1>1, <1>2, <2>1, PassedAreVersions
  <2>3. AllTried(e, v)
    BY <1>2, <2>1, <2>2 DEF TriedFit
  <2>4. AllTried(e, v)'
    BY <2>3, TriedStays DEF AllTried
  <2> QED BY <2>2, <2>4 DEF AllTried, Tried, KeyOf
<1>8. \A n \in Passed(e)' : AllTried(e, matched[e][n])'
  BY <1>6, <1>7
<1>9. ASSUME Executing(e)' PROVE \A i \in DOMAIN Actions[Version(e)'] : ~ (i < frame'[e].index \/ pc'[e] = "updateRule")
  <2>1. pc'[e] = "createRun" /\ frame'[e].index = 1
    BY <1>3, <1>4, <1>9 DEF Executing, Awaiting
  <2>2. Version(e)' \in Versions
    <3>1. matched[e] \in Matches /\ Version(e)' = matched[e][turn + 1] /\ turn + 1 \in 1..Len(matched[e])
      BY <1>1, <1>2, <1>3, <1>4, <2>1 DEF Version, TypeOK
    <3> QED BY <3>1, MatchesAreSequences
  <2>3. Actions[Version(e)'] \in Seq(Configs)
    BY <2>2, ActionAssumption
  <2> QED BY <2>1, <2>3
<1>10. pc'[e] # "settle"
  BY <1>3
<1> QED BY <1>8, <1>9, <1>10 DEF TriedFit

\* Without a failed call, a handler of an executor leaves no action of its version behind
\* that may run and was neither started nor skipped.
LEMMA TriedAtWork ==
    ASSUME EngineInv, [Next]_vars, StartsInv, Undisturbed, ~Fault, NEW e \in Events,
           Executing(e), Handle(e) \/ RunnerReturns(e)
    PROVE  TriedFit(e)'
<1>1. TypeOK /\ EventInv(e) /\ FrameFits(e) /\ TriedFit(e) /\ loader = "commonjs"
  BY DEF EngineInv, EventInv, StartsInv, Undisturbed
<1>2. PICK v \in Versions : v = Version(e)
  BY <1>1, AtVersion
<1>3. PICK at \in Nat : at = frame[e].index
  BY <1>1, AtVersion
<1>4. /\ Actions[v] \in Seq(Configs) /\ DOMAIN Actions[v] = 1..Len(Actions[v])
      /\ frame[e] \in Frame /\ Len(Actions[v]) \in Nat
  BY <1>1, <1>2, AtVersion, Locals
<1>5. ASSUME NEW phase \in Phases \ {"idle", "load", "over", "lost", "settle", "updateRule"},
             NEW locals \in Frame, Resume(e, phase, locals), matched' = matched,
             locals.turn = frame[e].turn, locals.index \in {at, at + 1},
             locals.index = at + 1 => at \in DOMAIN Actions[v] /\ Tried(e, v, at)'
      PROVE  TriedFit(e)'
  <2>1. pc'[e] = phase /\ frame'[e] = locals
    BY <1>1, <1>5, Resumes
  <2>2. Executing(e)' /\ phase # "settle" /\ phase # "updateRule"
    BY <2>1 DEF Executing, Awaiting, Phases
  <2>3. \A i \in DOMAIN Actions[v] : i < locals.index => i < at \/ i = at
    BY <1>3, <1>4, <1>5
  <2>4. \A i \in DOMAIN Actions[v] : i < frame'[e].index \/ pc'[e] = "updateRule" => i < at \/ Tried(e, v, i)'
    <3>1. ASSUME NEW i \in DOMAIN Actions[v], i < locals.index PROVE i < at \/ Tried(e, v, i)'
      <4>1. CASE locals.index = at + 1
        BY <1>5, <2>3, <3>1, <4>1
      <4>2. CASE locals.index = at
        BY <3>1, <4>2
      <4> QED BY <1>5, <4>1, <4>2
    <3> QED BY <2>1, <2>2, <3>1
  <2> QED BY <1>1, <1>2, <1>3, <1>5, <2>1, <2>2, <2>4, TriedWithin
<1>6. ASSUME NEW locals \in Frame, Resume(e, "settle", locals), matched' = matched,
             locals.turn = frame[e].turn, locals.index = at, Tried(e, v, at)'
      PROVE  TriedFit(e)'
  <2>2. pc'[e] = "settle" /\ frame'[e] = locals
    BY <1>1, <1>6, Resumes DEF Phases, Awaiting
  <2>3. Executing(e)' /\ frame'[e].turn = frame[e].turn /\ frame'[e].index = at
    BY <1>6, <2>2 DEF Executing, Awaiting
  <2>4. \A i \in DOMAIN Actions[v] : i < frame'[e].index \/ pc'[e] = "updateRule" => i < at \/ Tried(e, v, i)'
    BY <2>2, <2>3
  <2> QED BY <1>1, <1>2, <1>3, <1>6, <2>2, <2>3, <2>4, TriedWithin
<1>8. ASSUME pc[e] \in {"find", "claim", "attempt", "running", "settle"}
      PROVE  /\ Key(e) = KeyOf(e, v, at) /\ Key(e) \in Keys /\ at \in DOMAIN Actions[v]
             /\ Config(e) = Actions[v][at]
  BY <1>1, <1>2, <1>3, <1>8, KeyAtHand
<1>9. ASSUME pc[e] \in {"find", "claim", "attempt", "running", "settle"}, Tried(e, v, at)
      PROVE  Tried(e, v, at)'
  BY <1>8, <1>9, TriedStays
<1>10. ASSUME NEW from, NEW status, NEW next \in Phases \ {"idle", "load", "over", "lost", "settle", "updateRule"},
              SetRun(e, from, status, next)
       PROVE  TriedFit(e)'
  <2>1. Resume(e, next, frame[e]) /\ matched' = matched
    BY <1>10 DEF SetRun, Await
  <2> QED BY <1>3, <1>4, <1>5, <2>1
<1>11. CASE CreateAutomationRun(e)
  BY <1>10, <1>11 DEF CreateAutomationRun, Phases, Awaiting
<1>12. \A i : From(i, e) \in Phases \ {"idle", "load", "over", "lost", "settle", "updateRule"}
  BY DEF From, Phases, Awaiting
<1>13. CASE MarkRunRunning(e)
  <2>1. PICK next \in Phases \ {"idle", "load", "over", "lost", "settle", "updateRule"} : next = From(1, e)
    BY <1>12
  <2> QED BY <1>10, <1>13, <2>1 DEF MarkRunRunning, SetRun, Await, Resume
<1>14. CASE FindActionRun(e)
  <2>1. pc[e] = "find" /\ matched' = matched /\ Key(e) \in Keys
    BY <1>8, <1>14 DEF FindActionRun, Find
  <2>2. CASE rows[Key(e)].status = "SUCCESS"
    <3>1. Resume(e, From(frame[e].index + 1, e), Summarized(e, "SKIPPED"))
      BY <1>14, <2>2 DEF FindActionRun, Find
    <3>2. Tried(e, v, at)'
      <4>1. rows[KeyOf(e, v, at)].config = Actions[v][at] \/ Shadowed(e, v, at)
        BY <1>8, <2>1, <2>2, SucceededFor
      <4>2. Started(Key(e), rows[Key(e)].config)
        BY <2>1, <2>2 DEF StartsInv, SuccessWasStarted
      <4>3. Tried(e, v, at)
        BY <1>8, <2>1, <2>2, <4>1, <4>2 DEF Tried, Skipped
      <4> QED BY <1>9, <2>1, <4>3
    <3>3. Summarized(e, "SKIPPED") \in Frame
      BY <1>1, Locals
    <3>4. Summarized(e, "SKIPPED").turn = frame[e].turn /\ Summarized(e, "SKIPPED").index = at + 1
      BY <1>3, <1>4 DEF Summarized, Frame
    <3>5. PICK next \in Phases \ {"idle", "load", "over", "lost", "settle", "updateRule"} :
             next = From(frame[e].index + 1, e)
      BY <1>12
    <3>6. at \in DOMAIN Actions[v]
      BY <1>8, <2>1
    <3> QED BY <1>5, <2>1, <3>1, <3>2, <3>3, <3>4, <3>5, <3>6
  <2>3. CASE rows[Key(e)].status # "SUCCESS"
    <3>1. Resume(e, "claim", frame[e])
      BY <1>14, <2>3 DEF FindActionRun, Find
    <3>2. "claim" \in Phases \ {"idle", "load", "over", "lost", "settle", "updateRule"}
      BY DEF Phases, Awaiting
    <3> QED BY <1>3, <1>4, <1>5, <2>1, <3>1, <3>2
  <2> QED BY <2>2, <2>3
<1>15. CASE ClaimActionRun(e)
  <2>1. pc[e] = "claim" /\ matched' = matched
        /\ Resume(e, IF Config(e) \in Registered THEN "attempt" ELSE "settle", Claimed(e))
    BY <1>15 DEF ClaimActionRun, Await
  <2>2. Claimed(e) \in Frame
    BY <1>1, <1>8, <2>1, Locals
  <2>3. Claimed(e).turn = frame[e].turn /\ Claimed(e).index = at
    BY <1>3, <1>4 DEF Claimed, Frame
  <2>4. CASE Config(e) \in Registered
    <3>1. "attempt" \in Phases \ {"idle", "load", "over", "lost", "settle", "updateRule"}
      BY DEF Phases, Awaiting
    <3> QED BY <1>3, <1>5, <2>1, <2>2, <2>3, <2>4, <3>1
  <2>5. CASE Config(e) \notin Registered
    <3>1. Tried(e, v, at)
      BY <1>8, <2>1, <2>5 DEF MayRun, Tried
    <3> QED BY <1>6, <1>9, <2>1, <2>2, <2>3, <2>5, <3>1
  <2> QED BY <2>4, <2>5
<1>16. CASE StartAttempt(e)
  <2>1. pc[e] = "attempt" /\ matched' = matched
    BY <1>16 DEF StartAttempt, Start
  <2>2. ~GateThrows(e)
    BY <1>1 DEF GateThrows
  <2>3. CASE Decision(e) = "ALLOW"
    <3>1. Resume(e, "running", frame[e])
      BY <1>16, <2>2, <2>3 DEF StartAttempt, Start
    <3>2. "running" \in Phases \ {"idle", "load", "over", "lost", "settle", "updateRule"}
      BY DEF Phases, Awaiting
    <3> QED BY <1>3, <1>4, <1>5, <2>1, <3>1, <3>2
  <2>4. CASE Decision(e) # "ALLOW"
    <3>1. PICK status \in {"PENDING", "FAILED"} : Resume(e, "settle", Verdict(e, status))
      BY <1>16, <2>2, <2>4 DEF StartAttempt, Start
    <3>2. ~MayRun(Config(e)) /\ status \in RowStatuses
      BY <2>4 DEF MayRun, Decision, RowStatuses
    <3>3. Verdict(e, status) \in Frame /\ Verdict(e, status).turn = frame[e].turn /\ Verdict(e, status).index = at
      BY <1>1, <1>3, <1>4, <3>2, Locals DEF Verdict, Frame
    <3>4. Tried(e, v, at)
      BY <1>8, <2>1, <3>2 DEF Tried
    <3> QED BY <1>6, <1>9, <2>1, <3>1, <3>3, <3>4
  <2> QED BY <2>3, <2>4
<1>17. ASSUME NEW status \in {"SUCCESS", "RETRYING", "FAILED"}, Finish(e, status) PROVE TriedFit(e)'
  <2>1. pc[e] = "running" /\ matched' = matched /\ Resume(e, "settle", Verdict(e, status))
    BY <1>17 DEF Finish
  <2>2. Tried(e, v, at) /\ status \in RowStatuses
    <3>1. Started(Key(e), Config(e))
      BY <2>1 DEF StartsInv, SuccessWasStarted, AtWork
    <3> QED BY <1>8, <2>1, <3>1 DEF Tried, RowStatuses
  <2>3. Verdict(e, status) \in Frame /\ Verdict(e, status).turn = frame[e].turn /\ Verdict(e, status).index = at
    BY <1>1, <1>3, <1>4, <2>2, Locals DEF Verdict, Frame
  <2> QED BY <1>6, <1>9, <2>1, <2>2, <2>3
<1>18. CASE SettleActionRun(e)
  <2>1. /\ pc[e] = "settle" /\ matched' = matched /\ starts' = starts
        /\ Resume(e, From(frame[e].index + 1, e), Summarized(e, frame[e].verdict))
    BY <1>18 DEF SettleActionRun
  <2>2. Tried(e, v, at)'
    <3>1. Tried(e, v, at)
      BY <1>1, <1>2, <1>3, <2>1 DEF TriedFit
    <3> QED BY <1>8, <2>1, <3>1, TriedStays
  <2>3. Summarized(e, frame[e].verdict) \in Frame
    BY <1>1, <1>4, Locals DEF Frame
  <2>4. Summarized(e, frame[e].verdict).turn = frame[e].turn /\ Summarized(e, frame[e].verdict).index = at + 1
    BY <1>3, <1>4 DEF Summarized, Frame
  <2>5. PICK next \in Phases \ {"idle", "load", "over", "lost", "settle", "updateRule"} :
           next = From(frame[e].index + 1, e)
    BY <1>12
  <2>6. at \in DOMAIN Actions[v]
    BY <1>8, <2>1
  <2> QED BY <1>5, <2>1, <2>2, <2>3, <2>4, <2>5, <2>6
<1>19. CASE FinalizeAutomationRun(e)
  <2>1. pc[e] = "finalize" /\ matched' = matched /\ Resume(e, "updateRule", frame[e])
    BY <1>19 DEF FinalizeAutomationRun, SetRun, Await
  <2>2. pc'[e] = "updateRule" /\ frame'[e] = frame[e]
    BY <1>1, <1>4, <2>1, Resumes DEF Phases, Awaiting
  <2>3. at = Len(Actions[v]) + 1
    BY <1>1, <1>2, <1>3, <2>1 DEF FrameFits
  <2>4. \A i \in DOMAIN Actions[v] : i < at
    BY <1>4, <2>3
  <2>5. Executing(e)'
    BY <2>2 DEF Executing, Awaiting
  <2> QED BY <1>1, <1>2, <1>3, <2>1, <2>2, <2>4, <2>5, TriedWithin
<1>20. CASE UpdateRuleLastRun(e)
  <2>1. pc[e] = "updateRule" /\ matched' = matched /\ NextVersion(e)
    BY <1>20 DEF UpdateRuleLastRun
  <2>2. AllTried(e, Version(e))
    BY <1>1, <2>1 DEF TriedFit, AllTried
  <2> QED BY <1>1, <2>1, <2>2, TriedBehind
<1>21. ~LoadMatchingRules(e)
  BY DEF LoadMatchingRules, Executing, Awaiting
<1> QED BY <1>11, <1>13, <1>14, <1>15, <1>16, <1>17, <1>18, <1>19, <1>20, <1>21
    DEF Handle, RunnerReturns, Timeout

\* Nor does any other step.
LEMMA TriedStep ==
    ASSUME EngineInv, EngineInv', [Next]_vars, StartsInv, Undisturbed', NEW e \in Events
    PROVE  TriedFit(e)'
<1>1. TypeOK /\ TypeOK' /\ EventInv(e) /\ FrameFits(e) /\ FrameFits(e)'
  BY DEF EngineInv, EventInv
<1>2. Undisturbed /\ faults = 0 /\ faults' = 0 /\ loader = "commonjs" /\ ~setting.dryRun /\ TriedFit(e)
  <2>1. Undisturbed
    BY FixedStay
  <2> QED BY <2>1 DEF StartsInv, Undisturbed
<1>3. ~Fault
  BY <1>2 DEF Fault
<1>4. ASSUME ~Executing(e)', pc'[e] # "settle",
             \A n \in Passed(e)' : n \in Passed(e) /\ matched'[e][n] = matched[e][n]
      PROVE  TriedFit(e)'
  <2>1. (\A n \in Passed(e) : AllTried(e, matched[e][n]))'
    <3> SUFFICES ASSUME NEW n \in Passed(e)' PROVE AllTried(e, matched[e][n])'
      OBVIOUS
    <3>1. PICK w \in Versions : w = matched[e][n]
      BY <1>1, <1>4, PassedAreVersions
    <3>2. AllTried(e, w)
      BY <1>2, <1>4, <3>1 DEF TriedFit
    <3>3. AllTried(e, w)'
      BY <1>2, <3>2, TriedStays DEF AllTried
    <3>4. w = matched'[e][n]
      BY <1>4, <3>1
    <3> QED BY <3>3, <3>4 DEF AllTried, Tried, KeyOf
  <2> QED BY <1>4, <2>1 DEF TriedFit
<1>5. ASSUME pc'[e] = pc[e], frame'[e] = frame[e], matched'[e] = matched[e]
      PROVE  TriedFit(e)'
  <2>1. CASE Executing(e)
    <3>1. PICK v \in Versions : v = Version(e)
      BY <1>1, <2>1, AtVersion
    <3>2. PICK at \in Nat : at = frame[e].index
      BY <1>1, <2>1, AtVersion
    <3>3. Executing(e)'
      BY <1>5, <2>1 DEF Executing
    <3>4. pc[e] = "settle" => Tried(e, v, at)'
      <4> SUFFICES ASSUME pc[e] = "settle" PROVE Tried(e, v, at)'
        OBVIOUS
      <4>1. Tried(e, v, at)
        BY <1>2, <3>1, <3>2 DEF TriedFit
      <4>2. at \in DOMAIN Actions[v]
        BY <1>1, <3>1, <3>2, KeyAtHand
      <4> QED BY <1>2, <4>1, <4>2, TriedStays
    <3>5. pc[e] = "updateRule" => \A i \in DOMAIN Actions[v] : Tried(e, v, i)'
      <4>1. pc[e] = "updateRule" => \A i \in DOMAIN Actions[v] : Tried(e, v, i)
        BY <1>2, <2>1, <3>1 DEF TriedFit
      <4> QED BY <1>2, <4>1, TriedStays
    <3>6. \A i \in DOMAIN Actions[v] : i < frame'[e].index \/ pc'[e] = "updateRule" => i < at \/ Tried(e, v, i)'
      BY <1>5, <3>2, <3>5
    <3> QED BY <1>2, <1>5, <2>1, <3>1, <3>2, <3>3, <3>4, <3>6, TriedWithin
  <2>2. CASE ~Executing(e)
    <3>1. ~Executing(e)' /\ Passed(e)' = Passed(e) /\ pc'[e] # "settle"
      BY <1>5, <2>2 DEF Executing, Passed, Awaiting
    <3> QED BY <1>4, <1>5, <3>1
  <2> QED BY <2>1, <2>2
<1>6. CASE UNCHANGED vars
  BY <1>5, <1>6 DEF vars
<1>7. CASE Restart
  <2>1. matched' = matched /\ pc'[e] = IF pc[e] \in Awaiting \cup {"running"} THEN "lost" ELSE pc[e]
    BY <1>7 DEF Restart
  <2>2. ~Executing(e)' /\ pc'[e] # "settle" /\ (pc'[e] = "over" => pc[e] = "over")
    BY <2>1 DEF Executing, Awaiting
  <2>3. Passed(e)' = IF pc'[e] = "over" THEN 1..Len(matched[e]) ELSE {}
    BY <2>1, <2>2 DEF Passed
  <2> QED BY <1>4, <2>1, <2>2, <2>3 DEF Passed
<1>8. ASSUME NEW f \in Events, f # e, Publish(f) \/ Handle(f) \/ RunnerReturns(f) PROVE TriedFit(e)'
  BY <1>5, <1>8, StepsAreLocal
<1>9. CASE Publish(e)
  <2>1. pc'[e] = "load"
    BY <1>1, <1>9, FreshFrames DEF Publish, Resume, TypeOK
  <2>2. ~Executing(e)' /\ Passed(e)' = {}
    BY <2>1 DEF Executing, Passed, Awaiting
  <2> QED BY <1>4, <2>1, <2>2
<1>10. CASE LoadMatchingRules(e)
  <2>1. PICK s \in Matches :
           /\ matched' = [matched EXCEPT ![e] = s]
           /\ Resume(e, IF s = <<>> THEN "over" ELSE "createRun", Fresh(1))
    BY <1>2, <1>3, <1>10 DEF LoadMatchingRules
  <2>2. matched'[e] = s /\ frame'[e] = Fresh(1) /\ pc'[e] = IF s = <<>> THEN "over" ELSE "createRun"
    BY <1>1, <2>1 DEF Resume, TypeOK
  <2>3. CASE s = <<>>
    <3>1. Len(s) = 0 /\ 1..0 = {}
      BY <2>3
    <3>2. ~Executing(e)' /\ pc'[e] = "over" /\ Passed(e)' = {}
      BY <2>2, <2>3, <3>1 DEF Executing, Passed, Awaiting
    <3> QED BY <1>4, <3>2
  <2>4. CASE s # <<>>
    <3>1. pc'[e] = "createRun" /\ frame'[e].turn = 1 /\ frame'[e].index = 1
      BY <2>2, <2>4 DEF Fresh
    <3>2. Executing(e)'
      BY <3>1 DEF Executing, Awaiting
    <3>3. Passed(e)' = {}
      <4>1. 1..(1 - 1) = {}
        OBVIOUS
      <4> QED BY <3>1, <3>2, <4>1 DEF Passed
    <3>4. (Actions[Version(e)] \in Seq(Configs))'
      <4>1. Version(e)' = s[1]
        BY <2>2, <3>1 DEF Version
      <4>2. s \in Seq(Versions) /\ s # <<>>
        BY <2>4, MatchesAreSequences
      <4>3. s[1] \in Versions
        BY <4>2
      <4> QED BY <4>1, <4>3, ActionAssumption
    <3>5. (\A i \in DOMAIN Actions[Version(e)] : ~(i < frame[e].index \/ pc[e] = "updateRule"))'
      BY <3>1, <3>4
    <3> QED BY <3>1, <3>3, <3>5 DEF TriedFit
  <2> QED BY <2>3, <2>4
<1>11. CASE (Handle(e) \/ RunnerReturns(e)) /\ Executing(e)
  BY <1>2, <1>3, <1>11, TriedAtWork
<1>12. CASE (Handle(e) \/ RunnerReturns(e)) /\ ~LoadMatchingRules(e)
  <2>1. Executing(e)
    BY <1>12 DEF Handle, RunnerReturns, Timeout, Finish, CreateAutomationRun, MarkRunRunning,
       FinalizeAutomationRun, SetRun, FindActionRun, Find, ClaimActionRun, StartAttempt, Start,
       SettleActionRun, UpdateRuleLastRun, Executing, Awaiting
  <2> QED BY <1>11, <1>12, <2>1
<1> QED BY <1>6, <1>7, <1>8, <1>9, <1>10, <1>12 DEF Next

--------------------------------------------------------------------------------
\* Nothing was started at the start.
LEMMA StartsInitInv == Init => StartsInv
<1> SUFFICES ASSUME Init PROVE StartsInv
  OBVIOUS
<1>1. \A e \in Events : pc[e] = "idle" /\ ~Executing(e)
  BY DEF Init, Executing, Awaiting
<1>2. RegisteredAttempts /\ OnlyAllowedStart
  <2>1. \A k \in Keys : \A c : ~Started(k, c)
    BY DEF Init, Started
  <2> QED BY <1>1, <2>1 DEF RegisteredAttempts, OnlyAllowedStart
<1>3. SuccessWasStarted
  BY <1>1 DEF SuccessWasStarted, Init, NoRow, AtWork
<1>4. \A e \in Events : Passed(e) = {} /\ TriedFit(e)
  BY <1>1 DEF Passed, TriedFit
<1> QED BY <1>2, <1>3, <1>4 DEF StartsInv

\* What is known of the starts holds at all times.
LEMMA StartsInvariance == Spec => []StartsInv
<1>1. EngineInv /\ EngineInv' /\ StartsInv /\ [Next]_vars => StartsInv'
  <2> SUFFICES ASSUME EngineInv, EngineInv', StartsInv, [Next]_vars PROVE StartsInv'
    OBVIOUS
  <2>1. RegisteredAttempts' /\ OnlyAllowedStart'
    BY RegisteredStep, OnlyAllowedStep DEF StartsInv
  <2>2. SuccessWasStarted'
    BY SuccessStep
  <2>3. (Undisturbed => \A e \in Events : TriedFit(e))'
    BY TriedStep
  <2> QED BY <2>1, <2>2, <2>3 DEF StartsInv
<1> QED BY <1>1, StartsInitInv, EngineInvariance, PTL DEF Spec

\* A runner starts only in a CommonJS build, for an action with a runner, whose params
\* its schema accepts and which the policy allows outright; where the build has ES modules
\* none ever starts (executor.ts: the policy gate before runner.execute, which require()s
\* can-perform.js).
THEOREM OnlyAllowed == Spec => []OnlyAllowedStart
<1>1. StartsInv => OnlyAllowedStart
  BY DEF StartsInv
<1> QED BY <1>1, StartsInvariance, PTL

\* An action that the policy allows has been started by the time its event has been
\* handled, unless a call failed, or the success of another type was taken for its
\* own; a row that was left behind otherwise does not keep it from running.
AllowedUnlessShadowed ==
    \A e \in Events :
        loader = "commonjs" /\ pc[e] = "over" /\ ~setting.dryRun /\ faults = 0 =>
            \A n \in DOMAIN matched[e] :
                LET v == matched[e][n]
                IN  \A i \in DOMAIN Actions[v] :
                        /\ Actions[v][i] \in Registered \cap Valid
                        /\ CanPerform(Metadata[Actions[v][i]]) = "ALLOW"
                        => \/ Started(KeyOf(e, v, i), Actions[v][i])
                           \/ rows[KeyOf(e, v, i)].status = "SUCCESS" /\ Shadowed(e, v, i)

\* Where the gate can be loaded, what executor.policy.unit.test.ts says of the engine
\* fails in one way only: an action that the policy allows is not started when another
\* version's action of another type, with the same params, has succeeded in its place
\* (executor.ts: the key is made of the params).
THEOREM AllowedRun == Spec => []AllowedUnlessShadowed
<1>1. EngineInv /\ StartsInv => AllowedUnlessShadowed
  <2> SUFFICES ASSUME EngineInv, StartsInv, NEW e \in Events, loader = "commonjs",
                      pc[e] = "over", ~setting.dryRun, faults = 0, NEW n \in DOMAIN matched[e],
                      NEW i \in DOMAIN Actions[matched[e][n]],
                      MayRun(Actions[matched[e][n]][i])
               PROVE  \/ Started(KeyOf(e, matched[e][n], i), Actions[matched[e][n]][i])
                      \/ Skipped(e, matched[e][n], i)
    BY DEF AllowedUnlessShadowed, MayRun, Skipped
  <2>1. DOMAIN matched[e] = 1..Len(matched[e])
    BY MatchesAreSequences DEF EngineInv, TypeOK
  <2>2. TriedFit(e) /\ n \in Passed(e)
    BY <2>1 DEF StartsInv, Undisturbed, Passed
  <2> QED BY <2>2 DEF TriedFit, AllTried, Tried
<1> QED BY <1>1, StartsInvariance, EngineInvariance, PTL

\* Where the params tell the types apart it does not fail at all.
THEOREM AllowedRunByKeys ==
    ASSUME KeysTell
    PROVE  Spec => [](loader = "commonjs" => AllowedActionsRun)
<1>1. TypeOK /\ AllowedUnlessShadowed => (loader = "commonjs" => AllowedActionsRun)
  <2> SUFFICES ASSUME TypeOK, AllowedUnlessShadowed, loader = "commonjs", NEW e \in Events,
                      pc[e] = "over", ~setting.dryRun, faults = 0, NEW n \in DOMAIN matched[e],
                      NEW i \in DOMAIN Actions[matched[e][n]],
                      Actions[matched[e][n]][i] \in Registered \cap Valid,
                      CanPerform(Metadata[Actions[matched[e][n]][i]]) = "ALLOW"
               PROVE  Started(KeyOf(e, matched[e][n], i), Actions[matched[e][n]][i])
    BY DEF AllowedActionsRun
  <2>1. matched[e][n] \in Versions
    BY MatchesAreSequences DEF TypeOK
  <2>2. ~Shadowed(e, matched[e][n], i)
    BY <2>1, KeysTellApart
  <2> QED BY <2>2 DEF AllowedUnlessShadowed
<1> QED BY <1>1, AllowedRun, EngineTypes, PTL

--------------------------------------------------------------------------------
(***************************************************************************)
(* How far the handling of an event has come: by version, by action, and   *)
(* by the call that is awaited.  This is the half of EventsEnd that needs  *)
(* no fairness.                                                            *)
(***************************************************************************)
Place == [idle |-> 0, load |-> 1, createRun |-> 2, markRunning |-> 3, find |-> 4, claim |-> 5,
          attempt |-> 6, running |-> 7, settle |-> 8, finalize |-> 10, updateRule |-> 11,
          over |-> 12, lost |-> 12]

\* An action is settled at most twice: as a SUCCESS, and as FAILED.
At(phase, verdict) == IF phase = "settle" /\ verdict # "SUCCESS" THEN 9 ELSE Place[phase]

MovesOn(e) ==
    \/ pc'[e] \in {"over", "lost"} /\ pc[e] \notin {"over", "lost"}
    \/ ~Executing(e) /\ Place[pc'[e]] > Place[pc[e]]
    \/ /\ Executing(e) /\ Executing(e)' /\ matched'[e] = matched[e]
       /\ \/ frame'[e].turn > frame[e].turn
          \/ /\ frame'[e].turn = frame[e].turn
             /\ \/ frame'[e].index > frame[e].index
                \/ /\ frame'[e].index = frame[e].index
                   /\ At(pc'[e], frame'[e].verdict) > At(pc[e], frame[e].verdict)

Rests(e) == pc'[e] = pc[e] /\ (Executing(e) => frame'[e] = frame[e] /\ matched'[e] = matched[e])

\* Every handler moves its event on, and nothing else moves it back.
EventsMoveOn ==
    [][\A e \in Events : /\ Publish(e) \/ Handle(e) \/ RunnerReturns(e) => MovesOn(e)
                         /\ MovesOn(e) \/ Rests(e)]_vars

\* There are only so many places to move on to.
WorkIsBounded ==
    \A e \in Events : Executing(e) =>
        /\ frame[e].turn \in 1..Len(matched[e]) /\ Len(matched[e]) <= Cardinality(Versions)
        /\ pc[e] # "updateRule" => frame[e].index <= Len(Actions[Version(e)]) + 1

\* Leaving a version moves an event on.
LEMMA LeavingMoves ==
    ASSUME TypeOK, NEW e \in Events, FrameFits(e), Executing(e), NextVersion(e), matched' = matched
    PROVE  MovesOn(e)
<1>1. frame[e].turn \in Nat
  BY AtVersion
<1>2. CASE pc'[e] = "over"
  BY <1>2 DEF MovesOn, Executing, Awaiting
<1>3. CASE pc'[e] = "createRun" /\ frame[e].turn < Len(matched[e]) /\ frame'[e] = Fresh(frame[e].turn + 1)
  <2>1. frame'[e].turn > frame[e].turn /\ Executing(e)'
    BY <1>1, <1>3 DEF Fresh, Executing, Awaiting
  <2> QED BY <2>1 DEF MovesOn
<1> QED BY <1>2, <1>3, NextVersions

\* Going on within a version moves an event on.
LEMMA GoingOnMoves ==
    ASSUME TypeOK, NEW e \in Events, FrameFits(e), Executing(e),
           NEW phase, NEW locals, Resume(e, phase, locals), matched' = matched,
           phase \in (Awaiting \ {"load"}) \cup {"running"}, locals.turn = frame[e].turn,
           \/ locals.index = frame[e].index + 1
           \/ locals.index = frame[e].index /\ At(phase, locals.verdict) > At(pc[e], frame[e].verdict)
    PROVE  MovesOn(e)
<1>1. pc'[e] = phase /\ frame'[e] = locals
  BY DEF Resume, TypeOK
<1>2. Executing(e)'
  BY <1>1 DEF Executing
<1>3. frame[e].index \in Nat
  BY AtVersion
<1>4. \/ locals.index > frame[e].index
      \/ locals.index = frame[e].index /\ At(phase, locals.verdict) > At(pc[e], frame[e].verdict)
  BY <1>3
<1> QED BY <1>1, <1>2, <1>4 DEF MovesOn

\* Every handler moves its event on.
LEMMA HandlersMove ==
    ASSUME EngineInv, NEW e \in Events, Publish(e) \/ Handle(e) \/ RunnerReturns(e)
    PROVE  MovesOn(e)
<1>1. TypeOK /\ EventInv(e) /\ FrameFits(e) /\ frame[e] \in Frame
  BY DEF EngineInv, EventInv, TypeOK
<1>2. ASSUME NEW phase, NEW locals, Resume(e, phase, locals) PROVE pc'[e] = phase
  BY <1>1, <1>2 DEF Resume, TypeOK
<1>3. CASE Publish(e) \/ LoadMatchingRules(e)
  <2>1. pc[e] \in {"idle", "load"} /\ ~Executing(e)
    BY <1>3 DEF Publish, LoadMatchingRules, Executing, Awaiting
  <2>2. \/ pc[e] = "idle" /\ pc'[e] = "load"
        \/ pc[e] = "load" /\ pc'[e] \in {"over", "createRun"}
    BY <1>2, <1>3 DEF Publish, LoadMatchingRules
  <2> QED BY <2>1, <2>2 DEF MovesOn, Place
<1>4. \A status : /\ Verdict(e, status).turn = frame[e].turn
                  /\ Verdict(e, status).index = frame[e].index
                  /\ Verdict(e, status).verdict = status
                  /\ Summarized(e, status).turn = frame[e].turn
                  /\ Summarized(e, status).index = frame[e].index + 1
  BY <1>1 DEF Verdict, Summarized, Frame
<1>5. Claimed(e).turn = frame[e].turn /\ Claimed(e).index = frame[e].index
  BY <1>1 DEF Claimed, Frame
<1>6. \A i : From(i, e) \in {"find", "finalize"}
  BY Onward
<1>7. CASE CreateAutomationRun(e) \/ MarkRunRunning(e) \/ FinalizeAutomationRun(e)
  <2>1. Executing(e) /\ matched' = matched
    BY <1>7 DEF CreateAutomationRun, MarkRunRunning, FinalizeAutomationRun, SetRun, Executing, Awaiting
  <2>2. PICK phase \in {"markRunning", "find", "finalize", "updateRule"} :
           /\ NextVersion(e) \/ Resume(e, phase, frame[e])
           /\ At(phase, frame[e].verdict) > At(pc[e], frame[e].verdict)
    BY <1>6, <1>7 DEF CreateAutomationRun, MarkRunRunning, FinalizeAutomationRun, SetRun, Await, Throw, At, Place
  <2> QED BY <1>1, <2>1, <2>2, LeavingMoves, GoingOnMoves DEF Awaiting
<1>8. CASE FindActionRun(e)
  <2>1. Executing(e) /\ matched' = matched /\ pc[e] = "find"
    BY <1>8 DEF FindActionRun, Find, Executing, Awaiting
  <2>2. \/ NextVersion(e)
        \/ Resume(e, From(frame[e].index + 1, e), Summarized(e, "SKIPPED"))
        \/ Resume(e, "claim", frame[e])
    BY <1>8 DEF FindActionRun, Find, Throw
  <2>3. ASSUME Resume(e, From(frame[e].index + 1, e), Summarized(e, "SKIPPED")) PROVE MovesOn(e)
    BY <1>1, <1>4, <1>6, <2>1, <2>3, GoingOnMoves DEF Awaiting
  <2>4. ASSUME Resume(e, "claim", frame[e]) PROVE MovesOn(e)
    <3>1. At("claim", frame[e].verdict) > At(pc[e], frame[e].verdict) /\ "claim" \in Awaiting \ {"load"}
      BY <2>1 DEF At, Place, Awaiting
    <3> QED BY <1>1, <2>1, <2>4, <3>1, GoingOnMoves
  <2> QED BY <1>1, <2>1, <2>2, <2>3, <2>4, LeavingMoves
<1>9. CASE ClaimActionRun(e) \/ StartAttempt(e) \/ \E status \in {"SUCCESS", "RETRYING", "FAILED"} : Finish(e, status)
  <2>1. Executing(e) /\ matched' = matched
    BY <1>9 DEF ClaimActionRun, StartAttempt, Start, Finish, Executing, Awaiting
  <2>2. \/ NextVersion(e)
        \/ \E phase \in {"attempt", "settle", "running"}, locals \in {frame[e], Claimed(e)}
                                  \cup {Verdict(e, status) : status \in RowStatuses} :
              Resume(e, phase, locals) /\ Place[phase] > Place[pc[e]] /\ pc[e] # "settle"
    BY <1>9 DEF ClaimActionRun, Await, StartAttempt, Start, Finish, Throw, Place, RowStatuses
  <2>3. ASSUME NEW phase \in {"attempt", "settle", "running"},
               NEW locals \in {frame[e], Claimed(e)} \cup {Verdict(e, status) : status \in RowStatuses},
               Resume(e, phase, locals), Place[phase] > Place[pc[e]], pc[e] # "settle"
        PROVE  MovesOn(e)
    <3>1. locals.turn = frame[e].turn /\ locals.index = frame[e].index
      BY <1>4, <1>5
    <3>2. At(phase, locals.verdict) > At(pc[e], frame[e].verdict)
      <4>1. pc[e] \in Phases
        BY <1>1 DEF TypeOK
      <4>2. At(pc[e], frame[e].verdict) = Place[pc[e]] /\ Place[pc[e]] \in Nat
        BY <2>3, <4>1 DEF At, Place, Phases, Awaiting
      <4>3. At(phase, locals.verdict) \in Nat /\ At(phase, locals.verdict) >= Place[phase] /\ Place[phase] \in Nat
        BY DEF At, Place
      <4> QED BY <2>3, <4>2, <4>3
    <3> QED BY <1>1, <2>1, <2>3, <3>1, <3>2, GoingOnMoves DEF Awaiting
  <2> QED BY <1>1, <2>1, <2>2, <2>3, LeavingMoves
<1>10. CASE SettleActionRun(e)
  <2>1. Executing(e) /\ matched' = matched
    BY <1>10 DEF SettleActionRun, Executing, Awaiting
  <2>2. \/ NextVersion(e)
        \/ Resume(e, From(frame[e].index + 1, e), Summarized(e, frame[e].verdict))
        \/ Resume(e, "settle", Verdict(e, "FAILED")) /\ pc[e] = "settle" /\ frame[e].verdict = "SUCCESS"
    BY <1>10 DEF SettleActionRun, Fails, Throw
  <2>3. ASSUME Resume(e, From(frame[e].index + 1, e), Summarized(e, frame[e].verdict)) PROVE MovesOn(e)
    BY <1>1, <1>4, <1>6, <2>1, <2>3, GoingOnMoves DEF Awaiting
  <2>4. ASSUME Resume(e, "settle", Verdict(e, "FAILED")), pc[e] = "settle", frame[e].verdict = "SUCCESS"
        PROVE  MovesOn(e)
    <3>1. At("settle", Verdict(e, "FAILED").verdict) > At(pc[e], frame[e].verdict)
      BY <1>4, <2>4 DEF At, Place
    <3> QED BY <1>1, <1>4, <2>1, <2>4, <3>1, GoingOnMoves DEF Awaiting
  <2> QED BY <1>1, <2>1, <2>2, <2>3, <2>4, LeavingMoves
<1>11. CASE UpdateRuleLastRun(e)
  <2>1. Executing(e) /\ matched' = matched /\ NextVersion(e)
    BY <1>11 DEF UpdateRuleLastRun, Executing, Awaiting
  <2> QED BY <1>1, <2>1, LeavingMoves
<1> QED BY <1>3, <1>7, <1>8, <1>9, <1>10, <1>11 DEF Handle, Timeout, RunnerReturns

\* The handling of an event never goes round in circles: each handler takes it to a later
\* call, a later action or a later version, of which there are finitely many, and neither
\* another event nor a restart takes it back (engine.ts and executor.ts: both
\* loops run over lists read once).
THEOREM MovesForward == Spec => EventsMoveOn /\ []WorkIsBounded
<1>1. EngineInv => WorkIsBounded
  <2> SUFFICES ASSUME EngineInv, NEW e \in Events, Executing(e)
               PROVE  /\ frame[e].turn \in 1..Len(matched[e]) /\ Len(matched[e]) <= Cardinality(Versions)
                      /\ pc[e] # "updateRule" => frame[e].index <= Len(Actions[Version(e)]) + 1
    BY DEF WorkIsBounded
  <2>1. FrameFits(e) /\ TypeOK
    BY DEF EngineInv, EventInv
  <2>2. /\ Len(matched[e]) <= Cardinality(Versions)
        /\ Len(Actions[Version(e)]) \in Nat /\ frame[e].index \in Nat
    BY <2>1, AtVersion
  <2> QED BY <2>1, <2>2 DEF FrameFits, Executing, Awaiting
<1>2. ASSUME EngineInv, [Next]_vars, NEW e \in Events
      PROVE  /\ Publish(e) \/ Handle(e) \/ RunnerReturns(e) => MovesOn(e)
             /\ MovesOn(e) \/ Rests(e)
  <2>1. ASSUME UNCHANGED vars PROVE Rests(e)
    BY <2>1 DEF vars, Rests
  <2>2. ASSUME NEW f \in Events \ {e}, Publish(f) \/ Handle(f) \/ RunnerReturns(f) PROVE Rests(e)
    BY <1>2, <2>2, StepsAreLocal DEF Rests
  <2>3. ASSUME Restart PROVE MovesOn(e) \/ Rests(e)
    <3>1. pc'[e] = IF pc[e] \in Awaiting \cup {"running"} THEN "lost" ELSE pc[e]
      BY <2>3 DEF Restart
    <3> QED BY <3>1 DEF MovesOn, Rests, Executing, Awaiting
  <2>4. Publish(e) \/ Handle(e) \/ RunnerReturns(e) => MovesOn(e)
    BY <1>2, HandlersMove
  <2>5. CASE \E f \in Events : Publish(f) \/ Handle(f) \/ RunnerReturns(f)
    BY <2>2, <2>4, <2>5
  <2> QED BY <1>2, <2>1, <2>3, <2>4, <2>5 DEF Next
<1>3. EngineInv /\ [Next]_vars
        => [\A e \in Events : /\ Publish(e) \/ Handle(e) \/ RunnerReturns(e) => MovesOn(e)
                              /\ MovesOn(e) \/ Rests(e)]_vars
  BY <1>2
<1> QED BY <1>1, <1>3, EngineInvariance, PTL DEF Spec, EventsMoveOn

--------------------------------------------------------------------------------
\* No attempt is lost, and none counts twice, although one call reads the number and
\* another writes it: it grows by one at a time, and with every start.
Counts(k) ==
    /\ rows'[k].attempts - rows[k].attempts \in {0, 1}
    /\ Len(starts'[k]) # Len(starts[k]) =>
          Len(starts'[k]) = Len(starts[k]) + 1 /\ rows'[k].attempts = rows[k].attempts + 1

AttemptsAreCounted == [][\A k \in Keys : Counts(k)]_vars

\* The counter of attempts behaves like one that is incremented in place (executor.ts:
\* attemptNumber is computed from the row that the claim returned, and written next).
THEOREM AttemptsCounted == Spec => AttemptsAreCounted
<1>1. ASSUME EngineInv, [Next]_vars, NEW k \in Keys PROVE Counts(k)
  <2>0. TypeOK /\ rows[k] \in Row /\ rows[k].attempts \in Nat /\ starts[k] \in Seq(Execution)
    <3>1. Cardinality(Versions) \in Nat
      BY RuleAssumption, FS_CardinalityType
    <3> QED BY <1>1, <3>1 DEF EngineInv, TypeOK, Row
  <2>1. ASSUME NEW e \in Events, StartAttempt(e), k = Key(e)
        PROVE  rows'[k].attempts \in {rows[k].attempts, rows[k].attempts + 1}
    <3>1. rows' \in {rows, [rows EXCEPT ![k] = [@ EXCEPT !.status = "RUNNING",
                                                        !.attempts = frame[e].attempts + 1]]}
      BY <2>1 DEF StartAttempt, Start
    <3>2. frame[e].attempts = rows[k].attempts
      BY <1>1, <2>1 DEF StartAttempt, Start, EngineInv, EventInv, RowIsFresh
    <3>3. rows'[k] = rows[k] \/ rows'[k] = [rows[k] EXCEPT !.status = "RUNNING",
                                                           !.attempts = frame[e].attempts + 1]
      BY <2>0, <3>1 DEF TypeOK
    <3> QED BY <2>0, <3>2, <3>3 DEF Row
  <2>2. ASSUME ~ \E e \in Events : StartAttempt(e) /\ k = Key(e)
        PROVE  rows'[k].attempts = rows[k].attempts
    <3>1. ASSUME NEW e \in Events, ClaimActionRun(e) PROVE rows'[k].attempts = rows[k].attempts
      <4>1. rows' \in {rows, [rows EXCEPT ![Key(e)] = [@ EXCEPT !.status = "PENDING", !.config = Config(e)]]}
        BY <3>1 DEF ClaimActionRun, Await
      <4>2. rows'[k] = rows[k] \/ rows'[k] = [rows[k] EXCEPT !.status = "PENDING", !.config = Config(e)]
        BY <2>0, <4>1 DEF TypeOK
      <4> QED BY <2>0, <4>2 DEF Row
    <3>2. ASSUME NEW e \in Events, SettleActionRun(e) PROVE rows'[k].attempts = rows[k].attempts
      <4>1. rows' \in {rows, [rows EXCEPT ![Key(e)].status = frame[e].verdict]}
        BY <3>2 DEF SettleActionRun
      <4>2. rows'[k] = rows[k] \/ rows'[k] = [rows[k] EXCEPT !.status = frame[e].verdict]
        BY <2>0, <4>1 DEF TypeOK
      <4> QED BY <2>0, <4>2 DEF Row
    <3>3. ASSUME NEW e \in Events, StartAttempt(e) PROVE rows'[k] = rows[k]
      <4>1. rows' \in {rows, [rows EXCEPT ![Key(e)] = [@ EXCEPT !.status = "RUNNING",
                                                              !.attempts = frame[e].attempts + 1]]}
        BY <3>3 DEF StartAttempt, Start
      <4> QED BY <2>0, <2>2, <3>3, <4>1 DEF TypeOK
    <3>4. ASSUME ~ \E e \in Events : ClaimActionRun(e) \/ StartAttempt(e) \/ SettleActionRun(e)
          PROVE  rows' = rows
      BY <1>1, <3>4 DEF Next, vars, Publish, Handle, RunnerReturns, Timeout, Finish, LoadMatchingRules,
         CreateAutomationRun, MarkRunRunning, FinalizeAutomationRun, SetRun, FindActionRun, Find,
         UpdateRuleLastRun, Restart, tables
    <3> QED BY <3>1, <3>2, <3>3, <3>4
  <2>3. ASSUME NEW e \in Events, RunnerReturns(e), k = Key(e), starts'[k] = Resolved(starts[k])
        PROVE  Len(starts'[k]) = Len(starts[k])
    <3>1. [config |-> Config(e), done |-> FALSE] \in Execution
      BY <1>1, <2>3, AtAction DEF RunnerReturns, Finish, Execution, EngineInv
    <3> QED BY <2>0, <2>3, <3>1, Logs
  <2>4. ASSUME NEW e \in Events, StartAttempt(e), k = Key(e),
               starts'[k] = Append(starts[k], [config |-> Config(e), done |-> FALSE]),
               rows' = [rows EXCEPT ![k] = [@ EXCEPT !.status = "RUNNING",
                                                   !.attempts = frame[e].attempts + 1]]
        PROVE  Len(starts'[k]) = Len(starts[k]) + 1 /\ rows'[k].attempts = rows[k].attempts + 1
    <3>1. [config |-> Config(e), done |-> FALSE] \in Execution
      BY <1>1, <2>4, AtAction DEF StartAttempt, Start, Execution, EngineInv
    <3>2. frame[e].attempts = rows[k].attempts
      BY <1>1, <2>4 DEF StartAttempt, Start, EngineInv, EventInv, RowIsFresh
    <3>3. rows'[k].attempts = rows[k].attempts + 1
      BY <2>0, <2>4, <3>2 DEF TypeOK, Row
    <3> QED BY <2>0, <2>4, <3>1, <3>3, Logs
  <2>5. rows'[k].attempts \in {rows[k].attempts, rows[k].attempts + 1}
    BY <2>1, <2>2
  <2>6. Len(starts'[k]) # Len(starts[k]) =>
          Len(starts'[k]) = Len(starts[k]) + 1 /\ rows'[k].attempts = rows[k].attempts + 1
    BY <1>1, <2>3, <2>4, StartsChange
  <2> QED BY <2>0, <2>5, <2>6 DEF Counts
<1>2. EngineInv /\ [Next]_vars => [\A k \in Keys : Counts(k)]_vars
  BY <1>1
<1> QED BY <1>2, EngineInvariance, PTL DEF Spec, AttemptsAreCounted
================================================================================
