----------------------------- MODULE ExecutionIntent -----------------------------
(***************************************************************************)
(* Execution intents: a decision of the AI that awaits approval in a store *)
(* in memory whose entries expire.  Every operation is synchronous, but    *)
(* the clock moves while it runs, and each read of the store first drops   *)
(* what has expired by then.                                               *)
(***************************************************************************)
EXTENDS Naturals, Sequences

CONSTANTS
    Intents,        \* ids, each drawn once
    TTL,            \* TTL_MS
    MaxTime,        \* bound on the clock
    MaxReboots      \* bound on the restarts of the process

ASSUME IntentsAssumption == TTL \in Nat /\ MaxTime \in Nat /\ MaxReboots \in Nat

VARIABLES
    clock,
    store,          \* ids the store holds
    blocked,        \* safety.blocked of each intent
    approval,       \* approval.status
    createdAt,
    expiresAt,
    trail,          \* the statuses the audit log holds of each intent, in order
    handoffs,       \* history: payloads handed over
    reboots

intentVars == <<clock, store, blocked, approval, createdAt, expiresAt, trail, handoffs, reboots>>

ApprovalStatuses == {"PENDING", "APPROVED", "REJECTED"}
Verdicts == {"APPROVED", "REJECTED"}
Handoffs == [intent : Intents, at : Nat, trail : Seq(ApprovalStatuses)]

IntentInit ==
    /\ clock = 0 /\ store = {} /\ handoffs = {} /\ reboots = 0
    /\ blocked = [i \in Intents |-> FALSE]
    /\ approval = [i \in Intents |-> "PENDING"]
    /\ createdAt = [i \in Intents |-> 0]
    /\ expiresAt = [i \in Intents |-> 0]
    /\ trail = [i \in Intents |-> <<>>]

\* cleanupExpired at time t.
Unexpired(t) == {i \in store : expiresAt[i] >= t}

Tick ==
    /\ clock < MaxTime
    /\ clock' = clock + 1
    /\ UNCHANGED <<store, blocked, approval, createdAt, expiresAt, trail, handoffs, reboots>>

\* createExecutionIntentFromDecision; the decision is blocked or lacks its agent.
CreateIntent(i, refused) ==
    /\ clock > 0 /\ createdAt[i] = 0
    /\ store' = store \cup {i}
    /\ blocked' = [blocked EXCEPT ![i] = refused]
    /\ createdAt' = [createdAt EXCEPT ![i] = clock]
    /\ expiresAt' = [expiresAt EXCEPT ![i] = clock + TTL]
    /\ trail' = [trail EXCEPT ![i] = <<"PENDING">>]
    /\ UNCHANGED <<clock, approval, handoffs, reboots>>

\* Mutant: an update is a save and begins a new lifetime.
RenewedExpiry(i) == clock + TTL

UpdatedExpiry(i) == expiresAt[i]

\* approveExecutionIntent and rejectExecutionIntent.  The intent may expire before
\* the last read of it: the caller is told that it cannot be approved.
DecideIntent(i, new, end) ==
    /\ end \in clock..MaxTime
    /\ i \in Unexpired(clock) /\ ~blocked[i] /\ approval[i] = "PENDING"
    /\ approval' = [approval EXCEPT ![i] = new]
    /\ expiresAt' = [expiresAt EXCEPT ![i] = UpdatedExpiry(i)]
    /\ trail' = [trail EXCEPT ![i] = Append(@, new)]
    /\ clock' = end
    /\ store' = {j \in Unexpired(clock) : expiresAt'[j] >= end}
    /\ UNCHANGED <<blocked, createdAt, handoffs, reboots>>

\* getExecutionIntent, listExecutionIntents, and decisions that are refused.
LookUp ==
    /\ store' = Unexpired(clock)
    /\ UNCHANGED <<clock, blocked, approval, createdAt, expiresAt, trail, handoffs, reboots>>

GetHandoffPayload(i) ==
    /\ i \in Unexpired(clock) /\ approval[i] = "APPROVED"
    /\ store' = Unexpired(clock)
    /\ handoffs' = handoffs \cup {[intent |-> i, at |-> clock, trail |-> trail[i]]}
    /\ UNCHANGED <<clock, blocked, approval, createdAt, expiresAt, trail, reboots>>

\* The process restarts: store and audit log are empty.
Reboot ==
    /\ reboots < MaxReboots
    /\ reboots' = reboots + 1
    /\ store' = {}
    /\ trail' = [i \in Intents |-> <<>>]
    /\ UNCHANGED <<clock, blocked, approval, createdAt, expiresAt, handoffs>>

IntentNext ==
    \/ Tick \/ LookUp \/ Reboot
    \/ \E i \in Intents :
          \/ \E refused \in BOOLEAN : CreateIntent(i, refused)
          \/ \E new \in Verdicts, end \in clock..MaxTime : DecideIntent(i, new, end)
          \/ GetHandoffPayload(i)

IntentSpec == IntentInit /\ [][IntentNext]_intentVars

--------------------------------------------------------------------------------
IntentTypeOK ==
    /\ clock \in 0..MaxTime
    /\ store \subseteq Intents
    /\ blocked \in [Intents -> BOOLEAN]
    /\ approval \in [Intents -> ApprovalStatuses]
    /\ createdAt \in [Intents -> Nat]
    /\ expiresAt \in [Intents -> Nat]
    /\ trail \in [Intents -> Seq(ApprovalStatuses)]
    /\ handoffs \subseteq Handoffs
    /\ reboots \in 0..MaxReboots

\* Whatever is handed over was decided once, by an approval the audit log holds, was
\* never blocked, and is no older than the time an intent lives, however late it
\* was approved and however often the process was restarted.
HandoffsAreTimely ==
    \A h \in handoffs :
        /\ h.trail = <<"PENDING", "APPROVED">>
        /\ ~blocked[h.intent]
        /\ h.at <= createdAt[h.intent] + TTL
================================================================================
