----------------------------- MODULE DrainRetry -----------------------------
(***************************************************************************)
(* The drain of one node in time: the annotation that says when it began,  *)
(* the retries while PodDisruptionBudgets refuse evictions, and the report *)
(* that it is stuck.  A pass works on the copy of the node that the        *)
(* informer has; what a pass writes to the node comes back as an event     *)
(* that brings the copy up to date and starts the next pass.               *)
(*                                                                         *)
(* Time is counted in ticks of 10 s, the least time HandleDrainRetry asks  *)
(* for.  The work queue and the informer take less than a tick.            *)
(***************************************************************************)
EXTENDS Integers, FiniteSetsExt

CONSTANTS
    Timeout,        \* drainTimeoutSeconds, in ticks
    RetrySeconds,   \* drainRetrySeconds, in ticks; 0: not given
    OtherEvents,    \* do other objects wake the pool?
    MaxPods,        \* bound: evictable pods at the start
    Horizon         \* bound: ticks after the timeout that the model looks at

ASSUME DrainRetryAssumption ==
    /\ Timeout \in Nat \ {0} /\ RetrySeconds \in Nat
    /\ OtherEvents \in BOOLEAN
    /\ MaxPods \in Nat \ {0} /\ Horizon \in Nat

VARIABLES
    pods,      \* evictable pods on the node
    since,     \* ticks since drain-started-at, Never if it is not set
    listed,    \* does the informer's copy of the node have it?
    sent,      \* an event of the node is on its way
    woken,     \* the pool is in the work queue
    due,       \* sent or woken before the last tick
    timer,     \* ticks until the pool is queued again, Never if it is not
    stuck,     \* DrainStuck is reported
    failed,    \* the last pass could not list the pods or write the status
    begun,     \* history: ticks since the drain began, Never before it
    gone,      \* history: ticks since the last pod left, Never before it
    last       \* history: ticks since the last attempt, Never before the first

drainVars ==
    <<pods, since, listed, sent, woken, due, timer, stuck, failed, begun, gone, last>>

Never == -1
End == Timeout + Horizon
Later(t) == IF t = Never \/ t = End THEN t ELSE t + 1

MinRequeue == 1
DefaultDrainRetrySeconds == 3

\* 0 is the absent field.
calculateRetryInterval ==
    IF RetrySeconds > 0 THEN RetrySeconds ELSE Max({DefaultDrainRetrySeconds, Timeout \div 12})

\* Mutant: nothing but what is left of the timeout counts.
RequeueRemaining(elapsed) == Min({calculateRetryInterval, Timeout - elapsed})

\* What is left of the timeout caps the interval, and 10 s is the least.
Requeue(elapsed) ==
    IF elapsed >= Timeout THEN calculateRetryInterval
    ELSE Max({MinRequeue, Min({calculateRetryInterval, Timeout - elapsed})})

Init ==
    /\ pods \in 1..MaxPods
    /\ since = Never /\ listed = FALSE
    /\ sent = FALSE /\ woken = TRUE /\ due = FALSE
    /\ timer = Never
    /\ stuck = FALSE /\ failed = FALSE
    /\ begun = Never /\ gone = Never /\ last = Never

\* The work queue keeps the earlier of two times.
RequeueAfter(t) == timer' = IF timer = Never THEN t ELSE Min({timer, t})

PassStarts == woken /\ woken' = FALSE /\ due' = (due /\ sent)

\* The pass writes DrainStuck to the status of the pool and asks to be queued in
\* t, or it fails to write and the queue's rate limiter brings it back.
PassEnds(s, t) ==
    \/ stuck' = s /\ failed' = FALSE /\ RequeueAfter(t)
    \/ UNCHANGED stuck /\ failed' = TRUE /\ RequeueAfter(MinRequeue)

\* Mutant: every attempt starts the clock again.
StartDrainAgain == since' = 0 /\ begun' = Max({begun, 0})

\* drain-started-at is written if the listed copy of the node has none.  When the
\* node already has it, the write made from the old copy is refused, and tried
\* again for a while: if the informer catches up in that time, it starts the clock
\* again, otherwise it fails (DrainNotStarted).
StartDrain ==
    IF listed THEN UNCHANGED <<since, begun>>
    ELSE since' = 0 /\ begun' = Max({begun, 0})

\* The pods cannot be listed: the drain is not looked at in this pass.
DrainCheckFails ==
    /\ PassStarts
    /\ stuck' = FALSE /\ failed' = TRUE /\ RequeueAfter(MinRequeue)
    /\ UNCHANGED <<pods, since, listed, sent, begun, gone, last>>

\* The start could not be written: no pod is evicted.
DrainNotStarted ==
    /\ pods > 0 /\ ~listed /\ PassStarts /\ last' = 0
    /\ PassEnds(FALSE, calculateRetryInterval)
    /\ UNCHANGED <<pods, since, listed, sent, begun, gone>>

\* Every eviction is accepted: the next pass finds the node drained.
DrainSucceeds ==
    /\ pods > 0 /\ PassStarts /\ last' = 0
    /\ StartDrain
    /\ sent' = (sent \/ ~listed)
    /\ pods' = 0 /\ gone' = 0
    /\ PassEnds(FALSE, MinRequeue)
    /\ UNCHANGED listed

\* Some are refused, and the copy does not show when the drain began: the
\* interval is not capped.
DrainFailsFirst ==
    /\ pods > 0 /\ ~listed /\ PassStarts /\ last' = 0
    /\ StartDrain
    /\ sent' = TRUE
    /\ pods' \in 1..pods
    /\ PassEnds(FALSE, calculateRetryInterval)
    /\ UNCHANGED <<listed, gone>>

\* Mutant: stuck when no further retry fits into the time that is left.
IsStuckByNextRetry == since + Requeue(since) >= Timeout

IsStuck == since >= Timeout

\* The retry is counted in an annotation, if it can be written, and the write
\* comes back as an event.  After the timeout the drain is stuck.
HandleDrainRetry ==
    /\ pods > 0 /\ listed /\ PassStarts /\ last' = 0
    /\ StartDrain
    /\ pods' \in 1..pods
    /\ sent' \in {sent, TRUE}
    /\ PassEnds(IsStuck, Requeue(since))
    /\ UNCHANGED <<listed, gone>>

\* The drain is complete; the rest of the update is PoolRollout's matter.
DrainComplete ==
    /\ pods = 0 /\ PassStarts
    /\ PassEnds(FALSE, MinRequeue)
    /\ UNCHANGED <<pods, since, listed, sent, begun, gone, last>>

\* The informer has the node as it is, and the pool is queued.
InformerDelivers ==
    /\ sent /\ sent' = FALSE
    /\ listed' = (since # Never)
    /\ woken' = TRUE
    /\ UNCHANGED <<pods, since, due, timer, stuck, failed, begun, gone, last>>

\* Another node, the pool or a MachineConfig changes: the pool is queued.
OtherEvent ==
    /\ OtherEvents /\ ~woken
    /\ woken' = TRUE
    /\ UNCHANGED <<pods, since, listed, sent, due, timer, stuck, failed, begun, gone, last>>

\* Pods end by themselves or are deleted by others: the controller does not watch
\* pods.
PodsLeave ==
    /\ pods > 0 /\ pods' \in 0..pods - 1
    /\ gone' = IF pods' = 0 THEN 0 ELSE gone
    /\ UNCHANGED <<since, listed, sent, woken, due, timer, stuck, failed, begun, last>>

\* What was waiting at the last tick is done before the next one.
Tick ==
    /\ ~due
    /\ begun # End
    /\ timer' = IF timer \in {Never, 0, 1} THEN Never ELSE timer - 1
    /\ woken' = (woken \/ timer \in {0, 1})
    /\ due' = (sent \/ woken')
    /\ since' = Later(since) /\ begun' = Later(begun)
    /\ gone' = Later(gone) /\ last' = Later(last)
    /\ UNCHANGED <<pods, listed, sent, stuck, failed>>

Next ==
    \/ DrainCheckFails \/ DrainNotStarted \/ DrainSucceeds \/ DrainFailsFirst
    \/ HandleDrainRetry \/ DrainComplete
    \/ InformerDelivers \/ OtherEvent \/ PodsLeave \/ Tick

Spec == Init /\ [][Next]_drainVars

(***************************************************************************)
(* Properties.                                                             *)
(***************************************************************************)
\* Times within their bounds, and what has begun is on record.
TypeOK ==
    /\ pods \in 0..MaxPods
    /\ since \in Never..End /\ begun \in Never..End
    /\ gone \in Never..End /\ last \in Never..End
    /\ timer \in Never..Max({calculateRetryInterval, Timeout})
    /\ {listed, sent, woken, due, stuck, failed} \subseteq BOOLEAN

\* "Cap requeue to remaining time to avoid overshooting timeout" (drain.go:247):
\* a drain that still has pods is reported as stuck as soon as its timeout is
\* over, but for the tick that the pass may take and the tick by which an old copy
\* may start the clock again, whatever the interval of the retries, even if no
\* retry can be counted and whatever passes failed, once a pass succeeds.  The
\* first retry is not capped; only the event of the node's own change makes up
\* for it.
StuckInTime == begun > Timeout + 1 /\ pods > 0 /\ ~failed => stuck

\* A drain is not given up early; and when the pods have left, be it between two
\* passes, the report is taken back within the interval of the retries.
StuckNotEarly ==
    stuck => begun >= Timeout /\ (pods > 0 \/ failed \/ gone <= calculateRetryInterval)

\* "Retry every 5 minutes" (docs/user-guide/cordon-drain.md:233): two attempts
\* are drainRetrySeconds apart, or what is left until the timeout, unless a pass
\* failed or another object woke the pool.
RetriesSpaced ==
    [][last' = 0 /\ last # Never /\ pods > 0 /\ ~failed
          => last >= Min({calculateRetryInterval, Timeout})]_drainVars
=============================================================================
