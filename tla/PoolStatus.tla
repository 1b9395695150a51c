----------------------------- MODULE PoolStatus -----------------------------
(***************************************************************************)
(* What a pool reports, and what makes it report: the conditions and the   *)
(* machine counts that a pass of Reconcile computes on each of its ways    *)
(* out, the debounce before a render, and the events, errors and timers    *)
(* that bring the next pass.  What the pass does to the nodes is           *)
(* PoolRollout's matter; here a node is what the status depends on.        *)
(***************************************************************************)
EXTENDS Naturals, FiniteSets

CONSTANTS
    Nodes,          \* the nodes the pool selects
    Configs,        \* what the MachineConfigs can render to, as positive numbers
    NodeStates,     \* the states of a node that an event can show
    Budget,         \* maxUnavailable, as a number of nodes
    Debounced,      \* debounceSeconds > 0
    PoolEnv,        \* what may fail, a subset of PoolFaults
    MaxEvents,      \* bound: changes of nodes, configs and other pools
    MaxFaults       \* bound: failures

PoolFaults == {"detect", "render", "drainCheck", "update", "restart"}

NoConfig == 0

\* agent: "late" is applying for longer than the timeout; asked: desired-revision is
\* not the current one; drain: without drain-started-at "none", else "refused" if pods
\* are left that cannot be evicted, "overdue" if the drain timeout is over for them,
\* and "going" if the others have gone or go.
NodeInfo == [rev      : Configs \cup {NoConfig},
             agent    : {"none", "idle", "done", "applying", "late", "rebooting", "error"},
             asked    : BOOLEAN,
             cordoned : BOOLEAN,
             drain    : {"none", "refused", "overdue", "going"}]

ASSUME PoolStatusAssumption ==
    /\ IsFiniteSet(Nodes)
    /\ Configs \subseteq Nat \ {NoConfig}
    /\ NodeStates \subseteq NodeInfo
    /\ Budget \in Nat \ {0}
    /\ Debounced \in BOOLEAN
    /\ PoolEnv \subseteq PoolFaults
    /\ MaxEvents \in Nat /\ MaxFaults \in Nat

VARIABLES
    node,        \* the nodes
    conflicts,   \* nodes that another pool selects too
    config,      \* what the pool's MachineConfigs render to
    debounce,    \* DebounceState: the last hash, and if debounceSeconds are over
    conds,       \* the pool's conditions
    counts,      \* the pool's machine counts and target revision
    pc,          \* is a pass under way?
    overlap,     \* the conflicts this pass has detected
    read,        \* the configuration this pass has read
    woken,       \* the pool is in the work queue
    timer,       \* the pool is to be queued after some time
    unseen,      \* history: conflicts may have changed since they were detected
    spent        \* bounds: events and faults so far

passVars == <<pc, overlap, read>>
wakeVars == <<woken, timer, unseen>>
poolVars == <<node, conflicts, config>>
statusVars == <<poolVars, debounce, conds, counts, passVars, wakeVars, spent>>

(***************************************************************************)
(* Conditions.  fresh says that lastTransitionTime is the time of the pass *)
(* that wrote the condition last.                                          *)
(***************************************************************************)
Types == {"Ready", "Updating", "Degraded", "Draining", "PoolOverlap", "DrainStuck"}

Reasons ==
    {"None", "AllNodesUpdated", "Degraded", "RolloutInProgress", "NoMachineConfigs",
     "RolloutComplete", "NodeErrors", "NoErrors", "DrainInProgress", "NoDrainsActive",
     "NodesInMultiplePools", "NoOverlap", "PoolOverlapDetected", "DrainTimeout",
     "DrainComplete", "DrainStuck", "RenderFailed"}

NoCondition == [status |-> "Unknown", reason |-> "None", fresh |-> FALSE]

Cond(b, r) == [status |-> IF b THEN "True" ELSE "False", reason |-> r]

\* Mutant: every write of a condition is a transition.
mergeConditionsNow(c, new) ==
    [t \in Types |->
        IF t \notin DOMAIN new THEN c[t]
        ELSE [status |-> new[t].status, reason |-> new[t].reason, fresh |-> TRUE]]

\* A later pass has another time.
Aged == [t \in Types |-> [conds[t] EXCEPT !.fresh = FALSE]]

\* New conditions are merged into the ones the pool has: the time of the last
\* transition is kept if the status is.
mergeConditions(c, new) ==
    [t \in Types |->
        IF t \notin DOMAIN new THEN c[t]
        ELSE [status |-> new[t].status, reason |-> new[t].reason,
              fresh  |-> c[t].status # new[t].status \/ c[t].fresh]]

\* Degraded for a reason outside the nodes, unless it is True already.
setDegradedFor(c, why) ==
    [c EXCEPT !["Degraded"] =
        IF why = "None" \/ @.status = "True" THEN @
        ELSE [status |-> "True", reason |-> why, fresh |-> TRUE]]

IsReady(nd) == nd.agent \in {"idle", "done"}

Count(P(_)) == Cardinality({n \in Nodes : P(node[n])})

NoCounts == [target |-> NoConfig, machines |-> 0, ready |-> 0, updated |-> 0, updating |-> 0,
             degraded |-> 0, unavailable |-> 0, draining |-> 0]

\* Mutant: a failed node is counted as unavailable by its state and by its error.
AggregateStatusTwice(target) ==
    [NoCounts EXCEPT
        !.target      = target,
        !.machines    = Cardinality(Nodes),
        !.degraded    = Count(LAMBDA nd : nd.agent \in {"late", "error"}),
        !.unavailable = Count(LAMBDA nd : ~IsReady(nd)) + Count(LAMBDA nd : nd.agent = "error")]

AggregateStatus(target) ==
    [target      |-> target,
     machines    |-> Cardinality(Nodes),
     ready       |-> Count(LAMBDA nd : IsReady(nd) /\ nd.rev = target),
     updated     |-> Count(LAMBDA nd : nd.rev = target),
     updating    |-> Count(LAMBDA nd : nd.agent = "applying"),
     degraded    |-> Count(LAMBDA nd : nd.agent \in {"late", "error"}),
     unavailable |-> Count(LAMBDA nd : ~IsReady(nd)),
     draining    |-> Count(LAMBDA nd : nd.drain # "none")]

ReadyReason(s) ==
    IF s.machines > 0 /\ s.updated = s.machines /\ s.degraded = 0 THEN "AllNodesUpdated"
    ELSE IF s.degraded > 0 THEN "Degraded"
    ELSE IF s.updating > 0 \/ s.draining > 0 THEN "RolloutInProgress"
    ELSE "NoMachineConfigs"

computeConditions(s) ==
    [Ready    |-> Cond(ReadyReason(s) = "AllNodesUpdated", ReadyReason(s)),
     Updating |-> IF s.updated < s.machines THEN Cond(TRUE, "RolloutInProgress")
                  ELSE Cond(FALSE, "RolloutComplete"),
     Degraded |-> IF s.degraded > 0 THEN Cond(TRUE, "NodeErrors") ELSE Cond(FALSE, "NoErrors"),
     Draining |-> IF s.draining > 0 THEN Cond(TRUE, "DrainInProgress")
                  ELSE Cond(FALSE, "NoDrainsActive")]

ComputeOverlapCondition ==
    [PoolOverlap |-> IF overlap # {} THEN Cond(TRUE, "NodesInMultiplePools")
                     ELSE Cond(FALSE, "NoOverlap")]

OverlapReason == IF overlap # {} THEN "PoolOverlapDetected" ELSE "None"

\* SetDrainStuckCondition or ClearDrainStuckCondition
DrainStuckCondition(stuck) ==
    [DrainStuck |-> IF stuck # {} THEN Cond(TRUE, "DrainTimeout")
                    ELSE Cond(FALSE, "DrainComplete")]

DrainStuckReason(stuck) == IF stuck # {} THEN "DrainStuck" ELSE "None"

ApplyOverlapCondition(c) ==
    setDegradedFor(mergeConditions(c, ComputeOverlapCondition), OverlapReason)

\* ApplyStatusToPool, ApplyOverlapCondition and the drain condition, in this order.
ApplyConditions(s, stuck) ==
    LET nodes    == mergeConditions(conds, computeConditions(s))
        overlaps == ApplyOverlapCondition(nodes)
    IN  setDegradedFor(mergeConditions(overlaps, DrainStuckCondition(stuck)),
                       DrainStuckReason(stuck))

SetRenderDegradedCondition == mergeConditions(conds, [Degraded |-> Cond(TRUE, "RenderFailed")])

Init ==
    /\ node \in [Nodes -> NodeStates]
    /\ conflicts = {}
    /\ config \in Configs \cup {NoConfig}
    /\ debounce = [hash |-> NoConfig, quiet |-> FALSE]
    /\ conds = [t \in Types |-> NoCondition]
    /\ counts = NoCounts
    /\ pc = "idle" /\ overlap = {} /\ read = NoConfig
    /\ woken = TRUE /\ timer = FALSE /\ unseen = FALSE
    /\ spent = [events |-> 0, faults |-> 0]

Spend(kind, max) == spent[kind] < max /\ spent' = [spent EXCEPT ![kind] = @ + 1]
Fault(kind) == kind \in PoolEnv /\ Spend("faults", MaxFaults)

(***************************************************************************)
(* A pass.  The controller watches the pool itself: a status that differs  *)
(* from the last one wakes it.  Times have a resolution of one second, so  *)
(* a status that only differs in times may be the same.                    *)
(***************************************************************************)
PassStarts ==
    /\ pc = "idle" /\ woken
    /\ pc' = "pass" /\ woken' = FALSE
    /\ read' = config
    /\ overlap' = conflicts /\ unseen' = FALSE
    /\ conds' = Aged
    /\ UNCHANGED <<poolVars, debounce, counts, timer, spent>>

\* The error is logged, and the pass goes on as if there were no conflicts.
DetectPoolOverlapFails ==
    /\ pc = "idle" /\ woken /\ Fault("detect")
    /\ pc' = "pass" /\ woken' = FALSE
    /\ read' = config
    /\ overlap' = {} /\ unseen' = TRUE
    /\ conds' = Aged
    /\ UNCHANGED <<poolVars, debounce, counts, timer>>

PassEnds == pc' = "idle" /\ overlap' = {} /\ read' = NoConfig

Shown(c) == [t \in Types |-> <<c[t].status, c[t].reason>>]

\* The status is written, and the pool queued if that changes it.
Writes(c, s) ==
    /\ conds' = c /\ counts' = s
    /\ IF Shown(conds') # Shown(conds) \/ counts' # counts THEN woken' = TRUE
       ELSE IF \E t \in Types : conds'[t].fresh THEN woken' \in {woken, TRUE}
       ELSE UNCHANGED woken

\* The same, but a failure is only logged.
TriesToWrite(c, s) ==
    \/ Writes(c, s) /\ UNCHANGED spent
    \/ Fault("update") /\ UNCHANGED <<conds, counts, woken>>

\* Without MachineConfigs only the overlap and some of the counts are written.
PassWithoutConfigs ==
    /\ pc = "pass" /\ read = NoConfig
    /\ LET all == Cardinality(Nodes) IN
          TriesToWrite(ApplyOverlapCondition(conds),
                       [counts EXCEPT !.target = NoConfig, !.machines = all, !.ready = all,
                                      !.updated = all])
    /\ PassEnds
    /\ UNCHANGED <<poolVars, debounce, timer, unseen>>

ShouldProceed == debounce = [hash |-> read, quiet |-> TRUE]

\* A new hash restarts the window; what is left of it is the time to requeue
\* after, and 0 asks for nothing.
CheckAndUpdate ==
    /\ debounce' = IF debounce.hash = read THEN debounce
                   ELSE [hash |-> read, quiet |-> ~Debounced]
    /\ timer' = (timer \/ Debounced)

PassDebounces ==
    /\ pc = "pass" /\ read # NoConfig /\ ~ShouldProceed
    /\ CheckAndUpdate
    /\ TriesToWrite(ApplyOverlapCondition(conds), counts)
    /\ PassEnds
    /\ UNCHANGED <<poolVars, unseen>>

\* ensureRMC returns an error; so does the pass, which is queued again.  The
\* condition may not be written: a conflict is not tried again.
PassFailsToRender ==
    /\ pc = "pass" /\ read # NoConfig /\ ShouldProceed /\ Fault("render")
    /\ conds' \in {conds, SetRenderDegradedCondition}
    /\ woken' = TRUE
    /\ PassEnds
    /\ UNCHANGED <<poolVars, debounce, counts, timer, unseen>>

Processed == Nodes \ overlap

IsNodeUnavailable(nd) ==
    \/ nd.cordoned \/ nd.drain # "none" \/ nd.asked
    \/ nd.agent \in {"applying", "late", "rebooting"}

ShouldUncordon(nd) == nd.cordoned /\ nd.rev = read /\ nd.agent = "done"

\* Mutant: only nodes that are to be uncordoned are in progress.
collectNodesToUncordon ==
    {n \in Processed : IsNodeUnavailable(node[n]) /\ ShouldUncordon(node[n])}

\* Not a node that applies, or has failed to apply, the revision it already runs.
collectNodesInProgress ==
    {n \in Processed : /\ IsNodeUnavailable(node[n])
                       /\ node[n].rev # read \/ ShouldUncordon(node[n])}

\* SelectNodesForUpdate finds a node that the budget has room for.
SelectsNodes ==
    /\ \E n \in Processed : node[n].rev # read /\ ~IsNodeUnavailable(node[n])
    /\ Cardinality({n \in Processed : IsNodeUnavailable(node[n])}) < Budget

\* A node that is processed asks for another pass, or is uncordoned, which wakes
\* the pool.
InProgress == collectNodesInProgress # {} \/ SelectsNodes

\* Nodes whose drain fails again after its timeout.
Overdue == {n \in collectNodesInProgress : node[n].cordoned /\ node[n].drain = "overdue"}

Reports(stuck) ==
    /\ pc = "pass" /\ read # NoConfig /\ ShouldProceed
    /\ LET s == AggregateStatus(read) IN
          Writes(ApplyConditions(s, stuck), s)
    /\ timer' = (timer \/ InProgress)
    /\ PassEnds
    /\ UNCHANGED <<poolVars, debounce, unseen>>

PassReports == Reports(Overdue) /\ UNCHANGED spent

\* The check of a drain fails: for this pass the node is not stuck.
PassMissesDrain == Overdue # {} /\ Reports({}) /\ Fault("drainCheck")

\* The status cannot be written; the pass returns the error.
PassFailsToReport ==
    /\ pc = "pass" /\ read # NoConfig /\ ShouldProceed /\ Fault("update")
    /\ woken' = TRUE
    /\ PassEnds
    /\ UNCHANGED <<poolVars, debounce, conds, counts, timer, unseen>>

(***************************************************************************)
(* What wakes the pool, and what does not.                                 *)
(***************************************************************************)
TimerFires ==
    /\ timer
    /\ timer' = FALSE /\ woken' = TRUE
    /\ UNCHANGED <<poolVars, debounce, conds, counts, passVars, unseen, spent>>

DebounceElapses ==
    /\ debounce.hash # NoConfig /\ ~debounce.quiet
    /\ debounce' = [debounce EXCEPT !.quiet = TRUE]
    /\ UNCHANGED <<poolVars, conds, counts, passVars, wakeVars, spent>>

\* A node's timeouts run out without an event.
TimePasses(n) ==
    /\ node' = [node EXCEPT ![n].agent = IF @ = "applying" THEN "late" ELSE @,
                            ![n].drain = IF @ = "refused" THEN "overdue" ELSE @]
    /\ node' # node
    /\ UNCHANGED <<conflicts, config, debounce, conds, counts, passVars, wakeVars, spent>>

Event == Spend("events", MaxEvents)

NodeChanges(n, nd) ==
    /\ Event /\ nd # node[n]
    /\ node' = [node EXCEPT ![n] = nd]
    /\ woken' = TRUE
    /\ UNCHANGED <<conflicts, config, debounce, conds, counts, passVars, timer, unseen>>

ConfigChanges(c) ==
    /\ Event /\ c # config
    /\ config' = c
    /\ woken' = TRUE
    /\ UNCHANGED <<node, conflicts, debounce, conds, counts, passVars, timer, unseen>>

\* The selector of another pool changes: nothing maps that to this pool.
OtherPoolChanges(n) ==
    /\ Event
    /\ conflicts' = IF n \in conflicts THEN conflicts \ {n} ELSE conflicts \cup {n}
    /\ unseen' = TRUE
    /\ UNCHANGED <<node, config, debounce, conds, counts, passVars, woken, timer>>

\* kubelet updates the status of a node.
Heartbeat ==
    /\ ~woken /\ woken' = TRUE
    /\ UNCHANGED <<poolVars, debounce, conds, counts, passVars, timer, unseen, spent>>

\* The controller restarts: the debounce state is gone, the pool is queued.
ControllerRestarts ==
    /\ Fault("restart")
    /\ debounce' = [hash |-> NoConfig, quiet |-> FALSE]
    /\ woken' = TRUE /\ timer' = FALSE
    /\ PassEnds
    /\ UNCHANGED <<poolVars, conds, counts, unseen>>

Pass ==
    \/ PassStarts \/ PassWithoutConfigs \/ PassDebounces \/ PassReports

Failures ==
    \/ DetectPoolOverlapFails \/ PassFailsToRender \/ PassMissesDrain \/ PassFailsToReport
    \/ ControllerRestarts

Events ==
    \/ \E n \in Nodes : OtherPoolChanges(n) \/ \E nd \in NodeStates : NodeChanges(n, nd)
    \/ \E c \in Configs \cup {NoConfig} : ConfigChanges(c)

Next ==
    \/ Pass \/ Failures \/ Events \/ TimerFires \/ DebounceElapses \/ Heartbeat
    \/ \E n \in Nodes : TimePasses(n)

Spec == Init /\ [][Next]_statusVars

PassGoesOn ==
    \/ pc = "idle" /\ woken /\ pc' = "pass"
    \/ pc = "pass" /\ pc' = "idle"

\* The work queue is served, passes end and timers expire.  Heartbeats, minutes
\* apart, are not counted on.
FairSpec ==
    /\ Spec
    /\ WF_pc(PassGoesOn) /\ WF_statusVars(TimerFires) /\ WF_statusVars(DebounceElapses)

(***************************************************************************)
(* Properties.                                                             *)
(***************************************************************************)
TypeOK ==
    /\ node \in [Nodes -> NodeInfo]
    /\ conflicts \subseteq Nodes /\ overlap \subseteq Nodes
    /\ config \in Configs \cup {NoConfig} /\ read \in Configs \cup {NoConfig}
    /\ debounce \in [hash : Configs \cup {NoConfig}, quiet : BOOLEAN]
    /\ conds \in [Types -> [status : {"Unknown", "True", "False"}, reason : Reasons,
                            fresh : BOOLEAN]]
    /\ DOMAIN counts = DOMAIN NoCounts
    /\ \A k \in DOMAIN counts \ {"target"} : counts[k] \in 0..Cardinality(Nodes)
    /\ pc \in {"idle", "pass"}
    /\ woken \in BOOLEAN /\ timer \in BOOLEAN /\ unseen \in BOOLEAN
    /\ spent \in [events : 0..MaxEvents, faults : 0..MaxFaults]

Is(t) == conds[t].status = "True"
Broken(n) == node[n].agent \in {"late", "error"}

\* The node's update waits for a drain whose timeout is over.
Stuck(n) ==
    /\ n \notin conflicts /\ node[n].cordoned /\ node[n].drain = "overdue"
    /\ node[n].rev # config \/ node[n].agent = "done"

\* A node is late with a revision that it already runs: no timer is set for it.
LateAgain == \E n \in Nodes : node[n].agent = "late" /\ node[n].rev = config

\* What the conditions say is what is the case.  The nodes of an overlap are left
\* alone, and so is what becomes of them.
Truthful ==
    IF conflicts # {} THEN Is("PoolOverlap") /\ Is("Degraded")
    ELSE /\ ~Is("PoolOverlap")
         /\ Is("Ready") <=> \A n \in Nodes : node[n].rev = config /\ ~Broken(n)
         /\ Is("Updating") <=> \E n \in Nodes : node[n].rev # config
         /\ Is("Draining") <=> \E n \in Nodes : node[n].drain # "none"
         /\ Is("DrainStuck") <=> \E n \in Nodes : Stuck(n)
         /\ Is("Degraded") <=> \E n \in Nodes : Broken(n) \/ Stuck(n)

\* Events, errors and timers are enough for the conditions to become true and
\* stay so, whatever fails on the way and however long nodes take to get to the
\* target.  Only a change of another pool, or of conflicts that could not be
\* detected, may go unseen, and a node that is late with what it already runs.
StatusSettles == <>[](config = NoConfig \/ unseen \/ LateAgain \/ Truthful)

Refreshed(t) == conds'[t].fresh /\ ~conds[t].fresh

\* "lastTransitionTime is kept if the status has not changed", here for all
\* conditions but Degraded, which is computed in several steps.
TransitionTimesKept ==
    [][\A t \in Types \ {"Degraded"} : Refreshed(t) => conds'[t].status # conds[t].status]_statusVars

\* The same of Degraded.
DegradedTimeKept ==
    [][Refreshed("Degraded") => conds'["Degraded"].status # conds["Degraded"].status]_statusVars

\* A pool without conflicts and without errors is not reported as degraded, with
\* MachineConfigs or without.
DegradedEnds == <>[](unseen \/ conflicts # {} \/ (\E n \in Nodes : Broken(n) \/ Stuck(n))
                     \/ ~Is("Degraded"))
=============================================================================
