----------------------------- MODULE PoolRollout -----------------------------
(***************************************************************************)
(* The rollout of one MachineConfigPool: the controller's Reconcile, the   *)
(* agents of the pool's nodes as the controller meets them, and the people *)
(* and machines around them.                                               *)
(*                                                                         *)
(* A pass of Reconcile is not atomic.  It lists the nodes once, then takes *)
(* ProcessNodeUpdate on one listed node after another, each on the listed  *)
(* copy, lists again for the status and deletes old rendered configs.      *)
(* Agents, admins and the cluster act between any two of these steps.      *)
(* Writes read the live object and are repeated on a conflict, so each of  *)
(* them is one step on the live node.                                      *)
(***************************************************************************)
EXTENDS Rollout, Functions

CONSTANTS
    Members0,       \* the nodes the pool selects at the start
    Config0,        \* the configuration rendered at the start
    HistoryLimit,   \* spec.revisionHistory.limit
    Env,            \* what the environment may do, a subset of EnvActions
    MaxPods,        \* bound, per node: evictable or terminating pods
    MaxChanges,     \* bound: changes of the pool's MachineConfigs
    MaxAdmin,       \* bound: interventions of an admin
    MaxFaults       \* bound: failures, restarts and reboots

EnvActions ==
    {"revert", "empty",                                \* kinds of config change
     "pause", "cordon", "uncordon", "poolpause",       \* admin
     "join", "leave", "overlap",
     "apiError", "controllerRestart", "cacheLag",      \* controller side
     "applyError", "reapplyError", "fetchError",       \* node side
     "patchError", "agentRestart", "reboot"}

ASSUME PoolRolloutAssumption ==
    /\ Members0 \subseteq Nodes
    /\ Config0 \in AnyRev
    /\ HistoryLimit \in Nat
    /\ Env \subseteq EnvActions
    /\ MaxPods \in [Nodes -> Nat] /\ MaxChanges \in Nat /\ MaxAdmin \in Nat /\ MaxFaults \in Nat

VARIABLES
    node,        \* the Node objects in the API server
    cache,       \* the controller's informer copy of them, possibly old
    pods,        \* per node: evictable pods and pods already terminating
    members,     \* nodes the pool's nodeSelector matches
    conflicted,  \* nodes another pool's nodeSelector matches too
    poolPaused,  \* spec.paused
    config,      \* what the pool's MachineConfigs render to, NoRev without any
    rmc,         \* creation order of the rendered configs, 0 if absent
    creations,   \* rendered configs created so far
    debounce,    \* DebounceState of the pool: the last hash, and if it is old enough
    status,      \* the pool's status: target and last successful revision
    pc,          \* where Reconcile is
    target,      \* the revision of this pass
    view,        \* listed copies of the nodes this pass has still to process
    inUse,       \* revisions this pass's cleanup must keep
    agent,       \* per node: what its agent is doing
    spent        \* bounds: changes, interventions and faults so far

ctlVars == <<rmc, creations, debounce, status, pc, target, view, inUse>>
poolVars == <<members, conflicted, poolPaused, config>>
vars == <<node, cache, pods, poolVars, ctlVars, agent, spent>>

Todo == DOMAIN view

Managed == members \ conflicted

\* The nodes of a pass.  When the detection of overlaps fails, its error is only
\* logged and no node counts as conflicted.
PassNodes == IF "apiError" \in Env THEN {Managed, members} ELSE {Managed}

\* phase "wait": the agent reads its watch; "fetch": it has read an event that
\* asks for work and is fetching that config (with retries for up to 14 s);
\* "apply": it has set state=applying and is writing files; "down": it has not
\* started, or its host reboots.  backlog is an event queued behind the work: the
\* agent's own state=applying patch, which still shows desired # current.
AgentInfo == [phase : {"down", "wait", "fetch", "apply"}, work : AnyRev, backlog : AnyRev]
AgentIn(phase) == [phase |-> phase, work |-> NoRev, backlog |-> NoRev]
AgentWaits(a) == [phase |-> "wait", work |-> NoRev, backlog |-> a.backlog]

Init ==
    /\ node = [n \in Nodes |-> FreshNode]
    /\ cache = node
    /\ pods \in [Nodes -> [run : UNION {0..MaxPods[n] : n \in Nodes}, term : {0}]]
    /\ \A n \in Nodes : pods[n].run <= MaxPods[n]
    /\ members = Members0
    /\ conflicted = {}
    /\ poolPaused = FALSE
    /\ config = Config0
    /\ rmc = [r \in Revisions |-> 0]
    /\ creations = 0
    /\ debounce = [hash |-> NoRev, quiet |-> FALSE]
    /\ status = [target |-> NoRev, lastOK |-> NoRev]
    /\ pc = "idle"
    /\ target = NoRev
    /\ view = [n \in {} |-> FreshNode]
    /\ inUse = {}
    /\ agent = [n \in Nodes |-> AgentIn("down")]
    /\ spent = [changes |-> 0, admin |-> 0, faults |-> 0]

Spend(kind, max) ==
    /\ spent[kind] < max
    /\ spent' = [spent EXCEPT ![kind] = @ + 1]

Fault(kind) == kind \in Env /\ Spend("faults", MaxFaults)

(***************************************************************************)
(* The controller: one worker, so passes never overlap.                    *)
(***************************************************************************)

\* What a list through the cached client returns.
Listed == IF "cacheLag" \in Env THEN cache ELSE node

\* Without MachineConfigs a pass only resets the target in the status.
ReconcileEmpty ==
    /\ pc = "idle" /\ ~poolPaused /\ config = NoRev
    /\ status' = [status EXCEPT !.target = NoRev]
    /\ UNCHANGED <<node, cache, pods, poolVars, rmc, creations, debounce,
                   pc, target, view, inUse, agent, spent>>

\* A new hash restarts the debounce window and ends the pass.
DebounceRestarts ==
    /\ pc = "idle" /\ ~poolPaused /\ config # NoRev
    /\ debounce.hash # config
    /\ debounce' = [hash |-> config, quiet |-> FALSE]
    /\ UNCHANGED <<node, cache, pods, poolVars, rmc, creations, status,
                   pc, target, view, inUse, agent, spent>>

\* debounceSeconds pass without a new hash.
DebounceElapses ==
    /\ debounce.hash # NoRev /\ ~debounce.quiet
    /\ debounce' = [debounce EXCEPT !.quiet = TRUE]
    /\ UNCHANGED <<node, cache, pods, poolVars, rmc, creations, status,
                   pc, target, view, inUse, agent, spent>>

ensureRMC(r) ==
    IF rmc[r] > 0
    THEN UNCHANGED <<rmc, creations>>
    ELSE /\ rmc' = [rmc EXCEPT ![r] = creations + 1]
         /\ creations' = creations + 1

NodesToProcess(info, all, r) ==
    collectNodesInProgress(info, all, r) \cup SelectNodesForUpdate(info, all, r)

\* Reconcile up to the loop over nodesToProcess.
ReconcileStart ==
    /\ pc = "idle" /\ ~poolPaused /\ config # NoRev
    /\ debounce = [hash |-> config, quiet |-> TRUE]
    /\ ensureRMC(config)
    /\ target' = config
    /\ \E all \in PassNodes :
          view' = Restrict(Listed, NodesToProcess(Listed, all, config))
    /\ pc' = "process"
    /\ UNCHANGED <<node, cache, pods, poolVars, debounce, status, inUse, agent, spent>>

\* The node n leaves the loop; the rest of the controller's state stays.
Processed(n) ==
    /\ view' = Restrict(view, Todo \ {n})
    /\ UNCHANGED <<cache, poolVars, rmc, creations, debounce, status, pc, target, inUse, agent>>

\* ProcessNodeUpdate is at the listed node n.
At(n) == pc = "process" /\ n \in Todo

SkipsCordon(n) == IsNewNode(view[n]) /\ status.lastOK # NoRev

\* The write of the pool annotation is not repeated and its error is only logged.
PoolWritten(n) == IF "apiError" \in Env THEN {TRUE, node[n].pool} ELSE {TRUE}

\* A brand new node of a pool that has rolled out before gets the revision
\* without cordon and drain.
SkipCordon(n) ==
    /\ At(n) /\ SkipsCordon(n)
    /\ \E p \in PoolWritten(n) :
          node' = [node EXCEPT ![n] = SetDesired(@, target, p)]
    /\ Processed(n)
    /\ UNCHANGED <<pods, spent>>

CordonNode(n) ==
    /\ At(n) /\ ~SkipsCordon(n) /\ ~IsNodeCordoned(view[n])
    /\ node' = [node EXCEPT ![n] = Cordon(@)]
    /\ Processed(n)
    /\ UNCHANGED <<pods, spent>>

Evict(p, k) == [run |-> p.run - k, term |-> p.term + k]

\* Evictions a PodDisruptionBudget refuses leave their pods running.  A pod
\* that is already terminating is not evictable and holds nothing up.
DrainNode(n) ==
    /\ At(n) /\ IsNodeCordoned(view[n]) /\ pods[n].run > 0
    /\ node' = [node EXCEPT ![n] = StartDrain(@, view[n])]
    /\ \E k \in 0..pods[n].run :
          pods' = [pods EXCEPT ![n] = Evict(@, k)]
    /\ Processed(n)
    /\ UNCHANGED spent

\* Mutant: the drain is complete once it has started.
IsDrainStarted(n) == node[n].drainAt \/ pods[n].run = 0

IsDrainComplete(n) == pods[n].run = 0

SetDesiredRevision(n) ==
    /\ At(n) /\ IsNodeCordoned(view[n]) /\ IsDrainComplete(n)
    /\ view[n].desired # target
    /\ \E p \in PoolWritten(n) :
          node' = [node EXCEPT ![n] = SetDesired(@, target, p)]
    /\ Processed(n)
    /\ UNCHANGED <<pods, spent>>

UncordonNode(n) ==
    /\ At(n) /\ IsNodeCordoned(view[n]) /\ IsDrainComplete(n)
    /\ view[n].desired = target
    /\ ShouldUncordon(view[n], target)
    /\ node' = [node EXCEPT ![n] = Uncordon(@)]
    /\ Processed(n)
    /\ UNCHANGED <<pods, spent>>

\* The agent has not finished.
WaitForAgent(n) ==
    /\ At(n) /\ IsNodeCordoned(view[n]) /\ IsDrainComplete(n)
    /\ view[n].desired = target
    /\ ~ShouldUncordon(view[n], target)
    /\ Processed(n)
    /\ UNCHANGED <<node, pods, spent>>

\* The first API call that matters for n fails, or its write starts from an old
\* copy and conflicts until the retries are over; n is tried again later.
ProcessFails(n) ==
    /\ At(n)
    /\ \/ Fault("apiError")
       \/ "cacheLag" \in Env /\ cache[n] # node[n] /\ UNCHANGED spent
    /\ Processed(n)
    /\ UNCHANGED <<node, pods>>

ProcessNodeUpdate(n) ==
    \/ SkipCordon(n) \/ CordonNode(n) \/ DrainNode(n) \/ SetDesiredRevision(n)
    \/ UncordonNode(n) \/ WaitForAgent(n)

\* LastSuccessfulRevision moves when every member has the target and none is
\* degraded; a node that is applying is degraded once its apply timeout is over.
Successful(info, timedOut) ==
    /\ members # {}
    /\ \A n \in members : info[n].current = target
    /\ \A n \in members : info[n].state # "error" /\ n \notin timedOut

\* Mutant: only what the nodes run is in use, not what they were told to run.
getRevisionsRunning(info) == {target} \cup {info[n].current : n \in members}

getRevisionsInUse(info) ==
    {target} \cup {info[n].current : n \in members} \cup {info[n].desired : n \in members}

\* The second list, AggregateStatus and the status update.
UpdateStatus ==
    /\ pc = "process" /\ Todo = {}
    /\ \E timedOut \in SUBSET {n \in members : Listed[n].state = "applying"} :
          status' = [target |-> target,
                     lastOK |-> IF Successful(Listed, timedOut)
                                THEN target ELSE status.lastOK]
    /\ inUse' = getRevisionsInUse(Listed)
    /\ pc' = "cleanup"
    /\ UNCHANGED <<node, cache, pods, poolVars, rmc, creations, debounce,
                   target, view, agent, spent>>

\* The status update fails and the pass ends with an error.
UpdateStatusFails ==
    /\ pc = "process" /\ Todo = {} /\ Fault("apiError")
    /\ pc' = "idle"
    /\ target' = NoRev
    /\ UNCHANGED <<node, cache, pods, poolVars, rmc, creations, debounce, status,
                   view, inUse, agent>>

Existing == {r \in Revisions : rmc[r] > 0}

\* The oldest k rendered configs that are not in use.
OldestUnused(k) ==
    LET unused == Existing \ inUse
    IN  {r \in unused : Cardinality({q \in unused : rmc[q] < rmc[r]}) < k}

\* The history is cut down to the limit (0: keep all); an error stops it early.
CleanupOldRMCs ==
    /\ pc = "cleanup"
    /\ LET excess == Cardinality(Existing) - HistoryLimit
       IN  IF HistoryLimit = 0 \/ excess <= 0
           THEN UNCHANGED rmc
           ELSE \E k \in IF "apiError" \in Env THEN 0..excess ELSE {excess} :
                   rmc' = [r \in Revisions |-> IF r \in OldestUnused(k) THEN 0 ELSE rmc[r]]
    /\ pc' = "idle"
    /\ target' = NoRev
    /\ inUse' = {}
    /\ UNCHANGED <<node, cache, pods, poolVars, creations, debounce, status,
                   view, agent, spent>>

\* A restart loses the pass and the debounce state, which are only in memory.
ControllerRestart ==
    /\ Fault("controllerRestart")
    /\ pc' = "idle"
    /\ target' = NoRev
    /\ view' = Restrict(view, {})
    /\ inUse' = {}
    /\ debounce' = [hash |-> NoRev, quiet |-> FALSE]
    /\ UNCHANGED <<node, cache, pods, poolVars, rmc, creations, status, agent>>

\* The informer catches up with the API server.
SyncCache ==
    /\ "cacheLag" \in Env /\ cache # node
    /\ cache' = node
    /\ UNCHANGED <<node, pods, poolVars, ctlVars, agent, spent>>

(***************************************************************************)
(* The agents.                                                             *)
(***************************************************************************)

\* A step of the agent of n changes only its own and its node's state.
AgentOnly == UNCHANGED <<cache, pods, poolVars, ctlVars>>

\* handleNodeUpdate on an event that shows the node as it is.
AgentTake(n) ==
    /\ agent[n].phase = "wait" /\ agent[n].backlog = NoRev
    /\ ~node[n].paused
    /\ node[n].desired \notin {NoRev, node[n].current}
    /\ agent' = [agent EXCEPT ![n] = [phase |-> "fetch", work |-> node[n].desired,
                                      backlog |-> NoRev]]
    /\ UNCHANGED <<node, spent>> /\ AgentOnly

\* handleNodeUpdate on the queued event, which shows the node as it was.
AgentTakeQueued(n) ==
    /\ agent[n].phase = "wait" /\ agent[n].backlog # NoRev
    /\ agent' = [agent EXCEPT ![n] = [phase |-> "fetch", work |-> agent[n].backlog,
                                      backlog |-> NoRev]]
    /\ UNCHANGED <<node, spent>> /\ AgentOnly

\* The config is there; the agent sets state=applying, and its own watch queues
\* the event of that patch.
AgentApply(n) ==
    /\ agent[n].phase = "fetch" /\ rmc[agent[n].work] > 0
    /\ node' = [node EXCEPT ![n] = SetState(@, "applying")]
    /\ agent' = [agent EXCEPT ![n] =
                    [phase   |-> "apply",
                     work    |-> agent[n].work,
                     backlog |-> IF ~node[n].paused /\ node[n].desired # node[n].current
                                 THEN node[n].desired ELSE NoRev]]
    /\ UNCHANGED spent /\ AgentOnly

AgentGivesUp(n) ==
    /\ node' = [node EXCEPT ![n] = SetState(@, "error")]
    /\ agent' = [agent EXCEPT ![n] = AgentWaits(@)]

\* The config is gone, and the retries are over.
AgentFetchFails(n) ==
    /\ agent[n].phase = "fetch" /\ rmc[agent[n].work] = 0
    /\ AgentGivesUp(n)
    /\ UNCHANGED spent /\ AgentOnly

\* What fails for the agent while it handles a request, be the config new to the
\* node or, with "reapplyError", one that it has and handles a second time.
HandlingFails(n, kind) ==
    Fault(IF agent[n].work # node[n].current THEN kind ELSE "reapplyError")

\* Any other error of the fetch is not retried.
AgentFetchError(n) ==
    /\ agent[n].phase = "fetch" /\ HandlingFails(n, "fetchError")
    /\ AgentGivesUp(n)
    /\ AgentOnly

\* The applier stops at the first file or unit that fails.
AgentApplyFails(n) ==
    /\ agent[n].phase = "apply" /\ HandlingFails(n, "applyError")
    /\ AgentGivesUp(n)
    /\ AgentOnly

\* SetDone: state and current-revision in one patch.
AgentDone(n) ==
    /\ agent[n].phase = "apply"
    /\ node' = [node EXCEPT ![n] = SetDone(@, agent[n].work)]
    /\ agent' = [agent EXCEPT ![n] = AgentWaits(@)]
    /\ UNCHANGED spent /\ AgentOnly

\* The new config requires a reboot, and the strategy allows it.  Applying what
\* the node already has changes nothing and reboots nothing.
AgentReboots(n) ==
    /\ agent[n].phase = "apply" /\ agent[n].work # node[n].current
    /\ Fault("reboot")
    /\ node' = [node EXCEPT ![n] = SetState(@, "rebooting")]
    /\ agent' = [agent EXCEPT ![n] = AgentIn("down")]
    /\ AgentOnly

\* Run after a start: the state becomes idle, the watch starts afresh.
AgentStarts(n) ==
    /\ node' = [node EXCEPT ![n] = SetState(@, "idle")]
    /\ agent' = [agent EXCEPT ![n] = AgentIn("wait")]

AgentBoots(n) ==
    /\ agent[n].phase = "down"
    /\ AgentStarts(n)
    /\ UNCHANGED spent /\ AgentOnly

AgentRestarts(n) ==
    /\ agent[n].phase # "down" /\ Fault("agentRestart")
    /\ AgentStarts(n)
    /\ AgentOnly

\* A patch of the agent does not reach the API server and the node stays as it is.
\* Without state=applying or SetDone the agent goes back to its watch; errors of
\* the patches of state=error, rebooting and idle are ignored or only logged.
AgentPatchLost(n) ==
    /\ \/ /\ agent[n].phase \in {"fetch", "apply"} /\ HandlingFails(n, "patchError")
          /\ agent' = [agent EXCEPT ![n] = AgentWaits(@)]
       \/ /\ agent[n].phase = "apply" /\ agent[n].work # node[n].current
          /\ "reboot" \in Env /\ Fault("patchError")
          /\ agent' = [agent EXCEPT ![n] = AgentIn("down")]
       \/ /\ agent[n].phase = "down" \/ "agentRestart" \in Env
          /\ Fault("patchError")
          /\ agent' = [agent EXCEPT ![n] = AgentIn("wait")]
    /\ UNCHANGED node /\ AgentOnly

AgentStep(n) ==
    \/ AgentTake(n) \/ AgentTakeQueued(n) \/ AgentApply(n) \/ AgentFetchFails(n)
    \/ AgentDone(n) \/ AgentBoots(n)

(***************************************************************************)
(* The environment.                                                        *)
(***************************************************************************)

\* The pool's MachineConfigs change; without "revert", to something new.
ConfigChange(r) ==
    /\ Spend("changes", MaxChanges)
    /\ r # config
    /\ r = NoRev => "empty" \in Env
    /\ "revert" \notin Env => r = NoRev \/ r > config
    /\ config' = r
    /\ UNCHANGED <<node, cache, pods, members, conflicted, poolPaused, ctlVars, agent>>

PodStarts(n) ==
    /\ ~node[n].unsched
    /\ pods[n].run + pods[n].term < MaxPods[n]
    /\ pods' = [pods EXCEPT ![n].run = @ + 1]
    /\ UNCHANGED <<node, cache, poolVars, ctlVars, agent, spent>>

PodEnds(n) ==
    /\ pods[n].term > 0
    /\ pods' = [pods EXCEPT ![n].term = @ - 1]
    /\ UNCHANGED <<node, cache, poolVars, ctlVars, agent, spent>>

Admin(kind) == kind \in Env /\ Spend("admin", MaxAdmin)

\* kubectl annotate node mco.in-cloud.io/paused
AdminPauses(n) ==
    /\ Admin("pause")
    /\ node' = [node EXCEPT ![n].paused = ~@]
    /\ UNCHANGED <<cache, pods, poolVars, ctlVars, agent>>

\* kubectl cordon
AdminCordons(n) ==
    /\ ~node[n].unsched /\ Admin("cordon")
    /\ node' = [node EXCEPT ![n].unsched = TRUE]
    /\ UNCHANGED <<cache, pods, poolVars, ctlVars, agent>>

\* kubectl uncordon
AdminUncordons(n) ==
    /\ node[n].unsched /\ Admin("uncordon")
    /\ node' = [node EXCEPT ![n].unsched = FALSE]
    /\ UNCHANGED <<cache, pods, poolVars, ctlVars, agent>>

AdminPausesPool ==
    /\ Admin("poolpause")
    /\ poolPaused' = ~poolPaused
    /\ UNCHANGED <<node, cache, pods, members, conflicted, config, ctlVars, agent>>

NodeJoins(n) ==
    /\ n \notin members /\ Admin("join")
    /\ members' = members \cup {n}
    /\ UNCHANGED <<node, cache, pods, conflicted, poolPaused, config, ctlVars, agent>>

NodeLeaves(n) ==
    /\ n \in members /\ Admin("leave")
    /\ members' = members \ {n}
    /\ UNCHANGED <<node, cache, pods, conflicted, poolPaused, config, ctlVars, agent>>

\* Another pool's selector starts or stops matching n.
OverlapChanges(n) ==
    /\ Admin("overlap")
    /\ conflicted' = IF n \in conflicted THEN conflicted \ {n} ELSE conflicted \cup {n}
    /\ UNCHANGED <<node, cache, pods, members, poolPaused, config, ctlVars, agent>>

Controller ==
    \/ ReconcileEmpty \/ DebounceRestarts \/ ReconcileStart
    \/ \E n \in Nodes : ProcessNodeUpdate(n)
    \/ UpdateStatus \/ CleanupOldRMCs

ControllerFaults ==
    \/ \E n \in Nodes : ProcessFails(n)
    \/ UpdateStatusFails \/ ControllerRestart \/ SyncCache

AgentFaults(n) ==
    \/ AgentFetchError(n) \/ AgentApplyFails(n) \/ AgentPatchLost(n)
    \/ AgentReboots(n) \/ AgentRestarts(n)

Environment ==
    \/ \E r \in AnyRev : ConfigChange(r)
    \/ AdminPausesPool
    \/ \E n \in Nodes :
          \/ PodStarts(n) \/ PodEnds(n)
          \/ AdminPauses(n) \/ AdminCordons(n) \/ AdminUncordons(n)
          \/ NodeJoins(n) \/ NodeLeaves(n) \/ OverlapChanges(n)

Next ==
    \/ Controller \/ ControllerFaults \/ DebounceElapses
    \/ \E n \in Nodes : AgentStep(n) \/ AgentFaults(n)
    \/ Environment

Spec == Init /\ [][Next]_vars

(***************************************************************************)
(* Fairness.  Every processed node asks for a requeue and every write to a *)
(* node wakes the pool's reconciler, so passes keep coming; agents read    *)
(* their watch, which node heartbeats keep alive; timers expire.  A drain  *)
(* that is tried for ever succeeds some time: budgets are not refused for  *)
(* ever.                                                                   *)
(***************************************************************************)
DrainSucceeds(n) == DrainNode(n) /\ pods'[n].run = 0

Fairness ==
    /\ WF_vars(Controller)
    /\ WF_vars(DebounceElapses)
    /\ \A n \in Nodes : WF_vars(AgentStep(n)) /\ SF_vars(DrainSucceeds(n))

FairSpec == Spec /\ Fairness

(***************************************************************************)
(* Properties.                                                             *)
(***************************************************************************)

StateTypes ==
    /\ node \in [Nodes -> NodeInfo]
    /\ cache \in [Nodes -> NodeInfo]
    /\ pods \in [Nodes -> [run : Nat, term : Nat]]
    /\ members \subseteq Nodes
    /\ conflicted \subseteq Nodes
    /\ poolPaused \in BOOLEAN
    /\ config \in AnyRev
    /\ rmc \in [Revisions -> Nat]
    /\ creations \in Nat
    /\ debounce \in [hash : AnyRev, quiet : BOOLEAN]
    /\ status \in [target : AnyRev, lastOK : AnyRev]
    /\ pc \in {"idle", "process", "cleanup"}
    /\ target \in AnyRev
    /\ Todo \subseteq Nodes
    /\ view \in [Todo -> NodeInfo]
    /\ inUse \subseteq AnyRev
    /\ agent \in [Nodes -> AgentInfo]
    /\ spent \in [changes : Nat, admin : Nat, faults : Nat]

Budget == CalculateMaxUnavailable(MaxUnavailable, Cardinality(Managed))

\* Every variable has its shape, and the pool may always update some node: no
\* maxUnavailable, 0 or less and 0% included, leaves a budget of nothing.
TypeOK ==
    /\ StateTypes
    /\ Budget \in Nat \ {0}

\* maxUnavailable: the controller never has more nodes cordoned at a time than
\* the pool allows, however passes, agents and failures interleave.
CordonBudget ==
    Cardinality({n \in Managed : node[n].cordoned /\ ~node[n].paused}) <= Budget

\* The agent changes the configuration of a node only while the node is
\* cordoned and its pods have been evicted.
UpdatesDrained ==
    \A n \in Nodes :
        agent[n].phase = "apply" /\ agent[n].work # node[n].current
            => node[n].unsched /\ node[n].cordoned /\ pods[n].run = 0

\* The rendered config a node is told to apply exists until the node is told
\* otherwise: cleanup of old revisions never takes it away.
DesiredRMCExists ==
    \A n \in Nodes : node[n].desired # NoRev => rmc[node[n].desired] > 0

\* A cordoned node whose agent has nothing left to do is in the one state from
\* which ShouldUncordon lets it go.
NotStranded ==
    \A n \in Nodes :
        /\ node[n].cordoned
        /\ node[n].desired = node[n].current
        /\ agent[n] = AgentIn("wait")
        => node[n].state = "done" \/ node[n].desired = NoRev

\* Every node of the pool ends up with the pool's configuration and takes pods.
RolledOut ==
    \A n \in Managed : node[n].paused \/
        (node[n].current = config /\ ~node[n].cordoned /\ ~node[n].unsched)

RolloutCompletes == <>[]RolledOut

\* Whatever admins do and whatever fails, the controller gives a revision only
\* to a node it has cordoned, or, once the pool has rolled out, to one that it
\* has not marked as its own yet.
DesiredNeedsCordon ==
    [][\A n \in Nodes :
          node'[n].desired # node[n].desired
              => node[n].cordoned \/ (~node[n].pool /\ status.lastOK # NoRev)]_vars

\* A node that joins a pool which has rolled out before gets its first
\* configuration without being cordoned for it.
NewNodesNotCordoned ==
    [][\A n \in Nodes :
          ~node[n].cordoned /\ node'[n].cordoned
              => node[n].current # NoRev \/ status.lastOK = NoRev]_vars

\* The controller asks for a revision only when the pods it evicted have left.
EvictedPodsGone ==
    [][\A n \in Nodes : node'[n].desired # node[n].desired => pods[n].term = 0]_vars
=============================================================================
