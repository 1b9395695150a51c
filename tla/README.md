# A TLA+ model of the machine-config operator

The operator rolls configuration (files and systemd units) out to the nodes of
a Kubernetes cluster. A controller renders the MachineConfigs of a pool into one
RenderedMachineConfig (RMC), takes nodes out of service a few at a time and tells
each node's agent which RMC to apply; the agent applies it, reboots the host if
it must, and reports. The two sides talk through annotations of the Node object
and nothing else. This directory models that protocol and the parts on both sides
of it, checks them with TLC and proves the main results with TLAPS.

## Inventory

| Part | State it keeps | Operations | Hard because |
|------|----------------|------------|--------------|
| Reconcile (`machineconfigpool_controller.go`, `node_update.go`) | pool status; a pass in memory | list, debounce, ensure the RMC, one lifecycle step per selected node, status, cleanup | a pass is not atomic, works on copies, can fail or die anywhere |
| Selection (`rollout.go`) | none | budget, order, nodes to start, nodes to go on with | the budget is counted from annotations that others write |
| Cordon and drain (`cordon.go`, `drain.go`) | `unschedulable`, `cordoned`, `drain-started-at` | cordon, evict, test for completion, retry, report, uncordon | evictions are refused, pods linger, admins cordon too; a timeout that nothing but a pass notices |
| Debounce (`debounce.go`) | last hash and its time, in memory | CheckAndUpdate | lost in a restart; decides whether there is a next pass |
| History (`cleanup.go`) | RMC objects | delete the oldest that are not in use | what is in use was listed earlier |
| Overlap (`overlap.go`) | none | nodes that several pools select | selectors change at any time |
| Status (`status.go`) | counters, conditions, lastSuccessfulRevision | aggregate, merge conditions | written in parts on five ways out of a pass; must become true without an event |
| Agent (`agent.go`, `nodewriter.go`) | watch, pendingRebootRevision | startup, event, fetch, apply, report | handles old copies of its node one at a time |
| Reboot handler (`reboot/`) | `last-reboot`, boot marker, `reboot-pending` | decide, postpone, reboot, recognise a reboot | crash between any two writes |
| Reboot decision, applier (`reboot_decision.go`, `diff.go`, `apply.go`, `files.go`, `systemd.go`) | the host | diff, write, (re)start units | partial failure; not always idempotent; decides from configs, changes the host |
| Renderer (`internal/renderer`, `ensureRMC`) | RMC objects and a cache of them | merge, hash, name, find or create | collisions of short hashes; an old cache; the name leaves out a part |
| Events, metrics, programs, API types | none | output and wiring | not modelled |

What makes the parts correct: the controller keeps to `maxUnavailable`; a node is
changed only when it is cordoned and drained; a revision goes only to a node that
MCO holds; an RMC that is still wanted is not deleted; every node gets to the
configuration and back into service; the agent reports what is on the host, and
only after the reboot that it requires; a rendered config is what its MachineConfigs
merge to; the conditions of a pool become true. The hazards behind each of these are
listed in `PROJECT.json` with the line where they bite.

## Modules

| Module | Models |
|--------|--------|
| `NodeState` | the Node object as both sides see it, its predicates (`IsNodeUnavailable`, `ShouldUncordon`, `IsNewNode`) and its writes |
| `Rollout` | `rollout.go`: the budget, the order, the two selections |
| `PoolRollout` | one pool: the controller's pass, all agents, cluster and people around them |
| `NodeAgent` | one agent in detail: watch queue, startup, reboot handler, host |
| `AgentContract` | abstract: what the controller may assume of an agent |
| `RolloutContract` | the agents of `PoolRollout` as implementations of `AgentContract` |
| `Rendering` | merge, hash, `ensureRMC` with its cache, one node that keeps names in use |
| `PoolStatus` | counts, conditions and debounce on every way out of a pass, and what starts the next pass |
| `DrainRetry` | the drain of one node in time |
| `HostConfig` | one host under the applier, file by file and unit by unit, and the reboot decision |
| `MCPoolRollout`, `MCNodeAgent`, `MCRendering`, `MCPoolStatus`, `MCDrainRetry`, `MCHostConfig` | small instances |
| `PoolRolloutProofs`, `RevisionProofs`, `UpdateProofs` | theorems about `PoolRollout`: types, budget and one rollout; revisions; updates and the contract |
| `NodeAgentProofs`, `HostConfigProofs`, `RenderingProofs`, `PoolStatusProofs`, `DrainRetryProofs` | theorems about the module of that name |

`PoolRollout` composes `NodeState`, `Rollout` and a coarse agent. The other modules
take one part of it apart: `NodeAgent` the agent, `HostConfig` the agent's apply,
`Rendering` its `ensureRMC` and cleanup, `DrainRetry` its drain, `PoolStatus` its status
and the scheduling that its fairness assumes. `AgentContract` is what joins the
first two: both agents are shown to implement it.

A definition whose comment begins with "Mutant" is a version of the definition
below it with a plausible bug in it. None is used; substituting one shows that
the property it belongs to can fail.

### PoolRollout

`pc` says where the one worker of the reconciler is: `idle`, in the loop over the
listed nodes (`process`, with `view` the listed copies not yet processed), or at
`cleanup`. `ReconcileStart` is the pass up to the loop. `ProcessNodeUpdate(n)` is
one turn of the loop and has one action per way out of the Go function:
`SkipCordon`, `CordonNode`, `DrainNode`, `SetDesiredRevision`, `UncordonNode`,
`WaitForAgent` and, for every call that returns an error, `ProcessFails`. Guards
read the listed copy, as the code does; writes change the live node, because
they get the object again and repeat on a conflict. `UpdateStatus` lists again.

An agent is in one of four phases. `fetch` begins when an event that asks for
work is read and `apply` when state `applying` has been written; the revision it
works on is fixed at the event. `backlog` is the event that its own `applying`
patch puts on its watch: handled later, it shows the node as it was, and the agent
handles a second time a revision that the node may already run. A request fails when
its RMC is gone (`AgentFetchFails`), by any other error of the API server
(`AgentFetchError`), by a file or unit (`AgentApplyFails`), or because a patch is lost
(`AgentPatchLost`). The kinds `"fetchError"`, `"applyError"` and `"patchError"` in `Env` are
these failures while the revision is new to the node; `"reapplyError"` is any of them
in the second handling (`HandlingFails`), whose effect is another one: there the agent does
not try again.

The detection of overlaps can fail; the pass then takes in nodes of other pools
too (`PassNodes`).

What is abstracted:

- A revision is a number; which MachineConfigs render to it does not matter.
  Without `"revert"` in `Env` a change always leads to a larger one.
- Time: debounce, requeue and retry intervals are nondeterministic; an apply
  timeout may or may not be over.
- The loop takes the listed nodes in any order (the code: those in progress,
  then the new ones; the order within the first group is that of the list).
- Pods are two numbers per node, evictable and terminating. The pods that are
  listed are those that are there: a lagging pod cache is not modelled.
- With `"cacheLag"` the controller lists from `cache`, which catches up as a
  whole at any time; a write to a node whose copy is old may then fail with a
  conflict. RMCs and the pool are read as they are.
- `ensureRMC` that fails ends the pass with nothing changed but a condition, so
  it is no step. The early writes of overlap conditions are left out likewise.
- Only one event is kept in `backlog`, the one that can still ask for work;
  `NodeAgent` has the whole queue. A host reboot comes back as an agent that
  starts; `reboot-pending` and the reboot policy are in `NodeAgent` only, and
  with them the condition that no node is pending in `lastSuccessfulRevision`.
- `drain-retry-count`, `last-error` and the time stamps are only reported.

### NodeAgent

`ann` is the node's annotations, `queue` the events the agent has not read, `ev`
the copy it works on. `pc` follows `Run` and `handleNodeUpdate`: every patch is a
step of its own, except that the three patches of `executeReboot` are one step
that leaves three events (no call of the agent lies between them). A patch whose
error the code only logs, or returns to the loop that logs it, may be lost when
`"apiError"` is in `AgentEnv` (`Stored`, `TryPatch`); the same holds for the two
state files under `"stateFileError"`. `disk` is the configuration on the host,
`NoRev` after a partial apply; `Drops`, `Restarts`, `Required` and `DiffRequires`
say what the configurations are like. The applier compares contents, so on a host that an
apply has left half-way the next one may find something to change or nothing, whatever
its revision (`ChangesHost`). `owed` is a history variable: `"yes"` if a change that
requires a reboot was made and no reboot has followed, `"unknown"` if an apply has failed
half-way since the last reboot, whose changes may or may not require one. A watcher that is too
slow loses its events and gets the newest node (`Deliver`). Heartbeats
arrive only on an empty queue, since an earlier event would show the same.
`ClearLastError` only touches `last-error` and is left out.

### AgentContract

The controller sees three annotations of an agent. `asks` is what the agent may
still act on: first what it works on (`NoRev`: nothing), then what it will read,
oldest first, the annotation itself last. In `NodeAgent` these are the event it
works on, the queue of its watch and the annotation (`Asks`), in `PoolRollout` the work,
the one event in the backlog (or the annotation) and the annotation. Positions move
only to the front (`Keeps`): a step passes over some of the oldest requests and may blank
others, and the last one stays and may be read more than once, because every patch
to the node shows it again. A new request comes last and may push the one before it out
of a full watch (`Ask`). Only the request at the front is reported, together with
`done`. The contract leaves open what the agent's failures leave on the host, which is the
matter of the other properties.

### Rendering

The state is `mcs`, the API server's `rmcs`, the `cache` that the controller reads, and
where its one worker is. Files and units are entries with a key and a content.
`ReconcileRenders` reads and merges; `Lookup` is what `CheckExistingRMC` and the suffix
loop find; `UseExisting`, `UseSuffixed`, `EnsureFails`, `CreateRMC`, `UseWhatExists` and
`GetFails` are the ways through `ensureRMC`. An update of an object that the cache has
in an old version fails, a `Create` of a name that is taken fails too, and what has
the name is then used. `AskNode` stands for the loop over the nodes, and for the list of
nodes after it, of which `getRevisionsInUse` makes the set that `CleanupOldRMCs` spares.
Cleanup deletes any part of the rest: the history limit is in `PoolRollout`.

The one node stands for all. Its agent fetches (`NodeFetches`) and minutes later reports
(`NodeReports`) under the name of then; passes, changes and cleanups come in between.
`held` says that the node was asked for this revision all the while: a revision that is
taken back while the agent works on it is not in use for `getRevisionsInUse`, and cleanup
may delete it before it is reported as current. `CurrentMeansApplied` does not speak
of such a revision. `Lags` says which lists may be old, those of RMCs or of nodes or both.

`Short` is a parameter: in `MCRender` all configs that agree on the reboot flag collide.
`minIntervalSeconds` goes the way of the strategy and is left out. Errors of the API
server other than these end a pass like `EnsureFails`.

### PoolStatus

A pass starts when the pool is in the work queue (`woken`) and ends in one of five
ways: no MachineConfigs, debounce, render error, status written, status not written.
`timer` is a requeue; two requeues are one, since either brings a pass. A node has
a revision, is cordoned or not, is asked for another revision or not, and has an agent's
state and a drain; events that wake the pool change it, and time, which does not: an
apply becomes late, a refused drain overdue. A pass sets a timer for the nodes that it processes,
and these are the ones of `collectNodesInProgress` and of `SelectNodesForUpdate`: a cordoned
node that applies again what it already runs is in neither (`rollout.go:187`). A drain is
stuck when it is over its timeout, pods are left that cannot be evicted, and the node is
processed (`Overdue`). A condition carries `fresh`: its transition time is
that of the pass that wrote it last. One number stands for the rendered hash and the
hash of the reboot policy. Conflicts of other pools change without an event; the
history variable `unseen` says that this may have happened since the last
detection. `Ready` and the others follow `computeConditions`, in the order in which
`Degraded` is overwritten; the merges of one pass are applied one after the other, as
the code does, because the second sees the time that the first has set. Not modelled: a paused pool (no pass, nothing written),
an empty pool, counts that no condition depends on, `currentRevision`, and the removal
of condition types of earlier versions.

### DrainRetry

Time is in ticks of 10 s, the least requeue of `HandleDrainRetry`; requeues of 5 s
and less count as one tick, and the informer and the work queue take less than one. `listed`
says whether the informer's copy has `drain-started-at`. A pass is one step; its
writes to the node put an event on its way, which brings the copy up to date and
queues the pool. Pods also leave between two passes (`PodsLeave`), of which the controller
hears nothing; `gone` is the time since the last one left. A `drain-started-at` that
cannot be parsed (`drain.go:223`) is not modelled: only the controller writes it. A write from an old copy is refused, or gets through when the
copy catches up during its retries and then starts the clock again.

### HostConfig

`todo` is the set of steps that are left of an apply: one per file and up to three
per unit, taken in the order of the code (files, then units, each by name, and mask,
enablement and state within a unit).
Every step is idle, changes the host, or fails; a failure, a cancelled context and a
crash all end the apply and leave the host as it is. A file has a content, a mode and
an owner; a unit is masked, enabled and active. `needs` is the set of entries whose
winning MachineConfig requires a reboot, and `RequiredOf` is then its non-emptiness: a
MachineConfig that requires a reboot and wins no entry is not modelled. `owed` and
`interrupted` are history variables: the changed entries that still need a reboot, and
that an apply was cut short, or a config taken back before it was reported, and no reboot
has come since with all applied. A step that acts on every apply without changing the host
(`restarted`) adds nothing to `owed`. After the reboot that it has asked for, the agent
applies the config again, since `executeReboot` has removed `reboot-pending`
(`RebootAppliesAgain`); if the removal was lost, it reports the config without
(`RebootReports`); if the node is asked for something else by then, neither
(`RebootOvertaken`). Delays of the reboot and a command that fails are in `NodeAgent`.

## Runs

Passing runs:

| Run | Properties | Instance |
|-----|------------|----------|
| `MCBudget` | `TypeOK`, `CordonBudget`, `UpdatesDrained` | 2 nodes with pods, `maxUnavailable` 0%, one rollout, stale node lists, one failure of any kind |
| `MCUpdates` | `UpdatesDrained`, `NotStranded`, `DesiredRMCExists` | 2 nodes with pods, 2 revisions, a history of 1, one failure of the controller or, with a new revision, of an agent |
| `MCComplete` | `RolloutCompletes` | 2 nodes, one with a pod, 2 revisions, one failure as above, fairness |
| `MCAdmin` | `DesiredNeedsCordon`, `AgentsKeepContract` | 2 nodes of which one joins, 2 revisions, admins do two of anything |
| `MCAgent` | `TypeOK`, `ReportsWhatItApplied`, `RebootBeforeDone` | 2 revisions with reboots, 3 requests with reverts, pauses, forced reboots, 2 failures, no crash of the agent alone |
| `MCAgentFaults` | `KeepsContract` | 2 revisions, a reboot interval, 2 failures or restarts of any kind |
| `MCAgentLive` | `Converges` | 3 revisions with reboots, fairness |
| `MCRender` | `TypeOK`, `MergeIsWinners`, `CurrentMeansApplied`, `RenderSettles` | 2 MachineConfigs of 3 kinds, colliding hashes, 3 changes, an old cache of RMCs, fairness |
| `MCStatus` | `TypeOK`, `StatusSettles`, `TransitionTimesKept` | 2 nodes through their life cycle, a budget of one, 2 events, one failure of any kind, fairness |
| `MCDrain` | `TypeOK`, `StuckInTime`, `StuckNotEarly` | 2 pods that may leave at any time, an interval longer than the timeout, any number of failing passes and other events |
| `MCHost` | `TypeOK`, `DoneMeansApplied`, `RebootWhenNeeded`, `StartedWithFiles` | 6 configs with 2 files and a unit in any order, any initial host, 2 failures |

The run that ends in a counterexample, with its finding in `PROJECT.json`:

| Run | Property | What happens |
|-----|----------|--------------|
| `MCRenderStale` | `RequirementsOfWinners` | the MachineConfigs swap who requires a reboot; entries and flag, and with them the hash, stay the same, and the RMC of before is used |

Further configurations show why the passing runs and the theorems assume
what they assume. Each ends in a counterexample and is kept for reference, outside
the list of runs. Where a line of the repository says otherwise, it is given.

Controller (`MCPoolRollout`):

| Configuration | Property | What happens |
|---------------|----------|--------------|
| `MCChangeBudget` | `CordonBudget` | a finished node applies again because of its own queued event; a config change at that moment cordons it without a slot (`machineconfigpool_types.go:43`) |
| `MCPause` | `CordonBudget` | a node is paused while cordoned, another takes its slot, the first is unpaused (`rollout.go:78`) |
| `MCJoin` | `NewNodesNotCordoned` | a new node that is slower than the next pass is cordoned after all (`node_update.go:56`) |
| `MCRestart` | `RolloutCompletes` | the agent restarts between `done` and the uncordon: idle, cordoned for ever |
| `MCReapplyError` | `RolloutCompletes` | the agent handles a finished revision a second time because of its own event, and the fetch or the apply fails or SetDone is lost: error or applying, cordoned for ever (`agent.go:335`, `:442`) |
| `MCRevertDrained` | `UpdatesDrained` | after a change and a revert the agent applies the reverted revision on a node in service |
| `MCTerminating` | `EvictedPodsGone` | evicted pods still run when the revision is set (`drain.go` skips them on purpose, `cordon-drain.md` says it waits) |
| `MCLeave` | `DesiredRMCExists` | the RMC of a node that has left the pool is deleted |

Agent and host (`MCNodeAgent`, `MCHostConfig`):

| Configuration | Property | What happens |
|---------------|----------|--------------|
| `MCAgentStranded` | `NotStranded` | with a reboot interval: the agent's own event sets reboot-pending again; after the reboot done, then idle (`handler.go:238`) |
| `MCAgentPending` | `ReportsWhatItApplied` | `desired-revision` changes while a reboot is pending: the revision reported after it was never applied (`annotations.go:35`) |
| `MCAgentCrash` | `RebootBeforeDone` | a restart between apply and reboot: the repeated apply changes nothing, and the reboot is left out (with `"rebootError"` instead: the same after `systemctl reboot` fails) |
| `MCAgentOwner` | `RebootBeforeDone` | the owner of a file cannot be set: the same |
| `MCAgentRemoved` | `DiffRebootBeforeDone` | a file that requires a reboot is removed without one |
| `MCAgentLoop` | `Converges` | a unit in state `restarted` and a required reboot: reboots for ever |
| `MCHostMode` | `AttributesMatch` | the content is right, mode and owner are not looked at (`architecture.md:174`) |
| `MCHostRead` | `DoneMeansApplied` | a unit property cannot be read: unmask, disable and stop are skipped (with `"job"` instead: a start or stop fails, and its result is not looked at) |
| `MCHostStarted` | `DoneMeansApplied` | a unit that is started but not enabled is down after the reboot, and the node done |

Rendering, status and drain (`MCRendering`, `MCPoolStatus`, `MCDrainRetry`):

| Configuration | Property | What happens |
|---------------|----------|--------------|
| `MCRenderStrategy` | `StrategyOfPool` | an RMC under a suffix keeps the strategy it was created with |
| `MCNoDebounce` | `StatusSettles` | `debounceSeconds: 0`: the first pass asks for no other, and without an event nothing is rendered |
| `MCDegradedTime` | `DegradedTimeKept` | Degraded is False and then True in one pass: its transition time starts again with each |
| `MCDegradedEnds` | `DegradedEnds` | without MachineConfigs a pool stays Degraded after its cause is gone |
| `MCDrainLoop` | `RetriesSpaced` | the write of `drain-retry-count` starts the next retry at once (`cordon-drain.md:105`, `:233`) |

The passing runs leave out exactly the behaviours that these show to be
fatal: agent restarts, and failures of any kind while an agent handles a second time what
its node runs (`MCComplete`, `MCUpdates`), reverts and nodes that leave (`MCUpdates`), config
changes and pauses (`MCBudget`), a crash of the agent or a failing `systemctl`
(`MCAgent`), failing reads and jobs of systemd and configs that start what they do not
enable (`MCHost`), a debounce of 0 (`MCStatus`), and old lists of nodes wherever configs
change (`MCUpdates`, `MCRender`).

Some properties are narrower than one would like, because the code does no better:

- `RebootBeforeDone` leaves open, until the next reboot, what an apply that failed half-way
  has changed: revision 1 writes the first of two files and fails at the second, revision 2
  has that first file and the second one as it was, finds nothing to write, and the agent
  reports done (`agent.go:439`).
- `CurrentMeansApplied` does not speak of a revision that was taken back while the agent
  worked on it.
- `RenderSettles` asks for the pool's strategy only without a suffix.
- `StatusSettles` says nothing of a pool without configs, of changes of other pools, which
  start no pass, and of a node that is late with a revision it already runs
  (`LateAgain`), for which no timer is set. Without the last exemption TLC refutes it.
- `RebootWhenNeeded` does not speak of a host with an apply that was cut short or a config
  that was taken back.

### Bounds

Two nodes and a budget of one are the least at which a node can take a slot too
many; larger clusters, other budgets, the rounding and any number of failures are
covered by `BudgetKept`.
`MCBudget` has `maxUnavailable` 0%, which must still leave one node at a time.
One pod per node is enough to tell drained from not drained; `MCComplete`, the largest
search for cycles, has one on one of its nodes only, `MaxPods` being given per node. Two revisions with a
history of one let cleanup delete a config that some node was still given;
`DesiredKept` covers longer histories. `MaxFaults` is one where there are two nodes: each
property concerns one pass or one node, and a second failure starts from a state
that the first alone can reach, except for combinations, which `MCAgent` and
`MCAgentFaults` cover with two. The watch holds three or four events: the agent
makes at most four patches between two reads. `MCAdmin` does not check for
deadlock, because a paused pool, once the admin has nothing left to do, rests.

Two MachineConfigs with two keys and a tie are the least at which the order of a
merge shows in every field; the kinds are one with two entries and a reboot and two that
overwrite one of the entries, with the same priority and with another; three changes let a name be freed, taken by another
config and wanted again. Two nodes and two events let one node's change hide the
other's; the seven states of `Lifecycle` are a node before, at each stage of and after its
update, one that has failed and one that applies again what it runs, and time makes
them late or overdue; the budget of one leaves a node that waits for its turn. In `MCDrain` the timeout is 6 ticks and the interval 8, so that the interval must
be capped; `Horizon` looks at the 10 ticks after the timeout, more than another
interval, and the run then stops, which is why it does not check for deadlock. The six configs of `MCHost` hold every state of a file and of a
unit, a config that cannot be applied, and entries with and without a reboot; two
failures cut two applies in a row short.

### Fairness

`WF(Controller)`: `ProcessNodeUpdate` asks for a requeue in every case but after
the uncordon, whose write to the node wakes the reconciler through
`mapNodeToPool`. `WF(DebounceElapses)`, `WF(IntervalElapses)`: time passes.
`WF(AgentStep)`, `WF(AgentRuns)`, `WF(Heartbeat)`: the agent runs, its watch is
opened again when it closes, and kubelet's status updates are events.
`WF(HostReboots)`: a reboot that systemd has accepted takes place.
`SF(DrainSucceeds)`: a drain that is tried again and again evicts everything some
time; this is about the cluster's disruption budgets, not about the code, and
without it a pool waits in `DrainStuck`, as documented. Nothing is assumed about
failures, admins or configuration changes.

`Rendering`: `WF(Pass)`, since a failed pass is queued again with backoff and the pool
owns its RMCs; `WF(SyncCache)`, `WF(NodeFetches)` and `WF(NodeReports)`: the informer catches up,
the agent does its work; `SF` of the node being given the target: that is what
`RolloutCompletes` shows of `PoolRollout`. `PoolStatus` does not assume that passes come,
but shows it: only that the work queue is served, that passes end and that timers
expire. Heartbeats of nodes, minutes apart, are not counted on.

## Theorems

All hold for every set of nodes (finite where sets of them are counted), every order,
`maxUnavailable`, history limit, set of revisions, files and units, every timeout and
interval, and every bound, unless an assumption is named. The assumptions are formulas
over the constants, mostly that something is not in `Env`. `MCUpdates` and `MCHost` are
instances of those about updates and the host, `MCAgent` of `Immediate`, and with every pair
in `DiffRequires` (where it passes too) of `EveryChangeReboots`; `MCBudget` is one of
`Calm`. Where a configuration listed above shows an assumption to be
needed, it is named. That nobody uncordons a node or adds one excludes updates without a
drain, the second of which the code makes on purpose (`SkipCordon`). That lists are up to
date is needed wherever configs change: with `"cacheLag"` added to the `Env` of `MCUpdates`,
TLC refutes `DesiredRMCExists`, `UpdatesDrained`, `NotStranded` and, as a property,
`DesiredNeedsCordon`. A config change while the cache does not show the last writes of
the pass before is enough: cleanup does not see the revision that a node has just been given
and deletes it, and its agent then reports an error; a node that has just been released is
still listed as cordoned and is given the next revision while it takes pods. The
three theorems on one rollout below do without the assumption.

### The pool

- `TypeCorrect`: `Spec => []TypeOK`, and with it that the budget is at least one for every
  `maxUnavailable`, zero and less included, and for a pool without nodes (`BudgetOf`).
- `BudgetKept`: `Spec => []CordonBudget` during one rollout (`Calm`: no change of
  configs, pool membership or overlap, no admin), with lists of any age, API errors,
  restarts of controller and agents, failing fetches, applies and patches and reboots in any
  number.
  `CordonBudget` alone is not inductive: a pass that has listed a node will cordon it
  later, and as long as the cache stays old the next passes select once more from what it
  shows. The argument of `CalmInv` has three parts. All revisions in play are one
  (`OneTarget`), so an agent that applies again takes no slot of its own. An old copy
  still says something true (`CopiesTrue`): a node shown as updated is updated, one shown
  as cordoned is cordoned until its update is over, and one shown as behind is behind
  or still cordoned. And a slot is held by what is cordoned and by what has been or can be selected, with
  all that comes before it in the rollout order (`Slots`). `SortNodesForUpdate` orders the
  nodes by zone, age and name, which are constants here, so a selection is always a beginning of
  one order (`FirstOnes`, `BeforeIsOrder`) and selections from different copies contain
  one another (`SelectionsNest`): they do not add up. `SelectionFits` says that one selection
  and what is unavailable fit in the budget. `MCChangeBudget` shows that the assumption
  on config changes cannot be dropped.
- `RolloutUpdatesDrained`, `RolloutDesiredCordoned`: `Spec => []UpdatesDrained` and
  `Spec => DesiredNeedsCordon` under `Calm`, again with lists of any age. `EmptiedInv` adds to
  `CalmInv` that a node asked to update is free of pods until it has, and that what is
  cordoned takes none.
- `DesiredKept`: `Spec => []DesiredRMCExists` with lists that are up to date and
  no node that leaves. The invariant `KeptInv` adds that between the second list
  and the cleanup the set in use covers what every node was given, and that the
  target of a pass exists. `MCLeave` shows that the second assumption is needed.
- `DesiredCordoned`: `Spec => DesiredNeedsCordon` with lists that are up to date.
  The invariant `CopyInv` says which facts of a listed copy are still true when it
  is used: cordoned stays cordoned, because only the worker itself uncordons,
  and a new node has not been marked.
- `UpdatesOnDrained`: `Spec => []UpdatesDrained` if configs only move forward
  (`Forward`: no revert, no pool without configs, lists up to date) and nobody uncordons a
  node or adds one (`Undisturbed`). The work of an agent can be older than what its node
  is asked for. `OrderInv` orders them: current, work, backlog, desired and the target of
  a pass never decrease along this list. What an agent works on and what its node does
  not run yet is therefore not what the node was uncordoned for, and `DrainedInv` says that
  a node that is asked for something new is cordoned and empty. `MCRevertDrained` is
  the case without the order.
- `NoneStranded`: `Spec => []NotStranded` if configs move forward, agents do not
  restart, nothing fails while an agent handles a second time what its node already runs, and
  no node leaves (`Steady`; `MCRestart` and `MCReapplyError` are cases without). Fetches,
  applies and patches of a revision that is new to the node may fail, because the node is
  then still asked for it and its next event makes the agent try again. The invariant `SettledInv`
  drops "cordoned" from the property and adds that the host is up; it needs the
  order again, and `KeptInv`, since an agent whose config is gone reports an error.

### The agent and its contract

- `AgentTypes`: `Spec => []TypeOK`, and with it that the watch is bounded.
- `ReportsApplied`: `Spec => ReportsWhatItApplied` if the policy never puts a reboot off
  (`Immediate`). Two steps report: the end of an apply, whose config is on the host, and
  startup after a reboot that was pending, which reports what the node is asked for then.
  `ReportInv` says that the second never happens, because no reboot is ever
  pending; with a pending one `MCAgentPending` shows the property to be false.
- `RebootsBeforeDone`: `Spec => RebootBeforeDone` if every change requires a reboot,
  none is hidden from the apply, the reboot command works and the agent stops only with its host
  (`EveryChangeReboots`). The difficulty is the agent that goes on reading events while
  its host goes down, on copies made before the reboot was ordered. `OwedInv` says
  that a config that waits for its reboot is the one worked on or the one remembered in
  `pendingRebootRevision`, which is not applied again; an event that asks for anything else
  changes the host and so asks for a reboot of its own. After an apply that failed
  half-way `owed` is `"unknown"` and nothing is claimed until a reboot. `MCAgentCrash`, `MCAgentOwner`
  and `MCAgentRemoved` are cases without. The assumption that
  all changes require a reboot is there because the decision compares with the
  `current` of the event, which can be older than the host: `MCAgent` passes with one pair in
  `DiffRequires`, but with three revisions and only some of their pairs TLC finds
  a reboot that is left out.
- `AgentKeepsContract`: `Spec => KeepsContract`, without assumptions: the detailed
  agent implements `AgentContract`. Every action is mapped to a step of the contract: reading
  an event moves the positions up by one, a restart by all but the last, and every patch leaves
  them alone but for repetitions of the last one (`Grows`). That a full watch may
  drop its last event when such a patch comes is sound only because that event
  asks for the same as the patch does; `ContractInv` therefore says that a watch that has
  events ends with what the node asks for now.
- `PoolKeepsContract`: `Spec => AgentsKeepContract`, without assumptions: so do the agents
  of `PoolRollout`, each for itself. `ProtocolInv` says that an agent works on
  something exactly while it is fetching or applying, and that its backlog is empty when
  it takes an event.

The two together are why the theorems about the pool, proved for the agents of `PoolRollout`,
speak of agents with the freedom of the real one as far as annotations go.

### Host, rendering, status and drain

- `HostTypes`: `Spec => []TypeOK`. `UnitsAfterFiles`: `Spec => StartedWithFiles`, without
  assumptions: the files that the apply has passed are in place (`FilesInv`).
- `DoneIsApplied`: `Spec => []DoneMeansApplied` if systemd does as it is told (`Obedient`)
  and no config asks for a unit state that a reboot undoes (`Lasting`). `AppliedInv` says which
  settings of which unit are done at each step of an apply: a later step must not undo an
  earlier one, and a masked unit can be neither started nor enabled.
- `RebootsWhenNeeded`: `Spec => []RebootWhenNeeded` under the same assumptions, the apply
  that follows a reboot included: what the apply changes is what the diff of the two configs finds (`SharedDone`: entries
  that both configs have are in place and are not changed).
- `RenderingTypes`: `Spec => []TypeOK`, and with it that `CheckExistingRMC` never runs out of
  names: finitely many are taken (`FreeName`).
- `MergeHoldsWinners`: `Spec => []MergeIsWinners`: merging any number of MachineConfigs one after
  the other gives every path and unit to the config that wins it. `Merge` is a fold over a
  set. Induction over data is out of the prover's reach, so the proof is by the least
  counterexample: the winners solve the fold's equation, which therefore has a solution
  (`CHOOSE` picks one), and a set of configs of the least size on which a solution differs
  from the winners cannot exist, because without its last config the two agree and that
  config overwrites the same entries in both (`WinnersWithLast`, `MergeWinners`).
- `CurrentIsApplied`: `Spec => []CurrentMeansApplied` if the nodes are listed as they are
  (`"nodes" \notin Lags`; TLC refutes it otherwise), without assumptions on hashes or on the
  age of the cache of RMCs. A revision is fetched, applied and reported in separate steps, and
  `NodeInv` says that in between it is stored under its name with its content as long as it
  is `held`. It is kept since no step gives a name another content (`EnsureKeeps`: a `Create` is
  refused for a name that is taken, and an update changes the policy only) and since a
  held revision is the one that the node is asked for, which a cleanup under way
  counts as in use.
- `StatusTypes`: `Spec => []TypeOK`; `TimesOfTransitions`: `Spec => TransitionTimesKept`. The second
  needs no invariant but the types: each way out of a pass is a chain of merges, and the
  lemmas follow a condition through it.
- `DrainTypes`, `NeverStuckEarly`, `AlwaysStuckInTime`: `TypeOK`, `StuckNotEarly` and
  `StuckInTime` of `DrainRetry`. `DrainInv` contains `Clocks` (the time since the drain
  began and the age of `drain-started-at` differ by at most the tick in which an old copy
  can write it again) and `PassInTime`: as long as a drain is not reported, a pass is on its way that comes no
  later than the timeout, by timer or by event. That a report does not outlive the pods needs
  `Clearing` and `ClearInTime`: once the last pod has left, a pass comes within the retry
  interval. The cap of the interval by the rest of the
  timeout is what keeps it true.

### What the proofs showed

- `RebootWhenNeeded` was false in an earlier form that the instance of the time did not
  contradict: an apply that is cut short, followed by an unplanned reboot, left a host on which
  part of the new config was in place without counting as a change. `interrupted` now
  outlives such a reboot, and a unit that is merely restarted is no change.
- `AgentContract` first removed repetitions from what is asked for. Positions made
  the same contract provable, and stricter: a request that has been passed cannot come
  back even if its revision is asked for again later.
- After the reboot that an apply has asked for, the host has all of its config, but the node
  may be asked for another one by then. That the config it still reports as current is not the
  one on the host breaks `RebootWhenNeeded` as an apply that is cut short does.
- `PoolStatus` needs finitely many nodes, since its counts are cardinalities.
- The budget holds with old lists because the rollout order is fixed. With an order that
  depends on anything that changes during a rollout, two passes over one old
  cache could select different nodes and cordon both selections.
- From an old copy `DrainNode` can write `drain-started-at` on a node that is already
  released. It counts as unavailable then: the budget gets stricter, never looser.
- That lists are up to date had been assumed for convenience in the theorems about config
  changes. It is needed, as said above.

### Only model-checked

- The liveness properties (`RolloutCompletes`, `Converges`, `RenderSettles`,
  `StatusSettles`): fairness and `ENABLED` are out of TLAPS's reach here.

Every invariant and every action property that a passing run checks is stated by a
theorem, under the assumptions given there.

## Not modelled

Events, metrics, wiring and generated code have no state the properties see.
`NodeAnnotator`, `CleanupOrphanedRMCs`, the validator, `Render`, `HandleCollision`,
`ToCanonicalJSON`, `DryRun` and the `ApplyAll` functions are not called by the program.
The agent's RMC cache serves only the current RMC of a reboot decision, of which
nothing that is read ever changes. How labels match selectors, the opening of the D-Bus
connection, and hosts without systemd are left out.

## Open

- `RebootBeforeDone` where only some changes require a reboot. It is false in general
  with three revisions (see `RebootsBeforeDone`); a form that holds would have to relate
  the `current` of a queued event to what was on the host when it was made.
- The budget over several config changes. It is false with the second apply of a
  finished node (`MCChangeBudget`); without that apply it is neither checked nor proved.
- The liveness properties on larger instances than those of the runs.
