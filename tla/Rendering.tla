------------------------------ MODULE Rendering ------------------------------
(***************************************************************************)
(* How the MachineConfigs of a pool become a RenderedMachineConfig: the    *)
(* merge by priority, the hash that names the result, and ensureRMC, which *)
(* looks for the name in the controller's cache and creates what it does   *)
(* not find.  The node and the cleanup of old revisions are here because   *)
(* they keep names in use and free them.                                   *)
(*                                                                         *)
(* A file and a unit are both an entry: something with a key (the path or  *)
(* the unit name) and a content.  The name of a rendered config is a pair  *)
(* of the short hash and the suffix that resolves collisions, 0 for none.  *)
(***************************************************************************)
EXTENDS Naturals, FiniteSetsExt, Folds, Functions

CONSTANTS
    Names,                 \* names of MachineConfigs, as numbers in their order
    Templates,             \* what a MachineConfig can say
    Short(_),              \* the first ten characters of a hash
    Strategies,            \* values of the pool's spec.reboot
    MaxCollisionRetries,   \* suffixes ensureRMC tries
    Lags,                  \* of what the controller's cache may be old: "rmcs", "nodes"
    MaxChanges             \* bound: changes of the configs and of the strategy

Keys == UNION {DOMAIN t.entries : t \in Templates}
Contents == UNION {Range(t.entries) : t \in Templates}

ASSUME RenderingAssumption ==
    /\ Names \subseteq Nat
    /\ \A t \in Templates : t.prio \in Nat /\ t.reboot \in BOOLEAN
    /\ MaxCollisionRetries \in Nat \ {0}
    /\ Lags \subseteq {"rmcs", "nodes"}
    /\ MaxChanges \in Nat

VARIABLES
    mcs,        \* the MachineConfigs the pool selects, by name
    strategy,   \* the pool's spec.reboot
    rmcs,       \* RenderedMachineConfigs in the API server, by name
    cache,      \* the controller's informer copies of them and of the node
    pc,         \* where Reconcile is
    want,       \* what BuildRMC has built in this pass
    target,     \* the name this pass creates or uses
    status,     \* the pool's status: target revision, and if rendering failed
    inUse,      \* names this pass's cleanup must keep
    node,       \* a node: what it is asked for, what its agent works on, what it runs
    changes     \* bound: changes so far

passVars == <<pc, want, target, status, inUse>>
renderVars == <<mcs, strategy, rmcs, cache, passVars, node, changes>>

NoName == <<>>
NoEntries == [k \in {} |-> NoName]
NoMerge == [entries |-> NoEntries, requires |-> NoEntries, reboot |-> FALSE]

\* f with v for x, whether f had an x or not.
Put(f, x, v) == [y \in DOMAIN f \cup {x} |-> IF y = x THEN v ELSE f[y]]

(***************************************************************************)
(* merge.go and hash.go.                                                   *)
(***************************************************************************)

\* Mutant: the configs are sorted by falling priority.
lastByPriorityDescending(cfgs, S) ==
    CHOOSE n \in S : \A m \in S : \/ cfgs[m].prio > cfgs[n].prio
                                  \/ cfgs[m].prio = cfgs[n].prio /\ m <= n

\* The config that sortByPriority puts last.
lastByPriority(cfgs, S) ==
    CHOOSE n \in S : \A m \in S : \/ cfgs[m].prio < cfgs[n].prio
                                  \/ cfgs[m].prio = cfgs[n].prio /\ m <= n

\* The map old, with what new says for the keys of new.
Overwrite(old, new) ==
    [k \in DOMAIN old \cup DOMAIN new |-> IF k \in DOMAIN new THEN new[k] ELSE old[k]]

\* An entry overwrites the one with its key, whose reboot requirement goes with it.
MergeOne(m, cfg) ==
    [entries  |-> Overwrite(m.entries, cfg.entries),
     requires |-> Overwrite(m.requires, [k \in DOMAIN cfg.entries |-> cfg.reboot]),
     reboot   |-> m.reboot \/ cfg.reboot]

\* The sorted configs are merged one after the other, the last one over the merge
\* of all the others.
Merge(cfgs) ==
    MapThenFoldSet(LAMBDA n, m : MergeOne(m, cfgs[n]), NoMerge, LAMBDA n : n,
                   LAMBDA S : lastByPriority(cfgs, S), DOMAIN cfgs)

\* Neither the sources nor the reboot requirements of single entries are hashed.
ComputeHash(m) == [entries |-> m.entries, reboot |-> m.reboot]

(***************************************************************************)
(* render.go and ensureRMC.                                                *)
(***************************************************************************)

BuildRMC(m, s) ==
    [hash |-> ComputeHash(m), required |-> m.reboot, requires |-> m.requires, strategy |-> s]

RMCName(rmc) == <<Short(rmc.hash), 0>>

\* Mutant: the suffixes are counted from the last one.
SuffixedFromLast(rmc, i) == <<Short(rmc.hash), i + MaxCollisionRetries>>

Suffixed(rmc, i) == <<Short(rmc.hash), i>>

Has(c, name, rmc) == name \in DOMAIN c /\ c[name].hash = rmc.hash

\* What the cache c says of the name: the config is there ("same"), or under a
\* suffix ("suffixed"); a name is free for it; or every suffix is taken.
Lookup(rmc, c) ==
    LET usable == {i \in 1..MaxCollisionRetries :
                      Suffixed(rmc, i) \notin DOMAIN c \/ Has(c, Suffixed(rmc, i), rmc)}
    IN  IF RMCName(rmc) \notin DOMAIN c
        THEN [found |-> "free", name |-> RMCName(rmc)]
        ELSE IF Has(c, RMCName(rmc), rmc)
        THEN [found |-> "same", name |-> RMCName(rmc)]
        ELSE IF usable = {}
        THEN [found |-> "exhausted", name |-> NoName]
        ELSE LET first == Suffixed(rmc, Min(usable))
             IN  [found |-> IF first \in DOMAIN c THEN "suffixed" ELSE "free", name |-> first]

\* A config on a node: the name it was fetched by, its hash, and if the node was
\* asked for it all the time from the fetch to the report.
Nothing == [name |-> NoName, hash |-> ComputeHash(NoMerge), held |-> TRUE]

FreshNode == [desired |-> NoName, work |-> Nothing, run |-> Nothing]

Init ==
    /\ mcs = [n \in {} |-> NoMerge]
    /\ strategy \in Strategies
    /\ rmcs = NoEntries
    /\ cache = [rmcs |-> NoEntries, node |-> FreshNode]
    /\ pc = "idle"
    /\ want = NoMerge
    /\ target = NoName
    /\ status = [target |-> NoName, renderFailed |-> FALSE]
    /\ inUse = {}
    /\ node = FreshNode
    /\ changes = 0

\* The cached client reads what the informers have.
Cached == IF "rmcs" \in Lags THEN cache.rmcs ELSE rmcs

\* A pass reads the configs and the pool's spec and builds what it wants.
ReconcileRenders ==
    /\ pc = "idle" /\ mcs # NoEntries
    /\ want' = BuildRMC(Merge(mcs), strategy)
    /\ pc' = "ensure"
    /\ UNCHANGED <<mcs, strategy, rmcs, cache, target, status, inUse, node, changes>>

\* Without MachineConfigs a pass only resets the target in the status.
ReconcileNoConfigs ==
    /\ pc = "idle" /\ mcs = NoEntries
    /\ status' = [status EXCEPT !.target = NoName]
    /\ UNCHANGED <<mcs, strategy, rmcs, cache, pc, want, target, inUse, node, changes>>

Rendered(name) ==
    /\ target' = name
    /\ pc' = "rendered"

\* Degraded=True with reason RenderFailed; the pass is tried again.
RenderFails ==
    /\ status' = [status EXCEPT !.renderFailed = TRUE]
    /\ pc' = "idle" /\ want' = NoMerge /\ target' = NoName
    /\ UNCHANGED <<mcs, strategy, rmcs, cache, inUse, node, changes>>

\* The update of an object that the API server has in another version fails.
Updatable(name) == name \in DOMAIN rmcs /\ rmcs[name] = Cached[name]

\* Mutant: a rendered config is never updated.
UseExistingAsIs ==
    /\ pc = "ensure"
    /\ LET l == Lookup(want, Cached) IN
          /\ l.found = "same"
          /\ Rendered(l.name)
    /\ UNCHANGED <<mcs, strategy, rmcs, cache, want, status, inUse, node, changes>>

\* The config exists; only a change of the strategy is written to it.
UseExisting ==
    /\ pc = "ensure"
    /\ LET l == Lookup(want, Cached) IN
          /\ l.found = "same"
          /\ IF Cached[l.name].strategy = want.strategy
             THEN UNCHANGED rmcs
             ELSE /\ Updatable(l.name)
                  /\ rmcs' = [rmcs EXCEPT ![l.name].strategy = want.strategy,
                                          ![l.name].required = want.required]
          /\ Rendered(l.name)
    /\ UNCHANGED <<mcs, strategy, cache, want, status, inUse, node, changes>>

\* The config exists under a suffix: it is used as it is.
UseSuffixed ==
    /\ pc = "ensure"
    /\ LET l == Lookup(want, Cached) IN l.found = "suffixed" /\ Rendered(l.name)
    /\ UNCHANGED <<mcs, strategy, rmcs, cache, want, status, inUse, node, changes>>

\* The update of the strategy is refused, or no suffix is left.
EnsureFails ==
    /\ pc = "ensure"
    /\ LET l == Lookup(want, Cached) IN
          IF l.found = "same"
          THEN Cached[l.name].strategy # want.strategy /\ ~Updatable(l.name)
          ELSE l.found = "exhausted"
    /\ RenderFails

\* Create, which the API server refuses if the name is taken after all.
CreateRMC ==
    /\ pc = "ensure"
    /\ LET l == Lookup(want, Cached) IN
          /\ l.found = "free"
          /\ IF l.name \in DOMAIN rmcs
             THEN pc' = "alreadyExists" /\ target' = l.name /\ UNCHANGED rmcs
             ELSE rmcs' = Put(rmcs, l.name, want) /\ Rendered(l.name)
    /\ UNCHANGED <<mcs, strategy, cache, want, status, inUse, node, changes>>

\* Whatever has the name by now is used; its hash is not looked at.
UseWhatExists ==
    /\ pc = "alreadyExists" /\ target \in DOMAIN Cached
    /\ pc' = "rendered"
    /\ UNCHANGED <<mcs, strategy, rmcs, cache, want, target, status, inUse, node, changes>>

\* The cache does not have it yet.
GetFails == pc = "alreadyExists" /\ target \notin DOMAIN Cached /\ RenderFails

\* Mutant: what the node runs is not in use.
getRevisionsAsked(nd) == {target, nd.desired}

getRevisionsInUse(nd) == {target, nd.desired, nd.run.name}

\* desired-revision, which overtakes the agent if that works on another one.
Asked(nd, d) ==
    [nd EXCEPT !.desired = d,
               !.work.held = @ /\ (nd.work.name = NoName \/ nd.work.name = d)]

\* The nodes' turn: the node is told to run the target, or not yet.  Then they are
\* listed again, for the status and for the cleanup.
AskNode ==
    /\ pc = "rendered"
    /\ \E d \in {node.desired, target} : node' = Asked(node, d)
    /\ status' = [target |-> target, renderFailed |-> FALSE]
    /\ inUse' = getRevisionsInUse(IF "nodes" \in Lags THEN cache.node ELSE node')
    /\ pc' = "cleanup"
    /\ UNCHANGED <<mcs, strategy, rmcs, cache, want, target, changes>>

\* CleanupOldRMCs deletes some of the configs that it lists and that are not in
\* use.  Which ones is PoolRollout's matter.
CleanupOldRMCs ==
    /\ pc = "cleanup"
    /\ \E old \in SUBSET (DOMAIN Cached \ inUse) :
          rmcs' = Restrict(rmcs, DOMAIN rmcs \ old)
    /\ pc' = "idle" /\ want' = NoMerge /\ target' = NoName /\ inUse' = {}
    /\ UNCHANGED <<mcs, strategy, cache, status, node, changes>>

\* One informer or both catch up.
SyncCache ==
    /\ \E c \in IF "rmcs" \in Lags THEN {cache.rmcs, rmcs} ELSE {cache.rmcs} :
       \E nd \in IF "nodes" \in Lags THEN {cache.node, node} ELSE {cache.node} :
          cache' = [rmcs |-> c, node |-> nd]
    /\ cache' # cache
    /\ UNCHANGED <<mcs, strategy, rmcs, passVars, node, changes>>

(***************************************************************************)
(* The node and the users.                                                 *)
(***************************************************************************)

\* The agent fetches the config it is asked for.
NodeFetches ==
    /\ node.work = Nothing
    /\ node.desired # node.run.name /\ node.desired \in DOMAIN rmcs
    /\ node' = [node EXCEPT !.work = [name |-> node.desired, held |-> TRUE,
                                      hash |-> rmcs[node.desired].hash]]
    /\ UNCHANGED <<mcs, strategy, rmcs, cache, passVars, changes>>

\* Minutes later it has applied it, and reports it by the name it had then.
NodeReports ==
    /\ node.work # Nothing
    /\ node' = [node EXCEPT !.run = node.work, !.work = Nothing]
    /\ UNCHANGED <<mcs, strategy, rmcs, cache, passVars, changes>>

Change == changes < MaxChanges /\ changes' = changes + 1

UserAppliesConfig(n, t) ==
    /\ Change
    /\ mcs' = Put(mcs, n, t)
    /\ mcs' # mcs
    /\ UNCHANGED <<strategy, rmcs, cache, passVars, node>>

UserDeletesConfig(n) ==
    /\ n \in DOMAIN mcs /\ Change
    /\ mcs' = Restrict(mcs, DOMAIN mcs \ {n})
    /\ UNCHANGED <<strategy, rmcs, cache, passVars, node>>

UserSetsStrategy(s) ==
    /\ s # strategy /\ Change
    /\ strategy' = s
    /\ UNCHANGED <<mcs, rmcs, cache, passVars, node>>

Pass ==
    \/ ReconcileRenders \/ ReconcileNoConfigs \/ UseExisting \/ UseSuffixed \/ EnsureFails
    \/ CreateRMC \/ UseWhatExists \/ GetFails \/ AskNode \/ CleanupOldRMCs

User ==
    \/ \E n \in Names : UserDeletesConfig(n) \/ \E t \in Templates : UserAppliesConfig(n, t)
    \/ \E s \in Strategies : UserSetsStrategy(s)

Next == Pass \/ SyncCache \/ NodeFetches \/ NodeReports \/ User

Spec == Init /\ [][Next]_renderVars

\* A failed pass is repeated with backoff, and the pool owns its rendered configs,
\* so what happens to one of them starts another pass; the informer catches up; a
\* node gets its turn in the end, and its agent does what it is asked for.
FairSpec ==
    /\ Spec
    /\ WF_renderVars(Pass) /\ WF_renderVars(SyncCache)
    /\ WF_renderVars(NodeFetches) /\ WF_renderVars(NodeReports)
    /\ SF_renderVars(AskNode /\ node'.desired = target)

(***************************************************************************)
(* Properties.                                                             *)
(***************************************************************************)

Hashes == [entries : UNION {[K -> Contents] : K \in SUBSET Keys}, reboot : BOOLEAN]

TypeOK ==
    /\ DOMAIN mcs \subseteq Names /\ Range(mcs) \subseteq Templates
    /\ strategy \in Strategies
    /\ \A c \in {rmcs, cache.rmcs} : \A name \in DOMAIN c :
          /\ c[name].hash \in Hashes
          /\ c[name].strategy \in Strategies
          /\ name[1] = Short(c[name].hash) /\ name[2] \in 0..MaxCollisionRetries
    /\ pc \in {"idle", "ensure", "alreadyExists", "rendered", "cleanup"}
    /\ \A nd \in {node, cache.node} : nd.work.hash \in Hashes /\ nd.run.hash \in Hashes
    /\ changes \in 0..MaxChanges

\* "with higher priority winning": every entry of the merge comes from the config
\* that has it and comes last by priority and, in a tie, by name; so does its
\* reboot requirement.
MergeIsWinners ==
    LET having(k) == {n \in DOMAIN mcs : k \in DOMAIN mcs[n].entries}
        winner(k) == CHOOSE n \in having(k) : \A m \in having(k) :
                        \/ mcs[m].prio < mcs[n].prio
                        \/ mcs[m].prio = mcs[n].prio /\ m <= n
        keys      == {k \in Keys : having(k) # {}}
    IN  Merge(mcs) = [entries  |-> [k \in keys |-> mcs[winner(k)].entries[k]],
                      requires |-> [k \in keys |-> mcs[winner(k)].reboot],
                      reboot   |-> \E n \in DOMAIN mcs : mcs[n].reboot]

\* The revision a node reports as current exists for as long as the node reports
\* it, and means what the node has on its disk: the agent can tell what changes
\* from it to the next one.  Only a revision that was taken back while the agent
\* still worked on it may be gone when it is reported.
CurrentMeansApplied ==
    node.run.name # NoName /\ node.run.held => Has(rmcs, node.run.name, node.run)

\* Collisions, old caches and failed passes do not last: in the end the pool's
\* target is a rendered config that exists and holds what its MachineConfigs
\* merge to, with the strategy of the pool unless it has a suffix, no render
\* error is reported, and the node runs what has this name; it is what the configs
\* merge to unless the name was taken back before the node reported it.
RenderSettles ==
    <>[](mcs # NoEntries =>
            /\ Has(rmcs, status.target, [hash |-> ComputeHash(Merge(mcs))])
            /\ status.target[2] = 0 => rmcs[status.target].strategy = strategy
            /\ ~status.renderFailed
            /\ node.run.name = status.target
            /\ node.run.held => node.run.hash = ComputeHash(Merge(mcs)))

\* "For each file, this indicates whether the winning MachineConfig (the one that
\* contributed this file) has reboot.required=true": so does the rendered config
\* that a pass settles on.
RequirementsOfWinners ==
    pc = "rendered" => rmcs[target].requires = want.requires

\* The rendered config a pass settles on has the pool's reboot strategy.
StrategyOfPool ==
    pc = "rendered" => rmcs[target].strategy = want.strategy
=============================================================================
