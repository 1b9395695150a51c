-------------------------- MODULE PoolRolloutProofs --------------------------
(***************************************************************************)
(* Theorems about PoolRollout, for every cluster, pool and environment the *)
(* constants describe.                                                     *)
(***************************************************************************)
EXTENDS PoolRollout, TLAPS, FiniteSetTheorems

(***************************************************************************)
(* The selections of a pass.                                               *)
(***************************************************************************)

\* A pass works only on nodes of the pool.
LEMMA SelectionOfPool ==
  ASSUME NEW info, NEW all, NEW r
  PROVE  NodesToProcess(info, all, r) \subseteq all
BY DEF NodesToProcess, collectNodesInProgress, SelectNodesForUpdate, FirstInOrder, NeedsUpdate

(***************************************************************************)
(* What each write to a node changes, and that it leaves a Node object.    *)
(***************************************************************************)

LEMMA CordonWrites ==
  ASSUME NEW nd \in NodeInfo
  PROVE  /\ Cordon(nd) \in NodeInfo
         /\ Cordon(nd).unsched /\ Cordon(nd).cordoned
         /\ Cordon(nd).current = nd.current /\ Cordon(nd).desired = nd.desired
         /\ Cordon(nd).state = nd.state /\ Cordon(nd).paused = nd.paused
         /\ Cordon(nd).pool = nd.pool /\ Cordon(nd).drainAt = nd.drainAt
BY DEF Cordon, NodeInfo

LEMMA UncordonWrites ==
  ASSUME NEW nd \in NodeInfo
  PROVE  /\ Uncordon(nd) \in NodeInfo
         /\ Uncordon(nd).current = nd.current /\ Uncordon(nd).desired = nd.desired
         /\ Uncordon(nd).state = nd.state /\ Uncordon(nd).paused = nd.paused
         /\ Uncordon(nd).pool = nd.pool
BY DEF Uncordon, NodeInfo

LEMMA StartDrainWrites ==
  ASSUME NEW nd \in NodeInfo, NEW listed
  PROVE  /\ StartDrain(nd, listed) \in NodeInfo
         /\ StartDrain(nd, listed).current = nd.current
         /\ StartDrain(nd, listed).desired = nd.desired
         /\ StartDrain(nd, listed).state = nd.state
         /\ StartDrain(nd, listed).paused = nd.paused
         /\ StartDrain(nd, listed).pool = nd.pool
         /\ StartDrain(nd, listed).unsched = nd.unsched
         /\ StartDrain(nd, listed).cordoned = nd.cordoned
BY DEF StartDrain, NodeInfo

LEMMA SetDesiredWrites ==
  ASSUME NEW nd \in NodeInfo, NEW r \in AnyRev, NEW p \in BOOLEAN
  PROVE  /\ SetDesired(nd, r, p) \in NodeInfo
         /\ SetDesired(nd, r, p).desired = r
         /\ SetDesired(nd, r, p).current = nd.current
         /\ SetDesired(nd, r, p).state = nd.state
         /\ SetDesired(nd, r, p).paused = nd.paused
         /\ SetDesired(nd, r, p).unsched = nd.unsched
         /\ SetDesired(nd, r, p).cordoned = nd.cordoned
         /\ SetDesired(nd, r, p).drainAt = nd.drainAt
BY DEF SetDesired, NodeInfo

LEMMA SetStateWrites ==
  ASSUME NEW nd \in NodeInfo, NEW s \in AgentStates
  PROVE  /\ SetState(nd, s) \in NodeInfo
         /\ SetState(nd, s).state = s
         /\ SetState(nd, s).current = nd.current /\ SetState(nd, s).desired = nd.desired
         /\ SetState(nd, s).paused = nd.paused /\ SetState(nd, s).pool = nd.pool
         /\ SetState(nd, s).unsched = nd.unsched
         /\ SetState(nd, s).cordoned = nd.cordoned
         /\ SetState(nd, s).drainAt = nd.drainAt
BY DEF SetState, NodeInfo

LEMMA SetDoneWrites ==
  ASSUME NEW nd \in NodeInfo, NEW r \in AnyRev
  PROVE  /\ SetDone(nd, r) \in NodeInfo
         /\ SetDone(nd, r).state = "done" /\ SetDone(nd, r).current = r
         /\ SetDone(nd, r).desired = nd.desired /\ SetDone(nd, r).paused = nd.paused
         /\ SetDone(nd, r).unsched = nd.unsched /\ SetDone(nd, r).pool = nd.pool
         /\ SetDone(nd, r).cordoned = nd.cordoned
         /\ SetDone(nd, r).drainAt = nd.drainAt
BY DEF SetDone, NodeInfo, AgentStates

(***************************************************************************)
(* Type correctness.                                                       *)
(***************************************************************************)

\* Counts of pods are natural numbers, whatever their bound.
LEMMA PodCounts ==
  ASSUME NEW P, P \subseteq Nat, NEW f \in [Nodes -> [run : P, term : {0}]]
  PROVE  f \in [Nodes -> [run : Nat, term : Nat]]
<1>1. ASSUME NEW p \in [run : P, term : {0}] PROVE p \in [run : Nat, term : Nat]
  <2>1. p.run \in P /\ p.term = 0 /\ p = [run |-> p.run, term |-> p.term]
    BY <1>1
  <2>2. p.run \in Nat
    BY <2>1, Zenon
  <2>3. p.term \in Nat
    BY <2>1, SMT
  <2> QED
    BY <2>1, <2>2, <2>3, Zenon
<1> QED
  BY <1>1

LEMMA InitTypeOK == Init => StateTypes
<1> SUFFICES ASSUME Init PROVE StateTypes
  OBVIOUS
<1> USE RevisionsAssumption, RolloutAssumption, PoolRolloutAssumption
<1>1. FreshNode \in NodeInfo
  BY DEF FreshNode, NodeInfo, AnyRev, AgentStates
<1>2. AgentIn("down") \in AgentInfo
  BY DEF AgentIn, AgentInfo, AnyRev
<1>3. pods \in [Nodes -> [run : Nat, term : Nat]]
  <2> DEFINE P == UNION {0..MaxPods[n] : n \in Nodes}
  <2>1. P \subseteq Nat
    BY SMT
  <2>2. pods \in [Nodes -> [run : P, term : {0}]]
    BY Zenon DEF Init
  <2> HIDE DEF P
  <2> QED
    BY <2>1, <2>2, PodCounts
<1>4. Todo = {}
  BY DEF Init, Todo
<1> QED
  BY <1>1, <1>2, <1>3, <1>4 DEF Init, StateTypes, Todo, AnyRev

\* The nodes a pass still has to process remain nodes with listed copies.
LEMMA ProcessedType ==
  ASSUME StateTypes, NEW n, Processed(n)
  PROVE  Todo' \subseteq Nodes /\ view' \in [Todo' -> NodeInfo]
<1>1. view' = [m \in Todo \ {n} |-> view[m]]
  BY DEF Processed, Restrict
<1>2. Todo' = Todo \ {n}
  BY <1>1 DEF Todo
<1> QED
  BY <1>1, <1>2 DEF StateTypes

LEMMA SpendType ==
  ASSUME StateTypes, NEW kind \in {"changes", "admin", "faults"}, NEW max, Spend(kind, max)
  PROVE  spent' \in [changes : Nat, admin : Nat, faults : Nat]
BY DEF Spend, StateTypes

\* A step of ProcessNodeUpdate writes one Node object, or none.
LEMMA ProcessNodeType ==
  ASSUME StateTypes, NEW n \in Nodes, ProcessNodeUpdate(n) \/ ProcessFails(n)
  PROVE  node' \in [Nodes -> NodeInfo]
<1>1. node \in [Nodes -> NodeInfo] /\ node[n] \in NodeInfo /\ target \in AnyRev
  BY DEF StateTypes
<1>2. CASE SkipCordon(n) \/ SetDesiredRevision(n)
  <2>1. PICK p \in PoolWritten(n) : node' = [node EXCEPT ![n] = SetDesired(node[n], target, p)]
    BY <1>2 DEF SkipCordon, SetDesiredRevision
  <2>2. p \in BOOLEAN
    BY <1>1 DEF PoolWritten, NodeInfo
  <2> QED
    BY <1>1, <2>1, <2>2, SetDesiredWrites
<1>3. CASE CordonNode(n)
  BY <1>1, <1>3, CordonWrites DEF CordonNode
<1>4. CASE DrainNode(n)
  BY <1>1, <1>4, StartDrainWrites DEF DrainNode
<1>5. CASE UncordonNode(n)
  BY <1>1, <1>5, UncordonWrites DEF UncordonNode
<1>6. CASE WaitForAgent(n) \/ ProcessFails(n)
  BY <1>1, <1>6 DEF WaitForAgent, ProcessFails
<1> QED
  BY <1>2, <1>3, <1>4, <1>5, <1>6 DEF ProcessNodeUpdate

LEMMA ProcessPodsType ==
  ASSUME StateTypes, NEW n \in Nodes, ProcessNodeUpdate(n) \/ ProcessFails(n)
  PROVE  pods' \in [Nodes -> [run : Nat, term : Nat]]
<1>1. pods \in [Nodes -> [run : Nat, term : Nat]]
  BY DEF StateTypes
<1>2. CASE DrainNode(n)
  <2>1. PICK k \in 0..pods[n].run : pods' = [pods EXCEPT ![n] = Evict(pods[n], k)]
    BY <1>2 DEF DrainNode
  <2>2. Evict(pods[n], k) \in [run : Nat, term : Nat]
    BY <1>1, <2>1 DEF Evict
  <2> QED
    BY <1>1, <2>1, <2>2
<1>3. CASE ~DrainNode(n)
  BY <1>1, <1>3 DEF ProcessNodeUpdate, SkipCordon, CordonNode, SetDesiredRevision,
                    UncordonNode, WaitForAgent, ProcessFails
<1> QED
  BY <1>2, <1>3

\* The controller's steps.
LEMMA ControllerTypeOK ==
  ASSUME StateTypes, Controller \/ ControllerFaults \/ DebounceElapses
  PROVE  StateTypes'
<1> USE RevisionsAssumption DEF StateTypes, AnyRev
<1>1. CASE ReconcileEmpty
  BY <1>1 DEF ReconcileEmpty, poolVars, Todo
<1>2. CASE DebounceRestarts
  BY <1>2 DEF DebounceRestarts, poolVars, Todo
<1>3. CASE DebounceElapses
  BY <1>3 DEF DebounceElapses, poolVars, Todo
<1>4. CASE ReconcileStart
  <2>1. /\ config \in Revisions
        /\ Listed \in [Nodes -> NodeInfo]
        /\ \A all \in PassNodes : all \subseteq Nodes
    BY <1>4 DEF ReconcileStart, Listed, PassNodes, Managed
  <2>2. rmc' \in [Revisions -> Nat] /\ creations' \in Nat
    BY <1>4, <2>1 DEF ReconcileStart, ensureRMC
  <2> PICK all \in PassNodes : view' = Restrict(Listed, NodesToProcess(Listed, all, config))
    BY <1>4 DEF ReconcileStart
  <2> DEFINE S == NodesToProcess(Listed, all, config)
  <2>3. S \subseteq Nodes
    BY <2>1, SelectionOfPool
  <2>4. view' = [m \in S |-> Listed[m]]
    BY DEF Restrict
  <2> HIDE DEF S
  <2>5. Todo' = S
    BY <2>4 DEF Todo
  <2>6. view' \in [Todo' -> NodeInfo]
    BY <2>1, <2>3, <2>4, <2>5
  <2> QED
    BY <1>4, <2>1, <2>2, <2>3, <2>5, <2>6 DEF ReconcileStart, poolVars
<1>5. ASSUME NEW n \in Nodes, ProcessNodeUpdate(n) \/ ProcessFails(n)
      PROVE  StateTypes'
  <2>1. Processed(n)
    BY <1>5 DEF ProcessNodeUpdate, SkipCordon, CordonNode, DrainNode, SetDesiredRevision,
                UncordonNode, WaitForAgent, ProcessFails
  <2>2. Todo' \subseteq Nodes /\ view' \in [Todo' -> NodeInfo]
    BY <2>1, ProcessedType
  <2>3. node' \in [Nodes -> NodeInfo]
    BY <1>5, ProcessNodeType
  <2>4. pods' \in [Nodes -> [run : Nat, term : Nat]]
    BY <1>5, ProcessPodsType
  <2>5. spent' \in [changes : Nat, admin : Nat, faults : Nat]
    BY <1>5, SpendType DEF ProcessNodeUpdate, SkipCordon, CordonNode, DrainNode,
                SetDesiredRevision, UncordonNode, WaitForAgent, ProcessFails, Fault
  <2> QED
    BY <2>1, <2>2, <2>3, <2>4, <2>5 DEF Processed, poolVars
<1>6. CASE UpdateStatus
  <2>1. Listed \in [Nodes -> NodeInfo]
    BY DEF Listed
  <2>2. inUse' \subseteq AnyRev
    BY <1>6, <2>1 DEF UpdateStatus, getRevisionsInUse, NodeInfo
  <2>3. status' \in [target : AnyRev, lastOK : AnyRev]
    <3>1. PICK timedOut \in SUBSET {n \in members : Listed[n].state = "applying"} :
             status' = [target |-> target,
                        lastOK |-> IF Successful(Listed, timedOut)
                                   THEN target ELSE status.lastOK]
      BY <1>6 DEF UpdateStatus
    <3> QED
      BY <3>1
  <2>4. /\ pc' = "cleanup"
        /\ UNCHANGED <<node, cache, pods, poolVars, rmc, creations, debounce,
                       target, view, agent, spent>>
    BY <1>6 DEF UpdateStatus
  <2> QED
    BY <2>2, <2>3, <2>4 DEF poolVars, Todo
<1>7. CASE UpdateStatusFails
  BY <1>7, SpendType DEF UpdateStatusFails, Fault, poolVars, Todo, NoRev
<1>8. CASE CleanupOldRMCs
  <2>1. rmc' \in [Revisions -> Nat]
    BY <1>8 DEF CleanupOldRMCs
  <2> QED
    BY <1>8, <2>1 DEF CleanupOldRMCs, poolVars, Todo
<1>9. CASE ControllerRestart
  <2>1. view' = [m \in {} |-> view[m]]
    BY <1>9 DEF ControllerRestart, Restrict
  <2>2. Todo' = {} /\ view' \in [Todo' -> NodeInfo]
    BY <2>1 DEF Todo
  <2> QED
    BY <1>9, <2>2, SpendType DEF ControllerRestart, Fault, poolVars
<1>10. CASE SyncCache
  BY <1>10 DEF SyncCache, poolVars, ctlVars, Todo
<1> QED
  BY <1>1, <1>2, <1>3, <1>4, <1>5, <1>6, <1>7, <1>8, <1>9, <1>10
     DEF Controller, ControllerFaults

\* The agents' steps.
LEMMA AgentTypeOK ==
  ASSUME StateTypes, NEW n \in Nodes, AgentStep(n) \/ AgentFaults(n)
  PROVE  StateTypes'
<1> USE DEF AnyRev
<1>1. AgentOnly
  BY DEF AgentStep, AgentFaults, AgentTake, AgentTakeQueued, AgentApply, AgentFetchFails,
         AgentDone, AgentBoots, AgentFetchError, AgentApplyFails, AgentPatchLost,
         AgentReboots, AgentRestarts
<1>2. node' \in [Nodes -> NodeInfo] /\ agent' \in [Nodes -> AgentInfo]
  <2>1. /\ node \in [Nodes -> NodeInfo] /\ agent \in [Nodes -> AgentInfo]
        /\ node[n] \in NodeInfo /\ node[n].desired \in AnyRev
        /\ agent[n].work \in AnyRev /\ agent[n].backlog \in AnyRev
    BY DEF StateTypes, NodeInfo, AgentInfo
  <2>2. \A s \in {"idle", "applying", "error", "rebooting"} : SetState(node[n], s) \in NodeInfo
    BY <2>1, SetStateWrites DEF AgentStates
  <2> USE DEF AgentInfo
  <2>3. CASE AgentTake(n) \/ AgentTakeQueued(n)
    BY <2>1, <2>3 DEF AgentTake, AgentTakeQueued
  <2>4. CASE AgentApply(n)
    BY <2>1, <2>2, <2>4 DEF AgentApply
  <2>5. CASE AgentFetchFails(n) \/ AgentFetchError(n) \/ AgentApplyFails(n)
    BY <2>1, <2>2, <2>5
       DEF AgentFetchFails, AgentFetchError, AgentApplyFails, AgentGivesUp, AgentWaits
  <2>6. CASE AgentDone(n)
    BY <2>1, <2>6, SetDoneWrites DEF AgentDone, AgentWaits
  <2>7. CASE AgentReboots(n)
    BY <2>1, <2>2, <2>7 DEF AgentReboots, AgentIn
  <2>8. CASE AgentBoots(n) \/ AgentRestarts(n)
    BY <2>1, <2>2, <2>8 DEF AgentBoots, AgentRestarts, AgentStarts, AgentIn
  <2>9. CASE AgentPatchLost(n)
    BY <2>1, <2>9 DEF AgentPatchLost, AgentWaits, AgentIn
  <2> QED
    BY <2>3, <2>4, <2>5, <2>6, <2>7, <2>8, <2>9 DEF AgentStep, AgentFaults
<1>3. spent' \in [changes : Nat, admin : Nat, faults : Nat]
  BY SpendType DEF StateTypes, AgentStep, AgentFaults, AgentTake, AgentTakeQueued, AgentApply,
         AgentFetchFails, AgentDone, AgentBoots, AgentFetchError, AgentApplyFails,
         AgentPatchLost, AgentReboots, AgentRestarts, HandlingFails, Fault
<1> QED
  BY <1>1, <1>2, <1>3 DEF AgentOnly, StateTypes, Todo, poolVars, ctlVars

\* The environment's steps.
LEMMA EnvironmentTypeOK ==
  ASSUME StateTypes, Environment
  PROVE  StateTypes'
<1> USE DEF Todo, poolVars, ctlVars
<1>1. ASSUME NEW r \in AnyRev, ConfigChange(r) PROVE StateTypes'
  BY <1>1, SpendType DEF ConfigChange, StateTypes
<1>2. CASE AdminPausesPool
  BY <1>2, SpendType DEF AdminPausesPool, Admin, StateTypes
<1>3. ASSUME NEW n \in Nodes, PodStarts(n) \/ PodEnds(n) PROVE StateTypes'
  BY <1>3 DEF PodStarts, PodEnds, StateTypes
<1>4. ASSUME NEW n \in Nodes, AdminPauses(n) \/ AdminCordons(n) \/ AdminUncordons(n)
      PROVE  StateTypes'
  <2> DEFINE p == ~node[n].paused
  <2>1. p \in BOOLEAN
    OBVIOUS
  <2>2. \/ node' = [node EXCEPT ![n].paused = p]
        \/ node' = [node EXCEPT ![n].unsched = TRUE]
        \/ node' = [node EXCEPT ![n].unsched = FALSE]
    BY <1>4 DEF AdminPauses, AdminCordons, AdminUncordons
  <2> HIDE DEF p
  <2>3. node' \in [Nodes -> NodeInfo]
    <3>1. node \in [Nodes -> NodeInfo]
      BY DEF StateTypes
    <3>2. CASE node' = [node EXCEPT ![n].paused = p]
      BY <2>1, <3>1, <3>2 DEF NodeInfo
    <3>3. CASE node' = [node EXCEPT ![n].unsched = TRUE]
      BY <3>1, <3>3 DEF NodeInfo
    <3>4. CASE node' = [node EXCEPT ![n].unsched = FALSE]
      BY <3>1, <3>4 DEF NodeInfo
    <3> QED
      BY <2>2, <3>2, <3>3, <3>4
  <2> QED
    BY <1>4, <2>3, SpendType DEF AdminPauses, AdminCordons, AdminUncordons, Admin, StateTypes
<1>5. ASSUME NEW n \in Nodes, NodeJoins(n) \/ NodeLeaves(n) \/ OverlapChanges(n)
      PROVE  StateTypes'
  BY <1>5, SpendType DEF NodeJoins, NodeLeaves, OverlapChanges, Admin, StateTypes
<1> QED
  BY <1>1, <1>2, <1>3, <1>4, <1>5 DEF Environment

LEMMA TypeStep == StateTypes /\ [Next]_vars => StateTypes'
<1>1. StateTypes /\ UNCHANGED vars => StateTypes'
  BY DEF StateTypes, vars, poolVars, ctlVars, Todo
<1> QED
  BY <1>1, ControllerTypeOK, AgentTypeOK, EnvironmentTypeOK DEF Next

(***************************************************************************)
(* What the steps leave alone.                                             *)
(***************************************************************************)

\* ProcessNodeUpdate touches one node and none of the agent's annotations.
LEMMA ProcessWrites ==
  ASSUME StateTypes, NEW n \in Nodes, ProcessNodeUpdate(n) \/ ProcessFails(n)
  PROVE  /\ At(n) /\ Processed(n)
         /\ \A m \in Nodes \ {n} : node'[m] = node[m]
         /\ node'[n].current = node[n].current
         /\ node'[n].state = node[n].state
         /\ node'[n].paused = node[n].paused
         /\ node'[n].desired \in {node[n].desired, target}
<1>1. node \in [Nodes -> NodeInfo] /\ node[n] \in NodeInfo /\ target \in AnyRev
  BY DEF StateTypes
<1>2. CASE SkipCordon(n) \/ SetDesiredRevision(n)
  <2>1. PICK p \in PoolWritten(n) : node' = [node EXCEPT ![n] = SetDesired(node[n], target, p)]
    BY <1>2 DEF SkipCordon, SetDesiredRevision
  <2>2. p \in BOOLEAN
    BY <1>1 DEF PoolWritten, NodeInfo
  <2>3. At(n) /\ Processed(n)
    BY <1>2 DEF SkipCordon, SetDesiredRevision
  <2> QED
    BY <1>1, <2>1, <2>2, <2>3, SetDesiredWrites
<1>3. CASE CordonNode(n)
  BY <1>1, <1>3, CordonWrites DEF CordonNode
<1>4. CASE DrainNode(n)
  BY <1>1, <1>4, StartDrainWrites DEF DrainNode
<1>5. CASE UncordonNode(n)
  BY <1>1, <1>5, UncordonWrites DEF UncordonNode
<1>6. CASE WaitForAgent(n) \/ ProcessFails(n)
  BY <1>1, <1>6 DEF WaitForAgent, ProcessFails
<1> QED
  BY <1>2, <1>3, <1>4, <1>5, <1>6 DEF ProcessNodeUpdate

\* An agent touches its own node, and there only the agent's annotations.
LEMMA AgentWrites ==
  ASSUME StateTypes, NEW n \in Nodes, AgentStep(n) \/ AgentFaults(n)
  PROVE  /\ AgentOnly
         /\ \A m \in Nodes \ {n} : node'[m] = node[m] /\ agent'[m] = agent[m]
         /\ node'[n].unsched = node[n].unsched /\ node'[n].cordoned = node[n].cordoned
         /\ node'[n].drainAt = node[n].drainAt /\ node'[n].desired = node[n].desired
         /\ node'[n].paused = node[n].paused /\ node'[n].pool = node[n].pool
         /\ \/ node'[n].current = node[n].current
            \/ agent[n].phase = "apply" /\ node'[n].current = agent[n].work
<1>1. /\ node \in [Nodes -> NodeInfo] /\ agent \in [Nodes -> AgentInfo]
      /\ node[n] \in NodeInfo /\ agent[n].work \in AnyRev
  BY DEF StateTypes, AgentInfo
<1>2. {"idle", "applying", "error", "rebooting"} \subseteq AgentStates
  BY DEF AgentStates
<1>3. CASE AgentTake(n) \/ AgentTakeQueued(n)
  BY <1>1, <1>3 DEF AgentTake, AgentTakeQueued
<1>4. CASE AgentApply(n)
  BY <1>1, <1>2, <1>4, SetStateWrites DEF AgentApply
<1>5. CASE AgentFetchFails(n) \/ AgentFetchError(n) \/ AgentApplyFails(n)
  <2>1. /\ AgentOnly
        /\ node' = [node EXCEPT ![n] = SetState(node[n], "error")]
        /\ agent' = [agent EXCEPT ![n] = AgentWaits(agent[n])]
    BY <1>5 DEF AgentFetchFails, AgentFetchError, AgentApplyFails, AgentGivesUp
  <2> QED
    BY <1>1, <1>2, <2>1, SetStateWrites
<1>6. CASE AgentDone(n)
  BY <1>1, <1>6, SetDoneWrites DEF AgentDone
<1>7. CASE AgentReboots(n)
  BY <1>1, <1>2, <1>7, SetStateWrites DEF AgentReboots
<1>8. CASE AgentBoots(n) \/ AgentRestarts(n)
  <2>1. /\ AgentOnly
        /\ node' = [node EXCEPT ![n] = SetState(node[n], "idle")]
        /\ agent' = [agent EXCEPT ![n] = AgentIn("wait")]
    BY <1>8 DEF AgentBoots, AgentRestarts, AgentStarts
  <2> QED
    BY <1>1, <1>2, <2>1, SetStateWrites
<1>9. CASE AgentPatchLost(n)
  BY <1>1, <1>9 DEF AgentPatchLost
<1> QED
  BY <1>3, <1>4, <1>5, <1>6, <1>7, <1>8, <1>9 DEF AgentStep, AgentFaults

(***************************************************************************)
(* The rollout order and the selection.                                    *)
(***************************************************************************)

LEMMA BeforeIsOrder ==
  ASSUME NEW m \in Nodes, NEW n \in Nodes, NEW p \in Nodes
  PROVE  /\ ~Before(n, n)
         /\ Before(m, n) /\ Before(n, p) => Before(m, p)
         /\ m # n => Before(m, n) \/ Before(n, m)
<1>1. /\ Zone[m] \in Nat /\ Zone[n] \in Nat /\ Zone[p] \in Nat
      /\ Created[m] \in Nat /\ Created[n] \in Nat /\ Created[p] \in Nat
      /\ NameRank[m] \in Nat /\ NameRank[n] \in Nat /\ NameRank[p] \in Nat
      /\ m # n => NameRank[m] # NameRank[n]
  BY RolloutAssumption
<1> QED
  BY <1>1 DEF Before, NoZone

\* The number of nodes of S before n grows along the order.
LEMMA RankGrows ==
  ASSUME NEW S \in SUBSET Nodes, NEW m \in S, NEW n \in S, Before(m, n)
  PROVE  /\ Cardinality({p \in S : Before(p, m)}) \in Nat
         /\ Cardinality({p \in S : Before(p, n)}) \in Nat
         /\ Cardinality({p \in S : Before(p, m)}) < Cardinality({p \in S : Before(p, n)})
<1> DEFINE below == {p \in S : Before(p, m)}
           more == {p \in S : Before(p, n)}
<1>1. below \in SUBSET more /\ m \in more /\ m \notin below
  BY BeforeIsOrder
<1>2. IsFiniteSet(more) /\ IsFiniteSet(below)
  BY RolloutAssumption, FS_Subset
<1> HIDE DEF below, more
<1>3. Cardinality(below) <= Cardinality(more) /\ Cardinality(below) # Cardinality(more)
  BY <1>1, <1>2, FS_Subset
<1>4. Cardinality(below) \in Nat /\ Cardinality(more) \in Nat
  BY <1>2, FS_CardinalityType
<1>5. Cardinality(below) < Cardinality(more)
  BY <1>3, <1>4
<1> QED
  BY <1>4, <1>5 DEF below, more

\* The first k nodes of S are at most k, and with a node they hold the ones before it.
LEMMA FirstOnes ==
  ASSUME NEW S \in SUBSET Nodes, NEW k \in Int
  PROVE  /\ FirstInOrder(S, k) \in SUBSET S
         /\ FirstInOrder(S, k) # {} => Cardinality(FirstInOrder(S, k)) <= k
         /\ \A n \in FirstInOrder(S, k), m \in S : Before(m, n) => m \in FirstInOrder(S, k)
<1> DEFINE F == FirstInOrder(S, k)
           rank(n) == Cardinality({m \in S : Before(m, n)})
           f == [n \in F |-> rank(n)]
<1>1. F \in SUBSET S /\ \A n \in S : n \in F <=> rank(n) < k
  BY DEF FirstInOrder
<1>2. \A n \in S : rank(n) \in Nat
  <2>1. ASSUME NEW n \in S
        PROVE  IsFiniteSet({m \in S : Before(m, n)})
    BY RolloutAssumption, FS_Subset
  <2> QED
    BY <2>1, FS_CardinalityType
<1>3. \A m, n \in S : Before(m, n) => rank(m) < rank(n)
  BY RankGrows
<1>4. \A m, n \in S : m # n => rank(m) # rank(n)
  <2>1. \A m, n \in S : m # n => Before(m, n) \/ Before(n, m)
    BY BeforeIsOrder
  <2> HIDE DEF rank
  <2> QED
    BY <1>2, <1>3, <2>1
<1> HIDE DEF F, rank
<1>5. \A n \in F, m \in S : Before(m, n) => m \in F
  BY <1>1, <1>2, <1>3
<1>6. ASSUME F # {}
      PROVE  Cardinality(F) <= k
  <2>1. k >= 1 /\ f \in [F -> 0..(k - 1)]
    BY <1>1, <1>2, <1>6
  <2>2. f \in Injection(F, 0..(k - 1))
    BY <1>1, <1>4, <2>1 DEF Injection, IsInjective
  <2>3. IsFiniteSet(0..(k - 1)) /\ Cardinality(0..(k - 1)) = k
    BY <2>1, FS_Interval
  <2> QED
    BY <2>2, <2>3, FS_Injection
<1> QED
  BY <1>1, <1>5, <1>6 DEF F

LEMMA BudgetOf ==
  ASSUME NEW all \in SUBSET Nodes
  PROVE  /\ IsFiniteSet(all) /\ Cardinality(all) \in Nat
         /\ CalculateMaxUnavailable(MaxUnavailable, Cardinality(all)) \in Int
         /\ CalculateMaxUnavailable(MaxUnavailable, Cardinality(all)) >= 1
<1>1. IsFiniteSet(all) /\ Cardinality(all) \in Nat
  BY RolloutAssumption, FS_Subset, FS_CardinalityType
<1>2. MaxUnavailable.kind \in {"nil", "bad", "int", "percent"} /\ MaxUnavailable.val \in Int
  BY RolloutAssumption DEF MaxUnavailableSpec
<1> QED
  BY <1>1, <1>2 DEF CalculateMaxUnavailable, AtLeastOne

\* What a pass selects fits in the part of the budget that is free.
LEMMA SelectionFits ==
  ASSUME NEW info, NEW all \in SUBSET Nodes, NEW r,
         SelectNodesForUpdate(info, all, r) # {}
  PROVE  Cardinality(Unavailable(info, all)) + Cardinality(SelectNodesForUpdate(info, all, r))
            <= CalculateMaxUnavailable(MaxUnavailable, Cardinality(all))
<1> DEFINE S == SelectNodesForUpdate(info, all, r)
           k == CanUpdateCount(info, all)
<1>1. Cardinality(Unavailable(info, all)) \in Nat
  BY BudgetOf, FS_Subset, FS_CardinalityType DEF Unavailable
<1>2. CalculateMaxUnavailable(MaxUnavailable, Cardinality(all)) \in Int
  BY BudgetOf
<1>3. k \in Int
  BY <1>1, <1>2 DEF CanUpdateCount
<1>4. NeedsUpdate(info, all, r) \in SUBSET Nodes
  BY DEF NeedsUpdate
<1>5. S \in SUBSET Nodes /\ Cardinality(S) <= k
  BY <1>3, <1>4, FirstOnes DEF SelectNodesForUpdate
<1>6. Cardinality(S) \in Nat
  BY <1>5, RolloutAssumption, FS_Subset, FS_CardinalityType
<1> QED
  BY <1>1, <1>2, <1>5, <1>6 DEF CanUpdateCount

(***************************************************************************)
(* The budget.  Calm describes one rollout: the configuration, the members *)
(* and the admins' settings stay, and everything that can fail may fail;   *)
(* the lists of the controller may be old or not.                          *)
(***************************************************************************)

Calm ==
    /\ Env \subseteq {"apiError", "controllerRestart", "cacheLag", "fetchError", "applyError",
                     "reapplyError", "patchError", "agentRestart", "reboot"}
    /\ MaxChanges = 0

\* In a calm rollout there is one revision to ask for, and an agent that is at
\* work, or has an event queued, has been asked for it.
OneTarget(n) ==
    /\ ~node[n].paused
    /\ node[n].desired \in {NoRev, config}
    /\ agent[n].phase \in {"fetch", "apply"} =>
          agent[n].work = config /\ node[n].desired = config /\ config # NoRev
    /\ agent[n].backlog # NoRev => agent[n].backlog = config /\ node[n].desired = config
    /\ node[n].state \in {"applying", "rebooting"} => node[n].desired = config /\ config # NoRev

\* The update of the node is not over.  Then the node is cordoned before anything
\* else makes it unavailable.
Behind(nd) == nd.current # config

CordonedFirst(nd) ==
    /\ ~nd.paused
    /\ Behind(nd) /\ IsNodeUnavailable(nd) => nd.cordoned

\* What an old copy of the node nd still says truly: that nd is updated, that nd is
\* cordoned unless its update is over, and that the update of nd is not over unless nd
\* is still cordoned.
TrueOf(copy, nd) ==
    /\ CordonedFirst(copy)
    /\ Behind(nd) => Behind(copy) /\ (copy.cordoned => nd.cordoned)
    /\ Behind(copy) => Behind(nd) \/ nd.cordoned

\* The copies of n that lists return, and that a pass has listed.
CopiesTrue(n) ==
    /\ CordonedFirst(node[n])
    /\ TrueOf(Listed[n], node[n])
    /\ n \in Todo => /\ TrueOf(view[n], node[n])
                     /\ Behind(Listed[n]) => Behind(view[n])
                     /\ Behind(view[n]) \/ view[n].cordoned
    /\ status.lastOK # NoRev /\ n \in members =>
          /\ ~Behind(Listed[n])
          /\ n \in Todo => ~Behind(view[n])

\* Nodes whose update has not begun, and among them those that a pass has selected
\* or, as long as the cache stays as it is, will select.
Open == {n \in Managed : Behind(node[n]) /\ ~node[n].cordoned}

Selected ==
    {n \in Todo : Behind(view[n])}
        \cup (IF "cacheLag" \in Env THEN SelectNodesForUpdate(cache, Managed, config) ELSE {})

\* The nodes of T that are open, and the ones before them in the rollout order.
UpTo(T) == {n \in Open : \E m \in T \cap Open : n = m \/ Before(n, m)}

Held == {n \in Managed : node[n].cordoned}

\* CordonBudget is not inductive.  A pass cordons later what it has selected, and
\* with an old cache so do the next passes, and whatever the cache shows when it
\* has caught up, the selection is a beginning of the same order.
Slots == Held \cup UpTo(Selected)

CalmInv ==
    /\ StateTypes
    /\ pc = "process" => target = config /\ config # NoRev
    /\ pc # "process" => Todo = {}
    /\ Todo \subseteq Managed /\ conflicted = {}
    /\ \A n \in Nodes : OneTarget(n) /\ CopiesTrue(n)
    /\ Cardinality(Slots) <= Budget

\* Whatever maxUnavailable says, at least one node may be updated.
LEMMA BudgetPositive ==
  ASSUME Managed \subseteq Nodes
  PROVE  Budget \in Int /\ Budget >= 1 /\ IsFiniteSet(Managed)
BY BudgetOf DEF Budget

\* Every annotation, list and counter keeps its type in every behaviour, and the
\* budget is never 0, however few nodes the pool has and whatever maxUnavailable is.
THEOREM TypeCorrect == Spec => []TypeOK
<1>1. StateTypes => TypeOK
  <2> SUFFICES ASSUME StateTypes PROVE TypeOK
    OBVIOUS
  <2>1. Managed \subseteq Nodes
    BY DEF StateTypes, Managed
  <2>2. Budget \in Nat \ {0}
    BY <2>1, BudgetPositive
  <2> QED
    BY <2>2 DEF TypeOK
<1> QED
  BY <1>1, TypeStep, InitTypeOK, PTL DEF Spec

LEMMA SlotsFinite ==
  ASSUME StateTypes
  PROVE  /\ Managed \subseteq Nodes /\ Slots \subseteq Managed
         /\ IsFiniteSet(Slots) /\ Cardinality(Slots) \in Nat
<1>1. Managed \subseteq Nodes /\ Slots \subseteq Managed
  BY DEF StateTypes, Managed, Slots, Held, UpTo, Open
<1> QED
  BY <1>1, BudgetPositive, FS_Subset, FS_CardinalityType

\* A step that claims no new slot keeps the budget.
LEMMA FewerSlots ==
  ASSUME CalmInv, UNCHANGED <<members, conflicted>>, Slots' \subseteq Slots
  PROVE  Cardinality(Slots') <= Budget'
<1>1. Budget' = Budget
  BY DEF Budget, Managed
<1>2. Managed \subseteq Nodes /\ IsFiniteSet(Slots) /\ Cardinality(Slots) \in Nat
  BY SlotsFinite DEF CalmInv
<1>3. Cardinality(Slots') <= Cardinality(Slots) /\ Cardinality(Slots') \in Nat
  BY <1>2, FS_Subset, FS_CardinalityType
<1> QED
  BY <1>1, <1>2, <1>3, BudgetPositive DEF CalmInv

\* No new slot: every cordoned node had one, no update is undone, and nothing more
\* is selected.
LEMMA NoNewSlots ==
  ASSUME Managed' = Managed, Held' \subseteq Slots, Open' \subseteq Open,
         Selected' \cap Open' \subseteq Selected
  PROVE  Slots' \subseteq Slots
BY DEF Slots, UpTo

\* If what fits in the budget is selected from the nodes as they are, then it fits
\* together with what was selected before: both are beginnings of one order.
LEMMA SelectionsNest ==
  ASSUME StateTypes, \A n \in Nodes : CordonedFirst(node[n]),
         NEW T, Cardinality(Held \cup UpTo(T)) <= Budget
  PROVE  Cardinality(Held \cup UpTo(T \cup SelectNodesForUpdate(node, Managed, config)))
            <= Budget
<1> DEFINE chosen == SelectNodesForUpdate(node, Managed, config)
           unavailable == Unavailable(node, Managed)
<1>1. Managed \in SUBSET Nodes /\ IsFiniteSet(Managed) /\ Budget \in Int
  BY BudgetPositive DEF StateTypes, Managed
<1>2. Open = NeedsUpdate(node, Managed, config) /\ Held \subseteq unavailable
  BY <1>1 DEF Open, NeedsUpdate, Held, Unavailable, CordonedFirst, Behind, IsNodePaused,
              IsNodeUnavailable
<1>3. CanUpdateCount(node, Managed) \in Int
  <2>1. Cardinality(unavailable) \in Nat
    BY <1>1, FS_Subset, FS_CardinalityType DEF Unavailable
  <2> QED
    BY <1>1, <2>1 DEF CanUpdateCount, Budget
<1>4. /\ chosen \in SUBSET Open
      /\ \A n \in chosen, m \in Open : Before(m, n) => m \in chosen
  <2>1. Open \in SUBSET Nodes
    BY <1>1 DEF Open
  <2> QED
    BY <1>2, <1>3, <2>1, FirstOnes DEF SelectNodesForUpdate
<1>5. chosen # {} => Cardinality(unavailable) + Cardinality(chosen) <= Budget
  BY <1>1, SelectionFits DEF Budget
<1>6. unavailable \subseteq Managed
  BY DEF Unavailable
<1> HIDE DEF chosen, unavailable
<1>7. CASE UpTo(T \cup chosen) \subseteq UpTo(T)
  <2>1. UpTo(T \cup chosen) = UpTo(T)
    BY <1>7 DEF UpTo
  <2> QED
    BY <2>1 DEF chosen
<1>8. CASE ~(UpTo(T \cup chosen) \subseteq UpTo(T))
  <2>1. UpTo(T \cup chosen) \subseteq chosen
    <3>1. PICK x \in UpTo(T \cup chosen) : x \notin UpTo(T)
      BY <1>8
    <3>2. PICK c \in chosen : x = c \/ Before(x, c)
      BY <3>1 DEF UpTo
    <3>3. x \in chosen
      BY <1>4, <3>1, <3>2 DEF UpTo
    <3>4. ASSUME NEW m \in T \cap Open, m \notin chosen
          PROVE  FALSE
      <4>1. m \in Nodes /\ x \in Nodes /\ x \in Open
        BY <1>1, <3>1 DEF Open, UpTo
      <4>2. x = m \/ Before(x, m) \/ Before(m, x)
        BY <4>1, BeforeIsOrder
      <4>3. ~Before(m, x)
        BY <1>4, <3>3, <3>4
      <4> QED
        BY <3>1, <4>1, <4>2, <4>3 DEF UpTo
    <3> QED
      BY <1>4, <3>4 DEF UpTo
  <2>2. chosen # {}
    BY <1>8, <2>1
  <2>3. IsFiniteSet(unavailable) /\ IsFiniteSet(chosen)
    BY <1>1, <1>4, <1>6, FS_Subset DEF Open
  <2>4. /\ IsFiniteSet(unavailable \cup chosen)
        /\ Cardinality(unavailable \cup chosen)
              <= Cardinality(unavailable) + Cardinality(chosen)
        /\ Cardinality(unavailable) \in Nat /\ Cardinality(chosen) \in Nat
        /\ Cardinality(unavailable \cup chosen) \in Nat
    <3>1. IsFiniteSet(unavailable \cup chosen)
      BY <2>3, FS_Union
    <3>2. /\ Cardinality(unavailable) \in Nat /\ Cardinality(chosen) \in Nat
          /\ Cardinality(unavailable \cap chosen) \in Nat
          /\ Cardinality(unavailable \cup chosen) \in Nat
      BY <2>3, <3>1, FS_CardinalityType, FS_Intersection
    <3>3. Cardinality(unavailable \cup chosen)
            = Cardinality(unavailable) + Cardinality(chosen)
                - Cardinality(unavailable \cap chosen)
      BY <2>3, FS_Union
    <3> QED
      BY <3>1, <3>2, <3>3
  <2>5. Held \cup UpTo(T \cup chosen) \in SUBSET (unavailable \cup chosen)
    BY <1>2, <2>1
  <2>6. /\ Cardinality(Held \cup UpTo(T \cup chosen)) <= Cardinality(unavailable \cup chosen)
        /\ Cardinality(Held \cup UpTo(T \cup chosen)) \in Nat
    BY <2>4, <2>5, FS_Subset, FS_CardinalityType
  <2>7. Cardinality(Held \cup UpTo(T \cup chosen)) <= Budget
    BY <1>1, <1>5, <2>2, <2>4, <2>6
  <2> QED
    BY <2>7 DEF chosen
<1> QED
  BY <1>7, <1>8

\* Under Calm these actions never happen.
LEMMA CalmExcludes ==
  ASSUME Calm, StateTypes
  PROVE  /\ ~AdminPausesPool
         /\ \A r : ~ConfigChange(r)
         /\ \A n : ~(\/ AdminPauses(n) \/ AdminCordons(n) \/ AdminUncordons(n)
                   \/ NodeJoins(n) \/ NodeLeaves(n) \/ OverlapChanges(n))
<1>1. \A kind : Admin(kind) => kind \in Env
  BY DEF Admin
<1>2. ~AdminPausesPool
  BY <1>1 DEF Calm, AdminPausesPool
<1>3. ASSUME NEW r PROVE ~ConfigChange(r)
  <2>1. spent.changes \in Nat
    BY DEF StateTypes
  <2> QED
    BY <2>1 DEF Calm, ConfigChange, Spend
<1>4. ASSUME NEW n PROVE ~AdminPauses(n) /\ ~AdminCordons(n) /\ ~AdminUncordons(n)
  BY <1>1 DEF Calm, AdminPauses, AdminCordons, AdminUncordons
<1>5. ASSUME NEW n PROVE ~NodeJoins(n) /\ ~NodeLeaves(n) /\ ~OverlapChanges(n)
  BY <1>1 DEF Calm, NodeJoins, NodeLeaves, OverlapChanges
<1> QED
  BY <1>2, <1>3, <1>4, <1>5

LEMMA CalmInit ==
  ASSUME Init
  PROVE  CalmInv
<1>1. StateTypes
  BY InitTypeOK
<1>2. Todo = {}
  BY DEF Init, Todo
<1>3. \A n \in Nodes : node[n] = FreshNode /\ Listed[n] = FreshNode /\ agent[n] = AgentIn("down")
  BY DEF Init, Listed
<1>4. /\ ~FreshNode.paused /\ FreshNode.desired = NoRev /\ FreshNode.state = ""
      /\ ~FreshNode.unsched /\ ~FreshNode.cordoned /\ ~FreshNode.drainAt
  BY DEF FreshNode
<1>5. \A n \in Nodes : OneTarget(n) /\ CopiesTrue(n)
  <2> TAKE n \in Nodes
  <2>1. agent[n].phase = "down" /\ agent[n].backlog = NoRev
    BY <1>3 DEF AgentIn
  <2>2. node[n] = FreshNode /\ Listed[n] = FreshNode
    BY <1>3
  <2>3. status.lastOK = NoRev
    BY DEF Init
  <2>4. OneTarget(n)
    BY <1>4, <2>1, <2>2 DEF OneTarget
  <2>5. CordonedFirst(FreshNode)
    BY <1>4 DEF CordonedFirst, IsNodeUnavailable
  <2> QED
    BY <1>2, <1>4, <2>2, <2>3, <2>4, <2>5 DEF CopiesTrue, TrueOf
<1>6. Cardinality(Slots) <= Budget
  <2>1. Managed \subseteq Nodes /\ Held = {} /\ UpTo({}) = {}
    BY <1>1, <1>3, <1>4 DEF Managed, StateTypes, Held, UpTo
  <2>2. Cardinality(Held \cup UpTo({})) <= Budget
    BY <2>1, BudgetPositive, FS_EmptySet
  <2>3. CASE "cacheLag" \in Env
    <3>1. Selected = {} \cup SelectNodesForUpdate(node, Managed, config)
      BY <1>2, <2>3 DEF Selected, Init
    <3> QED
      BY <1>1, <1>5, <2>2, <3>1, SelectionsNest DEF Slots, CopiesTrue
  <2>4. CASE "cacheLag" \notin Env
    BY <1>2, <2>2, <2>4 DEF Selected, Slots
  <2> QED
    BY <2>3, <2>4
<1> QED
  BY <1>1, <1>2, <1>5, <1>6 DEF CalmInv, Init

\* The copies of n stay true when its node changes as TrueOf allows and no copy does.
LEMMA CopiesKept ==
  ASSUME NEW n \in Nodes, CopiesTrue(n),
         UNCHANGED <<cache, config, members>>, status'.lastOK = status.lastOK,
         n \in Todo' => n \in Todo /\ view'[n] = view[n] /\ TrueOf(view[n], node'[n]),
         CordonedFirst(node'[n]), TrueOf(Listed[n], node'[n]),
         Behind(node'[n]) => Behind(node[n])
  PROVE  CopiesTrue(n)'
<1>1. Listed'[n] = Listed[n] \/ Listed'[n] = node'[n]
  BY DEF Listed
<1>2. TrueOf(node'[n], node'[n])
  BY DEF TrueOf
<1>3. TrueOf(Listed'[n], node'[n])
  BY <1>1, <1>2
<1>4. n \in Todo' /\ Behind(Listed'[n]) => Behind(view[n])
  <2>1. CASE Listed'[n] = Listed[n]
    BY <2>1 DEF CopiesTrue
  <2>2. CASE Listed'[n] = node'[n]
    BY <2>2 DEF TrueOf
  <2> QED
    BY <1>1, <2>1, <2>2
<1>5. status'.lastOK # NoRev /\ n \in members' => ~Behind(Listed'[n])
  <2>1. status'.lastOK # NoRev /\ n \in members' => ~Behind(Listed[n]) /\ ~Behind(node[n])
    BY DEF CopiesTrue, TrueOf
  <2> QED
    BY <1>1, <2>1
<1> QED
  BY <1>3, <1>4, <1>5 DEF CopiesTrue, TrueOf, CordonedFirst, Behind

\* What ProcessNodeUpdate does to the node, given that the listed copy may be old.
LEMMA ProcessOnCopy ==
  ASSUME CalmInv, NEW n \in Nodes, ProcessNodeUpdate(n) \/ ProcessFails(n)
  PROVE  /\ node'[n] = node[n] \/ node'[n].cordoned \/ ~Behind(node[n])
         /\ node[n].cordoned => node'[n].cordoned \/ ~Behind(view[n])
         /\ node'[n].cordoned => node[n].cordoned \/ Behind(view[n])
<1>1. /\ node \in [Nodes -> NodeInfo] /\ node[n] \in NodeInfo /\ target \in AnyRev
      /\ CopiesTrue(n) /\ Managed \subseteq members
  BY DEF CalmInv, StateTypes, Managed
<1>2. At(n)
  BY ProcessWrites DEF CalmInv
<1>3. n \in Todo /\ target = config /\ config # NoRev /\ n \in members
  BY <1>1, <1>2 DEF At, CalmInv
<1>4. TrueOf(view[n], node[n]) /\ (Behind(view[n]) \/ view[n].cordoned)
  BY <1>1, <1>3 DEF CopiesTrue
<1>5. CASE SkipCordon(n)
  <2>1. view[n].current = NoRev /\ status.lastOK # NoRev
    BY <1>5 DEF SkipCordon, SkipsCordon, IsNewNode
  <2>2. ~Behind(view[n])
    BY <1>1, <1>3, <2>1 DEF CopiesTrue
  <2> QED
    BY <1>3, <2>1, <2>2 DEF Behind
<1>6. CASE CordonNode(n)
  <2>1. node'[n].cordoned /\ ~view[n].cordoned
    BY <1>1, <1>6, CordonWrites DEF CordonNode, IsNodeCordoned
  <2> QED
    BY <1>4, <2>1
<1>7. CASE DrainNode(n) \/ SetDesiredRevision(n)
  <2>1. view[n].cordoned
    BY <1>7 DEF DrainNode, SetDesiredRevision, IsNodeCordoned
  <2>2. node'[n].cordoned = node[n].cordoned
    <3>1. CASE DrainNode(n)
      BY <1>1, <3>1, StartDrainWrites DEF DrainNode
    <3>2. CASE SetDesiredRevision(n)
      <4>1. PICK p \in PoolWritten(n) :
               node' = [node EXCEPT ![n] = SetDesired(node[n], target, p)]
        BY <3>2 DEF SetDesiredRevision
      <4>2. p \in BOOLEAN
        BY <1>1 DEF PoolWritten, NodeInfo
      <4> QED
        BY <1>1, <4>1, <4>2, SetDesiredWrites
    <3> QED
      BY <1>7, <3>1, <3>2
  <2>3. Behind(node[n]) => node[n].cordoned
    BY <1>4, <2>1 DEF TrueOf
  <2> QED
    BY <2>2, <2>3
<1>8. CASE UncordonNode(n)
  <2>1. ~Behind(view[n])
    BY <1>3, <1>8 DEF UncordonNode, ShouldUncordon, Behind
  <2>2. ~Behind(node[n])
    BY <1>4, <2>1 DEF TrueOf
  <2>3. node'[n].cordoned => node[n].cordoned
    BY <1>1, <1>8 DEF UncordonNode, Uncordon, NodeInfo
  <2> QED
    BY <2>1, <2>2, <2>3
<1>9. CASE WaitForAgent(n) \/ ProcessFails(n)
  BY <1>9 DEF WaitForAgent, ProcessFails
<1> QED
  BY <1>5, <1>6, <1>7, <1>8, <1>9 DEF ProcessNodeUpdate

\* ProcessNodeUpdate works on a node that has its slot already.
LEMMA CalmProcess ==
  ASSUME Calm, CalmInv, NEW n \in Nodes, ProcessNodeUpdate(n) \/ ProcessFails(n)
  PROVE  CalmInv'
<1>1. StateTypes /\ StateTypes'
  BY ControllerTypeOK DEF CalmInv, Controller, ControllerFaults
<1>2. /\ At(n) /\ Processed(n)
      /\ \A m \in Nodes \ {n} : node'[m] = node[m]
      /\ node'[n].current = node[n].current
      /\ node'[n].state = node[n].state
      /\ node'[n].paused = node[n].paused
      /\ node'[n].desired \in {node[n].desired, target}
  BY <1>1, ProcessWrites
<1>3. /\ UNCHANGED <<cache, members, conflicted, config, status, pc, target, agent>>
      /\ Todo' = Todo \ {n} /\ pc = "process" /\ n \in Todo
      /\ \A m \in Todo' : view'[m] = view[m]
  BY <1>2 DEF Processed, poolVars, Restrict, Todo, At
<1>4. n \in Managed /\ target = config /\ config # NoRev /\ Managed' = Managed
      /\ Todo \subseteq Managed /\ Managed \subseteq Nodes
  BY <1>1, <1>3, SlotsFinite DEF CalmInv, Managed
<1>5. /\ node'[n] = node[n] \/ node'[n].cordoned \/ ~Behind(node[n])
      /\ node[n].cordoned => node'[n].cordoned \/ ~Behind(view[n])
      /\ node'[n].cordoned => node[n].cordoned \/ Behind(view[n])
  BY ProcessOnCopy
<1>6. CopiesTrue(n) /\ TrueOf(view[n], node[n]) /\ (Behind(Listed[n]) => Behind(view[n]))
      /\ (Behind(node'[n]) <=> Behind(node[n]))
  BY <1>2, <1>3 DEF CalmInv, CopiesTrue, Behind
<1>7. \A m \in Nodes : OneTarget(m)'
  <2> TAKE m \in Nodes
  <2>1. OneTarget(m)
    BY DEF CalmInv
  <2>2. /\ node'[m].state = node[m].state /\ node'[m].paused = node[m].paused
        /\ node'[m].desired \in {node[m].desired, config}
        /\ agent'[m] = agent[m] /\ config' = config
    BY <1>2, <1>3, <1>4
  <2> QED
    BY <1>4, <2>1, <2>2 DEF OneTarget
<1>8. CopiesTrue(n)'
  <2>1. CordonedFirst(node'[n])
    BY <1>2, <1>5, <1>6 DEF CopiesTrue, CordonedFirst
  <2>2. TrueOf(Listed[n], node'[n])
    BY <1>5, <1>6 DEF CopiesTrue, TrueOf
  <2> QED
    BY <1>3, <1>6, <2>1, <2>2, CopiesKept
<1>9. \A m \in Nodes \ {n} : CopiesTrue(m)'
  <2> TAKE m \in Nodes \ {n}
  <2>1. CopiesTrue(m) /\ node'[m] = node[m]
    BY <1>2 DEF CalmInv
  <2>2. CordonedFirst(node'[m]) /\ TrueOf(Listed[m], node'[m])
        /\ (m \in Todo => TrueOf(view[m], node'[m]))
    BY <2>1 DEF CopiesTrue
  <2> QED
    BY <1>3, <2>1, <2>2, CopiesKept
<1>10. Slots' \subseteq Slots
  <2>1. Held' \subseteq Slots
    <3>1. ASSUME n \in Held'
          PROVE  n \in Slots
      <4>1. node'[n].cordoned
        BY <3>1 DEF Held
      <4>2. CASE node[n].cordoned
        BY <1>4, <4>2 DEF Slots, Held
      <4>3. CASE ~node[n].cordoned
        <5>1. Behind(view[n]) /\ n \in Selected
          BY <1>3, <1>5, <4>1, <4>3 DEF Selected
        <5>2. Behind(node[n])
          BY <1>6, <4>3, <5>1 DEF TrueOf
        <5> QED
          BY <1>4, <4>3, <5>1, <5>2 DEF Slots, UpTo, Open
      <4> QED
        BY <4>2, <4>3
    <3> QED
      BY <1>2, <1>4, <3>1 DEF Held, Slots
  <2>2. Open' \subseteq Open
    <3>1. ASSUME n \in Open'
          PROVE  n \in Open
      <4>1. Behind(node[n]) /\ ~node'[n].cordoned
        BY <1>3, <1>6, <3>1 DEF Open, Behind
      <4>2. ~node[n].cordoned
        BY <1>5, <1>6, <4>1 DEF TrueOf
      <4> QED
        BY <1>4, <4>1, <4>2 DEF Open
    <3> QED
      BY <1>2, <1>3, <1>4, <3>1 DEF Open, Behind
  <2>3. Selected' \subseteq Selected
    BY <1>3, <1>4 DEF Selected, Behind
  <2> QED
    BY <1>4, <2>1, <2>2, <2>3, NoNewSlots
<1>11. Cardinality(Slots') <= Budget'
  BY <1>3, <1>10, FewerSlots
<1> QED
  BY <1>1, <1>3, <1>4, <1>7, <1>8, <1>9, <1>11 DEF CalmInv

\* An agent at work ends with the revision its node was asked for.
LEMMA AgentTarget ==
  ASSUME CalmInv, NEW n \in Nodes, AgentStep(n) \/ AgentFaults(n)
  PROVE  OneTarget(n)'
<1>1. StateTypes /\ OneTarget(n)
  BY DEF CalmInv
<1>2. /\ node'[n].desired = node[n].desired /\ node'[n].paused = node[n].paused
      /\ config' = config
  BY <1>1, AgentWrites DEF AgentOnly, poolVars
<1>3. /\ node \in [Nodes -> NodeInfo] /\ agent \in [Nodes -> AgentInfo]
      /\ node[n] \in NodeInfo /\ {"idle", "applying", "error", "rebooting"} \subseteq AgentStates
  BY <1>1 DEF StateTypes, AgentStates
<1>4. CASE AgentTake(n)
  BY <1>1, <1>2, <1>3, <1>4 DEF AgentTake, OneTarget
<1>5. CASE AgentTakeQueued(n)
  BY <1>1, <1>2, <1>3, <1>5 DEF AgentTakeQueued, OneTarget
<1>6. CASE AgentApply(n)
  BY <1>1, <1>2, <1>3, <1>6 DEF AgentApply, OneTarget
<1>7. CASE AgentFetchFails(n) \/ AgentFetchError(n) \/ AgentApplyFails(n)
  <2>1. /\ node' = [node EXCEPT ![n] = SetState(node[n], "error")]
        /\ agent' = [agent EXCEPT ![n] = AgentWaits(agent[n])]
    BY <1>7 DEF AgentFetchFails, AgentFetchError, AgentApplyFails, AgentGivesUp
  <2>2. /\ node'[n].state = "error" /\ agent'[n].phase = "wait"
        /\ agent'[n].backlog = agent[n].backlog
    BY <1>3, <2>1, SetStateWrites DEF AgentWaits
  <2> QED
    BY <1>1, <1>2, <2>2 DEF OneTarget
<1>8. CASE AgentDone(n)
  <2>1. /\ node' = [node EXCEPT ![n] = SetDone(node[n], agent[n].work)]
        /\ agent' = [agent EXCEPT ![n] = AgentWaits(agent[n])]
        /\ agent[n].work \in AnyRev
    BY <1>3, <1>8 DEF AgentDone, AgentInfo
  <2>2. /\ node'[n].state = "done" /\ agent'[n].phase = "wait"
        /\ agent'[n].backlog = agent[n].backlog
    BY <1>3, <2>1, SetDoneWrites DEF AgentWaits
  <2> QED
    BY <1>1, <1>2, <2>2 DEF OneTarget
<1>9. CASE AgentReboots(n)
  <2>1. agent'[n].phase = "down" /\ agent'[n].backlog = NoRev /\ agent[n].phase = "apply"
    BY <1>3, <1>9 DEF AgentReboots, AgentIn
  <2> QED
    BY <1>1, <1>2, <2>1 DEF OneTarget
<1>10. CASE AgentBoots(n) \/ AgentRestarts(n)
  <2>1. /\ node' = [node EXCEPT ![n] = SetState(node[n], "idle")]
        /\ agent' = [agent EXCEPT ![n] = AgentIn("wait")]
    BY <1>10 DEF AgentBoots, AgentRestarts, AgentStarts
  <2>2. /\ node'[n].state = "idle" /\ agent'[n].phase = "wait" /\ agent'[n].backlog = NoRev
    BY <1>3, <2>1, SetStateWrites DEF AgentIn
  <2> QED
    BY <1>1, <1>2, <2>2 DEF OneTarget
<1>11. CASE AgentPatchLost(n)
  <2>1. /\ node' = node /\ agent'[n].phase \in {"wait", "down"}
        /\ agent'[n].backlog \in {agent[n].backlog, NoRev}
    BY <1>3, <1>11 DEF AgentPatchLost, AgentWaits, AgentIn
  <2> QED
    BY <1>1, <1>2, <2>1 DEF OneTarget
<1> QED
  BY <1>4, <1>5, <1>6, <1>7, <1>8, <1>9, <1>10, <1>11 DEF AgentStep, AgentFaults

\* An agent that ends an update works on a cordoned node, so that every copy that does
\* not show the end of the update is of a node that still has its slot.
LEMMA CalmAgent ==
  ASSUME Calm, CalmInv, NEW n \in Nodes, AgentStep(n) \/ AgentFaults(n)
  PROVE  CalmInv'
<1>1. StateTypes /\ StateTypes' /\ OneTarget(n) /\ CopiesTrue(n)
  BY AgentTypeOK DEF CalmInv
<1>2. /\ AgentOnly
      /\ \A m \in Nodes \ {n} : node'[m] = node[m] /\ agent'[m] = agent[m]
      /\ node'[n].unsched = node[n].unsched /\ node'[n].cordoned = node[n].cordoned
      /\ node'[n].drainAt = node[n].drainAt /\ node'[n].desired = node[n].desired
      /\ node'[n].paused = node[n].paused
      /\ \/ node'[n].current = node[n].current
         \/ agent[n].phase = "apply" /\ node'[n].current = agent[n].work
  BY <1>1, AgentWrites
<1>3. UNCHANGED <<cache, members, conflicted, config, status, pc, target, view, Todo>>
      /\ Managed' = Managed /\ Managed \subseteq Nodes
  BY <1>1, <1>2 DEF AgentOnly, poolVars, ctlVars, Todo, Managed, StateTypes
<1>4. OneTarget(n)'
  BY AgentTarget
<1>5. /\ Behind(node'[n]) => Behind(node[n])
      /\ Behind(node[n]) /\ ~Behind(node'[n]) => node[n].cordoned
  BY <1>1, <1>2 DEF OneTarget, Behind, CopiesTrue, CordonedFirst, IsNodeUnavailable,
                    IsNodePaused
<1>6. CordonedFirst(node'[n])
  <2>1. node'[n].state \in {"applying", "rebooting"} => node[n].desired = config /\ config # NoRev
    BY <1>2, <1>3, <1>4 DEF OneTarget
  <2>2. Behind(node'[n]) /\ IsNodeUnavailable(node'[n]) => IsNodeUnavailable(node[n])
    BY <1>1, <1>2, <1>5, <2>1 DEF IsNodeUnavailable, IsNodePaused, OneTarget, Behind
  <2> QED
    BY <1>1, <1>2, <1>5, <2>2 DEF CordonedFirst, CopiesTrue
<1>7. ASSUME NEW c, TrueOf(c, node[n])
      PROVE  TrueOf(c, node'[n])
  BY <1>2, <1>5, <1>7 DEF TrueOf
<1>8. CopiesTrue(n)'
  <2>1. TrueOf(Listed[n], node'[n]) /\ (n \in Todo => TrueOf(view[n], node'[n]))
    BY <1>1, <1>7 DEF CopiesTrue
  <2> QED
    BY <1>1, <1>3, <1>5, <1>6, <2>1, CopiesKept
<1>9. \A m \in Nodes \ {n} : CopiesTrue(m)' /\ OneTarget(m)'
  <2> TAKE m \in Nodes \ {n}
  <2>1. CopiesTrue(m) /\ OneTarget(m) /\ node'[m] = node[m] /\ agent'[m] = agent[m]
    BY <1>2 DEF CalmInv
  <2>2. CordonedFirst(node'[m]) /\ TrueOf(Listed[m], node'[m])
        /\ (m \in Todo => TrueOf(view[m], node'[m]))
    BY <2>1 DEF CopiesTrue
  <2>3. CopiesTrue(m)'
    BY <1>3, <2>1, <2>2, CopiesKept
  <2> QED
    BY <1>3, <2>1, <2>3 DEF OneTarget
<1>10. Slots' \subseteq Slots
  <2>1. \A m \in Nodes : /\ node'[m].cordoned = node[m].cordoned
                         /\ Behind(node'[m]) => Behind(node[m])
    BY <1>2, <1>5
  <2>2. Held' \subseteq Slots
    BY <1>3, <2>1 DEF Held, Slots
  <2>3. Open' \subseteq Open
    BY <1>3, <2>1 DEF Open, Behind
  <2>4. Selected' \subseteq Selected
    BY <1>3 DEF Selected, Behind
  <2> QED
    BY <1>3, <2>2, <2>3, <2>4, NoNewSlots
<1>11. Cardinality(Slots') <= Budget'
  BY <1>3, <1>10, FewerSlots
<1> QED
  BY <1>1, <1>3, <1>4, <1>8, <1>9, <1>11 DEF CalmInv

\* A pass lists only nodes that have a slot or that the cache lets it select.
LEMMA CalmStart ==
  ASSUME Calm, CalmInv, ReconcileStart
  PROVE  CalmInv'
<1> DEFINE inProgress == collectNodesInProgress(Listed, Managed, config)
           chosen == SelectNodesForUpdate(Listed, Managed, config)
<1>1. StateTypes /\ StateTypes' /\ \A n \in Nodes : OneTarget(n) /\ CopiesTrue(n)
  BY ControllerTypeOK DEF Controller, CalmInv
<1>2. /\ Managed \subseteq Nodes /\ Managed' = Managed
      /\ UNCHANGED <<node, cache, members, conflicted, config, status, agent>>
      /\ pc' = "process" /\ target' = config /\ config # NoRev /\ Listed' = Listed
  BY <1>1 DEF ReconcileStart, poolVars, Managed, StateTypes, Listed
<1>3. /\ Todo' = inProgress \cup chosen
      /\ \A n \in Todo' : view'[n] = Listed[n]
  <2>1. PassNodes = {Managed}
    BY DEF CalmInv, PassNodes, Managed
  <2> QED
    BY <2>1 DEF ReconcileStart, Restrict, Todo, NodesToProcess
<1>4. chosen \subseteq NeedsUpdate(Listed, Managed, config)
  BY DEF SelectNodesForUpdate, FirstInOrder
<1>5. Todo' \subseteq Managed /\ \A n \in Todo' : Behind(Listed[n]) \/ Listed[n].cordoned
  BY <1>3, <1>4 DEF collectNodesInProgress, NeedsUpdate, Behind, ShouldUncordon, IsNodeCordoned
<1>6. \A n \in Nodes : OneTarget(n)' /\ CopiesTrue(n)'
  <2> TAKE n \in Nodes
  <2>1. OneTarget(n)'
    BY <1>1, <1>2 DEF OneTarget
  <2>2. CopiesTrue(n)'
    BY <1>1, <1>2, <1>3, <1>5 DEF CopiesTrue, TrueOf, CordonedFirst, Behind
  <2> QED
    BY <2>1, <2>2
<1>7. Held' = Held /\ Open' = Open /\ Budget' = Budget /\ \A T : UpTo(T)' = UpTo(T)
  BY <1>2 DEF Held, Open, Behind, Budget, UpTo
<1>8. \A n \in inProgress : Behind(Listed[n]) => n \notin Open
  <2> TAKE n \in inProgress
  <2>1. n \in Nodes /\ IsNodeUnavailable(Listed[n]) /\ TrueOf(Listed[n], node[n])
    BY <1>1, <1>2 DEF collectNodesInProgress, CopiesTrue
  <2> QED
    BY <2>1 DEF TrueOf, CordonedFirst, Open
<1>9. {n \in Todo' : Behind(view'[n])} \cap Open \subseteq chosen
  BY <1>3, <1>8
<1>10. Cardinality(Slots') <= Budget'
  <2>1. CASE "cacheLag" \in Env
    <3>1. Selected' \cap Open' \subseteq Selected
      BY <1>2, <1>7, <1>9, <2>1 DEF Selected, Listed, Behind
    <3>2. Slots' \subseteq Slots
      BY <1>2, <1>7, <3>1, NoNewSlots DEF Slots
    <3> QED
      BY <1>2, <3>2, FewerSlots
  <2>2. CASE "cacheLag" \notin Env
    <3>1. Selected' \cap Open \subseteq chosen /\ Listed = node
      BY <1>2, <1>9, <2>2 DEF Selected, Listed, Behind
    <3>2. Slots' \subseteq Held \cup UpTo({} \cup chosen)
      BY <1>7, <3>1 DEF Slots, UpTo
    <3>3. Cardinality(Held \cup UpTo({})) <= Budget
      <4>1. Held \cup UpTo({}) \in SUBSET Slots
        BY DEF Slots, UpTo
      <4>2. IsFiniteSet(Slots) /\ Cardinality(Slots) \in Nat
        BY <1>1, SlotsFinite
      <4>3. /\ Cardinality(Held \cup UpTo({})) <= Cardinality(Slots)
            /\ Cardinality(Held \cup UpTo({})) \in Nat
        BY <4>1, <4>2, FS_Subset, FS_CardinalityType
      <4> QED
        BY <1>2, <4>2, <4>3, BudgetPositive DEF CalmInv
    <3>4. Cardinality(Held \cup UpTo({} \cup chosen)) <= Budget
      BY <1>1, <3>1, <3>3, SelectionsNest DEF CopiesTrue
    <3>5. Held \cup UpTo({} \cup chosen) \subseteq Managed
      BY DEF Held, UpTo, Open
    <3>6. IsFiniteSet(Held \cup UpTo({} \cup chosen))
      BY <1>2, <3>5, BudgetPositive, FS_Subset
    <3> HIDE DEF chosen
    <3>7. /\ Cardinality(Slots') <= Cardinality(Held \cup UpTo({} \cup chosen))
          /\ Cardinality(Slots') \in Nat /\ Cardinality(Held \cup UpTo({} \cup chosen)) \in Nat
      BY <3>2, <3>6, FS_Subset, FS_CardinalityType
    <3> QED
      BY <1>2, <1>7, <3>4, <3>7, BudgetPositive
  <2> QED
    BY <2>1, <2>2
<1> QED
  BY <1>1, <1>2, <1>5, <1>6, <1>10 DEF CalmInv

\* When the cache catches up, the next selection fits with what a running pass has
\* selected from the old one.
LEMMA CalmSync ==
  ASSUME Calm, CalmInv, SyncCache
  PROVE  CalmInv'
<1>1. StateTypes /\ StateTypes' /\ \A n \in Nodes : OneTarget(n) /\ CopiesTrue(n)
  BY ControllerTypeOK DEF ControllerFaults, CalmInv
<1>2. /\ "cacheLag" \in Env /\ cache' = node /\ Listed' = node /\ Managed' = Managed
      /\ UNCHANGED <<node, members, conflicted, config, status, agent, pc, target, view, Todo>>
  BY DEF SyncCache, Listed, poolVars, ctlVars, Managed, Todo
<1>3. \A n \in Nodes : OneTarget(n)' /\ CopiesTrue(n)'
  <2> TAKE n \in Nodes
  <2>1. OneTarget(n)'
    BY <1>1, <1>2 DEF OneTarget
  <2>2. CopiesTrue(n) /\ TrueOf(node[n], node[n])
    BY <1>1 DEF CopiesTrue, TrueOf
  <2>3. /\ n \in Todo /\ Behind(node[n]) => Behind(view[n])
        /\ status.lastOK # NoRev /\ n \in members => ~Behind(node[n])
    BY <2>2 DEF CopiesTrue, TrueOf
  <2>4. CopiesTrue(n)'
    BY <1>2, <2>2, <2>3 DEF CopiesTrue, TrueOf, CordonedFirst, Behind
  <2> QED
    BY <2>1, <2>4
<1>4. Held' = Held /\ Open' = Open /\ Budget' = Budget
  BY <1>2 DEF Held, Open, Behind, Budget
<1> DEFINE listed == {n \in Todo : Behind(view[n])}
           chosen == SelectNodesForUpdate(node, Managed, config)
<1>5. Slots' = Held \cup UpTo(listed \cup chosen)
  <2>1. Selected' = listed \cup chosen
    BY <1>2 DEF Selected, Behind
  <2> QED
    BY <1>4, <2>1 DEF Slots, UpTo
<1>6. Cardinality(Held \cup UpTo(listed)) <= Budget
  <2>1. Held \cup UpTo(listed) \in SUBSET Slots
    BY DEF Slots, UpTo, Selected
  <2>2. IsFiniteSet(Slots) /\ Cardinality(Slots) \in Nat /\ Managed \subseteq Nodes
    BY <1>1, SlotsFinite
  <2> HIDE DEF listed
  <2>3. /\ Cardinality(Held \cup UpTo(listed)) <= Cardinality(Slots)
        /\ Cardinality(Held \cup UpTo(listed)) \in Nat
    BY <2>1, <2>2, FS_Subset, FS_CardinalityType
  <2> QED
    BY <2>2, <2>3, BudgetPositive DEF CalmInv
<1>7. Cardinality(Slots') <= Budget'
  <2> HIDE DEF listed
  <2> QED
    BY <1>1, <1>4, <1>5, <1>6, SelectionsNest DEF CopiesTrue
<1> QED
  BY <1>1, <1>2, <1>3, <1>7 DEF CalmInv

\* The other steps leave the nodes and the agents alone and claim nothing.
LEMMA CalmOther ==
  ASSUME Calm, CalmInv, StateTypes',
         UNCHANGED <<node, cache, members, conflicted, config, agent>>,
         status'.lastOK = status.lastOK,
         Todo' \subseteq Todo, \A n \in Todo' : view'[n] = view[n],
         pc' = "process" => pc = "process" /\ target' = target,
         pc' # "process" => Todo' = {}
  PROVE  CalmInv'
<1>1. Managed' = Managed
  BY DEF Managed
<1>2. Slots' \subseteq Slots
  <2>1. Held' \subseteq Slots /\ Open' \subseteq Open
    BY <1>1 DEF Held, Slots, Open, Behind
  <2>2. Selected' \subseteq Selected
    BY <1>1 DEF Selected, Behind
  <2> QED
    BY <1>1, <2>1, <2>2, NoNewSlots
<1>3. Cardinality(Slots') <= Budget'
  BY <1>2, FewerSlots
<1>4. \A n \in Nodes : OneTarget(n)' /\ CopiesTrue(n)'
  <2> TAKE n \in Nodes
  <2>1. OneTarget(n) /\ CopiesTrue(n)
    BY DEF CalmInv
  <2>2. CordonedFirst(node'[n]) /\ TrueOf(Listed[n], node'[n])
        /\ (n \in Todo => TrueOf(view[n], node'[n]))
    BY <2>1 DEF CopiesTrue
  <2>3. CopiesTrue(n)'
    BY <2>1, <2>2, CopiesKept
  <2> QED
    BY <2>1, <2>3 DEF OneTarget
<1> QED
  BY <1>1, <1>3, <1>4 DEF CalmInv

\* A pool is successful only when every copy that can still be listed shows it.
LEMMA CalmStatus ==
  ASSUME Calm, CalmInv, UpdateStatus
  PROVE  CalmInv'
<1>1. StateTypes /\ StateTypes' /\ \A n \in Nodes : OneTarget(n) /\ CopiesTrue(n)
  BY ControllerTypeOK DEF Controller, CalmInv
<1>2. /\ pc = "process" /\ Todo = {} /\ Todo' = {} /\ target = config /\ pc' = "cleanup"
      /\ UNCHANGED <<node, cache, members, conflicted, config, agent, view, Listed>>
      /\ Managed' = Managed
  BY DEF UpdateStatus, poolVars, Todo, CalmInv, Listed, Managed
<1>3. \/ status'.lastOK = status.lastOK
      \/ \A n \in members : Listed[n].current = config
  BY <1>2 DEF UpdateStatus, Successful
<1>4. \A n \in Nodes : OneTarget(n)' /\ CopiesTrue(n)'
  <2> TAKE n \in Nodes
  <2>1. OneTarget(n) /\ CopiesTrue(n)
    BY <1>1
  <2>2. status'.lastOK # NoRev /\ n \in members => Listed[n].current = config
    BY <1>3, <2>1 DEF CopiesTrue, Behind
  <2>3. CopiesTrue(n)'
    BY <1>2, <2>1, <2>2 DEF CopiesTrue, TrueOf, CordonedFirst, Behind
  <2> QED
    BY <1>2, <2>1, <2>3 DEF OneTarget
<1>5. Slots' \subseteq Slots
  <2>1. Held' \subseteq Slots /\ Open' \subseteq Open /\ Selected' \subseteq Selected
    BY <1>2 DEF Held, Slots, Open, Behind, Selected
  <2> QED
    BY <1>2, <2>1, NoNewSlots
<1>6. Cardinality(Slots') <= Budget'
  BY <1>2, <1>5, FewerSlots
<1> QED
  BY <1>1, <1>2, <1>4, <1>6 DEF CalmInv

LEMMA CalmNext ==
  ASSUME Calm, CalmInv, [Next]_vars
  PROVE  CalmInv'
<1>1. StateTypes /\ Todo = DOMAIN view /\ (pc # "process" => Todo = {})
  BY DEF CalmInv, Todo
<1>2. CASE UNCHANGED vars
  <2>1. StateTypes'
    BY <1>1, <1>2 DEF StateTypes, vars, poolVars, ctlVars, Todo
  <2> QED
    BY <1>1, <1>2, <2>1, CalmOther DEF vars, poolVars, ctlVars, Todo
<1>3. CASE ReconcileEmpty \/ DebounceRestarts \/ DebounceElapses
  <2>1. StateTypes'
    BY <1>1, <1>3, ControllerTypeOK DEF Controller
  <2>2. /\ UNCHANGED <<node, cache, members, conflicted, config, agent, pc, target, view>>
        /\ Todo' = Todo
    BY <1>3 DEF ReconcileEmpty, DebounceRestarts, DebounceElapses, poolVars, Todo
  <2>3. status'.lastOK = status.lastOK
    BY <1>1, <1>3 DEF ReconcileEmpty, DebounceRestarts, DebounceElapses, StateTypes
  <2> QED
    BY <1>1, <2>1, <2>2, <2>3, CalmOther
<1>4. CASE ReconcileStart
  BY <1>4, CalmStart
<1>5. CASE UpdateStatusFails \/ CleanupOldRMCs
  <2>1. StateTypes'
    BY <1>1, <1>5, ControllerTypeOK DEF Controller, ControllerFaults
  <2>2. UNCHANGED <<node, cache, members, conflicted, config, agent, view, status>>
        /\ Todo = {} /\ Todo' = {} /\ pc' = "idle"
    BY <1>1, <1>5 DEF UpdateStatusFails, CleanupOldRMCs, poolVars, Todo
  <2> QED
    BY <2>1, <2>2, CalmOther
<1>6. CASE ControllerRestart
  <2>1. StateTypes'
    BY <1>1, <1>6, ControllerTypeOK DEF Controller, ControllerFaults
  <2>2. Todo' = {}
    BY <1>6 DEF ControllerRestart, Restrict, Todo
  <2>3. UNCHANGED <<node, cache, members, conflicted, config, agent, status>> /\ pc' = "idle"
    BY <1>6 DEF ControllerRestart, poolVars
  <2> QED
    BY <2>1, <2>2, <2>3, CalmOther
<1>7. ASSUME NEW n \in Nodes, PodStarts(n) \/ PodEnds(n) PROVE CalmInv'
  <2>1. StateTypes'
    BY <1>1, <1>7, EnvironmentTypeOK DEF Environment
  <2> QED
    BY <1>1, <1>7, <2>1, CalmOther DEF PodStarts, PodEnds, poolVars, ctlVars, Todo
<1>8. CASE Controller
  BY <1>3, <1>4, <1>5, <1>8, CalmProcess, CalmStatus DEF Controller
<1>9. CASE ControllerFaults
  BY <1>5, <1>6, <1>9, CalmProcess, CalmSync DEF ControllerFaults
<1>10. CASE Environment
  BY <1>1, <1>7, <1>10, CalmExcludes DEF Environment
<1> QED
  BY <1>2, <1>3, <1>8, <1>9, <1>10, CalmAgent DEF Next

\* During one rollout, however passes, agents, API errors, failed applies,
\* restarts and reboots interleave, however old the lists are that the controller
\* works from, and for every pool size and every value of maxUnavailable, the
\* controller keeps to the budget (SelectNodesForUpdate, rollout.go, and
\* ProcessNodeUpdate, node_update.go).
THEOREM BudgetKept ==
  ASSUME Calm
  PROVE  Spec => []CordonBudget
<1>1. Init => CalmInv
  BY CalmInit
<1>2. CalmInv /\ [Next]_vars => CalmInv'
  BY CalmNext
<1>3. CalmInv => CordonBudget
  <2> SUFFICES ASSUME CalmInv PROVE CordonBudget
    OBVIOUS
  <2> DEFINE cordoned == {n \in Managed : node[n].cordoned /\ ~node[n].paused}
  <2>1. IsFiniteSet(Slots) /\ Cardinality(Slots) \in Nat /\ Managed \subseteq Nodes
    BY SlotsFinite DEF CalmInv
  <2>2. cordoned \subseteq Slots
    BY DEF Slots, Held
  <2>3. Cardinality(cordoned) <= Cardinality(Slots) /\ Cardinality(cordoned) \in Nat
    BY <2>1, <2>2, FS_Subset, FS_CardinalityType
  <2> QED
    BY <2>1, <2>3, BudgetPositive DEF CalmInv, CordonBudget
<1> QED
  BY <1>1, <1>2, <1>3, PTL DEF Spec

(***************************************************************************)
(* One rollout with old lists, seen from a node: it is drained before it   *)
(* is updated, and cordoned before it is asked to update.                  *)
(***************************************************************************)

\* A node that has been asked to update and has not is free of pods; it is cordoned
\* by CordonedFirst, and what is cordoned takes no pods.  A node without a desired
\* revision is not updated.
Emptied(n) ==
    /\ node[n].cordoned => node[n].unsched
    /\ node[n].desired # NoRev /\ Behind(node[n]) => pods[n].run = 0
    /\ node[n].desired = NoRev /\ config # NoRev => Behind(node[n])

EmptiedInv == CalmInv /\ \A n \in Nodes : Emptied(n)

LEMMA EmptiedInit ==
  ASSUME Init
  PROVE  EmptiedInv
<1>1. \A n \in Nodes : node[n] = FreshNode
  BY DEF Init
<1>2. ~FreshNode.cordoned /\ FreshNode.desired = NoRev /\ FreshNode.current = NoRev
  BY DEF FreshNode
<1>3. \A n \in Nodes : Emptied(n)
  BY <1>1, <1>2 DEF Emptied, Behind
<1> QED
  BY <1>3, CalmInit DEF EmptiedInv

\* A node that is asked to update, and is behind, has its slot, and no pod may start.
LEMMA AskedIsCordoned ==
  ASSUME EmptiedInv, NEW n \in Nodes, node[n].desired # NoRev, Behind(node[n])
  PROVE  node[n].cordoned /\ node[n].unsched
<1>1. /\ OneTarget(n) /\ CordonedFirst(node[n]) /\ Emptied(n)
  BY DEF EmptiedInv, CalmInv, CopiesTrue
<1>2. IsNodeUnavailable(node[n])
  BY <1>1 DEF OneTarget, Behind, IsNodeUnavailable, IsNodePaused
<1> QED
  BY <1>1, <1>2 DEF CordonedFirst, Emptied

\* However old the listed copy is, a node is asked to update only once it is cordoned.
LEMMA AsksCordoned ==
  ASSUME EmptiedInv, NEW n \in Nodes, ProcessNodeUpdate(n),
         node'[n].desired # node[n].desired
  PROVE  node[n].cordoned /\ SetDesiredRevision(n)
<1>1. /\ node \in [Nodes -> NodeInfo] /\ node[n] \in NodeInfo
      /\ CopiesTrue(n) /\ OneTarget(n) /\ Emptied(n) /\ Managed \subseteq members
  BY DEF EmptiedInv, CalmInv, StateTypes, Managed
<1>2. At(n) /\ node'[n].desired \in {node[n].desired, target}
  BY ProcessWrites DEF EmptiedInv, CalmInv
<1>3. n \in Todo /\ target = config /\ config # NoRev /\ n \in members
  BY <1>1, <1>2 DEF At, EmptiedInv, CalmInv
<1>4. ~SkipCordon(n)
  <2>1. status.lastOK # NoRev => ~Behind(view[n])
    BY <1>1, <1>3 DEF CopiesTrue
  <2> QED
    BY <1>3, <2>1 DEF SkipCordon, SkipsCordon, IsNewNode, Behind
<1>5. ~CordonNode(n)
  BY <1>1, CordonWrites DEF CordonNode
<1>6. ~DrainNode(n)
  BY <1>1, StartDrainWrites DEF DrainNode
<1>7. ~UncordonNode(n) /\ ~WaitForAgent(n)
  BY <1>1, UncordonWrites DEF UncordonNode, WaitForAgent
<1>8. SetDesiredRevision(n)
  BY <1>4, <1>5, <1>6, <1>7 DEF ProcessNodeUpdate
<1>9. view[n].cordoned /\ Behind(node[n])
  BY <1>1, <1>2, <1>3, <1>8 DEF SetDesiredRevision, IsNodeCordoned, OneTarget, Emptied
<1> QED
  BY <1>1, <1>3, <1>8, <1>9 DEF CopiesTrue, TrueOf

LEMMA EmptiedProcess ==
  ASSUME EmptiedInv, NEW n \in Nodes, ProcessNodeUpdate(n) \/ ProcessFails(n)
  PROVE  \A m \in Nodes : Emptied(m)'
<1>1. /\ StateTypes /\ node \in [Nodes -> NodeInfo] /\ node[n] \in NodeInfo
      /\ pods \in [Nodes -> [run : Nat, term : Nat]] /\ Emptied(n)
  BY DEF EmptiedInv, CalmInv, StateTypes
<1>2. /\ At(n) /\ Processed(n)
      /\ \A m \in Nodes \ {n} : node'[m] = node[m]
      /\ node'[n].current = node[n].current
      /\ node'[n].desired \in {node[n].desired, target}
  BY <1>1, ProcessWrites
<1>3. target = config /\ config # NoRev /\ config' = config
  BY <1>2 DEF At, Processed, poolVars, EmptiedInv, CalmInv
<1>4. /\ Behind(node'[n]) <=> Behind(node[n])
      /\ node'[n].desired = NoRev => node[n].desired = NoRev
  BY <1>2, <1>3 DEF Behind
<1>5. (node'[n].cordoned => node'[n].unsched) /\ pods'[n].run <= pods[n].run
      /\ \A m \in Nodes \ {n} : pods'[m] = pods[m]
  <2>1. CASE CordonNode(n)
    BY <1>1, <2>1, CordonWrites DEF CordonNode
  <2>2. CASE DrainNode(n)
    <3>1. node' = [node EXCEPT ![n] = StartDrain(node[n], view[n])]
      BY <2>2 DEF DrainNode
    <3>2. PICK k \in 0..pods[n].run : pods' = [pods EXCEPT ![n] = Evict(pods[n], k)]
      BY <2>2 DEF DrainNode
    <3>3. pods'[n].run <= pods[n].run /\ \A m \in Nodes \ {n} : pods'[m] = pods[m]
      BY <1>1, <3>2 DEF Evict
    <3> QED
      BY <1>1, <3>1, <3>3, StartDrainWrites DEF Emptied
  <2>3. CASE SkipCordon(n) \/ SetDesiredRevision(n)
    <3>1. PICK p \in PoolWritten(n) :
             node' = [node EXCEPT ![n] = SetDesired(node[n], target, p)]
      BY <2>3 DEF SkipCordon, SetDesiredRevision
    <3>2. p \in BOOLEAN /\ target \in AnyRev
      BY <1>1, <3>1 DEF PoolWritten, NodeInfo, StateTypes
    <3>3. pods' = pods
      BY <2>3 DEF SkipCordon, SetDesiredRevision
    <3> QED
      BY <1>1, <3>1, <3>2, <3>3, SetDesiredWrites DEF Emptied
  <2>4. CASE UncordonNode(n)
    <3>1. node' = [node EXCEPT ![n] = Uncordon(node[n])] /\ pods' = pods
      BY <2>4 DEF UncordonNode
    <3>2. ~Uncordon(node[n]).cordoned
      BY <1>1 DEF Uncordon, NodeInfo
    <3> QED
      BY <1>1, <3>1, <3>2
  <2>5. CASE WaitForAgent(n) \/ ProcessFails(n)
    BY <1>1, <2>5 DEF WaitForAgent, ProcessFails, Emptied
  <2> QED
    BY <2>1, <2>2, <2>3, <2>4, <2>5 DEF ProcessNodeUpdate
<1>6. pods[n].run \in Nat /\ pods'[n].run \in Nat
  <2>1. StateTypes'
    BY <1>1, ControllerTypeOK DEF Controller, ControllerFaults
  <2> QED
    BY <1>1, <2>1 DEF StateTypes
<1>7. node'[n].desired # NoRev /\ Behind(node'[n]) => pods'[n].run = 0
  <2>1. CASE node'[n].desired = node[n].desired
    BY <1>1, <1>4, <1>5, <1>6, <2>1 DEF Emptied
  <2>2. CASE node'[n].desired # node[n].desired
    <3>1. ProcessNodeUpdate(n)
      BY <2>2 DEF ProcessFails
    <3>2. SetDesiredRevision(n)
      BY <2>2, <3>1, AsksCordoned
    <3> QED
      BY <3>2 DEF SetDesiredRevision, IsDrainComplete
  <2> QED
    BY <2>1, <2>2
<1>8. Emptied(n)'
  BY <1>1, <1>3, <1>4, <1>5, <1>7 DEF Emptied, Behind
<1> QED
  BY <1>2, <1>3, <1>5, <1>8 DEF EmptiedInv, Emptied, Behind

LEMMA EmptiedAgent ==
  ASSUME EmptiedInv, NEW n \in Nodes, AgentStep(n) \/ AgentFaults(n)
  PROVE  \A m \in Nodes : Emptied(m)'
<1>1. StateTypes /\ OneTarget(n) /\ Emptied(n)
  BY DEF EmptiedInv, CalmInv
<1>2. /\ AgentOnly
      /\ \A m \in Nodes \ {n} : node'[m] = node[m]
      /\ node'[n].unsched = node[n].unsched /\ node'[n].cordoned = node[n].cordoned
      /\ node'[n].desired = node[n].desired
      /\ \/ node'[n].current = node[n].current
         \/ agent[n].phase = "apply" /\ node'[n].current = agent[n].work
  BY <1>1, AgentWrites
<1>3. UNCHANGED <<pods, config>>
  BY <1>2 DEF AgentOnly, poolVars
<1>4. /\ Behind(node'[n]) => Behind(node[n])
      /\ node[n].desired = NoRev => node'[n].current = node[n].current
  BY <1>1, <1>2 DEF OneTarget, Behind
<1>5. Emptied(n)'
  BY <1>1, <1>2, <1>3, <1>4 DEF Emptied, Behind
<1> QED
  BY <1>2, <1>3, <1>5 DEF EmptiedInv, Emptied, Behind

\* Pods start on nodes that take pods; the other steps leave nodes and pods alone.
LEMMA EmptiedOther ==
  ASSUME EmptiedInv, UNCHANGED <<node, config>>,
         \A n \in Nodes : pods'[n].run # pods[n].run => ~node[n].unsched
  PROVE  \A n \in Nodes : Emptied(n)'
<1> TAKE n \in Nodes
<1>1. Emptied(n) /\ (node[n].desired # NoRev /\ Behind(node[n]) => node[n].unsched)
  BY AskedIsCordoned DEF EmptiedInv
<1> QED
  BY <1>1 DEF Emptied, Behind

LEMMA EmptiedNext ==
  ASSUME Calm, EmptiedInv, [Next]_vars
  PROVE  EmptiedInv'
<1>1. CalmInv /\ StateTypes /\ CalmInv'
  BY CalmNext DEF EmptiedInv, CalmInv
<1>2. CASE \/ ReconcileEmpty \/ DebounceRestarts \/ DebounceElapses \/ ReconcileStart
           \/ UpdateStatus \/ CleanupOldRMCs \/ UpdateStatusFails \/ ControllerRestart
           \/ SyncCache \/ UNCHANGED vars
  <2>1. UNCHANGED <<node, pods, config>>
    BY <1>2 DEF ReconcileEmpty, DebounceRestarts, DebounceElapses, ReconcileStart,
                UpdateStatus, CleanupOldRMCs, UpdateStatusFails, ControllerRestart,
                SyncCache, vars, poolVars
  <2> QED
    BY <1>1, <2>1, EmptiedOther DEF EmptiedInv
<1>3. ASSUME NEW n \in Nodes, PodStarts(n) \/ PodEnds(n)
      PROVE  EmptiedInv'
  <2>1. pods \in [Nodes -> [run : Nat, term : Nat]] /\ UNCHANGED <<node, config>>
    BY <1>1, <1>3 DEF StateTypes, PodStarts, PodEnds, poolVars
  <2>2. \A m \in Nodes : pods'[m].run # pods[m].run => ~node[m].unsched
    BY <1>3, <2>1 DEF PodStarts, PodEnds
  <2> QED
    BY <1>1, <2>1, <2>2, EmptiedOther DEF EmptiedInv
<1>4. CASE Environment
  BY <1>1, <1>3, <1>4, CalmExcludes DEF Environment
<1>5. ASSUME NEW n \in Nodes, ProcessNodeUpdate(n) \/ ProcessFails(n)
      PROVE  EmptiedInv'
  BY <1>1, <1>5, EmptiedProcess DEF EmptiedInv
<1>6. ASSUME NEW n \in Nodes, AgentStep(n) \/ AgentFaults(n)
      PROVE  EmptiedInv'
  BY <1>1, <1>6, EmptiedAgent DEF EmptiedInv
<1> QED
  BY <1>2, <1>4, <1>5, <1>6 DEF Next, Controller, ControllerFaults

\* During one rollout, however old the lists are that the controller works from and
\* whatever fails or restarts, an agent changes the configuration of a node only
\* while the node is cordoned and drained (ProcessNodeUpdate, node_update.go).
THEOREM RolloutUpdatesDrained ==
  ASSUME Calm
  PROVE  Spec => []UpdatesDrained
<1>1. Init => EmptiedInv
  BY EmptiedInit
<1>2. EmptiedInv /\ [Next]_vars => EmptiedInv'
  BY EmptiedNext
<1>3. EmptiedInv => UpdatesDrained
  <2>1. ASSUME EmptiedInv, NEW n \in Nodes,
               agent[n].phase = "apply", agent[n].work # node[n].current
        PROVE  node[n].unsched /\ node[n].cordoned /\ pods[n].run = 0
    <3>1. OneTarget(n) /\ Emptied(n)
      BY <2>1 DEF EmptiedInv, CalmInv
    <3>2. node[n].desired # NoRev /\ Behind(node[n])
      BY <2>1, <3>1 DEF OneTarget, Behind
    <3> QED
      BY <2>1, <3>1, <3>2, AskedIsCordoned DEF Emptied
  <2> QED
    BY <2>1 DEF UpdatesDrained
<1> QED
  BY <1>1, <1>2, <1>3, PTL DEF Spec

\* During one rollout a revision is given only to a node that is cordoned at that
\* moment, even though the copy the controller has checked may be old
\* (ProcessNodeUpdate, node_update.go).
THEOREM RolloutDesiredCordoned ==
  ASSUME Calm
  PROVE  Spec => DesiredNeedsCordon
<1> DEFINE Step == \A n \in Nodes :
                      node'[n].desired # node[n].desired
                          => node[n].cordoned \/ (~node[n].pool /\ status.lastOK # NoRev)
<1>1. Init => EmptiedInv
  BY EmptiedInit
<1>2. EmptiedInv /\ [Next]_vars => EmptiedInv'
  BY EmptiedNext
<1>3. EmptiedInv /\ [Next]_vars => [Step]_vars
  <2> SUFFICES ASSUME EmptiedInv, Next, NEW n \in Nodes,
                      node'[n].desired # node[n].desired
               PROVE  node[n].cordoned
    OBVIOUS
  <2>1. StateTypes
    BY DEF EmptiedInv, CalmInv
  <2>2. PICK m \in Nodes : ProcessNodeUpdate(m)
    <3>1. ASSUME NEW m \in Nodes, AgentStep(m) \/ AgentFaults(m) PROVE FALSE
      BY <2>1, <3>1, AgentWrites
    <3>2. ~Environment
      BY <2>1, CalmExcludes DEF Environment, PodStarts, PodEnds
    <3> QED
      BY <3>1, <3>2
         DEF Next, Controller, ControllerFaults, ReconcileEmpty, DebounceRestarts,
             DebounceElapses, ReconcileStart, UpdateStatus, CleanupOldRMCs, ProcessFails,
             UpdateStatusFails, ControllerRestart, SyncCache
  <2>3. m = n
    BY <2>1, <2>2, ProcessWrites
  <2> QED
    BY <2>2, <2>3, AsksCordoned
<1> QED
  BY <1>1, <1>2, <1>3, PTL DEF Spec, DesiredNeedsCordon

=============================================================================
