---------------------------- MODULE UpdateProofs ----------------------------
(***************************************************************************)
(* What happens to a node during its update: theorems about PoolRollout    *)
(* for pools whose configurations only move forward, and that the pool's   *)
(* agents keep to AgentContract, for all pools.                            *)
(***************************************************************************)
EXTENDS RevisionProofs, RolloutContract

\* Lists are fresh and the pool never goes back to a configuration it has left,
\* as it would by a revert or by removing all MachineConfigs for a while.
Forward == FreshLists /\ "revert" \notin Env /\ "empty" \notin Env

(***************************************************************************)
(* The steps of an agent, by what they do to it and to its annotations.    *)
(***************************************************************************)

Takes(n) ==
    /\ agent[n].phase = "wait"
    /\ agent'[n].phase = "fetch" /\ agent'[n].backlog = NoRev
    /\ \/ /\ agent[n].backlog # NoRev /\ agent'[n].work = agent[n].backlog
       \/ /\ agent[n].backlog = NoRev /\ agent'[n].work = node[n].desired
          /\ node[n].desired \notin {NoRev, node[n].current}
    /\ node'[n] = node[n]

Applies(n) ==
    /\ agent[n].phase = "fetch"
    /\ agent'[n].phase = "apply" /\ agent'[n].work = agent[n].work
    /\ agent'[n].backlog \in {NoRev, node[n].desired}
    /\ node'[n].state = "applying" /\ node'[n].current = node[n].current

GivesUp(n) ==
    /\ \/ agent[n].phase = "fetch" /\ rmc[agent[n].work] = 0
       \/ /\ agent[n].phase \in {"fetch", "apply"}
          /\ agent[n].work # node[n].current \/ "reapplyError" \in Env
    /\ agent'[n] = AgentWaits(agent[n])
    /\ node'[n].state \in {"error", node[n].state} /\ node'[n].current = node[n].current

Finishes(n) ==
    /\ agent[n].phase = "apply"
    /\ agent'[n] = AgentWaits(agent[n])
    /\ node'[n].state = "done" /\ node'[n].current = agent[n].work

GoesDown(n) ==
    /\ agent[n].phase = "apply" /\ agent[n].work # node[n].current
    /\ agent'[n] = AgentIn("down")
    /\ node'[n].state \in {"rebooting", node[n].state} /\ node'[n].current = node[n].current

Starts(n) ==
    /\ agent[n].phase = "down" \/ "agentRestart" \in Env
    /\ agent'[n] = AgentIn("wait")
    /\ node'[n].state \in {"idle", node[n].state} /\ node'[n].current = node[n].current

LEMMA AgentMoves ==
  ASSUME StateTypes, NEW n \in Nodes, AgentStep(n) \/ AgentFaults(n)
  PROVE  Takes(n) \/ Applies(n) \/ GivesUp(n) \/ Finishes(n) \/ GoesDown(n) \/ Starts(n)
<1>1. /\ node \in [Nodes -> NodeInfo] /\ agent \in [Nodes -> AgentInfo]
      /\ node[n] \in NodeInfo /\ agent[n].work \in AnyRev
  BY DEF StateTypes, AgentInfo
<1>2. {"idle", "applying", "error", "rebooting"} \subseteq AgentStates
  BY DEF AgentStates
<1>3. CASE AgentTake(n)
  BY <1>1, <1>3 DEF AgentTake, Takes
<1>4. CASE AgentTakeQueued(n)
  BY <1>1, <1>4 DEF AgentTakeQueued, Takes
<1>5. CASE AgentApply(n)
  BY <1>1, <1>2, <1>5, SetStateWrites DEF AgentApply, Applies
<1>6. CASE AgentFetchFails(n)
  BY <1>1, <1>2, <1>6, SetStateWrites DEF AgentFetchFails, AgentGivesUp, GivesUp
<1>7. CASE AgentFetchError(n) \/ AgentApplyFails(n)
  <2>1. /\ agent[n].phase \in {"fetch", "apply"} /\ AgentGivesUp(n)
        /\ agent[n].work # node[n].current \/ "reapplyError" \in Env
    BY <1>7 DEF AgentFetchError, AgentApplyFails, HandlingFails, Fault
  <2> QED
    BY <1>1, <1>2, <2>1, SetStateWrites DEF AgentGivesUp, GivesUp
<1>8. CASE AgentDone(n)
  BY <1>1, <1>8, SetDoneWrites DEF AgentDone, Finishes
<1>9. CASE AgentReboots(n)
  BY <1>1, <1>2, <1>9, SetStateWrites DEF AgentReboots, GoesDown
<1>10. CASE AgentBoots(n) \/ AgentRestarts(n)
  <2>1. /\ agent[n].phase = "down" \/ "agentRestart" \in Env
        /\ AgentStarts(n)
    BY <1>10 DEF AgentBoots, AgentRestarts, Fault
  <2> QED
    BY <1>1, <1>2, <2>1, SetStateWrites DEF AgentStarts, Starts
<1>11. CASE AgentPatchLost(n)
  BY <1>1, <1>11
     DEF AgentPatchLost, HandlingFails, Fault, GivesUp, GoesDown, Starts
<1> QED
  BY <1>3, <1>4, <1>5, <1>6, <1>7, <1>8, <1>9, <1>10, <1>11 DEF AgentStep, AgentFaults

(***************************************************************************)
(* Requests are worked off in their order.                                 *)
(***************************************************************************)

\* What a node runs, what its agent works on, what waits in its watch and what
\* the node asks for were asked for in this order.
InTurn(n) ==
    /\ node[n].current <= node[n].desired
    /\ agent[n].phase \in {"fetch", "apply"} => agent[n].work # NoRev
    /\ agent[n].work # NoRev
          => node[n].current <= agent[n].work /\ agent[n].work <= node[n].desired
    /\ agent[n].backlog # NoRev
          => /\ node[n].current <= agent[n].backlog /\ agent[n].work <= agent[n].backlog
             /\ agent[n].backlog <= node[n].desired

\* A pass never asks for less than a node was asked for before, and a listed copy
\* never runs more than its node.
OrderInv ==
    /\ StateTypes
    /\ \A n \in Nodes : InTurn(n) /\ node[n].desired <= config
    /\ pc = "process" => /\ target # NoRev /\ target <= config
                         /\ \A n \in Nodes : node[n].desired <= target
    /\ \A n \in Todo : view[n].current <= node[n].current

LEMMA OrderInit ==
  ASSUME Init
  PROVE  OrderInv
<1>1. StateTypes
  BY InitTypeOK
<1>2. config \in Nat
  BY <1>1, RevisionsAssumption DEF StateTypes, AnyRev, NoRev
<1>3. Todo = {} /\ pc = "idle"
  BY DEF Init, Todo
<1>4. \A n \in Nodes : /\ node[n].current = 0 /\ node[n].desired = 0
                       /\ agent[n].phase = "down" /\ agent[n].work = 0 /\ agent[n].backlog = 0
  BY DEF Init, FreshNode, AgentIn, NoRev
<1> QED
  BY <1>1, <1>2, <1>3, <1>4 DEF OrderInv, InTurn, NoRev

\* Revisions are numbers, and so they can be compared.
LEMMA InfoHasNumbers ==
  ASSUME NEW nd \in NodeInfo
  PROVE  nd.current \in Nat /\ nd.desired \in Nat
<1>1. AnyRev \subseteq Nat
  BY RevisionsAssumption DEF AnyRev, NoRev
<1> QED
  BY <1>1 DEF NodeInfo

LEMMA RevsAreNumbers ==
  ASSUME StateTypes, NEW n \in Nodes
  PROVE  /\ node[n].current \in Nat /\ node[n].desired \in Nat
         /\ agent[n].work \in Nat /\ agent[n].backlog \in Nat
         /\ config \in Nat /\ target \in Nat
<1>1. AnyRev \subseteq Nat
  BY RevisionsAssumption DEF AnyRev, NoRev
<1>2. node[n] \in NodeInfo /\ agent[n] \in AgentInfo /\ config \in AnyRev /\ target \in AnyRev
  BY DEF StateTypes
<1> QED
  BY <1>1, <1>2, InfoHasNumbers DEF AgentInfo

LEMMA OrderAgent ==
  ASSUME OrderInv, NEW n \in Nodes, AgentStep(n) \/ AgentFaults(n)
  PROVE  OrderInv'
<1>1. StateTypes /\ StateTypes' /\ InTurn(n)
  BY AgentTypeOK DEF OrderInv
<1>2. /\ AgentOnly
      /\ \A m \in Nodes \ {n} : node'[m] = node[m] /\ agent'[m] = agent[m]
      /\ node'[n].desired = node[n].desired
  BY <1>1, AgentWrites
<1>3. UNCHANGED <<config, pc, target, view>> /\ Todo' = Todo /\ Todo \subseteq Nodes
  BY <1>1, <1>2 DEF AgentOnly, poolVars, ctlVars, Todo, StateTypes
<1>4. InTurn(n)' /\ node[n].current <= node'[n].current
  <2>1. /\ node[n].current \in Nat /\ node[n].desired \in Nat
        /\ agent[n].work \in Nat /\ agent[n].backlog \in Nat
    BY <1>1, RevsAreNumbers
  <2>2. CASE Takes(n)
    BY <1>1, <1>2, <2>1, <2>2 DEF Takes, InTurn, NoRev
  <2>3. CASE Applies(n)
    BY <1>1, <1>2, <2>1, <2>3 DEF Applies, InTurn, NoRev
  <2>4. CASE GivesUp(n)
    BY <1>1, <1>2, <2>1, <2>4 DEF GivesUp, AgentWaits, InTurn, NoRev
  <2>5. CASE Finishes(n)
    BY <1>1, <1>2, <2>1, <2>5 DEF Finishes, AgentWaits, InTurn, NoRev
  <2>6. CASE GoesDown(n) \/ Starts(n)
    BY <1>1, <1>2, <2>1, <2>6 DEF GoesDown, Starts, AgentIn, InTurn, NoRev
  <2> QED
    BY <1>1, <2>2, <2>3, <2>4, <2>5, <2>6, AgentMoves
<1>5. ASSUME NEW m \in Nodes
      PROVE  InTurn(m)' /\ node'[m].desired = node[m].desired
             /\ node[m].current <= node'[m].current
  <2>1. CASE m = n
    BY <1>2, <1>4, <2>1
  <2>2. CASE m # n
    BY <1>1, <1>2, <2>2, RevsAreNumbers DEF OrderInv, InTurn
  <2> QED
    BY <2>1, <2>2
<1>6. ASSUME NEW m \in Todo' PROVE view'[m].current <= node'[m].current
  <2>1. m \in Nodes /\ m \in Todo /\ view[m].current <= node[m].current
    BY <1>3, <1>6 DEF OrderInv
  <2>2. view[m] \in NodeInfo /\ node[m] \in NodeInfo /\ node'[m] \in NodeInfo
    BY <1>1, <2>1 DEF StateTypes
  <2>3. view[m].current \in Nat /\ node[m].current \in Nat /\ node'[m].current \in Nat
    BY <2>2, InfoHasNumbers
  <2> QED
    BY <1>3, <1>5, <2>1, <2>3
<1> QED
  BY <1>1, <1>3, <1>5, <1>6 DEF OrderInv

LEMMA OrderProcess ==
  ASSUME OrderInv, NEW n \in Nodes, ProcessNodeUpdate(n) \/ ProcessFails(n)
  PROVE  OrderInv'
<1>1. StateTypes /\ StateTypes'
  BY ControllerTypeOK DEF OrderInv, Controller, ControllerFaults
<1>2. /\ At(n) /\ Processed(n)
      /\ \A m \in Nodes \ {n} : node'[m] = node[m]
      /\ node'[n].current = node[n].current
      /\ node'[n].desired \in {node[n].desired, target}
  BY <1>1, ProcessWrites
<1>3. /\ UNCHANGED <<config, pc, target, agent>> /\ pc = "process"
      /\ Todo' = Todo \ {n} /\ \A m \in Todo' : view'[m] = view[m]
  BY <1>2 DEF Processed, poolVars, Restrict, Todo, At
<1>4. ASSUME NEW m \in Nodes
      PROVE  InTurn(m)' /\ node'[m].desired <= target /\ node'[m].desired <= config
             /\ node'[m].current = node[m].current
  <2>1. /\ node[m].current \in Nat /\ node[m].desired \in Nat
        /\ agent[m].work \in Nat /\ agent[m].backlog \in Nat
        /\ target \in Nat /\ config \in Nat
    BY <1>1, RevsAreNumbers
  <2>2. InTurn(m) /\ node[m].desired <= target /\ target <= config
    BY <1>3 DEF OrderInv
  <2>3. /\ node'[m].current = node[m].current
        /\ node'[m].desired \in {node[m].desired, target}
    BY <1>2
  <2> QED
    BY <1>3, <2>1, <2>2, <2>3 DEF InTurn
<1>5. \A m \in Todo' : view'[m].current <= node'[m].current
  <2>1. Todo \subseteq Nodes
    BY <1>1 DEF StateTypes
  <2> QED
    BY <1>3, <1>4, <2>1 DEF OrderInv
<1> QED
  BY <1>1, <1>3, <1>4, <1>5 DEF OrderInv

\* A pass asks for the latest configuration.
LEMMA OrderStart ==
  ASSUME FreshLists, OrderInv, ReconcileStart
  PROVE  OrderInv'
<1>1. StateTypes /\ StateTypes'
  BY ControllerTypeOK DEF OrderInv, Controller
<1>2. /\ UNCHANGED <<node, config, agent>>
      /\ target' = config /\ config # NoRev /\ config \in Nat
      /\ \E all \in PassNodes : view' = [m \in NodesToProcess(node, all, config) |-> node[m]]
  BY <1>1, RevisionsAssumption
     DEF ReconcileStart, poolVars, Restrict, Listed, FreshLists, StateTypes, AnyRev, NoRev
<1>3. \A n \in Nodes : InTurn(n)' /\ node'[n].desired <= config
  BY <1>2 DEF OrderInv, InTurn
<1>4. ASSUME NEW n \in Todo' PROVE view'[n].current <= node'[n].current
  <2>1. n \in Nodes /\ view'[n] = node[n]
    BY <1>1, <1>2, <1>4 DEF StateTypes, Todo
  <2> QED
    BY <1>1, <1>2, <2>1, RevsAreNumbers
<1> QED
  BY <1>1, <1>2, <1>3, <1>4 DEF OrderInv

\* The other steps give out nothing and do not go back.
LEMMA OrderOther ==
  ASSUME OrderInv, StateTypes',
         \A n \in Nodes : /\ node'[n].current = node[n].current
                          /\ node'[n].desired = node[n].desired,
         UNCHANGED agent,
         config <= config',
         Todo' \subseteq Todo, \A n \in Todo' : view'[n] = view[n],
         pc' = "process" => pc = "process" /\ target' = target
  PROVE  OrderInv'
<1>1. \A n \in Nodes : InTurn(n)'
  BY DEF OrderInv, InTurn
<1>2. Todo \subseteq Nodes /\ config \in Nat /\ config' \in Nat /\ target \in Nat
  BY RevisionsAssumption DEF OrderInv, StateTypes, AnyRev, NoRev
<1>3. \A n \in Nodes : node[n].desired \in Nat
  BY RevsAreNumbers DEF OrderInv
<1>4. \A n \in Nodes : node'[n].desired <= config'
  BY <1>2, <1>3 DEF OrderInv
<1>5. pc' = "process" => /\ target' # NoRev /\ target' <= config'
                         /\ \A n \in Nodes : node'[n].desired <= target'
  BY <1>2 DEF OrderInv
<1> QED
  BY <1>1, <1>2, <1>4, <1>5 DEF OrderInv

\* People and the cluster leave the agents and their annotations alone.
LEMMA EnvironmentAgents ==
  ASSUME StateTypes, Environment
  PROVE  /\ UNCHANGED <<ctlVars, agent>>
         /\ \A m \in Nodes : /\ node'[m].current = node[m].current
                             /\ node'[m].state = node[m].state
<1>1. node \in [Nodes -> NodeInfo]
  BY DEF StateTypes
<1>2. UNCHANGED <<ctlVars, agent>>
  BY DEF Environment, ConfigChange, AdminPausesPool, PodStarts, PodEnds, AdminPauses,
         AdminCordons, AdminUncordons, NodeJoins, NodeLeaves, OverlapChanges
<1>3. ASSUME NEW n \in Nodes, AdminPauses(n)
      PROVE  \A m \in Nodes : /\ node'[m].current = node[m].current
                              /\ node'[m].state = node[m].state
  BY <1>1, <1>3 DEF AdminPauses, NodeInfo
<1>4. ASSUME NEW n \in Nodes, AdminCordons(n) \/ AdminUncordons(n)
      PROVE  \A m \in Nodes : /\ node'[m].current = node[m].current
                              /\ node'[m].state = node[m].state
  BY <1>1, <1>4 DEF AdminCordons, AdminUncordons, NodeInfo
<1>5. \/ node' = node
      \/ \E n \in Nodes : AdminPauses(n) \/ AdminCordons(n) \/ AdminUncordons(n)
  BY DEF Environment, ConfigChange, AdminPausesPool, PodStarts, PodEnds, NodeJoins, NodeLeaves,
         OverlapChanges
<1> QED
  BY <1>2, <1>3, <1>4, <1>5

LEMMA EnvironmentOrder ==
  ASSUME Forward, StateTypes, Environment
  PROVE  /\ UNCHANGED <<ctlVars, agent>>
         /\ config <= config'
         /\ \A m \in Nodes : /\ node'[m].current = node[m].current
                             /\ node'[m].state = node[m].state
<1>1. config \in Nat
  BY RevisionsAssumption DEF StateTypes, AnyRev, NoRev
<1>2. ASSUME NEW r \in AnyRev, ConfigChange(r) PROVE config <= config'
  BY <1>1, <1>2, RevisionsAssumption DEF ConfigChange, Forward, AnyRev, NoRev
<1>3. config' = config \/ \E r \in AnyRev : ConfigChange(r)
  BY DEF Environment, AdminPausesPool, PodStarts, PodEnds, AdminPauses, AdminCordons,
         AdminUncordons, NodeJoins, NodeLeaves, OverlapChanges, poolVars
<1> QED
  BY <1>1, <1>2, <1>3, EnvironmentAgents

\* The steps of the controller that leave the nodes and their agents alone.
Bookkeeping ==
    \/ ReconcileEmpty \/ DebounceRestarts \/ DebounceElapses \/ UpdateStatus \/ CleanupOldRMCs
    \/ UpdateStatusFails \/ ControllerRestart

LEMMA BookkeepingWrites ==
  ASSUME StateTypes, Bookkeeping
  PROVE  /\ StateTypes'
         /\ UNCHANGED <<node, agent, pods, poolVars>>
         /\ Todo' \subseteq Todo /\ \A n \in Todo' : view'[n] = view[n]
         /\ pc' = "process" => pc = "process" /\ target' = target
<1>1. StateTypes'
  BY ControllerTypeOK DEF Bookkeeping, Controller, ControllerFaults
<1>2. CASE ControllerRestart
  BY <1>1, <1>2 DEF ControllerRestart, Restrict, Todo
<1>3. CASE ReconcileEmpty \/ DebounceRestarts \/ DebounceElapses
  BY <1>1, <1>3 DEF ReconcileEmpty, DebounceRestarts, DebounceElapses, Todo
<1>4. CASE UpdateStatus \/ CleanupOldRMCs \/ UpdateStatusFails
  BY <1>1, <1>4 DEF UpdateStatus, CleanupOldRMCs, UpdateStatusFails, Todo
<1> QED
  BY <1>2, <1>3, <1>4 DEF Bookkeeping

\* With fresh lists a step is one of these.
LEMMA NextSplits ==
  ASSUME FreshLists, Next
  PROVE  \/ Bookkeeping \/ ReconcileStart \/ Environment
         \/ \E n \in Nodes : ProcessNodeUpdate(n) \/ ProcessFails(n)
         \/ \E n \in Nodes : AgentStep(n) \/ AgentFaults(n)
BY DEF FreshLists, Next, Controller, ControllerFaults, SyncCache, Bookkeeping

LEMMA OrderNext ==
  ASSUME Forward, OrderInv, [Next]_vars
  PROVE  OrderInv'
<1>1. StateTypes /\ config \in Nat /\ FreshLists
  BY RevisionsAssumption DEF OrderInv, StateTypes, AnyRev, NoRev, Forward
<1>2. CASE UNCHANGED vars
  <2>1. StateTypes'
    BY <1>1, <1>2 DEF StateTypes, vars, poolVars, ctlVars, Todo
  <2> QED
    BY <1>1, <1>2, <2>1, OrderOther DEF vars, poolVars, ctlVars, Todo
<1>3. CASE Bookkeeping
  BY <1>1, <1>3, BookkeepingWrites, OrderOther DEF poolVars
<1>4. CASE Environment
  <2>1. StateTypes'
    BY <1>1, <1>4, EnvironmentTypeOK
  <2>2. \A m \in Nodes : node'[m].desired = node[m].desired
    BY <1>1, <1>4, EnvironmentWrites
  <2> QED
    BY <1>1, <1>4, <2>1, <2>2, EnvironmentOrder, OrderOther DEF ctlVars, Todo
<1> QED
  BY <1>1, <1>2, <1>3, <1>4, NextSplits, OrderStart, OrderProcess, OrderAgent

(***************************************************************************)
(* Updates happen on drained nodes.                                        *)
(***************************************************************************)

\* Nobody but the controller uncordons a node, and the pool gets no new nodes,
\* which would be given their first configuration without a drain.
Undisturbed == Forward /\ "uncordon" \notin Env /\ "join" \notin Env

\* UpdatesDrained speaks of an agent that is applying; the node must have been
\* drained, and have stayed so, since it was asked for something new.
Drained(n) ==
    /\ node[n].cordoned => node[n].unsched
    /\ node[n].desired # node[n].current => node[n].cordoned /\ pods[n].run = 0

\* A pool that has rolled out has no node that would pass for a new one.
NoNewNodes ==
    status.lastOK # NoRev
        => /\ \A n \in members : node[n].current # NoRev
           /\ \A n \in Todo : view[n].current # NoRev

DrainedInv ==
    /\ OrderInv
    /\ CopyInv
    /\ Todo # {} => pc = "process"
    /\ \A n \in Nodes : Drained(n)
    /\ NoNewNodes

LEMMA DrainedInit ==
  ASSUME Init
  PROVE  DrainedInv
<1>1. OrderInv /\ Todo = {} /\ status.lastOK = NoRev
  BY OrderInit DEF Init, Todo
<1>2. \A n \in Nodes : Drained(n)
  BY DEF Init, FreshNode, Drained
<1> QED
  BY <1>1, <1>2 DEF DrainedInv, CopyInv, OrderInv, NoNewNodes

\* What ProcessNodeUpdate does to a node that it is not done with.
LEMMA DrainedProcess ==
  ASSUME Undisturbed, DrainedInv, NEW n \in Nodes, ProcessNodeUpdate(n) \/ ProcessFails(n)
  PROVE  DrainedInv'
<1>1. StateTypes /\ StateTypes' /\ OrderInv' /\ CopyInv'
  BY ControllerTypeOK, OrderProcess, CopyProcess
     DEF DrainedInv, OrderInv, Controller, ControllerFaults
<1>2. /\ At(n) /\ Processed(n)
      /\ \A m \in Nodes \ {n} : node'[m] = node[m]
      /\ node'[n].current = node[n].current
  BY <1>1, ProcessWrites
<1>3. /\ UNCHANGED <<members, status, pc>> /\ pc = "process" /\ n \in Todo
      /\ Todo' = Todo \ {n} /\ \A m \in Todo' : view'[m] = view[m]
  BY <1>2 DEF Processed, poolVars, Restrict, Todo, At
<1>4. /\ node \in [Nodes -> NodeInfo] /\ node[n] \in NodeInfo /\ view[n] \in NodeInfo
      /\ pods \in [Nodes -> [run : Nat, term : Nat]]
      /\ node[n].current \in Nat /\ node[n].desired \in Nat /\ target \in AnyRev
      /\ target \in Nat
  BY <1>1, <1>3, RevsAreNumbers DEF StateTypes
<1>5. /\ Drained(n) /\ InTurn(n) /\ node[n].desired <= target /\ target # NoRev
      /\ view[n].current <= node[n].current
      /\ view[n].cordoned => node[n].cordoned
      /\ status.lastOK # NoRev => view[n].current # NoRev
  BY <1>3 DEF DrainedInv, OrderInv, CopyInv, CopyHolds, NoNewNodes
<1>6. Drained(n)' /\ \A m \in Nodes \ {n} : pods'[m] = pods[m]
  <2>1. ~SkipCordon(n)
    BY <1>5 DEF SkipCordon, SkipsCordon, IsNewNode
  <2>2. CASE CordonNode(n)
    <3>1. node' = [node EXCEPT ![n] = Cordon(node[n])] /\ pods' = pods
      BY <2>2 DEF CordonNode
    <3> QED
      BY <1>4, <1>5, <3>1, CordonWrites DEF Drained
  <2>3. CASE DrainNode(n)
    <3>1. /\ node' = [node EXCEPT ![n] = StartDrain(node[n], view[n])]
          /\ pods[n].run > 0
      BY <2>3 DEF DrainNode
    <3>2. PICK k \in 0..pods[n].run : pods' = [pods EXCEPT ![n] = Evict(pods[n], k)]
      BY <2>3 DEF DrainNode
    <3>3. node[n].desired = node[n].current
      BY <1>4, <1>5, <3>1 DEF Drained
    <3> QED
      BY <1>4, <1>5, <3>1, <3>2, <3>3, StartDrainWrites DEF Drained
  <2>4. CASE SetDesiredRevision(n)
    <3>1. /\ node[n].cordoned /\ pods[n].run = 0 /\ pods' = pods
      BY <1>5, <2>4 DEF SetDesiredRevision, IsNodeCordoned, IsDrainComplete
    <3>2. PICK p \in PoolWritten(n) :
             node' = [node EXCEPT ![n] = SetDesired(node[n], target, p)]
      BY <2>4 DEF SetDesiredRevision
    <3>3. p \in BOOLEAN
      BY <1>4 DEF PoolWritten, NodeInfo
    <3>4. node'[n].cordoned = node[n].cordoned /\ node'[n].unsched = node[n].unsched
      BY <1>4, <3>2, <3>3, SetDesiredWrites
    <3> QED
      BY <1>5, <3>1, <3>4 DEF Drained
  <2>5. CASE UncordonNode(n)
    <3>1. /\ node' = [node EXCEPT ![n] = Uncordon(node[n])] /\ pods' = pods
          /\ view[n].current = target
      BY <2>5 DEF UncordonNode, ShouldUncordon
    <3>2. node[n].desired = node[n].current
      BY <1>4, <1>5, <3>1 DEF InTurn
    <3>3. /\ ~Uncordon(node[n]).cordoned
          /\ Uncordon(node[n]).desired = node[n].desired
          /\ Uncordon(node[n]).current = node[n].current
      BY <1>4, UncordonWrites DEF Uncordon, NodeInfo
    <3> QED
      BY <1>4, <3>1, <3>2, <3>3 DEF Drained
  <2>6. CASE WaitForAgent(n) \/ ProcessFails(n)
    BY <1>5, <2>6 DEF WaitForAgent, ProcessFails, Drained
  <2> QED
    BY <2>1, <2>2, <2>3, <2>4, <2>5, <2>6 DEF ProcessNodeUpdate
<1>7. \A m \in Nodes : Drained(m)' /\ node'[m].current = node[m].current
  BY <1>2, <1>6 DEF DrainedInv, Drained
<1>8. NoNewNodes'
  <2>1. members \subseteq Nodes
    BY <1>1 DEF StateTypes
  <2> QED
    BY <1>3, <1>7, <2>1 DEF DrainedInv, NoNewNodes
<1> QED
  BY <1>1, <1>3, <1>7, <1>8 DEF DrainedInv

LEMMA DrainedAgent ==
  ASSUME DrainedInv, NEW n \in Nodes, AgentStep(n) \/ AgentFaults(n)
  PROVE  DrainedInv'
<1>1. StateTypes /\ StateTypes' /\ OrderInv /\ OrderInv' /\ InTurn(n)
  BY OrderAgent DEF DrainedInv, OrderInv
<1>2. /\ AgentOnly
      /\ \A m \in Nodes \ {n} : node'[m] = node[m]
      /\ node'[n].desired = node[n].desired
      /\ node'[n].cordoned = node[n].cordoned /\ node'[n].unsched = node[n].unsched
      /\ node'[n].pool = node[n].pool
      /\ \/ node'[n].current = node[n].current
         \/ agent[n].phase = "apply" /\ node'[n].current = agent[n].work
  BY <1>1, AgentWrites
<1>3. UNCHANGED <<pods, members, pc, status, view>> /\ Todo' = Todo
  BY <1>2 DEF AgentOnly, poolVars, ctlVars, Todo
<1>4. CopyInv'
  BY <1>1, <1>2, <1>3, CopyOther DEF DrainedInv
<1>5. Drained(n)' /\ (node[n].current # NoRev => node'[n].current # NoRev)
  <2>1. /\ node[n].current \in Nat /\ node[n].desired \in Nat /\ agent[n].work \in Nat
        /\ Drained(n)
    BY <1>1, RevsAreNumbers DEF DrainedInv
  <2> QED
    BY <1>1, <1>2, <1>3, <2>1 DEF InTurn, Drained
<1>6. \A m \in Nodes : Drained(m)' /\ (node[m].current # NoRev => node'[m].current # NoRev)
  BY <1>2, <1>3, <1>5 DEF DrainedInv, Drained
<1>7. NoNewNodes'
  <2>1. members \subseteq Nodes
    BY <1>1 DEF StateTypes
  <2> QED
    BY <1>3, <1>6, <2>1 DEF DrainedInv, NoNewNodes
<1> QED
  BY <1>1, <1>3, <1>4, <1>6, <1>7 DEF DrainedInv

LEMMA DrainedStart ==
  ASSUME Undisturbed, DrainedInv, ReconcileStart
  PROVE  DrainedInv'
<1>1. StateTypes /\ FreshLists /\ OrderInv'
  BY OrderStart DEF Undisturbed, Forward, DrainedInv, OrderInv
<1>2. CopyInv'
  <2>1. [Next]_vars
    BY DEF Next, Controller
  <2> QED
    BY <1>1, <2>1, CopyNext DEF DrainedInv
<1>3. /\ UNCHANGED <<node, pods, members, status>> /\ pc' = "process"
      /\ \E all \in PassNodes : view' = [m \in NodesToProcess(node, all, config) |-> node[m]]
  BY <1>1 DEF ReconcileStart, poolVars, Restrict, Listed, FreshLists
<1>4. \A all \in PassNodes : NodesToProcess(node, all, config) \subseteq members
  BY SelectionOfPool DEF PassNodes, Managed
<1>5. NoNewNodes'
  BY <1>3, <1>4 DEF DrainedInv, NoNewNodes, Todo
<1>6. \A n \in Nodes : Drained(n)'
  BY <1>3 DEF DrainedInv, Drained
<1> QED
  BY <1>1, <1>2, <1>3, <1>5, <1>6 DEF DrainedInv

\* LastSuccessfulRevision is set when all nodes of the pool have the target.
LEMMA DrainedBookkeeping ==
  ASSUME Undisturbed, DrainedInv, Bookkeeping
  PROVE  DrainedInv'
<1>1. StateTypes /\ FreshLists /\ [Next]_vars
  BY DEF Undisturbed, Forward, DrainedInv, OrderInv, Bookkeeping, Next, Controller,
         ControllerFaults
<1>2. OrderInv' /\ CopyInv'
  BY <1>1, OrderNext, CopyNext DEF DrainedInv, Undisturbed
<1>3. /\ UNCHANGED <<node, pods, members>>
      /\ Todo' \subseteq Todo /\ \A n \in Todo' : view'[n] = view[n]
  BY <1>1, BookkeepingWrites DEF poolVars
<1>4. Todo' # {} => pc' = "process"
  BY <1>3 DEF DrainedInv, Bookkeeping, ReconcileEmpty, DebounceRestarts, DebounceElapses,
              UpdateStatus, CleanupOldRMCs, UpdateStatusFails, ControllerRestart, Restrict, Todo
<1>5. \A n \in Nodes : Drained(n)'
  BY <1>3 DEF DrainedInv, Drained
<1>6. NoNewNodes'
  <2>1. CASE UpdateStatus
    <3>1. Todo = {} /\ view' = view /\ target # NoRev
      BY <2>1 DEF UpdateStatus, DrainedInv, OrderInv
    <3>2. \/ status'.lastOK = status.lastOK
          \/ \A n \in members : node[n].current = target
      BY <1>1, <2>1 DEF UpdateStatus, Successful, Listed, FreshLists
    <3> QED
      BY <1>3, <3>1, <3>2 DEF DrainedInv, NoNewNodes, Todo
  <2>2. CASE ~UpdateStatus
    <3>1. status'.lastOK = status.lastOK
      BY <1>1, <2>2 DEF StateTypes, Bookkeeping, ReconcileEmpty, DebounceRestarts, DebounceElapses,
                        CleanupOldRMCs, UpdateStatusFails, ControllerRestart
    <3> QED
      BY <1>3, <3>1 DEF DrainedInv, NoNewNodes
  <2> QED
    BY <2>1, <2>2
<1> QED
  BY <1>2, <1>4, <1>5, <1>6 DEF DrainedInv

\* Pods start only where they are allowed to.
LEMMA DrainedEnvironment ==
  ASSUME Undisturbed, DrainedInv, Environment
  PROVE  DrainedInv'
<1>1. StateTypes /\ StateTypes' /\ FreshLists /\ Forward /\ [Next]_vars
  BY EnvironmentTypeOK DEF Undisturbed, Forward, DrainedInv, OrderInv, Next
<1>2. OrderInv' /\ CopyInv'
  BY <1>1, OrderNext, CopyNext DEF DrainedInv
<1>3. /\ UNCHANGED <<pc, status, view>> /\ Todo' = Todo
      /\ \A n \in Nodes : /\ node'[n].current = node[n].current
                           /\ node'[n].desired = node[n].desired
                           /\ node'[n].cordoned = node[n].cordoned
  BY <1>1, EnvironmentOrder, EnvironmentWrites DEF ctlVars, Todo
<1>4. members' \subseteq members /\ members \subseteq Nodes
  BY <1>1 DEF StateTypes, Undisturbed, Environment, ConfigChange, AdminPausesPool, PodStarts, PodEnds,
              AdminPauses, AdminCordons, AdminUncordons, NodeJoins, NodeLeaves, OverlapChanges,
              Admin, poolVars
<1>5. /\ node \in [Nodes -> NodeInfo]
      /\ pods \in [Nodes -> [run : Nat, term : Nat]]
  BY <1>1 DEF StateTypes
<1>6. \A n \in Nodes : node[n].unsched => node'[n].unsched /\ pods'[n].run = pods[n].run
  <2>1. ASSUME NEW n \in Nodes, AdminPauses(n) \/ AdminCordons(n)
        PROVE  \A m \in Nodes : node[m].unsched => node'[m].unsched /\ pods'[m].run = pods[m].run
    BY <1>5, <2>1 DEF AdminPauses, AdminCordons, NodeInfo
  <2>2. ASSUME NEW n \in Nodes, PodStarts(n) \/ PodEnds(n)
        PROVE  \A m \in Nodes : node[m].unsched => node'[m].unsched /\ pods'[m].run = pods[m].run
    BY <1>5, <2>2 DEF PodStarts, PodEnds
  <2>3. CASE UNCHANGED <<node, pods>>
    BY <2>3
  <2> QED
    BY <2>1, <2>2, <2>3
       DEF Undisturbed, Environment, ConfigChange, AdminPausesPool, AdminUncordons, NodeJoins,
           NodeLeaves, OverlapChanges, Admin
<1>7. \A n \in Nodes : Drained(n)'
  BY <1>3, <1>6 DEF DrainedInv, Drained
<1>8. NoNewNodes'
  BY <1>3, <1>4 DEF DrainedInv, NoNewNodes
<1> QED
  BY <1>2, <1>3, <1>7, <1>8 DEF DrainedInv

LEMMA DrainedNext ==
  ASSUME Undisturbed, DrainedInv, [Next]_vars
  PROVE  DrainedInv'
<1>1. FreshLists /\ Forward
  BY DEF Undisturbed, Forward
<1>2. CASE UNCHANGED vars
  <2>1. OrderInv' /\ CopyInv'
    BY <1>1, OrderNext, CopyNext DEF DrainedInv
  <2> QED
    BY <1>2, <2>1 DEF vars, poolVars, ctlVars, Todo, DrainedInv, Drained, NoNewNodes
<1> QED
  BY <1>1, <1>2, NextSplits, DrainedBookkeeping, DrainedStart, DrainedEnvironment,
     DrainedProcess, DrainedAgent

\* An agent changes the configuration of a node only while the node is cordoned
\* and drained: for every cluster, budget and order, whatever fails or restarts,
\* while admins pause nodes and pools, cordon nodes, take nodes out of the pool
\* or let pools overlap, as long as nobody uncordons a node behind the
\* controller's back and configurations only move forward.
THEOREM UpdatesOnDrained ==
  ASSUME Undisturbed
  PROVE  Spec => []UpdatesDrained
<1>1. Init => DrainedInv
  BY DrainedInit
<1>2. DrainedInv /\ [Next]_vars => DrainedInv'
  BY DrainedNext
<1>3. DrainedInv => UpdatesDrained
  <2>1. ASSUME DrainedInv, NEW n \in Nodes,
               agent[n].phase = "apply", agent[n].work # node[n].current
        PROVE  node[n].unsched /\ node[n].cordoned /\ pods[n].run = 0
    <3>1. /\ InTurn(n) /\ Drained(n)
          /\ node[n].current \in Nat /\ node[n].desired \in Nat /\ agent[n].work \in Nat
      BY <2>1, RevsAreNumbers DEF DrainedInv, OrderInv
    <3> QED
      BY <2>1, <3>1 DEF InTurn, Drained
  <2> QED
    BY <2>1 DEF UpdatesDrained
<1> QED
  BY <1>1, <1>2, <1>3, PTL DEF Spec

(***************************************************************************)
(* A node that has what it was asked for can be released.                  *)
(***************************************************************************)

\* Nothing sets the state of a node back once it is done: agents do not restart,
\* and when they handle a revision that the node has a second time, neither the
\* fetch nor the apply nor a patch fails.  The first time all of them may.  No node leaves the
\* pool, so that the agents find the rendered configs they are asked for.
Steady ==
    /\ Forward
    /\ "leave" \notin Env /\ "agentRestart" \notin Env /\ "reapplyError" \notin Env

\* NotStranded for nodes in and out of cordon; a host that is down is not done.
Settled(n) ==
    node[n].desired # NoRev /\ node[n].desired = node[n].current
        => /\ agent[n].phase # "down"
           /\ agent[n] = AgentIn("wait") => node[n].state = "done"

SettledInv == OrderInv /\ KeptInv /\ \A n \in Nodes : Settled(n)

LEMMA SettledInit ==
  ASSUME Init
  PROVE  SettledInv
<1>1. \A n \in Nodes : node[n].desired = NoRev
  BY DEF Init, FreshNode
<1> QED
  BY <1>1, OrderInit, KeptInit DEF SettledInv, Settled

LEMMA SettledAgent ==
  ASSUME Steady, SettledInv, NEW n \in Nodes, AgentStep(n) \/ AgentFaults(n)
  PROVE  \A m \in Nodes : Settled(m)'
<1>1. StateTypes /\ InTurn(n) /\ Settled(n) /\ Kept(n)
  BY DEF SettledInv, OrderInv, KeptInv
<1>2. /\ \A m \in Nodes \ {n} : node'[m] = node[m] /\ agent'[m] = agent[m]
      /\ node'[n].desired = node[n].desired
  BY <1>1, AgentWrites
<1>3. /\ node[n].current \in Nat /\ node[n].desired \in Nat
      /\ agent[n].work \in Nat /\ agent[n].backlog \in Nat
  BY <1>1, RevsAreNumbers
<1>4. Settled(n)'
  <2>1. CASE Takes(n) \/ Applies(n)
    BY <2>1 DEF Takes, Applies, Settled, AgentIn
  <2>2. CASE GivesUp(n)
    \* The config an agent misses is not the one its node has and asks for.
    <3>1. node[n].desired = node[n].current /\ node[n].desired # NoRev
             => agent[n].work = node[n].desired
      BY <1>1, <1>3, <2>2 DEF GivesUp, InTurn
    <3>2. ~(node[n].desired = node[n].current /\ node[n].desired # NoRev)
      BY <1>1, <2>2, <3>1 DEF GivesUp, Kept, Steady
    <3> QED
      BY <1>2, <2>2, <3>2 DEF GivesUp, Settled
  <2>3. CASE Finishes(n)
    BY <2>3 DEF Finishes, Settled, AgentWaits
  <2>4. CASE GoesDown(n)
    <3>1. node[n].desired # node[n].current
      BY <1>1, <1>3, <2>4 DEF GoesDown, InTurn
    <3> QED
      BY <1>2, <2>4, <3>1 DEF GoesDown, Settled
  <2>5. CASE Starts(n)
    BY <1>1, <1>2, <2>5 DEF Starts, Settled, Steady
  <2> QED
    BY <1>1, <2>1, <2>2, <2>3, <2>4, <2>5, AgentMoves
<1> QED
  BY <1>2, <1>4 DEF SettledInv, Settled

LEMMA SettledProcess ==
  ASSUME SettledInv, NEW n \in Nodes, ProcessNodeUpdate(n) \/ ProcessFails(n)
  PROVE  \A m \in Nodes : Settled(m)'
<1>1. StateTypes /\ InTurn(n) /\ Settled(n)
  BY DEF SettledInv, OrderInv
<1>2. /\ At(n) /\ Processed(n)
      /\ \A m \in Nodes \ {n} : node'[m] = node[m]
      /\ node'[n].current = node[n].current /\ node'[n].state = node[n].state
      /\ node'[n].desired \in {node[n].desired, target}
  BY <1>1, ProcessWrites
<1>3. agent' = agent /\ node[n].desired <= target /\ target # NoRev
  BY <1>2 DEF Processed, At, SettledInv, OrderInv
<1>4. node[n].current \in Nat /\ node[n].desired \in Nat /\ target \in Nat
  BY <1>1, RevsAreNumbers
<1>5. Settled(n)'
  BY <1>1, <1>2, <1>3, <1>4 DEF InTurn, Settled
<1> QED
  BY <1>2, <1>3, <1>5 DEF SettledInv, Settled

LEMMA SettledNext ==
  ASSUME Steady, SettledInv, [Next]_vars
  PROVE  SettledInv'
<1>1. StateTypes /\ FreshLists /\ Forward /\ OrderInv' /\ KeptInv'
  BY OrderNext, KeptNext DEF Steady, Forward, SettledInv, OrderInv
<1>2. CASE UNCHANGED <<node, agent>>
  BY <1>1, <1>2 DEF SettledInv, Settled
<1>3. CASE Environment
  <2>1. /\ UNCHANGED agent
        /\ \A m \in Nodes : /\ node'[m].current = node[m].current
                             /\ node'[m].state = node[m].state
                             /\ node'[m].desired = node[m].desired
    BY <1>1, <1>3, EnvironmentOrder, EnvironmentWrites
  <2> QED
    BY <1>1, <2>1 DEF SettledInv, Settled
<1>4. CASE Bookkeeping \/ ReconcileStart \/ UNCHANGED vars
  BY <1>1, <1>2, <1>4, BookkeepingWrites DEF ReconcileStart, vars
<1>5. CASE \E n \in Nodes : ProcessNodeUpdate(n) \/ ProcessFails(n)
  BY <1>1, <1>5, SettledProcess DEF SettledInv
<1>6. CASE \E n \in Nodes : AgentStep(n) \/ AgentFaults(n)
  BY <1>1, <1>6, SettledAgent DEF SettledInv
<1> QED
  BY <1>1, <1>3, <1>4, <1>5, <1>6, NextSplits

\* ShouldUncordon never waits for a node that has nothing left to do: a node that
\* has what it was asked for, and whose agent has read all there is to read, is
\* done, whatever config changes, reboots, admins, errors of the controller's calls
\* and failures of the agents with a revision new to the node came before.
THEOREM NoneStranded ==
  ASSUME Steady
  PROVE  Spec => []NotStranded
<1>1. Init => SettledInv
  BY SettledInit
<1>2. SettledInv /\ [Next]_vars => SettledInv'
  BY SettledNext
<1>3. SettledInv => NotStranded
  BY DEF SettledInv, Settled, NotStranded
<1> QED
  BY <1>1, <1>2, <1>3, PTL DEF Spec

(***************************************************************************)
(* The agents of the pool keep the contract.                               *)
(***************************************************************************)

\* An agent works on something exactly between taking an event and being done with
\* it, and has read all events when it takes one.
AtWork(n) ==
    /\ agent[n].phase \in {"fetch", "apply"} <=> agent[n].work # NoRev
    /\ agent[n].phase = "fetch" => agent[n].backlog = NoRev

\* And a pass that gets as far as the nodes has a revision for them.
ProtocolInv ==
    /\ StateTypes
    /\ pc # "idle" => target # NoRev
    /\ \A n \in Nodes : AtWork(n)

\* What the agent a of a node nd reads next.
Waiting(a, nd) == IF a.backlog = NoRev THEN nd.desired ELSE a.backlog

\* The second position of the contract's requests stays.
LEMMA StaysOn ==
  ASSUME NEW n \in Nodes, node'[n].desired = node[n].desired,
         agent'[n].work \in {NoRev, agent[n].work},
         Waiting(agent'[n], node'[n]) = Waiting(agent[n], node[n])
  PROVE  Contract(n)!Keeps
BY DEF Contract!Keeps, Contract!NoRev, NoRev, Waiting

\* It moves to the first.
LEMMA MovesUp ==
  ASSUME NEW n \in Nodes, node'[n].desired = node[n].desired,
         agent'[n].work \in {NoRev, Waiting(agent[n], node[n])}, agent'[n].backlog = NoRev
  PROVE  Contract(n)!Keeps
BY DEF Contract!Keeps, Contract!NoRev, NoRev, Waiting

\* A step of an agent is one of its contract.
LEMMA AgentProtocol ==
  ASSUME ProtocolInv, NEW n \in Nodes, AgentStep(n) \/ AgentFaults(n)
  PROVE  Contract(n)!Next /\ AtWork(n)'
<1>1. agent[n] \in AgentInfo /\ AtWork(n) /\ StateTypes
  BY DEF ProtocolInv, StateTypes
<1>2. node'[n].desired = node[n].desired
  BY <1>1, AgentWrites
<1> USE DEF Contract!Next, Contract!Forgets, Contract!Starts, Contract!Works, Contract!Reports,
            Contract!NoRev, NoRev
<1>3. CASE Takes(n)
  <2>1. agent'[n].work = Waiting(agent[n], node[n]) /\ agent'[n].work # NoRev
    BY <1>3 DEF Takes, Waiting
  <2>2. Contract(n)!Keeps
    BY <1>2, <1>3, <2>1, MovesUp DEF Takes
  <2>3. UNCHANGED <<node[n].desired, node[n].current, node[n].state>>
    BY <1>3 DEF Takes
  <2> QED
    BY <1>3, <2>1, <2>2, <2>3 DEF Takes, AtWork
<1>4. CASE Applies(n)
  <2>1. Waiting(agent'[n], node'[n]) = Waiting(agent[n], node[n])
    BY <1>1, <1>2, <1>4 DEF Applies, Waiting, AtWork
  <2>2. Contract(n)!Keeps
    BY <1>2, <1>4, <2>1, StaysOn DEF Applies
  <2> QED
    BY <1>1, <1>2, <1>4, <2>2 DEF Applies, AtWork
<1>5. CASE GivesUp(n) \/ Finishes(n)
  <2>1. /\ agent'[n].work = NoRev /\ agent'[n].phase = "wait"
        /\ agent'[n].backlog = agent[n].backlog
    BY <1>5 DEF GivesUp, Finishes, AgentWaits
  <2>2. Waiting(agent'[n], node'[n]) = Waiting(agent[n], node[n])
    BY <1>2, <2>1 DEF Waiting
  <2>3. Contract(n)!Keeps
    BY <1>2, <2>1, <2>2, StaysOn
  <2>4. agent[n].work # NoRev
    BY <1>1, <1>5 DEF GivesUp, Finishes, AtWork
  <2> QED
    BY <1>2, <1>5, <2>1, <2>3, <2>4 DEF GivesUp, Finishes, AtWork
<1>6. CASE GoesDown(n) \/ Starts(n)
  <2>1. /\ agent'[n].work = NoRev /\ agent'[n].phase \in {"wait", "down"}
        /\ agent'[n].backlog = NoRev
    BY <1>6 DEF GoesDown, Starts, AgentIn
  <2>2. Contract(n)!Keeps
    BY <1>2, <2>1, MovesUp
  <2>3. GoesDown(n) => agent[n].work # NoRev
    BY <1>1 DEF GoesDown, AtWork
  <2> QED
    BY <1>2, <1>6, <2>1, <2>2, <2>3 DEF GoesDown, Starts, AtWork
<1> QED
  BY <1>1, <1>3, <1>4, <1>5, <1>6, AgentMoves

\* A pass asks a node for its target, or writes nothing that the agent knows of.
LEMMA ProcessProtocol ==
  ASSUME ProtocolInv, NEW n \in Nodes, ProcessNodeUpdate(n) \/ ProcessFails(n)
  PROVE  Contract(n)!Next \/ UNCHANGED Contract(n)!contractVars
<1>1. StateTypes /\ target \in Revisions
  BY ProcessWrites DEF ProtocolInv, StateTypes, AnyRev, At
<1>2. /\ agent' = agent
      /\ node'[n].current = node[n].current /\ node'[n].state = node[n].state
      /\ node'[n].desired \in {node[n].desired, target}
  BY <1>1, ProcessWrites DEF Processed
<1>3. CASE node'[n].desired = node[n].desired
  BY <1>2, <1>3 DEF Contract!contractVars
<1>4. CASE node'[n].desired # node[n].desired
  <2>1. node'[n].desired = target
    BY <1>2, <1>4
  <2>2. Contract(n)!Ask(target)
    <3>1. CASE agent[n].backlog = NoRev
      BY <1>2, <1>4, <2>1, <3>1 DEF Contract!Ask
    <3>2. CASE agent[n].backlog # NoRev
      BY <1>2, <1>4, <2>1, <3>2 DEF Contract!Ask
    <3> QED
      BY <3>1, <3>2
  <2> QED
    BY <1>1, <2>2 DEF Contract!Next
<1> QED
  BY <1>3, <1>4

LEMMA ProtocolInit ==
  ASSUME Init
  PROVE  ProtocolInv /\ \A n \in Nodes : Contract(n)!Init
<1>1. StateTypes
  BY InitTypeOK
<1>2. /\ node = [n \in Nodes |-> FreshNode] /\ agent = [n \in Nodes |-> AgentIn("down")]
      /\ pc = "idle"
  BY DEF Init
<1>3. ASSUME NEW n \in Nodes
      PROVE  AtWork(n) /\ Contract(n)!Init
  <2>1. /\ node[n].desired = NoRev /\ node[n].current = NoRev /\ node[n].state = ""
    BY <1>2 DEF FreshNode
  <2>2. agent[n].work = NoRev /\ agent[n].backlog = NoRev /\ agent[n].phase = "down"
    BY <1>2 DEF AgentIn
  <2>3. AtWork(n)
    BY <2>2 DEF AtWork
  <2>4. \A i \in DOMAIN <<NoRev, NoRev, NoRev>> : <<NoRev, NoRev, NoRev>>[i] = NoRev
    OBVIOUS
  <2>5. <<NoRev, NoRev, NoRev>> # <<>>
    OBVIOUS
  <2>6. Contract(n)!Init
    BY <2>1, <2>2, <2>4, <2>5 DEF Contract!Init, Contract!NoRev, NoRev
  <2> QED
    BY <2>3, <2>6
<1> QED
  BY <1>1, <1>2, <1>3 DEF ProtocolInv

LEMMA ProtocolNext ==
  ASSUME ProtocolInv, [Next]_vars
  PROVE  /\ ProtocolInv'
         /\ \A n \in Nodes : UNCHANGED Contract(n)!contractVars \/ Contract(n)!Next
<1> DEFINE Keeps(n) == UNCHANGED Contract(n)!contractVars \/ Contract(n)!Next
<1>1. StateTypes /\ StateTypes'
  BY TypeStep DEF ProtocolInv
<1>2. ASSUME NEW n \in Nodes, AgentStep(n) \/ AgentFaults(n)
      PROVE  ProtocolInv' /\ \A m \in Nodes : Keeps(m)
  <2>1. /\ pc' = pc /\ target' = target
        /\ \A m \in Nodes \ {n} : node'[m] = node[m] /\ agent'[m] = agent[m]
    BY <1>1, <1>2, AgentWrites DEF AgentOnly, ctlVars
  <2>2. Contract(n)!Next /\ AtWork(n)'
    BY <1>2, AgentProtocol
  <2>3. \A m \in Nodes : AtWork(m)'
    BY <2>1, <2>2 DEF ProtocolInv, AtWork
  <2>4. \A m \in Nodes \ {n} : UNCHANGED Contract(m)!contractVars
    BY <2>1 DEF Contract!contractVars
  <2> QED
    BY <1>1, <2>1, <2>2, <2>3, <2>4 DEF ProtocolInv
<1>3. ASSUME NEW n \in Nodes, ProcessNodeUpdate(n) \/ ProcessFails(n)
      PROVE  ProtocolInv' /\ \A m \in Nodes : Keeps(m)
  <2>1. /\ pc' = pc /\ target' = target /\ agent' = agent
        /\ \A m \in Nodes \ {n} : node'[m] = node[m]
    BY <1>1, <1>3, ProcessWrites DEF Processed
  <2>2. Contract(n)!Next \/ UNCHANGED Contract(n)!contractVars
    BY <1>3, ProcessProtocol
  <2>3. \A m \in Nodes \ {n} : UNCHANGED Contract(m)!contractVars
    BY <2>1 DEF Contract!contractVars
  <2> QED
    BY <1>1, <2>1, <2>2, <2>3 DEF ProtocolInv, AtWork
<1>4. ASSUME agent' = agent, pc' # "idle" => target' # NoRev,
             \A m \in Nodes : /\ node'[m].desired = node[m].desired
                              /\ node'[m].current = node[m].current
                              /\ node'[m].state = node[m].state
      PROVE  ProtocolInv' /\ \A m \in Nodes : Keeps(m)
  <2>1. \A m \in Nodes : UNCHANGED Contract(m)!contractVars
    BY <1>4 DEF Contract!contractVars
  <2> QED
    BY <1>1, <1>4, <2>1 DEF ProtocolInv, AtWork
<1>5. CASE Environment
  <2>1. UNCHANGED <<ctlVars, agent>>
    BY <1>1, <1>5, EnvironmentAgents
  <2> QED
    BY <1>1, <1>4, <1>5, <2>1, EnvironmentAgents, EnvironmentWrites DEF ProtocolInv, ctlVars
<1>6. CASE Bookkeeping \/ SyncCache \/ ReconcileStart \/ UNCHANGED vars
  <2>1. node' = node /\ agent' = agent
    BY <1>1, <1>6, BookkeepingWrites DEF SyncCache, ReconcileStart, vars
  <2>2. pc' # "idle" => target' # NoRev
    BY <1>6 DEF Bookkeeping, ReconcileEmpty, DebounceRestarts, DebounceElapses, UpdateStatus,
       CleanupOldRMCs, UpdateStatusFails, ControllerRestart, SyncCache, ReconcileStart, ctlVars,
       vars, ProtocolInv
  <2> QED
    BY <1>4, <2>1, <2>2
<1>7. CASE Next
  BY <1>2, <1>3, <1>5, <1>6, <1>7 DEF Next, Controller, ControllerFaults, Bookkeeping
<1> QED
  BY <1>6, <1>7

\* In every environment, stale lists included, each agent of the pool behaves
\* towards the controller as AgentContract says, and as NodeAgent does
\* (AgentKeepsContract): the rollout is proved and checked for agents that take
\* requests in order and report only what they worked on.
THEOREM PoolKeepsContract == Spec => AgentsKeepContract
<1>1. Init => ProtocolInv /\ \A n \in Nodes : Contract(n)!Init
  BY ProtocolInit
<1>2. ProtocolInv /\ [Next]_vars
         => /\ ProtocolInv'
            /\ [\A n \in Nodes : UNCHANGED Contract(n)!contractVars \/ Contract(n)!Next]_vars
  BY ProtocolNext
<1> QED
  BY <1>1, <1>2, PTL DEF Spec, AgentsKeepContract
=============================================================================
