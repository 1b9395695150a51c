--------------------------- MODULE RevisionProofs ---------------------------
(***************************************************************************)
(* Which revision the controller gives to a node, and that cleanup leaves  *)
(* it alone: two theorems that hold in every environment whose lists are   *)
(* fresh, admins, config changes and failures included.                    *)
(***************************************************************************)
EXTENDS PoolRolloutProofs

FreshLists == "cacheLag" \notin Env

\* People write only spec.unschedulable and the paused annotation.
LEMMA EnvironmentWrites ==
  ASSUME StateTypes, Environment
  PROVE  \A m \in Nodes : /\ node'[m].desired = node[m].desired
                          /\ node'[m].cordoned = node[m].cordoned
                          /\ node'[m].pool = node[m].pool
<1>1. node \in [Nodes -> NodeInfo]
  BY DEF StateTypes
<1>2. ASSUME NEW n \in Nodes, AdminPauses(n)
      PROVE  \A m \in Nodes : /\ node'[m].desired = node[m].desired
                              /\ node'[m].cordoned = node[m].cordoned
                              /\ node'[m].pool = node[m].pool
  BY <1>1, <1>2 DEF AdminPauses, NodeInfo
<1>3. ASSUME NEW n \in Nodes, AdminCordons(n) \/ AdminUncordons(n)
      PROVE  \A m \in Nodes : /\ node'[m].desired = node[m].desired
                              /\ node'[m].cordoned = node[m].cordoned
                              /\ node'[m].pool = node[m].pool
  BY <1>1, <1>3 DEF AdminCordons, AdminUncordons, NodeInfo
<1>4. ASSUME NEW n \in Nodes, PodStarts(n) \/ PodEnds(n) \/ NodeJoins(n) \/ NodeLeaves(n)
                                 \/ OverlapChanges(n)
      PROVE  node' = node
  BY <1>4 DEF PodStarts, PodEnds, NodeJoins, NodeLeaves, OverlapChanges
<1>5. CASE AdminPausesPool \/ \E r \in AnyRev : ConfigChange(r)
  BY <1>5 DEF AdminPausesPool, ConfigChange
<1> QED
  BY <1>2, <1>3, <1>4, <1>5 DEF Environment

(***************************************************************************)
(* A desired revision and its rendered config.                             *)
(***************************************************************************)

\* The nodes that have a desired revision are those the pass's second list
\* shows to cleanup: nobody leaves the pool.
Kept(n) ==
    node[n].desired # NoRev
        => /\ n \in members
           /\ rmc[node[n].desired] > 0
           /\ pc = "cleanup" => node[n].desired \in inUse

KeptInv ==
    /\ StateTypes
    /\ pc # "process" => Todo = {}
    /\ Todo \subseteq members
    /\ pc # "idle" => target \in Revisions /\ rmc[target] > 0
    /\ pc = "cleanup" => target \in inUse
    /\ \A n \in Nodes : Kept(n)

LEMMA KeptInit ==
  ASSUME Init
  PROVE  KeptInv
<1>1. StateTypes
  BY InitTypeOK
<1>2. Todo = {}
  BY DEF Init, Todo
<1>3. \A n \in Nodes : node[n].desired = NoRev
  BY DEF Init, FreshNode
<1> QED
  BY <1>1, <1>2, <1>3 DEF KeptInv, Kept, Init

\* A step that gives out no revision and deletes no rendered config.
LEMMA KeptOther ==
  ASSUME KeptInv, StateTypes',
         \A n \in Nodes : node'[n].desired = node[n].desired,
         members \subseteq members',
         rmc' = rmc,
         Todo' \subseteq Todo,
         \/ pc' = pc /\ target' = target /\ inUse' = inUse
         \/ pc' = "idle" /\ Todo' = {}
  PROVE  KeptInv'
BY DEF KeptInv, Kept

\* A pass has its rendered config before it gives it to a node.
LEMMA KeptStart ==
  ASSUME KeptInv, ReconcileStart
  PROVE  KeptInv'
<1>1. StateTypes /\ StateTypes'
  BY ControllerTypeOK DEF Controller, KeptInv
<1>2. /\ UNCHANGED <<node, members>> /\ target' = config /\ pc' = "process"
      /\ config \in Revisions /\ creations \in Nat /\ rmc \in [Revisions -> Nat]
  BY <1>1 DEF ReconcileStart, poolVars, StateTypes, AnyRev
<1>3. rmc'[config] > 0 /\ \A r \in Revisions : rmc[r] > 0 => rmc'[r] > 0
  BY <1>2 DEF ReconcileStart, ensureRMC
<1>4. Todo' \subseteq members
  <2>1. PICK all \in PassNodes :
           view' = [m \in NodesToProcess(Listed, all, config) |-> Listed[m]]
    BY DEF ReconcileStart, Restrict
  <2> QED
    BY <2>1, SelectionOfPool DEF Todo, PassNodes, Managed
<1>5. \A n \in Nodes : node[n].desired \in Revisions \cup {NoRev}
  BY <1>1 DEF StateTypes, NodeInfo, AnyRev
<1> QED
  BY <1>1, <1>2, <1>3, <1>4, <1>5 DEF KeptInv, Kept

LEMMA KeptProcess ==
  ASSUME KeptInv, NEW n \in Nodes, ProcessNodeUpdate(n) \/ ProcessFails(n)
  PROVE  KeptInv'
<1>1. StateTypes /\ StateTypes'
  BY ControllerTypeOK DEF KeptInv, Controller, ControllerFaults
<1>2. /\ At(n) /\ Processed(n)
      /\ \A m \in Nodes \ {n} : node'[m] = node[m]
      /\ node'[n].desired \in {node[n].desired, target}
  BY <1>1, ProcessWrites
<1>3. /\ UNCHANGED <<members, rmc, pc, target, inUse>>
      /\ Todo' = Todo \ {n} /\ pc = "process" /\ n \in Todo
  BY <1>2 DEF Processed, poolVars, Restrict, Todo, At
<1>4. \A m \in Nodes : Kept(m)'
  BY <1>2, <1>3 DEF KeptInv, Kept
<1> QED
  BY <1>1, <1>3, <1>4 DEF KeptInv

\* The second list shows every desired revision, so cleanup keeps all of them.
LEMMA KeptStatus ==
  ASSUME FreshLists, KeptInv, UpdateStatus
  PROVE  KeptInv'
<1>1. StateTypes /\ StateTypes'
  BY ControllerTypeOK DEF KeptInv, Controller
<1>2. /\ UNCHANGED <<node, members, rmc, target, view>>
      /\ pc = "process" /\ pc' = "cleanup" /\ Todo = {}
      /\ inUse' = getRevisionsInUse(node)
  BY DEF UpdateStatus, poolVars, FreshLists, Listed
<1>3. target \in inUse' /\ \A n \in members : node[n].desired \in inUse'
  BY <1>2 DEF getRevisionsInUse
<1> QED
  BY <1>1, <1>2, <1>3 DEF KeptInv, Kept, Todo

LEMMA KeptCleanup ==
  ASSUME KeptInv, CleanupOldRMCs
  PROVE  KeptInv'
<1>1. StateTypes /\ StateTypes'
  BY ControllerTypeOK DEF KeptInv, Controller
<1>2. /\ UNCHANGED <<node, members, view>>
      /\ pc = "cleanup" /\ pc' = "idle"
  BY DEF CleanupOldRMCs, poolVars
<1>3. \A r \in Revisions : r \in inUse => rmc'[r] = rmc[r]
  <2>1. CASE UNCHANGED rmc
    BY <2>1
  <2>2. CASE \E k : rmc' = [r \in Revisions |-> IF r \in OldestUnused(k) THEN 0 ELSE rmc[r]]
    BY <2>2 DEF OldestUnused
  <2> QED
    BY <2>1, <2>2 DEF CleanupOldRMCs
<1>4. \A n \in Nodes : node[n].desired \in Revisions \cup {NoRev}
  BY <1>1 DEF StateTypes, NodeInfo, AnyRev
<1> QED
  BY <1>1, <1>2, <1>3, <1>4 DEF KeptInv, Kept, Todo

LEMMA KeptNext ==
  ASSUME FreshLists, "leave" \notin Env, KeptInv, [Next]_vars
  PROVE  KeptInv'
<1>1. StateTypes /\ Todo = DOMAIN view /\ (pc # "process" => Todo = {})
  BY DEF KeptInv, Todo
<1>2. CASE UNCHANGED vars
  <2>1. StateTypes'
    BY <1>1, <1>2 DEF StateTypes, vars, poolVars, ctlVars, Todo
  <2> QED
    BY <1>1, <1>2, <2>1, KeptOther DEF vars, poolVars, ctlVars, Todo
<1>3. CASE ReconcileEmpty \/ DebounceRestarts \/ DebounceElapses
  <2>1. StateTypes'
    BY <1>1, <1>3, ControllerTypeOK DEF Controller
  <2> QED
    BY <1>1, <1>3, <2>1, KeptOther
       DEF ReconcileEmpty, DebounceRestarts, DebounceElapses, poolVars, Todo
<1>4. CASE UpdateStatusFails
  <2>1. StateTypes'
    BY <1>1, <1>4, ControllerTypeOK DEF ControllerFaults
  <2> QED
    BY <1>1, <1>4, <2>1, KeptOther DEF UpdateStatusFails, poolVars, Todo
<1>5. CASE ControllerRestart
  <2>1. StateTypes'
    BY <1>1, <1>5, ControllerTypeOK DEF ControllerFaults
  <2>2. Todo' = {}
    BY <1>5 DEF ControllerRestart, Restrict, Todo
  <2> QED
    BY <1>1, <1>5, <2>1, <2>2, KeptOther DEF ControllerRestart, poolVars
<1>6. CASE Controller
  BY <1>3, <1>6, KeptStart, KeptProcess, KeptStatus, KeptCleanup DEF Controller
<1>7. CASE ControllerFaults
  BY <1>4, <1>5, <1>7, KeptProcess DEF ControllerFaults, SyncCache, FreshLists
<1>8. ASSUME NEW n \in Nodes, AgentStep(n) \/ AgentFaults(n) PROVE KeptInv'
  <2>1. StateTypes' /\ AgentOnly
    BY <1>1, <1>8, AgentTypeOK, AgentWrites
  <2>2. \A m \in Nodes : node'[m].desired = node[m].desired
    BY <1>1, <1>8, AgentWrites
  <2> QED
    BY <1>1, <2>1, <2>2, KeptOther DEF AgentOnly, poolVars, ctlVars, Todo
<1>9. CASE Environment
  <2>1. StateTypes'
    BY <1>1, <1>9, EnvironmentTypeOK
  <2>2. UNCHANGED ctlVars /\ members \subseteq members'
    BY <1>9 DEF Environment, ConfigChange, AdminPausesPool, PodStarts, PodEnds, AdminPauses,
                AdminCordons, AdminUncordons, NodeJoins, NodeLeaves, OverlapChanges, Admin,
                poolVars
  <2>3. \A m \in Nodes : node'[m].desired = node[m].desired
    BY <1>1, <1>9, EnvironmentWrites
  <2> QED
    BY <1>1, <2>1, <2>2, <2>3, KeptOther DEF ctlVars, Todo
<1> QED
  BY <1>2, <1>3, <1>6, <1>7, <1>8, <1>9 DEF Next

\* As long as no node leaves the pool, the rendered config a node was told to
\* apply is there, for every history limit and any number of config changes,
\* failures and interventions.
THEOREM DesiredKept ==
  ASSUME FreshLists, "leave" \notin Env
  PROVE  Spec => []DesiredRMCExists
<1>1. Init => KeptInv
  BY KeptInit
<1>2. KeptInv /\ [Next]_vars => KeptInv'
  BY KeptNext
<1>3. KeptInv => DesiredRMCExists
  BY DEF KeptInv, Kept, DesiredRMCExists
<1> QED
  BY <1>1, <1>2, <1>3, PTL DEF Spec

(***************************************************************************)
(* Revisions go to cordoned nodes.  The pass decides on listed copies, so  *)
(* what they say must still hold when it writes.                           *)
(***************************************************************************)

CopyHolds(n) ==
    /\ view[n].cordoned => node[n].cordoned
    /\ IsNewNode(view[n]) => ~node[n].pool

CopyInv == StateTypes /\ \A n \in Todo : CopyHolds(n)

\* Only ProcessNodeUpdate cordons, uncordons and marks a node as its own, and
\* it does so for the last time in a pass when it takes the node off the list.
LEMMA CopyOther ==
  ASSUME CopyInv, StateTypes',
         \A n \in Nodes : node'[n].cordoned = node[n].cordoned /\ node'[n].pool = node[n].pool,
         Todo' \subseteq Todo,
         \A n \in Todo' : view'[n] = view[n]
  PROVE  CopyInv'
<1>1. ASSUME NEW n \in Todo' PROVE CopyHolds(n)'
  <2>1. n \in Nodes /\ view'[n] = view[n] /\ CopyHolds(n)
    BY <1>1 DEF CopyInv, StateTypes
  <2> QED
    BY <2>1 DEF CopyHolds
<1> QED
  BY <1>1 DEF CopyInv

LEMMA CopyProcess ==
  ASSUME CopyInv, NEW n \in Nodes, ProcessNodeUpdate(n) \/ ProcessFails(n)
  PROVE  CopyInv'
<1>1. StateTypes /\ StateTypes'
  BY ControllerTypeOK DEF CopyInv, Controller, ControllerFaults
<1>2. Processed(n) /\ \A m \in Nodes \ {n} : node'[m] = node[m]
  BY <1>1, ProcessWrites
<1>3. view' = [m \in Todo \ {n} |-> view[m]] /\ Todo' = Todo \ {n}
  BY <1>2 DEF Processed, Restrict, Todo
<1>4. ASSUME NEW m \in Todo' PROVE CopyHolds(m)'
  <2>1. m \in Nodes \ {n} /\ view'[m] = view[m] /\ CopyHolds(m)
    BY <1>1, <1>3, <1>4 DEF CopyInv, StateTypes
  <2> QED
    BY <1>2, <2>1 DEF CopyHolds
<1> QED
  BY <1>1, <1>4 DEF CopyInv

LEMMA CopyNext ==
  ASSUME FreshLists, CopyInv, [Next]_vars
  PROVE  CopyInv'
<1>1. StateTypes /\ Todo = DOMAIN view
  BY DEF CopyInv, Todo
<1>2. CASE UNCHANGED vars
  <2>1. StateTypes'
    BY <1>1, <1>2 DEF StateTypes, vars, poolVars, ctlVars, Todo
  <2> QED
    BY <1>1, <1>2, <2>1, CopyOther DEF vars, ctlVars, Todo
<1>3. CASE ReconcileEmpty \/ DebounceRestarts \/ DebounceElapses \/ UpdateStatus
              \/ CleanupOldRMCs \/ UpdateStatusFails
  <2>1. StateTypes'
    BY <1>1, <1>3, ControllerTypeOK DEF Controller, ControllerFaults
  <2>2. UNCHANGED <<node, view>>
    BY <1>3 DEF ReconcileEmpty, DebounceRestarts, DebounceElapses, UpdateStatus,
                CleanupOldRMCs, UpdateStatusFails
  <2> QED
    BY <2>1, <2>2, CopyOther DEF Todo
<1>4. CASE ReconcileStart
  <2>1. StateTypes'
    BY <1>1, <1>4, ControllerTypeOK DEF Controller
  <2>2. /\ \E all \in PassNodes : view' = [m \in NodesToProcess(node, all, config) |-> node[m]]
        /\ node' = node
    BY <1>4 DEF ReconcileStart, Restrict, Listed, FreshLists
  <2>3. ASSUME NEW n \in Todo' PROVE CopyHolds(n)'
    <3>1. view'[n] = node[n]
      BY <2>2, <2>3 DEF Todo
    <3> QED
      BY <2>2, <3>1 DEF CopyHolds, IsNewNode
  <2> QED
    BY <2>1, <2>3 DEF CopyInv
<1>5. CASE ControllerRestart
  <2>1. StateTypes'
    BY <1>1, <1>5, ControllerTypeOK DEF ControllerFaults
  <2>2. Todo' = {} /\ node' = node
    BY <1>5 DEF ControllerRestart, Restrict, Todo
  <2> QED
    BY <2>1, <2>2, CopyOther
<1>6. CASE Controller
  BY <1>3, <1>4, <1>6, CopyProcess DEF Controller
<1>7. CASE ControllerFaults
  BY <1>3, <1>5, <1>7, CopyProcess DEF ControllerFaults, SyncCache, FreshLists
<1>8. ASSUME NEW n \in Nodes, AgentStep(n) \/ AgentFaults(n) PROVE CopyInv'
  <2>1. StateTypes' /\ UNCHANGED view
    BY <1>1, <1>8, AgentTypeOK, AgentWrites DEF AgentOnly, ctlVars
  <2>2. \A m \in Nodes : node'[m].cordoned = node[m].cordoned /\ node'[m].pool = node[m].pool
    BY <1>1, <1>8, AgentWrites
  <2> QED
    BY <2>1, <2>2, CopyOther DEF Todo
<1>9. CASE Environment
  <2>1. StateTypes'
    BY <1>1, <1>9, EnvironmentTypeOK
  <2>2. UNCHANGED view
    BY <1>9 DEF Environment, ConfigChange, AdminPausesPool, PodStarts, PodEnds, AdminPauses,
                AdminCordons, AdminUncordons, NodeJoins, NodeLeaves, OverlapChanges, ctlVars
  <2>3. \A m \in Nodes : node'[m].cordoned = node[m].cordoned /\ node'[m].pool = node[m].pool
    BY <1>1, <1>9, EnvironmentWrites
  <2> QED
    BY <2>1, <2>2, <2>3, CopyOther DEF Todo
<1> QED
  BY <1>2, <1>3, <1>6, <1>7, <1>8, <1>9 DEF Next

\* The two steps that give out a revision.
LEMMA GivesToCordoned ==
  ASSUME CopyInv, Next, NEW n \in Nodes, node'[n].desired # node[n].desired
  PROVE  node[n].cordoned \/ (~node[n].pool /\ status.lastOK # NoRev)
<1>1. StateTypes
  BY DEF CopyInv
<1>2. PICK m \in Nodes : ProcessNodeUpdate(m) \/ ProcessFails(m)
  <2>1. ~Environment
    BY <1>1, EnvironmentWrites
  <2>2. \A m \in Nodes : ~(AgentStep(m) \/ AgentFaults(m))
    BY <1>1, AgentWrites
  <2>3. ~(ReconcileEmpty \/ DebounceRestarts \/ DebounceElapses \/ ReconcileStart \/ UpdateStatus
            \/ CleanupOldRMCs \/ UpdateStatusFails \/ ControllerRestart \/ SyncCache)
    BY DEF ReconcileEmpty, DebounceRestarts, DebounceElapses, ReconcileStart, UpdateStatus,
           CleanupOldRMCs, UpdateStatusFails, ControllerRestart, SyncCache
  <2> QED
    BY <2>1, <2>2, <2>3 DEF Next, Controller, ControllerFaults
<1>3. m = n /\ At(n) /\ n \in Todo
  BY <1>1, <1>2, ProcessWrites DEF At
<1>4. CopyHolds(n) /\ node \in [Nodes -> NodeInfo]
  BY <1>1, <1>3 DEF CopyInv, StateTypes
<1>5. CASE SkipCordon(n)
  BY <1>4, <1>5 DEF SkipCordon, SkipsCordon, CopyHolds
<1>6. CASE SetDesiredRevision(n)
  BY <1>4, <1>6 DEF SetDesiredRevision, CopyHolds, IsNodeCordoned
<1>7. CASE CordonNode(n)
  BY <1>4, <1>7, CordonWrites DEF CordonNode
<1>8. CASE DrainNode(n)
  BY <1>4, <1>8, StartDrainWrites DEF DrainNode
<1>9. CASE UncordonNode(n)
  BY <1>4, <1>9, UncordonWrites DEF UncordonNode
<1>10. CASE WaitForAgent(n) \/ ProcessFails(n)
  BY <1>10 DEF WaitForAgent, ProcessFails
<1> QED
  BY <1>2, <1>3, <1>5, <1>6, <1>7, <1>8, <1>9, <1>10 DEF ProcessNodeUpdate

\* Whatever admins, agents and failures do during a pass, a node that gets a
\* revision is cordoned, or it is not marked as the pool's and the pool has
\* rolled out before.
THEOREM DesiredCordoned ==
  ASSUME FreshLists
  PROVE  Spec => DesiredNeedsCordon
<1>1. Init => CopyInv
  <2>1. Init => Todo = {}
    BY DEF Init, Todo
  <2> QED
    BY <2>1, InitTypeOK DEF CopyInv
<1>2. CopyInv /\ [Next]_vars => CopyInv'
  BY CopyNext
<1>3. CopyInv /\ [Next]_vars
        => [\A n \in Nodes :
               node'[n].desired # node[n].desired
                   => node[n].cordoned \/ (~node[n].pool /\ status.lastOK # NoRev)]_vars
  BY GivesToCordoned
<1> QED
  BY <1>1, <1>2, <1>3, PTL DEF Spec, DesiredNeedsCordon

=============================================================================
