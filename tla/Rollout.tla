------------------------------- MODULE Rollout -------------------------------
(***************************************************************************)
(* Which nodes of a pool one pass of Reconcile works on: the maxUnavailable *)
(* budget, the rollout order and the two selections of rollout.go.         *)
(***************************************************************************)
EXTENDS NodeState, Integers, FiniteSets

CONSTANTS
    Nodes,            \* the nodes of the cluster
    Zone,             \* topology zone of a node, 0 if it has no zone label
    Created,          \* creation time of a node
    NameRank,         \* position of a node's name in the order of names
    MaxUnavailable    \* spec.rollout.maxUnavailable

NoZone == 0

\* intstr.IntOrString as a pool may hold it: absent, a number, a percentage,
\* or a string that does not parse.
MaxUnavailableSpec ==
    [kind : {"nil", "bad"}, val : {0}] \cup [kind : {"int", "percent"}, val : Int]

\* The cluster is finite, every node has its labels, and names are unique.
ASSUME RolloutAssumption ==
    /\ IsFiniteSet(Nodes)
    /\ Zone \in [Nodes -> Nat]
    /\ Created \in [Nodes -> Nat]
    /\ NameRank \in [Nodes -> Nat]
    /\ \A m, n \in Nodes : NameRank[m] = NameRank[n] => m = n
    /\ MaxUnavailable \in MaxUnavailableSpec

\* Mutant: the given number of nodes, none for 0 or 0%.
AsGiven(k) == k

AtLeastOne(k) == IF k < 1 THEN 1 ELSE k

\* A percentage is rounded up; whatever the spec says, one node may go.
CalculateMaxUnavailable(spec, nodeCount) ==
    CASE spec.kind \in {"nil", "bad"} -> 1
      [] spec.kind = "int"            -> AtLeastOne(spec.val)
      [] spec.kind = "percent"        -> AtLeastOne((nodeCount * spec.val + 99) \div 100)

\* Nodes with a zone first, then by zone, by age and by name.
Before(m, n) ==
    IF Zone[m] # Zone[n]
    THEN Zone[n] = NoZone \/ (Zone[m] # NoZone /\ Zone[m] < Zone[n])
    ELSE \/ Created[m] < Created[n]
         \/ Created[m] = Created[n] /\ NameRank[m] < NameRank[n]

\* The first k nodes of S in that order.
FirstInOrder(S, k) == {n \in S : Cardinality({m \in S : Before(m, n)}) < k}

\* Mutant: only nodes whose agent is at work count.
UnavailableByState(info, all) ==
    {n \in all : info[n].state \in {"applying", "rebooting"}}

\* info gives what the controller sees of the nodes of the set all.
Unavailable(info, all) == {n \in all : IsNodeUnavailable(info[n])}

NeedsUpdate(info, all, target) ==
    {n \in all : /\ ~IsNodePaused(info[n])
                 /\ info[n].current # target
                 /\ ~IsNodeUnavailable(info[n])}

\* The free part of the budget.
CanUpdateCount(info, all) ==
    CalculateMaxUnavailable(MaxUnavailable, Cardinality(all))
        - Cardinality(Unavailable(info, all))

\* The nodes that may start an update: the first ones in rollout order that
\* fit in the free part of the budget.
SelectNodesForUpdate(info, all, target) ==
    FirstInOrder(NeedsUpdate(info, all, target), CanUpdateCount(info, all))

\* Mutant: a node that has the target revision is forgotten.
collectNodesBehind(info, all, target) ==
    {n \in all : /\ ~IsNodePaused(info[n])
                 /\ IsNodeUnavailable(info[n])
                 /\ info[n].current # target}

\* The nodes whose update was started and is not over.
collectNodesInProgress(info, all, target) ==
    {n \in all : /\ ~IsNodePaused(info[n])
                 /\ IsNodeUnavailable(info[n])
                 /\ info[n].current # target \/ ShouldUncordon(info[n], target)}

=============================================================================
