------------------------------ MODULE NodeState ------------------------------
(***************************************************************************)
(* What the controller and the agents know of a node: the Node object's    *)
(* spec.unschedulable and the mco.in-cloud.io annotations, which are the   *)
(* only channel between the controller and the agents.  A revision is the  *)
(* name of a RenderedMachineConfig; the absent annotation is NoRev.        *)
(***************************************************************************)
EXTENDS Naturals

CONSTANT Revisions      \* names of rendered configurations, as positive numbers

\* The empty annotation is not the name of a configuration.
ASSUME RevisionsAssumption == Revisions \subseteq Nat \ {0}

NoRev == 0
AnyRev == Revisions \cup {NoRev}

\* agent-state; "" is the state of a node no agent has written to yet.
AgentStates == {"", "idle", "applying", "done", "error", "rebooting"}

NodeInfo == [unsched  : BOOLEAN,      \* spec.unschedulable
             cordoned : BOOLEAN,      \* cordoned="true"
             drainAt  : BOOLEAN,      \* drain-started-at is present
             current  : AnyRev,       \* current-revision, written by the agent
             desired  : AnyRev,       \* desired-revision, written by the controller
             state    : AgentStates,  \* agent-state, written by the agent
             paused   : BOOLEAN,      \* paused="true", written by the admin
             pool     : BOOLEAN]      \* the pool annotation is present

\* A node MCO has never touched.
FreshNode == [unsched |-> FALSE, cordoned |-> FALSE, drainAt |-> FALSE,
              current |-> NoRev, desired |-> NoRev, state |-> "",
              paused |-> FALSE, pool |-> FALSE]

IsNodePaused(nd) == nd.paused

\* Mutant: any unschedulable node passes for one MCO has cordoned.
IsNodeCordonedByAnyone(nd) == nd.unsched

IsNodeCordoned(nd) == nd.cordoned

\* A node that takes one of the pool's maxUnavailable slots.
IsNodeUnavailable(nd) ==
    /\ ~IsNodePaused(nd)
    /\ \/ nd.unsched
       \/ nd.cordoned
       \/ nd.drainAt
       \/ nd.state \in {"applying", "rebooting"}
       \/ nd.desired # NoRev /\ nd.current # nd.desired

\* Mutant: "done" is taken for done with the target.
ShouldUncordonWhenDone(nd, target) == nd.cordoned /\ nd.state = "done"

\* The update of the node to target is over: it may take pods again.
ShouldUncordon(nd, target) ==
    /\ IsNodeCordoned(nd)
    /\ nd.current = target
    /\ nd.state = "done"

\* "Brand new node joining an existing pool" (isNewNode of ProcessNodeUpdate).
IsNewNode(nd) ==
    /\ nd.current = NoRev
    /\ ~nd.pool
    /\ ~nd.cordoned
    /\ ~nd.unsched

(***************************************************************************)
(* The writes.  Each is one update or patch of the Node object.            *)
(***************************************************************************)

\* cordon.go, the controller's
Cordon(nd) == [nd EXCEPT !.unsched = TRUE, !.cordoned = TRUE]

Uncordon(nd) ==
    IF nd.unsched \/ nd.cordoned
    THEN [nd EXCEPT !.unsched = FALSE, !.cordoned = FALSE, !.drainAt = FALSE]
    ELSE nd

\* drain-started-at is written if the listed copy had none.
StartDrain(nd, listed) == [nd EXCEPT !.drainAt = IF listed.drainAt THEN @ ELSE TRUE]

\* desired-revision, and the pool annotation whose write may be lost.
SetDesired(nd, r, marked) == [nd EXCEPT !.desired = r, !.pool = marked]

\* nodewriter.go, the agent's
SetState(nd, s) == [nd EXCEPT !.state = s]

\* Mutant: the state is left for a second patch that never comes.
SetDoneRevisionOnly(nd, r) == [nd EXCEPT !.current = r]

SetDone(nd, r) == [nd EXCEPT !.state = "done", !.current = r]
=============================================================================
