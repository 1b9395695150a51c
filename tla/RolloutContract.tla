--------------------------- MODULE RolloutContract ---------------------------
(***************************************************************************)
(* The agents of PoolRollout keep to AgentContract: what the rollout is    *)
(* checked against is what NodeAgent does.                                 *)
(***************************************************************************)
EXTENDS PoolRollout

Contract(n) ==
    INSTANCE AgentContract WITH
        desired <- node[n].desired,
        current <- node[n].current,
        state   <- node[n].state,
        asks    <- <<agent[n].work,
                     IF agent[n].backlog = NoRev THEN node[n].desired ELSE agent[n].backlog,
                     node[n].desired>>

\* Every agent takes requests in the order in which the controller made them and
\* never reports one that it has passed, whatever fails, restarts or is changed
\* by admins in between.
AgentsKeepContract ==
    /\ \A n \in Nodes : Contract(n)!Init
    /\ [][\A n \in Nodes : UNCHANGED Contract(n)!contractVars \/ Contract(n)!Next]_vars
=============================================================================
