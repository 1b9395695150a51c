---------------------------- MODULE AgentContract ----------------------------
(***************************************************************************)
(* What the controller may assume of a node's agent.  It sees only three   *)
(* annotations.  The agent works off what it was asked for in the order of *)
(* asking: it may skip a request that a later one has overtaken, but never *)
(* reports one that it has passed, and it reports a revision and the state *)
(* "done" together or not at all.  NodeAgent, the agent in detail, and the *)
(* agents of PoolRollout both implement this specification.                *)
(***************************************************************************)
EXTENDS NodeState, Sequences

VARIABLES
    desired,    \* desired-revision, written by the controller
    current,    \* current-revision, written by the agent
    state,      \* agent-state, written by the agent
    asks        \* what the agent may still act on: what it works on, NoRev for
                \* nothing, then what it will read, oldest first, desired last

contractVars == <<desired, current, state, asks>>

Init ==
    /\ desired = NoRev
    /\ current = NoRev
    /\ state = ""
    /\ asks # <<>> /\ \A i \in DOMAIN asks : asks[i] = NoRev

\* The controller asks for r.  The agent will read that after all the others; the
\* last two requests may be lost to it.
Ask(r) ==
    /\ r # desired /\ desired' = r
    /\ UNCHANGED <<current, state>>
    /\ \E kept \in {Len(asks) - 1, Len(asks) - 2} :
          /\ kept < Len(asks')
          /\ \A i \in DOMAIN asks' : asks'[i] = IF i <= kept THEN asks[i] ELSE r

\* Requests are passed over from the oldest on, and dropped; the latest one always
\* remains, and may be read more than once.
Keeps ==
    /\ asks' # <<>> /\ asks'[Len(asks')] = asks[Len(asks)]
    /\ \E passed \in 0..Len(asks) - 1 : \A i \in DOMAIN asks' :
          asks'[i] \in {NoRev, asks[IF i + passed < Len(asks) THEN i + passed ELSE Len(asks)]}

Forgets ==
    /\ UNCHANGED <<desired, current, state>>
    /\ Keeps

\* The agent starts, whatever it was doing before.
Starts ==
    /\ state' = "idle"
    /\ UNCHANGED <<desired, current>>
    /\ Keeps

\* It begins to work on a request, gives it up, or reboots the host for it.
Works ==
    /\ state' \in {"applying", "error", "rebooting"}
    /\ UNCHANGED <<desired, current>>
    /\ Head(asks) # NoRev /\ Keeps

\* What it worked on is done.
Reports ==
    /\ state' = "done"
    /\ UNCHANGED desired
    /\ Head(asks) # NoRev /\ current' = Head(asks)
    /\ Keeps

Next == (\E r \in Revisions : Ask(r)) \/ Forgets \/ Starts \/ Works \/ Reports

Spec == Init /\ [][Next]_contractVars
=============================================================================
