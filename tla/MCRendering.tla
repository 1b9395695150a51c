----------------------------- MODULE MCRendering -----------------------------
(***************************************************************************)
(* Small instances of Rendering for TLC.                                   *)
(***************************************************************************)
EXTENDS Rendering, TLC

MC(p, e, r) == [prio |-> p, entries |-> e, reboot |-> r]

\* One key with two contents, a second key, and the same config with two priorities:
\* with a tie and without.
SomeTemplates ==
    {MC(1, ("f" :> "x") @@ ("g" :> "x"), TRUE)} \cup {MC(p, ("f" :> "y"), FALSE) : p \in {1, 2}}

\* Two keys, each with and without a reboot.
RebootTemplates ==
    {MC(1, ("f" :> "x"), r) : r \in BOOLEAN} \cup {MC(1, ("g" :> "x"), r) : r \in BOOLEAN}

\* Configs collide if they agree on whether to reboot.
ShortByReboot(h) == IF h.reboot THEN 1 ELSE 2
NoCollisions(h) == h
=============================================================================
