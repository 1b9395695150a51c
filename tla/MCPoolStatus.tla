---------------------------- MODULE MCPoolStatus ----------------------------
(***************************************************************************)
(* Small instances of PoolStatus for TLC.                                  *)
(***************************************************************************)
EXTENDS PoolStatus

ND(r, a, asked, cordoned, d) ==
    [rev |-> r, agent |-> a, asked |-> asked, cordoned |-> cordoned, drain |-> d]

Done == ND(1, "done", FALSE, FALSE, "none")

\* A node that is new; drained, with pods that stay; applying; failed; finished and
\* still cordoned; applying what it runs again; and ready.
Lifecycle ==
    {ND(0, "none", FALSE, FALSE, "none"), ND(0, "idle", FALSE, TRUE, "refused"),
     ND(0, "applying", TRUE, TRUE, "going"), ND(0, "error", TRUE, TRUE, "going"),
     ND(1, "done", FALSE, TRUE, "going"), ND(1, "applying", FALSE, TRUE, "going"), Done}

Finished == {Done}
=============================================================================
