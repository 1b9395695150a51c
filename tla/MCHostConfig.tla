---------------------------- MODULE MCHostConfig ----------------------------
(***************************************************************************)
(* Small instances of HostConfig for TLC.                                  *)
(***************************************************************************)
EXTENDS HostConfig, TLC

Present(c, m) == [state |-> "present", content |-> c, mode |-> m, owner |-> 1]
Gone == [state |-> "absent", content |-> 0, mode |-> 1, owner |-> 1]
UnitOf(m, e, s) == [mask |-> m, enabled |-> e, state |-> s]

NoNeeds == {}
AllNeed == {<<"file", 2>>, <<"unit", 1>>}

\* A config, its successor with another content and a new file, one that removes
\* and masks, one that only reloads, one that cannot be applied as systemd does not
\* start a masked unit, and one like the third without its first file.
Coherent ==
    1 :> [files |-> (1 :> Present(1, 1)),
          units |-> (1 :> UnitOf(FALSE, "yes", "started")), needs |-> NoNeeds]
    @@ 2 :> [files |-> (1 :> Present(2, 1) @@ 2 :> Present(1, 1)),
             units |-> (1 :> UnitOf(FALSE, "yes", "restarted")), needs |-> {<<"file", 2>>}]
    @@ 3 :> [files |-> (1 :> Gone @@ 2 :> Present(2, 2)),
             units |-> (1 :> UnitOf(TRUE, "no", "stopped")), needs |-> AllNeed]
    @@ 4 :> [files |-> (1 :> Present(1, 2)),
             units |-> (1 :> UnitOf(TRUE, "", "reloaded")), needs |-> NoNeeds]
    @@ 5 :> [files |-> (2 :> Present(2, 1)),
             units |-> (1 :> UnitOf(TRUE, "yes", "started")), needs |-> AllNeed]
    @@ 6 :> [files |-> (2 :> Present(2, 2)),
             units |-> (1 :> UnitOf(TRUE, "no", "stopped")), needs |-> AllNeed]

\* The second config starts a unit that a reboot does not bring back.
StartedOnly ==
    1 :> [files |-> (1 :> Present(1, 1)), units |-> <<>>, needs |-> {<<"file", 1>>}]
    @@ 2 :> [files |-> (1 :> Present(2, 1)),
             units |-> (1 :> UnitOf(FALSE, "", "started")), needs |-> {<<"file", 1>>}]

AllButReads == {"write", "owner", "call", "rmcGone", "crash", "hostReboot"}
NoHostFaults == {}
ReadFault == {"read"}
=============================================================================
