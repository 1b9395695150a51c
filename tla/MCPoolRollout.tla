---------------------------- MODULE MCPoolRollout ----------------------------
(***************************************************************************)
(* Small instances of PoolRollout for TLC.                                 *)
(***************************************************************************)
EXTENDS RolloutContract

MCNodes2 == 1..2
MCNodes1 == {1}
MCNodes3 == 1..3
MCZone == [n \in Nodes |-> IF n = 1 THEN NoZone ELSE 1]
MCCreated == [n \in Nodes |-> 1]
MCNameRank == [n \in Nodes |-> n]
MCOne == [kind |-> "int", val |-> 1]
MCNothing == [kind |-> "percent", val |-> 0]

MCNoPods == [n \in Nodes |-> 0]
MCPods == [n \in Nodes |-> 1]
MCPodsOnOne == [n \in Nodes |-> IF n = 1 THEN 1 ELSE 0]

EnvFaults == {"apiError", "controllerRestart", "applyError", "reapplyError",
              "fetchError", "patchError", "agentRestart", "reboot"}
EnvAdmin == {"revert", "empty", "apiError", "pause", "cordon", "uncordon", "poolpause",
             "join", "leave", "overlap"}
EnvLag == EnvFaults \cup {"cacheLag"}
EnvNone == {}
EnvRestart == {"agentRestart"}
EnvRevert == {"revert"}
EnvPause == {"pause"}
EnvJoin == {"join"}
EnvLeave == {"leave"}
EnvUpdates == {"apiError", "controllerRestart", "fetchError", "applyError", "patchError",
               "reboot"}
EnvReapply == {"reapplyError"}
=============================================================================
