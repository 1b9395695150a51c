----------------------------- MODULE MCNodeAgent -----------------------------
(***************************************************************************)
(* Small instances of NodeAgent for TLC.                                   *)
(***************************************************************************)
EXTENDS NodeAgent

NoPairs == {}
AllPairs == Revisions \X Revisions
OneToTwo == {<<1, 2>>}

NoFaults == {}
NoCrash == {"revert", "pause", "force", "fetchError", "applyError", "apiError", "rmcGone", "hostReboot"}
AllFaults == NoCrash \cup {"ownerError", "rebootError", "agentRestart", "stateFileError"}
RMCGone == {"rmcGone"}
Crash == {"agentRestart"}
OwnerFault == {"ownerError"}
=============================================================================
