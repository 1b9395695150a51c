---------------------------- MODULE MCDrainRetry ----------------------------
(***************************************************************************)
(* Instances of DrainRetry for TLC are given by their constants alone.     *)
(***************************************************************************)
EXTENDS DrainRetry
=============================================================================
