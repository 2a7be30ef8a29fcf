----------------------------- MODULE MCControl ------------------------------
(* Instances of Control: two writers, the storage worker and the control   *)
(* task, one change of settings, OFF and AUTO, and a power loss.            *)
EXTENDS Control, TLC

CONSTANTS home1, home2

PlaceSymmetry == Permutations({home1, home2})
=============================================================================
