------------------------------ MODULE MCSync ------------------------------
(* Instances of Sync for TLC. *)
EXTENDS Sync, TLC

TaskSymmetry == Permutations(Tasks)
=============================================================================
