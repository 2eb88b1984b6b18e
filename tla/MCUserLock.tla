----------------------------- MODULE MCUserLock -----------------------------
(* Instances of UserLock for TLC. *)
EXTENDS UserLock, TLC

Symmetry == Permutations(Proc)
=============================================================================
