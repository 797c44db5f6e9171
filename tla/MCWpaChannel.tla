---------------------------- MODULE MCWpaChannel ----------------------------
(* Instances of WpaChannel for TLC, and changes of it that have to be noticed. *)
EXTENDS WpaChannel

Symmetry == Permutations(Callers)
=============================================================================
