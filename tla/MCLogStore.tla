----------------------------- MODULE MCLogStore -----------------------------
(***************************************************************************)
(* Instances of LogStore for TLC: the writers are interchangeable.         *)
(***************************************************************************)
EXTENDS LogStore, TLC

Symmetry == Permutations(Writers)
=============================================================================
