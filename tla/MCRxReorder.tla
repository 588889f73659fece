---------------------------- MODULE MCRxReorder ----------------------------
(* Instances of RxReorder for TLC. *)
EXTENDS RxReorder, TLC

Symmetry == Permutations(Tids)
=============================================================================
