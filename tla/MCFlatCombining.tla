-------------------------- MODULE MCFlatCombining --------------------------
(* Small instances of FlatCombining and its invariant for TLC. *)
EXTENDS FlatCombiningInv, TLC

Symmetry == Permutations(Thread)

===========================================================================
