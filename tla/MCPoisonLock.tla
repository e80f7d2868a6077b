---------------------------- MODULE MCPoisonLock ----------------------------
(* Small instances of PoisonLock for TLC. *)
EXTENDS PoisonLock, TLC

Symmetry == Permutations(Thread)

===========================================================================
