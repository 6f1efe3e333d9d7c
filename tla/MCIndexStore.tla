---------------------------- MODULE MCIndexStore ----------------------------
(* Instances of IndexStore for TLC. *)
EXTENDS IndexStore, TLC

Symmetric == Permutations(Paths) \cup Permutations(Symbols)

=============================================================================
