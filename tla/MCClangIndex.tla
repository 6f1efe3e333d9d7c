---------------------------- MODULE MCClangIndex ----------------------------
(* Instances of ClangIndex for TLC. *)
EXTENDS ClangIndex, TLC

Symmetric == Permutations(Paths) \cup Permutations(TUs)

EntryPoints == {"parse", "visit", "dispose"}
OnlyVisit   == {"visit"}

=============================================================================
