--------------------------- MODULE MCVsCodeClient ---------------------------
(* Instances of VsCodeClient for TLC. *)
EXTENDS VsCodeClient, TLC

Symmetric == Permutations(Restarts)

=============================================================================
