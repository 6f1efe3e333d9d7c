---------------------------- MODULE MCLspServer ----------------------------
(* Instances of LspServer for TLC. *)
EXTENDS LspServer, TLC

Symmetric == Permutations(Files)

\* What VS Code sends: both settings present.
AnalyzerOn == [nullability |-> TRUE, analyzer |-> TRUE]
Defaults   == [nullability |-> None, analyzer |-> None]
\* What Zed sends: nothing.
Unset == None

=============================================================================
