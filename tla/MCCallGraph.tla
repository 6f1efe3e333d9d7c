----------------------------- MODULE MCCallGraph -----------------------------
(* Instance of CallGraph: every program of one to MaxCalls calls among four items. *)
EXTENDS CallGraph

CONSTANTS f1, f2, MaxCalls

\* Two functions and a method in one file, a second method of that name in the same file, and
\* a function of a header that the file includes.
FourItems ==
  {[name |-> "main", file |-> f1, at |-> 1], [name |-> "run", file |-> f1, at |-> 2],
   [name |-> "run", file |-> f1, at |-> 3], [name |-> "help", file |-> f2, at |-> 1]}

OneHeader == {<<f1, f2>>}

SmallPrograms ==
  {{chosen[k] : k \in 1..MaxCalls} : chosen \in [1..MaxCalls -> FourItems \X FourItems]}
=============================================================================
