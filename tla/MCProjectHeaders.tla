-------------------------- MODULE MCProjectHeaders --------------------------
(* Instance of ProjectHeaders: an iOS workspace and another, headers of one name. *)
EXTENDS ProjectHeaders, TLC

CONSTANTS ios, mac, podA, podB, sources, build

\* One name in two directories of a pod, in another pod, and where it is not looked for.
OneName ==
  {[pod |-> podA, dir |-> sources, name |-> "x"], [pod |-> podA, dir |-> "root", name |-> "x"],
   [pod |-> podB, dir |-> sources, name |-> "x"], [pod |-> podA, dir |-> build, name |-> "x"]}

\* The iOS workspace has x in both pods; the other has none.
OneTree ==
  {(ios :> {h \in OneName : h.dir # "root"}) @@ (mac :> {})}

OneMark == (ios :> {"Podfile"}) @@ (mac :> {})

Symmetric == Permutations(Servers)
=============================================================================
