---------------------------- MODULE SymbolTable -----------------------------
(***************************************************************************)
(* What the index store promises the server (queries.rs:111-116): a call   *)
(* replaces the symbols of its file in a single transaction, so it takes   *)
(* effect as a whole or, when it fails, not at all.                        *)
(***************************************************************************)
EXTENDS Naturals, Sequences

CONSTANTS Paths, Symbols, MaxBatch, None

VARIABLES
  table,   \* path -> its symbols, in the order of the source
  asked    \* the call under way: [path, batch], or None

Batches == UNION {[1..n -> Symbols] : n \in 0..MaxBatch}

Init == table = [p \in Paths |-> << >>] /\ asked = None

Call(p) ==
  /\ asked = None
  /\ \E batch \in Batches : asked' = [path |-> p, batch |-> batch]
  /\ table' = table

Succeed ==
  /\ asked # None
  /\ table' = [table EXCEPT ![asked.path] = asked.batch]
  /\ asked' = None

\* An error, or the end of the process when the store is on a file: nothing is committed.
Fail == asked # None /\ asked' = None /\ table' = table

\* The end of the process when the store is in memory.
Forget ==
  /\ table' = [p \in Paths |-> << >>]
  /\ asked' = None

Next == (\E p \in Paths : Call(p)) \/ Succeed \/ Fail \/ Forget

Spec == Init /\ [][Next]_<<table, asked>>

=============================================================================
