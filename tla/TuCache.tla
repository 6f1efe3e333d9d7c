------------------------------ MODULE TuCache ------------------------------
(***************************************************************************)
(* What the index promises to the server that calls it: a set of parsed    *)
(* files, one call at a time, and each call either takes effect on the one *)
(* path it names or leaves the set alone.  No mutex, no guard, no TU       *)
(* handles: ClangIndex is shown to implement this module, and LspServer is *)
(* written on top of it.                                                   *)
(***************************************************************************)

CONSTANTS Paths, Kinds, NoCall

VARIABLES
  parsed,  \* paths with a cached translation unit
  call,    \* the call in progress, NoCall between calls
  status   \* "up", "dead" (killed by a crash) or "exited"

vars == <<parsed, call, status>>

Init ==
  /\ parsed = {}
  /\ call = NoCall
  /\ status = "up"

Begin(k, p) ==
  /\ status = "up" /\ call = NoCall
  /\ call' = [kind |-> k, path |-> p]
  /\ UNCHANGED <<parsed, status>>

\* The effect of the call, which may or may not also end it.
Effect ==
  /\ status = "up" /\ call # NoCall
  /\ \/ call.kind = "parse" /\ parsed' = parsed \cup {call.path}
     \/ call.kind = "dispose" /\ parsed' = parsed \ {call.path}
  /\ call' \in {call, NoCall}
  /\ status' = status

\* The call ends, with an answer or with an error, without another effect.
End ==
  /\ status = "up" /\ call # NoCall
  /\ call' = NoCall
  /\ UNCHANGED <<parsed, status>>

\* libclang kills the process.
Die ==
  /\ status = "up"
  /\ status' = "dead"
  /\ UNCHANGED <<parsed, call>>

Exit ==
  /\ status = "up" /\ call = NoCall
  /\ status' = "exited"
  /\ parsed' = {}
  /\ call' = call

Next ==
  \/ \E k \in Kinds, p \in Paths : Begin(k, p)
  \/ Effect \/ End \/ Die \/ Exit

Spec == Init /\ [][Next]_vars

=============================================================================
