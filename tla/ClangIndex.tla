----------------------------- MODULE ClangIndex -----------------------------
(***************************************************************************)
(* The libclang index of the server: objc-semantic/src/index.rs (the cache *)
(* of translation units, its mutex, their disposal) together with          *)
(* objc-semantic/src/crash_guard.rs (the sigsetjmp/siglongjmp guard every  *)
(* query is supposed to run under) and the call pattern of the query files *)
(* (diagnostics.rs, references.rs, rename.rs, call_hierarchy.rs,           *)
(* type_hierarchy.rs, protocol_stubs.rs).                                  *)
(*                                                                         *)
(* One thread, the message loop of the server, makes the calls, one at a   *)
(* time.  A step is what the thread does between two points where          *)
(* something can go wrong: a lock it may not get, a libclang call that may *)
(* fail or crash, the siglongjmp out of one.  libclang itself is external: *)
(* it creates and disposes translation units, and a call into it returns,  *)
(* returns null, or raises SIGSEGV/SIGBUS.                                 *)
(***************************************************************************)

CONSTANTS
  Paths,     \* file paths the server is asked about
  TUs,       \* CXTranslationUnit handles; a disposed handle may come back
  None,      \* "no translation unit"
  MayCrash   \* which libclang entry points may crash: "parse", "visit", "dispose"

ASSUME NoneAssumption == None \notin TUs

VARIABLES
  units,     \* ClangIndex.units: path -> cached TU, None when absent
  unitsLock, \* the mutex around units is held
  inGuard,   \* thread-local IN_GUARD
  jmpBuf,    \* thread-local JMP_BUF_PTR is non-null
  masked,    \* SIGSEGV is blocked: the thread runs in (or never left) crash_handler
  alive,     \* TUs libclang holds in memory
  lost,      \* TUs a recovered crash left in memory with no one holding them
  held,      \* TUs the running call has in a local variable
  op,        \* the running call: [kind, path]
  pc         \* where the thread is in that call

vars == <<units, unitsLock, inGuard, jmpBuf, masked, alive, lost, held, op, pc>>
guardVars == <<inGuard, jmpBuf, masked>>
memory == <<alive, lost>>

-----------------------------------------------------------------------------
(* Types *)

\* query: every function that looks one TU up and reads it under the guard
\* rename: rename_across_all_files, which copies every cached TU
\* code_actions and sweep: the functions that hold the mutex while they visit
Kinds == {"parse", "query", "rename", "analyze", "code_actions", "sweep", "dispose"}

Idle  == [kind |-> "none", path |-> None]
Calls == [kind : Kinds, path : Paths]

\* Inside the closure of with_crash_guard
Guarded == {"clang", "harvest"}
\* libclang works on `held`
Using   == {"clang", "harvest", "visit", "free", "drop"}
\* The mutex is held across steps
Locking == {"visit", "free", "drop"}
Stopped == {"dead", "exited"}

Locations == {"idle", "lookup", "enter", "handler", "unwind", "insert"}
               \cup Using \cup Stopped

Cached == {units[p] : p \in Paths} \ {None}

TypeOK ==
  /\ units \in [Paths -> TUs \cup {None}]
  /\ unitsLock \in BOOLEAN
  /\ inGuard \in BOOLEAN
  /\ jmpBuf \in BOOLEAN
  /\ masked \in BOOLEAN
  /\ alive \in SUBSET TUs
  /\ lost \in SUBSET TUs
  /\ held \in SUBSET TUs
  /\ op \in Calls \cup {Idle}
  /\ pc \in Locations

Init ==
  /\ units = [p \in Paths |-> None]
  /\ unitsLock = FALSE
  /\ inGuard = FALSE
  /\ jmpBuf = FALSE
  /\ masked = FALSE
  /\ alive = {}
  /\ lost = {}
  /\ held = {}
  /\ op = Idle
  /\ pc = "idle"

-----------------------------------------------------------------------------
(* Calls *)

\* The call is over; the thread is back in the server's message loop.
Return ==
  /\ pc' = "idle"
  /\ op' = Idle
  /\ held' = {}

\* The server calls one of the functions of ClangIndex.  parse_file and
\* analyzer_diagnostics_for go straight to the guard, the others lock first.
Call(k, p) ==
  /\ pc = "idle"
  /\ op' = [kind |-> k, path |-> p]
  /\ pc' = IF k \in {"parse", "analyze"} THEN "enter" ELSE "lookup"
  /\ UNCHANGED <<units, unitsLock, guardVars, memory, held>>

\* A query copies the TU pointer out of the map in a block of its own, so the
\* mutex is free again before libclang is called; no TU, empty answer.
LookupOne ==
  /\ pc = "lookup" /\ op.kind = "query"
  /\ ~unitsLock
  /\ IF units[op.path] = None
       THEN Return
       ELSE held' = {units[op.path]} /\ pc' = "enter" /\ op' = op
  /\ UNCHANGED <<units, unitsLock, guardVars, memory>>

\* rename_across_all_files copies all of them.
LookupAll ==
  /\ pc = "lookup" /\ op.kind = "rename"
  /\ ~unitsLock
  /\ IF units[op.path] = None
       THEN Return
       ELSE held' = Cached /\ pc' = "enter" /\ op' = op
  /\ UNCHANGED <<units, unitsLock, guardVars, memory>>

\* Variant: the visit moved into the guard without giving the mutex up first.
LockForCodeActionsGuarded ==
  /\ pc = "lookup" /\ op.kind = "code_actions"
  /\ ~unitsLock
  /\ IF units[op.path] = None
       THEN Return /\ unitsLock' = FALSE
       ELSE /\ held' = {units[op.path]}
            /\ pc' = "enter"
            /\ op' = op
            /\ unitsLock' = TRUE
  /\ UNCHANGED <<units, guardVars, memory>>

\* code_actions_at keeps the mutex guard alive to the end of the function.
LockForCodeActions ==
  /\ pc = "lookup" /\ op.kind = "code_actions"
  /\ ~unitsLock
  /\ IF units[op.path] = None
       THEN Return /\ unitsLock' = FALSE
       ELSE /\ held' = {units[op.path]}
            /\ pc' = "visit"
            /\ op' = op
            /\ unitsLock' = TRUE
  /\ UNCHANGED <<units, guardVars, memory>>

\* call_hierarchy_incoming and type_hierarchy_subtypes keep it as well, and
\* walk every cached TU.
LockForSweep ==
  /\ pc = "lookup" /\ op.kind = "sweep"
  /\ ~unitsLock
  /\ unitsLock' = TRUE
  /\ held' = Cached
  /\ pc' = "visit"
  /\ UNCHANGED <<units, guardVars, memory, op>>

\* Variant: the map is read with get instead of remove.
RemoveByGet ==
  /\ pc = "lookup" /\ op.kind = "dispose"
  /\ ~unitsLock
  /\ IF units[op.path] = None
       THEN Return /\ unitsLock' = FALSE
       ELSE /\ held' = {units[op.path]}
            /\ pc' = "free"
            /\ op' = op
            /\ unitsLock' = TRUE
  /\ UNCHANGED <<units, guardVars, memory>>

\* dispose_file: the TU leaves the map; the temporary mutex guard lives to the
\* end of the `if let`, so it is still held while the TU is disposed.
Remove ==
  /\ pc = "lookup" /\ op.kind = "dispose"
  /\ ~unitsLock
  /\ units' = [units EXCEPT ![op.path] = None]
  /\ IF units[op.path] = None
       THEN Return /\ unitsLock' = FALSE
       ELSE /\ held' = {units[op.path]}
            /\ pc' = "free"
            /\ op' = op
            /\ unitsLock' = TRUE
  /\ UNCHANGED <<guardVars, memory>>

-----------------------------------------------------------------------------
(* The guard *)

\* Variant: the flag is armed and the buffer never published.
EnterGuardUnpublished ==
  /\ pc = "enter"
  /\ inGuard' = TRUE
  /\ pc' = "clang"
  /\ UNCHANGED <<units, unitsLock, jmpBuf, masked, memory, held, op>>

\* with_crash_guard up to sigsetjmp: publish the buffer, arm the flag.
EnterGuard ==
  /\ pc = "enter"
  /\ jmpBuf' = TRUE
  /\ inGuard' = TRUE
  /\ pc' = "clang"
  /\ UNCHANGED <<units, unitsLock, masked, memory, held, op>>

\* The disarming both ways out of with_crash_guard share.
Disarm ==
  /\ inGuard' = FALSE
  /\ jmpBuf' = FALSE
  /\ UNCHANGED masked

\* SIGSEGV or SIGBUS.  The kernel runs crash_handler unless the signal is still
\* blocked; without an armed guard and a buffer the handler restores SIG_DFL and
\* raises again, and the process is gone.
Signal ==
  IF inGuard /\ jmpBuf /\ ~masked
    THEN pc' = "handler" /\ masked' = TRUE
    ELSE pc' = "dead" /\ masked' = masked

\* Variant: sigsetjmp called with savemask = 0.
LongJumpKeepsMask ==
  /\ pc = "handler"
  /\ pc' = "unwind"
  /\ UNCHANGED <<units, unitsLock, inGuard, jmpBuf, masked, memory, held, op>>

\* siglongjmp back to the sigsetjmp, which saved the signal mask (savemask = 1)
\* and so restores it.
LongJump ==
  /\ pc = "handler"
  /\ masked' = FALSE
  /\ pc' = "unwind"
  /\ UNCHANGED <<units, unitsLock, inGuard, jmpBuf, memory, held, op>>

\* The signal path of with_crash_guard: disarm and return Err.  No destructor of
\* the closure runs, so a TU that only the closure knew stays in memory.
Unwind ==
  /\ pc = "unwind"
  /\ Disarm
  /\ lost' = lost \cup (held \ Cached)
  /\ Return
  /\ UNCHANGED <<units, unitsLock, alive>>

-----------------------------------------------------------------------------
(* libclang calls *)

\* A guarded query reads its TUs and returns.
QueryDone ==
  /\ pc = "clang" /\ op.kind \in {"query", "rename"}
  /\ Disarm
  /\ Return
  /\ UNCHANGED <<units, unitsLock, memory>>

\* Variant: the null check of parse_file is missing.
ParseNullUnchecked ==
  /\ pc = "clang" /\ op.kind \in {"parse", "analyze"}
  /\ Disarm
  /\ IF op.kind = "parse"
       THEN held' = {None} /\ pc' = "insert" /\ op' = op
       ELSE Return
  /\ UNCHANGED <<units, unitsLock, memory>>

\* Variant: a failed parse throws the previous TU of the file out of the map.
ParseNullEvicts ==
  /\ pc = "clang" /\ op.kind \in {"parse", "analyze"}
  /\ Disarm
  /\ units' = [units EXCEPT ![op.path] = None]
  /\ lost' = lost \cup ({units[op.path]} \ {None})
  /\ Return
  /\ UNCHANGED <<unitsLock, alive>>

\* clang_parseTranslationUnit returns null: parse_file bails, the analyzer
\* answers with no diagnostics.
ParseNull ==
  /\ pc = "clang" /\ op.kind \in {"parse", "analyze"}
  /\ Disarm
  /\ Return
  /\ UNCHANGED <<units, unitsLock, memory>>

\* It returns a TU: parse_file leaves the guard with it ...
ParseDone ==
  /\ pc = "clang" /\ op.kind = "parse"
  /\ Disarm
  /\ \E t \in TUs \ alive : held' = {t} /\ alive' = alive \cup {t}
  /\ pc' = "insert"
  /\ UNCHANGED <<units, unitsLock, lost, op>>

\* ... the analyzer keeps it inside the closure and reads its diagnostics ...
AnalyzerParsed ==
  /\ pc = "clang" /\ op.kind = "analyze"
  /\ \E t \in TUs \ alive : held' = {t} /\ alive' = alive \cup {t}
  /\ pc' = "harvest"
  /\ UNCHANGED <<units, unitsLock, guardVars, lost, op>>

\* ... and disposes it before the closure returns.
Harvested ==
  /\ pc = "harvest"
  /\ alive' = alive \ held
  /\ Disarm
  /\ Return
  /\ UNCHANGED <<units, unitsLock, lost>>

\* A crash inside the closure.  A parse that crashes may leave behind the TU it
\* was building.
GuardedCrash ==
  /\ pc \in Guarded
  /\ \/ /\ pc = "clang" /\ op.kind \in {"parse", "analyze"} /\ "parse" \in MayCrash
        /\ \/ \E t \in TUs \ alive : held' = {t} /\ alive' = alive \cup {t}
           \/ UNCHANGED <<held, alive>>
     \/ /\ op.kind \notin {"parse", "analyze"} \/ pc = "harvest"
        /\ "visit" \in MayCrash
        /\ UNCHANGED <<held, alive>>
  /\ Signal
  /\ UNCHANGED <<units, unitsLock, inGuard, jmpBuf, lost, op>>

\* Variant: the TU that insert displaces is dropped as a plain pointer.
InsertForgetsOld ==
  /\ pc = "insert"
  /\ ~unitsLock
  /\ \E t \in held : units' = [units EXCEPT ![op.path] = t]
  /\ Return
  /\ UNCHANGED <<unitsLock, guardVars, memory>>

\* The tail of parse_file, outside the guard: insert the TU; the one it replaces,
\* if any, is disposed with the mutex still held.
Insert ==
  /\ pc = "insert"
  /\ ~unitsLock
  /\ \E t \in held : units' = [units EXCEPT ![op.path] = t]
  /\ IF units[op.path] = None
       THEN Return /\ unitsLock' = FALSE
       ELSE /\ held' = {units[op.path]}
            /\ pc' = "free"
            /\ op' = op
            /\ unitsLock' = TRUE
  /\ UNCHANGED <<guardVars, memory>>

\* clang_disposeTranslationUnit of dispose_file and of parse_file's old TU.
Free ==
  /\ pc = "free"
  /\ alive' = alive \ held
  /\ unitsLock' = FALSE
  /\ Return
  /\ UNCHANGED <<units, guardVars, lost>>

\* The visit of a function that holds the mutex ends.
Visited ==
  /\ pc = "visit"
  /\ unitsLock' = FALSE
  /\ Return
  /\ UNCHANGED <<units, guardVars, memory>>

\* Variant: a guard around a visit that runs with the mutex held; the longjmp
\* skips the destructor that would have released it.
CrashPastLock ==
  /\ \/ pc = "visit" /\ held # {} /\ "visit" \in MayCrash
     \/ pc = "free" /\ "dispose" \in MayCrash
  /\ Return
  /\ UNCHANGED <<units, unitsLock, guardVars, memory>>

\* A crash in a libclang call made outside any guard.
UnguardedCrash ==
  /\ \/ pc = "visit" /\ held # {} /\ "visit" \in MayCrash
     \/ pc \in {"free", "drop"} /\ "dispose" \in MayCrash
  /\ Signal
  /\ UNCHANGED <<units, unitsLock, inGuard, jmpBuf, memory, held, op>>

-----------------------------------------------------------------------------
(* Shutdown: the server leaves its loop and drops the index. *)

BeginDrop ==
  /\ pc = "idle"
  /\ ~unitsLock
  /\ unitsLock' = TRUE
  /\ held' = Cached
  /\ pc' = "drop"
  /\ UNCHANGED <<units, guardVars, memory, op>>

Drop ==
  /\ pc = "drop"
  /\ alive' = alive \ held
  /\ units' = [p \in Paths |-> None]
  /\ unitsLock' = FALSE
  /\ held' = {}
  /\ pc' = "exited"
  /\ UNCHANGED <<guardVars, lost, op>>

-----------------------------------------------------------------------------
(* Specification *)

\* Everything the thread does by itself once a call has begun.
Step ==
  \/ LookupOne \/ LookupAll \/ LockForCodeActions \/ LockForSweep \/ Remove
  \/ EnterGuard \/ LongJump \/ Unwind
  \/ QueryDone \/ ParseNull \/ ParseDone \/ AnalyzerParsed \/ Harvested
  \/ GuardedCrash \/ Insert \/ Free \/ Visited \/ UnguardedCrash \/ Drop

Next ==
  \/ \E k \in Kinds, p \in Paths : Call(k, p)
  \/ BeginDrop
  \/ Step

Spec == Init /\ [][Next]_vars

\* The thread keeps running, and every libclang call ends one way or another.
FairSpec == Spec /\ WF_vars(Step)

-----------------------------------------------------------------------------
(* Properties *)

\* No libclang call ever gets a TU that has been disposed, a TU about to be
\* disposed is no longer cached (a second disposal cannot follow), no two paths
\* share one TU, and whatever is cached is in memory.
NoUseAfterDispose ==
  /\ pc \in Using => held \subseteq alive
  /\ pc = "free" => held \cap Cached = {}
  /\ Cached \subseteq alive
  /\ \A p, q \in Paths : p # q /\ units[p] = units[q] => units[p] = None

\* Nothing leaks silently: a TU in memory is cached, in the hands of the running
\* call, or was abandoned by a crash the guard recovered from; and what was
\* abandoned is never cached.
NoSilentLeak ==
  /\ alive = Cached \cup held \cup lost
  /\ lost \cap (Cached \cup held) = {}

\* The rule stated at the head of crash_guard.rs: a longjmp never leaves the
\* mutex locked, because the mutex is free wherever a longjmp can start, and it
\* is free again whenever the server is between two calls.
LockFreeOutsideItsScope ==
  pc \notin Locking \cup {"dead"} => ~unitsLock

\* A crash under the guard is always survived, the first and every later one:
\* the guard is armed exactly inside it, the buffer is published whenever it is
\* armed, and the signal is deliverable everywhere except in the handler.
GuardReady ==
  /\ pc \in Guarded \cup {"handler", "unwind"} => inGuard /\ jmpBuf
  /\ pc \notin Guarded \cup {"handler", "unwind"} => ~inGuard /\ ~jmpBuf
  /\ masked <=> pc = "handler"

\* So the process only dies in a call that never enters the guard.
DiesOnlyUnguarded ==
  pc = "dead" => op.kind \notin {"query", "rename", "analyze"}

\* A call that ends in an error or a crash leaves the cache as it was; only
\* parse_file binds a path, and a path loses its TU only by dispose_file or drop.
CacheChangesOnlyOnSuccess ==
  [][ \A p \in Paths : units'[p] # units[p] =>
        \/ pc = "insert" /\ op = [kind |-> "parse", path |-> p]
        \/ pc = "lookup" /\ op = [kind |-> "dispose", path |-> p]
        \/ pc = "drop" ]_vars

\* Every call comes back to the message loop, or the process is gone: no call
\* waits for a mutex that an earlier one left locked.
EveryCallReturns == (op # Idle) ~> (op = Idle \/ pc = "dead")

\* crash_guard.rs:3-6: a crash of libclang is recovered from "instead of
\* terminating the whole LSP server process".
\* Not kept: ClangIndexVisitCrash.cfg has the counterexample.
CrashNeverKills == pc # "dead"

-----------------------------------------------------------------------------
(* Refinement *)

\* The index as the server sees it: the keys of the map, the call in progress,
\* and whether the process is still there.
Cache == INSTANCE TuCache WITH
  NoCall <- Idle,
  parsed <- {p \in Paths : units[p] # None},
  call   <- op,
  status <- IF pc \in Stopped THEN pc ELSE "up"

\* Mutex, guard, crashes and recoveries of this module add nothing to the
\* behaviours of TuCache: in particular a call that crashed and was recovered
\* looks like a call that failed.
ImplementsTuCache == Cache!Spec

\* "The temporary TU is disposed immediately" (diagnostics.rs:48-49): between two calls libclang
\* holds no unit but the cached ones.
\* Not kept: ClangIndexAnalyzerCrash.cfg has the counterexample.
TemporaryUnitsDisposed == pc = "idle" => alive \subseteq Cached
=============================================================================
