-------------------------- MODULE ClangIndexProofs --------------------------
(***************************************************************************)
(* Theorems about ClangIndex for every set of paths, every set of handles  *)
(* and every choice of the entry points that may crash.                    *)
(***************************************************************************)
EXTENDS ClangIndex, TLAPS

-----------------------------------------------------------------------------
(* The inductive invariant *)

\* Which calls can be at which location, and what the call has in its hands.
OpInv ==
  /\ pc \in {"idle", "drop", "exited"} => op = Idle
  /\ pc \in {"lookup", "enter", "handler", "unwind", "insert", "clang", "harvest",
             "visit", "free"} => op \in Calls
  /\ pc = "lookup" => op.kind \notin {"parse", "analyze"}
  /\ pc \in {"enter", "clang", "handler", "unwind"} =>
       op.kind \in {"parse", "query", "rename", "analyze"}
  /\ pc = "harvest" => op.kind = "analyze"
  /\ pc = "insert" => op.kind = "parse"
  /\ pc = "free" => op.kind \in {"parse", "dispose"}
  /\ pc = "visit" => op.kind \in {"code_actions", "sweep"}
  /\ pc = "dead" => op.kind \notin {"query", "rename", "analyze"}

LockInv == pc # "dead" => (unitsLock <=> pc \in Locking)

Distinct == \A p, q \in Paths : p # q /\ units[p] = units[q] => units[p] = None

HeldInv ==
  /\ pc \in {"idle", "lookup", "exited"} => held = {}
  /\ pc \in {"enter", "clang"} /\ op.kind \in {"parse", "analyze"} => held = {}
  /\ pc = "insert" => \E t \in TUs : held = {t}
  /\ pc \in {"insert", "harvest", "free"} => held \cap Cached = {}
  /\ pc \in {"enter", "clang", "handler", "unwind"} /\ op.kind \in {"query", "rename"}
       => held \subseteq Cached
  /\ pc = "visit" => held \subseteq Cached
  /\ pc = "drop" => held = Cached

IInv ==
  /\ TypeOK
  /\ OpInv
  /\ LockInv
  /\ GuardReady
  /\ Distinct
  /\ HeldInv
  /\ NoSilentLeak

-----------------------------------------------------------------------------
(* Lemmas about the map *)

\* Binding one path to a handle no other path has replaces its old handle.
LEMMA CachedAfterBind ==
  ASSUME TypeOK, Distinct, NEW p \in Paths, NEW t \in TUs, t \notin Cached,
         units' = [units EXCEPT ![p] = t]
  PROVE  /\ Cached' = (Cached \ {units[p]}) \cup {t}
         /\ Distinct'
<1>1. units' \in [Paths -> TUs \cup {None}]
  BY DEF TypeOK
<1>2. units'[p] = t /\ \A q \in Paths \ {p} : units'[q] = units[q]
  BY DEF TypeOK
<1>3. Cached' = (Cached \ {units[p]}) \cup {t}
  BY <1>2, NoneAssumption DEF Cached, Distinct, TypeOK
<1>4. Distinct'
  BY <1>2, NoneAssumption DEF Cached, Distinct, TypeOK
<1>5. QED
  BY <1>3, <1>4

\* Removing a path removes exactly its handle.
LEMMA CachedAfterRemove ==
  ASSUME TypeOK, Distinct, NEW p \in Paths,
         units' = [units EXCEPT ![p] = None]
  PROVE  /\ Cached' = Cached \ {units[p]}
         /\ Distinct'
<1>1. units'[p] = None /\ \A q \in Paths \ {p} : units'[q] = units[q]
  BY DEF TypeOK
<1>2. Cached' = Cached \ {units[p]}
  BY <1>1 DEF Cached, Distinct, TypeOK
<1>3. Distinct'
  BY <1>1 DEF Distinct
<1>4. QED
  BY <1>2, <1>3

\* A step that leaves the map alone leaves what is derived from it alone.
LEMMA CachedUnchanged ==
  ASSUME units' = units
  PROVE  /\ Cached' = Cached
         /\ Distinct' <=> Distinct
BY DEF Cached, Distinct

\* Cached handles are handles.
LEMMA CachedType ==
  ASSUME TypeOK
  PROVE  /\ Cached \subseteq TUs
         /\ \A p \in Paths : units[p] # None => units[p] \in Cached
BY DEF TypeOK, Cached

-----------------------------------------------------------------------------
(* The invariant is inductive: one step per action, under it one step per   *)
(* conjunct of the invariant.                                               *)

LEMMA InitIInv == Init => IInv
BY NoneAssumption DEF Init, IInv, TypeOK, OpInv, LockInv, GuardReady, Distinct, HeldInv,
   NoSilentLeak, Cached, Calls, Idle, Kinds, Locations, Using, Locking, Stopped, Guarded

LEMMA NextIInv == IInv /\ [Next]_vars => IInv'
<1> SUFFICES ASSUME IInv, [Next]_vars PROVE IInv'
  OBVIOUS
<1> USE DEF IInv
<1>1. CASE \E k \in Kinds, p \in Paths : Call(k, p)
  <2> USE <1>1 DEF Call
  <2>1. TypeOK'
    BY DEF TypeOK, Locations, Kinds, Calls, Using, Stopped, Idle, guardVars, memory
  <2>2. OpInv'
    BY DEF OpInv, TypeOK, Idle, Calls, Kinds, guardVars, memory
  <2>3. LockInv' /\ GuardReady'
    BY DEF LockInv, Locking, GuardReady, Guarded, OpInv, guardVars, memory
  <2>4. Cached' = Cached /\ Distinct'
    BY CachedUnchanged
  <2>5. HeldInv'
    BY <2>4 DEF HeldInv, OpInv, NoSilentLeak, Guarded, Idle, guardVars, memory
  <2>6. NoSilentLeak'
    BY <2>4 DEF NoSilentLeak, HeldInv, OpInv, Guarded, Idle, guardVars, memory
  <2>7. QED
    BY <2>1, <2>2, <2>3, <2>4, <2>5, <2>6
<1>2. CASE BeginDrop
  <2> USE <1>2 DEF BeginDrop
  <2>1. TypeOK'
    BY CachedType DEF TypeOK, Locations, Using, Stopped, Idle, guardVars, memory
  <2>2. OpInv'
    BY DEF OpInv, TypeOK, Idle, Calls, guardVars, memory
  <2>3. LockInv' /\ GuardReady'
    BY DEF LockInv, Locking, GuardReady, Guarded, guardVars, memory
  <2>4. Cached' = Cached /\ Distinct'
    BY CachedUnchanged
  <2>5. HeldInv'
    BY <2>4 DEF HeldInv, OpInv, NoSilentLeak, Guarded, Idle, guardVars, memory
  <2>6. NoSilentLeak'
    BY <2>4 DEF NoSilentLeak, HeldInv, OpInv, Guarded, Idle, guardVars, memory
  <2>7. QED
    BY <2>1, <2>2, <2>3, <2>4, <2>5, <2>6
<1>3. CASE LookupOne
  <2> USE <1>3 DEF LookupOne
  <2>0. units[op.path] # None => units[op.path] \in Cached \cap TUs
    BY CachedType DEF OpInv, TypeOK, Calls
  <2>1. TypeOK'
    BY <2>0 DEF TypeOK, Locations, Using, Stopped, Idle, Return, guardVars, memory
  <2>2. OpInv'
    BY DEF OpInv, TypeOK, Idle, Calls, Return, guardVars, memory
  <2>3. LockInv' /\ GuardReady'
    BY DEF LockInv, Locking, GuardReady, Guarded, Return, guardVars, memory
  <2>4. Cached' = Cached /\ Distinct'
    BY CachedUnchanged
  <2>5. HeldInv'
    BY <2>0, <2>4 DEF HeldInv, OpInv, NoSilentLeak, Guarded, Idle, Return, guardVars, memory
  <2>6. NoSilentLeak'
    BY <2>0, <2>4 DEF NoSilentLeak, HeldInv, OpInv, Guarded, Idle, Return, guardVars, memory
  <2>7. QED
    BY <2>1, <2>2, <2>3, <2>4, <2>5, <2>6
<1>4. CASE LookupAll
  <2> USE <1>4 DEF LookupAll
  <2>1. TypeOK'
    BY CachedType DEF TypeOK, Locations, Using, Stopped, Idle, Return, guardVars, memory
  <2>2. OpInv'
    BY DEF OpInv, TypeOK, Idle, Calls, Return, guardVars, memory
  <2>3. LockInv' /\ GuardReady'
    BY DEF LockInv, Locking, GuardReady, Guarded, Return, guardVars, memory
  <2>4. Cached' = Cached /\ Distinct'
    BY CachedUnchanged
  <2>5. HeldInv'
    BY <2>4 DEF HeldInv, OpInv, NoSilentLeak, Guarded, Idle, Return, guardVars, memory
  <2>6. NoSilentLeak'
    BY <2>4 DEF NoSilentLeak, HeldInv, OpInv, Guarded, Idle, Return, guardVars, memory
  <2>7. QED
    BY <2>1, <2>2, <2>3, <2>4, <2>5, <2>6
<1>5. CASE LockForCodeActions
  <2> USE <1>5 DEF LockForCodeActions
  <2>0. units[op.path] # None => units[op.path] \in Cached \cap TUs
    BY CachedType DEF OpInv, TypeOK, Calls
  <2>1. TypeOK'
    BY <2>0 DEF TypeOK, Locations, Using, Stopped, Idle, Return, guardVars, memory
  <2>2. OpInv'
    BY DEF OpInv, TypeOK, Idle, Calls, Return, guardVars, memory
  <2>3. LockInv' /\ GuardReady'
    BY DEF LockInv, Locking, GuardReady, Guarded, Return, guardVars, memory
  <2>4. Cached' = Cached /\ Distinct'
    BY CachedUnchanged
  <2>5. HeldInv'
    BY <2>0, <2>4 DEF HeldInv, OpInv, NoSilentLeak, Guarded, Idle, Return, guardVars, memory
  <2>6. NoSilentLeak'
    BY <2>0, <2>4 DEF NoSilentLeak, HeldInv, OpInv, Guarded, Idle, Return, guardVars, memory
  <2>7. QED
    BY <2>1, <2>2, <2>3, <2>4, <2>5, <2>6
<1>6. CASE LockForSweep
  <2> USE <1>6 DEF LockForSweep
  <2>1. TypeOK'
    BY CachedType DEF TypeOK, Locations, Using, Stopped, Idle, guardVars, memory
  <2>2. OpInv'
    BY DEF OpInv, TypeOK, Idle, Calls, guardVars, memory
  <2>3. LockInv' /\ GuardReady'
    BY DEF LockInv, Locking, GuardReady, Guarded, guardVars, memory
  <2>4. Cached' = Cached /\ Distinct'
    BY CachedUnchanged
  <2>5. HeldInv'
    BY <2>4 DEF HeldInv, OpInv, NoSilentLeak, Guarded, Idle, guardVars, memory
  <2>6. NoSilentLeak'
    BY <2>4 DEF NoSilentLeak, HeldInv, OpInv, Guarded, Idle, guardVars, memory
  <2>7. QED
    BY <2>1, <2>2, <2>3, <2>4, <2>5, <2>6
<1>7. CASE Remove
  <2> USE <1>7 DEF Remove
  <2>0. op.path \in Paths /\ (units[op.path] # None => units[op.path] \in Cached \cap TUs)
    BY CachedType DEF OpInv, TypeOK, Calls
  <2>4. Cached' = Cached \ {units[op.path]} /\ Distinct'
    BY <2>0, CachedAfterRemove
  <2>1. TypeOK'
    BY <2>0, NoneAssumption DEF TypeOK, Locations, Using, Stopped, Idle, Return, guardVars, memory
  <2>2. OpInv'
    BY DEF OpInv, TypeOK, Idle, Calls, Return, guardVars, memory
  <2>3. LockInv' /\ GuardReady'
    BY DEF LockInv, Locking, GuardReady, Guarded, Return, guardVars, memory
  <2>5. HeldInv'
    BY <2>0, <2>4 DEF HeldInv, OpInv, NoSilentLeak, Guarded, Idle, Return, guardVars, memory
  <2>6. NoSilentLeak'
    <3>1. CASE units[op.path] = None
      <4>1. Cached' = Cached
        BY <3>1, <2>4 DEF Cached
      <4>2. QED
        BY <3>1, <4>1 DEF NoSilentLeak, HeldInv, Return, memory
    <3>2. CASE units[op.path] # None
      BY <3>2, <2>0, <2>4 DEF NoSilentLeak, HeldInv, memory
    <3>3. QED
      BY <3>1, <3>2
  <2>7. QED
    BY <2>1, <2>2, <2>3, <2>4, <2>5, <2>6
<1>8. CASE EnterGuard
  <2> USE <1>8 DEF EnterGuard
  <2>1. TypeOK'
    BY DEF TypeOK, Locations, Using, Stopped, Idle, memory
  <2>2. OpInv'
    BY DEF OpInv, TypeOK, Idle, Calls, memory
  <2>3. LockInv' /\ GuardReady'
    BY DEF LockInv, Locking, GuardReady, Guarded, memory
  <2>4. Cached' = Cached /\ Distinct'
    BY CachedUnchanged
  <2>5. HeldInv'
    BY <2>4 DEF HeldInv, OpInv, NoSilentLeak, Guarded, Idle, memory
  <2>6. NoSilentLeak'
    BY <2>4 DEF NoSilentLeak, HeldInv, OpInv, Guarded, Idle, memory
  <2>7. QED
    BY <2>1, <2>2, <2>3, <2>4, <2>5, <2>6
<1>9. CASE LongJump
  <2> USE <1>9 DEF LongJump
  <2>1. TypeOK'
    BY DEF TypeOK, Locations, Using, Stopped, Idle, memory
  <2>2. OpInv'
    BY DEF OpInv, TypeOK, Idle, Calls, memory
  <2>3. LockInv' /\ GuardReady'
    BY DEF LockInv, Locking, GuardReady, Guarded, memory
  <2>4. Cached' = Cached /\ Distinct'
    BY CachedUnchanged
  <2>5. HeldInv'
    BY <2>4 DEF HeldInv, OpInv, NoSilentLeak, Guarded, Idle, memory
  <2>6. NoSilentLeak'
    BY <2>4 DEF NoSilentLeak, HeldInv, OpInv, Guarded, Idle, memory
  <2>7. QED
    BY <2>1, <2>2, <2>3, <2>4, <2>5, <2>6
<1>10. CASE Unwind
  <2> USE <1>10 DEF Unwind
  <2>1. TypeOK'
    BY DEF TypeOK, Locations, Using, Stopped, Idle, Return, Disarm
  <2>2. OpInv'
    BY DEF OpInv, TypeOK, Idle, Calls, Return, Disarm
  <2>3. LockInv' /\ GuardReady'
    BY DEF LockInv, Locking, GuardReady, Guarded, Return, Disarm
  <2>4. Cached' = Cached /\ Distinct'
    BY CachedUnchanged
  <2>5. HeldInv'
    BY <2>4 DEF HeldInv, OpInv, NoSilentLeak, Guarded, Idle, Return, Disarm
  <2>6. NoSilentLeak'
    BY <2>4 DEF NoSilentLeak, HeldInv, OpInv, Guarded, Idle, Return, Disarm
  <2>7. QED
    BY <2>1, <2>2, <2>3, <2>4, <2>5, <2>6
<1>11. CASE QueryDone
  <2> USE <1>11 DEF QueryDone
  <2>1. TypeOK'
    BY DEF TypeOK, Locations, Using, Stopped, Idle, Return, Disarm, memory
  <2>2. OpInv'
    BY DEF OpInv, TypeOK, Idle, Calls, Return, Disarm, memory
  <2>3. LockInv' /\ GuardReady'
    BY DEF LockInv, Locking, GuardReady, Guarded, Return, Disarm, memory
  <2>4. Cached' = Cached /\ Distinct'
    BY CachedUnchanged
  <2>5. HeldInv'
    BY <2>4 DEF HeldInv, OpInv, NoSilentLeak, Guarded, Idle, Return, Disarm, memory
  <2>6. NoSilentLeak'
    BY <2>4 DEF NoSilentLeak, HeldInv, OpInv, Guarded, Idle, Return, Disarm, memory
  <2>7. QED
    BY <2>1, <2>2, <2>3, <2>4, <2>5, <2>6
<1>12. CASE ParseNull
  <2> USE <1>12 DEF ParseNull
  <2>1. TypeOK'
    BY DEF TypeOK, Locations, Using, Stopped, Idle, Return, Disarm, memory
  <2>2. OpInv'
    BY DEF OpInv, TypeOK, Idle, Calls, Return, Disarm, memory
  <2>3. LockInv' /\ GuardReady'
    BY DEF LockInv, Locking, GuardReady, Guarded, Return, Disarm, memory
  <2>4. Cached' = Cached /\ Distinct'
    BY CachedUnchanged
  <2>5. HeldInv'
    BY <2>4 DEF HeldInv, OpInv, NoSilentLeak, Guarded, Idle, Return, Disarm, memory
  <2>6. NoSilentLeak'
    BY <2>4 DEF NoSilentLeak, HeldInv, OpInv, Guarded, Idle, Return, Disarm, memory
  <2>7. QED
    BY <2>1, <2>2, <2>3, <2>4, <2>5, <2>6
<1>13. CASE ParseDone
  <2> USE <1>13 DEF ParseDone
  <2>1. TypeOK'
    BY DEF TypeOK, Locations, Using, Stopped, Idle, Disarm
  <2>2. OpInv'
    BY DEF OpInv, TypeOK, Idle, Calls, Disarm
  <2>3. LockInv' /\ GuardReady'
    BY DEF LockInv, Locking, GuardReady, Guarded, Disarm
  <2>4. Cached' = Cached /\ Distinct'
    BY CachedUnchanged
  <2>5. HeldInv'
    BY <2>4, CachedType DEF HeldInv, OpInv, NoSilentLeak, Guarded, Idle, Disarm
  <2>6. NoSilentLeak'
    BY <2>4 DEF NoSilentLeak, HeldInv, OpInv, Guarded, Idle, Disarm
  <2>7. QED
    BY <2>1, <2>2, <2>3, <2>4, <2>5, <2>6
<1>14. CASE AnalyzerParsed
  <2> USE <1>14 DEF AnalyzerParsed
  <2>1. TypeOK'
    BY DEF TypeOK, Locations, Using, Stopped, Idle, guardVars
  <2>2. OpInv'
    BY DEF OpInv, TypeOK, Idle, Calls, guardVars
  <2>3. LockInv' /\ GuardReady'
    BY DEF LockInv, Locking, GuardReady, Guarded, guardVars
  <2>4. Cached' = Cached /\ Distinct'
    BY CachedUnchanged
  <2>5. HeldInv'
    BY <2>4, CachedType DEF HeldInv, OpInv, NoSilentLeak, Guarded, Idle, guardVars
  <2>6. NoSilentLeak'
    BY <2>4 DEF NoSilentLeak, HeldInv, OpInv, Guarded, Idle, guardVars
  <2>7. QED
    BY <2>1, <2>2, <2>3, <2>4, <2>5, <2>6
<1>15. CASE Harvested
  <2> USE <1>15 DEF Harvested
  <2>1. TypeOK'
    BY DEF TypeOK, Locations, Using, Stopped, Idle, Return, Disarm
  <2>2. OpInv'
    BY DEF OpInv, TypeOK, Idle, Calls, Return, Disarm
  <2>3. LockInv' /\ GuardReady'
    BY DEF LockInv, Locking, GuardReady, Guarded, Return, Disarm
  <2>4. Cached' = Cached /\ Distinct'
    BY CachedUnchanged
  <2>5. HeldInv'
    BY <2>4 DEF HeldInv, OpInv, NoSilentLeak, Guarded, Idle, Return, Disarm
  <2>6. NoSilentLeak'
    BY <2>4 DEF NoSilentLeak, HeldInv, OpInv, Guarded, Idle, Return, Disarm
  <2>7. QED
    BY <2>1, <2>2, <2>3, <2>4, <2>5, <2>6
<1>16. CASE GuardedCrash
  <2> USE <1>16 DEF GuardedCrash
  <2>1. TypeOK'
    BY DEF TypeOK, Locations, Using, Stopped, Idle, Signal
  <2>2. OpInv'
    BY DEF OpInv, TypeOK, Idle, Calls, GuardReady, Guarded, Signal
  <2>3. LockInv' /\ GuardReady'
    BY DEF LockInv, Locking, GuardReady, Guarded, Signal
  <2>4. Cached' = Cached /\ Distinct'
    BY CachedUnchanged
  <2>5. HeldInv'
    BY <2>4, CachedType DEF HeldInv, OpInv, NoSilentLeak, Guarded, Idle, Signal
  <2>6. NoSilentLeak'
    BY <2>4 DEF NoSilentLeak, HeldInv, OpInv, Guarded, Idle, Signal
  <2>7. QED
    BY <2>1, <2>2, <2>3, <2>4, <2>5, <2>6
<1>17. CASE Insert
  <2> USE <1>17 DEF Insert
  <2>0. /\ op.path \in Paths
        /\ units[op.path] # None => units[op.path] \in Cached \cap TUs
    BY CachedType DEF OpInv, TypeOK, Calls
  <2>a. PICK t \in TUs : held = {t}
    BY DEF HeldInv
  <2>b. t \notin Cached /\ units' = [units EXCEPT ![op.path] = t]
    BY <2>a DEF HeldInv
  <2>4. Cached' = (Cached \ {units[op.path]}) \cup {t} /\ Distinct'
    BY <2>0, <2>b, CachedAfterBind
  <2>1. TypeOK'
    <3>1. units' \in [Paths -> TUs \cup {None}]
      BY <2>b DEF TypeOK
    <3>2. held' \in SUBSET TUs /\ op' \in Calls \cup {Idle} /\ pc' \in Locations /\ unitsLock' \in BOOLEAN
      BY <2>0 DEF TypeOK, Locations, Using, Idle, Return
    <3>3. QED
      BY <3>1, <3>2 DEF TypeOK, guardVars, memory
  <2>2. OpInv'
    BY DEF OpInv, TypeOK, Idle, Calls, Return, guardVars, memory
  <2>3. LockInv' /\ GuardReady'
    BY DEF LockInv, Locking, GuardReady, Guarded, Return, guardVars, memory
  <2>5. HeldInv'
    BY <2>0, <2>a, <2>b, <2>4 DEF HeldInv, OpInv, NoSilentLeak, Guarded, Idle, Return, guardVars, memory
  <2>6. NoSilentLeak'
    <3>1. CASE units[op.path] = None
      <4>1. Cached' = Cached \cup {t}
        BY <3>1, <2>4 DEF Cached
      <4>2. QED
        BY <3>1, <4>1, <2>a DEF NoSilentLeak, Return, memory
    <3>2. CASE units[op.path] # None
      BY <3>2, <2>0, <2>a, <2>b, <2>4 DEF NoSilentLeak, memory
    <3>3. QED
      BY <3>1, <3>2
  <2>7. QED
    BY <2>1, <2>2, <2>3, <2>4, <2>5, <2>6
<1>18. CASE Free
  <2> USE <1>18 DEF Free
  <2>1. TypeOK'
    BY DEF TypeOK, Locations, Using, Stopped, Idle, Return, guardVars
  <2>2. OpInv'
    BY DEF OpInv, TypeOK, Idle, Calls, Return, guardVars
  <2>3. LockInv' /\ GuardReady'
    BY DEF LockInv, Locking, GuardReady, Guarded, Return, guardVars
  <2>4. Cached' = Cached /\ Distinct'
    BY CachedUnchanged
  <2>5. HeldInv'
    BY <2>4 DEF HeldInv, OpInv, NoSilentLeak, Guarded, Idle, Return, guardVars
  <2>6. NoSilentLeak'
    BY <2>4 DEF NoSilentLeak, HeldInv, OpInv, Guarded, Idle, Return, guardVars
  <2>7. QED
    BY <2>1, <2>2, <2>3, <2>4, <2>5, <2>6
<1>19. CASE Visited
  <2> USE <1>19 DEF Visited
  <2>1. TypeOK'
    BY DEF TypeOK, Locations, Using, Stopped, Idle, Return, guardVars, memory
  <2>2. OpInv'
    BY DEF OpInv, TypeOK, Idle, Calls, Return, guardVars, memory
  <2>3. LockInv' /\ GuardReady'
    BY DEF LockInv, Locking, GuardReady, Guarded, Return, guardVars, memory
  <2>4. Cached' = Cached /\ Distinct'
    BY CachedUnchanged
  <2>5. HeldInv'
    BY <2>4 DEF HeldInv, OpInv, NoSilentLeak, Guarded, Idle, Return, guardVars, memory
  <2>6. NoSilentLeak'
    BY <2>4 DEF NoSilentLeak, HeldInv, OpInv, Guarded, Idle, Return, guardVars, memory
  <2>7. QED
    BY <2>1, <2>2, <2>3, <2>4, <2>5, <2>6
<1>20. CASE UnguardedCrash
  <2> USE <1>20 DEF UnguardedCrash
  <2>1. TypeOK'
    BY DEF TypeOK, Locations, Using, Stopped, Idle, Signal, memory
  <2>2. OpInv'
    BY DEF OpInv, TypeOK, Idle, Calls, GuardReady, Guarded, Signal, memory
  <2>3. LockInv' /\ GuardReady'
    BY DEF LockInv, Locking, GuardReady, Guarded, Signal, memory
  <2>4. Cached' = Cached /\ Distinct'
    BY CachedUnchanged
  <2>5. HeldInv'
    BY <2>4 DEF HeldInv, OpInv, NoSilentLeak, Guarded, Idle, Signal, memory
  <2>6. NoSilentLeak'
    BY <2>4 DEF NoSilentLeak, HeldInv, OpInv, Guarded, Idle, Signal, memory
  <2>7. QED
    BY <2>1, <2>2, <2>3, <2>4, <2>5, <2>6
<1>21. CASE Drop
  <2> USE <1>21 DEF Drop
  <2>4. Cached' = {} /\ Distinct'
    BY DEF Cached, Distinct
  <2>1. TypeOK'
    BY NoneAssumption DEF TypeOK, Locations, Using, Stopped, Idle, guardVars
  <2>2. OpInv'
    BY DEF OpInv, TypeOK, Idle, Calls, guardVars
  <2>3. LockInv' /\ GuardReady'
    BY DEF LockInv, Locking, GuardReady, Guarded, guardVars
  <2>5. HeldInv'
    BY <2>4 DEF HeldInv, OpInv, NoSilentLeak, Guarded, Idle, guardVars
  <2>6. NoSilentLeak'
    BY <2>4 DEF NoSilentLeak, HeldInv, OpInv, Guarded, Idle, guardVars
  <2>7. QED
    BY <2>1, <2>2, <2>3, <2>4, <2>5, <2>6
<1>22. CASE UNCHANGED vars
  BY <1>22 DEF vars, TypeOK, OpInv, LockInv, GuardReady, Distinct, HeldInv, NoSilentLeak, Cached
<1>23. QED
  BY <1>1, <1>2, <1>3, <1>4, <1>5, <1>6, <1>7, <1>8, <1>9, <1>10, <1>11, <1>12,
     <1>13, <1>14, <1>15, <1>16, <1>17, <1>18, <1>19, <1>20, <1>21, <1>22
     DEF Next, Step

-----------------------------------------------------------------------------
(* Theorems *)

\* The invariant holds in every reachable state of the index.
THEOREM Invariance == Spec => []IInv
BY InitIInv, NextIInv, PTL DEF Spec

\* The variables keep their types: in particular every map entry is a handle or
\* nothing, whatever libclang does.
THEOREM TypeCorrect == Spec => []TypeOK
BY Invariance, PTL DEF IInv

\* No call into libclang ever sees a disposed TU and no TU is disposed twice
\* (index.rs: insert/remove followed by the disposal of what was displaced).
THEOREM UseAfterDisposeFree == Spec => []NoUseAfterDispose
<1>1. IInv => NoUseAfterDispose
  BY DEF IInv, NoUseAfterDispose, NoSilentLeak, HeldInv, Distinct
<1>2. QED
  BY <1>1, Invariance, PTL

\* A TU in memory is cached, in use, or was abandoned by a recovered crash: the
\* re-parse and close paths of index.rs leak nothing.
THEOREM LeakFree == Spec => []NoSilentLeak
BY Invariance, PTL DEF IInv

\* No longjmp can leave the mutex of the cache locked (crash_guard.rs, header).
THEOREM LockScoped == Spec => []LockFreeOutsideItsScope
<1>1. IInv => LockFreeOutsideItsScope
  BY DEF IInv, LockInv, LockFreeOutsideItsScope
<1>2. QED
  BY <1>1, Invariance, PTL

\* Wherever a guarded call can crash the guard is armed, its buffer published and
\* the signal deliverable (crash_guard.rs, with_crash_guard and crash_handler).
THEOREM GuardAlwaysReady == Spec => []GuardReady
BY Invariance, PTL DEF IInv

\* Hence the process survives every crash of a guarded query.
THEOREM GuardedCallsSurvive == Spec => []DiesOnlyUnguarded
<1>1. IInv => DiesOnlyUnguarded
  BY DEF IInv, OpInv, DiesOnlyUnguarded
<1>2. QED
  BY <1>1, Invariance, PTL

\* The cache changes only by a parse that succeeded, a disposal and the drop.
THEOREM CacheStable == Spec => CacheChangesOnlyOnSuccess
<1> DEFINE A == \A p \in Paths : units'[p] # units[p] =>
                  \/ pc = "insert" /\ op = [kind |-> "parse", path |-> p]
                  \/ pc = "lookup" /\ op = [kind |-> "dispose", path |-> p]
                  \/ pc = "drop"
<1>1. IInv /\ [Next]_vars => [A]_vars
  <2> SUFFICES ASSUME IInv, Next, NEW p \in Paths, units'[p] # units[p]
               PROVE  \/ pc = "insert" /\ op = [kind |-> "parse", path |-> p]
                      \/ pc = "lookup" /\ op = [kind |-> "dispose", path |-> p]
                      \/ pc = "drop"
    OBVIOUS
  <2>1. Insert \/ Remove \/ Drop
    BY DEF Next, Step, Call, BeginDrop, LookupOne, LookupAll, LockForCodeActions,
       LockForSweep, EnterGuard, LongJump, Unwind, QueryDone, ParseNull, ParseDone,
       AnalyzerParsed, Harvested, GuardedCrash, Free, Visited, UnguardedCrash
  <2>2. (op \in Calls /\ (pc = "insert" => op.kind = "parse")) \/ pc = "drop"
    BY <2>1 DEF IInv, OpInv, Insert, Remove, Drop
  <2>3. CASE Insert
    BY <2>2, <2>3 DEF Insert, Calls, IInv, TypeOK
  <2>4. CASE Remove
    BY <2>2, <2>4 DEF Remove, Calls, IInv, TypeOK
  <2>5. CASE Drop
    BY <2>5 DEF Drop
  <2>6. QED
    BY <2>1, <2>3, <2>4, <2>5
<1>2. QED
  BY <1>1, Invariance, PTL DEF Spec, CacheChangesOnlyOnSuccess

-----------------------------------------------------------------------------
(* Refinement *)

LEMMA InitRefines == Init => Cache!Init
BY DEF Init, Cache!Init, Stopped

\* Most steps only move the call along inside the index.
LEMMA Internal ==
  ASSUME units' = units, op' = op, pc \notin Stopped, pc' \notin Stopped
  PROVE  UNCHANGED Cache!vars
BY DEF Cache!vars

\* Steps that end a call without touching the map.
LEMMA Ending ==
  ASSUME units' = units, op # Idle, op' = Idle, pc \notin Stopped, pc' = "idle"
  PROVE  Cache!End
BY DEF Cache!End, Stopped

LEMMA NextRefines == IInv /\ [Next]_vars => [Cache!Next]_(Cache!vars)
<1> SUFFICES ASSUME IInv, [Next]_vars PROVE Cache!Next \/ UNCHANGED Cache!vars
  OBVIOUS
<1>0. Idle \notin Calls /\ (pc \in {"lookup", "enter", "handler", "unwind", "insert",
         "clang", "harvest", "visit", "free"} => op # Idle /\ op.path \in Paths)
  BY DEF IInv, OpInv, Idle, Calls, Kinds
<1>1. CASE \E k \in Kinds, p \in Paths : Call(k, p)
  <2> PICK k \in Kinds, p \in Paths : Call(k, p)
    BY <1>1
  <2>1. pc = "idle" /\ op = Idle /\ op' = [kind |-> k, path |-> p] /\ units' = units
        /\ pc' \in {"enter", "lookup"}
    BY DEF Call, IInv, OpInv
  <2>2. Cache!Begin(k, p)
    BY <2>1 DEF Cache!Begin, Stopped
  <2>3. QED
    BY <2>2 DEF Cache!Next
<1>2. CASE BeginDrop \/ EnterGuard \/ LongJump \/ ParseDone \/ AnalyzerParsed \/ LockForSweep
  BY <1>2, Internal DEF BeginDrop, EnterGuard, LongJump, ParseDone, AnalyzerParsed,
     LockForSweep, Stopped
<1>3. CASE LookupOne \/ LookupAll \/ LockForCodeActions
  <2>1. units' = units /\ pc = "lookup" /\ op # Idle
    BY <1>0, <1>3 DEF LookupOne, LookupAll, LockForCodeActions
  <2>2. (op' = Idle /\ pc' = "idle") \/ (op' = op /\ pc' \in {"enter", "visit"})
    BY <1>3 DEF LookupOne, LookupAll, LockForCodeActions, Return
  <2>3. QED
    BY <2>1, <2>2, Internal, Ending DEF Stopped, Cache!Next
<1>4. CASE Unwind \/ QueryDone \/ ParseNull \/ Harvested \/ Free \/ Visited
  <2>1. units' = units /\ op # Idle /\ pc \notin Stopped
    BY <1>0, <1>4 DEF Unwind, QueryDone, ParseNull, Harvested, Free, Visited, Stopped
  <2>2. op' = Idle /\ pc' = "idle"
    BY <1>4 DEF Unwind, QueryDone, ParseNull, Harvested, Free, Visited, Return
  <2>3. QED
    BY <2>1, <2>2, Ending DEF Cache!Next
<1>5. CASE GuardedCrash \/ UnguardedCrash
  <2>1. units' = units /\ op' = op /\ pc \notin Stopped /\ pc' \in {"handler", "dead"}
    BY <1>5 DEF GuardedCrash, UnguardedCrash, Signal, Guarded, Stopped
  <2>2. CASE pc' = "handler"
    BY <2>1, <2>2, Internal DEF Stopped
  <2>3. CASE pc' = "dead"
    BY <2>1, <2>3 DEF Cache!Next, Cache!Die, Stopped
  <2>4. QED
    BY <2>1, <2>2, <2>3
<1>6. CASE Remove
  <2>1. op.path \in Paths /\ op.kind = "dispose" /\ op # Idle /\ pc = "lookup"
    BY <1>0, <1>6 DEF Remove
  <2>2. {p \in Paths : units'[p] # None} = {p \in Paths : units[p] # None} \ {op.path}
    BY <2>1, <1>6 DEF Remove, IInv, TypeOK
  <2>3. op' \in {op, Idle} /\ pc' \in {"idle", "free"}
    BY <1>6 DEF Remove, Return
  <2>4. QED
    BY <2>1, <2>2, <2>3 DEF Cache!Next, Cache!Effect, Stopped
<1>7. CASE Insert
  <2>1. op.path \in Paths /\ op.kind = "parse" /\ op # Idle /\ pc = "insert"
    BY <1>0, <1>7 DEF Insert, IInv, OpInv
  <2>2. PICK t \in TUs : held = {t}
    BY <1>7 DEF Insert, IInv, HeldInv
  <2>3. {p \in Paths : units'[p] # None} = {p \in Paths : units[p] # None} \cup {op.path}
    BY <2>1, <2>2, <1>7, NoneAssumption DEF Insert, IInv, TypeOK
  <2>4. op' \in {op, Idle} /\ pc' \in {"idle", "free"}
    BY <1>7 DEF Insert, Return
  <2>5. QED
    BY <2>1, <2>3, <2>4 DEF Cache!Next, Cache!Effect, Stopped
<1>8. CASE Drop
  BY <1>8 DEF Drop, IInv, OpInv, Cache!Next, Cache!Exit, Stopped
<1>9. CASE UNCHANGED vars
  BY <1>9 DEF vars, Cache!vars
<1>10. QED
  BY <1>1, <1>2, <1>3, <1>4, <1>5, <1>6, <1>7, <1>8, <1>9 DEF Next, Step

\* The index implements TuCache: crashes, recoveries, locking and disposal do not
\* show to the server.
THEOREM Refinement == Spec => ImplementsTuCache
BY InitRefines, NextRefines, Invariance, PTL DEF Spec, Cache!Spec, ImplementsTuCache

=============================================================================
