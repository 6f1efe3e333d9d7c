----------------------------- MODULE IndexStore -----------------------------
(***************************************************************************)
(* The symbol store, objc-store/src: queries.rs, schema.rs and lib.rs.     *)
(*                                                                         *)
(* index_file_symbols is a series of SQL statements on a connection in     *)
(* autocommit mode, so every statement is a transaction of its own and an  *)
(* action of its own: any of them may fail, which returns an error and     *)
(* leaves what the earlier ones did, and the process may die between two.  *)
(* SQLite itself is external; rows are numbered as it numbers them.        *)
(***************************************************************************)
EXTENDS Naturals, Sequences, FiniteSets, FiniteSetsExt

CONSTANTS
  Paths,
  Symbols,     \* rows are told apart by their symbol: name, kind, selector and range
  None,
  Faults,      \* what may go wrong: "statement", "process"
  MaxBatch,    \* bound: symbols of a file
  MaxCalls     \* bound: calls of index_file_symbols

ASSUME StoreAssumption ==
  /\ None \notin Paths
  /\ MaxBatch \in Nat /\ MaxCalls \in Nat

VARIABLES
  durable,    \* the store is on a file (open) and not in memory (in_memory)
  files,      \* table files: rows [id, path]
  symbols,    \* table symbols: rows [id, file, symbol]
  lastId,     \* last_insert_rowid() of the connection
  pc,         \* next statement of the call under way, "idle" when there is none
  call,       \* the call: path, batch, rest of the batch, file id
  before,     \* symbols of the call's path when it began
  calls

vars == <<durable, files, symbols, lastId, pc, call, before, calls>>

Batches == UNION {[1..n -> Symbols] : n \in 0..MaxBatch}

\* No call is not a call.
ASSUME NoneAssumption == None \notin [path : Paths, batch : Batches]

NoCall == [path |-> None, batch |-> << >>, rest |-> << >>, file |-> 0]

TypeOK ==
  /\ durable \in BOOLEAN
  /\ files \subseteq [id : Nat, path : Paths]
  /\ symbols \subseteq [id : Nat, file : Nat, symbol : Symbols]
  /\ lastId \in Nat
  /\ pc \in {"idle", "insertFile", "selectFile", "deleteOld", "insertNew"}
  /\ call \in [path : Paths \cup {None}, batch : Batches, rest : Batches, file : Nat]
  /\ calls \in 0..MaxCalls

Init ==
  /\ durable \in BOOLEAN
  /\ files = {}
  /\ symbols = {}
  /\ lastId = 0
  /\ pc = "idle"
  /\ call = NoCall
  /\ before = << >>
  /\ calls = 0

-----------------------------------------------------------------------------
(* SQL *)

Ids(table) == {row.id : row \in table}

\* INTEGER PRIMARY KEY: one more than the largest in use; numbers of deleted rows return.
NextId(table) == IF table = {} THEN 1 ELSE Max(Ids(table)) + 1

FileOf(p) == {row.id : row \in {r \in files : r.path = p}}

\* The i-th row by row number: the one with i - 1 rows before it.
Nth(rows, i) == {row \in rows : Cardinality({r \in rows : r.id < row.id}) = i - 1}

\* SELECT ... FROM symbols JOIN files ... for the symbols of a file, by row number.
InOrder(rows) ==
  [i \in 1..Cardinality(rows) |-> (CHOOSE row \in Nth(rows, i) : TRUE).symbol]

RowsOf(p) == {row \in symbols : row.file \in FileOf(p)}
SymbolsOf(p) == InOrder(RowsOf(p))

-----------------------------------------------------------------------------
(* index_file_symbols *)

Begin(p, batch) ==
  /\ pc = "idle" /\ calls < MaxCalls
  /\ pc' = "insertFile"
  /\ call' = [path |-> p, batch |-> batch, rest |-> batch, file |-> 0]
  /\ before' = SymbolsOf(p)
  /\ calls' = calls + 1
  /\ UNCHANGED <<durable, files, symbols, lastId>>

\* upsert_file: INSERT ... ON CONFLICT(path) DO UPDATE.
InsertFile ==
  /\ pc = "insertFile"
  /\ pc' = "selectFile"
  /\ IF FileOf(call.path) # {}
       THEN UNCHANGED <<files, lastId>>
       ELSE /\ files' = files \cup {[id |-> NextId(files), path |-> call.path]}
            /\ lastId' = NextId(files)
  /\ UNCHANGED <<durable, symbols, call, before, calls>>

\* Mutant of SelectFile: last_insert_rowid() for the id.
SelectLastId ==
  /\ pc = "selectFile"
  /\ pc' = "deleteOld"
  /\ call' = [call EXCEPT !.file = lastId]
  /\ UNCHANGED <<durable, files, symbols, lastId, before, calls>>

\* upsert_file: SELECT id FROM files, since last_insert_rowid() is not it on a conflict.
SelectFile ==
  /\ pc = "selectFile"
  /\ pc' = "deleteOld"
  /\ \E id \in FileOf(call.path) : call' = [call EXCEPT !.file = id]
  /\ UNCHANGED <<durable, files, symbols, lastId, before, calls>>

\* Mutant of DeleteOld: the rows of the old symbols stay.
DeleteNothing ==
  /\ pc = "deleteOld"
  /\ pc' = "insertNew"
  /\ UNCHANGED <<durable, files, symbols, lastId, call, before, calls>>

DeleteOld ==
  /\ pc = "deleteOld"
  /\ pc' = "insertNew"
  /\ symbols' = {row \in symbols : row.file # call.file}
  /\ UNCHANGED <<durable, files, lastId, call, before, calls>>

InsertNext ==
  /\ pc = "insertNew" /\ call.rest # << >>
  /\ symbols' = symbols \cup
       {[id |-> NextId(symbols), file |-> call.file, symbol |-> Head(call.rest)]}
  /\ lastId' = NextId(symbols)
  /\ call' = [call EXCEPT !.rest = Tail(@)]
  /\ UNCHANGED <<durable, files, pc, before, calls>>

Finish ==
  /\ pc = "insertNew" /\ call.rest = << >>
  /\ pc' = "idle"
  /\ UNCHANGED <<durable, files, symbols, lastId, call, before, calls>>

-----------------------------------------------------------------------------
(* Failures *)

\* The ? of a statement: an error goes back to the caller, nothing is rolled back.
StatementFails ==
  /\ "statement" \in Faults /\ pc # "idle"
  /\ pc' = "idle"
  /\ UNCHANGED <<durable, files, symbols, lastId, call, before, calls>>

\* The process dies and a new one opens the store: CREATE TABLE IF NOT EXISTS.
Reopen ==
  /\ "process" \in Faults
  /\ pc' = "idle"
  /\ lastId' = 0
  /\ IF durable THEN UNCHANGED <<files, symbols, call, before>>
       ELSE files' = {} /\ symbols' = {} /\ call' = NoCall /\ before' = << >>
  /\ UNCHANGED <<durable, calls>>

-----------------------------------------------------------------------------
(* Specification *)

Next ==
  \/ \E p \in Paths, batch \in Batches : Begin(p, batch)
  \/ InsertFile \/ SelectFile \/ DeleteOld \/ InsertNext \/ Finish
  \/ StatementFails \/ Reopen

Spec == Init /\ [][Next]_vars

-----------------------------------------------------------------------------
(* Properties *)

\* index_file_symbols replaces the symbols of its file in a single transaction (queries.rs:111-116):
\* in one step at its end, in the order of the source, or not at all when it fails.
Table == INSTANCE SymbolTable WITH
  table <- [p \in Paths |-> IF pc # "idle" /\ p = call.path THEN before ELSE SymbolsOf(p)],
  asked <- IF pc = "idle" THEN None ELSE [path |-> call.path, batch |-> call.batch]

\* Kept only while nothing fails: IndexStoreTornBatch.cfg has a counterexample.
ImplementsSymbolTable == Table!Spec

\* A call that is about to return Ok has left the whole batch, in its order, and nothing else.
SuccessReplaces ==
  pc = "insertNew" /\ call.rest = << >> => SymbolsOf(call.path) = call.batch

\* Wherever a call fails or the process dies, old and new symbols never mix: the file has all its
\* old ones or the first of the new ones.
OldAndNewNeverMix ==
  call.path # None =>
    \/ SymbolsOf(call.path) = before
    \/ \E n \in 0..Len(call.batch) : SymbolsOf(call.path) = SubSeq(call.batch, 1, n)

\* A step changes the symbols of no file but the one being indexed (or starts a new store).
OtherFilesUntouched ==
  [][\A p \in Paths : p # call.path /\ files' # {} => SymbolsOf(p)' = SymbolsOf(p)]_vars

\* Every symbol belongs to a file of the table; a path and an id have one row (schema.rs:12-30).
References ==
  /\ \A row \in symbols : row.file \in Ids(files)
  /\ \A row, other \in files : row.path = other.path \/ row.id = other.id => row = other

=============================================================================
