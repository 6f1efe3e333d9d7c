-------------------------- MODULE IndexStoreProofs --------------------------
(***************************************************************************)
(* Theorems about IndexStore for every set of paths and symbols, every     *)
(* bound and every choice of the faults.                                   *)
(***************************************************************************)
EXTENDS IndexStore, TLAPS, WellFoundedInduction, SequenceTheorems, FiniteSetTheorems

-----------------------------------------------------------------------------
(* Lemmas about row numbers and batches *)

\* A table whose numbers have an upper bound; every finite table has one.
Bounded(table) == \E n \in Nat : \A row \in table : row.id <= n

\* A non-empty set of numbers with an upper bound has a largest element.
LEMMA MaxOfBounded ==
  ASSUME NEW S, S \subseteq Nat, S # {}, NEW n \in Nat, \A x \in S : x <= n
  PROVE  Max(S) \in S /\ \A x \in S : x <= Max(S)
<1> DEFINE Less == {p \in Nat \X Nat : p[1] < p[2]}
           Upper == {u \in Nat : \A x \in S : x <= u}
<1>1. IsWellFoundedOn(Less, Nat)
  BY NatLessThanWellFounded DEF OpToRel
<1>2. PICK u \in Upper : \A v \in Upper : ~(<<v, u>> \in Less)
  <2>1. Upper \subseteq Nat /\ Upper # {}
    OBVIOUS
  <2> QED
    BY <1>1, <2>1, WFMin
<1>3. \A v \in Upper : u <= v
  <2> SUFFICES ASSUME NEW v \in Upper, ~(u <= v) PROVE FALSE
    OBVIOUS
  <2>1. u \in Nat /\ v \in Nat /\ v < u
    BY <1>2
  <2>2. <<v, u>> \in Less
    BY <2>1
  <2> QED
    BY <1>2, <2>2
<1>4. u \in S
  <2> SUFFICES ASSUME u \notin S PROVE FALSE
    OBVIOUS
  <2>1. PICK x \in S : TRUE
    OBVIOUS
  <2>2. \A y \in S : y < u
    BY <1>2
  <2>3. u - 1 \in Nat /\ \A y \in S : y <= u - 1
    BY <2>1, <2>2, <1>2
  <2> QED
    BY <2>3, <1>3, <1>2
<1>5. \E x \in S : \A y \in S : x >= y
  BY <1>2, <1>4
<1> QED
  BY <1>5 DEF Max

\* The number of a new row is larger than every number of the table.
LEMMA NextIdIsNew ==
  ASSUME NEW table, \A row \in table : row.id \in Nat, Bounded(table)
  PROVE  NextId(table) \in Nat /\ \A row \in table : row.id < NextId(table)
<1>1. CASE table = {}
  BY <1>1 DEF NextId
<1>2. CASE table # {}
  <2>1. PICK n \in Nat : \A row \in table : row.id <= n
    BY DEF Bounded
  <2>2. Ids(table) \subseteq Nat /\ Ids(table) # {} /\ \A x \in Ids(table) : x <= n
    BY <1>2, <2>1 DEF Ids
  <2>3. Max(Ids(table)) \in Ids(table) /\ \A x \in Ids(table) : x <= Max(Ids(table))
    BY <2>1, <2>2, MaxOfBounded
  <2>4. \A row \in table : row.id \in Ids(table)
    BY DEF Ids
  <2> QED
    BY <1>2, <2>2, <2>3, <2>4 DEF NextId
<1> QED
  BY <1>1, <1>2

\* A table stays bounded when a row is added.
LEMMA BoundedAfterInsert ==
  ASSUME NEW table, \A row \in table : row.id \in Nat, Bounded(table), NEW new, new.id \in Nat
  PROVE  Bounded(table \cup {new})
<1>1. PICK n \in Nat : \A row \in table : row.id <= n
  BY DEF Bounded
<1>2. n + new.id \in Nat /\ \A row \in table \cup {new} : row.id <= n + new.id
  BY <1>1
<1> QED
  BY <1>2 DEF Bounded

LEMMA BoundedAfterDelete ==
  ASSUME NEW table, NEW other, other \subseteq table, Bounded(table)
  PROVE  Bounded(other)
BY DEF Bounded

\* What is left of a batch is a batch.
LEMMA TailOfBatch ==
  ASSUME NEW batch \in Batches, batch # << >>, MaxBatch \in Nat
  PROVE  Head(batch) \in Symbols /\ Tail(batch) \in Batches
<1>1. PICK n \in 0..MaxBatch : batch \in [1..n -> Symbols]
  BY DEF Batches
<1>2. batch \in Seq(Symbols) /\ Len(batch) = n
  BY <1>1
<1>3. n > 0 /\ n - 1 \in 0..MaxBatch
  BY <1>1, <1>2
<1>4. Tail(batch) \in [1..(n - 1) -> Symbols]
  <2>1. Tail(batch) \in Seq(Symbols) /\ Len(Tail(batch)) = n - 1
    BY <1>2, <1>3, HeadTailProperties
  <2> QED
    BY <2>1, LenProperties
<1>5. [1..(n - 1) -> Symbols] \in {[1..m -> Symbols] : m \in 0..MaxBatch}
  BY <1>3
<1>6. Head(batch) \in Symbols
  BY <1>2
<1> QED
  BY <1>4, <1>5, <1>6 DEF Batches

\* A batch may be empty.
LEMMA EmptyBatch == << >> \in Batches
<1>1. << >> \in [1..0 -> Symbols]
  OBVIOUS
<1>2. [1..0 -> Symbols] \in {[1..n -> Symbols] : n \in 0..MaxBatch}
  BY StoreAssumption
<1> QED
  BY <1>1, <1>2 DEF Batches

-----------------------------------------------------------------------------
(* The inductive invariant *)

\* From the select on, the file id of the call is that of its path.
CallFile ==
  pc \in {"deleteOld", "insertNew"} =>
    \E row \in files : row.path = call.path /\ row.id = call.file

IInv ==
  /\ TypeOK
  /\ References
  /\ pc # "idle" => call.path \in Paths
  /\ CallFile
  /\ Bounded(files) /\ Bounded(symbols)

\* The store starts empty.
LEMMA InitIInv == Init => IInv
<1> SUFFICES ASSUME Init PROVE IInv
  OBVIOUS
<1>1. TypeOK
  BY StoreAssumption, EmptyBatch DEF Init, TypeOK, NoCall
<1>2. Bounded(files) /\ Bounded(symbols)
  BY DEF Init, Bounded
<1> QED
  BY <1>1, <1>2 DEF Init, IInv, References, CallFile

\* Every statement, failure and reopening keeps the invariant.
LEMMA NextIInv == IInv /\ [Next]_vars => IInv'
<1> SUFFICES ASSUME IInv, [Next]_vars PROVE IInv'
  OBVIOUS
<1> USE DEF IInv
<1>1. ASSUME NEW p \in Paths, NEW batch \in Batches, Begin(p, batch) PROVE IInv'
  <2>1. TypeOK'
    <3>1. calls' \in 0..MaxCalls
      BY <1>1, StoreAssumption DEF TypeOK, Begin
    <3>2. call' \in [path : Paths \cup {None}, batch : Batches, rest : Batches, file : Nat]
      BY <1>1 DEF Begin
    <3> QED
      BY <1>1, <3>1, <3>2 DEF TypeOK, Begin
  <2> QED
    BY <1>1, <2>1 DEF Begin, References, CallFile, Bounded, Ids
<1>2. CASE InsertFile
  <2>1. CASE FileOf(call.path) # {}
    BY <1>2, <2>1 DEF InsertFile, TypeOK, References, CallFile, Bounded, Ids
  <2>2. CASE FileOf(call.path) = {}
    <3> DEFINE new == [id |-> NextId(files), path |-> call.path]
    <3>1. /\ files' = files \cup {new}
          /\ lastId' = NextId(files) /\ pc' = "selectFile"
          /\ UNCHANGED <<durable, symbols, call, before, calls>>
      BY <1>2, <2>2 DEF InsertFile
    <3>2. NextId(files) \in Nat /\ \A row \in files : row.id < NextId(files)
      BY NextIdIsNew DEF TypeOK
    <3>3. new \in [id : Nat, path : Paths]
      BY <1>2, <3>2 DEF InsertFile, TypeOK
    <3>4. TypeOK'
      BY <3>1, <3>2, <3>3 DEF TypeOK
    <3>5. \A row \in files : row.path # call.path
      BY <2>2 DEF FileOf
    <3>6. References'
      BY <3>1, <3>2, <3>5 DEF References, Ids, TypeOK
    <3>7. Bounded(files)'
      BY <3>1, <3>2, BoundedAfterInsert DEF TypeOK
    <3> QED
      BY <1>2, <3>1, <3>4, <3>6, <3>7 DEF CallFile, Bounded, InsertFile
  <2> QED
    BY <2>1, <2>2
<1>3. CASE SelectFile
  <2>1. PICK row \in files : /\ row.path = call.path
                             /\ call' = [call EXCEPT !.file = row.id]
    BY <1>3 DEF SelectFile, FileOf
  <2> QED
    BY <1>3, <2>1 DEF SelectFile, TypeOK, References, CallFile, Bounded, Ids
<1>4. CASE DeleteOld
  BY <1>4, BoundedAfterDelete DEF DeleteOld, TypeOK, References, CallFile, Bounded, Ids
<1>5. CASE InsertNext
  <2> DEFINE new == [id |-> NextId(symbols), file |-> call.file, symbol |-> Head(call.rest)]
  <2>1. /\ symbols' = symbols \cup {new}
        /\ lastId' = NextId(symbols) /\ call' = [call EXCEPT !.rest = Tail(@)]
        /\ UNCHANGED <<durable, files, pc, before, calls>>
    BY <1>5 DEF InsertNext
  <2>2. NextId(symbols) \in Nat
    BY NextIdIsNew DEF TypeOK
  <2>3. Head(call.rest) \in Symbols /\ Tail(call.rest) \in Batches
    BY <1>5, TailOfBatch, StoreAssumption DEF InsertNext, TypeOK
  <2>4. TypeOK'
    <3>1. new \in [id : Nat, file : Nat, symbol : Symbols]
      BY <2>2, <2>3 DEF TypeOK
    <3>2. call' \in [path : Paths \cup {None}, batch : Batches, rest : Batches, file : Nat]
      BY <2>1, <2>3 DEF TypeOK
    <3> HIDE DEF new
    <3> QED
      BY <2>1, <2>2, <3>1, <3>2 DEF TypeOK
  <2>5. \E row \in files : row.path = call.path /\ row.id = call.file
    BY <1>5 DEF InsertNext, CallFile
  <2>6. References' /\ CallFile'
    BY <2>1, <2>5 DEF References, CallFile, Ids, TypeOK
  <2>7. Bounded(symbols)'
    BY <2>1, <2>2, BoundedAfterInsert DEF TypeOK
  <2> QED
    BY <1>5, <2>1, <2>4, <2>6, <2>7 DEF Bounded, TypeOK
<1>6. CASE Finish
  BY <1>6 DEF Finish, TypeOK, References, CallFile, Bounded, Ids
<1>7. CASE StatementFails
  BY <1>7 DEF StatementFails, TypeOK, References, CallFile, Bounded, Ids
<1>8. CASE Reopen
  <2>1. CASE durable
    BY <1>8, <2>1 DEF Reopen, TypeOK, References, CallFile, Bounded, Ids
  <2>2. CASE ~durable
    BY <1>8, <2>2, EmptyBatch DEF Reopen, TypeOK, NoCall, References, CallFile, Bounded, Ids
  <2> QED
    BY <2>1, <2>2
<1>9. CASE UNCHANGED vars
  BY <1>9 DEF vars, TypeOK, References, CallFile, Bounded, Ids
<1> QED
  BY <1>1, <1>2, <1>3, <1>4, <1>5, <1>6, <1>7, <1>8, <1>9 DEF Next

LEMMA Invariance == Spec => []IInv
<1> QED
  BY InitIInv, NextIInv, PTL DEF Spec

\* The tables and the call under way keep their types.
THEOREM TypeCorrect == Spec => []TypeOK
<1>1. IInv => TypeOK
  BY DEF IInv
<1> QED
  BY <1>1, Invariance, PTL

\* Whatever fails and whenever the process dies, no symbol belongs to a file that is not
\* there, and neither a path nor an id has two rows in files.
THEOREM ReferencesHold == Spec => []References
<1>1. IInv => References
  BY DEF IInv
<1> QED
  BY <1>1, Invariance, PTL

\* A statement leaves the rows of every path alone, or only those of the call's.
LEMMA RowsKept ==
  ASSUME IInv, Next, NEW p \in Paths, files' # {},
         p # call.path \/ (pc # "deleteOld" /\ pc # "insertNew")
  PROVE  RowsOf(p)' = RowsOf(p)
<1>1. pc \in {"deleteOld", "insertNew"} =>
        \A row \in files : row.path = p => row.id # call.file
  BY DEF IInv, CallFile, References
<1>2. CASE InsertFile
  <2>1. CASE UNCHANGED files
    BY <1>2, <2>1 DEF InsertFile, RowsOf, FileOf
  <2>2. CASE files' = files \cup {[id |-> NextId(files), path |-> call.path]}
    <3>1. \A row \in files : row.id < NextId(files) /\ row.id \in Nat
      BY NextIdIsNew DEF IInv, TypeOK
    <3>2. \A row \in symbols : row.file # NextId(files)
      <4>1. \A row \in symbols : row.file \in Ids(files)
        BY DEF IInv, References
      <4>2. \A id \in Ids(files) : id # NextId(files)
        <5>1. \A row \in files : row.id # NextId(files)
          <6>1. NextId(files) \in Nat
            BY NextIdIsNew DEF IInv, TypeOK
          <6> QED
            BY <3>1, <6>1, SMT
        <5> QED
          BY <5>1 DEF Ids
      <4> QED
        BY <4>1, <4>2
    <3>3. \A f \in {row.file : row \in symbols} : f \in FileOf(p)' <=> f \in FileOf(p)
      BY <2>2, <3>2 DEF FileOf
    <3> QED
      BY <1>2, <3>3 DEF InsertFile, RowsOf
  <2> QED
    BY <1>2, <2>1, <2>2 DEF InsertFile
<1>3. CASE DeleteOld
  BY <1>1, <1>3 DEF DeleteOld, RowsOf, FileOf
<1>4. CASE InsertNext
  BY <1>1, <1>4 DEF InsertNext, RowsOf, FileOf
<1>5. CASE UNCHANGED <<files, symbols>>
  BY <1>5 DEF RowsOf, FileOf
<1> QED
  BY <1>2, <1>3, <1>4, <1>5 DEF Next, Begin, SelectFile, Finish, StatementFails, Reopen

\* Indexing a file changes the symbols of no other.
THEOREM OthersUntouched == Spec => OtherFilesUntouched
<1> DEFINE Untouched == \A p \in Paths : p # call.path /\ files' # {} => SymbolsOf(p)' = SymbolsOf(p)
<1>1. IInv /\ [Next]_vars => [Untouched]_vars
  BY RowsKept DEF SymbolsOf
<1> QED
  BY <1>1, Invariance, PTL DEF Spec, OtherFilesUntouched

-----------------------------------------------------------------------------
(* The order of the rows *)

LEMMA NoRows == InOrder({}) = << >>
<1>1. Cardinality({}) = 0
  BY FS_EmptySet
<1>2. 1..0 = {}
  BY SMT
<1> QED
  BY <1>1, <1>2 DEF InOrder

\* A row with a larger number than all others is the last.
LEMMA AppendedRow ==
  ASSUME NEW rows, IsFiniteSet(rows), \A row \in rows : row.id \in Nat,
         NEW new, new.id \in Nat, \A row \in rows : row.id < new.id
  PROVE  /\ InOrder(rows \cup {new}) = [i \in 1..(Cardinality(rows) + 1) |->
                                          IF i <= Cardinality(rows) THEN InOrder(rows)[i] ELSE new.symbol]
         /\ Cardinality(rows) \in Nat
<1> DEFINE more == rows \cup {new}
           n == Cardinality(rows)
           Below(table, row) == {r \in table : r.id < row.id}
           pick(table) == (CHOOSE row \in table : TRUE).symbol
<1>1. new \notin rows
  BY SMT
<1>2. IsFiniteSet(more) /\ Cardinality(more) = n + 1 /\ n \in Nat
  BY <1>1, FS_AddElement, FS_CardinalityType
<1>3. ASSUME NEW row \in rows
      PROVE  /\ Below(more, row) = Below(rows, row)
             /\ Cardinality(Below(rows, row)) \in Nat /\ Cardinality(Below(rows, row)) < n
  <2>1. Below(more, row) = Below(rows, row)
    <3>1. row.id \in Nat /\ row.id < new.id
      OBVIOUS
    <3>2. ~(new.id < row.id)
      BY <3>1, SMT
    <3> QED
      BY <3>2
  <2>2. Below(rows, row) \subseteq rows /\ row \notin Below(rows, row)
    <3>1. ~(row.id < row.id)
      BY SMT
    <3> QED
      BY <3>1
  <2>3. Below(rows, row) # rows
    BY <2>2
  <2> HIDE DEF Below
  <2> QED
    BY <2>1, <2>2, <2>3, FS_Subset, FS_CardinalityType, SMT
<1>4. Below(more, new) = rows
  <2>1. ~(new.id < new.id)
    BY SMT
  <2> QED
    BY <2>1
<1>5. ASSUME NEW i \in 1..n PROVE Nth(more, i) = Nth(rows, i)
  <2>1. n # i - 1
    BY <1>2, SMT
  <2>2. new \notin Nth(more, i) /\ new \notin Nth(rows, i)
    BY <1>1, <1>4, <2>1 DEF Nth
  <2>3. \A row \in rows : row \in Nth(more, i) <=> row \in Nth(rows, i)
    BY <1>3 DEF Nth
  <2> QED
    BY <2>2, <2>3 DEF Nth
<1>6. Nth(more, n + 1) = {new}
  <2>1. (n + 1) - 1 = n
    BY <1>2, SMT
  <2>2. \A row \in rows : Cardinality(Below(more, row)) # n
    BY <1>2, <1>3, SMT
  <2> QED
    BY <1>4, <2>1, <2>2 DEF Nth
<1>7. pick(Nth(more, n + 1)) = new.symbol
  BY <1>6
<1>8. InOrder(more) = [i \in 1..(n + 1) |-> pick(Nth(more, i))]
  BY <1>2 DEF InOrder
<1>9. \A i \in 1..n : InOrder(rows)[i] = pick(Nth(rows, i))
  BY DEF InOrder
<1> HIDE DEF pick
<1>10. ASSUME NEW i \in 1..(n + 1)
       PROVE  pick(Nth(more, i)) = IF i <= n THEN InOrder(rows)[i] ELSE new.symbol
  <2>1. CASE i <= n
    <3>1. i \in 1..n
      BY <1>2, <2>1, SMT
    <3>2. Nth(more, i) = Nth(rows, i)
      BY <1>5, <3>1
    <3> QED
      BY <1>9, <2>1, <3>1, <3>2
  <2>2. CASE ~(i <= n)
    <3>1. i = n + 1
      BY <1>2, <2>2, SMT
    <3> QED
      BY <1>7, <2>2, <3>1
  <2> QED
    BY <2>1, <2>2
<1> HIDE DEF more, n
<1> QED
  BY <1>2, <1>8, <1>10 DEF more, n

-----------------------------------------------------------------------------
(* The refinement of SymbolTable *)

\* The first n symbols of a batch.
First(batch, n) == [i \in 1..n |-> batch[i]]

\* Until its old symbols are deleted the file of the call has those; after that it has the first
\* of the batch, and the rest of the batch follows.
CallSymbols ==
  /\ pc \in {"insertFile", "selectFile", "deleteOld"} =>
       call.rest = call.batch /\ SymbolsOf(call.path) = before
  /\ pc = "insertNew" =>
       \E k \in 0..Len(call.batch) :
         /\ Len(call.rest) = Len(call.batch) - k
         /\ \A i \in 1..Len(call.rest) : call.rest[i] = call.batch[k + i]
         /\ Cardinality(RowsOf(call.path)) = k
         /\ SymbolsOf(call.path) = First(call.batch, k)

RInv == IInv /\ IsFiniteSet(symbols) /\ CallSymbols

\* A batch is a sequence of symbols, at most MaxBatch of them.
LEMMA BatchIsSeq ==
  ASSUME NEW batch \in Batches
  PROVE  batch \in Seq(Symbols) /\ Len(batch) \in Nat /\ batch = First(batch, Len(batch))
<1>1. PICK n \in 0..MaxBatch : batch \in [1..n -> Symbols]
  BY DEF Batches
<1>2. batch \in Seq(Symbols) /\ Len(batch) = n
  BY <1>1
<1> QED
  BY <1>1, <1>2 DEF First

LEMMA FirstIsSubSeq ==
  ASSUME NEW batch \in Batches, NEW n \in 0..Len(batch)
  PROVE  First(batch, n) = SubSeq(batch, 1, n)
<1>1. batch \in Seq(Symbols) /\ Len(batch) \in Nat
  BY BatchIsSeq
<1> QED
  BY <1>1 DEF First

\* The call's path has one row, the call's file.
LEMMA CallHasFile ==
  ASSUME IInv, pc \in {"deleteOld", "insertNew"}
  PROVE  FileOf(call.path) = {call.file} /\ call.path \in Paths
<1>1. PICK row \in files : row.path = call.path /\ row.id = call.file
  BY DEF IInv, CallFile
<1>2. \A r \in files : r.path = call.path => r = row
  BY <1>1 DEF IInv, References
<1> QED
  BY <1>1, <1>2 DEF FileOf, IInv

LEMMA DeleteOldEmpties ==
  ASSUME RInv, DeleteOld
  PROVE  CallSymbols'
<1>1. /\ FileOf(call.path) = {call.file}
      /\ symbols' = {row \in symbols : row.file # call.file}
      /\ UNCHANGED <<files, call>> /\ pc' = "insertNew"
  BY CallHasFile DEF DeleteOld, RInv
<1>2. RowsOf(call.path)' = {}
  BY <1>1 DEF RowsOf, FileOf
<1>3. call.rest = call.batch /\ call.batch \in Batches
  BY DEF RInv, CallSymbols, DeleteOld, IInv, TypeOK
<1>4. /\ Len(call.batch) \in Nat /\ Len(call.rest) = Len(call.batch) - 0
      /\ 0 \in 0..Len(call.batch)
      /\ \A i \in 1..Len(call.rest) : 0 + i = i
  <2>1. Len(call.batch) \in Nat
    BY <1>3, BatchIsSeq
  <2> QED
    BY <1>3, <2>1, SMT
<1>5. Cardinality(RowsOf(call.path)') = 0 /\ SymbolsOf(call.path)' = First(call.batch, 0)
  <2>1. First(call.batch, 0) = << >>
    <3>1. 1..0 = {}
      BY SMT
    <3> QED
      BY <3>1 DEF First
  <2> QED
    BY <1>2, <2>1, NoRows, FS_EmptySet DEF SymbolsOf
<1> QED
  BY <1>1, <1>3, <1>4, <1>5 DEF CallSymbols

LEMMA InsertNextAppends ==
  ASSUME RInv, InsertNext
  PROVE  CallSymbols' /\ IsFiniteSet(symbols')
<1> DEFINE id == NextId(symbols)
           new == [id |-> id, file |-> call.file, symbol |-> Head(call.rest)]
           rows == RowsOf(call.path)
<1>1. /\ FileOf(call.path) = {call.file}
      /\ symbols' = symbols \cup {new}
      /\ pc = "insertNew" /\ pc' = "insertNew" /\ call.rest # << >>
      /\ files' = files /\ call' = [call EXCEPT !.rest = Tail(@)]
  BY CallHasFile DEF InsertNext, RInv
<1>2. /\ call.batch \in Batches /\ call.rest \in Batches
      /\ call \in [path : Paths \cup {None}, batch : Batches, rest : Batches, file : Nat]
      /\ \A row \in symbols : row.id \in Nat
  BY DEF RInv, IInv, TypeOK
<1>3. id \in Nat /\ \A row \in symbols : row.id < id
  BY <1>2, NextIdIsNew DEF RInv, IInv
<1>4. call'.path = call.path /\ call'.batch = call.batch /\ call'.rest = Tail(call.rest)
  BY <1>1, <1>2
<1> HIDE DEF id
<1>5. new.id = id /\ new.file = call.file /\ new.symbol = Head(call.rest)
  OBVIOUS
<1> HIDE DEF new
<1>6. IsFiniteSet(symbols')
  BY <1>1, FS_AddElement DEF RInv
<1>7. RowsOf(call.path)' = rows \cup {new}
  BY <1>1, <1>4, <1>5 DEF RowsOf, FileOf
<1>8. IsFiniteSet(rows) /\ rows \subseteq symbols
  BY FS_Subset DEF RInv, RowsOf
<1>9. PICK k \in 0..Len(call.batch) :
        /\ Len(call.rest) = Len(call.batch) - k
        /\ \A i \in 1..Len(call.rest) : call.rest[i] = call.batch[k + i]
        /\ Cardinality(rows) = k
        /\ SymbolsOf(call.path) = First(call.batch, k)
  BY <1>1 DEF RInv, CallSymbols
<1>10. /\ Len(call.batch) \in Nat /\ Len(call.rest) \in Nat
       /\ Len(call.rest) >= 1 /\ Len(Tail(call.rest)) = Len(call.rest) - 1
       /\ Head(call.rest) = call.rest[1]
       /\ \A i \in 1..(Len(call.rest) - 1) : Tail(call.rest)[i] = call.rest[i + 1]
  <2>1. call.rest \in Seq(Symbols) /\ Len(call.rest) \in Nat /\ Len(call.batch) \in Nat
    BY <1>2, BatchIsSeq
  <2> QED
    BY <1>1, <2>1, HeadTailProperties, EmptySeq
<1>11. Cardinality(rows \cup {new}) = k + 1
  <2>1. new \notin rows
    BY <1>3, <1>5, <1>8, SMT
  <2> QED
    BY <1>8, <1>9, <2>1, FS_AddElement
<1>12. new.symbol = call.batch[k + 1]
  BY <1>5, <1>9, <1>10, SMT
<1>13. InOrder(rows \cup {new}) = First(call.batch, k + 1)
  <2>1. InOrder(rows \cup {new}) = [i \in 1..(k + 1) |-> IF i <= k THEN InOrder(rows)[i] ELSE new.symbol]
    BY <1>2, <1>3, <1>5, <1>8, <1>9, AppendedRow
  <2>2. InOrder(rows) = First(call.batch, k)
    BY <1>9 DEF SymbolsOf
  <2>3. ASSUME NEW i \in 1..(k + 1)
        PROVE  (IF i <= k THEN InOrder(rows)[i] ELSE new.symbol) = call.batch[i]
    <3>1. CASE i <= k
      <4>1. i \in 1..k
        BY <1>10, <3>1, SMT
      <4> QED
        BY <2>2, <3>1, <4>1 DEF First
    <3>2. CASE ~(i <= k)
      <4>1. i = k + 1
        BY <1>10, <3>2, SMT
      <4> QED
        BY <1>12, <3>2, <4>1
    <3> QED
      BY <3>1, <3>2
  <2> HIDE DEF rows
  <2> QED
    BY <2>1, <2>3 DEF First
<1>14. /\ k + 1 \in 0..Len(call.batch)
       /\ Len(Tail(call.rest)) = Len(call.batch) - (k + 1)
       /\ \A i \in 1..Len(Tail(call.rest)) : Tail(call.rest)[i] = call.batch[(k + 1) + i]
  <2>1. k + 1 \in 0..Len(call.batch) /\ Len(Tail(call.rest)) = Len(call.batch) - (k + 1)
    BY <1>9, <1>10, SMT
  <2>2. ASSUME NEW i \in 1..Len(Tail(call.rest))
        PROVE  Tail(call.rest)[i] = call.batch[(k + 1) + i]
    <3>1. i \in 1..(Len(call.rest) - 1) /\ i + 1 \in 1..Len(call.rest) /\ k + (i + 1) = (k + 1) + i
      <4>1. i \in 1..(Len(call.rest) - 1) /\ Len(call.rest) \in Nat /\ Len(call.batch) \in Nat
        BY <1>10
      <4> QED
        BY <4>1, SMT
    <3>2. Tail(call.rest)[i] = call.rest[i + 1]
      BY <1>10, <3>1
    <3>3. call.rest[i + 1] = call.batch[k + (i + 1)]
      BY <1>9, <3>1
    <3> QED
      BY <3>1, <3>2, <3>3
  <2> QED
    BY <2>1, <2>2
<1>15. Cardinality(RowsOf(call.path)') = k + 1 /\ SymbolsOf(call.path)' = First(call.batch, k + 1)
  BY <1>7, <1>11, <1>13 DEF SymbolsOf
<1> QED
  BY <1>1, <1>4, <1>6, <1>14, <1>15 DEF CallSymbols, SymbolsOf

LEMMA InitRInv == Init => RInv
<1> SUFFICES ASSUME Init PROVE RInv
  OBVIOUS
<1>1. IInv
  BY InitIInv
<1>2. IsFiniteSet(symbols)
  BY FS_EmptySet DEF Init
<1> QED
  BY <1>1, <1>2 DEF RInv, CallSymbols, Init

\* Which rows a file has does not change before the old ones are deleted.
LEMMA SelectKeepsSymbols ==
  ASSUME RInv, InsertFile \/ SelectFile
  PROVE  /\ \A p \in Paths : SymbolsOf(p)' = SymbolsOf(p)
         /\ call'.path = call.path /\ call'.batch = call.batch /\ call'.rest = call.rest
         /\ symbols' = symbols /\ before' = before /\ call.path \in Paths
         /\ pc \in {"insertFile", "selectFile"} /\ pc' \in {"selectFile", "deleteOld"}
<1>1. /\ call.path \in Paths
      /\ call \in [path : Paths \cup {None}, batch : Batches, rest : Batches, file : Nat]
      /\ pc \in {"insertFile", "selectFile"} /\ pc' \in {"selectFile", "deleteOld"}
      /\ symbols' = symbols /\ before' = before
  BY DEF RInv, IInv, TypeOK, InsertFile, SelectFile
<1>2. call'.path = call.path /\ call'.batch = call.batch /\ call'.rest = call.rest
  BY <1>1 DEF InsertFile, SelectFile
<1>3. files' # {}
  BY DEF InsertFile, SelectFile, FileOf
<1>4. \A p \in Paths : RowsOf(p)' = RowsOf(p)
  BY <1>1, <1>3, RowsKept DEF RInv, Next
<1> QED
  BY <1>1, <1>2, <1>4 DEF SymbolsOf

\* Every statement keeps what is known of the symbols of the call's file.
LEMMA NextRInv == RInv /\ [Next]_vars => RInv'
<1> SUFFICES ASSUME RInv, [Next]_vars PROVE RInv'
  OBVIOUS
<1>1. IInv'
  BY NextIInv DEF RInv
<1> SUFFICES CallSymbols' /\ IsFiniteSet(symbols')
  BY <1>1 DEF RInv
<1>2. ASSUME NEW p \in Paths, NEW batch \in Batches, Begin(p, batch)
      PROVE  CallSymbols' /\ IsFiniteSet(symbols')
  <2>1. SymbolsOf(p)' = SymbolsOf(p)
    BY <1>2 DEF Begin, SymbolsOf, RowsOf, FileOf
  <2> QED
    BY <1>2, <2>1 DEF Begin, CallSymbols, RInv, SymbolsOf, RowsOf, FileOf
<1>3. CASE InsertFile \/ SelectFile
  <2>1. SymbolsOf(call.path)' = SymbolsOf(call.path)
    BY <1>3, SelectKeepsSymbols DEF SymbolsOf, RowsOf, FileOf
  <2>2. call.rest = call.batch /\ SymbolsOf(call.path) = before
    BY <1>3, SelectKeepsSymbols DEF RInv, CallSymbols
  <2> QED
    BY <1>3, <2>1, <2>2, SelectKeepsSymbols DEF RInv, CallSymbols
<1>4. CASE DeleteOld
  <2>1. IsFiniteSet(symbols')
    BY <1>4, FS_Subset DEF DeleteOld, RInv
  <2> QED
    BY <1>4, <2>1, DeleteOldEmpties
<1>5. CASE InsertNext
  BY <1>5, InsertNextAppends
<1>6. CASE Finish \/ StatementFails
  BY <1>6 DEF Finish, StatementFails, CallSymbols, RInv
<1>7. CASE Reopen
  BY <1>7, FS_EmptySet DEF Reopen, CallSymbols, RInv
<1>8. CASE UNCHANGED vars
  BY <1>8 DEF vars, CallSymbols, RInv, SymbolsOf, RowsOf, FileOf
<1> QED
  BY <1>2, <1>3, <1>4, <1>5, <1>6, <1>7, <1>8 DEF Next

LEMMA RInvariance == Spec => []RInv
<1> QED
  BY InitRInv, NextRInv, PTL DEF Spec

\* While a call is under way its file has the old symbols or the first of the new ones.
LEMMA CallDoesNotMix == RInv /\ pc # "idle" => OldAndNewNeverMix
<1> SUFFICES ASSUME RInv, pc # "idle" PROVE OldAndNewNeverMix
  OBVIOUS
<1>1. CASE pc = "insertNew"
  <2>1. call.batch \in Batches
    BY DEF RInv, IInv, TypeOK
  <2>2. PICK k \in 0..Len(call.batch) : SymbolsOf(call.path) = First(call.batch, k)
    BY <1>1 DEF RInv, CallSymbols
  <2>3. SymbolsOf(call.path) = SubSeq(call.batch, 1, k)
    BY <2>1, <2>2, FirstIsSubSeq
  <2> QED
    BY <2>3 DEF OldAndNewNeverMix
<1>2. CASE pc # "insertNew"
  BY <1>2 DEF RInv, IInv, TypeOK, CallSymbols, OldAndNewNeverMix
<1> QED
  BY <1>1, <1>2

\* A call that returns Ok has replaced the symbols of its file by the batch, in its order.
THEOREM SuccessAlwaysReplaces == Spec => []SuccessReplaces
<1>1. RInv => SuccessReplaces
  <2> SUFFICES ASSUME RInv, pc = "insertNew", call.rest = << >>
               PROVE  SymbolsOf(call.path) = call.batch
    BY DEF SuccessReplaces
  <2>1. call.batch \in Batches
    BY DEF RInv, IInv, TypeOK
  <2>2. PICK k \in 0..Len(call.batch) :
          Len(call.rest) = Len(call.batch) - k /\ SymbolsOf(call.path) = First(call.batch, k)
    BY DEF RInv, CallSymbols
  <2>3. k = Len(call.batch)
    BY <2>1, <2>2, BatchIsSeq
  <2> QED
    BY <2>1, <2>2, <2>3, BatchIsSeq
<1> QED
  BY <1>1, RInvariance, PTL

\* Whatever fails and whenever the process dies, the file of the last call has all its old
\* symbols or the first of the new ones, never some of both.
THEOREM NeverMixed == Spec => []OldAndNewNeverMix
<1>1. Init => OldAndNewNeverMix
  BY DEF Init, NoCall, OldAndNewNeverMix
<1>2. (RInv /\ pc # "idle" => OldAndNewNeverMix)'
  BY CallDoesNotMix, PTL
<1>3. RInv /\ RInv' /\ OldAndNewNeverMix /\ [Next]_vars => OldAndNewNeverMix'
  <2> SUFFICES ASSUME RInv, RInv', OldAndNewNeverMix, [Next]_vars PROVE OldAndNewNeverMix'
    OBVIOUS
  <2>1. CASE pc' # "idle"
    BY <1>2, <2>1
  <2>2. CASE UNCHANGED <<files, symbols, call, before>>
    BY <2>2 DEF OldAndNewNeverMix, SymbolsOf, RowsOf, FileOf
  <2>3. CASE Reopen
    <3>1. CASE durable
      BY <2>2, <2>3, <3>1 DEF Reopen
    <3>2. CASE ~durable
      BY <2>3, <3>2 DEF Reopen, NoCall, OldAndNewNeverMix
    <3> QED
      BY <3>1, <3>2
  <2>4. CASE Finish \/ StatementFails
    BY <2>2, <2>4 DEF Finish, StatementFails
  <2>5. CASE UNCHANGED vars
    BY <2>2, <2>5 DEF vars
  <2> QED
    BY <2>1, <2>3, <2>4, <2>5 DEF Next, Begin, InsertFile, SelectFile, DeleteOld, InsertNext, RInv, IInv, TypeOK
<1> QED
  BY <1>1, <1>3, RInvariance, PTL DEF Spec

\* The table and the call of the refinement mapping.
T == [p \in Paths |-> IF pc # "idle" /\ p = call.path THEN before ELSE SymbolsOf(p)]
A == IF pc = "idle" THEN None ELSE [path |-> call.path, batch |-> call.batch]

LEMMA InitRefines == Init => Table!Init
<1> SUFFICES ASSUME Init PROVE Table!Init
  OBVIOUS
<1>1. \A p \in Paths : SymbolsOf(p) = << >>
  BY NoRows DEF Init, SymbolsOf, RowsOf
<1> QED
  BY <1>1 DEF Init, Table!Init

\* While a call is under way it is not None.
LEMMA CallIsNotNone ==
  ASSUME RInv, pc # "idle"
  PROVE  /\ A = [path |-> call.path, batch |-> call.batch] /\ A # None
         /\ call.path \in Paths /\ call.batch \in Batches
<1>1. call.path \in Paths /\ call.batch \in Batches
  BY DEF RInv, IInv, TypeOK
<1>2. [path |-> call.path, batch |-> call.batch] \in [path : Paths, batch : Batches]
  BY <1>1
<1> QED
  BY <1>1, <1>2, NoneAssumption DEF A

\* Where nothing fails Begin is Call, Finish is Succeed and every other statement is a stutter.
LEMMA NextRefines ==
  ASSUME Faults = {}
  PROVE  RInv /\ [Next]_vars => [Table!Next]_<<T, A>>
<1> SUFFICES ASSUME RInv, [Next]_vars PROVE [Table!Next]_<<T, A>>
  OBVIOUS
<1>1. ASSUME NEW p \in Paths, NEW batch \in Batches, Begin(p, batch) PROVE Table!Call(p)
  <2>1. \A q \in Paths : SymbolsOf(q)' = SymbolsOf(q)
    BY <1>1 DEF Begin, SymbolsOf, RowsOf, FileOf
  <2>2. T' = T
    BY <1>1, <2>1 DEF T, Begin
  <2>3. A = None /\ A' = [path |-> p, batch |-> batch]
    BY <1>1 DEF A, Begin
  <2> QED
    BY <2>2, <2>3 DEF Table!Call, T, A, Batches, Table!Batches
<1>2. CASE InsertFile \/ SelectFile
  <2>1. T' = T
    BY <1>2, SelectKeepsSymbols DEF T
  <2>2. A' = A
    BY <1>2, SelectKeepsSymbols DEF A
  <2> QED
    BY <2>1, <2>2
<1>3. CASE DeleteOld \/ InsertNext
  <2>1. /\ pc # "idle" /\ pc' # "idle" /\ before' = before /\ files' = files
        /\ call'.path = call.path /\ call'.batch = call.batch
    BY <1>3 DEF DeleteOld, InsertNext, RInv, IInv, TypeOK
  <2>2. files' # {}
    BY <1>3, <2>1 DEF RInv, IInv, CallFile, DeleteOld, InsertNext
  <2>3. \A p \in Paths : p # call.path => SymbolsOf(p)' = SymbolsOf(p)
    BY <1>3, <2>2, RowsKept DEF RInv, Next, SymbolsOf
  <2>4. T' = T
    BY <2>1, <2>3 DEF T
  <2>5. A' = A
    BY <2>1 DEF A
  <2> QED
    BY <2>4, <2>5
<1>4. CASE Finish
  <2>1. /\ pc = "insertNew" /\ call.rest = << >> /\ pc' = "idle"
        /\ UNCHANGED <<files, symbols, call>>
    BY <1>4 DEF Finish
  <2>2. A = [path |-> call.path, batch |-> call.batch] /\ A # None /\ A' = None
    BY <2>1, CallIsNotNone DEF A
  <2>3. SymbolsOf(call.path) = call.batch
    <3>1. PICK k \in 0..Len(call.batch) :
            Len(call.rest) = Len(call.batch) - k /\ SymbolsOf(call.path) = First(call.batch, k)
      BY <2>1 DEF RInv, CallSymbols
    <3>2. call.batch \in Batches
      BY <2>1, CallIsNotNone
    <3>3. k = Len(call.batch)
      BY <2>1, <3>1, <3>2, BatchIsSeq
    <3> QED
      BY <3>1, <3>2, <3>3, BatchIsSeq
  <2>4. \A p \in Paths : SymbolsOf(p)' = SymbolsOf(p)
    BY <2>1 DEF SymbolsOf, RowsOf, FileOf
  <2>5. T' = [T EXCEPT ![A.path] = A.batch]
    BY <2>1, <2>2, <2>3, <2>4 DEF T
  <2>6. Table!Succeed
    BY <2>2, <2>5 DEF Table!Succeed, T, A
  <2> QED
    BY <2>6 DEF Table!Next
<1>5. ~StatementFails /\ ~Reopen
  BY DEF StatementFails, Reopen
<1>6. CASE UNCHANGED vars
  <2>1. \A p \in Paths : SymbolsOf(p)' = SymbolsOf(p)
    BY <1>6 DEF vars, SymbolsOf, RowsOf, FileOf
  <2>2. T' = T /\ A' = A
    BY <1>6, <2>1 DEF vars, T, A
  <2> QED
    BY <2>2
<1> QED
  BY <1>1, <1>2, <1>3, <1>4, <1>5, <1>6 DEF Next, Table!Next

\* As long as no statement fails and the process does not die, index_file_symbols replaces the
\* symbols of its file at once: the store implements SymbolTable. With a fault it does not.
THEOREM Refinement ==
  ASSUME Faults = {}
  PROVE  Spec => ImplementsSymbolTable
<1> QED
  BY InitRefines, NextRefines, RInvariance, PTL DEF Spec, Table!Spec, ImplementsSymbolTable, T, A

=============================================================================
