-------------------------- MODULE LspServerProofs --------------------------
(***************************************************************************)
(* Theorems about LspServer for every set of documents and methods, every  *)
(* bound, every choice of the faults and of the initialization options:    *)
(* the copies the server keeps, then the answers the editor gets and the   *)
(* diagnostics it shows at rest.                                           *)
(***************************************************************************)
EXTENDS LspServer, TLAPS, FiniteSetTheorems, SequenceTheorems

-----------------------------------------------------------------------------
(* Lemmas about HasText: what a message at either end of the queue does *)

\* A message that is appended changes nothing of what is before it.
LEMMA AppendKeepsText ==
  ASSUME NEW S, NEW queue \in Seq(S), NEW m \in S, NEW docs, NEW f, NEW text,
         NEW n \in 0..Len(queue), HasText(docs, queue, f, n, text)
  PROVE  HasText(docs, Append(queue, m), f, n, text)
<1>1. Len(queue) \in Nat /\ \A i \in 1..n : Append(queue, m)[i] = queue[i]
  BY LenProperties
<1>2. \A i \in 1..n : \A j \in (i + 1)..n : j \in 1..n
  BY <1>1
<1> QED
  BY <1>1, <1>2 DEF HasText

\* A message about another document, or about none, leaves the text.
LEMMA AppendIrrelevant ==
  ASSUME NEW S, NEW queue \in Seq(S), NEW m \in S, NEW docs, NEW f, NEW text,
         ~Syncs(m, f), HasText(docs, queue, f, Len(queue), text)
  PROVE  HasText(docs, Append(queue, m), f, Len(Append(queue, m)), text)
<1> DEFINE n == Len(queue)
           longer == Append(queue, m)
<1>1. n \in Nat /\ Len(longer) = n + 1 /\ longer[n + 1] = m
  BY LenProperties
<1>2. \A i \in 1..n : longer[i] = queue[i]
  BY LenProperties
<1>3. (\A i \in 1..(n + 1) : ~Syncs(longer[i], f)) => docs[f] = text
  BY <1>1, <1>2 DEF HasText
<1>4. ASSUME NEW i \in 1..(n + 1), Syncs(longer[i], f),
             \A j \in (i + 1)..(n + 1) : ~Syncs(longer[j], f)
      PROVE  TextAfter(longer[i]) = text
  <2>1. i \in 1..n
    BY <1>1, <1>4
  <2>2. \A j \in (i + 1)..n : ~Syncs(queue[j], f)
    <3> SUFFICES ASSUME NEW j \in (i + 1)..n PROVE ~Syncs(queue[j], f)
      OBVIOUS
    <3>1. j \in 1..n /\ j \in (i + 1)..(n + 1)
      BY <1>1, <2>1
    <3> QED
      BY <1>2, <1>4, <3>1
  <2> QED
    BY <1>2, <1>4, <2>1, <2>2 DEF HasText
<1> QED
  BY <1>1, <1>3, <1>4 DEF HasText

\* A message about the document sets its text, whatever was before.
LEMMA AppendSetsText ==
  ASSUME NEW S, NEW queue \in Seq(S), NEW m \in S, NEW docs, NEW f, Syncs(m, f)
  PROVE  HasText(docs, Append(queue, m), f, Len(Append(queue, m)), TextAfter(m))
<1> DEFINE n == Len(queue)
           longer == Append(queue, m)
<1>1. n \in Nat /\ Len(longer) = n + 1 /\ longer[n + 1] = m
  BY LenProperties
<1>2. \A i \in 1..n : n + 1 \in (i + 1)..(n + 1)
  BY <1>1
<1>3. \A i \in 1..(n + 1) : i \in 1..n \/ i = n + 1
  BY <1>1
<1>4. n + 1 \in 1..(n + 1)
  BY <1>1
<1> QED
  BY <1>1, <1>2, <1>3, <1>4 DEF HasText

\* A server that handles the first message as the protocol says has the same text after
\* the rest of the messages.
LEMMA HandlingShiftsText ==
  ASSUME NEW S, NEW queue \in Seq(S), queue # << >>, NEW docs, NEW after, NEW f, NEW text,
         NEW n \in 1..Len(queue), HasText(docs, queue, f, n, text),
         Syncs(Head(queue), f) => after[f] = TextAfter(Head(queue)),
         ~Syncs(Head(queue), f) => after[f] = docs[f]
  PROVE  HasText(after, Tail(queue), f, n - 1, text)
<1> DEFINE rest == Tail(queue)
<1>1. /\ Len(queue) \in Nat /\ Len(rest) = Len(queue) - 1
      /\ \A i \in 1..Len(rest) : rest[i] = queue[i + 1]
  BY LenProperties, HeadTailProperties
<1>2. n \in Nat /\ n >= 1 /\ n - 1 \in Nat
  BY <1>1
<1>3. \A i \in 1..(n - 1) : i + 1 \in 1..n /\ rest[i] = queue[i + 1]
  BY <1>1
<1>4. Head(queue) = queue[1] /\ 1 \in 1..n
  BY <1>2
<1>5. ASSUME \A i \in 1..(n - 1) : ~Syncs(rest[i], f)
      PROVE  after[f] = text
  <2>1. \A i \in 2..n : ~Syncs(queue[i], f)
    <3> SUFFICES ASSUME NEW i \in 2..n PROVE ~Syncs(queue[i], f)
      OBVIOUS
    <3>1. i - 1 \in 1..(n - 1) /\ (i - 1) + 1 = i
      BY <1>2
    <3> QED
      BY <1>3, <1>5, <3>1
  <2>2. CASE Syncs(queue[1], f)
    <3>1. TextAfter(queue[1]) = text
      BY <1>4, <2>1, <2>2 DEF HasText
    <3> QED
      BY <1>4, <2>2, <3>1
  <2>3. CASE ~Syncs(queue[1], f)
    <3>1. \A i \in 1..n : i = 1 \/ i \in 2..n
      BY <1>2
    <3>2. docs[f] = text
      BY <2>1, <2>3, <3>1 DEF HasText
    <3> QED
      BY <1>4, <2>3, <3>2
  <2> QED
    BY <2>2, <2>3
<1>6. ASSUME NEW i \in 1..(n - 1), Syncs(rest[i], f),
             \A j \in (i + 1)..(n - 1) : ~Syncs(rest[j], f)
      PROVE  TextAfter(rest[i]) = text
  <2>1. \A j \in (i + 2)..n : ~Syncs(queue[j], f)
    <3> SUFFICES ASSUME NEW j \in (i + 2)..n PROVE ~Syncs(queue[j], f)
      OBVIOUS
    <3>1. j - 1 \in (i + 1)..(n - 1) /\ j - 1 \in 1..(n - 1) /\ (j - 1) + 1 = j
      BY <1>2
    <3> QED
      BY <1>3, <1>6, <3>1
  <2>2. (i + 1) + 1 = i + 2
    BY <1>2
  <2> QED
    BY <1>3, <1>6, <2>1, <2>2 DEF HasText
<1> QED
  BY <1>5, <1>6 DEF HasText

\* A server without the document, and a queue whose messages about it all agree.
LEMMA ReopenedText ==
  ASSUME NEW n \in Nat, NEW queue, NEW docs, NEW f, NEW text, docs[f] = None,
         \A i \in 1..n : Syncs(queue[i], f) => TextAfter(queue[i]) = text,
         text # None => \E i \in 1..n : Syncs(queue[i], f)
  PROVE  HasText(docs, queue, f, n, text)
BY DEF HasText

-----------------------------------------------------------------------------
(* Types *)

\* The documents of a finite set in some order.
LEMMA SetToSeqOrders ==
  ASSUME NEW S, IsFiniteSet(S)
  PROVE  /\ Cardinality(S) \in Nat
         /\ SetToSeq(S) \in [1..Cardinality(S) -> S]
         /\ \A x \in S : \E i \in 1..Cardinality(S) : SetToSeq(S)[i] = x
<1> DEFINE n == Cardinality(S)
           g == SetToSeq(S)
<1>1. n \in Nat /\ ExistsBijection(1..n, S)
  BY FS_CardinalityType
<1>2. PICK h \in [1..n -> S] : IsInjective(h)
  BY <1>1 DEF ExistsBijection, Bijection, Injection, IsInjective
<1>3. g \in [1..n -> S] /\ IsInjective(g)
  BY <1>2 DEF SetToSeq
<1>4. IsFiniteSet(1..n) /\ Cardinality(1..n) = n
  BY <1>1, FS_Interval
<1>5. g \in Injection(1..n, S)
  BY <1>3 DEF Injection, IsInjective
<1>6. g \in Surjection(1..n, S)
  BY <1>4, <1>5, FS_Injection
<1> QED
  BY <1>1, <1>3, <1>6 DEF Surjection, IsInjective

\* What Restart sends: one didOpen for every open document, and nothing else.
LEMMA RestartOpens ==
  ASSUME TypeOK, Restart
  PROVE  /\ toServer' \in Seq(ToServer)
         /\ Len(toServer') \in Nat
         /\ \E open \in [1..Len(toServer') -> Files] :
              /\ \A i \in 1..Len(toServer') :
                   /\ toServer'[i] = [type |-> "didOpen", file |-> open[i], text |-> buffer[open[i]]]
                   /\ buffer[open[i]] # None
              /\ \A f \in Files : buffer[f] # None => \E i \in 1..Len(toServer') : open[i] = f
<1> DEFINE S == {f \in Files : buffer[f] # None}
           n == Cardinality(S)
           open == SetToSeq(S)
<1>1. IsFiniteSet(S)
  BY LspAssumption, FS_Subset
<1>2. /\ n \in Nat /\ open \in [1..n -> S]
      /\ \A f \in S : \E i \in 1..n : open[i] = f
  BY <1>1, SetToSeqOrders
<1>3. toServer' = [i \in 1..n |-> [type |-> "didOpen", file |-> open[i], text |-> buffer[open[i]]]]
  BY <1>2 DEF Restart
<1> HIDE DEF n, open
<1>4. \A i \in 1..n : [type |-> "didOpen", file |-> open[i], text |-> buffer[open[i]]] \in ToServer
  <2> SUFFICES ASSUME NEW i \in 1..n
               PROVE  [type |-> "didOpen", file |-> open[i], text |-> buffer[open[i]]] \in ToServer
    OBVIOUS
  <2>1. open[i] \in Files /\ buffer[open[i]] \in Versions
    BY <1>2 DEF TypeOK, MaybeVersion
  <2> QED
    BY <2>1 DEF ToServer
<1>5. toServer' \in [1..n -> ToServer]
  BY <1>3, <1>4
<1>6. toServer' \in Seq(ToServer) /\ Len(toServer') = n
  BY <1>2, <1>5
<1>7. open \in [1..Len(toServer') -> Files]
  BY <1>2, <1>6
<1>8. \A i \in 1..n : /\ toServer'[i] = [type |-> "didOpen", file |-> open[i], text |-> buffer[open[i]]]
                      /\ buffer[open[i]] # None
  BY <1>2, <1>3
<1>9. \A f \in Files : buffer[f] # None => \E i \in 1..n : open[i] = f
  BY <1>2
<1> QED
  BY <1>2, <1>6, <1>7, <1>8, <1>9

LEMMA TellType ==
  ASSUME TypeOK, NEW m \in ToServer, Tell(m)
  PROVE  toServer' \in Seq(ToServer)
<1>1. toServer \in Seq(ToServer)
  BY DEF TypeOK
<1>2. toServer' = toServer \/ toServer' = Append(toServer, m)
  BY DEF Tell
<1> QED
  BY <1>1, <1>2, AppendProperties

LEMMA SendType ==
  ASSUME TypeOK, NEW m \in ToEditor, Send(m)
  PROVE  toEditor' \in Seq(ToEditor)
<1>1. toEditor \in Seq(ToEditor)
  BY DEF TypeOK
<1>2. toEditor' = toEditor \/ toEditor' = Append(toEditor, m)
  BY DEF Send
<1> QED
  BY <1>1, <1>2, AppendProperties

\* The message a handler takes, and what is left.
LEMMA TakeType ==
  ASSUME TypeOK, NEW type, Take(type)
  PROVE  /\ server = "running" /\ toServer # << >>
         /\ Head(toServer) \in ToServer /\ Head(toServer).type = type
         /\ toServer' = Tail(toServer) /\ toServer' \in Seq(ToServer)
BY HeadTailProperties DEF TypeOK, Take

\* PublishDiagnostics parses the file on disk or keeps the old TU.
LEMMA PublishType ==
  ASSUME TypeOK, NEW f \in Files, NEW text \in Versions, PublishDiagnostics(f, text)
  PROVE  /\ tu' \in [Files -> MaybeVersion]
         /\ tu' = tu \/ tu' = [tu EXCEPT ![f] = disk[f]]
         /\ toEditor' \in Seq(ToEditor)
         /\ server' = server \/ (server' = "dead" /\ toEditor' = toEditor)
<1>1. disk[f] \in MaybeVersion /\ None \in MaybeVersion /\ text \in MaybeVersion
  BY DEF TypeOK, MaybeVersion
<1>2. ASSUME NEW c \in MaybeVersion, NEW a \in MaybeVersion, NEW n \in MaybeVersion
      PROVE  [type |-> "publishDiagnostics", file |-> f,
              diagnostics |-> [compile |-> c, analysis |-> a, nullability |-> n]] \in ToEditor
  BY <1>2 DEF ToEditor, Diagnostics
<1>3. CASE /\ tu' = [tu EXCEPT ![f] = disk[f]]
           /\ server' = server
           /\ \E c \in Harvest(disk[f]), a \in IF EnableAnalyzer THEN Harvest(disk[f]) ELSE {None} :
                Send([type |-> "publishDiagnostics", file |-> f,
                      diagnostics |-> [compile |-> c, analysis |-> a,
                                       nullability |-> IF EnableNullability THEN text ELSE None]])
  <2>1. PICK c \in Harvest(disk[f]), a \in IF EnableAnalyzer THEN Harvest(disk[f]) ELSE {None} :
                Send([type |-> "publishDiagnostics", file |-> f,
                      diagnostics |-> [compile |-> c, analysis |-> a,
                                       nullability |-> IF EnableNullability THEN text ELSE None]])
    BY <1>3
  <2>2. c \in MaybeVersion /\ a \in MaybeVersion
    BY <1>1 DEF Harvest
  <2>3. (IF EnableNullability THEN text ELSE None) \in MaybeVersion
    BY <1>1
  <2>4. toEditor' \in Seq(ToEditor)
    BY <1>2, <2>1, <2>2, <2>3, SendType
  <2> QED
    BY <1>1, <1>3, <2>4 DEF TypeOK
<1>4. CASE /\ tu' = tu
           /\ server' = server
           /\ Send([type |-> "publishDiagnostics", file |-> f, diagnostics |-> NoDiagnostics])
  BY <1>1, <1>2, <1>4, SendType DEF NoDiagnostics, TypeOK
<1>5. CASE /\ tu' = [tu EXCEPT ![f] = disk[f]]
           /\ server' = "dead"
           /\ toEditor' = toEditor
  BY <1>1, <1>5 DEF TypeOK
<1> QED
  BY <1>3, <1>4, <1>5 DEF PublishDiagnostics

\* The response to a well-formed request.
LEMMA ResponseType ==
  ASSUME TypeOK, NEW id \in Ids, NEW method \in Methods, NEW f \in Files
  PROVE  [type |-> "response", id |-> id, answer |-> AnswerTo(method, f)] \in ToEditor
<1>1. documents[f] \in MaybeVersion /\ tu[f] \in MaybeVersion /\ None \in MaybeVersion
  BY DEF TypeOK, MaybeVersion
<1>2. store \in [Files -> MaybeVersion]
  BY DEF TypeOK
<1>3. \A d, t \in MaybeVersion, y \in [Files -> MaybeVersion] \cup {None} :
        [doc |-> d, tu |-> t, syms |-> y] \in Answer
  BY DEF Answer
<1>4. \E d, t \in MaybeVersion, y \in [Files -> MaybeVersion] \cup {None} :
        AnswerTo(method, f) = [doc |-> d, tu |-> t, syms |-> y]
  <2> DEFINE d == IF method \in BufferMethods \cup BothMethods THEN documents[f] ELSE None
             t == IF method \in AstMethods \cup BothMethods THEN tu[f] ELSE None
             y == IF method \in StoreMethods THEN store ELSE None
  <2>1. d \in MaybeVersion /\ t \in MaybeVersion /\ y \in [Files -> MaybeVersion] \cup {None}
    BY <1>1, <1>2
  <2>2. AnswerTo(method, f) = [doc |-> d, tu |-> t, syms |-> y]
    <3>1. CASE method \in BufferMethods
      BY <3>1 DEF AnswerTo, Null, BufferMethods, AstMethods, BothMethods, StoreMethods
    <3>2. CASE method \in AstMethods
      BY <3>2 DEF AnswerTo, Null, BufferMethods, AstMethods, BothMethods, StoreMethods
    <3>3. CASE method \in BothMethods
      BY <3>3 DEF AnswerTo, Null, BufferMethods, AstMethods, BothMethods, StoreMethods
    <3>4. CASE method \in StoreMethods
      BY <3>4 DEF AnswerTo, Null, BufferMethods, AstMethods, BothMethods, StoreMethods
    <3>5. CASE method \in OtherMethods
      BY <3>5 DEF AnswerTo, Null, BufferMethods, AstMethods, BothMethods, StoreMethods, OtherMethods
    <3> QED
      BY <3>1, <3>2, <3>3, <3>4, <3>5, LspAssumption
  <2> HIDE DEF d, t, y
  <2> QED
    BY <2>1, <2>2
<1> QED
  BY <1>3, <1>4 DEF ToEditor

LEMMA InitTyped == Init => TypeOK
<1> SUFFICES ASSUME Init PROVE TypeOK
  OBVIOUS
<1>1. /\ asked \in Seq([method : Methods, file : Files, ok : BOOLEAN, epoch : 0..MaxRestarts,
                        buffer : [Files -> MaybeVersion]])
      /\ answers \in Seq([id : Ids, answer : Answer])
      /\ toServer \in Seq(ToServer) /\ toEditor \in Seq(ToEditor)
  BY DEF Init
<1>2. 0 \in Versions /\ None \in MaybeVersion /\ 0 \in 0..MaxRestarts
  BY LspAssumption DEF Versions, MaybeVersion
<1> QED
  BY <1>1, <1>2 DEF Init, TypeOK

LEMMA EditorKeepsTypes == TypeOK /\ EditorNext => TypeOK'
<1> SUFFICES ASSUME TypeOK, EditorNext PROVE TypeOK'
  OBVIOUS
<1> USE DEF editorVars, serverVars
<1>1. ASSUME NEW f \in Files, Open(f) PROVE TypeOK'
  <2>1. disk[f] \in Versions /\ disk[f] \in MaybeVersion
    BY DEF TypeOK, MaybeVersion
  <2>2. [type |-> "didOpen", file |-> f, text |-> disk[f]] \in ToServer
    BY <2>1 DEF ToServer
  <2>3. toServer' \in Seq(ToServer)
    BY <1>1, <2>2, TellType DEF Open
  <2> QED
    BY <1>1, <2>1, <2>3 DEF Open, TypeOK
<1>2. ASSUME NEW f \in Files, Edit(f) PROVE TypeOK'
  <2>1. edited[f] + 1 \in Versions /\ edited[f] + 1 \in MaybeVersion
    BY <1>2, LspAssumption DEF Edit, TypeOK, Versions, MaybeVersion
  <2>2. [type |-> "didChange", file |-> f, text |-> edited[f] + 1] \in ToServer
    BY <2>1 DEF ToServer
  <2>3. toServer' \in Seq(ToServer)
    BY <1>2, <2>2, TellType DEF Edit
  <2> QED
    BY <1>2, <2>1, <2>3 DEF Edit, TypeOK
<1>3. ASSUME NEW f \in Files, Save(f) PROVE TypeOK'
  <2>1. buffer[f] \in Versions
    BY <1>3 DEF Save, TypeOK, MaybeVersion
  <2>2. [type |-> "didSave", file |-> f] \in ToServer
    BY DEF ToServer
  <2>3. toServer' \in Seq(ToServer)
    BY <1>3, <2>2, TellType DEF Save
  <2> QED
    BY <1>3, <2>1, <2>3 DEF Save, TypeOK
<1>4. ASSUME NEW f \in Files, Close(f) PROVE TypeOK'
  <2>1. None \in MaybeVersion
    BY DEF MaybeVersion
  <2>2. [type |-> "didClose", file |-> f] \in ToServer
    BY DEF ToServer
  <2>3. toServer' \in Seq(ToServer)
    BY <1>4, <2>2, TellType DEF Close
  <2> QED
    BY <1>4, <2>1, <2>3 DEF Close, TypeOK
<1>5. ASSUME NEW m \in Methods, NEW f \in Files, NEW ok \in BOOLEAN, Ask(m, f, ok) PROVE TypeOK'
  <2> DEFINE Q == [method : Methods, file : Files, ok : BOOLEAN, epoch : 0..MaxRestarts,
                   buffer : [Files -> MaybeVersion]]
             q == [method |-> m, file |-> f, ok |-> ok, epoch |-> restarts, buffer |-> buffer]
  <2>1. asked \in Seq(Q) /\ q \in Q
    BY DEF TypeOK
  <2>2. Len(asked) + 1 \in Ids
    <3>1. Len(asked) \in Nat
      BY <2>1, LenProperties
    <3> QED
      BY <1>5, <3>1, LspAssumption DEF Ask, Ids
  <2>3. [type |-> "request", id |-> Len(asked) + 1, method |-> m, file |-> f, ok |-> ok] \in ToServer
    BY <2>2 DEF ToServer
  <2>4. toServer' \in Seq(ToServer)
    BY <1>5, <2>3, TellType DEF Ask
  <2>5. asked' \in Seq(Q)
    <3>1. asked' = Append(asked, q)
      BY <1>5 DEF Ask
    <3> HIDE DEF Q, q
    <3> QED
      BY <2>1, <3>1, AppendProperties
  <2> QED
    BY <1>5, <2>4, <2>5 DEF Ask, TypeOK
<1>6. CASE Shutdown
  <2>1. [type |-> "shutdown"] \in ToServer
    BY DEF ToServer
  <2>2. toServer' \in Seq(ToServer)
    BY <1>6, <2>1, TellType DEF Shutdown
  <2> QED
    BY <1>6, <2>2 DEF Shutdown, TypeOK
<1>7. CASE Vanish
  BY <1>7 DEF Vanish, TypeOK
<1>8. CASE Receive
  <2> DEFINE m == Head(toEditor)
  <2>1. m \in ToEditor /\ toEditor' \in Seq(ToEditor)
    BY <1>8, HeadTailProperties DEF Receive, TypeOK
  <2>2. /\ m.type = "response" => m.id \in Ids /\ m.answer \in Answer
        /\ m.type = "publishDiagnostics" => m.diagnostics \in Diagnostics
    BY <2>1 DEF ToEditor
  <2>3. CASE /\ m.type = "response"
             /\ answers' = Append(answers, [id |-> m.id, answer |-> m.answer])
             /\ UNCHANGED <<shown, editor, toServer>>
    <3>1. answers' \in Seq([id : Ids, answer : Answer])
      <4>1. answers \in Seq([id : Ids, answer : Answer])
        BY DEF TypeOK
      <4>2. [id |-> m.id, answer |-> m.answer] \in [id : Ids, answer : Answer]
        BY <2>2, <2>3
      <4> QED
        BY <2>3, <4>1, <4>2, AppendProperties
    <3> QED
      BY <1>8, <2>1, <2>3, <3>1 DEF Receive, TypeOK
  <2>4. CASE /\ m.type = "publishDiagnostics"
             /\ shown' = [shown EXCEPT ![m.file] = m.diagnostics]
             /\ UNCHANGED <<answers, editor, toServer>>
    BY <1>8, <2>1, <2>2, <2>4 DEF Receive, TypeOK
  <2>5. CASE m.type = "shutdownResponse" /\ editor' = "left" /\ Tell([type |-> "exit"])
             /\ UNCHANGED <<answers, shown>>
    <3>1. [type |-> "exit"] \in ToServer
      BY DEF ToServer
    <3>2. toServer' \in Seq(ToServer)
      BY <2>5, <3>1, TellType
    <3> QED
      BY <1>8, <2>1, <2>5, <3>2 DEF Receive, TypeOK
  <2> QED
    BY <1>8, <2>3, <2>4, <2>5 DEF Receive
<1>9. CASE Restart
  <2>1. toServer' \in Seq(ToServer) /\ toEditor' \in Seq(ToEditor)
    BY <1>9, RestartOpens DEF Restart
  <2>2. restarts' \in 0..MaxRestarts
    BY <1>9, LspAssumption DEF Restart, TypeOK
  <2>3. None \in MaybeVersion
    BY DEF MaybeVersion
  <2> QED
    BY <1>9, <2>1, <2>2, <2>3 DEF Restart, TypeOK
<1> QED
  BY <1>1, <1>2, <1>3, <1>4, <1>5, <1>6, <1>7, <1>8, <1>9 DEF EditorNext

LEMMA ServerKeepsTypes == TypeOK /\ ServerNext => TypeOK'
<1> SUFFICES ASSUME TypeOK, ServerNext PROVE TypeOK'
  OBVIOUS
<1> USE DEF editorVars, serverVars
<1> DEFINE m == Head(toServer)
<1>0. \A v \in Versions : v \in MaybeVersion
  BY DEF MaybeVersion
<1>1. CASE DidOpen
  <2>1. m \in ToServer /\ m.type = "didOpen" /\ toServer' \in Seq(ToServer)
    BY <1>1, TakeType DEF DidOpen
  <2>2. m.file \in Files /\ m.text \in Versions
    BY <2>1 DEF ToServer
  <2>3. /\ tu' \in [Files -> MaybeVersion] /\ toEditor' \in Seq(ToEditor)
        /\ server' = server \/ server' = "dead"
    BY <1>1, <2>2, PublishType DEF DidOpen
  <2>4. store' \in [Files -> MaybeVersion] /\ documents' \in [Files -> MaybeVersion]
    BY <1>0, <1>1, <2>2 DEF DidOpen, IndexContent, TypeOK
  <2> QED
    BY <1>1, <2>1, <2>3, <2>4 DEF DidOpen, TypeOK
<1>2. CASE DidChange
  <2>1. m \in ToServer /\ m.type = "didChange" /\ toServer' \in Seq(ToServer)
    BY <1>2, TakeType DEF DidChange
  <2>2. m.file \in Files /\ m.text \in Versions
    BY <2>1 DEF ToServer
  <2>3. /\ tu' \in [Files -> MaybeVersion] /\ toEditor' \in Seq(ToEditor)
        /\ server' = server \/ server' = "dead"
    BY <1>2, <2>2, PublishType DEF DidChange
  <2>4. store' \in [Files -> MaybeVersion] /\ documents' \in [Files -> MaybeVersion]
    BY <1>0, <1>2, <2>2 DEF DidChange, IndexContent, TypeOK
  <2> QED
    BY <1>2, <2>1, <2>3, <2>4 DEF DidChange, TypeOK
<1>3. CASE DidClose
  <2>1. m \in ToServer /\ m.type = "didClose" /\ toServer' \in Seq(ToServer)
    BY <1>3, TakeType DEF DidClose
  <2>2. m.file \in Files /\ None \in MaybeVersion
    BY <2>1 DEF ToServer, MaybeVersion
  <2> QED
    BY <1>3, <2>1, <2>2 DEF DidClose, TypeOK
<1>4. CASE IgnoreNotification
  BY <1>4, TakeType DEF IgnoreNotification, TypeOK
<1>5. CASE HandleRequest
  <2>1. m \in ToServer /\ m.type = "request" /\ toServer' \in Seq(ToServer)
    BY <1>5, TakeType DEF HandleRequest
  <2>2. m.id \in Ids /\ m.method \in Methods /\ m.file \in Files
    BY <2>1 DEF ToServer
  <2>3. toEditor' \in Seq(ToEditor)
    BY <1>5, <2>2, ResponseType, SendType DEF HandleRequest
  <2> QED
    BY <1>5, <2>1, <2>3 DEF HandleRequest, TypeOK
<1>6. CASE RejectRequest
  BY <1>6, TakeType DEF RejectRequest, TypeOK
<1>7. CASE CrashInRequest
  BY <1>7, TakeType DEF CrashInRequest, TypeOK
<1>8. CASE HandleShutdown
  <2>1. [type |-> "shutdownResponse"] \in ToEditor
    BY DEF ToEditor
  <2>2. toEditor' \in Seq(ToEditor)
    BY <1>8, <2>1, SendType DEF HandleShutdown
  <2> QED
    BY <1>8, <2>2, TakeType DEF HandleShutdown, TypeOK
<1>9. CASE FinishShutdown
  <2>1. toServer' \in Seq(ToServer)
    <3>1. toServer \in Seq(ToServer)
      BY DEF TypeOK
    <3>2. toServer' = toServer \/ (toServer # << >> /\ toServer' = Tail(toServer))
      BY <1>9 DEF FinishShutdown
    <3> QED
      BY <3>1, <3>2, HeadTailProperties
  <2> QED
    BY <1>9, <2>1 DEF FinishShutdown, TypeOK
<1>10. CASE Disconnected
  BY <1>10 DEF Disconnected, TypeOK
<1> QED
  BY <1>1, <1>2, <1>3, <1>4, <1>5, <1>6, <1>7, <1>8, <1>9, <1>10 DEF ServerNext

\* The state has its types: no message, answer or diagnostics record is ill-formed, and
\* every bound is kept (run in server.rs, and the editor around it).
THEOREM TypeCorrect == Spec => []TypeOK
<1>1. TypeOK /\ UNCHANGED vars => TypeOK'
  BY DEF TypeOK, vars, editorVars, serverVars
<1>2. TypeOK /\ [Next]_vars => TypeOK'
  BY <1>1, EditorKeepsTypes, ServerKeepsTypes DEF Next
<1> QED
  BY <1>2, InitTyped, PTL DEF Spec

-----------------------------------------------------------------------------
(* The inductive invariant.  TuOnlyForOpen and StoreFollowsDocuments depend on the      *)
(* document of a didChange being open when the server comes to it, so the invariant     *)
(* says of every didChange under way that its document is open by then.                 *)

InStep(docs, queue, texts) ==
  /\ \A f \in Files : HasText(docs, queue, f, Len(queue), texts[f])
  /\ \A i \in 1..Len(queue) : queue[i].type = "didChange" =>
       \E text \in Versions : HasText(docs, queue, queue[i].file, i - 1, text)

IInv ==
  /\ TypeOK
  /\ server = "running" => InStep(documents, toServer, buffer)
  /\ TuOnlyForOpen
  /\ StoreFollowsDocuments

LEMMA AppendInStep ==
  ASSUME NEW queue \in Seq(ToServer), NEW m \in ToServer, NEW docs, NEW texts, NEW after,
         InStep(docs, queue, texts),
         \A f \in Files : after[f] = IF Syncs(m, f) THEN TextAfter(m) ELSE texts[f],
         m.type = "didChange" => m.file \in Files /\ texts[m.file] \in Versions
  PROVE  InStep(docs, Append(queue, m), after)
<1> DEFINE n == Len(queue)
           longer == Append(queue, m)
<1>1. n \in Nat /\ Len(longer) = n + 1 /\ longer[n + 1] = m /\ \A i \in 1..n : longer[i] = queue[i]
  BY LenProperties
<1>2. ASSUME NEW f \in Files PROVE HasText(docs, longer, f, Len(longer), after[f])
  <2>1. CASE Syncs(m, f)
    <3>1. after[f] = TextAfter(m)
      BY <2>1
    <3> QED
      BY <2>1, <3>1, AppendSetsText
  <2>2. CASE ~Syncs(m, f)
    <3>1. after[f] = texts[f] /\ HasText(docs, queue, f, Len(queue), texts[f])
      BY <2>2 DEF InStep
    <3> QED
      BY <2>2, <3>1, AppendIrrelevant
  <2> QED
    BY <2>1, <2>2
<1>3. ASSUME NEW i \in 1..(n + 1), longer[i].type = "didChange"
      PROVE  \E text \in Versions : HasText(docs, longer, longer[i].file, i - 1, text)
  <2>1. CASE i \in 1..n
    <3>1. longer[i] = queue[i] /\ i - 1 \in 0..n
      BY <1>1, <2>1
    <3>2. PICK text \in Versions : HasText(docs, queue, queue[i].file, i - 1, text)
      BY <1>3, <2>1, <3>1 DEF InStep
    <3>3. HasText(docs, longer, queue[i].file, i - 1, text)
      BY <3>1, <3>2, AppendKeepsText
    <3> QED
      BY <3>1, <3>3
  <2>2. CASE i = n + 1
    <3>1. longer[i] = m /\ i - 1 = n
      BY <1>1, <2>2
    <3>2. m.file \in Files /\ texts[m.file] \in Versions
      BY <1>3, <3>1
    <3>3. HasText(docs, queue, m.file, n, texts[m.file])
      BY <3>2 DEF InStep
    <3>4. HasText(docs, longer, m.file, n, texts[m.file])
      BY <1>1, <3>3, AppendKeepsText
    <3> QED
      BY <3>1, <3>2, <3>4
  <2> QED
    BY <1>1, <2>1, <2>2
<1> QED
  BY <1>1, <1>2, <1>3 DEF InStep

LEMMA HandleInStep ==
  ASSUME NEW queue \in Seq(ToServer), queue # << >>, NEW docs, NEW texts, NEW after,
         InStep(docs, queue, texts),
         \A f : Syncs(Head(queue), f) => after[f] = TextAfter(Head(queue)),
         \A f : ~Syncs(Head(queue), f) => after[f] = docs[f]
  PROVE  InStep(after, Tail(queue), texts)
<1> DEFINE rest == Tail(queue)
<1>1. /\ Len(queue) \in Nat /\ Len(queue) >= 1 /\ Len(rest) = Len(queue) - 1
      /\ \A i \in 1..Len(rest) : rest[i] = queue[i + 1]
  BY LenProperties, HeadTailProperties, EmptySeq
<1>2. ASSUME NEW f \in Files PROVE HasText(after, rest, f, Len(rest), texts[f])
  <2>1. HasText(docs, queue, f, Len(queue), texts[f])
    BY DEF InStep
  <2>2. Len(queue) \in 1..Len(queue)
    BY <1>1
  <2>3. HasText(after, rest, f, Len(queue) - 1, texts[f])
    BY <2>1, <2>2, HandlingShiftsText
  <2> QED
    BY <1>1, <2>3
<1>3. ASSUME NEW i \in 1..Len(rest), rest[i].type = "didChange"
      PROVE  \E text \in Versions : HasText(after, rest, rest[i].file, i - 1, text)
  <2>1. i + 1 \in 1..Len(queue) /\ i \in 1..Len(queue) /\ rest[i] = queue[i + 1] /\ (i + 1) - 1 = i
    BY <1>1
  <2>2. PICK text \in Versions : HasText(docs, queue, queue[i + 1].file, (i + 1) - 1, text)
    BY <1>3, <2>1 DEF InStep
  <2>3. HasText(docs, queue, rest[i].file, i, text)
    BY <2>1, <2>2
  <2>4. HasText(after, rest, rest[i].file, i - 1, text)
    BY <2>1, <2>3, HandlingShiftsText
  <2> QED
    BY <2>4
<1> QED
  BY <1>2, <1>3 DEF InStep

\* A message that concerns no document leaves the server in step.
LEMMA TellInStep ==
  ASSUME IInv, NEW m \in ToServer, Tell(m), documents' = documents, server' = server,
         \A f \in Files : buffer'[f] = IF Syncs(m, f) THEN TextAfter(m) ELSE buffer[f],
         m.type = "didChange" => m.file \in Files /\ buffer[m.file] \in Versions
  PROVE  server' = "running" => InStep(documents', toServer', buffer')
<1> SUFFICES ASSUME server = "running" PROVE InStep(documents, toServer', buffer')
  OBVIOUS
<1>1. toServer \in Seq(ToServer) /\ InStep(documents, toServer, buffer)
  BY DEF IInv, TypeOK
<1>2. toServer' = Append(toServer, m)
  BY DEF Tell
<1>3. InStep(documents, Append(toServer, m), buffer')
  BY <1>1, AppendInStep
<1> QED
  BY <1>2, <1>3

\* The other two parts hold after a step that leaves the server's copies alone.
LEMMA ServerUntouched ==
  ASSUME IInv, UNCHANGED serverVars
  PROVE  TuOnlyForOpen' /\ StoreFollowsDocuments'
BY DEF IInv, serverVars, TuOnlyForOpen, StoreFollowsDocuments

LEMMA EditorKeepsInv == IInv /\ EditorNext => IInv'
<1> SUFFICES ASSUME IInv, EditorNext PROVE IInv'
  OBVIOUS
<1>0. TypeOK /\ TypeOK'
  BY EditorKeepsTypes DEF IInv
<1> DEFINE Synced == server = "running" => InStep(documents, toServer, buffer)
<1>00. Synced
  BY DEF IInv
<1> USE DEF editorVars, serverVars
<1>1. ASSUME NEW f \in Files, Open(f) PROVE Synced' /\ UNCHANGED serverVars
  <2> DEFINE m == [type |-> "didOpen", file |-> f, text |-> disk[f]]
  <2>1. m \in ToServer
    BY <1>0 DEF TypeOK, ToServer
  <2>2. \A g \in Files : buffer'[g] = IF Syncs(m, g) THEN TextAfter(m) ELSE buffer[g]
    BY <1>0, <1>1 DEF Open, TypeOK, Syncs, TextAfter
  <2>3. m.type # "didChange"
    OBVIOUS
  <2>4. Tell(m) /\ documents' = documents /\ server' = server /\ UNCHANGED serverVars
    BY <1>1 DEF Open
  <2> HIDE DEF m
  <2> QED
    BY <2>1, <2>2, <2>3, <2>4, TellInStep
<1>2. ASSUME NEW f \in Files, Edit(f) PROVE Synced' /\ UNCHANGED serverVars
  <2> DEFINE m == [type |-> "didChange", file |-> f, text |-> edited[f] + 1]
  <2>1. m \in ToServer
    <3>1. edited[f] + 1 \in Versions
      BY <1>0, <1>2, LspAssumption DEF Edit, TypeOK, Versions
    <3> QED
      BY <3>1 DEF ToServer
  <2>2. \A g \in Files : buffer'[g] = IF Syncs(m, g) THEN TextAfter(m) ELSE buffer[g]
    BY <1>0, <1>2 DEF Edit, TypeOK, Syncs, TextAfter
  <2>3. m.file \in Files /\ buffer[m.file] \in Versions
    BY <1>0, <1>2 DEF Edit, TypeOK, MaybeVersion
  <2>4. Tell(m) /\ documents' = documents /\ server' = server /\ UNCHANGED serverVars
    BY <1>2 DEF Edit
  <2> HIDE DEF m
  <2> QED
    BY <2>1, <2>2, <2>3, <2>4, TellInStep
<1>3. ASSUME NEW f \in Files, Save(f) PROVE Synced' /\ UNCHANGED serverVars
  <2> DEFINE m == [type |-> "didSave", file |-> f]
  <2>1. m \in ToServer
    BY DEF ToServer
  <2>2. m.type # "didChange" /\ \A g \in Files : ~Syncs(m, g)
    BY DEF Syncs
  <2>3. /\ Tell(m) /\ documents' = documents /\ server' = server /\ UNCHANGED serverVars
        /\ buffer' = buffer
    BY <1>3 DEF Save
  <2> HIDE DEF m
  <2> QED
    BY <2>1, <2>2, <2>3, TellInStep
<1>4. ASSUME NEW f \in Files, Close(f) PROVE Synced' /\ UNCHANGED serverVars
  <2> DEFINE m == [type |-> "didClose", file |-> f]
  <2>1. m \in ToServer
    BY DEF ToServer
  <2>2. \A g \in Files : buffer'[g] = IF Syncs(m, g) THEN TextAfter(m) ELSE buffer[g]
    BY <1>0, <1>4 DEF Close, TypeOK, Syncs, TextAfter
  <2>3. m.type # "didChange"
    OBVIOUS
  <2>4. Tell(m) /\ documents' = documents /\ server' = server /\ UNCHANGED serverVars
    BY <1>4 DEF Close
  <2> HIDE DEF m
  <2> QED
    BY <2>1, <2>2, <2>3, <2>4, TellInStep
<1>5. ASSUME NEW method \in Methods, NEW f \in Files, NEW ok \in BOOLEAN, Ask(method, f, ok)
      PROVE  Synced' /\ UNCHANGED serverVars
  <2> DEFINE m == [type |-> "request", id |-> Len(asked) + 1, method |-> method, file |-> f, ok |-> ok]
  <2>1. m \in ToServer
    <3>1. Len(asked) \in Nat
      BY <1>0, LenProperties DEF TypeOK
    <3>2. Len(asked) + 1 \in Ids
      BY <1>5, <3>1, LspAssumption DEF Ask, Ids
    <3> QED
      BY <3>2 DEF ToServer
  <2>2. m.type # "didChange" /\ \A g \in Files : ~Syncs(m, g)
    BY DEF Syncs
  <2>3. /\ Tell(m) /\ documents' = documents /\ server' = server /\ UNCHANGED serverVars
        /\ buffer' = buffer
    BY <1>5 DEF Ask
  <2> HIDE DEF m
  <2> QED
    BY <2>1, <2>2, <2>3, TellInStep
<1>6. ASSUME Shutdown PROVE Synced' /\ UNCHANGED serverVars
  <2> DEFINE m == [type |-> "shutdown"]
  <2>1. m \in ToServer
    BY DEF ToServer
  <2>2. m.type # "didChange" /\ \A g \in Files : ~Syncs(m, g)
    BY DEF Syncs
  <2>3. /\ Tell(m) /\ documents' = documents /\ server' = server /\ UNCHANGED serverVars
        /\ buffer' = buffer
    BY <1>6 DEF Shutdown
  <2> HIDE DEF m
  <2> QED
    BY <2>1, <2>2, <2>3, TellInStep
<1>7. ASSUME Vanish PROVE Synced' /\ UNCHANGED serverVars
  BY <1>00, <1>7 DEF Vanish
<1>8. ASSUME Receive PROVE Synced' /\ UNCHANGED serverVars
  <2> DEFINE m == [type |-> "exit"]
  <2>1. m \in ToServer
    BY DEF ToServer
  <2>2. m.type # "didChange" /\ \A g \in Files : ~Syncs(m, g)
    BY DEF Syncs
  <2>3. /\ UNCHANGED toServer \/ Tell(m)
        /\ documents' = documents /\ server' = server /\ UNCHANGED serverVars /\ buffer' = buffer
    BY <1>8 DEF Receive
  <2> HIDE DEF m
  <2>4. CASE Tell(m)
    BY <2>1, <2>2, <2>3, <2>4, TellInStep
  <2>5. CASE UNCHANGED toServer
    BY <1>00, <2>3, <2>5
  <2> QED
    BY <2>3, <2>4, <2>5
<1>9. CASE Restart
  <2> DEFINE n == Len(toServer')
  <2>1. PICK open \in [1..n -> Files] :
          /\ \A i \in 1..n :
               /\ toServer'[i] = [type |-> "didOpen", file |-> open[i], text |-> buffer[open[i]]]
               /\ buffer[open[i]] # None
          /\ \A f \in Files : buffer[f] # None => \E i \in 1..n : open[i] = f
    BY <1>0, <1>9, RestartOpens
  <2>2. n \in Nat
    BY <1>0, <1>9, RestartOpens
  <2>3. ASSUME NEW f \in Files PROVE HasText(documents', toServer', f, n, buffer'[f])
    <3>1. documents'[f] = None /\ buffer' = buffer
      BY <1>9 DEF Restart
    <3>2. ASSUME NEW i \in 1..n
          PROVE  /\ Syncs(toServer'[i], f) <=> open[i] = f
                 /\ TextAfter(toServer'[i]) = buffer[open[i]]
      <4>1. toServer'[i] = [type |-> "didOpen", file |-> open[i], text |-> buffer[open[i]]]
        BY <2>1
      <4> QED
        BY <4>1 DEF Syncs, TextAfter
    <3>3. buffer[f] # None => \E i \in 1..n : open[i] = f
      BY <2>1
    <3> HIDE DEF n
    <3> QED
      BY <2>2, <3>1, <3>2, <3>3, ReopenedText
  <2>4. ASSUME NEW i \in 1..n PROVE toServer'[i].type # "didChange"
    <3>1. toServer'[i] = [type |-> "didOpen", file |-> open[i], text |-> buffer[open[i]]]
      BY <2>1
    <3> QED
      BY <3>1
  <2>5. Synced'
    BY <2>3, <2>4 DEF InStep
  <2>6. TuOnlyForOpen' /\ StoreFollowsDocuments'
    BY <1>9 DEF Restart, TuOnlyForOpen, StoreFollowsDocuments
  <2> QED
    BY <1>0, <2>5, <2>6 DEF IInv
<1> HIDE DEF Synced
<1>10. Synced' /\ UNCHANGED serverVars => IInv'
  BY <1>0, ServerUntouched DEF IInv, Synced
<1> QED
  BY <1>1, <1>2, <1>3, <1>4, <1>5, <1>6, <1>7, <1>8, <1>9, <1>10 DEF EditorNext

\* What a handler of a document message must do to keep the server in step.
LEMMA TakeInStep ==
  ASSUME IInv, NEW type, Take(type),
         \A f : Syncs(Head(toServer), f) => documents'[f] = TextAfter(Head(toServer)),
         \A f : ~Syncs(Head(toServer), f) => documents'[f] = documents[f],
         UNCHANGED buffer
  PROVE  InStep(documents', toServer', buffer')
<1>1. /\ toServer \in Seq(ToServer) /\ toServer # << >> /\ toServer' = Tail(toServer)
      /\ InStep(documents, toServer, buffer)
  BY TakeType DEF IInv, TypeOK
<1>2. InStep(documents', Tail(toServer), buffer)
  BY <1>1, HandleInStep
<1> QED
  BY <1>1, <1>2

\* A handler of any other message leaves the server's copies alone.
LEMMA TakeUntouched ==
  ASSUME IInv, NEW type, type \notin {"didOpen", "didChange", "didClose"}, Take(type),
         UNCHANGED serverVars, UNCHANGED buffer
  PROVE  InStep(documents', toServer', buffer') /\ TuOnlyForOpen' /\ StoreFollowsDocuments'
<1>1. \A f : ~Syncs(Head(toServer), f)
  BY DEF Take, Syncs
<1>2. documents' = documents
  BY DEF serverVars
<1> QED
  BY <1>1, <1>2, TakeInStep, ServerUntouched

LEMMA ServerKeepsInv == IInv /\ ServerNext => IInv'
<1> SUFFICES ASSUME IInv, ServerNext PROVE IInv'
  OBVIOUS
<1>0. TypeOK /\ TypeOK'
  BY ServerKeepsTypes DEF IInv
<1> DEFINE m == Head(toServer)
           Synced == server = "running" => InStep(documents, toServer, buffer)
<1>00. Synced /\ TuOnlyForOpen /\ StoreFollowsDocuments
  BY DEF IInv
<1>1. CASE DidOpen
  <2>1. Take("didOpen") /\ m \in ToServer /\ m.type = "didOpen"
    BY <1>0, <1>1, TakeType DEF DidOpen
  <2>2. m.file \in Files /\ m.text \in Versions /\ m.text # None
    BY <2>1, LspAssumption DEF ToServer, Versions
  <2>3. /\ documents' = [documents EXCEPT ![m.file] = m.text]
        /\ "index" \notin Faults => store' = [store EXCEPT ![m.file] = m.text]
        /\ UNCHANGED buffer
    BY <1>1 DEF DidOpen, IndexContent, editorVars
  <2>4. tu' = tu \/ tu' = [tu EXCEPT ![m.file] = disk[m.file]]
    BY <1>0, <1>1, <2>2, PublishType DEF DidOpen
  <2>5. documents'[m.file] = m.text /\ \A f : f # m.file => documents'[f] = documents[f]
    BY <1>0, <2>2, <2>3 DEF TypeOK
  <2>6. InStep(documents', toServer', buffer')
    <3>1. \A f : Syncs(m, f) => documents'[f] = TextAfter(m)
      BY <2>1, <2>5 DEF Syncs, TextAfter
    <3>2. \A f : ~Syncs(m, f) => documents'[f] = documents[f]
      BY <2>1, <2>5 DEF Syncs
    <3> QED
      BY <2>1, <2>3, <3>1, <3>2, TakeInStep
  <2>7. TuOnlyForOpen'
    BY <1>0, <1>00, <2>2, <2>4, <2>5 DEF TypeOK, TuOnlyForOpen
  <2>8. StoreFollowsDocuments'
    BY <1>0, <1>00, <2>2, <2>3, <2>5 DEF TypeOK, StoreFollowsDocuments
  <2> QED
    BY <1>0, <2>6, <2>7, <2>8 DEF IInv
<1>2. CASE DidChange
  <2>1. Take("didChange") /\ m \in ToServer /\ m.type = "didChange"
    BY <1>0, <1>2, TakeType DEF DidChange
  <2>2. m.file \in Files /\ m.text \in Versions /\ m.text # None
    BY <2>1, LspAssumption DEF ToServer, Versions
  <2>3. documents[m.file] # None
    <3>1. toServer \in Seq(ToServer) /\ toServer # << >> /\ server = "running"
      BY <1>0, <2>1 DEF Take, TypeOK
    <3>2. 1 \in 1..Len(toServer) /\ m = toServer[1]
      BY <3>1, EmptySeq
    <3>3. PICK text \in Versions : HasText(documents, toServer, m.file, 1 - 1, text)
      BY <1>00, <2>1, <3>1, <3>2 DEF InStep
    <3>4. documents[m.file] = text
      BY <3>3 DEF HasText
    <3> QED
      BY <3>3, <3>4, LspAssumption DEF Versions
  <2>4. /\ documents' = [documents EXCEPT ![m.file] = m.text]
        /\ "index" \notin Faults => store' = [store EXCEPT ![m.file] = m.text]
        /\ UNCHANGED buffer
    BY <1>2, <2>3 DEF DidChange, IndexContent, editorVars
  <2>5. tu' = tu \/ tu' = [tu EXCEPT ![m.file] = disk[m.file]]
    BY <1>0, <1>2, <2>2, PublishType DEF DidChange
  <2>6. documents'[m.file] = m.text /\ \A f : f # m.file => documents'[f] = documents[f]
    BY <1>0, <2>2, <2>4 DEF TypeOK
  <2>7. InStep(documents', toServer', buffer')
    <3>1. \A f : Syncs(m, f) => documents'[f] = TextAfter(m)
      BY <2>1, <2>6 DEF Syncs, TextAfter
    <3>2. \A f : ~Syncs(m, f) => documents'[f] = documents[f]
      BY <2>1, <2>6 DEF Syncs
    <3> QED
      BY <2>1, <2>4, <3>1, <3>2, TakeInStep
  <2>8. TuOnlyForOpen'
    BY <1>0, <1>00, <2>2, <2>5, <2>6 DEF TypeOK, TuOnlyForOpen
  <2>9. StoreFollowsDocuments'
    BY <1>0, <1>00, <2>2, <2>4, <2>6 DEF TypeOK, StoreFollowsDocuments
  <2> QED
    BY <1>0, <2>7, <2>8, <2>9 DEF IInv
<1>3. CASE DidClose
  <2>1. Take("didClose") /\ m \in ToServer /\ m.type = "didClose"
    BY <1>0, <1>3, TakeType DEF DidClose
  <2>2. m.file \in Files
    BY <2>1 DEF ToServer
  <2>3. /\ documents' = [documents EXCEPT ![m.file] = None]
        /\ tu' = [tu EXCEPT ![m.file] = None]
        /\ store' = store /\ UNCHANGED buffer
    BY <1>3 DEF DidClose, editorVars
  <2>4. documents'[m.file] = None /\ \A f : f # m.file => documents'[f] = documents[f]
    BY <1>0, <2>2, <2>3 DEF TypeOK
  <2>5. InStep(documents', toServer', buffer')
    <3>1. \A f : Syncs(m, f) => documents'[f] = TextAfter(m)
      BY <2>1, <2>4 DEF Syncs, TextAfter
    <3>2. \A f : ~Syncs(m, f) => documents'[f] = documents[f]
      BY <2>1, <2>4 DEF Syncs
    <3> QED
      BY <2>1, <2>3, <3>1, <3>2, TakeInStep
  <2>6. TuOnlyForOpen'
    BY <1>0, <1>00, <2>2, <2>3, <2>4 DEF TypeOK, TuOnlyForOpen
  <2>7. StoreFollowsDocuments'
    BY <1>00, <2>3, <2>4 DEF StoreFollowsDocuments
  <2> QED
    BY <1>0, <2>5, <2>6, <2>7 DEF IInv
<1>4. CASE IgnoreNotification
  BY <1>0, <1>4, TakeUntouched DEF IgnoreNotification, editorVars, IInv
<1>5. CASE HandleRequest
  BY <1>0, <1>5, TakeUntouched DEF HandleRequest, editorVars, IInv
<1>6. CASE RejectRequest
  BY <1>0, <1>6, TakeUntouched DEF RejectRequest, editorVars, IInv
<1>7. CASE CrashInRequest
  BY <1>0, <1>7, TakeUntouched DEF CrashInRequest, editorVars, IInv
<1>8. CASE HandleShutdown
  BY <1>0, <1>8, TakeUntouched DEF HandleShutdown, editorVars, IInv
<1>9. CASE FinishShutdown
  <2>1. server' # "running" /\ UNCHANGED serverVars
    BY <1>9 DEF FinishShutdown
  <2> QED
    BY <1>0, <2>1, ServerUntouched DEF IInv
<1>10. CASE Disconnected
  <2>1. server' # "running" /\ UNCHANGED serverVars
    BY <1>10 DEF Disconnected
  <2> QED
    BY <1>0, <2>1, ServerUntouched DEF IInv
<1> QED
  BY <1>1, <1>2, <1>3, <1>4, <1>5, <1>6, <1>7, <1>8, <1>9, <1>10 DEF ServerNext

LEMMA InitInv == Init => IInv
<1> SUFFICES ASSUME Init PROVE IInv
  OBVIOUS
<1>1. \A f \in Files : HasText(documents, toServer, f, Len(toServer), buffer[f])
  BY DEF Init, HasText
<1>2. Len(toServer) = 0
  BY DEF Init
<1>3. InStep(documents, toServer, buffer)
  BY <1>1, <1>2 DEF InStep
<1>4. TuOnlyForOpen /\ StoreFollowsDocuments
  BY DEF Init, TuOnlyForOpen, StoreFollowsDocuments
<1> QED
  BY <1>3, <1>4, InitTyped DEF IInv

LEMMA Inductive == Spec => []IInv
<1>1. IInv /\ UNCHANGED vars => IInv'
  BY DEF vars, editorVars, serverVars, IInv, TypeOK, TuOnlyForOpen, StoreFollowsDocuments
<1>2. IInv /\ [Next]_vars => IInv'
  BY <1>1, EditorKeepsInv, ServerKeepsInv DEF Next
<1> QED
  BY <1>2, InitInv, PTL DEF Spec

\* on_did_open, on_did_change and on_did_close keep the server's copy of every document
\* equal to the editor's, late by exactly the messages under way, for any number of
\* documents and edits, whatever fails in a handler and across a crash and a restart.
THEOREM InStepWithEditor == Spec => []DocumentsFollowBuffers
<1>1. IInv => DocumentsFollowBuffers
  BY DEF IInv, InStep, DocumentsFollowBuffers
<1> QED
  BY <1>1, Inductive, PTL

\* on_did_close disposes what on_did_open and on_did_change cached: no translation unit
\* outlives the document it was parsed for.
THEOREM NoOrphanTu == Spec => []TuOnlyForOpen
<1>1. IInv => TuOnlyForOpen
  BY DEF IInv
<1> QED
  BY <1>1, Inductive, PTL

\* index_content runs on every change of a document: unless it fails, the store has the
\* symbols of the very text the server holds.
THEOREM StoreInStep == Spec => []StoreFollowsDocuments
<1>1. IInv => StoreFollowsDocuments
  BY DEF IInv
<1> QED
  BY <1>1, Inductive, PTL

-----------------------------------------------------------------------------
(* What the editor gets: the invariants of the answers and of what is shown at rest *)

\* The numbers of the requests, or of the responses, under way in a queue.
Numbers(queue, type) == {queue[i].id : i \in {j \in 1..Len(queue) : queue[j].type = type}}

Increasing(queue, type) ==
  \A i, j \in 1..Len(queue) :
    i < j /\ queue[i].type = type /\ queue[j].type = type => queue[i].id < queue[j].id

Answered == {answers[i].id : i \in 1..Len(answers)}

\* From the oldest answer to the youngest request under way, numbers only grow.
Ordered ==
  /\ \A i, j \in 1..Len(answers) : i < j => answers[i].id < answers[j].id
  /\ Increasing(toEditor, "response") /\ Increasing(toServer, "request")
  /\ \A a \in Answered : \A r \in Numbers(toEditor, "response") : a < r
  /\ \A a \in Answered : \A q \in Numbers(toServer, "request") : a < q
  /\ \A r \in Numbers(toEditor, "response") : \A q \in Numbers(toServer, "request") : r < q
  /\ Answered \cup Numbers(toEditor, "response") \cup Numbers(toServer, "request")
       \subseteq 1..Len(asked)

\* What AnswersAreCurrent says of one answer to the request q.
Current(q, a) ==
  /\ q.method \in BufferMethods \cup BothMethods => a.doc = q.buffer[q.file]
  /\ q.method \in StoreMethods /\ "index" \notin Faults =>
       \A f \in Files : q.buffer[f] # None => a.syms[f] = q.buffer[f]
  /\ a.tu # None => q.buffer[q.file] # None

\* When the server comes to a request, it has the texts of the moment it was asked.
AskedInStep(queue) ==
  \A i \in 1..Len(queue) : queue[i].type = "request" =>
    LET q == asked[queue[i].id]
    IN /\ q.method = queue[i].method /\ q.file = queue[i].file
       /\ \A f \in Files : HasText(documents, queue, f, i - 1, q.buffer[f])

ResponsesCurrent ==
  \A i \in 1..Len(toEditor) : toEditor[i].type = "response" =>
    Current(asked[toEditor[i].id], toEditor[i].answer)

AnswersInv ==
  /\ server = "running" => AskedInStep(toServer)
  /\ ResponsesCurrent
  /\ \A i \in 1..Len(answers) : Current(asked[answers[i].id], answers[i].answer)

\* Diagnostics that are right for f as the server knows it.
RightFor(f) ==
  {d \in Diagnostics :
     /\ d.nullability \in {documents[f], None}
     /\ d.compile \in {tu[f], None}
     /\ EnableNullability /\ "parse" \notin Faults => d.nullability = documents[f]}

About(m, f) == m.type = "publishDiagnostics" /\ m.file = f

\* Once the editor has read the queue it shows one of these for f.
WillShow(queue, now, f, right) ==
  /\ (\A i \in 1..Len(queue) : ~About(queue[i], f)) => now \in right
  /\ \A i \in 1..Len(queue) :
       About(queue[i], f) /\ (\A j \in (i + 1)..Len(queue) : ~About(queue[j], f)) =>
         queue[i].diagnostics \in right

ShownInv ==
  editor # "left" /\ server # "dead" =>
    \A f \in Files : documents[f] # None => WillShow(toEditor, shown[f], f, RightFor(f))

-----------------------------------------------------------------------------
(* Numbers of a queue *)

LEMMA NumbersAppend ==
  ASSUME NEW S, NEW queue \in Seq(S), NEW m \in S, NEW type
  PROVE  Numbers(Append(queue, m), type)
           \subseteq Numbers(queue, type) \cup (IF m.type = type THEN {m.id} ELSE {})
<1> DEFINE longer == Append(queue, m)
<1>1. /\ Len(queue) \in Nat /\ Len(longer) = Len(queue) + 1 /\ longer[Len(queue) + 1] = m
      /\ \A i \in 1..Len(queue) : longer[i] = queue[i]
  BY LenProperties
<1>2. ASSUME NEW i \in 1..Len(longer), longer[i].type = type
      PROVE  longer[i].id \in Numbers(queue, type) \cup (IF m.type = type THEN {m.id} ELSE {})
  <2>1. CASE i \in 1..Len(queue)
    BY <1>1, <1>2, <2>1 DEF Numbers
  <2>2. CASE i = Len(queue) + 1
    BY <1>1, <1>2, <2>2
  <2> QED
    BY <1>1, <2>1, <2>2
<1> HIDE DEF longer
<1> QED
  BY <1>2 DEF Numbers, longer

LEMMA IncreasingAppend ==
  ASSUME NEW S, NEW queue \in Seq(S), NEW m \in S, NEW type, Increasing(queue, type),
         m.type = type => \A n \in Numbers(queue, type) : n < m.id
  PROVE  Increasing(Append(queue, m), type)
<1> DEFINE longer == Append(queue, m)
<1>1. /\ Len(queue) \in Nat /\ Len(longer) = Len(queue) + 1 /\ longer[Len(queue) + 1] = m
      /\ \A i \in 1..Len(queue) : longer[i] = queue[i]
  BY LenProperties
<1>2. ASSUME NEW i \in 1..Len(longer), NEW j \in 1..Len(longer), i < j,
             longer[i].type = type, longer[j].type = type
      PROVE  longer[i].id < longer[j].id
  <2>1. i \in 1..Len(queue)
    BY <1>1, <1>2
  <2>2. CASE j \in 1..Len(queue)
    BY <1>1, <1>2, <2>1, <2>2 DEF Increasing
  <2>3. CASE j = Len(queue) + 1
    <3>1. queue[i].id \in Numbers(queue, type)
      BY <1>1, <1>2, <2>1 DEF Numbers
    <3> QED
      BY <1>1, <1>2, <2>1, <2>3, <3>1
  <2> QED
    BY <1>1, <2>2, <2>3
<1> HIDE DEF longer
<1> QED
  BY <1>2 DEF Increasing, longer

LEMMA NumbersTail ==
  ASSUME NEW S, NEW queue \in Seq(S), queue # << >>, NEW type
  PROVE  /\ Numbers(Tail(queue), type) \subseteq Numbers(queue, type)
         /\ Head(queue).type = type => Head(queue).id \in Numbers(queue, type)
         /\ Increasing(queue, type) =>
              /\ Increasing(Tail(queue), type)
              /\ Head(queue).type = type =>
                   \A n \in Numbers(Tail(queue), type) : Head(queue).id < n
<1> DEFINE rest == Tail(queue)
<1>1. /\ Len(queue) \in Nat /\ Len(queue) >= 1 /\ Len(rest) = Len(queue) - 1
      /\ \A i \in 1..Len(rest) : rest[i] = queue[i + 1]
      /\ Head(queue) = queue[1]
  BY LenProperties, HeadTailProperties, EmptySeq
<1> HIDE DEF rest
<1>2. 1 \in 1..Len(queue) /\ \A i \in 1..Len(rest) : i + 1 \in 1..Len(queue) /\ 1 < i + 1
  BY <1>1
<1>3. ASSUME Increasing(queue, type) PROVE Increasing(rest, type)
  <2> SUFFICES ASSUME NEW i \in 1..Len(rest), NEW j \in 1..Len(rest), i < j,
                      rest[i].type = type, rest[j].type = type
               PROVE  rest[i].id < rest[j].id
    BY DEF Increasing
  <2>1. i + 1 < j + 1 /\ i + 1 \in 1..Len(queue) /\ j + 1 \in 1..Len(queue)
    BY <1>1
  <2> QED
    BY <1>1, <1>3, <2>1 DEF Increasing
<1> QED
  BY <1>1, <1>2, <1>3 DEF Increasing, Numbers, rest

\* A queue that has no number it did not have before.
NothingNew(before, after, type) ==
  /\ Increasing(after, type)
  /\ Numbers(after, type) \subseteq Numbers(before, type)

LEMMA TellNothingNew ==
  ASSUME TypeOK, Ordered, NEW m \in ToServer, m.type # "request", Tell(m)
  PROVE  NothingNew(toServer, toServer', "request")
<1>1. toServer \in Seq(ToServer) /\ Increasing(toServer, "request")
  BY DEF TypeOK, Ordered
<1>2. toServer' = toServer \/ toServer' = Append(toServer, m)
  BY DEF Tell
<1> QED
  BY <1>1, <1>2, NumbersAppend, IncreasingAppend DEF NothingNew

LEMMA SendNothingNew ==
  ASSUME TypeOK, Ordered, NEW m \in ToEditor, m.type # "response", Send(m)
  PROVE  NothingNew(toEditor, toEditor', "response")
<1>1. toEditor \in Seq(ToEditor) /\ Increasing(toEditor, "response")
  BY DEF TypeOK, Ordered
<1>2. toEditor' = toEditor \/ toEditor' = Append(toEditor, m)
  BY DEF Send
<1> QED
  BY <1>1, <1>2, NumbersAppend, IncreasingAppend DEF NothingNew

LEMMA UnchangedNothingNew ==
  ASSUME Ordered
  PROVE  /\ toServer' = toServer => NothingNew(toServer, toServer', "request")
         /\ toEditor' = toEditor => NothingNew(toEditor, toEditor', "response")
  BY DEF Ordered, NothingNew

LEMMA TakeNothingNew ==
  ASSUME TypeOK, Ordered, toServer # << >>, toServer' = Tail(toServer)
  PROVE  NothingNew(toServer, toServer', "request")
<1>1. toServer \in Seq(ToServer) /\ Increasing(toServer, "request")
  BY DEF TypeOK, Ordered
<1> QED
  BY <1>1, NumbersTail DEF NothingNew

\* A step that only drops numbers keeps the order.
LEMMA OrderedKept ==
  ASSUME Ordered, UNCHANGED <<answers, asked>>,
         NothingNew(toServer, toServer', "request"), NothingNew(toEditor, toEditor', "response")
  PROVE  Ordered'
<1>1. Answered' = Answered
  BY DEF Answered
<1> QED
  BY <1>1 DEF Ordered, NothingNew

LEMMA PublishSends ==
  ASSUME TypeOK, NEW f \in Files, NEW text \in Versions, PublishDiagnostics(f, text)
  PROVE  \/ server' = "dead" /\ toEditor' = toEditor
         \/ \E d \in Diagnostics :
              /\ Send([type |-> "publishDiagnostics", file |-> f, diagnostics |-> d])
              /\ d.compile \in {tu'[f], None}
              /\ d.nullability \in {text, None}
              /\ EnableNullability /\ "parse" \notin Faults => d.nullability = text
<1>1. disk[f] \in MaybeVersion /\ None \in MaybeVersion /\ text \in MaybeVersion
  BY DEF TypeOK, MaybeVersion
<1>2. CASE /\ tu' = [tu EXCEPT ![f] = disk[f]]
           /\ \E c \in Harvest(disk[f]), a \in IF EnableAnalyzer THEN Harvest(disk[f]) ELSE {None} :
                Send([type |-> "publishDiagnostics", file |-> f,
                      diagnostics |-> [compile |-> c, analysis |-> a,
                                       nullability |-> IF EnableNullability THEN text ELSE None]])
  <2>1. PICK c \in Harvest(disk[f]), a \in IF EnableAnalyzer THEN Harvest(disk[f]) ELSE {None} :
                Send([type |-> "publishDiagnostics", file |-> f,
                      diagnostics |-> [compile |-> c, analysis |-> a,
                                       nullability |-> IF EnableNullability THEN text ELSE None]])
    BY <1>2
  <2> DEFINE n == IF EnableNullability THEN text ELSE None
             d == [compile |-> c, analysis |-> a, nullability |-> n]
  <2>2. c \in {disk[f], None} /\ a \in {disk[f], None} /\ n \in {text, None}
    BY DEF Harvest
  <2>3. EnableNullability => n = text
    OBVIOUS
  <2>4. tu'[f] = disk[f]
    BY <1>2 DEF TypeOK
  <2>5. Send([type |-> "publishDiagnostics", file |-> f, diagnostics |-> d])
    BY <2>1
  <2> HIDE DEF n
  <2>6. d \in Diagnostics /\ d.compile = c /\ d.nullability = n
    BY <1>1, <2>2 DEF Diagnostics
  <2> HIDE DEF d
  <2> QED
    BY <2>2, <2>3, <2>4, <2>5, <2>6
<1>3. CASE /\ "parse" \in Faults /\ tu' = tu
           /\ Send([type |-> "publishDiagnostics", file |-> f, diagnostics |-> NoDiagnostics])
  <2>1. /\ NoDiagnostics \in Diagnostics /\ NoDiagnostics.compile = None
        /\ NoDiagnostics.nullability = None
    BY <1>1 DEF NoDiagnostics, Diagnostics
  <2> QED
    BY <1>3, <2>1
<1> QED
  BY <1>2, <1>3 DEF PublishDiagnostics

-----------------------------------------------------------------------------
(* The order of the answers *)

LEMMA AskOrdered ==
  ASSUME TypeOK, Ordered, NEW m \in Methods, NEW f \in Files, NEW ok \in BOOLEAN, Ask(m, f, ok)
  PROVE  Ordered'
<1> DEFINE n == Len(asked) + 1
           request == [type |-> "request", id |-> n, method |-> m, file |-> f, ok |-> ok]
<1>1. Len(asked) \in Nat /\ Len(asked') = n /\ 1..Len(asked) \subseteq 1..n /\ n \in 1..n
      /\ \A k \in 1..Len(asked) : k < n
  <2>1. Len(asked) \in Nat /\ Len(asked') = n
    BY LenProperties DEF TypeOK, Ask
  <2> QED
    BY <2>1, SMT
<1>2. n \in Ids
  BY <1>1, LspAssumption DEF Ask, Ids
<1> HIDE DEF n
<1>3. request \in ToServer /\ request.type = "request" /\ request.id = n
  BY <1>2 DEF ToServer
<1>4. toServer' = Append(toServer, request) /\ UNCHANGED <<answers, toEditor>>
  BY DEF Ask, Tell, n
<1> HIDE DEF request
<1>5. toServer \in Seq(ToServer)
  BY DEF TypeOK
<1>6. Numbers(toServer', "request") \subseteq Numbers(toServer, "request") \cup {n}
  BY <1>3, <1>4, <1>5, NumbersAppend
<1>7. \A k \in Answered \cup Numbers(toEditor, "response") \cup Numbers(toServer, "request") :
        k \in 1..Len(asked) /\ k < n
  BY <1>1 DEF Ordered
<1>8. Increasing(toServer', "request")
  BY <1>3, <1>4, <1>5, <1>7, IncreasingAppend DEF Ordered
<1>9. Answered' = Answered /\ Numbers(toEditor, "response")' = Numbers(toEditor, "response")
      /\ Increasing(toEditor, "response")' = Increasing(toEditor, "response")
  BY <1>4 DEF Answered
<1> QED
  BY <1>1, <1>4, <1>6, <1>7, <1>8, <1>9 DEF Ordered

LEMMA ReceiveResponseOrdered ==
  ASSUME TypeOK, Ordered, toEditor # << >>, Head(toEditor).type = "response",
         toEditor' = Tail(toEditor),
         answers' = Append(answers, [id |-> Head(toEditor).id, answer |-> Head(toEditor).answer]),
         UNCHANGED <<asked, toServer>>
  PROVE  Ordered'
<1> DEFINE n == Head(toEditor).id
           entry == [id |-> n, answer |-> Head(toEditor).answer]
<1>1. toEditor \in Seq(ToEditor) /\ answers \in Seq([id : Ids, answer : Answer])
  BY DEF TypeOK
<1>2. /\ Numbers(toEditor', "response") \subseteq Numbers(toEditor, "response")
      /\ n \in Numbers(toEditor, "response")
      /\ Increasing(toEditor', "response")
      /\ \A r \in Numbers(toEditor', "response") : n < r
  BY <1>1, NumbersTail DEF Ordered
<1>3. entry \in [id : Ids, answer : Answer] /\ entry.id = n
  <2>1. Head(toEditor) \in ToEditor
    BY <1>1, HeadTailProperties
  <2> QED
    BY <2>1 DEF ToEditor
<1> HIDE DEF entry
<1>4. /\ Len(answers) \in Nat /\ Len(answers') = Len(answers) + 1
      /\ answers'[Len(answers) + 1] = entry
      /\ \A i \in 1..Len(answers) : answers'[i] = answers[i]
  BY <1>1, <1>3, LenProperties, AppendProperties DEF entry
<1>5. Answered' \subseteq Answered \cup {n}
  BY <1>3, <1>4, SMT DEF Answered
<1>6. ASSUME NEW i \in 1..Len(answers'), NEW j \in 1..Len(answers'), i < j
      PROVE  answers'[i].id < answers'[j].id
  <2>1. i \in 1..Len(answers) /\ answers'[i] = answers[i] /\ answers[i].id \in Answered
    BY <1>4, <1>6, SMT DEF Answered
  <2>2. CASE j \in 1..Len(answers)
    BY <1>4, <1>6, <2>1, <2>2 DEF Ordered
  <2>3. CASE j = Len(answers) + 1
    BY <1>2, <1>3, <1>4, <2>1, <2>3 DEF Ordered
  <2> QED
    BY <1>4, <2>2, <2>3, SMT
<1>7. Increasing(toServer, "request")' /\ Numbers(toServer, "request")' = Numbers(toServer, "request")
  BY DEF Ordered
<1> HIDE DEF n
<1>8. Answered' \cup Numbers(toEditor, "response")' \cup Numbers(toServer, "request")'
        \subseteq 1..Len(asked')
  BY <1>2, <1>5, <1>7 DEF Ordered
<1>9. \A a \in Answered' : \A r \in Numbers(toEditor, "response")' : a < r
  BY <1>2, <1>5 DEF Ordered
<1>10. \A a \in Answered' : \A q \in Numbers(toServer, "request")' : a < q
  BY <1>2, <1>5, <1>7 DEF Ordered
<1>11. \A r \in Numbers(toEditor, "response")' : \A q \in Numbers(toServer, "request")' : r < q
  BY <1>2, <1>7 DEF Ordered
<1> QED
  BY <1>2, <1>6, <1>7, <1>8, <1>9, <1>10, <1>11 DEF Ordered

LEMMA HandleRequestOrdered ==
  ASSUME TypeOK, Ordered, HandleRequest
  PROVE  Ordered'
<1> DEFINE m == Head(toServer)
           n == m.id
           response == [type |-> "response", id |-> n, answer |-> AnswerTo(m.method, m.file)]
<1>1. m \in ToServer /\ m.type = "request" /\ toServer' = Tail(toServer) /\ toServer # << >>
  BY TakeType DEF HandleRequest
<1>2. n \in Ids /\ m.method \in Methods /\ m.file \in Files
  BY <1>1 DEF ToServer
<1>3. response \in ToEditor /\ response.type = "response" /\ response.id = n
  BY <1>2, ResponseType
<1>4. toEditor' = toEditor \/ toEditor' = Append(toEditor, response)
  BY DEF HandleRequest, Send
<1> HIDE DEF response
<1>5. toServer \in Seq(ToServer) /\ toEditor \in Seq(ToEditor) /\ UNCHANGED <<asked, answers>>
  BY DEF TypeOK, HandleRequest, editorVars
<1>6. /\ Numbers(toServer', "request") \subseteq Numbers(toServer, "request")
      /\ n \in Numbers(toServer, "request")
      /\ Increasing(toServer', "request")
      /\ \A q \in Numbers(toServer', "request") : n < q
  BY <1>1, <1>5, NumbersTail DEF Ordered
<1>7. Numbers(toEditor', "response") \subseteq Numbers(toEditor, "response") \cup {n}
  BY <1>3, <1>4, <1>5, NumbersAppend
<1>8. Increasing(toEditor', "response")
  <2>1. \A r \in Numbers(toEditor, "response") : r < n
    BY <1>6 DEF Ordered
  <2> QED
    BY <1>3, <1>4, <1>5, <2>1, IncreasingAppend DEF Ordered
<1>9. Answered' = Answered
  BY <1>5 DEF Answered
<1> HIDE DEF n
<1> QED
  BY <1>5, <1>6, <1>7, <1>8, <1>9 DEF Ordered

LEMMA ReceiveOrdered ==
  ASSUME TypeOK, Ordered, Receive
  PROVE  Ordered'
<1> DEFINE m == Head(toEditor)
<1>1. toEditor \in Seq(ToEditor) /\ toEditor # << >> /\ toEditor' = Tail(toEditor) /\ asked' = asked
  BY DEF TypeOK, Receive
<1>2. NothingNew(toEditor, toEditor', "response")
  BY <1>1, NumbersTail DEF Ordered, NothingNew
<1>3. CASE /\ m.type = "response"
           /\ answers' = Append(answers, [id |-> m.id, answer |-> m.answer])
           /\ UNCHANGED <<shown, editor, toServer>>
  BY <1>1, <1>3, ReceiveResponseOrdered
<1>4. CASE UNCHANGED <<answers, editor, toServer>>
  BY <1>1, <1>2, <1>4, UnchangedNothingNew, OrderedKept
<1>5. CASE Tell([type |-> "exit"]) /\ UNCHANGED <<answers, shown>>
  <2> DEFINE e == [type |-> "exit"]
  <2>1. e \in ToServer /\ e.type # "request"
    BY DEF ToServer
  <2>2. Tell(e)
    BY <1>5
  <2> HIDE DEF e
  <2>3. NothingNew(toServer, toServer', "request")
    BY <2>1, <2>2, TellNothingNew
  <2> QED
    BY <1>1, <1>2, <1>5, <2>3, OrderedKept
<1> QED
  BY <1>3, <1>4, <1>5 DEF Receive

\* What Restart sends are no requests, and what was under way to the editor is lost.
LEMMA RestartOrdered ==
  ASSUME TypeOK, Ordered, Restart
  PROVE  Ordered'
<1>1. \A i \in 1..Len(toServer') : toServer'[i].type # "request"
  <2>1. PICK open \in [1..Len(toServer') -> Files] :
          \A i \in 1..Len(toServer') :
            toServer'[i] = [type |-> "didOpen", file |-> open[i], text |-> buffer[open[i]]]
    BY RestartOpens
  <2> SUFFICES ASSUME NEW i \in 1..Len(toServer') PROVE toServer'[i].type # "request"
    OBVIOUS
  <2>2. toServer'[i] = [type |-> "didOpen", file |-> open[i], text |-> buffer[open[i]]]
    BY <2>1
  <2> QED
    BY <2>2
<1>2. NothingNew(toServer, toServer', "request")
  BY <1>1 DEF NothingNew, Increasing, Numbers
<1>3. NothingNew(toEditor, toEditor', "response")
  <2>1. toEditor' = << >> /\ Len(toEditor') = 0
    BY EmptySeq DEF Restart
  <2>2. 1..Len(toEditor') = {}
    BY <2>1, SMT
  <2> QED
    BY <2>2 DEF NothingNew, Increasing, Numbers
<1>4. UNCHANGED <<answers, asked>>
  BY DEF Restart, editorVars
<1> QED
  BY <1>2, <1>3, <1>4, OrderedKept

LEMMA EditorKeepsOrder ==
  ASSUME TypeOK, Ordered, EditorNext
  PROVE  Ordered'
<1>1. ASSUME NEW m \in ToServer, m.type # "request", Tell(m), UNCHANGED <<answers, asked, toEditor>>
      PROVE  Ordered'
  BY <1>1, TellNothingNew, UnchangedNothingNew, OrderedKept
<1>2. ASSUME NEW f \in Files, Open(f) PROVE Ordered'
  <2> DEFINE m == [type |-> "didOpen", file |-> f, text |-> disk[f]]
  <2>1. m \in ToServer /\ m.type # "request"
    BY DEF TypeOK, ToServer
  <2>2. Tell(m) /\ UNCHANGED <<answers, asked, toEditor>>
    BY <1>2 DEF Open
  <2> HIDE DEF m
  <2> QED
    BY <1>1, <2>1, <2>2
<1>3. ASSUME NEW f \in Files, Edit(f) PROVE Ordered'
  <2> DEFINE m == [type |-> "didChange", file |-> f, text |-> edited[f] + 1]
  <2>1. m \in ToServer /\ m.type # "request"
    <3>1. edited[f] + 1 \in Versions
      BY <1>3, LspAssumption DEF Edit, TypeOK, Versions
    <3> QED
      BY <3>1 DEF ToServer
  <2>2. Tell(m) /\ UNCHANGED <<answers, asked, toEditor>>
    BY <1>3 DEF Edit
  <2> HIDE DEF m
  <2> QED
    BY <1>1, <2>1, <2>2
<1>4. ASSUME NEW f \in Files, NEW type \in {"didSave", "didClose"},
             Tell([type |-> type, file |-> f]), UNCHANGED <<answers, asked, toEditor>>
      PROVE  Ordered'
  <2> DEFINE m == [type |-> type, file |-> f]
  <2>1. m \in ToServer /\ m.type # "request"
    BY DEF ToServer
  <2>2. Tell(m)
    BY <1>4
  <2> HIDE DEF m
  <2> QED
    BY <1>1, <1>4, <2>1, <2>2
<1>5. ASSUME NEW f \in Files, Save(f) \/ Close(f) PROVE Ordered'
  BY <1>4, <1>5 DEF Save, Close
<1>6. ASSUME NEW m \in Methods, NEW f \in Files, NEW ok \in BOOLEAN, Ask(m, f, ok) PROVE Ordered'
  BY <1>6, AskOrdered
<1>7. CASE Shutdown
  <2> DEFINE m == [type |-> "shutdown"]
  <2>1. m \in ToServer /\ m.type # "request"
    BY DEF ToServer
  <2>2. Tell(m) /\ UNCHANGED <<answers, asked, toEditor>>
    BY <1>7 DEF Shutdown
  <2> HIDE DEF m
  <2> QED
    BY <1>1, <2>1, <2>2
<1>8. CASE Vanish
  BY <1>8, UnchangedNothingNew, OrderedKept DEF Vanish
<1> QED
  BY <1>2, <1>3, <1>5, <1>6, <1>7, <1>8, ReceiveOrdered, RestartOrdered DEF EditorNext

LEMMA ServerKeepsOrder ==
  ASSUME IInv, Ordered, ServerNext
  PROVE  Ordered'
<1>0. TypeOK
  BY DEF IInv
<1> DEFINE m == Head(toServer)
<1>1. ASSUME NEW type, Take(type), UNCHANGED <<answers, asked>>,
             NothingNew(toEditor, toEditor', "response")
      PROVE  Ordered'
  BY <1>0, <1>1, TakeType, TakeNothingNew, OrderedKept
<1>2. ASSUME NEW type \in {"didOpen", "didChange"}, Take(type), PublishDiagnostics(m.file, m.text)
      PROVE  NothingNew(toEditor, toEditor', "response")
  <2>1. m.file \in Files /\ m.text \in Versions
    <3>1. m \in ToServer /\ m.type = type
      BY <1>0, <1>2, TakeType
    <3> QED
      BY <3>1 DEF ToServer
  <2>2. CASE toEditor' = toEditor
    BY <2>2, UnchangedNothingNew
  <2>3. ASSUME NEW d \in Diagnostics,
               Send([type |-> "publishDiagnostics", file |-> m.file, diagnostics |-> d])
        PROVE  NothingNew(toEditor, toEditor', "response")
    <3> DEFINE p == [type |-> "publishDiagnostics", file |-> m.file, diagnostics |-> d]
    <3>1. p \in ToEditor /\ p.type # "response"
      BY <2>1 DEF ToEditor
    <3>2. Send(p)
      BY <2>3
    <3> HIDE DEF p
    <3> QED
      BY <1>0, <3>1, <3>2, SendNothingNew
  <2> QED
    BY <1>0, <1>2, <2>1, <2>2, <2>3, PublishSends
<1>3. CASE DidOpen \/ DidChange
  BY <1>1, <1>2, <1>3 DEF DidOpen, DidChange, editorVars
<1>4. CASE DidClose \/ IgnoreNotification \/ RejectRequest \/ CrashInRequest
  BY <1>1, <1>4, UnchangedNothingNew
     DEF DidClose, IgnoreNotification, RejectRequest, CrashInRequest, editorVars
<1>5. CASE HandleRequest
  BY <1>0, <1>5, HandleRequestOrdered
<1>6. CASE HandleShutdown
  <2> DEFINE r == [type |-> "shutdownResponse"]
  <2>1. r \in ToEditor /\ r.type # "response"
    BY DEF ToEditor
  <2>2. Send(r) /\ Take("shutdown") /\ UNCHANGED <<answers, asked>>
    BY <1>6 DEF HandleShutdown, editorVars
  <2> HIDE DEF r
  <2> QED
    BY <1>0, <1>1, <2>1, <2>2, SendNothingNew
<1>7. CASE FinishShutdown
  <2>1. /\ toServer' = toServer \/ (toServer # << >> /\ toServer' = Tail(toServer))
        /\ toEditor' = toEditor /\ UNCHANGED <<answers, asked>>
    BY <1>7 DEF FinishShutdown, editorVars
  <2> QED
    BY <1>0, <2>1, TakeNothingNew, UnchangedNothingNew, OrderedKept
<1>8. CASE Disconnected
  BY <1>8, UnchangedNothingNew, OrderedKept DEF Disconnected, editorVars
<1> QED
  BY <1>3, <1>4, <1>5, <1>6, <1>7, <1>8 DEF ServerNext

LEMMA OrderInvariant == Spec => [](IInv /\ Ordered)
<1>1. Init => Ordered
  <2> SUFFICES ASSUME Init PROVE Ordered
    OBVIOUS
  <2>1. Len(toServer) = 0 /\ Len(toEditor) = 0 /\ Len(answers) = 0
    BY EmptySeq DEF Init
  <2>2. 1..Len(toServer) = {} /\ 1..Len(toEditor) = {} /\ 1..Len(answers) = {}
    BY <2>1, SMT
  <2> QED
    BY <2>2 DEF Ordered, Numbers, Increasing, Answered
<1>2. IInv /\ Ordered /\ [Next]_vars => Ordered'
  <2> SUFFICES ASSUME IInv, Ordered, [Next]_vars PROVE Ordered'
    OBVIOUS
  <2>1. CASE UNCHANGED vars
    BY <2>1, UnchangedNothingNew, OrderedKept DEF vars, editorVars
  <2> QED
    BY <2>1, EditorKeepsOrder, ServerKeepsOrder DEF Next, IInv
<1> QED
  BY <1>1, <1>2, Inductive, PTL DEF Spec

\* run handles one message at a time and the channels keep the order, so the responses come
\* back in the order of the requests and never twice, for any number of requests and methods,
\* whatever requests were lost with a crash.
THEOREM AnswersOrdered == Spec => []AnswersInOrder
<1>1. IInv /\ Ordered => AnswersInOrder
  <2> SUFFICES ASSUME IInv, Ordered PROVE AnswersInOrder
    OBVIOUS
  <2>1. DOMAIN answers = 1..Len(answers)
    BY LenProperties DEF IInv, TypeOK
  <2> QED
    BY <2>1 DEF Ordered, AnswersInOrder
<1> QED
  BY <1>1, OrderInvariant, PTL

-----------------------------------------------------------------------------
(* The text an answer was computed from *)

\* A didChange finds its document open.
LEMMA ChangedIsOpen ==
  ASSUME IInv, Take("didChange")
  PROVE  documents[Head(toServer).file] # None
<1> DEFINE m == Head(toServer)
<1>1. /\ toServer \in Seq(ToServer) /\ toServer # << >> /\ m.type = "didChange"
      /\ InStep(documents, toServer, buffer)
  BY TakeType DEF IInv, TypeOK, Take
<1>2. 1 \in 1..Len(toServer) /\ m = toServer[1]
  BY <1>1, EmptySeq
<1>3. PICK text \in Versions : HasText(documents, toServer, m.file, 1 - 1, text)
  BY <1>1, <1>2 DEF InStep
<1>4. documents[m.file] = text
  BY <1>3 DEF HasText
<1> QED
  BY <1>3, <1>4, LspAssumption DEF Versions

\* Every handler that leaves the server running took the first message and did to the documents
\* what it says.
LEMMA HandlersSync ==
  ASSUME IInv, ServerNext, server' = "running"
  PROVE  /\ server = "running" /\ toServer \in Seq(ToServer) /\ toServer # << >>
         /\ toServer' = Tail(toServer)
         /\ \A f \in Files : Syncs(Head(toServer), f) => documents'[f] = TextAfter(Head(toServer))
         /\ \A f \in Files : ~Syncs(Head(toServer), f) => documents'[f] = documents[f]
<1> DEFINE m == Head(toServer)
<1>0. TypeOK /\ documents \in [Files -> MaybeVersion]
  BY DEF IInv, TypeOK
<1>1. PICK type : Take(type)
  BY DEF ServerNext, DidOpen, DidChange, DidClose, IgnoreNotification, HandleRequest, RejectRequest,
         CrashInRequest, HandleShutdown, FinishShutdown, Disconnected
<1>2. /\ server = "running" /\ toServer \in Seq(ToServer) /\ toServer # << >>
      /\ toServer' = Tail(toServer) /\ m \in ToServer /\ m.type = type
  BY <1>0, <1>1, TakeType DEF TypeOK
<1>3. CASE DidOpen \/ DidChange
  <2>1. m.type \in {"didOpen", "didChange"} /\ documents' = [documents EXCEPT ![m.file] = m.text]
    BY <1>3, ChangedIsOpen DEF DidOpen, DidChange, Take
  <2> QED
    BY <1>0, <1>2, <2>1 DEF Syncs, TextAfter
<1>4. CASE DidClose
  <2>1. m.type = "didClose" /\ documents' = [documents EXCEPT ![m.file] = None]
    BY <1>4 DEF DidClose, Take
  <2> QED
    BY <1>0, <1>2, <2>1 DEF Syncs, TextAfter
<1>5. CASE IgnoreNotification \/ HandleRequest \/ RejectRequest
  <2>1. m.type \in {"didSave", "request"} /\ documents' = documents
    BY <1>5 DEF IgnoreNotification, HandleRequest, RejectRequest, Take, serverVars
  <2> QED
    BY <1>2, <2>1 DEF Syncs
<1> QED
  BY <1>2, <1>3, <1>4, <1>5
     DEF ServerNext, CrashInRequest, HandleShutdown, FinishShutdown, Disconnected

\* Requests under way have numbers of requests that were asked.
LEMMA NumbersAreAsked ==
  ASSUME Ordered
  PROVE  /\ \A i \in 1..Len(toServer) :
              toServer[i].type = "request" => toServer[i].id \in 1..Len(asked)
         /\ \A i \in 1..Len(toEditor) :
              toEditor[i].type = "response" => toEditor[i].id \in 1..Len(asked)
         /\ \A i \in 1..Len(answers) : answers[i].id \in 1..Len(asked)
<1>1. \A i \in 1..Len(toServer) :
        toServer[i].type = "request" => toServer[i].id \in Numbers(toServer, "request")
  BY DEF Numbers
<1>2. \A i \in 1..Len(toEditor) :
        toEditor[i].type = "response" => toEditor[i].id \in Numbers(toEditor, "response")
  BY DEF Numbers
<1>3. \A i \in 1..Len(answers) : answers[i].id \in Answered
  BY DEF Answered
<1> QED
  BY <1>1, <1>2, <1>3 DEF Ordered

\* A message that is no request is appended.
LEMMA TellKeepsAsked ==
  ASSUME TypeOK, AnswersInv, NEW m \in ToServer, m.type # "request", Tell(m),
         UNCHANGED <<documents, server, asked>>
  PROVE  server' = "running" => AskedInStep(toServer)'
<1> SUFFICES ASSUME server = "running" PROVE AskedInStep(toServer)'
  OBVIOUS
<1>1. toServer \in Seq(ToServer) /\ toServer' = Append(toServer, m) /\ AskedInStep(toServer)
  BY DEF TypeOK, Tell, AnswersInv
<1>2. /\ Len(toServer) \in Nat /\ Len(toServer') = Len(toServer) + 1
      /\ toServer'[Len(toServer) + 1] = m
      /\ \A i \in 1..Len(toServer) : toServer'[i] = toServer[i]
  BY <1>1, LenProperties
<1>3. ASSUME NEW i \in 1..Len(toServer'), toServer'[i].type = "request"
      PROVE  LET q == asked[toServer'[i].id]
             IN /\ q.method = toServer'[i].method /\ q.file = toServer'[i].file
                /\ \A f \in Files : HasText(documents, toServer', f, i - 1, q.buffer[f])
  <2>1. i \in 1..Len(toServer) /\ toServer'[i] = toServer[i] /\ i - 1 \in 0..Len(toServer)
    BY <1>2, <1>3, SMT
  <2> DEFINE q == asked[toServer[i].id]
  <2>2. /\ q.method = toServer[i].method /\ q.file = toServer[i].file
        /\ \A f \in Files : HasText(documents, toServer, f, i - 1, q.buffer[f])
    BY <1>1, <1>3, <2>1 DEF AskedInStep
  <2> HIDE DEF q
  <2>3. \A f \in Files : HasText(documents, toServer', f, i - 1, q.buffer[f])
    BY <1>1, <2>1, <2>2, AppendKeepsText
  <2> QED
    BY <2>1, <2>2, <2>3 DEF q
<1> QED
  BY <1>3 DEF AskedInStep

\* A request that is asked is told the texts of now.
LEMMA AskKeepsAsked ==
  ASSUME IInv, Ordered, AnswersInv, NEW m \in Methods, NEW file \in Files, NEW ok \in BOOLEAN,
         Ask(m, file, ok)
  PROVE  /\ AskedInStep(toServer)'
         /\ \A k \in 1..Len(asked) : asked'[k] = asked[k]
<1> DEFINE n == Len(asked) + 1
           question == [method |-> m, file |-> file, ok |-> ok, epoch |-> restarts, buffer |-> buffer]
           request == [type |-> "request", id |-> n, method |-> m, file |-> file, ok |-> ok]
           Q == [method : Methods, file : Files, ok : BOOLEAN, epoch : 0..MaxRestarts,
                 buffer : [Files -> MaybeVersion]]
<1>0. TypeOK /\ server = "running" /\ InStep(documents, toServer, buffer) /\ AskedInStep(toServer)
  BY DEF IInv, Ask, AnswersInv
<1>1. Len(asked) \in Nat /\ asked \in Seq(Q) /\ question \in Q
  BY <1>0, LenProperties DEF TypeOK
<1>2. n \in Ids
  BY <1>1, LspAssumption DEF Ask, Ids
<1>3. request \in ToServer /\ request.type = "request" /\ request.id = n
      /\ request.method = m /\ request.file = file
  BY <1>2 DEF ToServer
<1>4. question.method = m /\ question.file = file /\ question.buffer = buffer
  OBVIOUS
<1>5. /\ toServer' = Append(toServer, request) /\ asked' = Append(asked, question)
      /\ documents' = documents
  BY DEF Ask, Tell, serverVars
<1> HIDE DEF request, question, Q
<1>6. asked'[n] = question /\ \A k \in 1..Len(asked) : asked'[k] = asked[k]
  BY <1>1, <1>5, LenProperties
<1> HIDE DEF n
<1>7. toServer \in Seq(ToServer)
  BY <1>0 DEF TypeOK
<1>8. /\ Len(toServer) \in Nat /\ Len(toServer') = Len(toServer) + 1
      /\ toServer'[Len(toServer) + 1] = request
      /\ \A i \in 1..Len(toServer) : toServer'[i] = toServer[i]
  BY <1>3, <1>5, <1>7, LenProperties
<1>9. ASSUME NEW i \in 1..Len(toServer'), toServer'[i].type = "request"
      PROVE  LET q == asked'[toServer'[i].id]
             IN /\ q.method = toServer'[i].method /\ q.file = toServer'[i].file
                /\ \A f \in Files : HasText(documents, toServer', f, i - 1, q.buffer[f])
  <2>1. CASE i \in 1..Len(toServer)
    <3>1. toServer'[i] = toServer[i] /\ i - 1 \in 0..Len(toServer)
      BY <1>8, <2>1, SMT
    <3> DEFINE q == asked[toServer[i].id]
    <3>2. /\ q.method = toServer[i].method /\ q.file = toServer[i].file
          /\ \A f \in Files : HasText(documents, toServer, f, i - 1, q.buffer[f])
      BY <1>0, <1>9, <2>1, <3>1 DEF AskedInStep
    <3>3. asked'[toServer[i].id] = q
      BY <1>6, <1>9, <2>1, <3>1, NumbersAreAsked
    <3> HIDE DEF q
    <3>4. \A f \in Files : HasText(documents, toServer', f, i - 1, q.buffer[f])
      BY <1>3, <1>5, <1>7, <3>1, <3>2, AppendKeepsText
    <3> QED
      BY <3>1, <3>2, <3>3, <3>4
  <2>2. CASE i = Len(toServer) + 1
    <3>1. toServer'[i] = request /\ i - 1 = Len(toServer) /\ Len(toServer) \in 0..Len(toServer)
      BY <1>8, <2>2, SMT
    <3>2. \A f \in Files : HasText(documents, toServer, f, Len(toServer), buffer[f])
      BY <1>0 DEF InStep
    <3>3. \A f \in Files : HasText(documents, toServer', f, Len(toServer), buffer[f])
      BY <1>3, <1>5, <1>7, <3>1, <3>2, AppendKeepsText
    <3> QED
      BY <1>3, <1>4, <1>6, <3>1, <3>3
  <2> QED
    BY <1>8, <2>1, <2>2, SMT
<1> QED
  BY <1>5, <1>6, <1>9 DEF AskedInStep

\* The server takes a message: the rest of the queue stays in step.
LEMMA HandlersKeepAsked ==
  ASSUME IInv, AnswersInv, ServerNext, server' = "running", asked' = asked
  PROVE  AskedInStep(toServer)'
<1>1. /\ server = "running" /\ toServer \in Seq(ToServer) /\ toServer # << >>
      /\ toServer' = Tail(toServer)
      /\ \A f \in Files : Syncs(Head(toServer), f) => documents'[f] = TextAfter(Head(toServer))
      /\ \A f \in Files : ~Syncs(Head(toServer), f) => documents'[f] = documents[f]
  BY HandlersSync
<1>2. /\ Len(toServer) \in Nat /\ Len(toServer) >= 1 /\ Len(toServer') = Len(toServer) - 1
      /\ \A i \in 1..Len(toServer') : toServer'[i] = toServer[i + 1]
  BY <1>1, LenProperties, HeadTailProperties, EmptySeq
<1>3. AskedInStep(toServer)
  BY <1>1 DEF AnswersInv
<1>4. ASSUME NEW i \in 1..Len(toServer'), toServer'[i].type = "request"
      PROVE  LET q == asked[toServer'[i].id]
             IN /\ q.method = toServer'[i].method /\ q.file = toServer'[i].file
                /\ \A f \in Files : HasText(documents', toServer', f, i - 1, q.buffer[f])
  <2>1. /\ toServer'[i] = toServer[i + 1] /\ i + 1 \in 1..Len(toServer) /\ (i + 1) - 1 = i
        /\ i \in 1..Len(toServer)
    BY <1>2, SMT
  <2> DEFINE q == asked[toServer[i + 1].id]
  <2>2. /\ q.method = toServer[i + 1].method /\ q.file = toServer[i + 1].file
        /\ \A f \in Files : HasText(documents, toServer, f, (i + 1) - 1, q.buffer[f])
    BY <1>3, <1>4, <2>1 DEF AskedInStep
  <2> HIDE DEF q
  <2>3. ASSUME NEW f \in Files PROVE HasText(documents', toServer', f, i - 1, q.buffer[f])
    <3>1. HasText(documents, toServer, f, i, q.buffer[f])
      BY <2>1, <2>2
    <3> QED
      BY <1>1, <2>1, <3>1, HandlingShiftsText
  <2> QED
    BY <2>1, <2>2, <2>3 DEF q
<1> QED
  BY <1>4 DEF AskedInStep

\* Responses stay current while nothing but requests is asked.
LEMMA ResponsesKept ==
  ASSUME TypeOK, Ordered, ResponsesCurrent,
         \A k \in 1..Len(asked) : asked'[k] = asked[k],
         \/ toEditor' = toEditor
         \/ toEditor # << >> /\ toEditor' = Tail(toEditor)
         \/ \E m \in ToEditor : /\ toEditor' = Append(toEditor, m)
                                /\ m.type = "response" => Current(asked'[m.id], m.answer)
  PROVE  ResponsesCurrent'
<1>1. toEditor \in Seq(ToEditor) /\ Len(toEditor) \in Nat
  BY LenProperties DEF TypeOK
<1>2. \A i \in 1..Len(toEditor) : toEditor[i].type = "response" =>
        Current(asked'[toEditor[i].id], toEditor[i].answer)
  BY NumbersAreAsked DEF ResponsesCurrent
<1>3. CASE toEditor' = toEditor
  BY <1>2, <1>3 DEF ResponsesCurrent, Current
<1>4. CASE toEditor # << >> /\ toEditor' = Tail(toEditor)
  <2>1. /\ Len(toEditor') = Len(toEditor) - 1
        /\ \A i \in 1..Len(toEditor') : toEditor'[i] = toEditor[i + 1]
    BY <1>1, <1>4, HeadTailProperties
  <2>2. \A i \in 1..Len(toEditor') : i + 1 \in 1..Len(toEditor)
    BY <1>1, <2>1, SMT
  <2> QED
    BY <1>2, <2>1, <2>2 DEF ResponsesCurrent, Current
<1>5. ASSUME NEW m \in ToEditor, toEditor' = Append(toEditor, m),
             m.type = "response" => Current(asked'[m.id], m.answer)
      PROVE  ResponsesCurrent'
  <2>1. /\ Len(toEditor') = Len(toEditor) + 1 /\ toEditor'[Len(toEditor) + 1] = m
        /\ \A i \in 1..Len(toEditor) : toEditor'[i] = toEditor[i]
    BY <1>1, <1>5, LenProperties
  <2>2. ASSUME NEW i \in 1..Len(toEditor'), toEditor'[i].type = "response"
        PROVE  Current(asked'[toEditor'[i].id], toEditor'[i].answer)
    <3>1. CASE i \in 1..Len(toEditor)
      <4>1. toEditor'[i] = toEditor[i]
        BY <2>1, <3>1
      <4> QED
        BY <1>2, <2>2, <3>1, <4>1
    <3>2. CASE i = Len(toEditor) + 1
      <4>1. toEditor'[i] = m
        BY <2>1, <3>2
      <4> QED
        BY <1>5, <2>2, <4>1
    <3> QED
      BY <1>1, <2>1, <3>1, <3>2, SMT
  <2> QED
    BY <2>2 DEF ResponsesCurrent, Current
<1> QED
  BY <1>3, <1>4, <1>5

\* handle_request: what the handlers read is what the editor had when it asked.
LEMMA AnswerIsCurrent ==
  ASSUME IInv, AnswersInv, Take("request")
  PROVE  LET m == Head(toServer) IN Current(asked[m.id], AnswerTo(m.method, m.file))
<1> DEFINE m == Head(toServer)
           q == asked[m.id]
           a == AnswerTo(m.method, m.file)
<1>1. /\ toServer \in Seq(ToServer) /\ toServer # << >> /\ server = "running"
      /\ m \in ToServer /\ m.type = "request"
  BY TakeType DEF IInv, TypeOK
<1>2. 1 \in 1..Len(toServer) /\ m = toServer[1]
  BY <1>1, EmptySeq
<1>3. /\ q.method = m.method /\ q.file = m.file
      /\ \A f \in Files : HasText(documents, toServer, f, 1 - 1, q.buffer[f])
  BY <1>1, <1>2 DEF AnswersInv, AskedInStep
<1>4. \A f \in Files : documents[f] = q.buffer[f]
  BY <1>3 DEF HasText
<1>5. m.file \in Files /\ m.method \in Methods
  BY <1>1 DEF ToServer
<1>6. m.method \in BufferMethods \cup BothMethods => a.doc = documents[m.file]
  BY DEF AnswerTo, Null, BufferMethods, AstMethods, BothMethods, StoreMethods
<1>7. m.method \in StoreMethods => a.syms = store
  BY DEF AnswerTo, Null, BufferMethods, AstMethods, BothMethods, StoreMethods
<1>8. a.tu = None \/ a.tu = tu[m.file]
  <2>1. m.method \in BufferMethods \/ m.method \in AstMethods \/ m.method \in BothMethods
          \/ m.method \in StoreMethods \/ m.method \in OtherMethods
    BY <1>5, LspAssumption
  <2> QED
    BY <2>1 DEF AnswerTo, Null, BufferMethods, AstMethods, BothMethods, StoreMethods, OtherMethods
<1> HIDE DEF a, q
<1>9. a.tu # None => q.buffer[q.file] # None
  BY <1>3, <1>4, <1>5, <1>8 DEF IInv, TuOnlyForOpen
<1>10. q.method \in StoreMethods /\ "index" \notin Faults =>
         \A f \in Files : q.buffer[f] # None => a.syms[f] = q.buffer[f]
  BY <1>3, <1>4, <1>7 DEF IInv, StoreFollowsDocuments
<1> QED
  BY <1>3, <1>4, <1>5, <1>6, <1>9, <1>10 DEF Current, a, q

\* Answers that were received stay what they were.
LEMMA AnswersKept ==
  ASSUME Ordered, AnswersInv, answers' = answers, \A k \in 1..Len(asked) : asked'[k] = asked[k]
  PROVE  \A i \in 1..Len(answers') : Current(asked'[answers'[i].id], answers'[i].answer)
<1>1. \A i \in 1..Len(answers) : asked'[answers[i].id] = asked[answers[i].id]
  BY NumbersAreAsked
<1> QED
  BY <1>1 DEF AnswersInv

\* A step that leaves the questions and the channel to the editor alone.
LEMMA AnswersInvKept ==
  ASSUME TypeOK, Ordered, AnswersInv, UNCHANGED <<asked, answers>>,
         \/ toEditor' = toEditor
         \/ \E m \in ToEditor : toEditor' = Append(toEditor, m) /\ m.type # "response",
         server' = "running" => AskedInStep(toServer)'
  PROVE  AnswersInv'
<1>1. ResponsesCurrent'
  BY ResponsesKept DEF AnswersInv
<1>2. \A i \in 1..Len(answers') : Current(asked'[answers'[i].id], answers'[i].answer)
  BY AnswersKept
<1> QED
  BY <1>1, <1>2 DEF AnswersInv, Current

LEMMA ReceiveKeepsAnswers ==
  ASSUME TypeOK, Ordered, AnswersInv, Receive
  PROVE  AnswersInv'
<1> DEFINE m == Head(toEditor)
<1>1. /\ toEditor \in Seq(ToEditor) /\ toEditor # << >> /\ toEditor' = Tail(toEditor)
      /\ asked' = asked /\ documents' = documents /\ server' = server
  BY DEF TypeOK, Receive, serverVars
<1>2. ResponsesCurrent'
  BY <1>1, ResponsesKept DEF AnswersInv
<1>3. server' = "running" => AskedInStep(toServer)'
  <2>1. CASE UNCHANGED toServer
    BY <1>1, <2>1 DEF AnswersInv, AskedInStep
  <2>2. CASE Tell([type |-> "exit"])
    <3> DEFINE e == [type |-> "exit"]
    <3>1. e \in ToServer /\ e.type # "request" /\ Tell(e)
      BY <2>2 DEF ToServer
    <3> HIDE DEF e
    <3> QED
      BY <1>1, <3>1, TellKeepsAsked
  <2> QED
    BY <2>1, <2>2 DEF Receive
<1>4. \A i \in 1..Len(answers') : Current(asked'[answers'[i].id], answers'[i].answer)
  <2>1. CASE answers' = answers
    BY <1>1, <2>1, AnswersKept
  <2>2. CASE m.type = "response" /\ answers' = Append(answers, [id |-> m.id, answer |-> m.answer])
    <3> DEFINE entry == [id |-> m.id, answer |-> m.answer]
    <3>1. entry \in [id : Ids, answer : Answer] /\ entry.id = m.id /\ entry.answer = m.answer
      <4>1. m \in ToEditor
        BY <1>1, HeadTailProperties
      <4> QED
        BY <2>2, <4>1 DEF ToEditor
    <3>2. answers' = Append(answers, entry)
      BY <2>2
    <3> HIDE DEF entry
    <3>3. /\ Len(answers) \in Nat /\ Len(answers') = Len(answers) + 1
          /\ answers'[Len(answers) + 1] = entry
          /\ \A i \in 1..Len(answers) : answers'[i] = answers[i]
      <4>1. answers \in Seq([id : Ids, answer : Answer])
        BY DEF TypeOK
      <4> QED
        BY <3>1, <3>2, <4>1, LenProperties
    <3>4. Current(asked[m.id], m.answer)
      <4>1. 1 \in 1..Len(toEditor) /\ m = toEditor[1]
        BY <1>1, EmptySeq
      <4> QED
        BY <2>2, <4>1 DEF AnswersInv, ResponsesCurrent
    <3>5. ASSUME NEW i \in 1..Len(answers')
          PROVE  Current(asked'[answers'[i].id], answers'[i].answer)
      <4>1. CASE i \in 1..Len(answers)
        BY <1>1, <3>3, <4>1 DEF AnswersInv
      <4>2. CASE i = Len(answers) + 1
        BY <1>1, <3>1, <3>3, <3>4, <4>2
      <4> QED
        BY <3>3, <4>1, <4>2, SMT
    <3> QED
      BY <3>5
  <2> QED
    BY <2>1, <2>2 DEF Receive
<1> QED
  BY <1>2, <1>3, <1>4 DEF AnswersInv, Current

LEMMA RestartKeepsAnswers ==
  ASSUME TypeOK, Ordered, AnswersInv, Restart
  PROVE  AnswersInv'
<1>1. AskedInStep(toServer)'
  <2>1. PICK open \in [1..Len(toServer') -> Files] :
          \A i \in 1..Len(toServer') :
            toServer'[i] = [type |-> "didOpen", file |-> open[i], text |-> buffer[open[i]]]
    BY RestartOpens
  <2>2. ASSUME NEW i \in 1..Len(toServer') PROVE toServer'[i].type # "request"
    <3>1. toServer'[i] = [type |-> "didOpen", file |-> open[i], text |-> buffer[open[i]]]
      BY <2>1
    <3> QED
      BY <3>1
  <2> QED
    BY <2>2 DEF AskedInStep
<1>2. ResponsesCurrent'
  <2>1. toEditor' = << >> /\ Len(toEditor') = 0
    BY EmptySeq DEF Restart
  <2>2. 1..Len(toEditor') = {}
    BY <2>1, SMT
  <2> QED
    BY <2>2 DEF ResponsesCurrent
<1>3. UNCHANGED <<asked, answers>>
  BY DEF Restart, editorVars
<1> QED
  BY <1>1, <1>2, <1>3 DEF AnswersInv, Current

LEMMA EditorKeepsAnswers ==
  ASSUME IInv, Ordered, AnswersInv, EditorNext
  PROVE  AnswersInv'
<1>0. TypeOK
  BY DEF IInv
<1>1. ASSUME NEW m \in ToServer, m.type # "request", Tell(m),
             UNCHANGED <<answers, asked, toEditor, documents, server>>
      PROVE  AnswersInv'
  BY <1>0, <1>1, TellKeepsAsked, AnswersInvKept
<1>2. ASSUME NEW f \in Files, Open(f) PROVE AnswersInv'
  <2> DEFINE m == [type |-> "didOpen", file |-> f, text |-> disk[f]]
  <2>1. m \in ToServer /\ m.type # "request"
    BY <1>0 DEF TypeOK, ToServer
  <2>2. Tell(m) /\ UNCHANGED <<answers, asked, toEditor, documents, server>>
    BY <1>2 DEF Open, serverVars
  <2> HIDE DEF m
  <2> QED
    BY <1>1, <2>1, <2>2
<1>3. ASSUME NEW f \in Files, Edit(f) PROVE AnswersInv'
  <2> DEFINE m == [type |-> "didChange", file |-> f, text |-> edited[f] + 1]
  <2>1. m \in ToServer /\ m.type # "request"
    <3>1. edited[f] + 1 \in Versions
      BY <1>0, <1>3, LspAssumption DEF Edit, TypeOK, Versions
    <3> QED
      BY <3>1 DEF ToServer
  <2>2. Tell(m) /\ UNCHANGED <<answers, asked, toEditor, documents, server>>
    BY <1>3 DEF Edit, serverVars
  <2> HIDE DEF m
  <2> QED
    BY <1>1, <2>1, <2>2
<1>4. ASSUME NEW f \in Files, NEW type \in {"didSave", "didClose"},
             Tell([type |-> type, file |-> f]),
             UNCHANGED <<answers, asked, toEditor, documents, server>>
      PROVE  AnswersInv'
  <2> DEFINE m == [type |-> type, file |-> f]
  <2>1. m \in ToServer /\ m.type # "request"
    BY DEF ToServer
  <2>2. Tell(m)
    BY <1>4
  <2> HIDE DEF m
  <2> QED
    BY <1>1, <1>4, <2>1, <2>2
<1>5. ASSUME NEW f \in Files, Save(f) \/ Close(f) PROVE AnswersInv'
  BY <1>4, <1>5 DEF Save, Close, serverVars
<1>6. ASSUME NEW m \in Methods, NEW f \in Files, NEW ok \in BOOLEAN, Ask(m, f, ok)
      PROVE  AnswersInv'
  <2>1. AskedInStep(toServer)' /\ \A k \in 1..Len(asked) : asked'[k] = asked[k]
    BY <1>6, AskKeepsAsked
  <2>2. ResponsesCurrent'
    BY <1>0, <1>6, <2>1, ResponsesKept DEF Ask, AnswersInv
  <2>3. \A i \in 1..Len(answers') : Current(asked'[answers'[i].id], answers'[i].answer)
    BY <1>6, <2>1, AnswersKept DEF Ask
  <2> QED
    BY <2>1, <2>2, <2>3 DEF AnswersInv, Current
<1>7. CASE Shutdown
  <2> DEFINE m == [type |-> "shutdown"]
  <2>1. m \in ToServer /\ m.type # "request"
    BY DEF ToServer
  <2>2. Tell(m) /\ UNCHANGED <<answers, asked, toEditor, documents, server>>
    BY <1>7 DEF Shutdown, serverVars
  <2> HIDE DEF m
  <2> QED
    BY <1>1, <2>1, <2>2
<1>8. CASE Vanish
  BY <1>8 DEF Vanish, serverVars, AnswersInv, AskedInStep, ResponsesCurrent, Current
<1> QED
  BY <1>0, <1>2, <1>3, <1>5, <1>6, <1>7, <1>8, ReceiveKeepsAnswers, RestartKeepsAnswers DEF EditorNext

LEMMA ServerKeepsAnswers ==
  ASSUME IInv, Ordered, AnswersInv, ServerNext
  PROVE  AnswersInv'
<1> DEFINE m == Head(toServer)
<1>0. TypeOK /\ UNCHANGED <<asked, answers>>
  BY DEF IInv, ServerNext, DidOpen, DidChange, DidClose, IgnoreNotification, HandleRequest,
         RejectRequest, CrashInRequest, HandleShutdown, FinishShutdown, Disconnected, editorVars
<1>1. server' = "running" => AskedInStep(toServer)'
  BY <1>0, HandlersKeepAsked
<1>2. ASSUME NEW r \in ToEditor, Send(r), r.type # "response" PROVE AnswersInv'
  BY <1>0, <1>1, <1>2, AnswersInvKept DEF Send
<1>3. ASSUME NEW type \in {"didOpen", "didChange"}, Take(type), PublishDiagnostics(m.file, m.text)
      PROVE  AnswersInv'
  <2>1. m.file \in Files /\ m.text \in Versions
    <3>1. m \in ToServer /\ m.type = type
      BY <1>0, <1>3, TakeType
    <3> QED
      BY <3>1 DEF ToServer
  <2>2. CASE toEditor' = toEditor
    BY <1>0, <1>1, <2>2, AnswersInvKept
  <2>3. ASSUME NEW d \in Diagnostics,
               Send([type |-> "publishDiagnostics", file |-> m.file, diagnostics |-> d])
        PROVE  AnswersInv'
    <3> DEFINE p == [type |-> "publishDiagnostics", file |-> m.file, diagnostics |-> d]
    <3>1. p \in ToEditor /\ p.type # "response"
      BY <2>1 DEF ToEditor
    <3>2. Send(p)
      BY <2>3
    <3> HIDE DEF p
    <3> QED
      BY <1>2, <3>1, <3>2
  <2> QED
    BY <1>0, <1>3, <2>1, <2>2, <2>3, PublishSends
<1>4. CASE DidOpen \/ DidChange
  BY <1>3, <1>4 DEF DidOpen, DidChange
<1>5. CASE HandleRequest
  <2> DEFINE r == [type |-> "response", id |-> m.id, answer |-> AnswerTo(m.method, m.file)]
  <2>1. Take("request") /\ Send(r)
    BY <1>5 DEF HandleRequest
  <2>2. Current(asked[m.id], AnswerTo(m.method, m.file))
    BY <2>1, AnswerIsCurrent
  <2>3. r \in ToEditor
    <3>1. m \in ToServer /\ m.type = "request"
      BY <1>0, <2>1, TakeType
    <3>2. m.id \in Ids /\ m.method \in Methods /\ m.file \in Files
      BY <3>1 DEF ToServer
    <3> QED
      BY <1>0, <3>2, ResponseType
  <2>4. r.id = m.id /\ r.answer = AnswerTo(m.method, m.file)
    OBVIOUS
  <2> HIDE DEF r
  <2>5. ResponsesCurrent'
    <3>1. toEditor' = toEditor \/ toEditor' = Append(toEditor, r)
      BY <2>1 DEF Send
    <3>2. Current(asked'[r.id], r.answer)
      BY <1>0, <2>2, <2>4
    <3> QED
      BY <1>0, <2>3, <3>1, <3>2, ResponsesKept DEF AnswersInv
  <2>6. \A i \in 1..Len(answers') : Current(asked'[answers'[i].id], answers'[i].answer)
    BY <1>0, AnswersKept
  <2> QED
    BY <1>1, <2>5, <2>6 DEF AnswersInv, Current
<1>6. CASE HandleShutdown
  <2> DEFINE r == [type |-> "shutdownResponse"]
  <2>1. r \in ToEditor /\ r.type # "response"
    BY DEF ToEditor
  <2>2. Send(r)
    BY <1>6 DEF HandleShutdown
  <2> HIDE DEF r
  <2> QED
    BY <1>2, <2>1, <2>2
<1>7. CASE toEditor' = toEditor
  BY <1>0, <1>1, <1>7, AnswersInvKept
<1> QED
  BY <1>4, <1>5, <1>6, <1>7
     DEF ServerNext, DidClose, IgnoreNotification, RejectRequest, CrashInRequest, FinishShutdown,
         Disconnected

LEMMA AnswersInvariant == Spec => [](IInv /\ Ordered /\ AnswersInv)
<1>1. Init => AnswersInv
  <2> SUFFICES ASSUME Init PROVE AnswersInv
    OBVIOUS
  <2>1. Len(toServer) = 0 /\ Len(toEditor) = 0 /\ Len(answers) = 0
    BY EmptySeq DEF Init
  <2>2. 1..Len(toServer) = {} /\ 1..Len(toEditor) = {} /\ 1..Len(answers) = {}
    BY <2>1, SMT
  <2> QED
    BY <2>2 DEF AnswersInv, AskedInStep, ResponsesCurrent
<1>2. IInv /\ Ordered /\ AnswersInv /\ [Next]_vars => AnswersInv'
  <2> SUFFICES ASSUME IInv, Ordered, AnswersInv, [Next]_vars PROVE AnswersInv'
    OBVIOUS
  <2>1. CASE UNCHANGED vars
    BY <2>1 DEF vars, editorVars, serverVars, AnswersInv, AskedInStep, ResponsesCurrent, Current
  <2> QED
    BY <2>1, EditorKeepsAnswers, ServerKeepsAnswers DEF Next
<1> QED
  BY <1>1, <1>2, OrderInvariant, PTL DEF Spec

\* An answer is computed from the text the editor had when it asked, however much was typed
\* and whatever was handled since; a translation unit answers only for a file open then.
THEOREM AnswersFromAskedText == Spec => []AnswersAreCurrent
<1>1. IInv /\ AnswersInv => AnswersAreCurrent
  <2> SUFFICES ASSUME IInv, AnswersInv PROVE AnswersAreCurrent
    OBVIOUS
  <2>1. DOMAIN answers = 1..Len(answers)
    BY LenProperties DEF IInv, TypeOK
  <2> QED
    BY <2>1 DEF AnswersInv, AnswersAreCurrent, Current
<1> QED
  BY <1>1, AnswersInvariant, PTL

-----------------------------------------------------------------------------
(* The diagnostics shown *)

\* Diagnostics that are sent will be shown.
LEMMA SentWillShow ==
  ASSUME NEW S, NEW queue \in Seq(S), NEW m \in S, NEW now, NEW f, NEW right,
         About(m, f), m.diagnostics \in right
  PROVE  WillShow(Append(queue, m), now, f, right)
<1> DEFINE longer == Append(queue, m)
<1>1. /\ Len(queue) \in Nat /\ Len(longer) = Len(queue) + 1 /\ longer[Len(queue) + 1] = m
  BY LenProperties
<1> HIDE DEF longer
<1>2. Len(longer) \in 1..Len(longer)
  BY <1>1, SMT
<1>3. \A i \in 1..Len(longer) : i # Len(longer) => Len(longer) \in (i + 1)..Len(longer)
  BY <1>1, SMT
<1> QED
  BY <1>1, <1>2, <1>3 DEF WillShow, longer

\* What is sent about another file, or about none, does not change what is shown.
LEMMA OtherKeepsShown ==
  ASSUME NEW S, NEW queue \in Seq(S), NEW m \in S, NEW now, NEW f, NEW right,
         ~About(m, f), WillShow(queue, now, f, right)
  PROVE  WillShow(Append(queue, m), now, f, right)
<1> DEFINE longer == Append(queue, m)
<1>1. /\ Len(queue) \in Nat /\ Len(longer) = Len(queue) + 1 /\ longer[Len(queue) + 1] = m
      /\ \A i \in 1..Len(queue) : longer[i] = queue[i]
  BY LenProperties
<1> HIDE DEF longer
<1>2. \A i \in 1..Len(queue) : i \in 1..Len(longer)
  BY <1>1, SMT
<1>3. (\A i \in 1..Len(longer) : ~About(longer[i], f)) => now \in right
  BY <1>1, <1>2 DEF WillShow
<1>4. ASSUME NEW i \in 1..Len(longer), About(longer[i], f),
             \A j \in (i + 1)..Len(longer) : ~About(longer[j], f)
      PROVE  longer[i].diagnostics \in right
  <2>1. i \in 1..Len(queue)
    <3>1. i # Len(queue) + 1
      BY <1>1, <1>4
    <3> QED
      BY <1>1, <3>1, SMT
  <2>2. ASSUME NEW j \in (i + 1)..Len(queue) PROVE ~About(queue[j], f)
    <3>1. j \in 1..Len(queue) /\ j \in (i + 1)..Len(longer)
      BY <1>1, <2>1, SMT
    <3> QED
      BY <1>1, <1>4, <3>1
  <2> QED
    BY <1>1, <1>4, <2>1, <2>2 DEF WillShow
<1> QED
  BY <1>3, <1>4 DEF WillShow, longer

\* Reading the first message changes nothing of what will be shown.
LEMMA ReadingKeepsShown ==
  ASSUME NEW S, NEW queue \in Seq(S), queue # << >>, NEW now, NEW after, NEW f, NEW right,
         WillShow(queue, now, f, right),
         after = IF About(Head(queue), f) THEN Head(queue).diagnostics ELSE now
  PROVE  WillShow(Tail(queue), after, f, right)
<1> DEFINE rest == Tail(queue)
<1>1. /\ Len(queue) \in Nat /\ Len(queue) >= 1 /\ Len(rest) = Len(queue) - 1
      /\ \A i \in 1..Len(rest) : rest[i] = queue[i + 1]
      /\ Head(queue) = queue[1]
  BY LenProperties, HeadTailProperties, EmptySeq
<1> HIDE DEF rest
<1>2. 1 \in 1..Len(queue)
  BY <1>1, SMT
<1>3. ASSUME NEW k \in 1..Len(queue), \A i \in k..Len(rest) : ~About(rest[i], f)
      PROVE  \A j \in (k + 1)..Len(queue) : ~About(queue[j], f)
  <2> SUFFICES ASSUME NEW j \in (k + 1)..Len(queue) PROVE ~About(queue[j], f)
    OBVIOUS
  <2>1. j - 1 \in k..Len(rest) /\ j - 1 \in 1..Len(rest) /\ (j - 1) + 1 = j
    BY <1>1, SMT
  <2> QED
    BY <1>1, <1>3, <2>1
<1>4. ASSUME \A i \in 1..Len(rest) : ~About(rest[i], f) PROVE after \in right
  <2>1. \A j \in (1 + 1)..Len(queue) : ~About(queue[j], f)
    BY <1>2, <1>3, <1>4
  <2>2. \A j \in 1..Len(queue) : j = 1 \/ j \in (1 + 1)..Len(queue)
    BY <1>1, SMT
  <2> QED
    BY <1>1, <1>2, <2>1, <2>2 DEF WillShow
<1>5. ASSUME NEW i \in 1..Len(rest), About(rest[i], f),
             \A j \in (i + 1)..Len(rest) : ~About(rest[j], f)
      PROVE  rest[i].diagnostics \in right
  <2>1. i + 1 \in 1..Len(queue) /\ rest[i] = queue[i + 1]
    BY <1>1, SMT
  <2>2. \A j \in ((i + 1) + 1)..Len(queue) : ~About(queue[j], f)
    BY <1>3, <1>5, <2>1
  <2> QED
    BY <1>5, <2>1, <2>2 DEF WillShow
<1> QED
  BY <1>4, <1>5 DEF WillShow, rest

\* The server knows the same of f as before, and says nothing about f.
LEMMA ShownKept ==
  ASSUME TypeOK, ShownInv, editor' # "left", NEW f \in Files, documents'[f] # None,
         documents'[f] = documents[f], tu'[f] = tu[f], editor # "left", server # "dead",
         shown'[f] = shown[f],
         \/ toEditor' = toEditor
         \/ \E m \in ToEditor : toEditor' = Append(toEditor, m) /\ ~About(m, f)
  PROVE  WillShow(toEditor', shown'[f], f, RightFor(f)')
<1>1. toEditor \in Seq(ToEditor)
  BY DEF TypeOK
<1>2. RightFor(f)' = RightFor(f)
  BY DEF RightFor
<1>3. WillShow(toEditor, shown[f], f, RightFor(f))
  BY DEF ShownInv
<1> HIDE DEF RightFor
<1> QED
  BY <1>1, <1>2, <1>3, OtherKeepsShown

\* The editor's own steps, apart from reading and restarting.
LEMMA EditorKeepsShown ==
  ASSUME TypeOK, ShownInv, EditorNext
  PROVE  ShownInv'
<1>1. ASSUME UNCHANGED <<shown, toEditor, documents, tu, server>>,
             editor' # "left" => editor # "left"
      PROVE  ShownInv'
  BY <1>1 DEF ShownInv, RightFor, WillShow
<1>2. CASE \E f \in Files : Open(f) \/ Edit(f) \/ Save(f) \/ Close(f)
  BY <1>1, <1>2 DEF Open, Edit, Save, Close, serverVars
<1>3. CASE \E m \in Methods, f \in Files, ok \in {TRUE} \cup {"badParams" \notin Faults} : Ask(m, f, ok)
  BY <1>1, <1>3 DEF Ask, serverVars
<1>4. CASE Shutdown \/ Vanish
  BY <1>1, <1>4 DEF Shutdown, Vanish, serverVars
<1>5. CASE Restart
  BY <1>5 DEF Restart, ShownInv
<1>6. CASE Receive
  <2> SUFFICES ASSUME editor' # "left", server' # "dead", NEW f \in Files, documents'[f] # None
               PROVE  WillShow(toEditor', shown'[f], f, RightFor(f)')
    BY DEF ShownInv
  <2> DEFINE m == Head(toEditor)
  <2>1. /\ toEditor \in Seq(ToEditor) /\ toEditor # << >> /\ toEditor' = Tail(toEditor)
        /\ editor # "left" /\ UNCHANGED <<documents, tu, server>>
    BY <1>6 DEF TypeOK, Receive, serverVars
  <2>2. m \in ToEditor
    BY <2>1, HeadTailProperties
  <2>3. shown'[f] = IF About(m, f) THEN m.diagnostics ELSE shown[f]
    <3>1. CASE m.type = "response" /\ UNCHANGED <<shown, editor, toServer>>
      BY <3>1 DEF About
    <3>2. CASE m.type = "publishDiagnostics" /\ shown' = [shown EXCEPT ![m.file] = m.diagnostics]
      BY <3>2 DEF About, TypeOK
    <3> QED
      BY <1>6, <3>1, <3>2 DEF Receive
  <2>4. RightFor(f)' = RightFor(f)
    BY <2>1 DEF RightFor
  <2>5. WillShow(toEditor, shown[f], f, RightFor(f))
    BY <2>1 DEF ShownInv
  <2> HIDE DEF RightFor
  <2> QED
    BY <2>1, <2>3, <2>4, <2>5, ReadingKeepsShown
<1> QED
  BY <1>2, <1>3, <1>4, <1>5, <1>6 DEF EditorNext

LEMMA ServerKeepsShown ==
  ASSUME IInv, ShownInv, ServerNext
  PROVE  ShownInv'
<1> DEFINE m == Head(toServer)
<1>0. TypeOK /\ UNCHANGED <<editor, shown>>
  BY DEF IInv, ServerNext, DidOpen, DidChange, DidClose, IgnoreNotification, HandleRequest,
         RejectRequest, CrashInRequest, HandleShutdown, FinishShutdown, Disconnected, editorVars
<1>0a. server # "dead"
  BY DEF ServerNext, DidOpen, DidChange, DidClose, IgnoreNotification, HandleRequest,
         RejectRequest, CrashInRequest, HandleShutdown, FinishShutdown, Disconnected, Take
<1> SUFFICES ASSUME editor # "left", server' # "dead", NEW f \in Files, documents'[f] # None
             PROVE  WillShow(toEditor', shown'[f], f, RightFor(f)')
  BY <1>0 DEF ShownInv
<1>1. ASSUME UNCHANGED <<documents, tu>>,
             \/ toEditor' = toEditor
             \/ \E r \in ToEditor : toEditor' = Append(toEditor, r) /\ r.type # "publishDiagnostics"
      PROVE  WillShow(toEditor', shown'[f], f, RightFor(f)')
  BY <1>0, <1>1, <1>0a, ShownKept DEF About
<1>2. ASSUME NEW type \in {"didOpen", "didChange"}, Take(type), PublishDiagnostics(m.file, m.text),
             documents' = [documents EXCEPT ![m.file] = m.text]
      PROVE  WillShow(toEditor', shown'[f], f, RightFor(f)')
  <2>1. m.file \in Files /\ m.text \in Versions
    <3>1. m \in ToServer /\ m.type = type
      BY <1>0, <1>2, TakeType
    <3> QED
      BY <3>1 DEF ToServer
  <2>2. PICK d \in Diagnostics :
          /\ Send([type |-> "publishDiagnostics", file |-> m.file, diagnostics |-> d])
          /\ d.compile \in {tu'[m.file], None}
          /\ d.nullability \in {m.text, None}
          /\ EnableNullability /\ "parse" \notin Faults => d.nullability = m.text
    BY <1>0, <1>2, <2>1, PublishSends
  <2> DEFINE p == [type |-> "publishDiagnostics", file |-> m.file, diagnostics |-> d]
  <2>3. p \in ToEditor /\ p.diagnostics = d /\ \A g : About(p, g) <=> g = m.file
    BY <2>1 DEF ToEditor, About
  <2>4. toEditor' = Append(toEditor, p)
    BY <2>2 DEF Send
  <2> HIDE DEF p
  <2>5. CASE f = m.file
    <3>1. documents'[f] = m.text
      BY <1>0, <1>2, <2>1, <2>5 DEF TypeOK
    <3>2. d \in RightFor(f)'
      BY <2>2, <2>5, <3>1 DEF RightFor
    <3>3. toEditor \in Seq(ToEditor)
      BY <1>0 DEF TypeOK
    <3> QED
      BY <2>3, <2>4, <2>5, <3>2, <3>3, SentWillShow
  <2>6. CASE f # m.file
    <3>1. documents'[f] = documents[f]
      BY <1>0, <1>2, <2>1, <2>6 DEF TypeOK
    <3>2. tu'[f] = tu[f]
      <4>1. tu' = tu \/ tu' = [tu EXCEPT ![m.file] = disk[m.file]]
        BY <1>0, <1>2, <2>1, PublishType
      <4> QED
        BY <1>0, <2>6, <4>1 DEF TypeOK
    <3> QED
      BY <1>0, <1>0a, <2>3, <2>4, <2>6, <3>1, <3>2, ShownKept
  <2> QED
    BY <2>5, <2>6
<1>3. CASE DidOpen \/ DidChange
  BY <1>2, <1>3, ChangedIsOpen DEF DidOpen, DidChange
<1>4. CASE DidClose
  <2>1. /\ documents' = [documents EXCEPT ![m.file] = None] /\ tu' = [tu EXCEPT ![m.file] = None]
        /\ toEditor' = toEditor
    BY <1>4 DEF DidClose
  <2>2. f # m.file
    BY <1>0, <2>1 DEF TypeOK
  <2>3. documents'[f] = documents[f] /\ tu'[f] = tu[f]
    BY <1>0, <2>1, <2>2 DEF TypeOK
  <2> QED
    BY <1>0, <1>0a, <2>1, <2>3, ShownKept
<1>5. CASE HandleRequest
  <2> DEFINE r == [type |-> "response", id |-> m.id, answer |-> AnswerTo(m.method, m.file)]
  <2>1. Take("request") /\ Send(r) /\ UNCHANGED <<documents, tu>>
    BY <1>5 DEF HandleRequest, serverVars
  <2>2. r \in ToEditor /\ r.type # "publishDiagnostics"
    <3>1. m \in ToServer /\ m.type = "request"
      BY <1>0, <2>1, TakeType
    <3>2. m.id \in Ids /\ m.method \in Methods /\ m.file \in Files
      BY <3>1 DEF ToServer
    <3> QED
      BY <1>0, <3>2, ResponseType
  <2> HIDE DEF r
  <2> QED
    BY <1>1, <2>1, <2>2 DEF Send
<1>6. CASE HandleShutdown
  <2> DEFINE r == [type |-> "shutdownResponse"]
  <2>1. r \in ToEditor /\ r.type # "publishDiagnostics"
    BY DEF ToEditor
  <2>2. Send(r) /\ UNCHANGED <<documents, tu>>
    BY <1>6 DEF HandleShutdown, serverVars
  <2> HIDE DEF r
  <2> QED
    BY <1>1, <2>1, <2>2 DEF Send
<1>7. CASE UNCHANGED <<documents, tu, toEditor>>
  BY <1>1, <1>7
<1> QED
  BY <1>3, <1>4, <1>5, <1>6, <1>7
     DEF ServerNext, IgnoreNotification, RejectRequest, CrashInRequest, FinishShutdown,
         Disconnected, serverVars

LEMMA ShownInvariant == Spec => [](IInv /\ ShownInv)
<1>1. Init => ShownInv
  BY DEF Init, ShownInv
<1>2. IInv /\ ShownInv /\ [Next]_vars => ShownInv'
  <2> SUFFICES ASSUME IInv, ShownInv, [Next]_vars PROVE ShownInv'
    OBVIOUS
  <2>1. CASE UNCHANGED vars
    BY <2>1 DEF vars, editorVars, serverVars, ShownInv, RightFor, WillShow
  <2> QED
    BY <2>1, EditorKeepsShown, ServerKeepsShown DEF Next, IInv
<1> QED
  BY <1>1, <1>2, Inductive, PTL DEF Spec

\* publish_diagnostics: when nothing is under way, what the editor shows for an open file are
\* the nullability warnings of its text and the compiler's of the translation unit that answers
\* its requests, whatever else was opened, closed, saved or asked in between.
THEOREM ShownAtRest == Spec => []ShownIsCurrent
<1>1. IInv /\ ShownInv => ShownIsCurrent
  <2> SUFFICES ASSUME IInv, ShownInv, AtRest, NEW f \in Files, buffer[f] # None
               PROVE  /\ shown[f] # None
                      /\ shown[f].nullability \in {buffer[f], None}
                      /\ shown[f].compile \in {tu[f], None}
                      /\ EnableNullability /\ "parse" \notin Faults => shown[f].nullability = buffer[f]
    BY DEF ShownIsCurrent
  <2>1. /\ Len(toServer) = 0 /\ Len(toEditor) = 0 /\ server = "running" /\ editor = "up"
    BY EmptySeq DEF AtRest
  <2>2. 1..Len(toServer) = {} /\ 1..Len(toEditor) = {}
    BY <2>1, SMT
  <2>3. documents[f] = buffer[f]
    BY <2>1, <2>2 DEF IInv, InStep, HasText
  <2>4. shown[f] \in RightFor(f)
    BY <2>1, <2>2, <2>3 DEF ShownInv, WillShow
  <2> QED
    BY <2>3, <2>4, NoneAssumption DEF RightFor
<1> QED
  BY <1>1, ShownInvariant, PTL

=============================================================================
