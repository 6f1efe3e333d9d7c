------------------------- MODULE SymbolLookupProofs -------------------------
(***************************************************************************)
(* Theorems about SymbolLookup for every set of well-formed statements,    *)
(* all methods and prefixes, and whatever libclang exposes and binds.      *)
(***************************************************************************)
EXTENDS SymbolLookup, TLAPS, FiniteSetTheorems, WellFoundedInduction

-----------------------------------------------------------------------------
(* The first of several results *)

LEMMA MinIsLeast ==
  ASSUME NEW S, S \subseteq Nat, S # {}
  PROVE  Min(S) \in S /\ \A x \in S : Min(S) <= x
<1> DEFINE Less == {p \in Nat \X Nat : p[1] < p[2]}
<1>1. IsWellFoundedOn(Less, Nat)
  BY NatLessThanWellFounded DEF OpToRel
<1>2. PICK u \in S : \A v \in S : ~(<<v, u>> \in Less)
  BY <1>1, WFMin
<1>3. \A v \in S : u <= v
  <2> SUFFICES ASSUME NEW v \in S, ~(u <= v) PROVE FALSE
    OBVIOUS
  <2>1. u \in Nat /\ v \in Nat /\ v < u
    BY SMT
  <2>2. <<v, u>> \in Less
    BY <2>1
  <2> QED
    BY <1>2, <2>2
<1>4. \E x \in S : \A y \in S : x =< y
  BY <1>3
<1> QED
  BY <1>4 DEF Min

\* The first result there is, is one of them; and there is one unless all are None.
LEMMA FirstOfIsOne ==
  ASSUME NEW results, DOMAIN results \subseteq Nat
  PROVE  /\ FirstOf(results) # None => \E k \in DOMAIN results : FirstOf(results) = results[k]
         /\ (\E k \in DOMAIN results : results[k] # None) => FirstOf(results) # None
<1> DEFINE some == {k \in DOMAIN results : results[k] # None}
<1>1. CASE some = {}
  BY <1>1 DEF FirstOf
<1>2. CASE some # {}
  <2>1. Min(some) \in some
    BY <1>2, MinIsLeast
  <2>2. FirstOf(results) = results[Min(some)]
    BY <1>2 DEF FirstOf
  <2> QED
    BY <2>1, <2>2
<1> QED
  BY <1>1, <1>2

-----------------------------------------------------------------------------
(* Columns *)

\* What stays of the input: a click on a word of a well-formed statement.
InputOK ==
  /\ tokens \in Statements /\ WellFormed
  /\ tight \in BOOLEAN
  /\ click \in [token : Identifiers, first : BOOLEAN]
  /\ cursor \in {"null", "include", "symbol", "statement", "message", "call"}
  /\ cursor \in {"include", "symbol"} => Len(tokens) = 1
  /\ bound \subseteq Expressions
  /\ annotated \subseteq Identifiers
  /\ request \in {"definition", "declaration", "hover"}

LEMMA IndicesAre ==
  ASSUME InputOK
  PROVE  /\ Indices = 1..Len(tokens) /\ Len(tokens) \in Nat
         /\ click.token \in Identifiers /\ click.first \in BOOLEAN
         /\ Identifiers \subseteq Indices
BY SequencesAssumption DEF InputOK, Indices, Identifiers

LEMMA SpacesAre ==
  ASSUME NEW i \in Nat
  PROVE  IsFiniteSet(Spaces(i)) /\ Cardinality(Spaces(i)) \in Nat
<1>1. Spaces(i) \subseteq 2..i /\ IsFiniteSet(2..i)
  BY FS_Interval DEF Spaces
<1> QED
  BY <1>1, FS_Subset, FS_CardinalityType

\* A later token begins after an earlier one ends, and a column more when a space is before it.
LEMMA LaterBegins ==
  ASSUME NEW i \in Nat, NEW j \in Nat, 1 <= i, i < j
  PROVE  /\ From(i) \in Nat /\ From(j) \in Nat
         /\ From(j) >= From(i) + 2 * (j - i)
         /\ j \in Spaces(j) => From(j) >= From(i) + 2 * (j - i) + 1
<1>1. Spaces(i) \subseteq Spaces(j)
  BY SMT DEF Spaces
<1>2. /\ IsFiniteSet(Spaces(i)) /\ Cardinality(Spaces(i)) \in Nat
      /\ IsFiniteSet(Spaces(j)) /\ Cardinality(Spaces(j)) \in Nat
  BY SpacesAre
<1>3. Cardinality(Spaces(i)) <= Cardinality(Spaces(j))
  BY <1>1, <1>2, FS_Subset
<1>4. j \in Spaces(j) => Cardinality(Spaces(i)) < Cardinality(Spaces(j))
  <2>1. j \notin Spaces(i)
    BY SMT DEF Spaces
  <2>2. j \in Spaces(j) => Spaces(i) # Spaces(j)
    BY <2>1
  <2> QED
    BY <1>1, <1>2, <2>2, FS_Subset
<1> DEFINE ci == Cardinality(Spaces(i))
           cj == Cardinality(Spaces(j))
<1>5. From(i) = 2 * i - 1 + ci /\ From(j) = 2 * j - 1 + cj /\ ci \in Nat /\ cj \in Nat
  BY <1>2 DEF From
<1> HIDE DEF ci, cj
<1>6. ci <= cj /\ (j \in Spaces(j) => ci < cj)
  BY <1>3, <1>4 DEF ci, cj
<1> QED
  BY <1>5, <1>6, SMT

\* The click is on the first column of its token or on the second.
LEMMA ColumnIs ==
  ASSUME InputOK
  PROVE  /\ From(click.token) \in Nat /\ Column \in Nat
         /\ Column = From(click.token) \/ Column = From(click.token) + 1
         /\ ~click.first => Column = From(click.token) + 1
<1>1. click.token \in Nat /\ 1 <= click.token /\ click.first \in BOOLEAN
  BY IndicesAre
<1>2. Cardinality(Spaces(click.token)) \in Nat
  BY <1>1, SpacesAre
<1>3. From(click.token) \in Nat
  BY <1>1, <1>2, SMT DEF From
<1>4. CASE click.first
  <2>1. Column = From(click.token) + 0
    BY <1>4 DEF Column
  <2> QED
    BY <1>3, <1>4, <2>1
<1>5. CASE ~click.first
  <2>1. Column = From(click.token) + 1
    BY <1>5 DEF Column
  <2> QED
    BY <1>3, <1>5, <2>1
<1> QED
  BY <1>4, <1>5

\* The token before the one clicked ends in its first column, but no word does: the token found
\* at the click is the one clicked.
LEMMA TargetIsClicked ==
  ASSUME InputOK
  PROVE  Target = click.token /\ Target # 0
<1> DEFINE t == click.token
           at == {i \in Identifiers : Holds(i, i)}
<1>1. /\ t \in Identifiers /\ t \in Nat /\ 1 <= t
      /\ \A i \in Identifiers : i \in Nat /\ 1 <= i
  BY IndicesAre
<1>2. From(t) \in Nat /\ Column \in Nat /\ From(t) <= Column /\ Column <= From(t) + 1
  BY ColumnIs, SMT
<1>3. Holds(t, t)
  BY <1>2, SMT DEF Holds, To
<1> HIDE DEF t
<1>4. ASSUME NEW i \in Identifiers, i < t PROVE ~Holds(i, i)
  <2>1. i \in Nat /\ 1 <= i /\ From(i) \in Nat /\ From(t) >= From(i) + 2 * (t - i)
        /\ (t \in Spaces(t) => From(t) >= From(i) + 2 * (t - i) + 1)
    BY <1>1, <1>4, LaterBegins
  <2>2. i = t - 1 => t \in Spaces(t)
    <3>1. IsIdentifier(i) /\ IsIdentifier(t)
      BY <1>1 DEF Identifiers
    <3> QED
      BY <1>1, <1>4, <2>1, <3>1, SMT DEF Spaces
  <2>3. From(t) > From(i) + 2
    BY <1>1, <1>2, <1>4, <2>1, <2>2, SMT
  <2> QED
    BY <1>2, <2>1, <2>3, SMT DEF Holds, To
<1>5. ASSUME NEW i \in Identifiers, t < i PROVE ~Holds(i, i)
  <2>1. i \in Nat /\ From(i) \in Nat /\ From(i) >= From(t) + 2 * (i - t)
    BY <1>1, <1>5, LaterBegins
  <2> QED
    BY <1>1, <1>2, <1>5, <2>1, SMT DEF Holds
<1>6. at = {t}
  <2>1. \A i \in Identifiers : i < t \/ i = t \/ t < i
    BY <1>1, SMT
  <2> QED
    BY <1>1, <1>3, <1>4, <1>5, <2>1
<1>7. Min(at) = t
  BY <1>1, <1>6, MinIsLeast
<1>8. Target = t /\ t # 0
  BY <1>1, <1>6, <1>7, SMT DEF Target
<1> QED
  BY <1>8 DEF t

-----------------------------------------------------------------------------
(* Expressions *)

\* A message begins with its bracket, which tells it from every other; a call with its name.
LEMMA MessagesAre ==
  /\ \A m \in Messages : m.first \in Indices /\ tokens[m.first].kind = "["
                         /\ m.last = Closing(m.first, "[", "]")
  /\ \A d, e \in Messages : d.first = e.first => d = e
  /\ \A i \in Indices : tokens[i].kind = "[" => \E m \in Messages : m.first = i
<1> DEFINE Declared(i) == [word |-> Word(Selector(i)),
                           class |-> IF tokens[i + 1].kind = "[" THEN Returns[Word(Selector(i + 1))]
                                     ELSE Word(i + 1)]
           MessageAt(i) == [first |-> i, last |-> Closing(i, "[", "]"), message |-> TRUE,
                            decl |-> Declared(i)]
<1>1. Messages = {MessageAt(i) : i \in {j \in Indices : tokens[j].kind = "["}}
  BY DEF Messages
<1> HIDE DEF Declared
<1>2. \A i : MessageAt(i).first = i /\ MessageAt(i).last = Closing(i, "[", "]")
  OBVIOUS
<1> HIDE DEF MessageAt
<1> QED
  BY <1>1, <1>2

LEMMA ExpressionsAre ==
  ASSUME InputOK, NEW e \in Expressions
  PROVE  /\ e.first \in Nat /\ 1 <= e.first /\ e.last \in Nat /\ 1 <= e.last
         /\ e \in Messages \/ e.first \in Identifiers
         /\ e \in Variables => e.first = 1
         /\ e \in Names => /\ e.last = e.first
                           /\ \A m \in Messages : e.first # Selector(m.first)
<1>1. e.first \in Indices /\ e.last \in Indices
  BY DEF InputOK, WellFormed
<1>2. \A i \in Indices : i \in Nat /\ 1 <= i
  BY IndicesAre
<1>3. e \in Calls => e.first \in Identifiers
  BY DEF InputOK, WellFormed
<1>4. e \in Variables => e.first = 1 /\ e.first \in Identifiers
  BY <1>1 DEF Variables, DeclaredNames, Identifiers
<1>5. e \in Names => /\ e.first \in Identifiers /\ e.last = e.first
                     /\ \A m \in Messages : e.first # Selector(m.first)
  BY DEF Names
<1> QED
  BY <1>1, <1>2, <1>3, <1>4, <1>5 DEF Expressions

\* The message whose selector is clicked is met last of all expressions around the click.
LEMMA MessageIsMetLast ==
  ASSUME InputOK, NEW m \in Messages, m \in bound,
         click.token = Selector(m.first), ~(tight /\ click.first)
  PROVE  Around(bound) # {} /\ LastMet(Around(bound)) = m
<1> DEFINE s == click.token
<1>1. /\ s \in Nat /\ s \in Identifiers /\ 1 <= s
      /\ m.first \in Nat /\ 1 <= m.first /\ m.last \in Nat /\ m.first < s /\ s < m.last
  <2>1. m.first < s /\ s < m.last
    BY DEF InputOK, WellFormed
  <2>2. s \in Nat /\ s \in Identifiers /\ 1 <= s
    BY IndicesAre
  <2> QED
    BY <2>1, <2>2, ExpressionsAre DEF Expressions
<1>2. /\ From(s) \in Nat /\ Column \in Nat /\ From(s) <= Column /\ Column <= From(s) + 1
      /\ ~click.first => Column = From(s) + 1
  BY ColumnIs, SMT
<1>3. m \in Around(bound)
  <2>1. /\ From(m.first) \in Nat /\ From(s) >= From(m.first) + 2 * (s - m.first)
        /\ From(m.last) \in Nat /\ From(m.last) >= From(s) + 2 * (m.last - s)
    BY <1>1, LaterBegins
  <2> HIDE DEF s
  <2>2. From(m.first) <= Column /\ Column <= From(m.last) + 2
    BY <1>1, <1>2, <2>1, SMT
  <2> QED
    BY <2>2 DEF Around, Holds, To
<1>4. ASSUME NEW e \in Around(bound) PROVE e = m \/ Before(e, m)
  <2>1. /\ e \in Expressions /\ e.first \in Nat /\ 1 <= e.first /\ e.last \in Nat /\ 1 <= e.last
        /\ From(e.first) <= Column /\ Column <= From(e.last) + 2
    BY ExpressionsAre DEF Around, Holds, To, InputOK
  <2>2. CASE e.first < m.first
    BY <2>2 DEF Before
  <2>3. CASE e.first = m.first
    <3>1. e.first \notin Identifiers
      BY <2>3, MessagesAre DEF Identifiers, IsIdentifier
    <3>2. e \in Messages
      BY <2>1, <3>1, ExpressionsAre
    <3> QED
      BY <2>3, <3>2, MessagesAre
  <2>4. CASE s < e.first
    <3>1. From(e.first) \in Nat /\ From(e.first) >= From(s) + 2 * (e.first - s)
      BY <1>1, <2>1, <2>4, LaterBegins
    <3> HIDE DEF s
    <3> QED
      BY <1>1, <1>2, <2>1, <2>4, <3>1, SMT
  <2>5. CASE e.first = s
    <3>1. e \notin Calls
      BY <2>5 DEF InputOK, WellFormed
    <3>2. e \notin Names
      BY <2>1, <2>5, ExpressionsAre
    <3>3. e \notin Variables
      <4> HIDE DEF s
      <4> QED
        BY <1>1, <2>1, <2>5, ExpressionsAre, SMT
    <3>4. tokens[s].kind = "["
      BY <2>1, <2>5, <3>1, <3>2, <3>3, MessagesAre DEF Expressions
    <3> QED
      BY <1>1, <3>4 DEF Identifiers, IsIdentifier
  <2>6. CASE m.first < e.first /\ e.first < s
    <3> DEFINE r == m.first + 1
    <3>1. m.first \in Indices /\ Indices = 1..Len(tokens) /\ Len(tokens) \in Nat /\ s \in Indices
      BY IndicesAre, MessagesAre
    <3>2. CASE tokens[r].kind = "["
      <4>1. s = Closing(r, "[", "]") + 1
        BY <3>2 DEF Selector
      <4>2. r \in Indices
        BY <1>1, <2>6, <3>1, SMT
      <4>3. PICK d \in Messages : d.first = r
        BY <3>2, <4>2, MessagesAre
      <4>4. d.last = Closing(r, "[", "]") /\ d \in Expressions /\ d.last \in Nat
        BY <4>3, MessagesAre, ExpressionsAre DEF Expressions
      <4> HIDE DEF s, r
      <4>5. d.last = s - 1
        BY <1>1, <4>1, <4>4, SMT
      <4>6. e.first \in d.first..d.last
        BY <1>1, <2>1, <2>6, <4>3, <4>5, SMT DEF r
      <4>7. e.last <= s - 1 /\ e.last < s
        <5>1. e.last <= s - 1
          BY <2>1, <4>4, <4>5, <4>6 DEF InputOK, WellFormed
        <5> QED
          BY <1>1, <2>1, <5>1, SMT
      <4>8. /\ From(e.last) \in Nat
            /\ From(s) >= From(e.last) + 2 * (s - e.last)
            /\ s \in Spaces(s) => From(s) >= From(e.last) + 2 * (s - e.last) + 1
        BY <1>1, <2>1, <4>7, LaterBegins
      <4>9. s \in Spaces(s) \/ Column = From(s) + 1
        <5>1. CASE tight
          BY <1>2, <5>1
        <5>2. CASE ~tight
          BY <1>1, <5>2, SMT DEF Spaces
        <5> QED
          BY <5>1, <5>2
      <4> QED
        BY <1>1, <1>2, <2>1, <4>7, <4>8, <4>9, SMT
    <3>3. CASE tokens[r].kind # "["
      <4>1. s = r + 1
        BY <3>3 DEF Selector
      <4>2. e.first = r
        BY <1>1, <2>1, <2>6, <4>1, SMT
      <4>3. e \notin Messages
        BY <3>3, <4>2, MessagesAre
      <4> HIDE DEF s, r
      <4>4. e \notin Variables
        BY <1>1, <2>1, <2>6, ExpressionsAre, SMT
      <4>5. e \notin Names
        <5> SUFFICES ASSUME e \in Names PROVE FALSE
          OBVIOUS
        <5>1. e.first \in Identifiers /\ e.last = r
          BY <2>1, <4>2, <4>3, ExpressionsAre
        <5>2. s \in Spaces(s)
          <6>1. IsIdentifier(s - 1) /\ IsIdentifier(s)
            <7>1. s - 1 = r
              BY <1>1, <4>1, SMT DEF r
            <7> QED
              BY <1>1, <4>2, <5>1, <7>1 DEF Identifiers
          <6> QED
            BY <1>1, <2>6, <6>1, SMT DEF Spaces
        <5>3. r \in Nat /\ 1 <= r /\ r < s
          BY <1>1, <4>1, SMT DEF r
        <5>4. From(r) \in Nat /\ From(s) >= From(r) + 2 * (s - r) + 1
          BY <1>1, <5>2, <5>3, LaterBegins
        <5> QED
          BY <1>1, <1>2, <2>1, <4>1, <5>1, <5>3, <5>4, SMT
      <4>6. e \in Calls
        BY <2>1, <4>3, <4>4, <4>5 DEF Expressions
      <4>7. tokens[r + 1].kind = "("
        <5>1. PICK i \in Indices : tokens[i].kind = "(" /\ e.first = i - 1
          BY <4>6 DEF Calls
        <5>2. i = r + 1
          BY <1>1, <3>1, <4>2, <5>1, SMT DEF r
        <5> QED
          BY <5>1, <5>2
      <4> QED
        BY <1>1, <4>1, <4>7 DEF Identifiers, IsIdentifier
    <3> QED
      BY <3>2, <3>3
  <2> HIDE DEF s
  <2> QED
    BY <1>1, <2>1, <2>2, <2>3, <2>4, <2>5, <2>6, SMT
<1>5. ASSUME NEW d \in Around(bound), \A e \in Around(bound) : e = d \/ Before(e, d)
      PROVE  d = m
  <2>1. d.first \in Nat /\ d.last \in Nat
    BY ExpressionsAre DEF Around, InputOK
  <2>2. (m = d \/ Before(m, d)) /\ (d = m \/ Before(d, m))
    BY <1>3, <1>4, <1>5
  <2> QED
    BY <1>1, <2>1, <2>2 DEF Before
<1> QED
  BY <1>3, <1>4, <1>5 DEF LastMet

-----------------------------------------------------------------------------
(* What the answers are *)

\* The chain of strategies ends without an answer only if no token bound like the word clicked,
\* and no other line, has a place to go to.
LEMMA DefinitionFinds ==
  ASSUME InputOK, cursor = "statement",
         \/ \E i \in annotated : Word(i) = Word(click.token) /\ Place(Meaning(i)) # None
         \/ Word(click.token) \in elsewhere /\ Place(Symbol(Word(click.token))) # None
  PROVE  DefinitionAt # None
<1> DEFINE t == click.token
           results == <<Twin(t), MessageWalk, ReceiverLookup(t), WholeFile(t)>>
<1>1. DefinitionAt = ChildCursorAtLocation
  BY DEF DefinitionAt
<1>2. Target = t /\ Target # 0
  BY TargetIsClicked
<1>3. SUFFICES FirstOf(results) # None
  BY <1>1, <1>2 DEF ChildCursorAtLocation
<1>4. DOMAIN results = {1, 2, 3, 4} /\ results[1] = Twin(t) /\ results[4] = WholeFile(t)
  BY SMT
<1> HIDE DEF results
<1>5. SUFFICES Twin(t) # None \/ WholeFile(t) # None
  BY <1>4, FirstOfIsOne
<1>6. CASE \E i \in annotated : Word(i) = Word(t) /\ Place(Meaning(i)) # None
  <2>1. PICK i \in annotated : Word(i) = Word(t) /\ Place(Meaning(i)) # None
    BY <1>6
  <2>2. i \in Indices /\ Indices \subseteq Nat
    BY IndicesAre DEF InputOK
  <2> DEFINE twins == [k \in Indices |->
                         IF k \in annotated /\ Word(k) = Word(t) THEN Place(Meaning(k)) ELSE None]
  <2>3. twins[i] # None /\ DOMAIN twins = Indices
    BY <2>1, <2>2
  <2>4. Twin(t) = FirstOf(twins)
    BY DEF Twin
  <2> HIDE DEF twins
  <2> QED
    BY <2>2, <2>3, <2>4, FirstOfIsOne
<1>7. CASE Word(t) \in elsewhere /\ Place(Symbol(Word(t))) # None
  BY <1>7 DEF WholeFile
<1> QED
  BY <1>6, <1>7

LEMMA DefinitionOfMessage ==
  ASSUME InputOK, cursor = "statement", NEW m \in Messages, m \in bound,
         click.token = Selector(m.first), ~(tight /\ click.first), Place(m.decl) # None
  PROVE  DefinitionAt = Place(m.decl)
<1>1. ChildWalk = Place(m.decl)
  BY MessageIsMetLast DEF ChildWalk
<1> QED
  BY <1>1 DEF DefinitionAt, ChildCursorAtLocation

\* The hover's chain ends without a declaration only if the word is on no other line.
LEMMA HoverFinds ==
  ASSUME InputOK, cursor = "statement", Word(click.token) \in elsewhere
  PROVE  HoverAt = Shows("declaration", HoverStatement)
<1> DEFINE t == click.token
           results == <<HoverReceiver(t), OnOtherLine(t)>>
<1>1. Target = t /\ Target # 0
  BY TargetIsClicked
<1>2. DOMAIN results = {1, 2} /\ results[2] = OnOtherLine(t)
  BY SMT
<1>3. OnOtherLine(t) # None
  <2>1. tokens \in Statements /\ t \in DOMAIN tokens
    BY IndicesAre DEF InputOK, Indices
  <2>2. Symbol(Word(t)) # None
    BY <2>1, NoneAssumption DEF Symbol, Word
  <2> QED
    BY <2>2 DEF OnOtherLine
<1>4. FirstOf(results) # None
  <2> HIDE DEF results
  <2> QED
    BY <1>2, <1>3, FirstOfIsOne
<1>5. HoverStatement # None
  BY <1>1, <1>4 DEF HoverStatement
<1> QED
  BY <1>5 DEF HoverAt

-----------------------------------------------------------------------------
(* Steps *)

\* The input stays, so what it means does.
LEMMA InputStays ==
  ASSUME UNCHANGED input
  PROVE  /\ UNCHANGED <<tokens, tight, click, cursor, bound, annotated, elsewhere, placed, request>>
         /\ Identifiers' = Identifiers /\ Messages' = Messages
         /\ \A i : Word(i)' = Word(i) /\ Selector(i)' = Selector(i) /\ Meaning(i)' = Meaning(i)
         /\ \A decl : Place(decl)' = Place(decl)
         /\ InputOK => InputOK'
<1>1. UNCHANGED <<tokens, tight, click, cursor, bound, annotated, elsewhere, placed, request>>
  BY DEF input
<1>2. Indices' = Indices /\ Identifiers' = Identifiers
  BY <1>1 DEF Indices, Identifiers, IsIdentifier
<1>3. \A i : Word(i)' = Word(i)
  BY <1>1 DEF Word
<1>4. \A i, o, c : Closing(i, o, c)' = Closing(i, o, c)
  BY <1>1, <1>2 DEF Closing
<1>5. \A i : Selector(i)' = Selector(i)
  BY <1>1, <1>4 DEF Selector
<1>6. Messages' = Messages
  BY <1>1, <1>2, <1>3, <1>4, <1>5 DEF Messages
<1>7. Calls' = Calls
  BY <1>1, <1>2, <1>3, <1>4 DEF Calls, Symbol
<1>7a. Variables' = Variables /\ Names' = Names
  <2>1. DeclaredNames' = DeclaredNames
    BY <1>1 DEF DeclaredNames, IsIdentifier
  <2> QED
    BY <1>1, <1>2, <1>3, <1>5, <1>6, <2>1 DEF Variables, Names, Symbol
<1>8. \A i : Meaning(i)' = Meaning(i)
  BY <1>3, <1>5, <1>6 DEF Meaning, Symbol
<1>9. \A decl : Place(decl)' = Place(decl)
  BY <1>1 DEF Place, FirstOf, At
<1>10. InputOK => InputOK'
  <2>1. WellFormed => WellFormed'
    BY <1>2, <1>5, <1>6, <1>7, <1>7a DEF WellFormed, Expressions
  <2> QED
    BY <1>1, <1>2, <1>6, <1>7, <1>7a, <2>1 DEF InputOK, Expressions
<1> QED
  BY <1>1, <1>2, <1>3, <1>5, <1>6, <1>8, <1>9, <1>10

IInv == InputOK /\ AnswerIfKnown /\ RightMethod

LEMMA Initially == Init => IInv
<1> SUFFICES ASSUME Init PROVE IInv
  OBVIOUS
<1>1. bound \subseteq Expressions
  <2>1. bound \subseteq Inside
    BY DEF Init
  <2>2. Inside \subseteq Expressions
    BY DEF Inside
  <2> QED
    BY <2>1, <2>2
<1>2. cursor \in {"null", "include", "symbol", "statement", "message", "call"}
  BY DEF Init
<1>3. InputOK
  BY <1>1, <1>2 DEF Init, InputOK
<1> QED
  BY <1>3 DEF Init, IInv, AnswerIfKnown, RightMethod, InStatement, HoverInStatement

LEMMA Inductive == IInv /\ [Next]_vars => IInv'
<1> SUFFICES ASSUME IInv, [Next]_vars PROVE IInv'
  OBVIOUS
<1>1. UNCHANGED input
  BY DEF Next, Definition, Declaration, Hover, vars, input
<1>2. InputOK'
  BY <1>1, InputStays DEF IInv
<1>3. /\ request' = "definition" => answer' = DefinitionAt \/ answer' = answer
      /\ request' = "hover" => answer' = HoverAt \/ answer' = answer
  BY <1>1 DEF Next, Definition, Declaration, Hover, vars, input
<1>4. AnswerIfKnown'
  <2>1. ASSUME InStatement',
               \/ \E i \in annotated : Word(i) = Word(click.token) /\ Place(Meaning(i)) # None
               \/ Word(click.token) \in elsewhere /\ Place(Symbol(Word(click.token))) # None
        PROVE  answer' # None
    <3>1. cursor = "statement" /\ answer' # Pending /\ request = "definition" /\ request' = request
      BY <1>1, <2>1, InputStays DEF InStatement
    <3>2. CASE answer' = DefinitionAt
      BY <2>1, <3>1, <3>2, DefinitionFinds DEF IInv
    <3>3. CASE answer' = answer
      BY <2>1, <3>1, <3>3 DEF IInv, AnswerIfKnown, InStatement
    <3> QED
      BY <1>3, <3>1, <3>2, <3>3
  <2>2. ASSUME HoverInStatement', Word(click.token) \in elsewhere
        PROVE  answer'.text = "declaration"
    <3>1. cursor = "statement" /\ answer' # Pending /\ request = "hover" /\ request' = request
      BY <1>1, <2>2, InputStays DEF HoverInStatement
    <3>2. CASE answer' = HoverAt
      <4>1. answer' = Shows("declaration", HoverStatement)
        BY <2>2, <3>1, <3>2, HoverFinds DEF IInv
      <4> QED
        BY <4>1 DEF Shows
    <3>3. CASE answer' = answer
      BY <2>2, <3>1, <3>3 DEF IInv, AnswerIfKnown, HoverInStatement
    <3> QED
      BY <1>3, <3>1, <3>2, <3>3
  <2> QED
    BY <1>1, <2>1, <2>2, InputStays DEF AnswerIfKnown, Symbol
<1>5. RightMethod'
  <2> SUFFICES ASSUME NEW m \in Messages, m \in bound, InStatement',
                      click.token = Selector(m.first), ~(tight /\ click.first),
                      Place(m.decl) # None
               PROVE  answer' = Place(m.decl)
    BY <1>1, InputStays DEF RightMethod
  <2>1. cursor = "statement" /\ answer' # Pending /\ request = "definition" /\ request' = request
    BY <1>1, InputStays DEF InStatement
  <2>2. CASE answer' = DefinitionAt
    BY <2>1, <2>2, DefinitionOfMessage DEF IInv
  <2>3. CASE answer' = answer
    BY <2>1, <2>3 DEF IInv, RightMethod, InStatement
  <2> QED
    BY <1>3, <2>1, <2>2, <2>3
<1> QED
  BY <1>2, <1>4, <1>5 DEF IInv

LEMMA Invariance == Spec => []IInv
<1> QED
  BY Initially, Inductive, PTL DEF Spec

-----------------------------------------------------------------------------
(* Theorems *)

\* Go to definition finds a word that the file has bound anywhere, whatever the strategies before
\* make of the statement.
THEOREM KnownIsFound == Spec => []AnswerIfKnown
<1>1. IInv => AnswerIfKnown
  BY DEF IInv
<1> QED
  BY <1>1, Invariance, PTL

\* A selector leads to the method of its own message, however deep messages and calls nest.
THEOREM MethodIsRight == Spec => []RightMethod
<1>1. IInv => RightMethod
  BY DEF IInv
<1> QED
  BY <1>1, Invariance, PTL
=============================================================================
