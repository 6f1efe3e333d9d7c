------------------------- MODULE TextFeaturesProofs -------------------------
(***************************************************************************)
(* Theorems about the features computed from a text, for every text over   *)
(* every set of lines.  The inductive invariant of the specification is    *)
(* only that lines are lines (TextTyped); what is proved is what functions *)
(* of a text compute.  Loops and recursive functions over positions are    *)
(* reasoned about by induction from the well-foundedness of Nat (Upwards,  *)
(* Downwards), and Recursion gives each recursive function its equations.  *)
(*                                                                         *)
(* In order: folding ranges, the nullability checker, the two extractors   *)
(* of the outline, aggregation of categories, the sidebar, semantic tokens *)
(* (their sorting and encoding, then the walk that collects them).         *)
(***************************************************************************)
EXTENDS TextFeatures, TLAPS, WellFoundedInduction, FiniteSetTheorems, SequenceTheorems

LEMMA NatMin ==
  ASSUME NEW S, S \subseteq Nat, S # {}
  PROVE  Min(S) \in S /\ \A x \in S : Min(S) <= x
<1> DEFINE Less == {p \in Nat \X Nat : p[1] < p[2]}
<1>1. IsWellFoundedOn(Less, Nat)
  BY NatLessThanWellFounded DEF OpToRel
<1>2. PICK u \in S : \A v \in S : ~(<<v, u>> \in Less)
  BY <1>1, WFMin
<1>3. \A v \in S : u <= v
  <2> SUFFICES ASSUME NEW v \in S, ~(u <= v) PROVE FALSE
    OBVIOUS
  <2>1. u \in Nat /\ v \in Nat /\ v < u
    BY SMT
  <2>2. <<v, u>> \in Less
    BY <2>1
  <2> QED
    BY <1>2, <2>2
<1>4. \E x \in S : \A y \in S : x =< y
  BY <1>3
<1> QED
  BY <1>4 DEF Min

\* Induction upwards and downwards over an interval, for the members of a set.
LEMMA Upwards ==
  ASSUME NEW n \in Nat, NEW S, 0 \in S, \A i \in 1..n : i - 1 \in S => i \in S
  PROVE  0..n \subseteq S
<1> DEFINE left == (0..n) \ S
<1> SUFFICES ASSUME left # {} PROVE FALSE
  OBVIOUS
<1>1. Min(left) \in left /\ \A x \in left : Min(left) <= x
  BY NatMin
<1> DEFINE i == Min(left)
<1> HIDE DEF i
<1>2. i \in 1..n /\ i - 1 \in 0..n /\ ~(i <= i - 1)
  BY <1>1 DEF i
<1> QED
  BY <1>1, <1>2 DEF i

LEMMA Downwards ==
  ASSUME NEW n \in Nat, NEW S, \A i \in 1..n : (\A j \in (i + 1)..n : j \in S) => i \in S
  PROVE  1..n \subseteq S
<1> DEFINE done == {i \in 0..n : \A j \in (n - i + 1)..n : j \in S}
<1>1. 0 \in done
  OBVIOUS
<1>2. ASSUME NEW i \in 1..n, i - 1 \in done PROVE i \in done
  <2>1. n - i + 1 \in 1..n /\ \A j \in (n - i + 1 + 1)..n : j \in S
    BY <1>2
  <2>2. n - i + 1 \in S
    BY <2>1
  <2>3. \A j \in (n - i + 1)..n : j = n - i + 1 \/ j \in (n - i + 1 + 1)..n
    OBVIOUS
  <2> QED
    BY <2>1, <2>2, <2>3
<1> HIDE DEF done
<1>3. n \in done
  BY <1>1, <1>2, Upwards
<1> QED
  BY <1>3 DEF done

\* A recursion over an interval, each value from the one before it, has a solution.
Recurs(n, S, base, F) ==
  \E f \in [0..n -> S] : f[0] = base /\ \A i \in 1..n : f[i] = F[i][f[i - 1]]

LEMMA Recursion ==
  ASSUME NEW n \in Nat, NEW S, NEW base \in S, NEW F \in [1..n -> [S -> S]]
  PROVE  Recurs(n, S, base, F)
<1> DEFINE solves(f, m) == f[0] = base /\ \A i \in 1..m : f[i] = F[i][f[i - 1]]
           done == {m \in 0..n : \E f \in [0..m -> S] : solves(f, m)}
<1>1. 0 \in done
  <2> DEFINE g == [i \in 0..0 |-> base]
  <2>1. g \in [0..0 -> S] /\ solves(g, 0)
    OBVIOUS
  <2> HIDE DEF g, solves
  <2> QED
    BY <2>1
<1>2. ASSUME NEW m \in 1..n, m - 1 \in done PROVE m \in done
  <2>1. PICK f \in [0..(m - 1) -> S] : solves(f, m - 1)
    BY <1>2
  <2> DEFINE g == [i \in 0..m |-> IF i = m THEN F[m][f[m - 1]] ELSE f[i]]
  <2>2. f[m - 1] \in S /\ F[m] \in [S -> S]
    BY <1>2, <2>1
  <2>3. F[m][f[m - 1]] \in S
    BY <2>2
  <2>4. g \in [0..m -> S]
    BY <2>1, <2>3
  <2>5. g[0] = base
    BY <2>1
  <2>6. ASSUME NEW i \in 1..m PROVE g[i] = F[i][g[i - 1]]
    <3>1. g[i - 1] = f[i - 1] /\ i - 1 \in 0..m
      OBVIOUS
    <3>2. CASE i = m
      BY <3>1, <3>2
    <3>3. CASE i # m
      <4>1. i \in 1..(m - 1) /\ g[i] = f[i]
        BY <3>3
      <4> QED
        BY <2>1, <3>1, <4>1
    <3> QED
      BY <3>2, <3>3
  <2> HIDE DEF g
  <2>7. solves(g, m)
    BY <2>5, <2>6
  <2> HIDE DEF solves
  <2> QED
    BY <2>4, <2>7
<1> HIDE DEF done, solves
<1>3. 0..n \subseteq done
  BY <1>1, <1>2, Upwards
<1>4. \E f \in [0..n -> S] : solves(f, n)
  BY <1>3 DEF done
<1> QED
  BY <1>4 DEF solves, Recurs

-----------------------------------------------------------------------------
(* Texts *)

LEMMA TextIs ==
  ASSUME NEW text \in Seq(Line)
  PROVE  Len(text) \in Nat /\ DOMAIN text = 1..Len(text)
BY LenProperties

LEMMA AtIs ==
  ASSUME NEW text \in Seq(Line), NEW kinds
  PROVE  At(text, kinds) = {i \in 1..Len(text) : text[i].kind \in kinds}
BY TextIs DEF At

-----------------------------------------------------------------------------
(* Runs of imports *)

IsImport(text, i) == i \in DOMAIN text /\ text[i].kind = "import"

\* The runs that begin at i or later, of which one at i may be the rest of a longer one.
RunsFrom(text, i) ==
  {p \in (i..Len(text)) \X (i..Len(text)) :
     /\ p[1] < p[2] /\ \A k \in p[1]..p[2] : IsImport(text, k)
     /\ ~IsImport(text, p[2] + 1)
     /\ p[1] = i \/ ~IsImport(text, p[1] - 1)}

FoldsOf(pairs, kind) == {Fold(p[1], p[2], kind) : p \in pairs}

\* The scan's jump: the last line of the run that has i.
RunEnd(text, i) ==
  CHOOSE j \in i..Len(text) : ~IsImport(text, j + 1) /\ \A k \in i..j : IsImport(text, k)

LEMMA RunEnds ==
  ASSUME NEW text \in Seq(Line), NEW i \in 1..Len(text), IsImport(text, i)
  PROVE  /\ RunEnd(text, i) \in i..Len(text) /\ ~IsImport(text, RunEnd(text, i) + 1)
         /\ \A k \in i..RunEnd(text, i) : IsImport(text, k)
<1> DEFINE n == Len(text)
           over == {j \in i..n : ~IsImport(text, j + 1)}
<1>1. n \in Nat /\ DOMAIN text = 1..n
  BY TextIs
<1>2. n \in over /\ over \subseteq Nat
  BY <1>1 DEF IsImport
<1>3. Min(over) \in over /\ \A x \in over : Min(over) <= x
  BY <1>1, <1>2, NatMin
<1> DEFINE j == Min(over)
<1> HIDE DEF j
<1>4. ASSUME NEW k \in i..j PROVE IsImport(text, k)
  <2>1. CASE k = i
    BY <2>1
  <2>2. CASE k # i
    <3>1. k - 1 \in i..n /\ ~(j <= k - 1) /\ (k - 1) + 1 = k
      BY <1>1, <1>3, <2>2 DEF j
    <3>2. k - 1 \notin over
      BY <1>3, <3>1 DEF j
    <3> QED
      BY <3>1, <3>2
  <2> QED
    BY <2>1, <2>2
<1>5. j \in i..n /\ ~IsImport(text, j + 1)
  BY <1>3 DEF j
<1>6. \E x \in i..n : ~IsImport(text, x + 1) /\ \A k \in i..x : IsImport(text, k)
  BY <1>4, <1>5
<1> QED
  BY <1>6 DEF RunEnd

\* The runs of a text answer the scan's recursion at each of its lines.
LEMMA RunsFromScan ==
  ASSUME NEW text \in Seq(Line), NEW i \in 1..(Len(text) + 1)
  PROVE  /\ i > Len(text) => RunsFrom(text, i) = {}
         /\ i <= Len(text) /\ ~IsImport(text, i) => RunsFrom(text, i) = RunsFrom(text, i + 1)
         /\ IsImport(text, i) =>
              RunsFrom(text, i) =
                RunsFrom(text, RunEnd(text, i) + 1)
                  \cup (IF RunEnd(text, i) > i THEN {<<i, RunEnd(text, i)>>} ELSE {})
<1> DEFINE n == Len(text)
           e == RunEnd(text, i)
<1>1. n \in Nat /\ DOMAIN text = 1..n
  BY TextIs
<1>2. i > n => RunsFrom(text, i) = {}
  BY <1>1 DEF RunsFrom
<1>3. ASSUME i <= n, ~IsImport(text, i) PROVE RunsFrom(text, i) = RunsFrom(text, i + 1)
  BY <1>1, <1>3 DEF RunsFrom
<1>4. ASSUME IsImport(text, i)
      PROVE  RunsFrom(text, i) = RunsFrom(text, e + 1) \cup (IF e > i THEN {<<i, e>>} ELSE {})
  <2>1. /\ i \in 1..n /\ e \in i..n /\ ~IsImport(text, e + 1)
        /\ \A k \in i..e : IsImport(text, k)
    BY <1>1, <1>4, RunEnds DEF IsImport
  <2> HIDE DEF e
  <2>2. ASSUME NEW a \in i..n, NEW b \in i..n, a < b, \A k \in a..b : IsImport(text, k),
               ~IsImport(text, b + 1), a = i \/ ~IsImport(text, a - 1)
        PROVE  (a = i /\ b = e) \/ (a \in (e + 1)..n /\ a # e + 1)
    <3>1. CASE a = i
      <4>1. ~(b < e)
        BY <2>1, <2>2, <3>1
      <4>2. ~(e < b)
        BY <2>1, <2>2, <3>1
      <4> QED
        BY <2>1, <3>1, <4>1, <4>2
    <3>2. CASE a # i
      <4>1. a - 1 \notin i..e /\ a # e + 1
        BY <2>1, <2>2, <3>2
      <4> QED
        BY <2>1, <3>2, <4>1
    <3> QED
      BY <3>1, <3>2
  <2>3. RunsFrom(text, i) \subseteq RunsFrom(text, e + 1) \cup (IF e > i THEN {<<i, e>>} ELSE {})
    <3> SUFFICES ASSUME NEW p \in RunsFrom(text, i)
                 PROVE  p \in RunsFrom(text, e + 1) \/ (e > i /\ p = <<i, e>>)
      OBVIOUS
    <3>1. /\ p[1] \in i..n /\ p[2] \in i..n /\ p = <<p[1], p[2]>> /\ p[1] < p[2]
          /\ \A k \in p[1]..p[2] : IsImport(text, k)
          /\ ~IsImport(text, p[2] + 1) /\ (p[1] = i \/ ~IsImport(text, p[1] - 1))
      BY DEF RunsFrom
    <3>2. (p[1] = i /\ p[2] = e) \/ (p[1] \in (e + 1)..n /\ p[1] # e + 1)
      BY <2>2, <3>1
    <3>3. CASE p[1] = i /\ p[2] = e
      BY <3>1, <3>3
    <3>4. CASE p[1] \in (e + 1)..n /\ p[1] # e + 1
      <4>1. p[2] \in (e + 1)..n /\ p[1] # i
        BY <2>1, <3>1, <3>4
      <4> QED
        BY <3>1, <3>4, <4>1 DEF RunsFrom
    <3> QED
      BY <3>2, <3>3, <3>4
  <2>4. RunsFrom(text, e + 1) \subseteq RunsFrom(text, i)
    <3> SUFFICES ASSUME NEW p \in RunsFrom(text, e + 1) PROVE p \in RunsFrom(text, i)
      OBVIOUS
    <3>1. /\ p[1] \in (e + 1)..n /\ p[2] \in (e + 1)..n /\ p = <<p[1], p[2]>> /\ p[1] < p[2]
          /\ \A k \in p[1]..p[2] : IsImport(text, k)
          /\ ~IsImport(text, p[2] + 1) /\ (p[1] = e + 1 \/ ~IsImport(text, p[1] - 1))
      BY DEF RunsFrom
    <3>2. IsImport(text, p[1])
      BY <2>1, <3>1
    <3>3. p[1] # e + 1
      BY <2>1, <3>2
    <3>4. p[1] \in i..n /\ p[2] \in i..n
      BY <2>1, <3>1
    <3> QED
      BY <3>1, <3>3, <3>4 DEF RunsFrom
  <2>5. e > i => <<i, e>> \in RunsFrom(text, i)
    BY <2>1 DEF RunsFrom
  <2> QED
    BY <2>3, <2>4, <2>5
<1> QED
  BY <1>1, <1>2, <1>3, <1>4

LEMMA FoldsOfIs ==
  ASSUME NEW A, NEW B, NEW kind
  PROVE  /\ FoldsOf(A \cup B, kind) = FoldsOf(A, kind) \cup FoldsOf(B, kind)
         /\ FoldsOf({}, kind) = {}
         /\ \A a, b : FoldsOf({<<a, b>>}, kind) = {Fold(a, b, kind)}
BY DEF FoldsOf

\* The scan of the imports folds the runs of two lines or more.
LEMMA ImportFoldsAre ==
  ASSUME NEW text \in Seq(Line)
  PROVE  ImportFolds(text) = FoldsOf(RunsFrom(text, 1), "imports")
<1> DEFINE n == Len(text)
           Body(f, i) ==
             IF i > n THEN {}
             ELSE IF ~IsImport(text, i) THEN f[i + 1]
             ELSE f[RunEnd(text, i) + 1] \cup
                    (IF RunEnd(text, i) > i THEN {Fold(i, RunEnd(text, i), "imports")} ELSE {})
           from == CHOOSE f : f = [i \in 1..(n + 1) |-> Body(f, i)]
           folds == [i \in 1..(n + 1) |-> FoldsOf(RunsFrom(text, i), "imports")]
<1>1. n \in Nat /\ DOMAIN text = 1..n
  BY TextIs
<1>2. ASSUME NEW i \in 1..(n + 1) PROVE folds[i] = Body(folds, i)
  <2>1. CASE i > n
    BY <2>1, RunsFromScan, FoldsOfIs
  <2>2. CASE i <= n /\ ~IsImport(text, i)
    <3>1. i + 1 \in 1..(n + 1) /\ RunsFrom(text, i) = RunsFrom(text, i + 1) /\ ~(i > n)
      BY <1>1, <2>2, RunsFromScan
    <3> QED
      BY <2>2, <3>1
  <2>3. CASE i <= n /\ IsImport(text, i)
    <3> DEFINE e == RunEnd(text, i)
               one == IF e > i THEN {<<i, e>>} ELSE {}
    <3>1. e + 1 \in 1..(n + 1) /\ ~(i > n)
      BY <1>1, <2>3, RunEnds
    <3>2. RunsFrom(text, i) = RunsFrom(text, e + 1) \cup one
      BY <2>3, RunsFromScan
    <3> HIDE DEF e
    <3>3. FoldsOf(one, "imports") = IF e > i THEN {Fold(i, e, "imports")} ELSE {}
      BY FoldsOfIs
    <3>4. folds[i] = FoldsOf(RunsFrom(text, e + 1), "imports") \cup FoldsOf(one, "imports")
      <4> HIDE DEF one
      <4> QED
        BY <3>2, FoldsOfIs
    <3>5. folds[e + 1] = FoldsOf(RunsFrom(text, e + 1), "imports")
      BY <3>1
    <3> HIDE DEF folds
    <3> QED
      BY <2>3, <3>1, <3>3, <3>4, <3>5 DEF e
  <2> QED
    BY <1>1, <2>1, <2>2, <2>3
<1>3. folds = [i \in 1..(n + 1) |-> Body(folds, i)]
  <2> DEFINE again == [i \in 1..(n + 1) |-> Body(folds, i)]
  <2>1. \A i \in 1..(n + 1) : folds[i] = again[i]
    BY <1>2
  <2> HIDE DEF Body
  <2> QED
    BY <2>1
<1>4. from = [i \in 1..(n + 1) |-> Body(from, i)]
  <2> HIDE DEF Body, folds
  <2> QED
    BY <1>3
<1> DEFINE same == {i \in 1..(n + 1) : from[i] = folds[i]}
<1>5. ASSUME NEW i \in 1..(n + 1), \A j \in (i + 1)..(n + 1) : j \in same PROVE i \in same
  <2>1. from[i] = Body(from, i)
    <3> HIDE DEF Body, from
    <3> QED
      BY <1>4
  <2>2. i + 1 \in (i + 1)..(n + 1) \/ i > n
    BY <1>1
  <2>3. i <= n /\ IsImport(text, i) => RunEnd(text, i) + 1 \in (i + 1)..(n + 1)
    BY <1>1, RunEnds
  <2>4. Body(from, i) = Body(folds, i)
    <3> HIDE DEF from, folds
    <3>1. CASE i > n
      BY <3>1
    <3>2. CASE ~(i > n) /\ ~IsImport(text, i)
      <4>1. from[i + 1] = folds[i + 1]
        BY <1>5, <2>2, <3>2
      <4> QED
        BY <3>2, <4>1
    <3>3. CASE ~(i > n) /\ IsImport(text, i)
      <4>1. i <= n
        BY <1>1, <3>3
      <4>2. from[RunEnd(text, i) + 1] = folds[RunEnd(text, i) + 1]
        BY <1>5, <2>3, <3>3, <4>1
      <4> QED
        BY <3>3, <4>2
    <3> QED
      BY <3>1, <3>2, <3>3
  <2> QED
    BY <1>2, <2>1, <2>4
<1>6. n + 1 \in Nat /\ 1 \in 1..(n + 1)
  BY <1>1
<1>7. 1 \in same
  <2> HIDE DEF same
  <2> QED
    BY <1>5, <1>6, Downwards
<1>8. ImportFolds(text) = from[1]
  BY DEF ImportFolds, RunEnd, IsImport
<1> QED
  BY <1>6, <1>7, <1>8

\* These are the maximal runs of two lines or more.
LEMMA RunsAreMaximal ==
  ASSUME NEW text \in Seq(Line)
  PROVE  RunsFrom(text, 1) = {q \in MaximalRuns(text, "import") : q[1] < q[2]}
<1> DEFINE n == Len(text)
<1>1. n \in Nat /\ DOMAIN text = 1..n /\ At(text, {"import"}) = {i \in 1..n : text[i].kind = "import"}
  BY TextIs, AtIs
<1>2. \A i : IsImport(text, i) <=> i \in At(text, {"import"})
  BY <1>1 DEF IsImport
<1>3. ~IsImport(text, 1 - 1)
  BY <1>1 DEF IsImport
<1>4. ASSUME NEW p \in (1..n) \X (1..n), p[1] < p[2]
      PROVE  p \in RunsFrom(text, 1) <=> p \in MaximalRuns(text, "import")
  <2>1. /\ p[1] \in 1..n /\ p[2] \in 1..n
        /\ \A k \in p[1]..p[2] : k \in 1..n
    BY <1>1, <1>4
  <2>2. (\A k \in p[1]..p[2] : IsImport(text, k)) <=> (\A k \in p[1]..p[2] : text[k].kind = "import")
    BY <1>1, <2>1 DEF IsImport
  <2>3. (p[1] = 1 \/ ~IsImport(text, p[1] - 1)) <=> p[1] - 1 \notin At(text, {"import"})
    BY <1>2, <1>3
  <2>4. ~IsImport(text, p[2] + 1) <=> p[2] + 1 \notin At(text, {"import"})
    BY <1>2
  <2>5. p[1] <= p[2]
    BY <1>4, <2>1
  <2>6. p \in RunsFrom(text, 1) <=>
          /\ \A k \in p[1]..p[2] : IsImport(text, k)
          /\ ~IsImport(text, p[2] + 1) /\ (p[1] = 1 \/ ~IsImport(text, p[1] - 1))
    BY <1>4 DEF RunsFrom
  <2>7. p \in MaximalRuns(text, "import") <=>
          /\ \A k \in p[1]..p[2] : text[k].kind = "import"
          /\ p[1] - 1 \notin At(text, {"import"}) /\ p[2] + 1 \notin At(text, {"import"})
    BY <1>1, <1>4, <2>5 DEF MaximalRuns
  <2> QED
    BY <2>2, <2>3, <2>4, <2>6, <2>7
<1>5. \A p \in RunsFrom(text, 1) : p \in (1..n) \X (1..n) /\ p[1] < p[2]
  BY DEF RunsFrom
<1>6. \A p \in MaximalRuns(text, "import") : p \in (1..n) \X (1..n)
  BY <1>1 DEF MaximalRuns
<1> QED
  BY <1>4, <1>5, <1>6

-----------------------------------------------------------------------------
(* Sections *)

\* A section ends before the next mark or end, or with the text.
LEMMA SectionsEnd ==
  ASSUME NEW text \in Seq(Line), NEW f \in PragmaFolds(text)
  PROVE  /\ f.first \in At(text, FoldedMarks) /\ f.last \in 1..Len(text) /\ f.first < f.last
         /\ f.kind = "section"
         /\ \A i \in (f.first + 1)..f.last : text[i].kind \notin FoldedMarks \cup {"end"}
         /\ f.last = Len(text) \/ text[f.last + 1].kind \in FoldedMarks \cup {"end"}
<1> DEFINE n == Len(text)
           stops(i) == {j \in At(text, FoldedMarks \cup {"end"}) : j > i}
           last(i) == IF stops(i) = {} THEN n ELSE Min(stops(i)) - 1
<1>1. n \in Nat /\ DOMAIN text = 1..n
      /\ At(text, FoldedMarks) = {i \in 1..n : text[i].kind \in FoldedMarks}
      /\ At(text, FoldedMarks \cup {"end"}) = {i \in 1..n : text[i].kind \in FoldedMarks \cup {"end"}}
  BY TextIs, AtIs
<1>2. PICK i \in At(text, FoldedMarks) : last(i) > i /\ f = Fold(i, last(i), "section")
  BY DEF PragmaFolds
<1>3. f.first = i /\ f.last = last(i) /\ f.kind = "section"
  BY <1>2 DEF Fold
<1>4. stops(i) = {j \in 1..n : j > i /\ text[j].kind \in FoldedMarks \cup {"end"}}
  BY <1>1
<1>5. CASE stops(i) = {}
  <2>1. last(i) = n
    BY <1>5
  <2> HIDE DEF last, stops
  <2>2. \A j \in (i + 1)..n : text[j].kind \notin FoldedMarks \cup {"end"}
    BY <1>1, <1>2, <1>4, <1>5
  <2>3. n \in 1..n
    BY <1>1, <1>2, <2>1
  <2> QED
    BY <1>2, <1>3, <2>1, <2>2, <2>3
<1>6. CASE stops(i) # {}
  <2>1. last(i) = Min(stops(i)) - 1
    BY <1>6
  <2>2. Min(stops(i)) \in stops(i) /\ \A j \in stops(i) : Min(stops(i)) <= j
    <3> HIDE DEF stops
    <3>1. stops(i) \subseteq Nat
      BY <1>4
    <3> QED
      BY <1>6, <3>1, NatMin
  <2> DEFINE m == Min(stops(i))
  <2>3. m \in 1..n /\ m > i /\ text[m].kind \in FoldedMarks \cup {"end"}
    BY <1>4, <2>2
  <2>4. \A j \in (i + 1)..(m - 1) : j \notin stops(i)
    <3> HIDE DEF stops
    <3> QED
      BY <1>1, <1>2, <2>2, <2>3
  <2>5. m - 1 \in 1..n /\ (m - 1) + 1 = m /\ i \in 1..n
    <3> HIDE DEF m, stops
    <3> QED
      BY <1>1, <1>2, <2>3
  <2>6. \A j \in (i + 1)..(m - 1) : text[j].kind \notin FoldedMarks \cup {"end"}
    <3> HIDE DEF m, stops
    <3> QED
      BY <1>1, <1>4, <2>4, <2>5
  <2> HIDE DEF m, stops, last
  <2> QED
    BY <1>2, <1>3, <2>1, <2>3, <2>5, <2>6 DEF m
<1> QED
  BY <1>5, <1>6

-----------------------------------------------------------------------------
(* Counting macros *)

LEMMA CountIs ==
  ASSUME NEW text, NEW kind, NEW i \in Int, NEW j \in Int
  PROVE  /\ IsFiniteSet({k \in i..j : text[k].kind = kind})
         /\ Count(text, kind, i, j) \in Nat
         /\ Count(text, kind, i, j) = 0 <=> \A k \in i..j : text[k].kind # kind
<1>1. IsFiniteSet({k \in i..j : text[k].kind = kind})
  BY FS_Interval, FS_Subset
<1> QED
  BY <1>1, FS_CardinalityType, FS_EmptySet DEF Count

LEMMA CountZero ==
  ASSUME NEW text, NEW kind, NEW i \in Int, NEW j \in Int
  PROVE  Count(text, kind, i, j) = 0 <=> \A k \in i..j : text[k].kind # kind
BY CountIs

LEMMA CountSplit ==
  ASSUME NEW text, NEW kind, NEW i \in Int, NEW m \in Int, NEW j \in Int, i <= m + 1, m <= j
  PROVE  Count(text, kind, i, j) = Count(text, kind, i, m) + Count(text, kind, m + 1, j)
<1> DEFINE A == {k \in i..m : text[k].kind = kind}
           B == {k \in (m + 1)..j : text[k].kind = kind}
           C == {k \in i..j : text[k].kind = kind}
<1>0. m + 1 \in Int
  OBVIOUS
<1>1. IsFiniteSet(A) /\ IsFiniteSet(B)
  BY <1>0, CountIs
<1>2. Cardinality(A) \in Nat /\ Cardinality(B) \in Nat
  BY <1>1, FS_CardinalityType
<1>3. A \cap B = {} /\ C = A \cup B
  OBVIOUS
<1> HIDE DEF A, B, C
<1>4. Cardinality(A \cup B) = Cardinality(A) + Cardinality(B) - Cardinality(A \cap B)
  BY <1>1, FS_Union
<1>5. Cardinality(A \cap B) = 0
  BY <1>3, FS_EmptySet
<1>6. Cardinality(C) = Cardinality(A) + Cardinality(B)
  BY <1>2, <1>3, <1>4, <1>5
<1> QED
  BY <1>6 DEF Count, A, B, C

LEMMA CountOne ==
  ASSUME NEW text, NEW kind, NEW i \in Int
  PROVE  Count(text, kind, i, i) = IF text[i].kind = kind THEN 1 ELSE 0
<1> DEFINE A == {k \in i..i : text[k].kind = kind}
<1>1. A = IF text[i].kind = kind THEN {i} ELSE {}
  OBVIOUS
<1>2. Cardinality(A) = IF text[i].kind = kind THEN 1 ELSE 0
  <2> HIDE DEF A
  <2> QED
    BY <1>1, FS_Singleton, FS_EmptySet
<1> QED
  BY <1>2 DEF Count

\* How many more begins than finishes there are between two lines.
Excess(text, i, j) == Count(text, "begin", i, j) - Count(text, "finish", i, j)

LEMMA ExcessIs ==
  ASSUME NEW text, NEW i \in Int, NEW j \in Int
  PROVE  /\ Excess(text, i, j) \in Int
         /\ Excess(text, i, j) = 0 <=> Count(text, "begin", i, j) = Count(text, "finish", i, j)
         /\ Excess(text, i, j) > 0 <=> Count(text, "begin", i, j) > Count(text, "finish", i, j)
<1>1. Count(text, "begin", i, j) \in Nat /\ Count(text, "finish", i, j) \in Nat
  BY CountIs
<1> QED
  BY <1>1 DEF Excess

LEMMA ExcessSplit ==
  ASSUME NEW text, NEW i \in Int, NEW m \in Int, NEW j \in Int, i <= m + 1, m <= j
  PROVE  Excess(text, i, j) = Excess(text, i, m) + Excess(text, m + 1, j)
<1>0. m + 1 \in Int
  OBVIOUS
<1>1. /\ Count(text, "begin", i, m) \in Nat /\ Count(text, "finish", i, m) \in Nat
      /\ Count(text, "begin", m + 1, j) \in Nat /\ Count(text, "finish", m + 1, j) \in Nat
  BY <1>0, CountIs
<1>2. /\ Count(text, "begin", i, j) = Count(text, "begin", i, m) + Count(text, "begin", m + 1, j)
      /\ Count(text, "finish", i, j) = Count(text, "finish", i, m) + Count(text, "finish", m + 1, j)
  BY CountSplit
<1> QED
  BY <1>1, <1>2 DEF Excess

LEMMA ExcessStep ==
  ASSUME NEW text, NEW i \in Int, NEW j \in Int, i <= j
  PROVE  Excess(text, i, j) =
           Excess(text, i, j - 1) + (CASE text[j].kind = "begin"  -> 1
                                       [] text[j].kind = "finish" -> -1
                                       [] OTHER -> 0)
<1>1. Excess(text, i, j) = Excess(text, i, j - 1) + Excess(text, j, j)
  <2>1. j - 1 \in Int /\ i <= (j - 1) + 1 /\ j - 1 <= j /\ (j - 1) + 1 = j
    OBVIOUS
  <2> QED
    BY <2>1, ExcessSplit
<1>2. Excess(text, j, j) = CASE text[j].kind = "begin"  -> 1
                             [] text[j].kind = "finish" -> -1
                             [] OTHER -> 0
  <2>1. /\ Count(text, "begin", j, j) = IF text[j].kind = "begin" THEN 1 ELSE 0
        /\ Count(text, "finish", j, j) = IF text[j].kind = "finish" THEN 1 ELSE 0
    BY CountOne
  <2> QED
    BY <2>1 DEF Excess
<1> QED
  BY <1>1, <1>2

-----------------------------------------------------------------------------
(* Regions *)

\* The begins that no finish has balanced up to line i.
OpenAt(text, i) ==
  {b \in At(text, {"begin"}) : b <= i /\ \A k \in b..i : Excess(text, b, k) > 0}

BalancedTo(text, i) == {p \in Balanced(text) : p[2] <= i}

LEMMA BalancedIs ==
  ASSUME NEW text \in Seq(Line), NEW b \in 1..Len(text), NEW e \in 1..Len(text)
  PROVE  <<b, e>> \in Balanced(text) <=>
           /\ text[b].kind = "begin" /\ text[e].kind = "finish" /\ b < e
           /\ Excess(text, b, e) = 0 /\ \A k \in b..(e - 1) : Excess(text, b, k) > 0
<1>1. /\ b \in At(text, {"begin"}) <=> text[b].kind = "begin"
      /\ e \in At(text, {"finish"}) <=> text[e].kind = "finish"
  BY AtIs
<1>2. /\ b \in Int /\ e \in Int
      /\ Len(text) \in Nat
  BY TextIs
<1>3. Excess(text, b, e) = 0 <=> Count(text, "begin", b, e) = Count(text, "finish", b, e)
  BY <1>2, ExcessIs
<1>4. \A k \in b..(e - 1) :
        Excess(text, b, k) > 0 <=> Count(text, "begin", b, k) > Count(text, "finish", b, k)
  BY <1>2, ExcessIs
<1> QED
  BY <1>1, <1>3, <1>4 DEF Balanced

LEMMA PairsOfLines ==
  ASSUME NEW text \in Seq(Line), NEW p \in Balanced(text)
  PROVE  p[1] \in 1..Len(text) /\ p[2] \in 1..Len(text) /\ p = <<p[1], p[2]>>
BY AtIs DEF Balanced

LEMMA OpenIs ==
  ASSUME NEW text \in Seq(Line), NEW i \in 0..Len(text), NEW b
  PROVE  b \in OpenAt(text, i) <=>
           b \in 1..i /\ text[b].kind = "begin" /\ \A k \in b..i : Excess(text, b, k) > 0
<1>1. Len(text) \in Nat
  BY TextIs
<1> QED
  BY <1>1, AtIs DEF OpenAt

\* What one line does to the excess of the begins before it.
LEMMA ExcessGrows ==
  ASSUME NEW text \in Seq(Line), NEW i \in 1..Len(text), NEW b \in 1..(i - 1)
  PROVE  /\ Excess(text, b, i - 1) \in Int
         /\ text[i].kind = "begin" => Excess(text, b, i) = Excess(text, b, i - 1) + 1
         /\ text[i].kind = "finish" => Excess(text, b, i) = Excess(text, b, i - 1) - 1
         /\ text[i].kind \notin {"begin", "finish"} => Excess(text, b, i) = Excess(text, b, i - 1)
<1>1. i \in Int /\ b \in Int /\ b <= i /\ i - 1 \in Int
  BY TextIs
<1>2. Excess(text, b, i - 1) \in Int
  BY <1>1, ExcessIs
<1>3. Excess(text, b, i) =
        Excess(text, b, i - 1) + (CASE text[i].kind = "begin"  -> 1
                                    [] text[i].kind = "finish" -> -1
                                    [] OTHER -> 0)
  BY <1>1, ExcessStep
<1> QED
  BY <1>2, <1>3

LEMMA ExcessOfBegin ==
  ASSUME NEW text \in Seq(Line), NEW i \in 1..Len(text), text[i].kind = "begin"
  PROVE  Excess(text, i, i) = 1
<1>1. i \in Int
  BY TextIs
<1>2. Count(text, "begin", i, i) = 1 /\ Count(text, "finish", i, i) = 0
  BY <1>1, CountOne
<1> QED
  BY <1>2 DEF Excess

LEMMA OpenStep ==
  ASSUME NEW text \in Seq(Line), NEW i \in 1..Len(text)
  PROVE  /\ text[i].kind = "begin" => OpenAt(text, i) = OpenAt(text, i - 1) \cup {i}
         /\ text[i].kind = "finish" =>
              OpenAt(text, i) = {b \in OpenAt(text, i - 1) : Excess(text, b, i - 1) # 1}
         /\ text[i].kind \notin {"begin", "finish"} => OpenAt(text, i) = OpenAt(text, i - 1)
<1>1. Len(text) \in Nat /\ i \in 0..Len(text) /\ i - 1 \in 0..Len(text)
  BY TextIs
<1>2. ASSUME NEW b \in 1..(i - 1)
      PROVE  /\ b \in OpenAt(text, i) <=> b \in OpenAt(text, i - 1) /\ Excess(text, b, i) > 0
  <2>1. \A k \in b..i : k = i \/ k \in b..(i - 1)
    BY <1>1
  <2>2. i \in b..i /\ \A k \in b..(i - 1) : k \in b..i
    BY <1>1
  <2>3. b \in 1..i
    BY <1>1
  <2> QED
    BY <1>1, <2>1, <2>2, <2>3, OpenIs
<1>3. \A b \in OpenAt(text, i - 1) :
        b \in 1..(i - 1) /\ Excess(text, b, i - 1) \in Int /\ Excess(text, b, i - 1) > 0
  <2> SUFFICES ASSUME NEW b \in OpenAt(text, i - 1)
               PROVE b \in 1..(i - 1) /\ Excess(text, b, i - 1) \in Int /\ Excess(text, b, i - 1) > 0
    OBVIOUS
  <2>1. b \in 1..(i - 1) /\ \A k \in b..(i - 1) : Excess(text, b, k) > 0
    BY <1>1, OpenIs
  <2>2. i - 1 \in b..(i - 1)
    BY <1>1, <2>1
  <2> QED
    BY <2>1, <2>2, ExcessGrows
<1>4. \A b \in OpenAt(text, i) : b \in 1..(i - 1) \/ (b = i /\ text[i].kind = "begin")
  BY <1>1, OpenIs
<1>5. ASSUME text[i].kind = "begin" PROVE i \in OpenAt(text, i)
  <2>1. \A k \in i..i : k = i
    BY <1>1
  <2>2. \A k \in i..i : Excess(text, i, k) > 0
    BY <1>5, <2>1, ExcessOfBegin
  <2> QED
    BY <1>1, <1>5, <2>2, OpenIs
<1>6. ASSUME text[i].kind = "begin" PROVE OpenAt(text, i) = OpenAt(text, i - 1) \cup {i}
  <2>1. \A b \in OpenAt(text, i - 1) : b \in OpenAt(text, i)
    BY <1>2, <1>3, <1>6, ExcessGrows
  <2> QED
    BY <1>2, <1>4, <1>5, <1>6, <2>1
<1>7. ASSUME text[i].kind = "finish"
      PROVE  OpenAt(text, i) = {b \in OpenAt(text, i - 1) : Excess(text, b, i - 1) # 1}
  <2>1. ASSUME NEW b \in OpenAt(text, i - 1)
        PROVE  b \in OpenAt(text, i) <=> Excess(text, b, i - 1) # 1
    <3>1. b \in 1..(i - 1) /\ Excess(text, b, i - 1) \in Int /\ Excess(text, b, i - 1) > 0
      BY <1>3
    <3>2. Excess(text, b, i) = Excess(text, b, i - 1) - 1
      BY <1>7, <3>1, ExcessGrows
    <3>3. b \in OpenAt(text, i) <=> Excess(text, b, i) > 0
      BY <1>2, <3>1
    <3> QED
      BY <3>1, <3>2, <3>3
  <2>2. \A b \in OpenAt(text, i) : b \in OpenAt(text, i - 1)
    BY <1>2, <1>4, <1>7
  <2> QED
    BY <2>1, <2>2
<1>8. ASSUME text[i].kind \notin {"begin", "finish"} PROVE OpenAt(text, i) = OpenAt(text, i - 1)
  <2>1. \A b \in OpenAt(text, i - 1) : b \in OpenAt(text, i)
    BY <1>2, <1>3, <1>8, ExcessGrows
  <2>2. \A b \in OpenAt(text, i) : b \in OpenAt(text, i - 1)
    BY <1>2, <1>4, <1>8
  <2> QED
    BY <2>1, <2>2
<1> QED
  BY <1>6, <1>7, <1>8

LEMMA BalancedStep ==
  ASSUME NEW text \in Seq(Line), NEW i \in 1..Len(text)
  PROVE  /\ text[i].kind # "finish" => BalancedTo(text, i) = BalancedTo(text, i - 1)
         /\ text[i].kind = "finish" =>
              BalancedTo(text, i) =
                BalancedTo(text, i - 1)
                  \cup {<<b, i>> : b \in {c \in OpenAt(text, i - 1) : Excess(text, c, i - 1) = 1}}
<1>1. Len(text) \in Nat /\ i \in Int /\ i - 1 \in 0..Len(text)
  BY TextIs
<1>2. ASSUME NEW p \in Balanced(text)
      PROVE  p \in BalancedTo(text, i) <=> p \in BalancedTo(text, i - 1) \/ p[2] = i
  <2>1. p[2] \in 1..Len(text)
    BY PairsOfLines
  <2>2. p[2] <= i <=> p[2] <= i - 1 \/ p[2] = i
    BY <1>1, <2>1
  <2> QED
    BY <2>2 DEF BalancedTo
<1>3. \A p \in BalancedTo(text, i) \cup BalancedTo(text, i - 1) : p \in Balanced(text)
  BY DEF BalancedTo
<1>4. ASSUME NEW p \in Balanced(text), p[2] = i
      PROVE  /\ text[i].kind = "finish" /\ p = <<p[1], i>>
             /\ p[1] \in OpenAt(text, i - 1) /\ Excess(text, p[1], i - 1) = 1
  <2>1. p[1] \in 1..Len(text) /\ p = <<p[1], i>>
    BY <1>4, PairsOfLines
  <2>2. /\ text[p[1]].kind = "begin" /\ text[i].kind = "finish" /\ p[1] < i
        /\ Excess(text, p[1], i) = 0 /\ \A k \in p[1]..(i - 1) : Excess(text, p[1], k) > 0
    BY <1>4, <2>1, BalancedIs
  <2>3. p[1] \in 1..(i - 1)
    BY <1>1, <2>1, <2>2
  <2>4. p[1] \in OpenAt(text, i - 1)
    BY <1>1, <2>2, <2>3, OpenIs
  <2>5. Excess(text, p[1], i - 1) = 1
    BY <2>2, <2>3, ExcessGrows
  <2> QED
    BY <2>1, <2>2, <2>4, <2>5
<1>5. ASSUME NEW b \in OpenAt(text, i - 1), Excess(text, b, i - 1) = 1, text[i].kind = "finish"
      PROVE  <<b, i>> \in Balanced(text)
  <2>1. b \in 1..(i - 1) /\ text[b].kind = "begin" /\ \A k \in b..(i - 1) : Excess(text, b, k) > 0
    BY <1>1, OpenIs
  <2>2. Excess(text, b, i) = 0
    BY <1>5, <2>1, ExcessGrows
  <2>3. b \in 1..Len(text) /\ b < i
    BY <1>1, <2>1
  <2> QED
    BY <1>5, <2>1, <2>2, <2>3, BalancedIs
<1>6. text[i].kind # "finish" => BalancedTo(text, i) = BalancedTo(text, i - 1)
  BY <1>2, <1>3, <1>4
<1>7. ASSUME text[i].kind = "finish"
      PROVE  BalancedTo(text, i) =
               BalancedTo(text, i - 1)
                 \cup {<<b, i>> : b \in {c \in OpenAt(text, i - 1) : Excess(text, c, i - 1) = 1}}
  <2> DEFINE closed == {c \in OpenAt(text, i - 1) : Excess(text, c, i - 1) = 1}
  <2>1. \A b \in closed : <<b, i>> \in Balanced(text) /\ <<b, i>>[2] = i
    BY <1>5, <1>7
  <2>2. \A b \in closed : <<b, i>> \in BalancedTo(text, i)
    BY <1>2, <2>1
  <2>3. \A p \in BalancedTo(text, i) : p \in BalancedTo(text, i - 1) \/ (p[1] \in closed /\ p = <<p[1], i>>)
    BY <1>2, <1>3, <1>4
  <2>4. BalancedTo(text, i - 1) \subseteq BalancedTo(text, i)
    BY <1>2, <1>3
  <2> HIDE DEF closed
  <2>5. BalancedTo(text, i) = BalancedTo(text, i - 1) \cup {<<b, i>> : b \in closed}
    BY <2>2, <2>3, <2>4
  <2> QED
    BY <2>5 DEF closed
<1> QED
  BY <1>6, <1>7

-----------------------------------------------------------------------------
(* The scan of the regions *)

FoldOf(text) == [first : 1..Len(text), last : 1..Len(text), kind : {"nonnull"}]
ScanStates(text) == [stack : Seq(1..Len(text)), folds : SUBSET FoldOf(text)]

\* What the scan knows after line i: the open begins, innermost last, and the folds so far.
Scanned(text, acc, i) ==
  /\ \A j \in 1..Len(acc.stack) :
       /\ acc.stack[j] \in OpenAt(text, i)
       /\ Excess(text, acc.stack[j], i) = Len(acc.stack) - j + 1
  /\ \A b \in OpenAt(text, i) : \E j \in 1..Len(acc.stack) : acc.stack[j] = b
  /\ acc.folds = FoldsOf(BalancedTo(text, i), "nonnull")

LEMMA FrontIs ==
  ASSUME NEW S, NEW s \in Seq(S), s # << >>
  PROVE  /\ Front(s) \in Seq(S) /\ Len(Front(s)) = Len(s) - 1 /\ Len(s) \in Nat \ {0}
         /\ \A j \in 1..(Len(s) - 1) : Front(s)[j] = s[j]
         /\ Last(s) = s[Len(s)] /\ Last(s) \in S
<1>1. Len(s) \in Nat /\ Len(s) # 0 /\ \A j \in 1..Len(s) : s[j] \in S
  BY EmptySeq, LenProperties, ElementOfSeq
<1>2. /\ SubSeq(s, 1, Len(s) - 1) \in Seq(S)
      /\ Len(SubSeq(s, 1, Len(s) - 1)) = Len(s) - 1
      /\ \A j \in 1..(Len(s) - 1) : SubSeq(s, 1, Len(s) - 1)[j] = s[j]
  <2>1. 1 \in Int /\ Len(s) - 1 \in Int /\ \A j \in 1..(Len(s) - 1) : s[j] \in S
    BY <1>1
  <2>2. /\ SubSeq(s, 1, Len(s) - 1) \in Seq(S)
        /\ Len(SubSeq(s, 1, Len(s) - 1)) = IF 1 <= Len(s) - 1 THEN Len(s) - 1 - 1 + 1 ELSE 0
        /\ \A j \in 1..(Len(s) - 1 - 1 + 1) : SubSeq(s, 1, Len(s) - 1)[j] = s[1 + j - 1]
    BY <2>1, SubSeqProperties
  <2>3. Len(s) - 1 - 1 + 1 = Len(s) - 1 /\ \A j \in 1..(Len(s) - 1) : 1 + j - 1 = j
    BY <1>1
  <2> QED
    BY <1>1, <2>2, <2>3
<1> QED
  BY <1>1, <1>2 DEF Front, Last

LEMMA ScanKeepsType ==
  ASSUME NEW text \in Seq(Line), NEW acc \in ScanStates(text), NEW i \in 1..Len(text)
  PROVE  ScanNonnull(text, acc, i) \in ScanStates(text)
<1>1. acc.stack \in Seq(1..Len(text)) /\ acc.folds \subseteq FoldOf(text)
      /\ acc = [stack |-> acc.stack, folds |-> acc.folds]
  BY DEF ScanStates
<1>2. CASE text[i].kind = "begin"
  <2>1. ScanNonnull(text, acc, i) = [stack |-> Append(acc.stack, i), folds |-> acc.folds]
    BY <1>1, <1>2 DEF ScanNonnull
  <2> QED
    BY <1>1, <2>1, AppendProperties DEF ScanStates
<1>3. CASE text[i].kind = "finish" /\ acc.stack # << >>
  <2>1. ScanNonnull(text, acc, i) =
          [stack |-> Front(acc.stack), folds |-> acc.folds \cup {Fold(Last(acc.stack), i, "nonnull")}]
    BY <1>3 DEF ScanNonnull
  <2>2. Front(acc.stack) \in Seq(1..Len(text)) /\ Last(acc.stack) \in 1..Len(text)
    BY <1>1, <1>3, FrontIs
  <2>3. Fold(Last(acc.stack), i, "nonnull") \in FoldOf(text)
    BY <2>2 DEF Fold, FoldOf
  <2> QED
    BY <1>1, <2>1, <2>2, <2>3 DEF ScanStates
<1>4. CASE text[i].kind # "begin" /\ ~(text[i].kind = "finish" /\ acc.stack # << >>)
  BY <1>4 DEF ScanNonnull
<1> QED
  BY <1>2, <1>3, <1>4

LEMMA ScanStep ==
  ASSUME NEW text \in Seq(Line), NEW i \in 1..Len(text),
         NEW acc \in ScanStates(text), Scanned(text, acc, i - 1)
  PROVE  Scanned(text, ScanNonnull(text, acc, i), i)
<1> DEFINE next == ScanNonnull(text, acc, i)
           height == Len(acc.stack)
<1>1. /\ acc.stack \in Seq(1..Len(text)) /\ height \in Nat
      /\ \A j \in 1..height : acc.stack[j] \in 1..Len(text)
  BY LenProperties, ElementOfSeq DEF ScanStates
<1>2. Len(text) \in Nat /\ i - 1 \in 0..Len(text)
  BY TextIs
<1>3. \A j \in 1..height :
        /\ acc.stack[j] \in OpenAt(text, i - 1)
        /\ Excess(text, acc.stack[j], i - 1) = height - j + 1
        /\ acc.stack[j] \in 1..(i - 1)
  BY <1>2, OpenIs DEF Scanned
<1>4. \A b \in OpenAt(text, i - 1) : \E j \in 1..height : acc.stack[j] = b
  BY DEF Scanned
<1>5. acc.folds = FoldsOf(BalancedTo(text, i - 1), "nonnull")
  BY DEF Scanned
<1>6. CASE text[i].kind = "begin"
  <2>1. next.stack = Append(acc.stack, i) /\ next.folds = acc.folds
    BY <1>6 DEF ScanNonnull, ScanStates
  <2> HIDE DEF next
  <2>2. /\ Len(next.stack) = height + 1
        /\ \A j \in 1..height : next.stack[j] = acc.stack[j]
        /\ next.stack[height + 1] = i
    BY <1>1, <2>1, AppendProperties
  <2>3. OpenAt(text, i) = OpenAt(text, i - 1) \cup {i}
    BY <1>6, OpenStep
  <2>4. ASSUME NEW j \in 1..Len(next.stack)
        PROVE  next.stack[j] \in OpenAt(text, i) /\ Excess(text, next.stack[j], i) = Len(next.stack) - j + 1
    <3>1. CASE j = height + 1
      <4>1. Excess(text, i, i) = 1
        BY <1>6, ExcessOfBegin
      <4> QED
        BY <1>1, <2>2, <2>3, <3>1, <4>1
    <3>2. CASE j # height + 1
      <4>1. j \in 1..height
        BY <1>1, <2>2, <3>2
      <4>2. Excess(text, acc.stack[j], i) = Excess(text, acc.stack[j], i - 1) + 1
        BY <1>3, <1>6, <4>1, ExcessGrows
      <4> QED
        BY <1>1, <1>3, <2>2, <2>3, <4>1, <4>2
    <3> QED
      BY <3>1, <3>2
  <2>5. ASSUME NEW b \in OpenAt(text, i) PROVE \E j \in 1..Len(next.stack) : next.stack[j] = b
    <3>1. height + 1 \in 1..Len(next.stack) /\ \A j \in 1..height : j \in 1..Len(next.stack)
      BY <1>1, <2>2
    <3> QED
      BY <1>4, <2>2, <2>3, <3>1
  <2>6. next.folds = FoldsOf(BalancedTo(text, i), "nonnull")
    BY <1>5, <1>6, <2>1, BalancedStep
  <2>7. Scanned(text, next, i)
    BY <2>4, <2>5, <2>6 DEF Scanned
  <2> QED
    BY <2>7 DEF next
<1>7. CASE text[i].kind = "finish" /\ acc.stack # << >>
  <2>1. next.stack = Front(acc.stack)
        /\ next.folds = acc.folds \cup {Fold(Last(acc.stack), i, "nonnull")}
    BY <1>7 DEF ScanNonnull
  <2> HIDE DEF next
  <2>2. /\ Len(next.stack) = height - 1 /\ height \in Nat \ {0}
        /\ \A j \in 1..(height - 1) : next.stack[j] = acc.stack[j]
        /\ Last(acc.stack) = acc.stack[height]
    BY <1>1, <1>7, <2>1, FrontIs
  <2>3. OpenAt(text, i) = {b \in OpenAt(text, i - 1) : Excess(text, b, i - 1) # 1}
    BY <1>7, OpenStep
  <2>4. ASSUME NEW j \in 1..Len(next.stack)
        PROVE  next.stack[j] \in OpenAt(text, i) /\ Excess(text, next.stack[j], i) = Len(next.stack) - j + 1
    <3>1. j \in 1..height /\ next.stack[j] = acc.stack[j] /\ j < height
      BY <2>2
    <3>2. Excess(text, acc.stack[j], i) = Excess(text, acc.stack[j], i - 1) - 1
      BY <1>3, <1>7, <3>1, ExcessGrows
    <3>3. Excess(text, acc.stack[j], i - 1) = height - j + 1
      BY <1>3, <3>1
    <3>4. height - j + 1 # 1 /\ (height - j + 1) - 1 = (height - 1) - j + 1
      BY <2>2, <3>1
    <3> QED
      BY <1>3, <2>2, <2>3, <3>1, <3>2, <3>3, <3>4
  <2>5. ASSUME NEW b \in OpenAt(text, i) PROVE \E j \in 1..Len(next.stack) : next.stack[j] = b
    <3>1. b \in OpenAt(text, i - 1) /\ Excess(text, b, i - 1) # 1
      BY <2>3
    <3>2. PICK j \in 1..height : acc.stack[j] = b
      BY <1>4, <3>1
    <3>3. j # height
      BY <1>3, <2>2, <3>1, <3>2
    <3>4. j \in 1..(height - 1)
      BY <2>2, <3>3
    <3> QED
      BY <2>2, <3>2, <3>4
  <2>6. {c \in OpenAt(text, i - 1) : Excess(text, c, i - 1) = 1} = {acc.stack[height]}
    <3>1. height \in 1..height /\ height - height + 1 = 1
      BY <2>2
    <3>2. acc.stack[height] \in OpenAt(text, i - 1) /\ Excess(text, acc.stack[height], i - 1) = 1
      BY <1>3, <3>1
    <3>3. ASSUME NEW c \in OpenAt(text, i - 1), Excess(text, c, i - 1) = 1 PROVE c = acc.stack[height]
      <4>1. PICK j \in 1..height : acc.stack[j] = c
        BY <1>4, <3>3
      <4>2. height - j + 1 = 1
        BY <1>3, <3>3, <4>1
      <4>3. j = height
        BY <2>2, <4>2
      <4> QED
        BY <4>1, <4>3
    <3> QED
      BY <3>2, <3>3
  <2>7. {<<b, i>> : b \in {c \in OpenAt(text, i - 1) : Excess(text, c, i - 1) = 1}}
          = {<<acc.stack[height], i>>}
    BY <2>6
  <2>8. BalancedTo(text, i) = BalancedTo(text, i - 1) \cup {<<acc.stack[height], i>>}
    BY <1>7, <2>7, BalancedStep
  <2>9. next.folds = FoldsOf(BalancedTo(text, i), "nonnull")
    <3> DEFINE closed == {<<acc.stack[height], i>>}
    <3>1. FoldsOf(closed, "nonnull") = {Fold(acc.stack[height], i, "nonnull")}
      BY FoldsOfIs
    <3>2. FoldsOf(BalancedTo(text, i), "nonnull") =
            FoldsOf(BalancedTo(text, i - 1), "nonnull") \cup FoldsOf(closed, "nonnull")
      <4> HIDE DEF closed
      <4>1. BalancedTo(text, i) = BalancedTo(text, i - 1) \cup closed
        BY <2>8 DEF closed
      <4> QED
        BY <4>1, FoldsOfIs
    <3> QED
      BY <1>5, <2>1, <2>2, <3>1, <3>2
  <2>10. Scanned(text, next, i)
    BY <2>4, <2>5, <2>9 DEF Scanned
  <2> QED
    BY <2>10 DEF next
<1>8. CASE text[i].kind = "finish" /\ acc.stack = << >>
  <2>1. next = acc /\ height = 0
    BY <1>8 DEF ScanNonnull
  <2> HIDE DEF next
  <2>2. OpenAt(text, i - 1) = {}
    BY <1>4, <2>1
  <2>3. OpenAt(text, i) = {}
    BY <1>8, <2>2, OpenStep
  <2>4. {<<b, i>> : b \in {c \in OpenAt(text, i - 1) : Excess(text, c, i - 1) = 1}} = {}
    BY <2>2
  <2>5. BalancedTo(text, i) = BalancedTo(text, i - 1)
    BY <1>8, <2>4, BalancedStep
  <2>6. Scanned(text, next, i)
    BY <1>5, <2>1, <2>3, <2>5 DEF Scanned
  <2> QED
    BY <2>6 DEF next
<1>9. CASE text[i].kind \notin {"begin", "finish"}
  <2>1. next = acc
    BY <1>9 DEF ScanNonnull
  <2>2. OpenAt(text, i) = OpenAt(text, i - 1) /\ BalancedTo(text, i) = BalancedTo(text, i - 1)
    BY <1>9, OpenStep, BalancedStep
  <2>3. \A j \in 1..height : Excess(text, acc.stack[j], i) = Excess(text, acc.stack[j], i - 1)
    BY <1>3, <1>9, ExcessGrows
  <2> HIDE DEF next
  <2>4. Scanned(text, next, i)
    BY <1>3, <1>4, <1>5, <2>1, <2>2, <2>3 DEF Scanned
  <2> QED
    BY <2>4 DEF next
<1> QED
  BY <1>6, <1>7, <1>8, <1>9

\* The scan with a stack folds the balanced regions.
LEMMA NonnullFoldsAre ==
  ASSUME NEW text \in Seq(Line)
  PROVE  NonnullFolds(text) = FoldsOf(Balanced(text), "nonnull")
<1> DEFINE n == Len(text)
           base == [stack |-> << >>, folds |-> {}]
           F == [i \in 1..n |-> [s \in ScanStates(text) |-> ScanNonnull(text, s, i)]]
           Body(f, i) == IF i = 0 THEN base ELSE ScanNonnull(text, f[i - 1], i)
           after == CHOOSE f : f = [i \in 0..n |-> Body(f, i)]
<1>1. n \in Nat
  BY TextIs
<1>2. base \in ScanStates(text)
  BY EmptySeq DEF ScanStates
<1>3. F \in [1..n -> [ScanStates(text) -> ScanStates(text)]]
  BY ScanKeepsType
<1>4. PICK f \in [0..n -> ScanStates(text)] : f[0] = base /\ \A i \in 1..n : f[i] = F[i][f[i - 1]]
  <2> DEFINE states == ScanStates(text)
  <2>1. n \in Nat /\ base \in states /\ F \in [1..n -> [states -> states]]
    BY <1>1, <1>2, <1>3
  <2> HIDE DEF F, base, n, states
  <2>2. Recurs(n, states, base, F)
    BY <2>1, Recursion
  <2> QED
    BY <2>2 DEF Recurs, states
<1>5. ASSUME NEW i \in 0..n PROVE f[i] = Body(f, i)
  <2>1. CASE i = 0
    BY <1>4, <2>1
  <2>2. CASE i # 0
    <3>1. i \in 1..n /\ i - 1 \in 0..n
      BY <1>1, <2>2
    <3>2. f[i - 1] \in ScanStates(text) /\ f[i] = F[i][f[i - 1]]
      BY <1>4, <3>1
    <3> QED
      BY <2>2, <3>1, <3>2
  <2> QED
    BY <2>1, <2>2
<1>6. f = [i \in 0..n |-> Body(f, i)]
  <2> DEFINE again == [i \in 0..n |-> Body(f, i)]
  <2>1. \A i \in 0..n : f[i] = again[i]
    BY <1>5
  <2> HIDE DEF Body
  <2> QED
    BY <1>4, <2>1
<1>7. after = [i \in 0..n |-> Body(after, i)]
  <2> HIDE DEF Body
  <2> QED
    BY <1>6
<1>8. \A i \in 0..n : after[i] = Body(after, i)
  <2> HIDE DEF Body, after
  <2> QED
    BY <1>7
<1> DEFINE good == {i \in 0..n : after[i] \in ScanStates(text) /\ Scanned(text, after[i], i)}
<1>9. 0 \in good
  <2>1. after[0] = base
    <3> HIDE DEF after, base
    <3> QED
      BY <1>1, <1>8
  <2>2. 0 \in 0..n
    BY <1>1
  <2>3. OpenAt(text, 0) = {}
    BY <2>2, OpenIs
  <2>4. BalancedTo(text, 0) = {}
    BY PairsOfLines, <1>1 DEF BalancedTo
  <2>5. Scanned(text, base, 0)
    BY <2>3, <2>4, FoldsOfIs, EmptySeq DEF Scanned
  <2> HIDE DEF after, base
  <2> QED
    BY <1>2, <2>1, <2>2, <2>5
<1>10. ASSUME NEW i \in 1..n, i - 1 \in good PROVE i \in good
  <2>1. i \in 0..n /\ i # 0
    BY <1>1
  <2>2. after[i] = ScanNonnull(text, after[i - 1], i)
    <3> HIDE DEF after
    <3> QED
      BY <1>8, <2>1
  <2>3. after[i - 1] \in ScanStates(text) /\ Scanned(text, after[i - 1], i - 1)
    BY <1>10
  <2> HIDE DEF after
  <2> QED
    BY <2>1, <2>2, <2>3, ScanKeepsType, ScanStep
<1>11. n \in good
  <2> HIDE DEF good, n
  <2>1. 0..n \subseteq good
    BY <1>1, <1>9, <1>10, Upwards
  <2> QED
    BY <1>1, <2>1
<1>12. BalancedTo(text, n) = Balanced(text)
  BY <1>1, PairsOfLines DEF BalancedTo
<1>13. NonnullFolds(text) = after[n].folds
  BY DEF NonnullFolds
<1> QED
  BY <1>11, <1>12, <1>13 DEF Scanned

-----------------------------------------------------------------------------
(* Ranges of one kind do not cross *)

Crosses(f, g) == f.first < g.first /\ g.first <= f.last /\ f.last < g.last

LEMMA CrossOrNot ==
  ASSUME NEW f, NEW g, f.first \in Int, f.last \in Int, g.first \in Int, g.last \in Int,
         ~Crosses(f, g), ~Crosses(g, f)
  PROVE  Nested(f, g) \/ Nested(g, f) \/ Disjoint(f, g)
BY DEF Crosses, Nested, Disjoint

LEMMA BlockFoldIs ==
  ASSUME NEW text \in Seq(Line), NEW f \in BlockFolds(text)
  PROVE  /\ f.kind = "block" /\ f.first \in 1..Len(text) /\ f.last \in 1..Len(text)
         /\ text[f.first].kind \in HeadKinds /\ text[f.last].kind = "end"
         /\ \A i \in (f.first + 1)..(f.last - 1) : text[i].kind \notin HeadKinds \cup {"end"}
<1>1. PICK b \in Blocks(text) : f = Fold(b[1], b[2], "block")
  BY DEF BlockFolds
<1>2. f.kind = "block" /\ f.first = b[1] /\ f.last = b[2]
  BY <1>1 DEF Fold
<1>3. b[1] \in At(text, HeadKinds) /\ b[2] \in At(text, {"end"})
  BY DEF Blocks
<1>4. \A i \in (b[1] + 1)..(b[2] - 1) : text[i].kind \notin HeadKinds \cup {"end"}
  BY DEF Blocks
<1> QED
  BY <1>2, <1>3, <1>4, AtIs

LEMMA ImportFoldIs ==
  ASSUME NEW text \in Seq(Line), NEW f \in ImportFolds(text)
  PROVE  /\ f.kind = "imports" /\ f.first \in 1..Len(text) /\ f.last \in 1..Len(text)
         /\ \A i \in f.first..f.last : IsImport(text, i)
         /\ ~IsImport(text, f.last + 1)
<1>1. PICK p \in RunsFrom(text, 1) : f = Fold(p[1], p[2], "imports")
  BY ImportFoldsAre DEF FoldsOf
<1> QED
  BY <1>1 DEF Fold, RunsFrom

LEMMA NonnullFoldIs ==
  ASSUME NEW text \in Seq(Line), NEW f \in NonnullFolds(text)
  PROVE  /\ f.kind = "nonnull" /\ f.first \in 1..Len(text) /\ f.last \in 1..Len(text)
         /\ text[f.first].kind = "begin" /\ text[f.last].kind = "finish" /\ f.first < f.last
         /\ Excess(text, f.first, f.last) = 0
         /\ \A k \in f.first..(f.last - 1) : Excess(text, f.first, k) > 0
<1>1. PICK p \in Balanced(text) : f = Fold(p[1], p[2], "nonnull")
  BY NonnullFoldsAre DEF FoldsOf
<1>2. f.kind = "nonnull" /\ f.first = p[1] /\ f.last = p[2]
  BY <1>1 DEF Fold
<1>3. p[1] \in 1..Len(text) /\ p[2] \in 1..Len(text) /\ <<p[1], p[2]>> \in Balanced(text)
  BY PairsOfLines
<1> QED
  BY <1>2, <1>3, BalancedIs

LEMMA NoneCross ==
  ASSUME NEW text \in Seq(Line), NEW f \in FoldingRanges(text), NEW g \in FoldingRanges(text),
         f.kind = g.kind
  PROVE  ~Crosses(f, g)
<1> SUFFICES ASSUME Crosses(f, g) PROVE FALSE
  OBVIOUS
<1>1. f.first < g.first /\ g.first <= f.last /\ f.last < g.last
  BY DEF Crosses
<1>2. Len(text) \in Nat
  BY TextIs
<1>3. CASE f \in BlockFolds(text) /\ g \in BlockFolds(text)
  <2>1. /\ f.first \in 1..Len(text) /\ f.last \in 1..Len(text) /\ text[f.last].kind = "end"
        /\ \A i \in (f.first + 1)..(f.last - 1) : text[i].kind \notin HeadKinds \cup {"end"}
    BY <1>3, BlockFoldIs
  <2>2. g.first \in 1..Len(text) /\ text[g.first].kind \in HeadKinds
    BY <1>3, BlockFoldIs
  <2>3. g.first # f.last
    BY <2>1, <2>2 DEF HeadKinds
  <2>4. g.first \in (f.first + 1)..(f.last - 1)
    BY <1>1, <1>2, <2>1, <2>2, <2>3
  <2> QED
    BY <2>1, <2>2, <2>4
<1>4. CASE f \in ImportFolds(text) /\ g \in ImportFolds(text)
  <2>1. f.first \in 1..Len(text) /\ f.last \in 1..Len(text) /\ ~IsImport(text, f.last + 1)
    BY <1>4, ImportFoldIs
  <2>2. /\ g.first \in 1..Len(text) /\ g.last \in 1..Len(text)
        /\ \A i \in g.first..g.last : IsImport(text, i)
    BY <1>4, ImportFoldIs
  <2>3. f.last + 1 \in g.first..g.last
    BY <1>1, <1>2, <2>1, <2>2
  <2> QED
    BY <2>1, <2>2, <2>3
<1>5. CASE f \in PragmaFolds(text) /\ g \in PragmaFolds(text)
  <2>1. /\ f.first \in 1..Len(text) /\ f.last \in 1..Len(text)
        /\ \A i \in (f.first + 1)..f.last : text[i].kind \notin FoldedMarks \cup {"end"}
    BY <1>5, SectionsEnd, AtIs
  <2>2. g.first \in 1..Len(text) /\ text[g.first].kind \in FoldedMarks
    BY <1>5, SectionsEnd, AtIs
  <2>3. g.first \in (f.first + 1)..f.last
    BY <1>1, <1>2, <2>1, <2>2
  <2> QED
    BY <2>1, <2>2, <2>3
<1>6. CASE f \in NonnullFolds(text) /\ g \in NonnullFolds(text)
  <2> DEFINE b == f.first
             e == f.last
             c == g.first
             d == g.last
  <2>1. /\ b \in 1..Len(text) /\ e \in 1..Len(text) /\ text[e].kind = "finish"
        /\ Excess(text, b, e) = 0 /\ \A k \in b..(e - 1) : Excess(text, b, k) > 0
    BY <1>6, NonnullFoldIs
  <2>2. /\ c \in 1..Len(text) /\ d \in 1..Len(text) /\ text[c].kind = "begin"
        /\ \A k \in c..(d - 1) : Excess(text, c, k) > 0
    BY <1>6, NonnullFoldIs
  <2>3. b < c /\ c <= e /\ e < d
    BY <1>1
  <2> HIDE DEF b, c, d, e
  <2>4. c # e
    BY <2>1, <2>2
  <2>5. e \in c..(d - 1) /\ c - 1 \in b..(e - 1)
    BY <1>2, <2>1, <2>2, <2>3, <2>4
  <2>6. Excess(text, c, e) > 0 /\ Excess(text, b, c - 1) > 0
    BY <2>1, <2>2, <2>5
  <2>7. b \in Int /\ c \in Int /\ e \in Int /\ c - 1 \in Int /\ (c - 1) + 1 = c
    BY <1>2, <2>1, <2>2
  <2>8. Excess(text, b, e) = Excess(text, b, c - 1) + Excess(text, c, e)
    <3>1. b <= (c - 1) + 1 /\ c - 1 <= e
      BY <2>3, <2>7
    <3> QED
      BY <2>7, <3>1, ExcessSplit
  <2>9. Excess(text, c, e) \in Int /\ Excess(text, b, c - 1) \in Int
    BY <2>7, ExcessIs
  <2> QED
    BY <2>1, <2>6, <2>8, <2>9
<1>7. /\ \A h \in BlockFolds(text) : h.kind = "block"
      /\ \A h \in ImportFolds(text) : h.kind = "imports"
      /\ \A h \in PragmaFolds(text) : h.kind = "section"
      /\ \A h \in NonnullFolds(text) : h.kind = "nonnull"
  BY BlockFoldIs, ImportFoldIs, SectionsEnd, NonnullFoldIs
<1> QED
  BY <1>3, <1>4, <1>5, <1>6, <1>7 DEF FoldingRanges

LEMMA RangesAreLines ==
  ASSUME NEW text \in Seq(Line), NEW f \in FoldingRanges(text)
  PROVE  f.first \in Int /\ f.last \in Int
<1>1. f.first \in 1..Len(text) /\ f.last \in 1..Len(text)
  <2>1. CASE f \in BlockFolds(text)
    BY <2>1, BlockFoldIs
  <2>2. CASE f \in ImportFolds(text)
    BY <2>2, ImportFoldIs
  <2>3. CASE f \in PragmaFolds(text)
    BY <2>3, SectionsEnd, AtIs
  <2>4. CASE f \in NonnullFolds(text)
    BY <2>4, NonnullFoldIs
  <2> QED
    BY <2>1, <2>2, <2>3, <2>4 DEF FoldingRanges
<1> QED
  BY <1>1, TextIs

\* For every text: the folding ranges are the regions they are meant to be, and ranges of
\* one kind nest or are apart (collect_import_folds, collect_pragma_mark_folds,
\* collect_nonnull_folds).
THEOREM FoldsOfEveryText ==
  ASSUME NEW text \in Seq(Line)
  PROVE  FoldsRegions(text)
<1>1. ImportFolds(text) = {Fold(r[1], r[2], "imports") :
                             r \in {q \in MaximalRuns(text, "import") : q[1] < q[2]}}
  BY ImportFoldsAre, RunsAreMaximal DEF FoldsOf
<1>2. NonnullFolds(text) = {Fold(p[1], p[2], "nonnull") : p \in Balanced(text)}
  BY NonnullFoldsAre DEF FoldsOf
<1>3. ASSUME NEW f \in PragmaFolds(text)
      PROVE  /\ \A i \in (f.first + 1)..f.last : text[i].kind \notin FoldedMarks \cup {"end"}
             /\ f.last = Len(text) \/ text[f.last + 1].kind \in FoldedMarks \cup {"end"}
  BY SectionsEnd
<1>4. ASSUME NEW f \in FoldingRanges(text), NEW g \in FoldingRanges(text), f.kind = g.kind
      PROVE  Nested(f, g) \/ Nested(g, f) \/ Disjoint(f, g)
  BY <1>4, NoneCross, RangesAreLines, CrossOrNot
<1> QED
  BY <1>1, <1>2, <1>3, <1>4 DEF FoldsRegions

-----------------------------------------------------------------------------
(* The nullability checker *)

\* What it takes for the begin and for the finish of a region.
Begins == {"begin", "beginMention"}
Finishes == {"finish", "finishMention"}

LEMMA BeginsApart == Begins \cap Finishes = {}
BY DEF Begins, Finishes

\* What its flag says of line i: a begin came, and no finish since.
FlagAt(text, i) ==
  \E b \in 1..i : text[b].kind \in Begins /\ \A k \in b..i : text[k].kind \notin Finishes

LEMMA InsideStep ==
  ASSUME NEW text \in Seq(Line), NEW i \in 1..Len(text)
  PROVE  /\ text[i].kind \in Begins => FlagAt(text, i)
         /\ text[i].kind \in Finishes => ~FlagAt(text, i)
         /\ text[i].kind \notin Begins \cup Finishes => (FlagAt(text, i) <=> FlagAt(text, i - 1))
<1>1. i \in Int /\ i >= 1
  BY TextIs
<1>2. ASSUME text[i].kind \in Begins PROVE FlagAt(text, i)
  <2>1. \A k \in i..i : text[k].kind \notin Finishes
    BY <1>1, <1>2, BeginsApart
  <2> QED
    BY <1>1, <1>2, <2>1 DEF FlagAt
<1>3. ASSUME text[i].kind \in Finishes PROVE ~FlagAt(text, i)
  BY <1>1, <1>3 DEF FlagAt
<1>4. ASSUME text[i].kind \notin Begins \cup Finishes, FlagAt(text, i) PROVE FlagAt(text, i - 1)
  <2>1. PICK b \in 1..i : text[b].kind \in Begins /\ \A k \in b..i : text[k].kind \notin Finishes
    BY <1>4 DEF FlagAt
  <2>2. b \in 1..(i - 1) /\ \A k \in b..(i - 1) : k \in b..i
    BY <1>1, <1>4, <2>1
  <2> QED
    BY <2>1, <2>2 DEF FlagAt
<1>5. ASSUME text[i].kind \notin Begins \cup Finishes, FlagAt(text, i - 1) PROVE FlagAt(text, i)
  <2>1. PICK b \in 1..(i - 1) : text[b].kind \in Begins /\ \A k \in b..(i - 1) : text[k].kind \notin Finishes
    BY <1>5 DEF FlagAt
  <2>2. b \in 1..i /\ \A k \in b..i : k = i \/ k \in b..(i - 1)
    BY <1>1, <2>1
  <2>3. \A k \in b..i : text[k].kind \notin Finishes
    BY <1>5, <2>1, <2>2
  <2> QED
    BY <2>1, <2>2, <2>3 DEF FlagAt
<1> QED
  BY <1>2, <1>3, <1>4, <1>5

\* The scan with a flag warns of the declarations that no begin without a finish precedes.
LEMMA WarnedAre ==
  ASSUME NEW text \in Seq(Line)
  PROVE  Warned(text) = {m \in At(text, {"method"}) : ~FlagAt(text, m)}
<1> DEFINE n == Len(text)
           Body(f, i) ==
             IF i = 0 THEN FALSE
             ELSE CASE text[i].kind \in Begins   -> TRUE
                    [] text[i].kind \in Finishes -> FALSE
                    [] OTHER -> f[i - 1]
           inside == CHOOSE f : f = [i \in 0..n |-> Body(f, i)]
           flags == [i \in 0..n |-> FlagAt(text, i)]
<1>1. n \in Nat
  BY TextIs
<1>2. \A i \in 0..n : flags[i] = FlagAt(text, i)
  OBVIOUS
<1>3. ASSUME NEW i \in 0..n PROVE flags[i] = Body(flags, i)
  <2>1. CASE i = 0
    <3>1. ~FlagAt(text, 0)
      BY DEF FlagAt
    <3>2. FlagAt(text, 0) = FALSE
      <4>1. FlagAt(text, 0) \in BOOLEAN
        BY DEF FlagAt
      <4> QED
        BY <3>1, <4>1
    <3>3. flags[i] = FALSE
      BY <1>2, <2>1, <3>2
    <3>4. Body(flags, i) = FALSE
      <4> HIDE DEF flags
      <4> QED
        BY <2>1
    <3> QED
      BY <3>3, <3>4
  <2>2. CASE i # 0
    <3>1. i \in 1..n /\ i - 1 \in 0..n
      BY <1>1, <2>2
    <3>2. CASE text[i].kind \in Begins
      <4>1. FlagAt(text, i)
        BY <3>1, <3>2, InsideStep
      <4> QED
        BY <2>2, <3>2, <4>1
    <3>3. CASE text[i].kind \in Finishes
      <4>1. ~FlagAt(text, i)
        BY <3>1, <3>3, InsideStep
      <4>2. FlagAt(text, i) = FALSE
        <5>1. FlagAt(text, i) \in BOOLEAN
          BY DEF FlagAt
        <5> QED
          BY <4>1, <5>1
      <4>3. Body(flags, i) = FALSE
        <5> HIDE DEF flags
        <5> QED
          BY <2>2, <3>3
      <4>4. flags[i] = FlagAt(text, i)
        BY <1>2
      <4> HIDE DEF flags
      <4> QED
        BY <4>2, <4>3, <4>4
    <3>4. CASE text[i].kind \notin Begins \cup Finishes
      <4>1. FlagAt(text, i) <=> FlagAt(text, i - 1)
        BY <3>1, <3>4, InsideStep
      <4>2. FlagAt(text, i) \in BOOLEAN /\ FlagAt(text, i - 1) \in BOOLEAN
        BY DEF FlagAt
      <4>3. FlagAt(text, i) = FlagAt(text, i - 1)
        BY <4>1, <4>2
      <4>4. flags[i] = flags[i - 1]
        BY <3>1, <4>3
      <4>5. Body(flags, i) = flags[i - 1]
        <5> HIDE DEF flags
        <5> QED
          BY <2>2, <3>4
      <4> QED
        BY <4>4, <4>5
    <3> QED
      BY <3>2, <3>3, <3>4
  <2> QED
    BY <2>1, <2>2
<1>4. flags = [i \in 0..n |-> Body(flags, i)]
  <2> DEFINE again == [i \in 0..n |-> Body(flags, i)]
  <2>1. \A i \in 0..n : flags[i] = again[i]
    BY <1>3
  <2> HIDE DEF Body
  <2> QED
    BY <2>1
<1>5. inside = [i \in 0..n |-> Body(inside, i)]
  <2> HIDE DEF Body, flags
  <2> QED
    BY <1>4
<1>6. \A i \in 0..n : inside[i] = Body(inside, i)
  <2> HIDE DEF Body, inside
  <2> QED
    BY <1>5
<1> DEFINE same == {i \in 0..n : inside[i] = flags[i]}
<1>7. 0 \in same
  <2>1. 0 \in 0..n
    BY <1>1
  <2>2. inside[0] = FALSE
    <3> HIDE DEF inside
    <3> QED
      BY <1>6, <2>1
  <2>3. flags[0] = FALSE
    <3> HIDE DEF flags
    <3> QED
      BY <1>3, <2>1
  <2> QED
    BY <2>1, <2>2, <2>3
<1>8. ASSUME NEW i \in 1..n, i - 1 \in same PROVE i \in same
  <2>1. i \in 0..n /\ inside[i - 1] = flags[i - 1]
    BY <1>1, <1>8
  <2>2. Body(inside, i) = Body(flags, i)
    <3> HIDE DEF inside, flags
    <3> QED
      BY <2>1
  <2> HIDE DEF inside, flags, Body
  <2> QED
    BY <1>3, <1>6, <2>1, <2>2
<1>9. \A i \in 0..n : inside[i] = flags[i]
  <2> HIDE DEF same, n
  <2>1. 0..n \subseteq same
    BY <1>1, <1>7, <1>8, Upwards
  <2> QED
    BY <2>1 DEF same
<1>10. Warned(text) = {m \in At(text, {"method"}) : ~inside[m]}
  BY DEF Warned, Begins, Finishes
<1>11. \A m \in At(text, {"method"}) : m \in 0..n
  BY <1>1, AtIs
<1>12. \A m \in At(text, {"method"}) : inside[m] = FlagAt(text, m)
  <2> HIDE DEF inside
  <2> QED
    BY <1>9, <1>11
<1> HIDE DEF inside
<1> QED
  BY <1>10, <1>12

\* The same of the lines that are a macro and nothing else.
InsideAt(text, i) ==
  \E b \in 1..i : text[b].kind = "begin" /\ \A k \in b..i : text[k].kind # "finish"

LEMMA FlagIsInside ==
  ASSUME NEW text \in Seq(Line), NEW m \in 1..Len(text),
         \A i \in 1..m : text[i].kind \notin {"beginMention", "finishMention"}
  PROVE  FlagAt(text, m) <=> InsideAt(text, m)
<1>1. \A b \in 1..m : b \in Int /\ \A k \in b..m : k \in 1..m
  BY TextIs
<1>2. \A i \in 1..m : /\ text[i].kind \in Begins <=> text[i].kind = "begin"
                      /\ text[i].kind \in Finishes <=> text[i].kind = "finish"
  BY DEF Begins, Finishes
<1> QED
  BY <1>1, <1>2 DEF FlagAt, InsideAt

\* Where regions do not nest, the first finish after a begin balances it.
LEMMA FirstFinish ==
  ASSUME NEW text \in Seq(Line),
         \A i, j \in At(text, {"begin"}) : i < j => Count(text, "finish", i, j) > 0,
         NEW b \in 1..Len(text), NEW e \in 1..Len(text), b < e, text[b].kind = "begin",
         text[e].kind = "finish", \A k \in b..(e - 1) : text[k].kind # "finish"
  PROVE  Excess(text, b, e) = 0 /\ \A k \in b..(e - 1) : Excess(text, b, k) = 1
<1>1. Len(text) \in Nat /\ b \in Int /\ e \in Int /\ b + 1 \in Int
  BY TextIs
<1>2. ASSUME NEW j \in (b + 1)..e PROVE text[j].kind # "begin"
  <2> SUFFICES ASSUME text[j].kind = "begin" PROVE FALSE
    OBVIOUS
  <2>1. b \in At(text, {"begin"}) /\ j \in At(text, {"begin"}) /\ b < j /\ j \in Int
    BY <1>1, AtIs
  <2>2. Count(text, "finish", b, j) > 0
    BY <2>1
  <2>3. \A k \in b..j : k = j \/ k \in b..(e - 1)
    BY <1>1, <2>1
  <2>4. \A k \in b..j : text[k].kind # "finish"
    BY <2>3
  <2>5. Count(text, "finish", b, j) = 0
    BY <1>1, <2>1, <2>4, CountZero
  <2> QED
    BY <2>2, <2>5
<1>3. ASSUME NEW k \in b..e PROVE Count(text, "begin", b, k) = 1
  <2>1. k \in Int
    BY <1>1
  <2>2. Count(text, "begin", b, k) = Count(text, "begin", b, b) + Count(text, "begin", b + 1, k)
    BY <1>1, <2>1, CountSplit
  <2>3. Count(text, "begin", b, b) = 1
    BY <1>1, CountOne
  <2>4. \A j \in (b + 1)..k : text[j].kind # "begin"
    BY <1>1, <1>2, <2>1
  <2>5. Count(text, "begin", b + 1, k) = 0
    BY <1>1, <2>1, <2>4, CountZero
  <2> QED
    BY <2>2, <2>3, <2>5
<1>4. ASSUME NEW k \in b..(e - 1) PROVE Count(text, "finish", b, k) = 0
  <2>1. k \in Int /\ \A j \in b..k : j \in b..(e - 1)
    BY <1>1
  <2> QED
    BY <1>1, <2>1, CountZero
<1>5. Excess(text, b, e) = Excess(text, b, e - 1) - 1 /\ Excess(text, b, e - 1) \in Int
  <2>1. b \in 1..(e - 1)
    BY <1>1
  <2> QED
    BY <2>1, ExcessGrows
<1>6. \A k \in b..(e - 1) : Excess(text, b, k) = 1
  <2>1. \A k \in b..(e - 1) : k \in b..e
    BY <1>1
  <2> QED
    BY <1>3, <1>4, <2>1 DEF Excess
<1>7. e - 1 \in b..(e - 1)
  BY <1>1
<1> QED
  BY <1>5, <1>6, <1>7

\* The first finish of those after a line.
LEMMA FinishAfter ==
  ASSUME NEW text \in Seq(Line), NEW b \in 1..Len(text), NEW x \in b..Len(text),
         text[x].kind = "finish"
  PROVE  \E e \in b..x : text[e].kind = "finish" /\ \A k \in b..(e - 1) : text[k].kind # "finish"
<1> DEFINE F == {k \in b..x : text[k].kind = "finish"}
<1>1. Len(text) \in Nat /\ b \in Int /\ x \in b..x
  BY TextIs
<1>2. F \subseteq Nat /\ x \in F
  BY <1>1
<1>3. Min(F) \in F /\ \A k \in F : Min(F) <= k
  <2> HIDE DEF F
  <2> QED
    BY <1>2, NatMin
<1> DEFINE e == Min(F)
<1> HIDE DEF e
<1>4. e \in b..x /\ text[e].kind = "finish"
  BY <1>3 DEF e
<1>5. \A k \in b..(e - 1) : k \in b..x /\ ~(e <= k)
  BY <1>1, <1>4
<1>6. \A k \in b..(e - 1) : text[k].kind # "finish"
  BY <1>3, <1>5 DEF e
<1> QED
  BY <1>4, <1>6

\* For every text whose regions do not nest: the declarations the nullability checker warns
\* of are those outside every region that folds and after no region that is still open,
\* up to the first line that mentions a macro (nullability_diagnostics, collect_nonnull_folds).
THEOREM WarningsOfEveryText ==
  ASSUME NEW text \in Seq(Line)
  PROVE  WarnsOutsideFolds(text)
<1> DEFINE n == Len(text)
           apart == \A i, j \in At(text, {"begin"}) : i < j => Count(text, "finish", i, j) > 0
           Outside(m) ==
             /\ \A f \in NonnullFolds(text) : ~(f.first < m /\ m < f.last)
             /\ \A b \in At(text, {"begin"}) : b < m => Count(text, "finish", b, n) > 0
<1>1. n \in Nat
  BY TextIs
<1>2. ASSUME apart, NEW m \in At(text, {"method"}), ~InsideAt(text, m) PROVE Outside(m)
  <2>1. m \in 1..n /\ text[m].kind = "method"
    BY AtIs
  <2>2. ASSUME NEW f \in NonnullFolds(text), f.first < m, m < f.last PROVE FALSE
    <3> DEFINE b == f.first
    <3>1. /\ b \in 1..n /\ f.last \in 1..n /\ text[b].kind = "begin"
          /\ \A k \in b..(f.last - 1) : Excess(text, b, k) > 0
      BY NonnullFoldIs
    <3>2. b < m /\ m < f.last
      BY <2>2
    <3> HIDE DEF b
    <3>3. PICK x \in b..m : text[x].kind = "finish"
      <4>1. b \in 1..m
        BY <1>1, <2>1, <3>1, <3>2
      <4> QED
        BY <1>2, <3>1, <4>1 DEF InsideAt
    <3>4. x \in b..n
      BY <1>1, <2>1, <3>3
    <3>5. PICK e \in b..x : text[e].kind = "finish" /\ \A k \in b..(e - 1) : text[k].kind # "finish"
      BY <3>1, <3>3, <3>4, FinishAfter
    <3>6. e # b
      BY <3>1, <3>5
    <3>7. e \in 1..n /\ b < e /\ e \in b..(f.last - 1)
      BY <1>1, <2>1, <3>1, <3>2, <3>3, <3>5, <3>6
    <3>8. Excess(text, b, e) = 0
      BY <1>2, <3>1, <3>5, <3>7, FirstFinish
    <3> QED
      BY <3>1, <3>7, <3>8
  <2>3. ASSUME NEW b \in At(text, {"begin"}), b < m PROVE Count(text, "finish", b, n) > 0
    <3>1. b \in 1..n /\ b \in 1..m /\ text[b].kind = "begin"
      BY <1>1, <2>1, <2>3, AtIs
    <3>2. PICK x \in b..m : text[x].kind = "finish"
      BY <1>2, <3>1 DEF InsideAt
    <3>3. x \in b..n
      BY <1>1, <2>1, <3>2
    <3>4. Count(text, "finish", b, n) \in Nat
      <4>1. b \in Int /\ n \in Int
        BY <1>1, <3>1
      <4> HIDE DEF n
      <4> QED
        BY <4>1, CountIs
    <3>5. Count(text, "finish", b, n) # 0
      <4> SUFFICES ASSUME Count(text, "finish", b, n) = 0 PROVE FALSE
        OBVIOUS
      <4>1. b \in Int /\ n \in Int
        BY <1>1, <3>1
      <4>2. \A k \in b..n : text[k].kind # "finish"
        BY <4>1, CountZero
      <4> QED
        BY <3>2, <3>3, <4>2
    <3> QED
      BY <3>4, <3>5
  <2> QED
    BY <2>2, <2>3
<1>3. ASSUME apart, NEW m \in At(text, {"method"}), Outside(m) PROVE ~InsideAt(text, m)
  <2> SUFFICES ASSUME InsideAt(text, m) PROVE FALSE
    OBVIOUS
  <2>1. m \in 1..n /\ text[m].kind = "method"
    BY AtIs
  <2>2. PICK b \in 1..m : text[b].kind = "begin" /\ \A k \in b..m : text[k].kind # "finish"
    BY DEF InsideAt
  <2>3. b \in 1..n /\ b < m /\ b \in At(text, {"begin"})
    <3>1. b # m
      BY <2>1, <2>2
    <3>2. b \in 1..n
      BY <1>1, <2>1, <2>2
    <3> QED
      BY <1>1, <2>1, <2>2, <3>1, <3>2, AtIs
  <2>4. Count(text, "finish", b, n) # 0
    BY <1>3, <2>3
  <2>5. PICK x \in b..n : text[x].kind = "finish"
    BY <1>1, <2>3, <2>4, CountZero
  <2>6. PICK e \in b..x : text[e].kind = "finish" /\ \A k \in b..(e - 1) : text[k].kind # "finish"
    BY <2>3, <2>5, FinishAfter
  <2>7. e \in 1..n /\ e \notin b..m /\ b < e
    <3>1. e \notin b..m
      BY <2>2, <2>6
    <3> QED
      BY <1>1, <2>1, <2>3, <2>5, <2>6, <3>1
  <2>8. m < e
    BY <1>1, <2>1, <2>3, <2>7
  <2>9. Excess(text, b, e) = 0 /\ \A k \in b..(e - 1) : Excess(text, b, k) = 1
    BY <1>3, <2>2, <2>3, <2>6, <2>7, FirstFinish
  <2>10. <<b, e>> \in Balanced(text)
    <3>1. \A k \in b..(e - 1) : Excess(text, b, k) > 0
      BY <2>9
    <3> QED
      BY <2>2, <2>3, <2>6, <2>7, <2>9, <3>1, BalancedIs
  <2>11. Fold(b, e, "nonnull") \in NonnullFolds(text)
    <3>1. Fold(<<b, e>>[1], <<b, e>>[2], "nonnull") \in FoldsOf(Balanced(text), "nonnull")
      BY <2>10 DEF FoldsOf
    <3> QED
      BY <3>1, NonnullFoldsAre
  <2>12. Fold(b, e, "nonnull").first = b /\ Fold(b, e, "nonnull").last = e
    BY DEF Fold
  <2> QED
    BY <1>3, <2>3, <2>8, <2>11, <2>12
<1>4. ASSUME apart, NEW m \in At(text, {"method"}),
             \A i \in 1..m : text[i].kind \notin {"beginMention", "finishMention"}
      PROVE  m \in Warned(text) <=> Outside(m)
  <2>1. m \in 1..n
    BY AtIs
  <2> HIDE DEF apart, Outside
  <2>2. FlagAt(text, m) <=> InsideAt(text, m)
    BY <1>4, <2>1, FlagIsInside
  <2>3. InsideAt(text, m) <=> ~Outside(m)
    BY <1>2, <1>3, <1>4
  <2> QED
    BY <2>2, <2>3, WarnedAre
<1> QED
  BY <1>4 DEF WarnsOutsideFolds

-----------------------------------------------------------------------------
(* Every state is a text *)

TextTyped == lines \in Seq(Line) /\ alphabet \subseteq Line

\* The editor writes lines of its alphabet.
LEMMA TextsTyped == Spec => []TextTyped
<1>1. Init => TextTyped
  BY TextAssumption, EmptySeq DEF Init, TextTyped
<1>2. TextTyped /\ [Next]_vars => TextTyped'
  <2> SUFFICES ASSUME TextTyped, [Next]_vars PROVE TextTyped'
    OBVIOUS
  <2>1. CASE AddLine
    <3>1. PICK line \in alphabet : lines' = Append(lines, line)
      BY <2>1 DEF AddLine
    <3>2. alphabet' = alphabet
      BY <2>1 DEF AddLine
    <3>3. line \in Line
      BY DEF TextTyped
    <3> QED
      BY <3>1, <3>2, <3>3, AppendProperties DEF TextTyped
  <2>2. CASE UNCHANGED vars
    BY <2>2 DEF vars, TextTyped
  <2> QED
    BY <2>1, <2>2 DEF Next
<1> QED
  BY <1>1, <1>2, PTL DEF Spec

\* Folding ranges are the regions they are meant to be in every text an editor writes.
THEOREM FoldsAlwaysRegions == Spec => []FoldsAreRegions
<1>1. TextTyped => FoldsAreRegions
  BY FoldsOfEveryText DEF TextTyped, FoldsAreRegions
<1> QED
  BY <1>1, TextsTyped, PTL

\* The checker's warnings and the folds of regions agree in every text an editor writes, up to
\* the first line that only the checker takes for a macro.
THEOREM WarningsAlwaysMatch == Spec => []WarningsMatchFolds
<1>1. TextTyped => WarningsMatchFolds
  BY WarningsOfEveryText DEF TextTyped, WarningsMatchFolds
<1> QED
  BY <1>1, TextsTyped, PTL

-----------------------------------------------------------------------------
(* The members of a set in order *)

Rank(S, x) == Cardinality({y \in S : y < x})

LEMMA RankIs ==
  ASSUME NEW n \in Nat, NEW S, S \subseteq 1..n
  PROVE  /\ IsFiniteSet(S) /\ Cardinality(S) \in Nat
         /\ \A x \in S : Rank(S, x) \in 0..(Cardinality(S) - 1)
         /\ \A x, y \in S : x < y => Rank(S, x) < Rank(S, y)
<1>1. IsFiniteSet(S) /\ Cardinality(S) \in Nat
  <2>1. IsFiniteSet(1..n) /\ S \in SUBSET (1..n)
    BY FS_Interval
  <2>2. IsFiniteSet(S)
    BY <2>1, FS_Subset
  <2> QED
    BY <2>2, FS_CardinalityType
<1>2. ASSUME NEW x \in S
      PROVE  IsFiniteSet({y \in S : y < x}) /\ Rank(S, x) \in Nat
  <2>1. {y \in S : y < x} \in SUBSET S
    OBVIOUS
  <2>2. IsFiniteSet({y \in S : y < x})
    BY <1>1, <2>1, FS_Subset
  <2> QED
    BY <2>2, FS_CardinalityType DEF Rank
<1>3. ASSUME NEW x \in S PROVE Rank(S, x) \in 0..(Cardinality(S) - 1)
  <2> DEFINE below == {y \in S : y < x}
             rest == S \ {x}
  <2>1. below \in SUBSET rest
    OBVIOUS
  <2>2. IsFiniteSet(rest) /\ Cardinality(rest) = Cardinality(S) - 1
    BY <1>1, FS_RemoveElement
  <2> HIDE DEF below, rest
  <2>3. Cardinality(below) <= Cardinality(rest)
    BY <2>1, <2>2, FS_Subset
  <2>4. Cardinality(below) <= Cardinality(S) - 1 /\ Rank(S, x) = Cardinality(below)
    BY <2>2, <2>3 DEF Rank, below
  <2>5. Rank(S, x) \in Nat
    BY <1>2
  <2> QED
    BY <1>1, <2>4, <2>5
<1>4. ASSUME NEW x \in S, NEW y \in S, x < y PROVE Rank(S, x) < Rank(S, y)
  <2> DEFINE low == {z \in S : z < x}
             high == {z \in S : z < y}
  <2>0. x \in Int /\ y \in Int /\ \A z \in S : z \in Int
    OBVIOUS
  <2>1. x \notin low /\ low \cup {x} \in SUBSET high
    <3>1. x \notin low /\ x \in high
      BY <1>4, <2>0
    <3>2. \A z \in S : z < x => z < y
      BY <1>4, <2>0
    <3>3. low \subseteq high
      BY <3>2
    <3> QED
      BY <3>1, <3>3
  <2>2. IsFiniteSet(low) /\ IsFiniteSet(high)
    BY <1>2
  <2> HIDE DEF low, high
  <2>3. Cardinality(low \cup {x}) = Cardinality(low) + 1
    BY <2>1, <2>2, FS_AddElement
  <2>4. Cardinality(low \cup {x}) <= Cardinality(high)
    BY <2>1, <2>2, FS_Subset
  <2>5. Rank(S, x) = Cardinality(low) /\ Rank(S, y) = Cardinality(high)
    BY DEF Rank, low, high
  <2>6. Rank(S, x) \in Nat /\ Rank(S, y) \in Nat
    BY <1>2
  <2> QED
    BY <2>3, <2>4, <2>5, <2>6
<1> QED
  BY <1>1, <1>3, <1>4

LEMMA InOrderIs ==
  ASSUME NEW n \in Nat, NEW S, S \subseteq 1..n
  PROVE  /\ Len(InOrder(S)) = Cardinality(S) /\ Cardinality(S) \in Nat
         /\ DOMAIN InOrder(S) = 1..Cardinality(S) /\ InOrder(S) \in Seq(S)
         /\ \A i \in 1..Cardinality(S) : InOrder(S)[i] \in S
         /\ \A i, j \in 1..Cardinality(S) : i < j => InOrder(S)[i] < InOrder(S)[j]
         /\ \A x \in S : \E i \in 1..Cardinality(S) : InOrder(S)[i] = x
<1> DEFINE c == Cardinality(S)
           rank == [x \in S |-> Rank(S, x)]
<1>1. IsFiniteSet(S) /\ c \in Nat
  BY RankIs
<1>2. \A x \in S : x \in Int
  OBVIOUS
<1>3. rank \in [S -> 0..(c - 1)]
  BY RankIs
<1>4. ASSUME NEW x \in S, NEW y \in S, rank[x] = rank[y] PROVE x = y
  <2>1. Rank(S, x) = Rank(S, y) /\ Rank(S, x) \in Int
    BY <1>3, <1>4
  <2>2. ~(x < y)
    <3>1. x < y => Rank(S, x) < Rank(S, y)
      BY RankIs
    <3> QED
      BY <2>1, <3>1
  <2>3. ~(y < x)
    <3>1. y < x => Rank(S, y) < Rank(S, x)
      BY RankIs
    <3> QED
      BY <2>1, <3>1
  <2> QED
    BY <1>2, <2>2, <2>3
<1>5. IsFiniteSet(0..(c - 1)) /\ Cardinality(0..(c - 1)) = c
  BY <1>1, FS_Interval
<1>6. rank \in Injection(S, 0..(c - 1))
  BY <1>3, <1>4, Zenon DEF Injection, IsInjective
<1>7. rank \in Surjection(S, 0..(c - 1))
  BY <1>5, <1>6, FS_Injection
<1>8. \A k \in 0..(c - 1) : \E x \in S : rank[x] = k
  BY <1>7, Zenon DEF Surjection
<1>9. ASSUME NEW i \in 1..c PROVE InOrder(S)[i] \in S /\ rank[InOrder(S)[i]] = i - 1
  <2>1. \E x \in S : Rank(S, x) = i - 1
    BY <1>1, <1>8
  <2>2. InOrder(S)[i] = CHOOSE x \in S : Rank(S, x) = i - 1
    BY DEF InOrder, Rank
  <2> QED
    BY <2>1, <2>2
<1>10. DOMAIN InOrder(S) = 1..c
  BY DEF InOrder
<1>11. InOrder(S) \in Seq(S) /\ Len(InOrder(S)) = c
  <2> DEFINE pick(i) == CHOOSE x \in S : Cardinality({y \in S : y < x}) = i - 1
  <2>1. InOrder(S) = [i \in 1..c |-> pick(i)]
    BY DEF InOrder
  <2> HIDE DEF pick
  <2>2. InOrder(S) \in [1..c -> S]
    BY <1>9, <2>1
  <2> QED
    BY <1>1, <2>2
<1>12. ASSUME NEW i \in 1..c, NEW j \in 1..c, i < j PROVE InOrder(S)[i] < InOrder(S)[j]
  <2> DEFINE x == InOrder(S)[i]
             y == InOrder(S)[j]
  <2>1. x \in S /\ y \in S /\ rank[x] = i - 1 /\ rank[y] = j - 1
    BY <1>9
  <2>2. Rank(S, x) < Rank(S, y)
    BY <1>12, <2>1
  <2> HIDE DEF x, y
  <2>3. x \in Int /\ y \in Int /\ Rank(S, x) \in Int /\ Rank(S, y) \in Int
    BY <1>2, <1>3, <2>1, RankIs
  <2>4. ~(y < x)
    <3>1. y < x => Rank(S, y) < Rank(S, x)
      BY <2>1, RankIs
    <3> QED
      BY <2>2, <2>3, <3>1
  <2>6. x # y
    BY <2>2, <2>3
  <2>5. x < y
    BY <2>3, <2>4, <2>6
  <2> QED
    BY <2>5 DEF x, y
<1>13. ASSUME NEW x \in S PROVE \E i \in 1..c : InOrder(S)[i] = x
  <2>1. rank[x] \in 0..(c - 1)
    BY <1>3
  <2>2. rank[x] + 1 \in 1..c /\ (rank[x] + 1) - 1 = rank[x]
    BY <1>1, <2>1
  <2>3. InOrder(S)[rank[x] + 1] \in S /\ rank[InOrder(S)[rank[x] + 1]] = rank[x]
    BY <1>9, <2>2
  <2> QED
    BY <1>4, <2>2, <2>3
<1> QED
  BY <1>1, <1>9, <1>10, <1>11, <1>12, <1>13

\* Positions in order: the next one is the next member.
LEMMA InOrderUnique ==
  ASSUME NEW n \in Nat, NEW S, S \subseteq 1..n,
         NEW i \in 1..Cardinality(S), NEW j \in 1..Cardinality(S)
  PROVE  /\ InOrder(S)[i] = InOrder(S)[j] => i = j
         /\ InOrder(S)[i] < InOrder(S)[j] => i < j
<1>1. InOrder(S)[i] \in Int /\ InOrder(S)[j] \in Int /\ i \in Int /\ j \in Int
  <2>1. InOrder(S)[i] \in S /\ InOrder(S)[j] \in S /\ Cardinality(S) \in Nat
    BY InOrderIs
  <2>2. \A x \in S : x \in Int
    OBVIOUS
  <2>3. i \in Int /\ j \in Int
    BY <2>1
  <2>4. InOrder(S)[i] \in Int /\ InOrder(S)[j] \in Int
    BY <2>1, <2>2
  <2> QED
    BY <2>3, <2>4
<1>2. i < j => InOrder(S)[i] < InOrder(S)[j]
  BY InOrderIs
<1>3. j < i => InOrder(S)[j] < InOrder(S)[i]
  BY InOrderIs
<1> QED
  BY <1>1, <1>2, <1>3

-----------------------------------------------------------------------------
(* The patterns of the fallback *)

Solid(text, i) == i \in 1..Len(text) /\ text[i].kind # "blank"

\* A match begins at the blank lines before its line.
LEMMA MatchIs ==
  ASSUME NEW text \in Seq(Line), NEW i \in 1..Len(text)
  PROVE  /\ MatchLine(text, i) \in 1..i
         /\ \A k \in MatchLine(text, i)..(i - 1) : text[k].kind = "blank"
<1> DEFINE starts == {j \in 1..i : \A k \in j..(i - 1) : text[k].kind = "blank"}
           m == Min(starts)
<1>1. i \in 1..i /\ i \in Int
  BY TextIs
<1>2. i \in starts /\ starts \subseteq Nat
  BY <1>1
<1>3. m \in starts /\ \A j \in starts : m <= j
  <2> HIDE DEF starts
  <2> QED
    BY <1>2, NatMin
<1> HIDE DEF m
<1>4. m \in 1..i /\ \A k \in m..(i - 1) : text[k].kind = "blank"
  BY <1>3
<1>5. ASSUME m > 1 PROVE text[m - 1].kind # "blank"
  <2> SUFFICES ASSUME text[m - 1].kind = "blank" PROVE FALSE
    OBVIOUS
  <2>1. m - 1 \in 1..i /\ ~(m <= m - 1) /\ \A k \in (m - 1)..(i - 1) : k = m - 1 \/ k \in m..(i - 1)
    BY <1>1, <1>4, <1>5
  <2>2. m - 1 \in starts
    BY <1>4, <2>1
  <2> QED
    BY <1>3, <2>1, <2>2
<1>6. \E j \in 1..i : (\A k \in j..(i - 1) : text[k].kind = "blank") /\ (j > 1 => text[j - 1].kind # "blank")
  BY <1>4, <1>5
<1> QED
  BY <1>6 DEF MatchLine

\* Matches come in the order of their lines, and no line of one is in another.
LEMMA MatchOrder ==
  ASSUME NEW text \in Seq(Line), NEW i, NEW j, Solid(text, i), Solid(text, j)
  PROVE  /\ i < j <=> i < MatchLine(text, j)
         /\ i < j <=> MatchLine(text, i) < MatchLine(text, j)
         /\ MatchLine(text, i) = MatchLine(text, j) => i = j
         /\ MatchLine(text, i) \in 1..Len(text)
<1>1. Len(text) \in Nat /\ i \in 1..Len(text) /\ j \in 1..Len(text)
  BY TextIs DEF Solid
<1>2. MatchLine(text, i) \in 1..i /\ MatchLine(text, j) \in 1..j
  BY <1>1, MatchIs
<1>3. ASSUME i < j PROVE i < MatchLine(text, j)
  <2>1. i \notin MatchLine(text, j)..(j - 1)
    BY <1>1, MatchIs DEF Solid
  <2> QED
    BY <1>1, <1>2, <1>3, <2>1
<1>4. ASSUME j < i PROVE j < MatchLine(text, i)
  <2>1. j \notin MatchLine(text, i)..(i - 1)
    BY <1>1, MatchIs DEF Solid
  <2> QED
    BY <1>1, <1>2, <1>4, <2>1
<1> QED
  BY <1>1, <1>2, <1>3, <1>4

-----------------------------------------------------------------------------
(* Blocks *)

HeadsOf(text) == At(text, HeadKinds)
StartsOf(text) == At(text, StartKinds)
EndsOf(text) == At(text, {"end"})

\* The end that tree-sitter pairs with a head.
BlockEnd(text, s) == CHOOSE e \in DOMAIN text : <<s, e>> \in Blocks(text)

LEMMA KindsAreSolid ==
  ASSUME NEW text \in Seq(Line)
  PROVE  /\ \A i \in HeadsOf(text) \cup EndsOf(text) \cup At(text, MemberKinds) : Solid(text, i)
         /\ HeadsOf(text) \subseteq 1..Len(text) /\ EndsOf(text) \subseteq 1..Len(text)
         /\ At(text, MemberKinds) \subseteq 1..Len(text)
         /\ HeadsOf(text) \cap EndsOf(text) = {}
BY AtIs DEF HeadsOf, EndsOf, Solid, HeadKinds, MemberKinds

\* Heads and what the patterns take for one.
LEMMA StartsAreSolid ==
  ASSUME NEW text \in Seq(Line)
  PROVE  /\ StartsOf(text) \subseteq 1..Len(text) /\ HeadsOf(text) \subseteq StartsOf(text)
         /\ \A i \in StartsOf(text) : Solid(text, i)
BY AtIs DEF HeadsOf, StartsOf, StartKinds, Solid, HeadKinds

LEMMA BlockIs ==
  ASSUME NEW text \in Seq(Line), NEW b \in Blocks(text)
  PROVE  /\ b[1] \in HeadsOf(text) /\ b[2] \in EndsOf(text) /\ b = <<b[1], b[2]>> /\ b[1] < b[2]
         /\ \A i \in HeadsOf(text) \cup EndsOf(text) : ~(b[1] < i /\ i < b[2])
<1>1. b[1] \in HeadsOf(text) /\ b[2] \in EndsOf(text) /\ b = <<b[1], b[2]>> /\ b[1] < b[2]
      /\ \A i \in (b[1] + 1)..(b[2] - 1) : text[i].kind \notin HeadKinds \cup {"end"}
  BY DEF Blocks, HeadsOf, EndsOf
<1>2. ASSUME NEW i \in HeadsOf(text) \cup EndsOf(text), b[1] < i, i < b[2] PROVE FALSE
  <2>1. i \in 1..Len(text) /\ b[1] \in 1..Len(text) /\ b[2] \in 1..Len(text)
    BY <1>1, KindsAreSolid
  <2>2. i \in (b[1] + 1)..(b[2] - 1)
    BY <1>2, <2>1, TextIs
  <2>3. text[i].kind \in HeadKinds \cup {"end"}
    BY <2>1, AtIs DEF HeadsOf, EndsOf
  <2> QED
    BY <1>1, <2>2, <2>3
<1> QED
  BY <1>1, <1>2

\* Neither end of a block is in another.
LEMMA BlocksApart ==
  ASSUME NEW text \in Seq(Line), NEW b \in Blocks(text), NEW c \in Blocks(text)
  PROVE  b[1] = c[1] <=> b[2] = c[2]
<1>1. /\ b[1] \in 1..Len(text) /\ b[2] \in 1..Len(text) /\ b[1] < b[2]
      /\ c[1] \in 1..Len(text) /\ c[2] \in 1..Len(text) /\ c[1] < c[2] /\ Len(text) \in Nat
  BY BlockIs, KindsAreSolid, TextIs
<1>2. ~(b[1] < c[1] /\ c[1] < b[2]) /\ ~(b[1] < c[2] /\ c[2] < b[2])
  BY BlockIs
<1>3. ~(c[1] < b[1] /\ b[1] < c[2]) /\ ~(c[1] < b[2] /\ b[2] < c[2])
  BY BlockIs
<1> QED
  BY <1>1, <1>2, <1>3

LEMMA BlockEndIs ==
  ASSUME NEW text \in Seq(Line), Paired(text), NEW s \in HeadsOf(text)
  PROVE  /\ <<s, BlockEnd(text, s)>> \in Blocks(text)
         /\ BlockEnd(text, s) \in EndsOf(text) /\ s < BlockEnd(text, s)
         /\ \A e \in EndsOf(text) : s < e => BlockEnd(text, s) <= e
         /\ \A t \in HeadsOf(text) : BlockEnd(text, t) = BlockEnd(text, s) => t = s
<1>1. ASSUME NEW t \in HeadsOf(text) PROVE <<t, BlockEnd(text, t)>> \in Blocks(text)
  <2>1. PICK b \in Blocks(text) : b[1] = t
    BY DEF Paired, HeadsOf
  <2>2. b = <<t, b[2]>> /\ b[2] \in DOMAIN text
    BY <2>1, BlockIs, KindsAreSolid, TextIs
  <2>3. \E e \in DOMAIN text : <<t, e>> \in Blocks(text)
    BY <2>1, <2>2
  <2> QED
    BY <2>3 DEF BlockEnd
<1>2. BlockEnd(text, s) \in EndsOf(text) /\ s < BlockEnd(text, s)
  BY <1>1, BlockIs
<1>3. ASSUME NEW e \in EndsOf(text), s < e PROVE BlockEnd(text, s) <= e
  <2>1. ~(s < e /\ e < BlockEnd(text, s))
    BY <1>1, BlockIs
  <2>2. e \in Int /\ BlockEnd(text, s) \in Int
    BY <1>2, KindsAreSolid
  <2> QED
    BY <1>3, <2>1, <2>2
<1>4. ASSUME NEW t \in HeadsOf(text), BlockEnd(text, t) = BlockEnd(text, s) PROVE t = s
  <2>1. <<t, BlockEnd(text, t)>>[1] = <<s, BlockEnd(text, s)>>[1]
    BY <1>1, <1>4, BlocksApart
  <2> QED
    BY <2>1
<1> QED
  BY <1>1, <1>2, <1>3, <1>4

-----------------------------------------------------------------------------
(* Two extractors *)

LeftEnds(text, free) == {MatchLine(text, e) : e \in free}

\* The ends that none of the first k heads has.
FreeEnds(text, k) ==
  {e \in EndsOf(text) : \A j \in 1..k : e # BlockEnd(text, InOrder(HeadsOf(text))[j])}

LEMMA HeadsInOrder ==
  ASSUME NEW text \in Seq(Line)
  PROVE  /\ Len(text) \in Nat /\ Cardinality(HeadsOf(text)) \in Nat
         /\ DOMAIN InOrder(HeadsOf(text)) = 1..Cardinality(HeadsOf(text))
         /\ Len(InOrder(HeadsOf(text))) = Cardinality(HeadsOf(text))
         /\ \A i \in 1..Cardinality(HeadsOf(text)) : InOrder(HeadsOf(text))[i] \in HeadsOf(text)
         /\ \A i, j \in 1..Cardinality(HeadsOf(text)) :
              InOrder(HeadsOf(text))[i] = InOrder(HeadsOf(text))[j] => i = j
<1>1. Len(text) \in Nat /\ HeadsOf(text) \subseteq 1..Len(text)
  BY TextIs, KindsAreSolid
<1> QED
  BY <1>1, InOrderIs, InOrderUnique

\* The first end left after a head is the one the tree pairs it with.
LEMMA EndOfIs ==
  ASSUME NEW text \in Seq(Line), Paired(text), NEW i \in 1..Cardinality(HeadsOf(text))
  PROVE  LET s == InOrder(HeadsOf(text))[i]
         IN  EndOf(text, LeftEnds(text, FreeEnds(text, i - 1)), s) = MatchLine(text, BlockEnd(text, s))
<1> DEFINE s == InOrder(HeadsOf(text))[i]
           e == BlockEnd(text, s)
           left == LeftEnds(text, FreeEnds(text, i - 1))
           after == {x \in left : x > MatchLine(text, s)}
<1>1. s \in HeadsOf(text) /\ i \in Int
  BY HeadsInOrder
<1>2. /\ e \in EndsOf(text) /\ s < e /\ \A x \in EndsOf(text) : s < x => e <= x
      /\ \A t \in HeadsOf(text) : BlockEnd(text, t) = e => t = s
  BY <1>1, BlockEndIs
<1>3. e \in FreeEnds(text, i - 1)
  <2> SUFFICES ASSUME NEW j \in 1..(i - 1), e = BlockEnd(text, InOrder(HeadsOf(text))[j]) PROVE FALSE
    BY <1>2 DEF FreeEnds
  <2>1. j \in 1..Cardinality(HeadsOf(text)) /\ j # i
    BY <1>1, HeadsInOrder
  <2>2. InOrder(HeadsOf(text))[j] \in HeadsOf(text)
    BY <2>1, HeadsInOrder
  <2>3. InOrder(HeadsOf(text))[j] = s
    BY <1>2, <2>2
  <2> QED
    BY <2>1, <2>3, HeadsInOrder
<1>4. \A x \in FreeEnds(text, i - 1) : x \in EndsOf(text)
  BY DEF FreeEnds
<1> HIDE DEF s, e
<1>5. Solid(text, s) /\ \A x \in EndsOf(text) : Solid(text, x)
  BY <1>1, KindsAreSolid
<1>6. MatchLine(text, e) \in after
  <2>1. MatchLine(text, e) \in left
    BY <1>3 DEF LeftEnds
  <2>2. MatchLine(text, s) < MatchLine(text, e)
    BY <1>2, <1>5, MatchOrder
  <2>3. MatchLine(text, s) \in Int /\ MatchLine(text, e) \in Int
    <3>1. MatchLine(text, s) \in 1..Len(text) /\ MatchLine(text, e) \in 1..Len(text)
      BY <1>2, <1>5, MatchOrder
    <3> QED
      BY <3>1
  <2> QED
    BY <2>1, <2>2, <2>3
<1>7. ASSUME NEW y \in after PROVE y \in 1..Len(text) /\ MatchLine(text, e) <= y
  <2>1. PICK x \in FreeEnds(text, i - 1) : y = MatchLine(text, x)
    BY DEF LeftEnds
  <2>2. x \in EndsOf(text) /\ Solid(text, x)
    BY <1>4, <1>5
  <2>3. y \in 1..Len(text) /\ MatchLine(text, s) \in 1..Len(text) /\ MatchLine(text, e) \in 1..Len(text)
    BY <1>2, <1>5, <2>1, <2>2, MatchOrder
  <2>4. MatchLine(text, s) < y
    BY <1>7, <2>3
  <2>5. s < x
    BY <1>5, <2>1, <2>2, <2>4, MatchOrder
  <2>6. e <= x /\ x \in Int /\ e \in Int
    BY <1>2, <2>2, <2>5, KindsAreSolid
  <2>7. CASE e = x
    BY <2>1, <2>3, <2>7
  <2>8. CASE e < x
    <3>1. MatchLine(text, e) < MatchLine(text, x)
      BY <1>2, <1>5, <2>2, <2>8, MatchOrder
    <3> QED
      BY <2>1, <2>3, <3>1
  <2> QED
    BY <2>3, <2>6, <2>7, <2>8
<1> HIDE DEF after
<1>8. after # {} /\ after \subseteq Nat
  <2>1. \A y \in after : y \in Nat
    BY <1>7
  <2> QED
    BY <1>6, <2>1
<1>9. Min(after) \in after /\ \A x \in after : Min(after) <= x
  BY <1>8, NatMin
<1>10. Min(after) = MatchLine(text, e)
  <2>1. Min(after) <= MatchLine(text, e) /\ MatchLine(text, e) <= Min(after)
    BY <1>6, <1>7, <1>9
  <2>2. Min(after) \in Nat /\ MatchLine(text, e) \in Nat
    BY <1>6, <1>8, <1>9
  <2>3. Min(after) \in Int /\ MatchLine(text, e) \in Int
    BY <2>2
  <2> QED
    BY <2>1, <2>3
<1>11. EndOf(text, left, s) = IF after = {} THEN Len(text) ELSE Min(after)
  BY DEF EndOf, after
<1> QED
  BY <1>8, <1>10, <1>11 DEF s, e

\* What is left after a head is what the next head finds.
LEMMA FreeStep ==
  ASSUME NEW text \in Seq(Line), Paired(text), NEW i \in 1..Cardinality(HeadsOf(text))
  PROVE  LeftEnds(text, FreeEnds(text, i)) =
           LeftEnds(text, FreeEnds(text, i - 1))
             \ {MatchLine(text, BlockEnd(text, InOrder(HeadsOf(text))[i]))}
<1> DEFINE e == BlockEnd(text, InOrder(HeadsOf(text))[i])
<1>1. i \in Int /\ i >= 1
  BY HeadsInOrder
<1>2. \A j \in 1..i : j = i \/ j \in 1..(i - 1)
  BY <1>1
<1>3. i \in 1..i /\ \A j \in 1..(i - 1) : j \in 1..i
  BY <1>1
<1>4. \A x : x \in FreeEnds(text, i) <=> x \in FreeEnds(text, i - 1) /\ x # e
  BY <1>2, <1>3 DEF FreeEnds
<1>5. e \in EndsOf(text)
  BY HeadsInOrder, BlockEndIs
<1> HIDE DEF e
<1>6. \A x \in FreeEnds(text, i - 1) : x \in EndsOf(text)
  BY DEF FreeEnds
<1>7. \A x \in FreeEnds(text, i - 1) : MatchLine(text, x) = MatchLine(text, e) => x = e
  BY <1>5, <1>6, KindsAreSolid, MatchOrder
<1>8. \A y : y \in LeftEnds(text, FreeEnds(text, i)) <=>
               y \in LeftEnds(text, FreeEnds(text, i - 1)) /\ y # MatchLine(text, e)
  BY <1>4, <1>7 DEF LeftEnds
<1> QED
  BY <1>8 DEF e

\* Without forward declarations the fallback pairs heads and ends as the tree does, but for the
\* lines its matches begin at.
LEMMA FallbackBlocksAre ==
  ASSUME NEW text \in Seq(Line), Paired(text), At(text, {"forward"}) = {}
  PROVE  LET heads == InOrder(HeadsOf(text))
         IN  FallbackBlocks(text) =
               [i \in 1..Cardinality(HeadsOf(text)) |->
                  <<heads[i], MatchLine(text, BlockEnd(text, heads[i]))>>]
<1> DEFINE heads == InOrder(HeadsOf(text))
           c == Cardinality(HeadsOf(text))
           ends == LeftEnds(text, EndsOf(text))
           Body(f, i) == IF i = 0 THEN ends ELSE f[i - 1] \ {EndOf(text, f[i - 1], heads[i])}
           left == CHOOSE f : f = [i \in 0..c |-> Body(f, i)]
           free == [i \in 0..c |-> LeftEnds(text, FreeEnds(text, i))]
<1>1. c \in Nat /\ Len(heads) = c /\ DOMAIN heads = 1..c
  BY HeadsInOrder
<1>2. ASSUME NEW i \in 1..c
      PROVE  EndOf(text, free[i - 1], heads[i]) = MatchLine(text, BlockEnd(text, heads[i]))
  <2>1. i - 1 \in 0..c
    BY <1>1
  <2>2. free[i - 1] = LeftEnds(text, FreeEnds(text, i - 1))
    BY <2>1
  <2> HIDE DEF free
  <2> QED
    BY <2>2, EndOfIs
<1>3. ASSUME NEW i \in 0..c PROVE free[i] = Body(free, i)
  <2>1. CASE i = 0
    <3>1. FreeEnds(text, 0) = EndsOf(text)
      BY DEF FreeEnds
    <3> QED
      BY <2>1, <3>1
  <2>2. CASE i # 0
    <3>1. i \in 1..c /\ i - 1 \in 0..c
      BY <1>1, <2>2
    <3>2. free[i] = LeftEnds(text, FreeEnds(text, i)) /\ free[i - 1] = LeftEnds(text, FreeEnds(text, i - 1))
      BY <3>1
    <3> HIDE DEF free, heads
    <3>3. free[i] = free[i - 1] \ {MatchLine(text, BlockEnd(text, heads[i]))}
      BY <3>1, <3>2, FreeStep DEF heads
    <3> QED
      BY <1>2, <2>2, <3>1, <3>3
  <2> QED
    BY <2>1, <2>2
<1>4. free = [i \in 0..c |-> Body(free, i)]
  <2> DEFINE again == [i \in 0..c |-> Body(free, i)]
  <2>1. \A i \in 0..c : free[i] = again[i]
    BY <1>3
  <2> HIDE DEF Body
  <2> QED
    BY <2>1
<1>5. left = [i \in 0..c |-> Body(left, i)]
  <2> HIDE DEF Body, free
  <2> QED
    BY <1>4
<1>6. \A i \in 0..c : left[i] = Body(left, i)
  <2> HIDE DEF Body, left
  <2> QED
    BY <1>5
<1> DEFINE same == {i \in 0..c : left[i] = free[i]}
<1>7. 0 \in same
  <2>1. 0 \in 0..c
    BY <1>1
  <2>2. left[0] = ends
    <3> HIDE DEF left, ends
    <3> QED
      BY <1>6, <2>1
  <2>3. free[0] = ends
    <3> HIDE DEF free, ends
    <3> QED
      BY <1>3, <2>1
  <2> HIDE DEF left, free, ends
  <2> QED
    BY <2>1, <2>2, <2>3
<1>8. ASSUME NEW i \in 1..c, i - 1 \in same PROVE i \in same
  <2>1. i \in 0..c /\ left[i - 1] = free[i - 1]
    BY <1>1, <1>8
  <2>2. Body(left, i) = Body(free, i)
    <3> HIDE DEF left, free
    <3> QED
      BY <2>1
  <2> HIDE DEF left, free, Body
  <2> QED
    BY <1>3, <1>6, <2>1, <2>2
<1>9. \A i \in 0..c : left[i] = free[i]
  <2> HIDE DEF same, c
  <2>1. 0..c \subseteq same
    BY <1>1, <1>7, <1>8, Upwards
  <2> QED
    BY <2>1 DEF same
<1>10. FallbackBlocks(text) = [i \in DOMAIN heads |-> <<heads[i], EndOf(text, left[i - 1], heads[i])>>]
  <2>1. At(text, StartKinds) = HeadsOf(text)
    BY DEF At, StartKinds, HeadsOf
  <2> DEFINE starts == InOrder(At(text, StartKinds))
             size == Len(starts)
             rest == {MatchLine(text, e) : e \in At(text, {"end"})}
             Rest(f, i) == IF i = 0 THEN rest ELSE f[i - 1] \ {EndOf(text, f[i - 1], starts[i])}
             ends2 == CHOOSE f : f = [i \in 0..size |-> Rest(f, i)]
  <2>2. FallbackBlocks(text) = [i \in DOMAIN starts |-> <<starts[i], EndOf(text, ends2[i - 1], starts[i])>>]
    BY DEF FallbackBlocks
  <2>3. starts = heads
    BY <2>1
  <2>4. rest = ends
    BY DEF EndsOf, LeftEnds
  <2> HIDE DEF starts, heads, rest, ends
  <2>5. size = c
    BY <1>1, <2>3
  <2>6. ends2 = left
    BY <2>3, <2>4, <2>5
  <2> QED
    BY <2>2, <2>3, <2>6
<1>11. \A i \in 1..c : EndOf(text, left[i - 1], heads[i]) = MatchLine(text, BlockEnd(text, heads[i]))
  <2>1. \A i \in 1..c : i - 1 \in 0..c
    BY <1>1
  <2> HIDE DEF left, free, heads
  <2> QED
    BY <1>2, <1>9, <2>1
<1> HIDE DEF left, heads, c
<1>12. FallbackBlocks(text) = [i \in 1..c |-> <<heads[i], MatchLine(text, BlockEnd(text, heads[i]))>>]
  BY <1>1, <1>10, <1>11
<1> QED
  BY <1>12 DEF heads, c

\* The members between a head and its end.
Between(text, s) == {m \in At(text, MemberKinds) : s < m /\ m < BlockEnd(text, s)}

LEMMA CollectSymbolsAre ==
  ASSUME NEW text \in Seq(Line), Paired(text)
  PROVE  LET heads == InOrder(HeadsOf(text))
         IN  CollectSymbols(text, Blocks(text)) =
               [i \in 1..Cardinality(HeadsOf(text)) |->
                  Symbol(text, heads[i], InOrder(Between(text, heads[i])))]
<1> DEFINE heads == InOrder(HeadsOf(text))
           c == Cardinality(HeadsOf(text))
<1>1. DOMAIN heads = 1..c
  BY HeadsInOrder
<1>2. {b[1] : b \in Blocks(text)} = HeadsOf(text)
  <2>1. \A b \in Blocks(text) : b[1] \in HeadsOf(text)
    BY BlockIs
  <2>2. \A s \in HeadsOf(text) : \E b \in Blocks(text) : b[1] = s
    BY DEF Paired, HeadsOf
  <2> QED
    BY <2>1, <2>2
<1>3. CollectSymbols(text, Blocks(text)) = [i \in DOMAIN heads |-> Symbol(text, heads[i], InOrder(Between(text, heads[i])))]
  BY <1>2 DEF CollectSymbols, BlockEnd, Between
<1> HIDE DEF heads, c
<1>4. CollectSymbols(text, Blocks(text)) = [i \in 1..c |-> Symbol(text, heads[i], InOrder(Between(text, heads[i])))]
  BY <1>1, <1>3
<1> QED
  BY <1>4 DEF heads, c

\* Where heads and ends pair up and nothing is declared ahead, the patterns find the blocks of the
\* tree, each with the same members in the same order.
LEMMA SameSymbols ==
  ASSUME NEW text \in Seq(Line), Paired(text), At(text, {"forward"}) = {}
  PROVE  FallbackSymbols(text) = CollectSymbols(text, Blocks(text))
<1> DEFINE heads == InOrder(HeadsOf(text))
           c == Cardinality(HeadsOf(text))
           inside(s) == {m \in At(text, MemberKinds) : s < m /\ m < BlockEnd(text, s)}
           found(s, e) == {m \in At(text, MemberKinds) :
                             MatchLine(text, s) < MatchLine(text, m) /\ MatchLine(text, m) < e}
<1>1. DOMAIN heads = 1..c /\ \A i \in 1..c : heads[i] \in HeadsOf(text)
  BY HeadsInOrder
<1>3. CollectSymbols(text, Blocks(text)) = [i \in 1..c |-> Symbol(text, heads[i], InOrder(inside(heads[i])))]
  BY CollectSymbolsAre DEF Between
<1> DEFINE blocks == FallbackBlocks(text)
<1>4. blocks = [i \in 1..c |-> <<heads[i], MatchLine(text, BlockEnd(text, heads[i]))>>]
  BY FallbackBlocksAre
<1>5. FallbackSymbols(text) =
        [i \in DOMAIN blocks |-> Symbol(text, blocks[i][1], InOrder(found(blocks[i][1], blocks[i][2])))]
  BY DEF FallbackSymbols
<1> HIDE DEF blocks
<1>6. /\ DOMAIN blocks = 1..c
      /\ \A i \in 1..c : blocks[i][1] = heads[i] /\ blocks[i][2] = MatchLine(text, BlockEnd(text, heads[i]))
  <2> HIDE DEF heads, c
  <2> QED
    BY <1>4
<1>7. \A s \in HeadsOf(text) : found(s, MatchLine(text, BlockEnd(text, s))) = inside(s)
  <2> SUFFICES ASSUME NEW s \in HeadsOf(text), NEW m \in At(text, MemberKinds)
               PROVE  MatchLine(text, s) < MatchLine(text, m)
                        /\ MatchLine(text, m) < MatchLine(text, BlockEnd(text, s))
                      <=> s < m /\ m < BlockEnd(text, s)
    OBVIOUS
  <2>1. Solid(text, s) /\ Solid(text, m)
    BY KindsAreSolid
  <2>2. BlockEnd(text, s) \in EndsOf(text)
    BY BlockEndIs
  <2>3. Solid(text, BlockEnd(text, s))
    BY <2>2, KindsAreSolid
  <2> QED
    BY <2>1, <2>3, MatchOrder
<1>8. \A i \in 1..c : found(blocks[i][1], blocks[i][2]) = inside(heads[i])
  <2> HIDE DEF found, inside, heads, c
  <2> QED
    BY <1>1, <1>6, <1>7
<1> HIDE DEF heads, c, found, inside
<1> QED
  BY <1>3, <1>5, <1>6, <1>8

\* The ends that are left when a start looks for its own, whatever the starts before it took.
LEMMA StartBlocks ==
  ASSUME NEW text \in Seq(Line)
  PROVE  LET starts == InOrder(StartsOf(text))
             d == Cardinality(StartsOf(text))
         IN  \E left \in [0..d -> SUBSET LeftEnds(text, EndsOf(text))] :
               FallbackBlocks(text) =
                 [i \in 1..d |-> <<starts[i], EndOf(text, left[i - 1], starts[i])>>]
<1> DEFINE starts == InOrder(StartsOf(text))
           d == Cardinality(StartsOf(text))
           ends == LeftEnds(text, EndsOf(text))
           S == SUBSET ends
           Body(f, i) == IF i = 0 THEN ends ELSE f[i - 1] \ {EndOf(text, f[i - 1], starts[i])}
           left == CHOOSE f : f = [i \in 0..d |-> Body(f, i)]
           step(i) == [x \in S |-> x \ {EndOf(text, x, starts[i])}]
           F == [i \in 1..d |-> step(i)]
<1>1. d \in Nat /\ DOMAIN starts = 1..d /\ Len(starts) = d
  BY TextIs, StartsAreSolid, InOrderIs
<1>2. PICK g \in [0..d -> S] : g[0] = ends /\ \A i \in 1..d : g[i] = F[i][g[i - 1]]
  <2>1. ends \in S
    OBVIOUS
  <2>2. F \in [1..d -> [S -> S]]
    <3>1. \A i \in 1..d : step(i) \in [S -> S]
      OBVIOUS
    <3> HIDE DEF step, S
    <3> QED
      BY <3>1
  <2> HIDE DEF F, S, ends, d
  <2>3. Recurs(d, S, ends, F)
    BY <1>1, <2>1, <2>2, Recursion
  <2> QED
    BY <2>3 DEF Recurs
<1>3. \A i \in 1..d : g[i] = g[i - 1] \ {EndOf(text, g[i - 1], starts[i])}
  <2> SUFFICES ASSUME NEW i \in 1..d PROVE g[i] = g[i - 1] \ {EndOf(text, g[i - 1], starts[i])}
    OBVIOUS
  <2>1. i - 1 \in 0..d
    BY <1>1
  <2> DEFINE x == g[i - 1]
  <2>2. x \in S
    BY <1>2, <2>1
  <2>3. g[i] = F[i][x]
    BY <1>2
  <2> HIDE DEF x, S, starts, d
  <2>4. F[i][x] = x \ {EndOf(text, x, starts[i])}
    BY <2>2
  <2> QED
    BY <2>3, <2>4 DEF x
<1>4. g = [i \in 0..d |-> Body(g, i)]
  <2> DEFINE again == [i \in 0..d |-> Body(g, i)]
  <2>1. ASSUME NEW i \in 0..d PROVE g[i] = again[i]
    <3>1. CASE i = 0
      BY <1>2, <3>1
    <3>2. CASE i # 0
      <4>1. i \in 1..d
        BY <1>1, <3>2
      <4> HIDE DEF starts, d, ends
      <4> QED
        BY <1>3, <3>2, <4>1
    <3> QED
      BY <3>1, <3>2
  <2> HIDE DEF Body, S, d
  <2> QED
    BY <1>2, <2>1
<1>5. left = [i \in 0..d |-> Body(left, i)]
  <2> HIDE DEF Body, d
  <2> QED
    BY <1>4
<1>6. \A i \in 0..d : left[i] = Body(left, i)
  <2> HIDE DEF Body, left, d
  <2> QED
    BY <1>5
<1> DEFINE good == {i \in 0..d : left[i] \in S}
<1>7. 0 \in good
  <2>1. 0 \in 0..d
    BY <1>1
  <2> HIDE DEF left, d, ends
  <2> QED
    BY <1>6, <2>1
<1>8. ASSUME NEW i \in 1..d, i - 1 \in good PROVE i \in good
  <2>1. i \in 0..d /\ left[i - 1] \in S /\ i # 0
    BY <1>1, <1>8
  <2> HIDE DEF left, d, ends, starts
  <2>2. left[i] = left[i - 1] \ {EndOf(text, left[i - 1], starts[i])}
    BY <1>6, <2>1
  <2> QED
    BY <2>1, <2>2
<1>9. \A i \in 0..d : left[i] \in S
  <2> HIDE DEF good, d
  <2>1. 0..d \subseteq good
    BY <1>1, <1>7, <1>8, Upwards
  <2> QED
    BY <2>1 DEF good
<1>10. FallbackBlocks(text) = [i \in DOMAIN starts |-> <<starts[i], EndOf(text, left[i - 1], starts[i])>>]
  BY <1>1 DEF FallbackBlocks, StartsOf, EndsOf, LeftEnds
<1> HIDE DEF left, starts, d, S
<1>11. left \in [0..d -> S]
  <2>1. left = [i \in 0..d |-> left[i]]
    BY <1>5
  <2> QED
    BY <1>9, <2>1
<1>12. FallbackBlocks(text) = [i \in 1..d |-> <<starts[i], EndOf(text, left[i - 1], starts[i])>>]
  BY <1>1, <1>10
<1> QED
  BY <1>11, <1>12 DEF starts, d, S

\* Whatever is left, a head finds no end before its own.
LEMMA NoEndBefore ==
  ASSUME NEW text \in Seq(Line), Paired(text), NEW s \in HeadsOf(text),
         NEW left \in SUBSET LeftEnds(text, EndsOf(text)),
         NEW m \in Between(text, s)
  PROVE  MatchLine(text, s) < MatchLine(text, m) /\ MatchLine(text, m) < EndOf(text, left, s)
<1> DEFINE e == BlockEnd(text, s)
           after == {x \in left : x > MatchLine(text, s)}
<1>1. /\ e \in EndsOf(text) /\ s < e /\ \A x \in EndsOf(text) : s < x => e <= x
      /\ m \in At(text, MemberKinds) /\ s < m /\ m < e
  BY BlockEndIs DEF Between
<1> HIDE DEF e
<1>2. /\ Solid(text, s) /\ Solid(text, m) /\ Solid(text, e)
      /\ \A x \in EndsOf(text) : Solid(text, x)
      /\ s \in 1..Len(text) /\ m \in 1..Len(text) /\ e \in 1..Len(text) /\ Len(text) \in Nat
  BY <1>1, KindsAreSolid, TextIs
<1>3. /\ MatchLine(text, s) < MatchLine(text, m) /\ MatchLine(text, m) < MatchLine(text, e)
      /\ MatchLine(text, s) \in 1..Len(text) /\ MatchLine(text, m) \in 1..Len(text)
      /\ MatchLine(text, e) \in 1..Len(text)
  BY <1>1, <1>2, MatchOrder
<1>4. ASSUME NEW y \in after PROVE y \in 1..Len(text) /\ MatchLine(text, e) <= y
  <2>1. PICK x \in EndsOf(text) : y = MatchLine(text, x)
    BY DEF LeftEnds
  <2>2. y \in 1..Len(text) /\ MatchLine(text, s) < y
    <3>1. MatchLine(text, x) \in 1..Len(text)
      BY <1>2, <2>1, MatchOrder
    <3> QED
      BY <1>3, <1>4, <2>1, <3>1
  <2>3. s < x
    BY <1>2, <2>1, <2>2, MatchOrder
  <2>4. e <= x /\ x \in Int
    BY <1>1, <2>1, <2>3, KindsAreSolid
  <2>5. CASE e = x
    BY <2>1, <2>2, <2>5
  <2>6. CASE e < x
    <3>1. MatchLine(text, e) < MatchLine(text, x)
      BY <1>2, <2>1, <2>6, MatchOrder
    <3> QED
      BY <1>3, <2>1, <2>2, <3>1
  <2> QED
    BY <1>2, <2>2, <2>4, <2>5, <2>6
<1>5. EndOf(text, left, s) = IF after = {} THEN Len(text) ELSE Min(after)
  BY DEF EndOf
<1> HIDE DEF after
<1>6. CASE after = {}
  <2>1. MatchLine(text, e) <= Len(text)
    BY <1>2, <1>3
  <2> QED
    BY <1>2, <1>3, <1>5, <1>6, <2>1
<1>7. CASE after # {}
  <2>1. after \subseteq Nat
    BY <1>4
  <2>2. Min(after) \in after
    BY <1>7, <2>1, NatMin
  <2>3. MatchLine(text, e) <= Min(after) /\ Min(after) \in 1..Len(text)
    BY <1>4, <2>2
  <2> QED
    BY <1>3, <1>5, <1>7, <2>3
<1> QED
  BY <1>6, <1>7

\* For every text whose heads and ends pair up: the patterns of the fallback find the symbols of
\* the tree when no protocol is declared ahead, and otherwise those symbols with their members at
\* least (collect_symbols, fallback_document_symbols).
THEOREM ExtractorsAgreeOnEveryText ==
  ASSUME NEW text \in Seq(Line)
  PROVE  ExtractorsAgree(text)
<1> DEFINE found == FallbackSymbols(text)
           collected == CollectSymbols(text, Blocks(text))
<1> SUFFICES ASSUME Paired(text)
             PROVE  /\ At(text, {"forward"}) = {} => found = collected
                    /\ \A i \in DOMAIN collected : \E j \in DOMAIN found :
                         /\ found[j].head = collected[i].head
                         /\ ToSet(collected[i].children) \subseteq ToSet(found[j].children)
  BY DEF ExtractorsAgree
<1>1. At(text, {"forward"}) = {} => found = collected
  BY SameSymbols
<1> DEFINE heads == InOrder(HeadsOf(text))
           c == Cardinality(HeadsOf(text))
           starts == InOrder(StartsOf(text))
           d == Cardinality(StartsOf(text))
           blocks == FallbackBlocks(text)
           members(b) == {m \in At(text, MemberKinds) :
                            MatchLine(text, b[1]) < MatchLine(text, m) /\ MatchLine(text, m) < b[2]}
<1>2. collected = [i \in 1..c |-> Symbol(text, heads[i], InOrder(Between(text, heads[i])))]
  BY CollectSymbolsAre
<1>3. found = [j \in DOMAIN blocks |-> Symbol(text, blocks[j][1], InOrder(members(blocks[j])))]
  BY DEF FallbackSymbols
<1>4. PICK left \in [0..d -> SUBSET LeftEnds(text, EndsOf(text))] :
        blocks = [j \in 1..d |-> <<starts[j], EndOf(text, left[j - 1], starts[j])>>]
  BY StartBlocks
<1>5. /\ d \in Nat /\ DOMAIN blocks = 1..d
      /\ \A j \in 1..d : blocks[j][1] = starts[j] /\ blocks[j][2] = EndOf(text, left[j - 1], starts[j])
  <2>1. d \in Nat
    BY TextIs, StartsAreSolid, InOrderIs
  <2> HIDE DEF blocks, starts, d
  <2> QED
    BY <1>4, <2>1
<1>6. /\ \A i \in 1..c : heads[i] \in HeadsOf(text)
      /\ \A h \in HeadsOf(text) : \E j \in 1..d : starts[j] = h
  <2>1. \A h \in StartsOf(text) : \E j \in 1..d : starts[j] = h
    BY TextIs, StartsAreSolid, InOrderIs
  <2> QED
    BY <2>1, HeadsInOrder, StartsAreSolid
<1>7. ASSUME NEW set, set \subseteq At(text, MemberKinds)
      PROVE  ToSet(InOrder(set)) = set
  <2>1. set \subseteq 1..Len(text) /\ Len(text) \in Nat
    BY <1>7, KindsAreSolid, TextIs
  <2>2. /\ DOMAIN InOrder(set) = 1..Cardinality(set)
        /\ \A k \in 1..Cardinality(set) : InOrder(set)[k] \in set
        /\ \A x \in set : \E k \in 1..Cardinality(set) : InOrder(set)[k] = x
    BY <2>1, InOrderIs
  <2> QED
    BY <2>2 DEF ToSet
<1> HIDE DEF heads, c, starts, d, blocks
<1>8. ASSUME NEW i \in 1..c
      PROVE  \E j \in DOMAIN found :
               /\ found[j].head = collected[i].head
               /\ ToSet(collected[i].children) \subseteq ToSet(found[j].children)
  <2> DEFINE h == heads[i]
  <2>1. h \in HeadsOf(text)
    BY <1>6
  <2>2. PICK j \in 1..d : starts[j] = h
    BY <1>6, <2>1
  <2>3. collected[i] = Symbol(text, h, InOrder(Between(text, h)))
    BY <1>2
  <2>4. j \in DOMAIN found /\ found[j] = Symbol(text, h, InOrder(members(blocks[j])))
    <3> HIDE DEF members, h
    <3> QED
      BY <1>3, <1>5, <2>2
  <2> HIDE DEF h, found, collected
  <2>5. /\ collected[i].head = h /\ collected[i].children = InOrder(Between(text, h))
        /\ found[j].head = h /\ found[j].children = InOrder(members(blocks[j]))
    <3> DEFINE some == InOrder(Between(text, h))
               more == InOrder(members(blocks[j]))
    <3> HIDE DEF members, some, more
    <3>1. /\ Symbol(text, h, some).head = h /\ Symbol(text, h, some).children = some
          /\ Symbol(text, h, more).head = h /\ Symbol(text, h, more).children = more
      BY DEF Symbol
    <3> QED
      BY <2>3, <2>4, <3>1 DEF some, more
  <2>6. Between(text, h) \subseteq members(blocks[j])
    <3> SUFFICES ASSUME NEW m \in Between(text, h) PROVE m \in members(blocks[j])
      OBVIOUS
    <3>1. j - 1 \in 0..d
      BY <1>5
    <3>2. left[j - 1] \in SUBSET LeftEnds(text, EndsOf(text))
      BY <1>4, <3>1
    <3>3. MatchLine(text, h) < MatchLine(text, m) /\ MatchLine(text, m) < EndOf(text, left[j - 1], h)
      BY <2>1, <3>2, NoEndBefore
    <3>4. blocks[j][1] = h /\ blocks[j][2] = EndOf(text, left[j - 1], h)
      BY <1>5, <2>2
    <3>5. m \in At(text, MemberKinds)
      BY DEF Between
    <3> QED
      BY <3>3, <3>4, <3>5
  <2>7. ToSet(collected[i].children) = Between(text, h) /\ ToSet(found[j].children) = members(blocks[j])
    <3>1. Between(text, h) \subseteq At(text, MemberKinds)
      BY DEF Between
    <3>2. members(blocks[j]) \subseteq At(text, MemberKinds)
      OBVIOUS
    <3> HIDE DEF members
    <3> QED
      BY <1>7, <2>5, <3>1, <3>2
  <2> HIDE DEF members
  <2> QED
    BY <2>4, <2>5, <2>6, <2>7
<1>9. DOMAIN collected = 1..c
  BY <1>2
<1> QED
  BY <1>1, <1>8, <1>9

\* The two extractors agree on every text an editor writes, forward declarations apart.
THEOREM ExtractorsAlwaysAgree == Spec => []ExtractorsAgreeOnText
<1>1. TextTyped => ExtractorsAgreeOnText
  BY ExtractorsAgreeOnEveryText DEF TextTyped, ExtractorsAgreeOnText
<1> QED
  BY <1>1, TextsTyped, PTL

-----------------------------------------------------------------------------
(* Sequences of sequences *)

Absent(x, seq) == \A i \in DOMAIN seq : seq[i] # x
Once(x, seq) == \E i \in DOMAIN seq : seq[i] = x /\ \A j \in DOMAIN seq : seq[j] = x => j = i

LEMMA TimesIs ==
  ASSUME NEW S, NEW seq \in Seq(S), NEW x
  PROVE  /\ Times(x, seq) = 0 <=> Absent(x, seq)
         /\ Times(x, seq) = 1 <=> Once(x, seq)
<1> DEFINE at == {i \in DOMAIN seq : seq[i] = x}
<1>1. IsFiniteSet(at)
  <2>1. Len(seq) \in Nat /\ DOMAIN seq = 1..Len(seq)
    BY LenProperties
  <2>2. IsFiniteSet(1..Len(seq))
    BY <2>1, FS_Interval
  <2>3. at \in SUBSET (1..Len(seq))
    BY <2>1
  <2> QED
    BY <2>2, <2>3, FS_Subset
<1>2. Times(x, seq) = Cardinality(at)
  BY DEF Times
<1>3. at = {} <=> Absent(x, seq)
  BY DEF Absent
<1>4. (\E i : at = {i}) <=> Once(x, seq)
  <2>1. ASSUME NEW i, at = {i} PROVE Once(x, seq)
    <3>1. i \in DOMAIN seq /\ seq[i] = x /\ \A j \in DOMAIN seq : seq[j] = x => j = i
      BY <2>1
    <3> QED
      BY <3>1 DEF Once
  <2>2. ASSUME Once(x, seq) PROVE \E i : at = {i}
    <3>1. PICK i \in DOMAIN seq : seq[i] = x /\ \A j \in DOMAIN seq : seq[j] = x => j = i
      BY <2>2 DEF Once
    <3>2. at = {i}
      BY <3>1
    <3> QED
      BY <3>2
  <2> QED
    BY <2>1, <2>2
<1> HIDE DEF at
<1> QED
  BY <1>1, <1>2, <1>3, <1>4, FS_EmptySet, FS_Singleton

LEMMA ConcatParts ==
  ASSUME NEW S, NEW s \in Seq(S), NEW t \in Seq(S)
  PROVE  /\ Len(s) \in Nat /\ Len(t) \in Nat /\ DOMAIN s = 1..Len(s) /\ DOMAIN t = 1..Len(t)
         /\ DOMAIN (s \o t) = 1..(Len(s) + Len(t))
         /\ \A i \in 1..Len(s) : (s \o t)[i] = s[i]
         /\ \A i \in 1..Len(t) : (s \o t)[Len(s) + i] = t[i]
         /\ \A i \in 1..(Len(s) + Len(t)) :
              i \in 1..Len(s) \/ \E j \in 1..Len(t) : i = Len(s) + j
<1>1. Len(s) \in Nat /\ Len(t) \in Nat /\ DOMAIN s = 1..Len(s) /\ DOMAIN t = 1..Len(t)
  BY LenProperties
<1>2. s \o t \in Seq(S) /\ Len(s \o t) = Len(s) + Len(t)
  BY ConcatProperties
<1>3. DOMAIN (s \o t) = 1..(Len(s) + Len(t))
  BY <1>2, LenProperties
<1>4. \A i \in 1..(Len(s) + Len(t)) : (s \o t)[i] = IF i <= Len(s) THEN s[i] ELSE t[i - Len(s)]
  BY ConcatProperties
<1>5. ASSUME NEW i \in 1..Len(s) PROVE (s \o t)[i] = s[i]
  <2>1. i \in 1..(Len(s) + Len(t)) /\ i <= Len(s)
    BY <1>1
  <2> QED
    BY <1>4, <2>1
<1>6. ASSUME NEW i \in 1..Len(t) PROVE (s \o t)[Len(s) + i] = t[i]
  <2>1. Len(s) + i \in 1..(Len(s) + Len(t)) /\ ~(Len(s) + i <= Len(s)) /\ Len(s) + i - Len(s) = i
    BY <1>1
  <2> QED
    BY <1>4, <2>1
<1>7. ASSUME NEW i \in 1..(Len(s) + Len(t))
      PROVE  i \in 1..Len(s) \/ \E j \in 1..Len(t) : i = Len(s) + j
  <2>1. i \in 1..Len(s) \/ (i - Len(s) \in 1..Len(t) /\ i = Len(s) + (i - Len(s)))
    BY <1>1
  <2> QED
    BY <2>1
<1> QED
  BY <1>1, <1>3, <1>5, <1>6, <1>7

LEMMA ConcatOnce ==
  ASSUME NEW S, NEW s \in Seq(S), NEW t \in Seq(S), NEW x
  PROVE  /\ Absent(x, s) /\ Absent(x, t) => Absent(x, s \o t)
         /\ Once(x, s) /\ Absent(x, t) => Once(x, s \o t)
         /\ Absent(x, s) /\ Once(x, t) => Once(x, s \o t)
<1>1. /\ Len(s) \in Nat /\ Len(t) \in Nat /\ DOMAIN s = 1..Len(s) /\ DOMAIN t = 1..Len(t)
      /\ DOMAIN (s \o t) = 1..(Len(s) + Len(t))
      /\ \A i \in 1..Len(s) : (s \o t)[i] = s[i]
      /\ \A i \in 1..Len(t) : (s \o t)[Len(s) + i] = t[i]
      /\ \A i \in 1..(Len(s) + Len(t)) :
           i \in 1..Len(s) \/ \E j \in 1..Len(t) : i = Len(s) + j
  BY ConcatParts
<1>2. ASSUME Absent(x, s), Absent(x, t) PROVE Absent(x, s \o t)
  BY <1>1, <1>2 DEF Absent
<1>3. ASSUME Once(x, s), Absent(x, t) PROVE Once(x, s \o t)
  <2>1. PICK i \in 1..Len(s) : s[i] = x /\ \A j \in 1..Len(s) : s[j] = x => j = i
    BY <1>1, <1>3 DEF Once
  <2>2. \A j \in 1..Len(t) : t[j] # x
    BY <1>1, <1>3 DEF Absent
  <2>3. i \in 1..(Len(s) + Len(t)) /\ (s \o t)[i] = x
    BY <1>1, <2>1
  <2>4. \A j \in 1..(Len(s) + Len(t)) : (s \o t)[j] = x => j = i
    BY <1>1, <2>1, <2>2
  <2> QED
    BY <1>1, <2>3, <2>4 DEF Once
<1>4. ASSUME Absent(x, s), Once(x, t) PROVE Once(x, s \o t)
  <2>1. PICK i \in 1..Len(t) : t[i] = x /\ \A j \in 1..Len(t) : t[j] = x => j = i
    BY <1>1, <1>4 DEF Once
  <2>2. \A j \in 1..Len(s) : s[j] # x
    BY <1>1, <1>4 DEF Absent
  <2>3. Len(s) + i \in 1..(Len(s) + Len(t)) /\ (s \o t)[Len(s) + i] = x
    BY <1>1, <2>1
  <2>4. ASSUME NEW j \in 1..(Len(s) + Len(t)), (s \o t)[j] = x PROVE j = Len(s) + i
    <3>1. CASE j \in 1..Len(s)
      BY <1>1, <2>2, <2>4, <3>1
    <3>2. ASSUME NEW k \in 1..Len(t), j = Len(s) + k PROVE j = Len(s) + i
      <4>1. t[k] = x
        BY <1>1, <2>4, <3>2
      <4> QED
        BY <2>1, <3>2, <4>1
    <3> QED
      BY <1>1, <3>1, <3>2
  <2> QED
    BY <1>1, <2>3, <2>4 DEF Once
<1> QED
  BY <1>2, <1>3, <1>4

LEMMA ConcatSet ==
  ASSUME NEW S, NEW s \in Seq(S), NEW t \in Seq(S)
  PROVE  ToSet(s \o t) = ToSet(s) \cup ToSet(t)
<1>1. /\ Len(s) \in Nat /\ Len(t) \in Nat /\ DOMAIN s = 1..Len(s) /\ DOMAIN t = 1..Len(t)
      /\ DOMAIN (s \o t) = 1..(Len(s) + Len(t))
      /\ \A i \in 1..Len(s) : (s \o t)[i] = s[i]
      /\ \A i \in 1..Len(t) : (s \o t)[Len(s) + i] = t[i]
      /\ \A i \in 1..(Len(s) + Len(t)) :
           i \in 1..Len(s) \/ \E j \in 1..Len(t) : i = Len(s) + j
  BY ConcatParts
<1>2. ASSUME NEW i \in 1..(Len(s) + Len(t)) PROVE (s \o t)[i] \in ToSet(s) \cup ToSet(t)
  BY <1>1 DEF ToSet
<1>3. ASSUME NEW i \in 1..Len(s) PROVE s[i] \in ToSet(s \o t)
  <2>1. i \in 1..(Len(s) + Len(t))
    BY <1>1
  <2> QED
    BY <1>1, <2>1 DEF ToSet
<1>4. ASSUME NEW i \in 1..Len(t) PROVE t[i] \in ToSet(s \o t)
  <2>1. Len(s) + i \in 1..(Len(s) + Len(t))
    BY <1>1
  <2> QED
    BY <1>1, <2>1 DEF ToSet
<1>5. ToSet(s \o t) = {(s \o t)[i] : i \in 1..(Len(s) + Len(t))}
      /\ ToSet(s) = {s[i] : i \in 1..Len(s)} /\ ToSet(t) = {t[i] : i \in 1..Len(t)}
  BY <1>1 DEF ToSet
<1> QED
  BY <1>2, <1>3, <1>4, <1>5

\* A sequence of sequences end to end, one after the other.
LEMMA FlattenIs ==
  ASSUME NEW S, NEW seqs \in Seq(Seq(S))
  PROVE  \E upTo \in [0..Len(seqs) -> Seq(S)] :
           /\ upTo[0] = << >>
           /\ \A i \in 1..Len(seqs) : upTo[i] = upTo[i - 1] \o seqs[i]
           /\ FlattenSeq(seqs) = upTo[Len(seqs)]
<1> DEFINE n == Len(seqs)
           lists == Seq(S)
           F == [i \in 1..n |-> [s \in lists |-> s \o seqs[i]]]
           Body(f, i) == IF i = 1 THEN seqs[i] ELSE f[i - 1] \o seqs[i]
           flatten == CHOOSE f : f = [i \in 1..n |-> Body(f, i)]
<1>1. n \in Nat /\ \A i \in 1..n : seqs[i] \in Seq(S)
  BY LenProperties
<1>2. << >> \in lists
  BY EmptySeq
<1>3. F \in [1..n -> [lists -> lists]]
  BY <1>1, ConcatProperties
<1>4. PICK f \in [0..n -> lists] : f[0] = << >> /\ \A i \in 1..n : f[i] = F[i][f[i - 1]]
  <2> DEFINE base == << >>
  <2>1. n \in Nat /\ base \in lists /\ F \in [1..n -> [lists -> lists]]
    BY <1>1, <1>2, <1>3
  <2> HIDE DEF F, n, lists, base
  <2>2. Recurs(n, lists, base, F)
    BY <2>1, Recursion
  <2> QED
    BY <2>2 DEF Recurs, base
<1>5. ASSUME NEW i \in 1..n PROVE f[i] = f[i - 1] \o seqs[i]
  <2>1. i - 1 \in 0..n
    BY <1>1
  <2>2. f[i - 1] \in lists /\ f[i] = F[i][f[i - 1]]
    BY <1>4, <2>1
  <2> HIDE DEF lists, n
  <2> QED
    BY <2>2
<1> DEFINE g == [i \in 1..n |-> f[i]]
<1>6. ASSUME NEW i \in 1..n PROVE g[i] = Body(g, i)
  <2>1. CASE i = 1
    <3>1. f[i] = f[i - 1] \o seqs[i] /\ i - 1 = 0 /\ seqs[i] \in Seq(S)
      <4>1. f[i] = f[i - 1] \o seqs[i]
        BY <1>5
      <4>2. seqs[i] \in Seq(S)
        BY <1>1
      <4> QED
        BY <2>1, <4>1, <4>2
    <3>2. f[i] = << >> \o seqs[i]
      <4> HIDE DEF F
      <4> QED
        BY <1>4, <3>1
    <3>3. f[i] = seqs[i]
      BY <3>1, <3>2, ConcatEmptySeq
    <3> HIDE DEF n
    <3> QED
      BY <2>1, <3>3
  <2>2. CASE i # 1
    <3>1. i - 1 \in 1..n
      BY <1>1, <2>2
    <3>2. g[i - 1] = f[i - 1] /\ g[i] = f[i]
      BY <3>1
    <3> QED
      BY <1>5, <2>2, <3>2
  <2> QED
    BY <2>1, <2>2
<1>7. g = [i \in 1..n |-> Body(g, i)]
  <2> DEFINE again == [i \in 1..n |-> Body(g, i)]
  <2>1. \A i \in 1..n : g[i] = again[i]
    BY <1>6
  <2> HIDE DEF Body
  <2> QED
    BY <2>1
<1>8. flatten = [i \in 1..n |-> Body(flatten, i)]
  <2> HIDE DEF Body, g
  <2> QED
    BY <1>7
<1>9. \A i \in 1..n : flatten[i] = Body(flatten, i)
  <2> HIDE DEF Body, flatten
  <2> QED
    BY <1>8
<1> DEFINE same == {i \in 0..n : i = 0 \/ flatten[i] = f[i]}
<1>10. 0 \in same
  BY <1>1
<1>11. ASSUME NEW i \in 1..n, i - 1 \in same PROVE i \in same
  <2>1. flatten[i] = Body(flatten, i) /\ g[i] = Body(g, i) /\ g[i] = f[i]
    BY <1>6, <1>9
  <2>2. CASE i = 1
    <3>1. Body(flatten, i) = seqs[i] /\ Body(g, i) = seqs[i] /\ i \in 0..n
      <4> HIDE DEF flatten, g
      <4> QED
        BY <1>1, <2>2
    <3> HIDE DEF Body, flatten, g, n
    <3> QED
      BY <2>1, <3>1
  <2>3. CASE i # 1
    <3>1. flatten[i - 1] = f[i - 1] /\ i - 1 \in 1..n
      BY <1>1, <1>11, <2>3
    <3> HIDE DEF flatten
    <3>2. flatten[i] = f[i]
      BY <1>5, <2>1, <2>3, <3>1
    <3> QED
      BY <1>1, <3>2
  <2> QED
    BY <2>2, <2>3
<1>12. 0..n \subseteq same
  <2> HIDE DEF same, n
  <2> QED
    BY <1>1, <1>10, <1>11, Upwards
<1>13. FlattenSeq(seqs) = IF n = 0 THEN seqs ELSE flatten[n]
  BY DEF FlattenSeq
<1>14. FlattenSeq(seqs) = f[n]
  <2>1. CASE n = 0
    <3>1. seqs = << >>
      BY <2>1, EmptySeq
    <3> HIDE DEF flatten
    <3> QED
      BY <1>4, <1>13, <2>1, <3>1
  <2>2. CASE n # 0
    <3>1. n \in 0..n
      BY <1>1
    <3> HIDE DEF flatten, n
    <3>2. n \in same
      BY <1>12, <3>1
    <3> QED
      BY <1>13, <2>2, <3>2
  <2> QED
    BY <2>1, <2>2
<1> QED
  BY <1>4, <1>5, <1>14

\* What one of the sequences has once and no other has is once in all of them.
LEMMA FlattenOnce ==
  ASSUME NEW S, NEW seqs \in Seq(Seq(S)), NEW x
  PROVE  /\ FlattenSeq(seqs) \in Seq(S)
         /\ (\A j \in 1..Len(seqs) : Absent(x, seqs[j])) => Absent(x, FlattenSeq(seqs))
         /\ \A i \in 1..Len(seqs) :
              Once(x, seqs[i]) /\ (\A j \in 1..Len(seqs) : j # i => Absent(x, seqs[j]))
                => Once(x, FlattenSeq(seqs))
<1> DEFINE n == Len(seqs)
<1>1. n \in Nat /\ \A i \in 1..n : seqs[i] \in Seq(S)
  BY LenProperties
<1>2. PICK upTo \in [0..n -> Seq(S)] :
        /\ upTo[0] = << >>
        /\ \A i \in 1..n : upTo[i] = upTo[i - 1] \o seqs[i]
        /\ FlattenSeq(seqs) = upTo[n]
  BY FlattenIs
<1>3. n \in 0..n /\ 0 \in 0..n /\ upTo[n] \in Seq(S) /\ \A i \in 1..n : i - 1 \in 0..n /\ upTo[i - 1] \in Seq(S)
  <2>1. n \in Nat
    BY <1>1
  <2> DEFINE lists == Seq(S)
  <2>2. upTo \in [0..n -> lists]
    OBVIOUS
  <2> HIDE DEF n, lists
  <2>3. n \in 0..n /\ 0 \in 0..n /\ \A i \in 1..n : i - 1 \in 0..n
    BY <2>1
  <2>4. upTo[n] \in lists /\ \A i \in 1..n : upTo[i - 1] \in lists
    BY <2>2, <2>3
  <2> QED
    BY <2>3, <2>4 DEF lists
<1>4. Absent(x, upTo[0])
  BY <1>2 DEF Absent
<1> HIDE DEF n
<1>5. ASSUME \A j \in 1..n : Absent(x, seqs[j]) PROVE Absent(x, upTo[n])
  <2> DEFINE good == {k \in 0..n : Absent(x, upTo[k])}
  <2>1. \A k \in 1..n : k - 1 \in good => k \in good
    <3> SUFFICES ASSUME NEW k \in 1..n, Absent(x, upTo[k - 1]) PROVE k \in good
      OBVIOUS
    <3>1. k \in 0..n
      BY <1>1
    <3>2. Absent(x, upTo[k - 1] \o seqs[k])
      BY <1>1, <1>3, <1>5, ConcatOnce
    <3> QED
      BY <1>2, <3>1, <3>2
  <2>2. 0 \in good
    BY <1>3, <1>4
  <2> HIDE DEF good
  <2>3. 0..n \subseteq good
    BY <1>1, <2>1, <2>2, Upwards
  <2> QED
    BY <1>3, <2>3 DEF good
<1>6. ASSUME NEW i \in 1..n, Once(x, seqs[i]), \A j \in 1..n : j # i => Absent(x, seqs[j])
      PROVE  Once(x, upTo[n])
  <2> DEFINE good == {k \in 0..n : IF k < i THEN Absent(x, upTo[k]) ELSE Once(x, upTo[k])}
  <2>1. \A k \in 1..n : k - 1 \in good => k \in good
    <3> SUFFICES ASSUME NEW k \in 1..n, k - 1 \in good PROVE k \in good
      OBVIOUS
    <3>1. k \in 0..n /\ k \in Int /\ i \in Int
      BY <1>1
    <3>2. upTo[k] = upTo[k - 1] \o seqs[k] /\ upTo[k - 1] \in Seq(S) /\ seqs[k] \in Seq(S)
      BY <1>1, <1>2, <1>3
    <3>3. CASE k < i
      <4>1. k - 1 < i /\ k # i
        BY <3>1, <3>3
      <4>2. Absent(x, upTo[k - 1]) /\ Absent(x, seqs[k])
        BY <1>6, <4>1
      <4>3. Absent(x, upTo[k])
        BY <3>2, <4>2, ConcatOnce
      <4> QED
        BY <3>1, <3>3, <4>3
    <3>4. CASE k = i
      <4>1. k - 1 < i /\ ~(k < i)
        BY <3>1, <3>4
      <4>2. Absent(x, upTo[k - 1]) /\ Once(x, seqs[k])
        BY <1>6, <3>4, <4>1
      <4>3. Once(x, upTo[k])
        BY <3>2, <4>2, ConcatOnce
      <4> QED
        BY <3>1, <4>1, <4>3
    <3>5. CASE i < k
      <4>1. ~(k - 1 < i) /\ ~(k < i) /\ k # i
        BY <3>1, <3>5
      <4>2. Once(x, upTo[k - 1]) /\ Absent(x, seqs[k])
        BY <1>6, <4>1
      <4>3. Once(x, upTo[k])
        BY <3>2, <4>2, ConcatOnce
      <4> QED
        BY <3>1, <4>1, <4>3
    <3> QED
      BY <3>1, <3>3, <3>4, <3>5
  <2>2. 0 \in good
    <3>1. 0 < i
      BY <1>1
    <3> QED
      BY <1>3, <1>4, <3>1
  <2> HIDE DEF good
  <2>3. 0..n \subseteq good
    BY <1>1, <2>1, <2>2, Upwards
  <2>4. n \in good /\ ~(n < i)
    BY <1>1, <1>3, <2>3
  <2> QED
    BY <2>4 DEF good
<1> QED
  BY <1>2, <1>3, <1>5, <1>6 DEF n

-----------------------------------------------------------------------------
(* Aggregation of categories *)

OutlineSymbol(n) ==
  [kind : {"MODULE", "INTERFACE", "CLASS"}, class : Classes, category : {"Cat", ""},
   head : 1..n, children : Seq(1..n)]

Aggregates(n) == [rest : Seq(OutlineSymbol(n)), orphans : Seq(OutlineSymbol(n))]

LEMMA KeepIs ==
  ASSUME NEW S, NEW seq \in Seq(S), NEW at, at \subseteq 1..Len(seq)
  PROVE  /\ Keep(seq, at) \in Seq(S) /\ Len(Keep(seq, at)) = Cardinality(at)
         /\ Cardinality(at) \in Nat /\ DOMAIN Keep(seq, at) = 1..Cardinality(at)
         /\ \A k \in 1..Cardinality(at) : Keep(seq, at)[k] = seq[InOrder(at)[k]]
<1> DEFINE c == Cardinality(at)
           order == InOrder(at)
<1>1. Len(seq) \in Nat /\ \A i \in 1..Len(seq) : seq[i] \in S
  BY LenProperties
<1>2. c \in Nat /\ DOMAIN order = 1..c /\ \A k \in 1..c : order[k] \in at
  BY <1>1, InOrderIs
<1> HIDE DEF c, order
<1>3. Keep(seq, at) = [k \in 1..c |-> seq[order[k]]]
  BY <1>2 DEF Keep, order
<1>4. \A k \in 1..c : seq[order[k]] \in S
  BY <1>1, <1>2
<1>5. Keep(seq, at) \in Seq(S) /\ Len(Keep(seq, at)) = c
  BY <1>2, <1>3, <1>4, IsASeq
<1> QED
  BY <1>2, <1>3, <1>5 DEF c, order

\* Where PlaceCategory puts the members of a category.
LEMMA PlaceCategoryIs ==
  ASSUME NEW n \in Nat, NEW acc \in Aggregates(n), NEW cat \in OutlineSymbol(n)
  PROVE  /\ PlaceCategory(acc, cat) \in Aggregates(n)
         /\ Bases(acc.rest, cat) = {} =>
              /\ PlaceCategory(acc, cat).rest = acc.rest
              /\ PlaceCategory(acc, cat).orphans = Append(acc.orphans, cat)
         /\ Bases(acc.rest, cat) # {} =>
              /\ PlaceCategory(acc, cat).orphans = acc.orphans
              /\ Len(PlaceCategory(acc, cat).rest) = Len(acc.rest)
              /\ \A j \in 1..Len(acc.rest) :
                   LET old == acc.rest[j]
                       new == PlaceCategory(acc, cat).rest[j]
                   IN  /\ new.kind = old.kind /\ new.class = old.class /\ new.head = old.head
                       /\ new.children = IF j = Min(Bases(acc.rest, cat))
                                         THEN old.children \o cat.children ELSE old.children
<1> DEFINE B == Bases(acc.rest, cat)
           b == Min(B)
           rest == acc.rest
<1>1. /\ acc.rest \in Seq(OutlineSymbol(n)) /\ acc.orphans \in Seq(OutlineSymbol(n))
      /\ acc = [rest |-> acc.rest, orphans |-> acc.orphans]
  BY DEF Aggregates
<1>2. /\ Len(rest) \in Nat /\ DOMAIN rest = 1..Len(rest)
      /\ \A j \in 1..Len(rest) : rest[j] \in OutlineSymbol(n)
  BY <1>1, LenProperties
<1>3. CASE B = {}
  <2>1. PlaceCategory(acc, cat) = [rest |-> acc.rest, orphans |-> Append(acc.orphans, cat)]
    BY <1>1, <1>3 DEF PlaceCategory
  <2>2. Append(acc.orphans, cat) \in Seq(OutlineSymbol(n))
    BY <1>1, AppendProperties
  <2>3. PlaceCategory(acc, cat) \in Aggregates(n)
    BY <1>1, <2>1, <2>2 DEF Aggregates
  <2> QED
    BY <1>3, <2>1, <2>3
<1>4. CASE B # {}
  <2>1. B \subseteq 1..Len(rest)
    BY <1>2 DEF Bases
  <2>2. b \in 1..Len(rest)
    <3>1. B \subseteq Nat
      BY <2>1
    <3> HIDE DEF B
    <3> QED
      BY <1>4, <2>1, <3>1, NatMin
  <2> HIDE DEF b
  <2> DEFINE longer == [rest[b] EXCEPT !.children = @ \o cat.children]
             new == [rest EXCEPT ![b] = longer]
  <2>3. PlaceCategory(acc, cat) = [rest |-> new, orphans |-> acc.orphans]
    <3>1. PlaceCategory(acc, cat) = [acc EXCEPT !.rest[b].children = @ \o cat.children]
      BY <1>4 DEF PlaceCategory, b
    <3> QED
      BY <1>1, <3>1
  <2>4. rest[b] \in OutlineSymbol(n)
    BY <1>2, <2>2
  <2>5. rest[b].children \o cat.children \in Seq(1..n)
    BY <2>4, ConcatProperties DEF OutlineSymbol
  <2>6. /\ longer \in OutlineSymbol(n) /\ longer.kind = rest[b].kind /\ longer.class = rest[b].class
        /\ longer.head = rest[b].head /\ longer.children = rest[b].children \o cat.children
    BY <2>4, <2>5 DEF OutlineSymbol
  <2> HIDE DEF longer, rest
  <2>7. /\ new \in Seq(OutlineSymbol(n)) /\ Len(new) = Len(rest)
        /\ \A j \in 1..Len(rest) : new[j] = IF j = b THEN longer ELSE rest[j]
    BY <1>1, <2>2, <2>6, ExceptSeq DEF rest
  <2> HIDE DEF new
  <2>8. PlaceCategory(acc, cat) \in Aggregates(n)
    BY <1>1, <2>3, <2>7 DEF Aggregates
  <2>9. ASSUME NEW j \in 1..Len(rest)
        PROVE  /\ new[j].kind = rest[j].kind /\ new[j].class = rest[j].class
               /\ new[j].head = rest[j].head
               /\ new[j].children = IF j = b THEN rest[j].children \o cat.children ELSE rest[j].children
    BY <2>6, <2>7
  <2>10. PlaceCategory(acc, cat).rest = new /\ PlaceCategory(acc, cat).orphans = acc.orphans
    BY <2>3
  <2> QED
    BY <1>4, <2>7, <2>8, <2>9, <2>10 DEF b, rest
<1> QED
  BY <1>3, <1>4

Cats(symbols) == {i \in DOMAIN symbols : IsCategory(symbols[i])}
Others(symbols) == (DOMAIN symbols) \ Cats(symbols)
CatAt(symbols) == InOrder(Cats(symbols))
OtherAt(symbols) == InOrder(Others(symbols))

\* How a list of symbols is aggregated, category by category.
PlacedBy(symbols, placed) ==
  LET cats == Keep(symbols, Cats(symbols))
  IN  /\ placed[0] = [rest |-> Keep(symbols, Others(symbols)), orphans |-> << >>]
      /\ \A k \in 1..Len(cats) : placed[k] = PlaceCategory(placed[k - 1], cats[k])
      /\ AggregateCategories(symbols) = placed[Len(cats)].rest \o placed[Len(cats)].orphans

LEMMA AggregateIs ==
  ASSUME NEW n \in Nat, NEW symbols \in Seq(OutlineSymbol(n))
  PROVE  \E placed \in [0..Len(Keep(symbols, Cats(symbols))) -> Aggregates(n)] : PlacedBy(symbols, placed)
<1> DEFINE cats == Keep(symbols, Cats(symbols))
           c == Len(cats)
           states == Aggregates(n)
           base == [rest |-> Keep(symbols, Others(symbols)), orphans |-> << >>]
           F == [k \in 1..c |-> [acc \in states |-> PlaceCategory(acc, cats[k])]]
           Body(f, k) == IF k = 0 THEN base ELSE PlaceCategory(f[k - 1], cats[k])
           placed == CHOOSE f : f = [k \in 0..c |-> Body(f, k)]
<1>1. Cats(symbols) \subseteq 1..Len(symbols) /\ Others(symbols) \subseteq 1..Len(symbols)
  BY LenProperties DEF Cats, Others
<1>2. cats \in Seq(OutlineSymbol(n)) /\ Keep(symbols, Others(symbols)) \in Seq(OutlineSymbol(n))
  BY <1>1, KeepIs
<1>3. c \in Nat /\ \A k \in 1..c : cats[k] \in OutlineSymbol(n)
  <2> HIDE DEF cats
  <2> QED
    BY <1>2, LenProperties
<1>4. base \in states
  BY <1>2, EmptySeq DEF Aggregates
<1>5. F \in [1..c -> [states -> states]]
  <2> HIDE DEF cats, c
  <2> QED
    BY <1>3, PlaceCategoryIs
<1>6. PICK f \in [0..c -> states] : f[0] = base /\ \A k \in 1..c : f[k] = F[k][f[k - 1]]
  <2>1. c \in Nat /\ base \in states /\ F \in [1..c -> [states -> states]]
    BY <1>3, <1>4, <1>5
  <2> HIDE DEF F, c, states, base
  <2>2. Recurs(c, states, base, F)
    BY <2>1, Recursion
  <2> QED
    BY <2>2 DEF Recurs
<1> HIDE DEF base, states
<1>7. ASSUME NEW k \in 0..c PROVE f[k] = Body(f, k)
  <2>1. CASE k = 0
    BY <1>6, <2>1
  <2>2. CASE k # 0
    <3>1. k \in 1..c /\ k - 1 \in 0..c
      BY <1>3, <2>2
    <3>2. f[k - 1] \in states /\ f[k] = F[k][f[k - 1]]
      BY <1>6, <3>1
    <3> HIDE DEF c, cats
    <3>3. f[k] = PlaceCategory(f[k - 1], cats[k])
      BY <3>1, <3>2
    <3> QED
      BY <2>2, <3>3
  <2> QED
    BY <2>1, <2>2
<1> HIDE DEF c
<1>8. f = [k \in 0..c |-> Body(f, k)]
  <2> DEFINE again == [k \in 0..c |-> Body(f, k)]
  <2>1. \A k \in 0..c : f[k] = again[k]
    BY <1>7
  <2> HIDE DEF Body
  <2> QED
    BY <1>6, <2>1
<1>9. placed = [k \in 0..c |-> Body(placed, k)]
  <2> HIDE DEF Body
  <2> QED
    BY <1>8
<1>10. \A k \in 0..c : placed[k] = Body(placed, k)
  <2> HIDE DEF Body, placed
  <2> QED
    BY <1>9
<1> DEFINE same == {k \in 0..c : placed[k] = f[k]}
<1>11. 0 \in same
  <2>1. 0 \in 0..c
    BY <1>3 DEF c
  <2>2. placed[0] = base /\ f[0] = base
    <3> HIDE DEF placed
    <3> QED
      BY <1>6, <1>10, <2>1
  <2> HIDE DEF placed
  <2> QED
    BY <2>1, <2>2
<1>12. ASSUME NEW k \in 1..c, k - 1 \in same PROVE k \in same
  <2>1. k \in 0..c /\ k # 0 /\ placed[k - 1] = f[k - 1]
    <3> HIDE DEF placed
    <3> QED
      BY <1>12
  <2>2. Body(placed, k) = Body(f, k)
    <3> HIDE DEF placed
    <3> QED
      BY <2>1
  <2> HIDE DEF placed, Body
  <2> QED
    BY <1>7, <1>10, <2>1, <2>2
<1>13. 0..c \subseteq same
  <2>1. c \in Nat
    BY <1>3 DEF c
  <2> HIDE DEF same
  <2> QED
    BY <1>11, <1>12, <2>1, Upwards
<1>14. placed[c] = f[c]
  <2>1. c \in 0..c
    BY <1>3 DEF c
  <2> HIDE DEF placed
  <2> QED
    BY <1>13, <2>1
<1>15. AggregateCategories(symbols) = placed[c].rest \o placed[c].orphans
  BY DEF AggregateCategories, Cats, Others, base, c
<1>16. \A k \in 1..c : f[k] = PlaceCategory(f[k - 1], cats[k])
  <2> SUFFICES ASSUME NEW k \in 1..c PROVE f[k] = PlaceCategory(f[k - 1], cats[k])
    OBVIOUS
  <2>1. k \in 0..c /\ k # 0
    OBVIOUS
  <2> QED
    BY <1>7, <2>1
<1> HIDE DEF placed
<1>17. AggregateCategories(symbols) = f[c].rest \o f[c].orphans
  BY <1>14, <1>15
<1>18. PlacedBy(symbols, f)
  BY <1>6, <1>16, <1>17 DEF PlacedBy, base, c
<1> QED
  BY <1>6, <1>18 DEF c, states

\* The classes, among the symbols that are no categories, that a category may be about.
Homes(symbols, i) ==
  {j \in 1..Cardinality(Others(symbols)) :
     LET other == symbols[OtherAt(symbols)[j]]
     IN  other.kind = "CLASS" /\ other.class = symbols[i].class}

\* Only the children of the other symbols change.
Kept(symbols, acc) ==
  /\ Len(acc.rest) = Cardinality(Others(symbols))
  /\ \A j \in 1..Cardinality(Others(symbols)) :
       LET other == symbols[OtherAt(symbols)[j]]
       IN  acc.rest[j].kind = other.kind /\ acc.rest[j].class = other.class
             /\ acc.rest[j].head = other.head

LEMMA CatsAndOthers ==
  ASSUME NEW n \in Nat, NEW symbols \in Seq(OutlineSymbol(n))
  PROVE  /\ Len(symbols) \in Nat /\ DOMAIN symbols = 1..Len(symbols)
         /\ \A i \in 1..Len(symbols) : symbols[i] \in OutlineSymbol(n)
         /\ Cats(symbols) \subseteq 1..Len(symbols) /\ Others(symbols) \subseteq 1..Len(symbols)
         /\ Len(Keep(symbols, Cats(symbols))) = Cardinality(Cats(symbols))
         /\ Cardinality(Cats(symbols)) \in Nat /\ Cardinality(Others(symbols)) \in Nat
         /\ \A k \in 1..Cardinality(Cats(symbols)) :
              CatAt(symbols)[k] \in Cats(symbols)
                /\ Keep(symbols, Cats(symbols))[k] = symbols[CatAt(symbols)[k]]
         /\ \A j \in 1..Cardinality(Others(symbols)) : OtherAt(symbols)[j] \in Others(symbols)
         /\ \A k, l \in 1..Cardinality(Cats(symbols)) : CatAt(symbols)[k] = CatAt(symbols)[l] => k = l
         /\ \A j, l \in 1..Cardinality(Others(symbols)) : OtherAt(symbols)[j] = OtherAt(symbols)[l] => j = l
         /\ \A i \in Cats(symbols) : \E k \in 1..Cardinality(Cats(symbols)) : CatAt(symbols)[k] = i
         /\ \A i \in Others(symbols) : \E j \in 1..Cardinality(Others(symbols)) : OtherAt(symbols)[j] = i
<1>1. Len(symbols) \in Nat /\ DOMAIN symbols = 1..Len(symbols)
      /\ \A i \in 1..Len(symbols) : symbols[i] \in OutlineSymbol(n)
  BY LenProperties
<1>2. Cats(symbols) \subseteq 1..Len(symbols) /\ Others(symbols) \subseteq 1..Len(symbols)
  BY <1>1 DEF Cats, Others
<1>3. /\ Len(Keep(symbols, Cats(symbols))) = Cardinality(Cats(symbols))
      /\ Cardinality(Cats(symbols)) \in Nat /\ Cardinality(Others(symbols)) \in Nat
      /\ \A k \in 1..Cardinality(Cats(symbols)) :
           Keep(symbols, Cats(symbols))[k] = symbols[CatAt(symbols)[k]]
  <2>1. Cardinality(Others(symbols)) \in Nat
    BY <1>1, <1>2, InOrderIs
  <2> QED
    BY <1>2, <2>1, KeepIs DEF CatAt
<1>4. /\ \A k \in 1..Cardinality(Cats(symbols)) : CatAt(symbols)[k] \in Cats(symbols)
      /\ \A i \in Cats(symbols) : \E k \in 1..Cardinality(Cats(symbols)) : CatAt(symbols)[k] = i
      /\ \A k, l \in 1..Cardinality(Cats(symbols)) : CatAt(symbols)[k] = CatAt(symbols)[l] => k = l
  BY <1>1, <1>2, InOrderIs, InOrderUnique DEF CatAt
<1>5. /\ \A j \in 1..Cardinality(Others(symbols)) : OtherAt(symbols)[j] \in Others(symbols)
      /\ \A i \in Others(symbols) : \E j \in 1..Cardinality(Others(symbols)) : OtherAt(symbols)[j] = i
      /\ \A j, l \in 1..Cardinality(Others(symbols)) : OtherAt(symbols)[j] = OtherAt(symbols)[l] => j = l
  BY <1>1, <1>2, InOrderIs, InOrderUnique DEF OtherAt
<1> QED
  BY <1>1, <1>2, <1>3, <1>4, <1>5

LEMMA BasesAre ==
  ASSUME NEW n \in Nat, NEW symbols \in Seq(OutlineSymbol(n)), NEW i \in Cats(symbols),
         NEW acc \in Aggregates(n), Kept(symbols, acc)
  PROVE  Bases(acc.rest, symbols[i]) = Homes(symbols, i)
<1>1. DOMAIN acc.rest = 1..Cardinality(Others(symbols))
  <2>1. acc.rest \in Seq(OutlineSymbol(n))
    BY DEF Aggregates
  <2> QED
    BY <2>1, LenProperties DEF Kept
<1> QED
  BY <1>1 DEF Bases, Homes, Kept

\* What one step of the aggregation does.
LEMMA PlacedStep ==
  ASSUME NEW n \in Nat, NEW symbols \in Seq(OutlineSymbol(n)),
         NEW placed \in [0..Cardinality(Cats(symbols)) -> Aggregates(n)], PlacedBy(symbols, placed),
         NEW k \in 1..Cardinality(Cats(symbols)), Kept(symbols, placed[k - 1])
  PROVE  LET i == CatAt(symbols)[k]
             before == placed[k - 1]
             after == placed[k]
         IN  /\ Kept(symbols, after)
             /\ Homes(symbols, i) = {} =>
                  after.rest = before.rest /\ after.orphans = Append(before.orphans, symbols[i])
             /\ Homes(symbols, i) # {} =>
                  /\ after.orphans = before.orphans
                  /\ \A j \in 1..Cardinality(Others(symbols)) :
                       after.rest[j].children =
                         IF j = Min(Homes(symbols, i))
                         THEN before.rest[j].children \o symbols[i].children
                         ELSE before.rest[j].children
<1> DEFINE i == CatAt(symbols)[k]
           before == placed[k - 1]
           after == placed[k]
<1>1. Cardinality(Cats(symbols)) \in Nat
  BY CatsAndOthers
<1>2. k - 1 \in 0..Cardinality(Cats(symbols))
  BY <1>1
<1>3. before \in Aggregates(n)
  BY <1>2
<1>4. i \in Cats(symbols) /\ symbols[i] \in OutlineSymbol(n)
  BY CatsAndOthers
<1>5. after = PlaceCategory(before, symbols[i])
  BY CatsAndOthers DEF PlacedBy
<1>6. Bases(before.rest, symbols[i]) = Homes(symbols, i)
  BY <1>3, <1>4, BasesAre
<1>7. Len(before.rest) = Cardinality(Others(symbols))
  BY DEF Kept
<1>8. Kept(symbols, before)
  OBVIOUS
<1> HIDE DEF i, before, after
<1>9. /\ Homes(symbols, i) = {} =>
           after.rest = before.rest /\ after.orphans = Append(before.orphans, symbols[i])
      /\ Homes(symbols, i) # {} =>
           /\ after.orphans = before.orphans
           /\ Len(after.rest) = Len(before.rest)
           /\ \A j \in 1..Len(before.rest) :
                /\ after.rest[j].kind = before.rest[j].kind
                /\ after.rest[j].class = before.rest[j].class
                /\ after.rest[j].head = before.rest[j].head
                /\ after.rest[j].children =
                     IF j = Min(Homes(symbols, i))
                     THEN before.rest[j].children \o symbols[i].children
                     ELSE before.rest[j].children
  <2> DEFINE cat == symbols[i]
             homes == Homes(symbols, i)
  <2>1. cat \in OutlineSymbol(n) /\ after = PlaceCategory(before, cat) /\ Bases(before.rest, cat) = homes
    BY <1>4, <1>5, <1>6
  <2> HIDE DEF cat, homes
  <2>2. /\ homes = {} => after.rest = before.rest /\ after.orphans = Append(before.orphans, cat)
        /\ homes # {} => after.orphans = before.orphans /\ Len(after.rest) = Len(before.rest)
    BY <1>3, <2>1, PlaceCategoryIs
  <2>3. ASSUME homes # {}, NEW j \in 1..Len(before.rest)
        PROVE  /\ after.rest[j].kind = before.rest[j].kind
               /\ after.rest[j].class = before.rest[j].class
               /\ after.rest[j].head = before.rest[j].head
               /\ after.rest[j].children =
                    IF j = Min(homes) THEN before.rest[j].children \o cat.children
                    ELSE before.rest[j].children
    BY <1>3, <2>1, <2>3, PlaceCategoryIs
  <2> QED
    BY <2>2, <2>3 DEF cat, homes
<1>10. Kept(symbols, after)
  <2>1. CASE Homes(symbols, i) = {}
    BY <1>8, <1>9, <2>1 DEF Kept
  <2>2. CASE Homes(symbols, i) # {}
    BY <1>7, <1>8, <1>9, <2>2 DEF Kept
  <2> QED
    BY <2>1, <2>2
<1> QED
  BY <1>7, <1>9, <1>10 DEF i, before, after

LEMMA PlacedFirst ==
  ASSUME NEW n \in Nat, NEW symbols \in Seq(OutlineSymbol(n)), NEW placed, PlacedBy(symbols, placed)
  PROVE  /\ Kept(symbols, placed[0]) /\ placed[0].orphans = << >>
         /\ \A j \in 1..Cardinality(Others(symbols)) :
              placed[0].rest[j] = symbols[OtherAt(symbols)[j]]
<1>1. placed[0].rest = Keep(symbols, Others(symbols)) /\ placed[0].orphans = << >>
  BY DEF PlacedBy
<1>2. Others(symbols) \subseteq 1..Len(symbols)
  BY CatsAndOthers
<1>3. /\ Len(Keep(symbols, Others(symbols))) = Cardinality(Others(symbols))
      /\ \A j \in 1..Cardinality(Others(symbols)) :
           Keep(symbols, Others(symbols))[j] = symbols[OtherAt(symbols)[j]]
  BY <1>2, KeepIs DEF OtherAt
<1> QED
  BY <1>1, <1>3 DEF Kept

LEMMA PlacedKeeps ==
  ASSUME NEW n \in Nat, NEW symbols \in Seq(OutlineSymbol(n)),
         NEW placed \in [0..Cardinality(Cats(symbols)) -> Aggregates(n)], PlacedBy(symbols, placed)
  PROVE  \A k \in 0..Cardinality(Cats(symbols)) : Kept(symbols, placed[k])
<1> DEFINE c == Cardinality(Cats(symbols))
           good == {k \in 0..c : Kept(symbols, placed[k])}
<1>1. c \in Nat
  BY CatsAndOthers
<1>2. 0 \in good
  BY <1>1, PlacedFirst
<1>3. ASSUME NEW k \in 1..c, k - 1 \in good PROVE k \in good
  <2>1. k \in 0..c /\ Kept(symbols, placed[k - 1])
    BY <1>1, <1>3
  <2> QED
    BY <2>1, PlacedStep
<1> HIDE DEF c, good
<1>4. 0..c \subseteq good
  BY <1>1, <1>2, <1>3, Upwards
<1> QED
  BY <1>4 DEF c, good

\* What no symbol has as a child never becomes one.
LEMMA PlacedForeign ==
  ASSUME NEW n \in Nat, NEW symbols \in Seq(OutlineSymbol(n)),
         NEW placed \in [0..Cardinality(Cats(symbols)) -> Aggregates(n)], PlacedBy(symbols, placed),
         NEW x, \A i \in 1..Len(symbols) : Absent(x, symbols[i].children)
  PROVE  \A k \in 0..Cardinality(Cats(symbols)) : \A j \in 1..Cardinality(Others(symbols)) :
           Absent(x, placed[k].rest[j].children)
<1> DEFINE c == Cardinality(Cats(symbols))
           d == Cardinality(Others(symbols))
           good == {k \in 0..c : \A j \in 1..d : Absent(x, placed[k].rest[j].children)}
<1>1. c \in Nat /\ \A j \in 1..d : OtherAt(symbols)[j] \in 1..Len(symbols)
  BY CatsAndOthers
<1>2. 0 \in good
  <2>1. \A j \in 1..d : placed[0].rest[j] = symbols[OtherAt(symbols)[j]]
    BY PlacedFirst
  <2> QED
    BY <1>1, <2>1
<1>3. ASSUME NEW k \in 1..c, k - 1 \in good PROVE k \in good
  <2> DEFINE i == CatAt(symbols)[k]
             before == placed[k - 1]
             after == placed[k]
  <2>1. k \in 0..c /\ k - 1 \in 0..c /\ \A j \in 1..d : Absent(x, before.rest[j].children)
    BY <1>1, <1>3
  <2>2. Kept(symbols, before) /\ before \in Aggregates(n)
    BY <2>1, PlacedKeeps
  <2>3. i \in 1..Len(symbols) /\ symbols[i].children \in Seq(1..n)
    BY CatsAndOthers DEF OutlineSymbol
  <2>4. \A j \in 1..d : before.rest[j].children \in Seq(1..n)
    <3>1. before.rest \in Seq(OutlineSymbol(n)) /\ Len(before.rest) = d
      BY <2>2 DEF Aggregates, Kept
    <3>2. \A j \in 1..d : before.rest[j] \in OutlineSymbol(n)
      BY <3>1, LenProperties
    <3> QED
      BY <3>2 DEF OutlineSymbol
  <2>5. /\ Homes(symbols, i) = {} => after.rest = before.rest
        /\ Homes(symbols, i) # {} =>
             \A j \in 1..d : after.rest[j].children =
               IF j = Min(Homes(symbols, i)) THEN before.rest[j].children \o symbols[i].children
               ELSE before.rest[j].children
    BY <2>2, PlacedStep
  <2> HIDE DEF i, before, after, d
  <2>6. \A j \in 1..d : Absent(x, before.rest[j].children \o symbols[i].children)
    BY <2>1, <2>3, <2>4, ConcatOnce
  <2>7. \A j \in 1..d : Absent(x, after.rest[j].children)
    BY <2>1, <2>5, <2>6
  <2> QED
    BY <2>1, <2>7 DEF after
<1> HIDE DEF c, good
<1>4. 0..c \subseteq good
  BY <1>1, <1>2, <1>3, Upwards
<1> QED
  BY <1>4 DEF c, good

\* Where the members of symbol i are after k categories.
Into(symbols, i, j, k) ==
  \/ OtherAt(symbols)[j] = i
  \/ \E q \in 1..k : CatAt(symbols)[q] = i /\ Homes(symbols, i) # {} /\ j = Min(Homes(symbols, i))

\* A member of one symbol is in one place, and once.
LEMMA PlacedOnce ==
  ASSUME NEW n \in Nat, NEW symbols \in Seq(OutlineSymbol(n)),
         NEW placed \in [0..Cardinality(Cats(symbols)) -> Aggregates(n)], PlacedBy(symbols, placed),
         NEW x, NEW i \in 1..Len(symbols), Once(x, symbols[i].children),
         \A l \in 1..Len(symbols) : l # i => Absent(x, symbols[l].children)
  PROVE  \A k \in 0..Cardinality(Cats(symbols)) : \A j \in 1..Cardinality(Others(symbols)) :
           IF Into(symbols, i, j, k) THEN Once(x, placed[k].rest[j].children)
           ELSE Absent(x, placed[k].rest[j].children)
<1> DEFINE c == Cardinality(Cats(symbols))
           d == Cardinality(Others(symbols))
           right(k, j) == IF Into(symbols, i, j, k) THEN Once(x, placed[k].rest[j].children)
                          ELSE Absent(x, placed[k].rest[j].children)
           good == {k \in 0..c : \A j \in 1..d : right(k, j)}
<1>1. c \in Nat /\ \A j \in 1..d : OtherAt(symbols)[j] \in 1..Len(symbols)
  BY CatsAndOthers
<1>2. 0 \in good
  <2>1. \A j \in 1..d : placed[0].rest[j] = symbols[OtherAt(symbols)[j]]
    BY PlacedFirst
  <2>2. \A j \in 1..d : Into(symbols, i, j, 0) <=> OtherAt(symbols)[j] = i
    BY DEF Into
  <2> HIDE DEF d
  <2>3. \A j \in 1..d : right(0, j)
    BY <1>1, <2>1, <2>2
  <2> HIDE DEF right
  <2> QED
    BY <1>1, <2>3
<1>3. ASSUME NEW k \in 1..c, k - 1 \in good PROVE k \in good
  <2> DEFINE cat == CatAt(symbols)[k]
             before == placed[k - 1]
             after == placed[k]
  <2>1. k \in 0..c /\ k - 1 \in 0..c /\ \A j \in 1..d : right(k - 1, j)
    <3> HIDE DEF right
    <3> QED
      BY <1>1, <1>3
  <2>2. Kept(symbols, before) /\ before \in Aggregates(n)
    BY <2>1, PlacedKeeps
  <2>3. cat \in 1..Len(symbols) /\ cat \in Cats(symbols) /\ symbols[cat].children \in Seq(1..n)
    BY CatsAndOthers DEF OutlineSymbol
  <2>4. \A j \in 1..d : before.rest[j].children \in Seq(1..n)
    <3>1. before.rest \in Seq(OutlineSymbol(n)) /\ Len(before.rest) = d
      BY <2>2 DEF Aggregates, Kept
    <3>2. \A j \in 1..d : before.rest[j] \in OutlineSymbol(n)
      BY <3>1, LenProperties
    <3> QED
      BY <3>2 DEF OutlineSymbol
  <2>5. /\ Homes(symbols, cat) = {} => after.rest = before.rest
        /\ Homes(symbols, cat) # {} =>
             \A j \in 1..d : after.rest[j].children =
               IF j = Min(Homes(symbols, cat)) THEN before.rest[j].children \o symbols[cat].children
               ELSE before.rest[j].children
    BY <2>2, PlacedStep
  <2> DEFINE moved(j) == cat = i /\ Homes(symbols, i) # {} /\ j = Min(Homes(symbols, i))
  <2>6. ASSUME NEW j \in 1..d
        PROVE  /\ Into(symbols, i, j, k) <=> Into(symbols, i, j, k - 1) \/ moved(j)
               /\ moved(j) => ~Into(symbols, i, j, k - 1)
    <3>1. k \in Int /\ k >= 1
      BY <1>1
    <3>2. \A q : q \in 1..k <=> q \in 1..(k - 1) \/ q = k
      BY <3>1
    <3>3. Into(symbols, i, j, k) <=> Into(symbols, i, j, k - 1) \/ moved(j)
      BY <3>2 DEF Into
    <3>4. ASSUME moved(j), Into(symbols, i, j, k - 1) PROVE FALSE
      <4>1. OtherAt(symbols)[j] # i
        BY <2>3, <3>4, CatsAndOthers DEF Others
      <4>2. PICK q \in 1..(k - 1) : CatAt(symbols)[q] = i
        BY <3>4, <4>1 DEF Into
      <4>3. q \in 1..c /\ q # k
        BY <1>1, <3>1
      <4>4. CatAt(symbols)[q] = CatAt(symbols)[k]
        BY <3>4, <4>2
      <4> QED
        BY <4>3, <4>4, CatsAndOthers
    <3> HIDE DEF moved
    <3> QED
      BY <3>3, <3>4
  <2>7. ASSUME NEW j \in 1..d PROVE right(k, j)
    <3>1. right(k - 1, j) /\ before.rest[j].children \in Seq(1..n)
      BY <2>1, <2>4
    <3>2. /\ Into(symbols, i, j, k) <=> Into(symbols, i, j, k - 1) \/ moved(j)
          /\ moved(j) => ~Into(symbols, i, j, k - 1)
      BY <2>6
    <3>3. cat # i => Absent(x, symbols[cat].children)
      BY <2>3
    <3>4. /\ Homes(symbols, cat) = {} => after.rest[j].children = before.rest[j].children
          /\ Homes(symbols, cat) # {} =>
               after.rest[j].children =
                 IF j = Min(Homes(symbols, cat)) THEN before.rest[j].children \o symbols[cat].children
                 ELSE before.rest[j].children
      BY <2>5
    <3> DEFINE old == before.rest[j].children
               new == after.rest[j].children
               more == symbols[cat].children
               was == Into(symbols, i, j, k - 1)
    <3>5. /\ Absent(x, old) /\ Absent(x, more) => Absent(x, old \o more)
          /\ Once(x, old) /\ Absent(x, more) => Once(x, old \o more)
          /\ Absent(x, old) /\ Once(x, more) => Once(x, old \o more)
      BY <2>3, <3>1, ConcatOnce
    <3>6. IF was THEN Once(x, old) ELSE Absent(x, old)
      BY <3>1
    <3> HIDE DEF old, new, more, was
    <3>7. CASE moved(j)
      <4>1. new = old \o more /\ Once(x, more)
        BY <3>4, <3>7 DEF old, new, more
      <4>2. Once(x, new)
        BY <3>2, <3>5, <3>6, <3>7, <4>1 DEF was
      <4> QED
        BY <3>2, <3>7, <4>2 DEF new
    <3>8. CASE ~moved(j)
      <4>1. new = old \/ (new = old \o more /\ Absent(x, more))
        BY <3>3, <3>4, <3>8 DEF old, new, more
      <4>2. IF was THEN Once(x, new) ELSE Absent(x, new)
        BY <3>5, <3>6, <4>1
      <4> QED
        BY <3>2, <3>8, <4>2 DEF new, was
    <3> HIDE DEF moved, right
    <3> QED
      BY <3>7, <3>8
  <2> HIDE DEF right
  <2> QED
    BY <2>1, <2>7
<1> HIDE DEF c, good
<1>4. 0..c \subseteq good
  BY <1>1, <1>2, <1>3, Upwards
<1> QED
  BY <1>4 DEF c, good

Distinct(symbols) == \A i, l \in 1..Len(symbols) : symbols[i].head = symbols[l].head => i = l

\* The categories without a class, each once.
OrphansAre(symbols, orphans, k) ==
  /\ \A p \in 1..Len(orphans) : \E q \in 1..k :
       Homes(symbols, CatAt(symbols)[q]) = {} /\ orphans[p] = symbols[CatAt(symbols)[q]]
  /\ \A q \in 1..k :
       Homes(symbols, CatAt(symbols)[q]) = {} =>
         \E p \in 1..Len(orphans) : orphans[p] = symbols[CatAt(symbols)[q]]
  /\ \A p, r \in 1..Len(orphans) : orphans[p] = orphans[r] => p = r

LEMMA PlacedOrphans ==
  ASSUME NEW n \in Nat, NEW symbols \in Seq(OutlineSymbol(n)), Distinct(symbols),
         NEW placed \in [0..Cardinality(Cats(symbols)) -> Aggregates(n)], PlacedBy(symbols, placed)
  PROVE  \A k \in 0..Cardinality(Cats(symbols)) : OrphansAre(symbols, placed[k].orphans, k)
<1> DEFINE c == Cardinality(Cats(symbols))
           good == {k \in 0..c : OrphansAre(symbols, placed[k].orphans, k)}
<1>1. c \in Nat
  BY CatsAndOthers
<1>2. 0 \in good
  <2>1. placed[0].orphans = << >> /\ Len(<< >>) = 0
    BY PlacedFirst
  <2>2. OrphansAre(symbols, << >>, 0)
    BY <2>1 DEF OrphansAre
  <2> QED
    BY <1>1, <2>1, <2>2
<1>3. ASSUME NEW k \in 1..c, k - 1 \in good PROVE k \in good
  <2> DEFINE cat == CatAt(symbols)[k]
             before == placed[k - 1].orphans
             after == placed[k].orphans
  <2>1. k \in 0..c /\ k - 1 \in 0..c /\ OrphansAre(symbols, before, k - 1)
    BY <1>1, <1>3
  <2>2. Kept(symbols, placed[k - 1]) /\ placed[k - 1] \in Aggregates(n)
    BY <2>1, PlacedKeeps
  <2>3. /\ cat \in 1..Len(symbols) /\ symbols[cat] \in OutlineSymbol(n)
        /\ \A q \in 1..c : CatAt(symbols)[q] \in 1..Len(symbols)
        /\ \A q \in 1..c : CatAt(symbols)[q] = cat => q = k
    BY CatsAndOthers
  <2>4. before \in Seq(OutlineSymbol(n))
    BY <2>2 DEF Aggregates
  <2>5. /\ Homes(symbols, cat) = {} => after = Append(before, symbols[cat])
        /\ Homes(symbols, cat) # {} => after = before
    BY <2>2, PlacedStep
  <2>6. \A q : q \in 1..k <=> q \in 1..(k - 1) \/ q = k
    BY <1>1
  <2>7. CASE Homes(symbols, cat) # {}
    <3>1. after = before
      BY <2>5, <2>7
    <3> HIDE DEF before, after
    <3>2. /\ \A p \in 1..Len(before) : \E q \in 1..(k - 1) :
               Homes(symbols, CatAt(symbols)[q]) = {} /\ before[p] = symbols[CatAt(symbols)[q]]
          /\ \A q \in 1..(k - 1) : Homes(symbols, CatAt(symbols)[q]) = {} =>
               \E p \in 1..Len(before) : before[p] = symbols[CatAt(symbols)[q]]
          /\ \A p, r \in 1..Len(before) : before[p] = before[r] => p = r
      BY <2>1 DEF OrphansAre
    <3> HIDE DEF cat
    <3>3. \A q \in 1..k : Homes(symbols, CatAt(symbols)[q]) = {} => q \in 1..(k - 1)
      BY <2>6, <2>7 DEF cat
    <3>4. \A p \in 1..Len(before) : \E q \in 1..k :
            Homes(symbols, CatAt(symbols)[q]) = {} /\ before[p] = symbols[CatAt(symbols)[q]]
      BY <2>6, <3>2
    <3>5. \A q \in 1..k : Homes(symbols, CatAt(symbols)[q]) = {} =>
            \E p \in 1..Len(before) : before[p] = symbols[CatAt(symbols)[q]]
      BY <3>2, <3>3
    <3>6. OrphansAre(symbols, before, k)
      BY <3>2, <3>4, <3>5 DEF OrphansAre
    <3> QED
      BY <2>1, <3>1, <3>6 DEF after
  <2>8. CASE Homes(symbols, cat) = {}
    <3> DEFINE l == Len(before)
    <3>1. l \in Nat /\ Len(after) = l + 1 /\ after[l + 1] = symbols[cat]
          /\ \A p \in 1..l : after[p] = before[p]
      <4> DEFINE last == symbols[cat]
      <4>1. last \in OutlineSymbol(n) /\ before \in Seq(OutlineSymbol(n)) /\ after = Append(before, last)
        BY <2>3, <2>4, <2>5, <2>8
      <4> HIDE DEF last, before, after
      <4>2. Len(before) \in Nat
        BY <4>1, LenProperties
      <4>3. /\ Len(Append(before, last)) = Len(before) + 1
            /\ Append(before, last)[Len(before) + 1] = last
            /\ \A p \in 1..Len(before) : Append(before, last)[p] = before[p]
        BY <4>1, AppendProperties
      <4> QED
        BY <4>1, <4>2, <4>3 DEF last
    <3> HIDE DEF l
    <3>2. \A p : p \in 1..(l + 1) <=> p \in 1..l \/ p = l + 1
      BY <3>1
    <3>3. ASSUME NEW p \in 1..l PROVE before[p] # symbols[cat]
      <4>1. PICK q \in 1..(k - 1) : before[p] = symbols[CatAt(symbols)[q]]
        BY <2>1 DEF OrphansAre, l
      <4>2. q \in 1..c /\ q # k
        BY <1>1, <2>6
      <4>3. CatAt(symbols)[q] # cat /\ CatAt(symbols)[q] \in 1..Len(symbols)
        BY <2>3, <4>2
      <4>4. symbols[CatAt(symbols)[q]].head # symbols[cat].head
        BY <2>3, <4>3 DEF Distinct
      <4> QED
        BY <4>1, <4>4
    <3> HIDE DEF cat, before, after
    <3>4. \A p \in 1..(l + 1) : \E q \in 1..k :
            Homes(symbols, CatAt(symbols)[q]) = {} /\ after[p] = symbols[CatAt(symbols)[q]]
      <4>1. \A p \in 1..l : \E q \in 1..(k - 1) :
              Homes(symbols, CatAt(symbols)[q]) = {} /\ before[p] = symbols[CatAt(symbols)[q]]
        BY <2>1 DEF OrphansAre, l
      <4> QED
        BY <2>6, <2>8, <3>1, <3>2, <4>1 DEF cat
    <3>5. \A q \in 1..k : Homes(symbols, CatAt(symbols)[q]) = {} =>
            \E p \in 1..(l + 1) : after[p] = symbols[CatAt(symbols)[q]]
      <4>1. \A q \in 1..(k - 1) : Homes(symbols, CatAt(symbols)[q]) = {} =>
              \E p \in 1..l : before[p] = symbols[CatAt(symbols)[q]]
        BY <2>1 DEF OrphansAre, l
      <4> QED
        BY <2>6, <3>1, <3>2, <4>1 DEF cat
    <3>6. \A p, r \in 1..(l + 1) : after[p] = after[r] => p = r
      <4>1. \A p, r \in 1..l : before[p] = before[r] => p = r
        BY <2>1 DEF OrphansAre, l
      <4> QED
        BY <3>1, <3>2, <3>3, <4>1
    <3>7. OrphansAre(symbols, after, k)
      BY <3>1, <3>4, <3>5, <3>6 DEF OrphansAre
    <3> QED
      BY <2>1, <3>7 DEF after
  <2> QED
    BY <2>7, <2>8
<1> HIDE DEF c, good
<1>4. 0..c \subseteq good
  BY <1>1, <1>2, <1>3, Upwards
<1> QED
  BY <1>4 DEF c, good

\* What the aggregation leaves: its last state, the others first and then the orphans.
LEMMA AggregateEnds ==
  ASSUME NEW n \in Nat, NEW symbols \in Seq(OutlineSymbol(n)), Distinct(symbols)
  PROVE  \E acc \in Aggregates(n) :
           LET c == Cardinality(Cats(symbols))
               d == Cardinality(Others(symbols))
           IN  /\ AggregateCategories(symbols) = acc.rest \o acc.orphans
               /\ Kept(symbols, acc)
               /\ OrphansAre(symbols, acc.orphans, c)
               /\ \A x : (\A i \in 1..Len(symbols) : Absent(x, symbols[i].children)) =>
                    \A j \in 1..d : Absent(x, acc.rest[j].children)
               /\ \A x : \A i \in 1..Len(symbols) :
                    Once(x, symbols[i].children)
                      /\ (\A l \in 1..Len(symbols) : l # i => Absent(x, symbols[l].children))
                    => \A j \in 1..d : IF Into(symbols, i, j, c) THEN Once(x, acc.rest[j].children)
                                       ELSE Absent(x, acc.rest[j].children)
<1> DEFINE c == Cardinality(Cats(symbols))
           d == Cardinality(Others(symbols))
<1>1. c \in Nat /\ Len(Keep(symbols, Cats(symbols))) = c
  BY CatsAndOthers
<1>2. PICK placed \in [0..c -> Aggregates(n)] : PlacedBy(symbols, placed)
  BY <1>1, AggregateIs
<1> DEFINE acc == placed[c]
<1>3. c \in 0..c
  BY <1>1
<1>4. acc \in Aggregates(n) /\ AggregateCategories(symbols) = acc.rest \o acc.orphans
  BY <1>1, <1>2, <1>3 DEF PlacedBy
<1>5. Kept(symbols, acc)
  BY <1>2, <1>3, PlacedKeeps
<1>6. OrphansAre(symbols, acc.orphans, c)
  BY <1>2, <1>3, PlacedOrphans
<1>7. ASSUME NEW x, \A i \in 1..Len(symbols) : Absent(x, symbols[i].children)
      PROVE  \A j \in 1..d : Absent(x, acc.rest[j].children)
  BY <1>2, <1>3, <1>7, PlacedForeign
<1>8. ASSUME NEW x, NEW i \in 1..Len(symbols), Once(x, symbols[i].children),
             \A l \in 1..Len(symbols) : l # i => Absent(x, symbols[l].children)
      PROVE  \A j \in 1..d : IF Into(symbols, i, j, c) THEN Once(x, acc.rest[j].children)
                             ELSE Absent(x, acc.rest[j].children)
  BY <1>2, <1>3, <1>8, PlacedOnce
<1> HIDE DEF acc
<1> QED
  BY <1>4, <1>5, <1>6, <1>7, <1>8

\* Every symbol but a category with a class has one place in the outline, and a category with
\* a class has none.
LEMMA AggregateHeads ==
  ASSUME NEW n \in Nat, NEW symbols \in Seq(OutlineSymbol(n)), Distinct(symbols)
  PROVE  LET outline == AggregateCategories(symbols)
         IN  /\ outline \in Seq(OutlineSymbol(n))
             /\ \A j \in 1..Len(outline) : \E i \in 1..Len(symbols) : outline[j].head = symbols[i].head
             /\ \A i \in 1..Len(symbols) :
                  IF i \in Cats(symbols) /\ Homes(symbols, i) # {}
                  THEN \A j \in 1..Len(outline) : outline[j].head # symbols[i].head
                  ELSE \E j \in 1..Len(outline) : /\ outline[j].head = symbols[i].head
                                                  /\ \A l \in 1..Len(outline) :
                                                       outline[l].head = symbols[i].head => l = j
<1> DEFINE c == Cardinality(Cats(symbols))
           d == Cardinality(Others(symbols))
           outline == AggregateCategories(symbols)
<1>1. PICK acc \in Aggregates(n) :
        outline = acc.rest \o acc.orphans /\ Kept(symbols, acc) /\ OrphansAre(symbols, acc.orphans, c)
  BY AggregateEnds
<1> DEFINE rest == acc.rest
           orphans == acc.orphans
           e == Len(orphans)
<1>2. rest \in Seq(OutlineSymbol(n)) /\ orphans \in Seq(OutlineSymbol(n)) /\ Len(rest) = d
  BY <1>1 DEF Aggregates, Kept
<1>3. d \in Nat /\ e \in Nat /\ outline \in Seq(OutlineSymbol(n)) /\ Len(outline) = d + e
  <2>1. d \in Nat
    BY CatsAndOthers
  <2>2. outline = rest \o orphans
    BY <1>1
  <2> HIDE DEF rest, orphans, outline, d
  <2>3. Len(orphans) \in Nat
    BY <1>2, LenProperties
  <2>4. rest \o orphans \in Seq(OutlineSymbol(n)) /\ Len(rest \o orphans) = Len(rest) + Len(orphans)
    BY <1>2, ConcatProperties
  <2> QED
    BY <1>2, <2>1, <2>2, <2>3, <2>4
<1>4. /\ \A j \in 1..d : outline[j] = rest[j] /\ j \in 1..(d + e)
      /\ \A p \in 1..e : outline[d + p] = orphans[p] /\ d + p \in 1..(d + e)
      /\ \A j \in 1..(d + e) : j \in 1..d \/ \E p \in 1..e : j = d + p
  <2>1. outline = rest \o orphans
    BY <1>1
  <2> HIDE DEF rest, orphans, outline, e, d
  <2>2. \A j \in 1..d : j \in 1..(d + e)
    BY <1>3
  <2>3. \A p \in 1..e : d + p \in 1..(d + e)
    BY <1>3
  <2>4. /\ \A i \in 1..Len(rest) : (rest \o orphans)[i] = rest[i]
        /\ \A i \in 1..Len(orphans) : (rest \o orphans)[Len(rest) + i] = orphans[i]
        /\ \A i \in 1..(Len(rest) + Len(orphans)) :
             i \in 1..Len(rest) \/ \E j \in 1..Len(orphans) : i = Len(rest) + j
    <3>1. rest \in Seq(OutlineSymbol(n)) /\ orphans \in Seq(OutlineSymbol(n))
      BY <1>2
    <3> QED
      BY <3>1, ConcatParts
  <2>5. Len(rest) = d /\ Len(orphans) = e
    BY <1>2 DEF e
  <2> QED
    BY <2>1, <2>2, <2>3, <2>4, <2>5
<1>5. \A j \in 1..d : rest[j].head = symbols[OtherAt(symbols)[j]].head
  BY <1>1 DEF Kept
<1>6. /\ \A p \in 1..e : \E q \in 1..c :
           Homes(symbols, CatAt(symbols)[q]) = {} /\ orphans[p] = symbols[CatAt(symbols)[q]]
      /\ \A q \in 1..c : Homes(symbols, CatAt(symbols)[q]) = {} =>
           \E p \in 1..e : orphans[p] = symbols[CatAt(symbols)[q]]
      /\ \A p, r \in 1..e : orphans[p] = orphans[r] => p = r
  BY <1>1 DEF OrphansAre
<1>7. /\ \A j \in 1..d : OtherAt(symbols)[j] \in 1..Len(symbols) /\ OtherAt(symbols)[j] \notin Cats(symbols)
      /\ \A q \in 1..c : CatAt(symbols)[q] \in 1..Len(symbols) /\ CatAt(symbols)[q] \in Cats(symbols)
      /\ \A i \in Cats(symbols) : \E q \in 1..c : CatAt(symbols)[q] = i
      /\ \A i \in 1..Len(symbols) : i \notin Cats(symbols) => \E j \in 1..d : OtherAt(symbols)[j] = i
      /\ \A j, l \in 1..d : OtherAt(symbols)[j] = OtherAt(symbols)[l] => j = l
  <2>1. /\ \A j \in 1..d : OtherAt(symbols)[j] \in Others(symbols)
        /\ \A q \in 1..c : CatAt(symbols)[q] \in Cats(symbols)
        /\ \A i \in Cats(symbols) : \E q \in 1..c : CatAt(symbols)[q] = i
        /\ \A i \in Others(symbols) : \E j \in 1..d : OtherAt(symbols)[j] = i
        /\ \A j, l \in 1..d : OtherAt(symbols)[j] = OtherAt(symbols)[l] => j = l
        /\ Cats(symbols) \subseteq 1..Len(symbols) /\ DOMAIN symbols = 1..Len(symbols)
    BY CatsAndOthers
  <2> HIDE DEF c, d
  <2>2. \A i : i \in Others(symbols) <=> i \in 1..Len(symbols) /\ i \notin Cats(symbols)
    BY <2>1 DEF Others
  <2> QED
    BY <2>1, <2>2
<1> HIDE DEF c, d, e, outline, rest, orphans
<1>8. ASSUME NEW j \in 1..(d + e)
      PROVE  \E i \in 1..Len(symbols) :
               /\ outline[j].head = symbols[i].head
               /\ \/ i \notin Cats(symbols) /\ j \in 1..d /\ OtherAt(symbols)[j] = i
                  \/ /\ i \in Cats(symbols) /\ Homes(symbols, i) = {}
                     /\ \E p \in 1..e : j = d + p /\ orphans[p] = symbols[i]
  <2>1. CASE j \in 1..d
    BY <1>4, <1>5, <1>7, <2>1
  <2>2. ASSUME NEW p \in 1..e, j = d + p
        PROVE  \E i \in Cats(symbols) :
                 i \in 1..Len(symbols) /\ outline[j].head = symbols[i].head
                   /\ Homes(symbols, i) = {} /\ orphans[p] = symbols[i]
    <3>1. PICK q \in 1..c :
            Homes(symbols, CatAt(symbols)[q]) = {} /\ orphans[p] = symbols[CatAt(symbols)[q]]
      BY <1>6
    <3>2. CatAt(symbols)[q] \in 1..Len(symbols) /\ CatAt(symbols)[q] \in Cats(symbols)
      BY <1>7
    <3>3. outline[j].head = symbols[CatAt(symbols)[q]].head
      BY <1>4, <2>2, <3>1
    <3> QED
      BY <3>1, <3>2, <3>3
  <2> QED
    BY <1>4, <2>1, <2>2
<1>9. ASSUME NEW i \in 1..Len(symbols), i \in Cats(symbols), Homes(symbols, i) # {}, NEW j \in 1..(d + e)
      PROVE  outline[j].head # symbols[i].head
  <2>1. PICK l \in 1..Len(symbols) :
          /\ outline[j].head = symbols[l].head
          /\ l \notin Cats(symbols) \/ Homes(symbols, l) = {}
    BY <1>8
  <2>2. l # i
    BY <1>9, <2>1
  <2> QED
    BY <2>1, <2>2 DEF Distinct
<1>10. ASSUME NEW i \in 1..Len(symbols), ~(i \in Cats(symbols) /\ Homes(symbols, i) # {})
       PROVE  \E j \in 1..(d + e) : /\ outline[j].head = symbols[i].head
                                    /\ \A l \in 1..(d + e) : outline[l].head = symbols[i].head => l = j
  <2>1. CASE i \notin Cats(symbols)
    <3>1. PICK j \in 1..d : OtherAt(symbols)[j] = i
      BY <1>7, <2>1
    <3>2. j \in 1..(d + e) /\ outline[j].head = symbols[i].head
      BY <1>4, <1>5, <3>1
    <3>3. ASSUME NEW l \in 1..(d + e), outline[l].head = symbols[i].head PROVE l = j
      BY <1>7, <1>8, <2>1, <3>1, <3>3 DEF Distinct
    <3> QED
      BY <3>2, <3>3
  <2>2. CASE i \in Cats(symbols)
    <3>1. PICK q \in 1..c : CatAt(symbols)[q] = i
      BY <1>7, <2>2
    <3>2. PICK p \in 1..e : orphans[p] = symbols[i]
      BY <1>6, <1>10, <2>2, <3>1
    <3>3. d + p \in 1..(d + e) /\ outline[d + p].head = symbols[i].head
      BY <1>4, <3>2
    <3>4. ASSUME NEW l \in 1..(d + e), outline[l].head = symbols[i].head PROVE l = d + p
      <4>1. PICK r \in 1..e : l = d + r /\ orphans[r] = symbols[i]
        BY <1>8, <2>2, <3>4 DEF Distinct
      <4> QED
        BY <1>6, <3>2, <4>1
    <3> QED
      BY <3>3, <3>4
  <2> QED
    BY <2>1, <2>2
<1>11. \A j \in 1..(d + e) : \E i \in 1..Len(symbols) : outline[j].head = symbols[i].head
  BY <1>8
<1> QED
  BY <1>3, <1>9, <1>10, <1>11 DEF outline

\* A member of one symbol has one place in the outline, under a symbol of its class.
LEMMA AggregateMembers ==
  ASSUME NEW n \in Nat, NEW symbols \in Seq(OutlineSymbol(n)), Distinct(symbols), NEW x
  PROVE  LET outline == AggregateCategories(symbols)
         IN  /\ (\A i \in 1..Len(symbols) : Absent(x, symbols[i].children)) =>
                  \A j \in 1..Len(outline) : Absent(x, outline[j].children)
             /\ \A i \in 1..Len(symbols) :
                  Once(x, symbols[i].children)
                    /\ (\A l \in 1..Len(symbols) : l # i => Absent(x, symbols[l].children))
                  => \E j \in 1..Len(outline) :
                       /\ outline[j].class = symbols[i].class
                       /\ Once(x, outline[j].children)
                       /\ \A l \in 1..Len(outline) : l # j => Absent(x, outline[l].children)
<1> DEFINE c == Cardinality(Cats(symbols))
           d == Cardinality(Others(symbols))
           outline == AggregateCategories(symbols)
<1>1. PICK acc \in Aggregates(n) :
        /\ outline = acc.rest \o acc.orphans
        /\ Kept(symbols, acc)
        /\ OrphansAre(symbols, acc.orphans, c)
        /\ \A y : (\A i \in 1..Len(symbols) : Absent(y, symbols[i].children)) =>
             \A j \in 1..d : Absent(y, acc.rest[j].children)
        /\ \A y : \A i \in 1..Len(symbols) :
             Once(y, symbols[i].children)
               /\ (\A l \in 1..Len(symbols) : l # i => Absent(y, symbols[l].children))
             => \A j \in 1..d : IF Into(symbols, i, j, c) THEN Once(y, acc.rest[j].children)
                                ELSE Absent(y, acc.rest[j].children)
  BY AggregateEnds
<1> DEFINE rest == acc.rest
           orphans == acc.orphans
           e == Len(orphans)
<1>2. rest \in Seq(OutlineSymbol(n)) /\ orphans \in Seq(OutlineSymbol(n)) /\ Len(rest) = d
  BY <1>1 DEF Aggregates, Kept
<1>3. d \in Nat /\ e \in Nat /\ Len(outline) = d + e
  <2>1. d \in Nat
    BY CatsAndOthers
  <2>2. outline = rest \o orphans
    BY <1>1
  <2> HIDE DEF rest, orphans, outline, d
  <2>3. Len(orphans) \in Nat
    BY <1>2, LenProperties
  <2>4. Len(rest \o orphans) = Len(rest) + Len(orphans)
    BY <1>2, ConcatProperties
  <2> QED
    BY <1>2, <2>1, <2>2, <2>3, <2>4
<1>4. /\ \A j \in 1..d : outline[j] = rest[j] /\ j \in 1..(d + e)
      /\ \A p \in 1..e : outline[d + p] = orphans[p] /\ d + p \in 1..(d + e)
      /\ \A j \in 1..(d + e) : j \in 1..d \/ \E p \in 1..e : j = d + p
  <2>1. outline = rest \o orphans
    BY <1>1
  <2> HIDE DEF rest, orphans, outline, e, d
  <2>2. \A j \in 1..d : j \in 1..(d + e)
    BY <1>3
  <2>3. \A p \in 1..e : d + p \in 1..(d + e)
    BY <1>3
  <2>4. /\ \A i \in 1..Len(rest) : (rest \o orphans)[i] = rest[i]
        /\ \A i \in 1..Len(orphans) : (rest \o orphans)[Len(rest) + i] = orphans[i]
        /\ \A i \in 1..(Len(rest) + Len(orphans)) :
             i \in 1..Len(rest) \/ \E j \in 1..Len(orphans) : i = Len(rest) + j
    <3>1. rest \in Seq(OutlineSymbol(n)) /\ orphans \in Seq(OutlineSymbol(n))
      BY <1>2
    <3> QED
      BY <3>1, ConcatParts
  <2>5. Len(rest) = d /\ Len(orphans) = e
    BY <1>2 DEF e
  <2> QED
    BY <2>1, <2>2, <2>3, <2>4, <2>5
<1>5. \A j \in 1..d : rest[j].class = symbols[OtherAt(symbols)[j]].class
  BY <1>1 DEF Kept
<1>6. /\ \A p \in 1..e : \E q \in 1..c :
           Homes(symbols, CatAt(symbols)[q]) = {} /\ orphans[p] = symbols[CatAt(symbols)[q]]
      /\ \A q \in 1..c : Homes(symbols, CatAt(symbols)[q]) = {} =>
           \E p \in 1..e : orphans[p] = symbols[CatAt(symbols)[q]]
      /\ \A p, r \in 1..e : orphans[p] = orphans[r] => p = r
  BY <1>1 DEF OrphansAre
<1>7. /\ \A j \in 1..d : OtherAt(symbols)[j] \in 1..Len(symbols) /\ OtherAt(symbols)[j] \notin Cats(symbols)
      /\ \A q \in 1..c : CatAt(symbols)[q] \in 1..Len(symbols) /\ CatAt(symbols)[q] \in Cats(symbols)
      /\ \A i \in Cats(symbols) : \E q \in 1..c : CatAt(symbols)[q] = i
      /\ \A i \in 1..Len(symbols) : i \notin Cats(symbols) => \E j \in 1..d : OtherAt(symbols)[j] = i
      /\ \A j, l \in 1..d : OtherAt(symbols)[j] = OtherAt(symbols)[l] => j = l
  <2>1. /\ \A j \in 1..d : OtherAt(symbols)[j] \in Others(symbols)
        /\ \A q \in 1..c : CatAt(symbols)[q] \in Cats(symbols)
        /\ \A i \in Cats(symbols) : \E q \in 1..c : CatAt(symbols)[q] = i
        /\ \A i \in Others(symbols) : \E j \in 1..d : OtherAt(symbols)[j] = i
        /\ \A j, l \in 1..d : OtherAt(symbols)[j] = OtherAt(symbols)[l] => j = l
        /\ Cats(symbols) \subseteq 1..Len(symbols) /\ DOMAIN symbols = 1..Len(symbols)
    BY CatsAndOthers
  <2> HIDE DEF c, d
  <2>2. \A i : i \in Others(symbols) <=> i \in 1..Len(symbols) /\ i \notin Cats(symbols)
    BY <2>1 DEF Others
  <2> QED
    BY <2>1, <2>2
<1>8. ASSUME \A i \in 1..Len(symbols) : Absent(x, symbols[i].children), NEW j \in 1..(d + e)
      PROVE  Absent(x, outline[j].children)
  <2>1. \A l \in 1..d : Absent(x, rest[l].children)
    BY <1>1, <1>8
  <2> HIDE DEF c, d, e, outline, rest, orphans
  <2>2. ASSUME NEW p \in 1..e PROVE Absent(x, orphans[p].children)
    BY <1>6, <1>7, <1>8
  <2> QED
    BY <1>4, <2>1, <2>2
<1>9. ASSUME NEW i \in 1..Len(symbols), Once(x, symbols[i].children),
             \A l \in 1..Len(symbols) : l # i => Absent(x, symbols[l].children)
      PROVE  \E j \in 1..(d + e) :
               /\ outline[j].class = symbols[i].class
               /\ Once(x, outline[j].children)
               /\ \A l \in 1..(d + e) : l # j => Absent(x, outline[l].children)
  <2>1. \A j \in 1..d : IF Into(symbols, i, j, c) THEN Once(x, rest[j].children)
                        ELSE Absent(x, rest[j].children)
    BY <1>1, <1>9
  <2> HIDE DEF c, d, e, outline, rest, orphans
  <2>2. ASSUME NEW p \in 1..e
        PROVE  \/ Absent(x, orphans[p].children)
               \/ orphans[p] = symbols[i] /\ Homes(symbols, i) = {} /\ i \in Cats(symbols)
    <3>1. PICK q \in 1..c :
            Homes(symbols, CatAt(symbols)[q]) = {} /\ orphans[p] = symbols[CatAt(symbols)[q]]
      BY <1>6
    <3>2. CatAt(symbols)[q] \in 1..Len(symbols) /\ CatAt(symbols)[q] \in Cats(symbols)
      BY <1>7
    <3>3. CASE CatAt(symbols)[q] = i
      BY <3>1, <3>2, <3>3
    <3>4. CASE CatAt(symbols)[q] # i
      BY <1>9, <3>1, <3>2, <3>4
    <3> QED
      BY <3>3, <3>4
  <2>3. CASE i \notin Cats(symbols)
    <3>1. PICK j \in 1..d : OtherAt(symbols)[j] = i
      BY <1>7, <2>3
    <3>2. \A l \in 1..d : Into(symbols, i, l, c) <=> l = j
      BY <1>7, <2>3, <3>1 DEF Into
    <3>3. Once(x, outline[j].children) /\ outline[j].class = symbols[i].class /\ j \in 1..(d + e)
      BY <1>4, <1>5, <2>1, <3>1, <3>2
    <3>4. \A l \in 1..(d + e) : l # j => Absent(x, outline[l].children)
      BY <1>4, <2>1, <2>2, <2>3, <3>2
    <3> QED
      BY <3>3, <3>4
  <2>4. CASE i \in Cats(symbols) /\ Homes(symbols, i) # {}
    <3> DEFINE j == Min(Homes(symbols, i))
    <3>1. Homes(symbols, i) \subseteq 1..d
      BY DEF Homes, d
    <3>2. j \in Homes(symbols, i)
      <4> DEFINE homes == Homes(symbols, i)
      <4>1. homes \subseteq Nat /\ homes # {}
        BY <2>4, <3>1
      <4> HIDE DEF homes
      <4> QED
        BY <4>1, NatMin DEF homes
    <3> HIDE DEF j
    <3>3. j \in 1..d /\ symbols[OtherAt(symbols)[j]].class = symbols[i].class
      BY <3>1, <3>2 DEF Homes
    <3>4. \A l \in 1..d : Into(symbols, i, l, c) <=> l = j
      <4>1. \A l \in 1..d : OtherAt(symbols)[l] # i
        BY <1>7, <2>4
      <4>2. \E q \in 1..c : CatAt(symbols)[q] = i
        BY <1>7, <2>4
      <4> QED
        BY <2>4, <4>1, <4>2 DEF Into, j
    <3>5. Once(x, outline[j].children) /\ outline[j].class = symbols[i].class /\ j \in 1..(d + e)
      BY <1>4, <1>5, <2>1, <3>3, <3>4
    <3>6. \A l \in 1..(d + e) : l # j => Absent(x, outline[l].children)
      BY <1>4, <2>1, <2>2, <2>4, <3>4
    <3> QED
      BY <3>5, <3>6
  <2>5. CASE i \in Cats(symbols) /\ Homes(symbols, i) = {}
    <3>1. PICK q \in 1..c : CatAt(symbols)[q] = i
      BY <1>7, <2>5
    <3>2. PICK p \in 1..e : orphans[p] = symbols[i]
      BY <1>6, <2>5, <3>1
    <3>3. \A l \in 1..d : ~Into(symbols, i, l, c)
      BY <1>7, <2>5 DEF Into
    <3>4. \A l \in 1..d : Absent(x, outline[l].children)
      BY <1>4, <2>1, <3>3
    <3>5. \A r \in 1..e : r # p => Absent(x, orphans[r].children)
      BY <1>6, <2>2, <3>2
    <3>6. d + p \in 1..(d + e) /\ outline[d + p] = symbols[i]
      BY <1>4, <3>2
    <3>7. \A l \in 1..(d + e) : l # d + p => Absent(x, outline[l].children)
      BY <1>4, <3>4, <3>5
    <3> QED
      BY <1>9, <3>6, <3>7
  <2> QED
    BY <2>3, <2>4, <2>5
<1> HIDE DEF outline, c, d, e
<1> QED
  BY <1>3, <1>8, <1>9 DEF outline

-----------------------------------------------------------------------------
(* The outline of a text *)

LEMMA SymbolIs ==
  ASSUME NEW text \in Seq(Line), NEW h \in StartsOf(text), NEW children \in Seq(1..Len(text))
  PROVE  LET symbol == Symbol(text, h, children)
         IN  /\ symbol \in OutlineSymbol(Len(text))
             /\ symbol.head = h /\ symbol.children = children /\ symbol.class = text[h].class
             /\ IsCategory(symbol) <=> text[h].kind = "category"
             /\ symbol.kind = "CLASS" <=> text[h].kind \in {"interface", "implementation"}
<1>1. h \in 1..Len(text) /\ text[h].kind \in StartKinds
  BY AtIs, StartsAreSolid DEF StartsOf
<1>2. text[h] \in Line
  BY <1>1, ElementOfSeq
<1>3. text[h].class \in Classes
  BY <1>1, <1>2 DEF Line, StartKinds, HeadKinds, PlainKinds, MemberKinds
<1> DEFINE kind == text[h].kind
           class == text[h].class
           general == SymbolKind(kind)
           category == IF kind = "category" THEN "Cat" ELSE ""
           symbol == Symbol(text, h, children)
<1>4. symbol = [kind |-> general, class |-> class, category |-> category,
                head |-> h, children |-> children]
  BY DEF Symbol
<1>5. kind \in {"interface", "category", "extension", "implementation", "protocol", "forward"}
  BY <1>1 DEF StartKinds, HeadKinds
<1>6. class \in Classes
  BY <1>3
<1> HIDE DEF kind, class
<1>7. category \in {"Cat", ""} /\ (category # "" <=> kind = "category")
  OBVIOUS
<1>8. /\ general \in {"MODULE", "INTERFACE", "CLASS"}
      /\ kind = "category" => general = "MODULE"
      /\ general = "CLASS" <=> kind \in {"interface", "implementation"}
  BY <1>5 DEF SymbolKind
<1> HIDE DEF general, category, symbol
<1>9. /\ symbol.kind = general /\ symbol.class = class /\ symbol.category = category
      /\ symbol.head = h /\ symbol.children = children
  BY <1>4
<1>10. symbol \in OutlineSymbol(Len(text))
  BY <1>1, <1>4, <1>6, <1>7, <1>8 DEF OutlineSymbol
<1>11. IsCategory(symbol) <=> kind = "category"
  BY <1>7, <1>8, <1>9 DEF IsCategory
<1> QED
  BY <1>8, <1>9, <1>10, <1>11 DEF kind, class, symbol

\* The symbols of an extractor: one for each start, in order, with some members.
Extracts(text, starts, symbols, members) ==
  /\ Len(symbols) = Cardinality(starts)
  /\ \A i \in 1..Cardinality(starts) :
       symbols[i] = Symbol(text, InOrder(starts)[i], InOrder(members[i]))

LEMMA ExtractIs ==
  ASSUME NEW text \in Seq(Line), NEW starts \in SUBSET StartsOf(text),
         NEW members \in [1..Cardinality(starts) -> SUBSET At(text, MemberKinds)]
  PROVE  LET symbols == [i \in 1..Cardinality(starts) |->
                           Symbol(text, InOrder(starts)[i], InOrder(members[i]))]
         IN  /\ symbols \in Seq(OutlineSymbol(Len(text))) /\ Distinct(symbols)
             /\ Extracts(text, starts, symbols, members)
             /\ \A i \in 1..Cardinality(starts) :
                  /\ symbols[i].head = InOrder(starts)[i]
                  /\ symbols[i].children = InOrder(members[i])
                  /\ symbols[i].class = text[InOrder(starts)[i]].class
                  /\ i \in Cats(symbols) <=> text[InOrder(starts)[i]].kind = "category"
                  /\ symbols[i].kind = "CLASS" <=>
                       text[InOrder(starts)[i]].kind \in {"interface", "implementation"}
<1> DEFINE c == Cardinality(starts)
           heads == InOrder(starts)
           symbols == [i \in 1..c |-> Symbol(text, heads[i], InOrder(members[i]))]
           S == OutlineSymbol(Len(text))
<1>1. /\ c \in Nat /\ Len(text) \in Nat
      /\ \A i \in 1..c : heads[i] \in starts
      /\ \A i, j \in 1..c : heads[i] = heads[j] => i = j
  <2>1. Len(text) \in Nat /\ starts \subseteq 1..Len(text)
    BY TextIs, StartsAreSolid
  <2> QED
    BY <2>1, InOrderIs, InOrderUnique
<1>2. ASSUME NEW i \in 1..c PROVE InOrder(members[i]) \in Seq(1..Len(text))
  <2>1. members[i] \subseteq 1..Len(text)
    BY KindsAreSolid
  <2>2. InOrder(members[i]) \in Seq(members[i])
    BY <1>1, <2>1, InOrderIs
  <2> HIDE DEF heads, c
  <2> DEFINE some == members[i]
             all == 1..Len(text)
             order == InOrder(members[i])
  <2>3. some \subseteq all /\ order \in Seq(some)
    BY <2>1, <2>2
  <2> HIDE DEF some, all, order
  <2>4. order \in Seq(all)
    BY <2>3, SeqMonotonic
  <2> QED
    BY <2>4 DEF order, all
<1> HIDE DEF c, heads
<1>3. \A i \in 1..c : symbols[i] = Symbol(text, heads[i], InOrder(members[i]))
  OBVIOUS
<1>4. ASSUME NEW i \in 1..c
      PROVE  /\ symbols[i] \in S /\ symbols[i].head = heads[i]
             /\ symbols[i].children = InOrder(members[i])
             /\ symbols[i].class = text[heads[i]].class
             /\ IsCategory(symbols[i]) <=> text[heads[i]].kind = "category"
             /\ symbols[i].kind = "CLASS" <=> text[heads[i]].kind \in {"interface", "implementation"}
  <2> HIDE DEF symbols
  <2> QED
    BY <1>1, <1>2, <1>3, SymbolIs
<1>5. symbols \in Seq(S) /\ Len(symbols) = c /\ DOMAIN symbols = 1..c
  <2>1. \A i \in 1..c : Symbol(text, heads[i], InOrder(members[i])) \in S
    BY <1>3, <1>4
  <2>2. symbols \in [1..c -> S]
    BY <2>1
  <2> HIDE DEF symbols, S
  <2> QED
    BY <1>1, <2>2, SeqDef, LenProperties
<1> HIDE DEF symbols, S
<1>6. Distinct(symbols)
  BY <1>1, <1>4, <1>5 DEF Distinct
<1>7. \A i \in 1..c : i \in Cats(symbols) <=> text[heads[i]].kind = "category"
  BY <1>4, <1>5 DEF Cats
<1>8. Extracts(text, starts, symbols, members)
  BY <1>3, <1>5 DEF Extracts, c, heads
<1> QED
  BY <1>4, <1>5, <1>6, <1>7, <1>8 DEF symbols, S, c, heads

\* What collect_symbols finds, as the list that is aggregated.
LEMMA CollectedIs ==
  ASSUME NEW text \in Seq(Line), Paired(text)
  PROVE  LET symbols == CollectSymbols(text, Blocks(text))
             heads == InOrder(HeadsOf(text))
         IN  /\ symbols \in Seq(OutlineSymbol(Len(text))) /\ Distinct(symbols)
             /\ Len(symbols) = Cardinality(HeadsOf(text))
             /\ \A i \in 1..Cardinality(HeadsOf(text)) :
                  /\ heads[i] \in HeadsOf(text)
                  /\ symbols[i].head = heads[i]
                  /\ symbols[i].children = InOrder(Between(text, heads[i]))
                  /\ symbols[i].class = text[heads[i]].class
                  /\ i \in Cats(symbols) <=> text[heads[i]].kind = "category"
                  /\ symbols[i].kind = "CLASS" <=> text[heads[i]].kind \in {"interface", "implementation"}
<1> DEFINE heads == InOrder(HeadsOf(text))
           c == Cardinality(HeadsOf(text))
           members == [i \in 1..c |-> Between(text, heads[i])]
           symbols == CollectSymbols(text, Blocks(text))
<1>1. members \in [1..c -> SUBSET At(text, MemberKinds)]
  BY DEF Between
<1>2. \A i \in 1..c : members[i] = Between(text, heads[i])
  OBVIOUS
<1> HIDE DEF members
<1>3. symbols = [i \in 1..c |-> Symbol(text, heads[i], InOrder(members[i]))]
  <2>1. symbols = [i \in 1..c |-> Symbol(text, heads[i], InOrder(Between(text, heads[i])))]
    BY CollectSymbolsAre
  <2> HIDE DEF symbols, heads, c
  <2> QED
    BY <1>2, <2>1
<1>4. \A i \in 1..c : heads[i] \in HeadsOf(text)
  BY HeadsInOrder
<1> HIDE DEF symbols
<1>5. /\ symbols \in Seq(OutlineSymbol(Len(text))) /\ Distinct(symbols)
      /\ Len(symbols) = c
      /\ \A i \in 1..c :
           /\ symbols[i].head = heads[i]
           /\ symbols[i].children = InOrder(members[i])
           /\ symbols[i].class = text[heads[i]].class
           /\ i \in Cats(symbols) <=> text[heads[i]].kind = "category"
           /\ symbols[i].kind = "CLASS" <=> text[heads[i]].kind \in {"interface", "implementation"}
  <2> DEFINE some == HeadsOf(text)
             these == [i \in 1..Cardinality(some) |-> Symbol(text, InOrder(some)[i], InOrder(members[i]))]
  <2>1. some \in SUBSET StartsOf(text)
    BY StartsAreSolid
  <2>2. members \in [1..Cardinality(some) -> SUBSET At(text, MemberKinds)]
    BY <1>1
  <2>3. symbols = these
    BY <1>3
  <2> HIDE DEF some, these
  <2>4. /\ these \in Seq(OutlineSymbol(Len(text))) /\ Distinct(these)
        /\ Extracts(text, some, these, members)
        /\ \A i \in 1..Cardinality(some) :
             /\ these[i].head = InOrder(some)[i]
             /\ these[i].children = InOrder(members[i])
             /\ these[i].class = text[InOrder(some)[i]].class
             /\ i \in Cats(these) <=> text[InOrder(some)[i]].kind = "category"
             /\ these[i].kind = "CLASS" <=>
                  text[InOrder(some)[i]].kind \in {"interface", "implementation"}
    BY <2>1, <2>2, ExtractIs DEF these
  <2>5. Len(these) = Cardinality(some)
    BY <2>4 DEF Extracts
  <2> QED
    BY <2>3, <2>4, <2>5 DEF some
<1> HIDE DEF heads, c
<1> QED
  BY <1>2, <1>4, <1>5 DEF heads, c, symbols

\* The same of a tree that has some of the blocks.
LEMMA TreeSymbols ==
  ASSUME NEW text \in Seq(Line), NEW tree \in SUBSET Blocks(text)
  PROVE  LET symbols == CollectSymbols(text, tree)
         IN  /\ symbols \in Seq(OutlineSymbol(Len(text))) /\ Distinct(symbols)
             /\ \A i \in 1..Len(symbols) : symbols[i].head \in StartsOf(text)
<1> DEFINE starts == {b[1] : b \in tree}
           heads == InOrder(starts)
           c == Cardinality(starts)
           end(s) == CHOOSE e \in DOMAIN text : <<s, e>> \in tree
           between(s) == {m \in At(text, MemberKinds) : s < m /\ m < end(s)}
           members == [i \in 1..c |-> between(heads[i])]
           symbols == CollectSymbols(text, tree)
<1>1. starts \in SUBSET StartsOf(text)
  BY BlockIs, StartsAreSolid
<1>2. starts \subseteq 1..Len(text) /\ Len(text) \in Nat
  BY <1>1, TextIs, StartsAreSolid
<1>3. symbols = [i \in DOMAIN heads |-> Symbol(text, heads[i], InOrder(between(heads[i])))]
  BY DEF CollectSymbols
<1>4. members \in [1..c -> SUBSET At(text, MemberKinds)]
  OBVIOUS
<1>5. \A i \in 1..c : members[i] = between(heads[i])
  OBVIOUS
<1> HIDE DEF starts, members, between, end, symbols
<1>6. DOMAIN heads = 1..c /\ \A i \in 1..c : heads[i] \in starts
  BY <1>2, InOrderIs
<1> HIDE DEF heads, c
<1>7. symbols = [i \in 1..c |-> Symbol(text, heads[i], InOrder(members[i]))]
  BY <1>3, <1>5, <1>6
<1>8. /\ symbols \in Seq(OutlineSymbol(Len(text))) /\ Distinct(symbols)
      /\ Extracts(text, starts, symbols, members)
      /\ \A i \in 1..c : symbols[i].head = heads[i]
  BY <1>1, <1>4, <1>7, ExtractIs DEF heads, c
<1>9. Len(symbols) = c
  BY <1>8 DEF Extracts, c
<1>10. \A i \in 1..Len(symbols) : symbols[i].head \in StartsOf(text)
  BY <1>1, <1>6, <1>8, <1>9
<1> QED
  BY <1>8, <1>10 DEF symbols

\* The same of the patterns.
LEMMA PatternSymbols ==
  ASSUME NEW text \in Seq(Line)
  PROVE  LET symbols == FallbackSymbols(text)
         IN  /\ symbols \in Seq(OutlineSymbol(Len(text))) /\ Distinct(symbols)
             /\ \A i \in 1..Len(symbols) : symbols[i].head \in StartsOf(text)
<1> DEFINE starts == StartsOf(text)
           heads == InOrder(starts)
           c == Cardinality(starts)
           blocks == FallbackBlocks(text)
           found(b) == {m \in At(text, MemberKinds) :
                          MatchLine(text, b[1]) < MatchLine(text, m) /\ MatchLine(text, m) < b[2]}
           members == [i \in 1..c |-> found(blocks[i])]
           symbols == FallbackSymbols(text)
<1>1. c \in Nat /\ DOMAIN heads = 1..c /\ \A i \in 1..c : heads[i] \in starts
  BY TextIs, StartsAreSolid, InOrderIs
<1>2. DOMAIN blocks = 1..c /\ \A i \in 1..c : blocks[i][1] = heads[i]
  BY <1>1 DEF FallbackBlocks, StartsOf
<1>3. symbols = [i \in DOMAIN blocks |-> Symbol(text, blocks[i][1], InOrder(found(blocks[i])))]
  BY DEF FallbackSymbols
<1>4. members \in [1..c -> SUBSET At(text, MemberKinds)]
  OBVIOUS
<1>5. \A i \in 1..c : members[i] = found(blocks[i])
  OBVIOUS
<1>6. starts \in SUBSET StartsOf(text)
  OBVIOUS
<1> HIDE DEF blocks, found, members, symbols, heads, c, starts
<1>7. symbols = [i \in 1..c |-> Symbol(text, heads[i], InOrder(members[i]))]
  BY <1>2, <1>3, <1>5
<1>8. /\ symbols \in Seq(OutlineSymbol(Len(text))) /\ Distinct(symbols)
      /\ Extracts(text, starts, symbols, members)
      /\ \A i \in 1..c : symbols[i].head = heads[i]
  BY <1>4, <1>6, <1>7, ExtractIs DEF heads, c
<1>9. Len(symbols) = c
  BY <1>8 DEF Extracts, c
<1>10. \A i \in 1..Len(symbols) : symbols[i].head \in StartsOf(text)
  BY <1>1, <1>6, <1>8, <1>9
<1> QED
  BY <1>8, <1>10 DEF symbols

\* A member is in one block.
LEMMA OneBlock ==
  ASSUME NEW text \in Seq(Line), NEW m \in 1..Len(text),
         NEW b \in Blocks(text), b[1] < m, m < b[2],
         NEW a \in Blocks(text), a[1] < m, m < a[2]
  PROVE  a = b
<1>1. /\ b[1] \in HeadsOf(text) /\ b[2] \in EndsOf(text) /\ b = <<b[1], b[2]>>
      /\ a[1] \in HeadsOf(text) /\ a[2] \in EndsOf(text) /\ a = <<a[1], a[2]>>
  BY BlockIs
<1>2. b[1] \in Int /\ b[2] \in Int /\ a[1] \in Int /\ a[2] \in Int /\ m \in Int
  BY <1>1, KindsAreSolid
<1>3. ~(b[1] < a[1] /\ a[1] < b[2]) /\ ~(a[1] < b[1] /\ b[1] < a[2])
  BY <1>1, BlockIs
<1>4. b[1] < a[2] /\ a[1] < b[2]
  BY <1>2
<1>5. a[1] = b[1]
  BY <1>2, <1>3, <1>4
<1>6. a[2] = b[2]
  BY <1>5, BlocksApart
<1> QED
  BY <1>1, <1>5, <1>6

\* A member is a child of the symbol of its block, once, and of no other.
LEMMA MemberOnce ==
  ASSUME NEW text \in Seq(Line), Parses(text), NEW m \in At(text, MemberKinds)
  PROVE  LET symbols == CollectSymbols(text, Blocks(text))
         IN  \E i \in 1..Len(symbols) :
               /\ Once(m, symbols[i].children)
               /\ symbols[i].class = text[BlockOf(text, m)[1]].class
               /\ \A l \in 1..Len(symbols) : l # i => Absent(m, symbols[l].children)
<1> DEFINE symbols == CollectSymbols(text, Blocks(text))
           heads == InOrder(HeadsOf(text))
           c == Cardinality(HeadsOf(text))
<1>0. Paired(text)
  BY DEF Parses
<1>1. m \in 1..Len(text)
  BY KindsAreSolid
<1>2. PICK b \in Blocks(text) : b[1] < m /\ m < b[2]
  BY DEF Parses, Inside
<1>3. BlockOf(text, m) = b
  <2>1. \A a \in Blocks(text) : a[1] < m /\ m < a[2] => a = b
    BY <1>1, <1>2, OneBlock
  <2> QED
    BY <1>2, <2>1 DEF BlockOf
<1>4. b[1] \in HeadsOf(text) /\ <<b[1], BlockEnd(text, b[1])>> \in Blocks(text) /\ b = <<b[1], b[2]>>
  BY <1>0, BlockIs, BlockEndIs
<1>5. BlockEnd(text, b[1]) = b[2]
  <2>1. <<b[1], BlockEnd(text, b[1])>>[1] = b[1]
    OBVIOUS
  <2>2. <<b[1], BlockEnd(text, b[1])>>[2] = b[2]
    BY <1>4, <2>1, BlocksApart
  <2> QED
    BY <2>2
<1>6. PICK i \in 1..c : heads[i] = b[1]
  <2>1. HeadsOf(text) \subseteq 1..Len(text) /\ Len(text) \in Nat
    BY KindsAreSolid, TextIs
  <2> QED
    BY <1>4, <2>1, InOrderIs
<1>7. /\ Len(symbols) = c
      /\ \A l \in 1..c : /\ heads[l] \in HeadsOf(text)
                         /\ symbols[l].children = InOrder(Between(text, heads[l]))
                         /\ symbols[l].class = text[heads[l]].class
  BY <1>0, CollectedIs
<1>8. \A l \in 1..c : heads[l] = heads[i] => l = i
  BY HeadsInOrder
<1> HIDE DEF symbols, heads, c
<1>9. m \in Between(text, heads[i])
  BY <1>2, <1>5, <1>6 DEF Between
<1>10. ASSUME NEW l \in 1..c, l # i PROVE m \notin Between(text, heads[l])
  <2> SUFFICES ASSUME m \in Between(text, heads[l]) PROVE FALSE
    OBVIOUS
  <2> DEFINE a == <<heads[l], BlockEnd(text, heads[l])>>
  <2>1. a \in Blocks(text)
    BY <1>0, <1>7, BlockEndIs
  <2>2. a[1] < m /\ m < a[2] /\ a[1] = heads[l]
    BY DEF Between
  <2> HIDE DEF a
  <2>3. a = b
    BY <1>1, <1>2, <2>1, <2>2, OneBlock
  <2> QED
    BY <1>6, <1>8, <1>10, <2>2, <2>3
<1>11. ASSUME NEW l \in 1..c
       PROVE  /\ DOMAIN InOrder(Between(text, heads[l])) = 1..Cardinality(Between(text, heads[l]))
              /\ \A k \in 1..Cardinality(Between(text, heads[l])) :
                   InOrder(Between(text, heads[l]))[k] \in Between(text, heads[l])
              /\ \A k, r \in 1..Cardinality(Between(text, heads[l])) :
                   InOrder(Between(text, heads[l]))[k] = InOrder(Between(text, heads[l]))[r] => k = r
              /\ \A x \in Between(text, heads[l]) : \E k \in 1..Cardinality(Between(text, heads[l])) :
                   InOrder(Between(text, heads[l]))[k] = x
  <2> DEFINE S == Between(text, heads[l])
  <2>1. S \subseteq 1..Len(text) /\ Len(text) \in Nat
    BY KindsAreSolid, TextIs DEF Between
  <2> HIDE DEF S
  <2>2. /\ DOMAIN InOrder(S) = 1..Cardinality(S)
        /\ \A k \in 1..Cardinality(S) : InOrder(S)[k] \in S
        /\ \A x \in S : \E k \in 1..Cardinality(S) : InOrder(S)[k] = x
    BY <2>1, InOrderIs
  <2>3. \A k, r \in 1..Cardinality(S) : InOrder(S)[k] = InOrder(S)[r] => k = r
    BY <2>1, InOrderUnique
  <2> QED
    BY <2>2, <2>3 DEF S
<1>12. Once(m, symbols[i].children)
  <2> DEFINE S == Between(text, heads[i])
             order == InOrder(S)
             n == Cardinality(S)
  <2>1. /\ DOMAIN order = 1..n /\ m \in S
        /\ \A k, r \in 1..n : order[k] = order[r] => k = r
        /\ \A x \in S : \E k \in 1..n : order[k] = x
    BY <1>9, <1>11
  <2>2. symbols[i].children = order
    BY <1>7
  <2> HIDE DEF S, order, n
  <2> QED
    BY <2>1, <2>2 DEF Once
<1>13. ASSUME NEW l \in 1..c, l # i PROVE Absent(m, symbols[l].children)
  <2> DEFINE S == Between(text, heads[l])
             order == InOrder(S)
             n == Cardinality(S)
  <2>1. DOMAIN order = 1..n /\ m \notin S /\ \A k \in 1..n : order[k] \in S
    BY <1>10, <1>11, <1>13
  <2>2. symbols[l].children = order
    BY <1>7
  <2> HIDE DEF S, order, n
  <2> QED
    BY <2>1, <2>2 DEF Absent
<1>14. symbols[i].class = text[BlockOf(text, m)[1]].class
  BY <1>3, <1>6, <1>7
<1> QED
  BY <1>7, <1>12, <1>13, <1>14 DEF symbols

\* A symbol and its children, as flat_symbols lists them.
Listed(symbol) == <<symbol.head>> \o symbol.children

LEMMA ListedIs ==
  ASSUME NEW n \in Nat, NEW symbol \in OutlineSymbol(n), NEW x
  PROVE  /\ Listed(symbol) \in Seq(1..n)
         /\ symbol.head # x /\ Absent(x, symbol.children) => Absent(x, Listed(symbol))
         /\ symbol.head # x /\ Once(x, symbol.children) => Once(x, Listed(symbol))
         /\ symbol.head = x /\ Absent(x, symbol.children) => Once(x, Listed(symbol))
<1> DEFINE head == symbol.head
           children == symbol.children
           one == <<head>>
           S == 1..n
<1>1. head \in S /\ children \in Seq(S)
  BY DEF OutlineSymbol
<1> HIDE DEF head, children, S
<1>2. one \in Seq(S) /\ DOMAIN one = {1} /\ one[1] = head
  BY <1>1
<1> HIDE DEF one
<1>3. /\ head # x => Absent(x, one)
      /\ head = x => Once(x, one)
  BY <1>2 DEF Absent, Once
<1>4. /\ one \o children \in Seq(S)
      /\ Absent(x, one) /\ Absent(x, children) => Absent(x, one \o children)
      /\ Absent(x, one) /\ Once(x, children) => Once(x, one \o children)
      /\ Once(x, one) /\ Absent(x, children) => Once(x, one \o children)
  BY <1>1, <1>2, ConcatOnce, ConcatProperties
<1>5. Listed(symbol) = one \o children
  BY DEF Listed, one, head, children
<1> QED
  BY <1>3, <1>4, <1>5 DEF head, children, S

\* The flat list has what one symbol lists once, and nothing else.
LEMMA FlatIs ==
  ASSUME NEW text \in Seq(Line), NEW x, NEW n \in Nat,
         DocumentSymbols(text, Blocks(text)) \in Seq(OutlineSymbol(n))
  PROVE  LET outline == DocumentSymbols(text, Blocks(text))
         IN  /\ (\A j \in 1..Len(outline) : Absent(x, Listed(outline[j])))
                  => Times(x, FlatSymbols(text, Blocks(text))) = 0
             /\ \A i \in 1..Len(outline) :
                  Once(x, Listed(outline[i]))
                    /\ (\A j \in 1..Len(outline) : j # i => Absent(x, Listed(outline[j])))
                  => Times(x, FlatSymbols(text, Blocks(text))) = 1
<1> DEFINE outline == DocumentSymbols(text, Blocks(text))
           lists == [i \in DOMAIN outline |-> Listed(outline[i])]
           all == Seq(1..n)
           l == Len(outline)
           flat == FlattenSeq(lists)
<1>1. /\ l \in Nat /\ DOMAIN outline = 1..l
      /\ \A i \in 1..l : outline[i] \in OutlineSymbol(n)
  BY LenProperties
<1>2. FlatSymbols(text, Blocks(text)) = flat
  BY DEF FlatSymbols, Listed
<1> HIDE DEF outline, l
<1>3. \A i \in 1..l : lists[i] = Listed(outline[i]) /\ Listed(outline[i]) \in all
  BY <1>1, ListedIs
<1>4. lists \in [1..l -> all]
  BY <1>1, <1>3
<1> HIDE DEF lists, all
<1>5. lists \in Seq(all) /\ Len(lists) = l
  BY <1>1, <1>4, SeqDef, LenProperties
<1>6. lists \in Seq(Seq(1..n))
  BY <1>5 DEF all
<1>7. /\ flat \in Seq(1..n)
      /\ (\A j \in 1..Len(lists) : Absent(x, lists[j])) => Absent(x, flat)
      /\ \A i \in 1..Len(lists) :
           Once(x, lists[i]) /\ (\A j \in 1..Len(lists) : j # i => Absent(x, lists[j])) => Once(x, flat)
  BY <1>6, FlattenOnce
<1> HIDE DEF flat
<1>8. (Times(x, flat) = 0 <=> Absent(x, flat)) /\ (Times(x, flat) = 1 <=> Once(x, flat))
  BY <1>7, TimesIs
<1>9. (\A j \in 1..l : Absent(x, Listed(outline[j]))) => Times(x, flat) = 0
  BY <1>3, <1>5, <1>7, <1>8
<1>10. ASSUME NEW i \in 1..l, Once(x, Listed(outline[i])),
              \A j \in 1..l : j # i => Absent(x, Listed(outline[j]))
       PROVE  Times(x, flat) = 1
  <2>1. Once(x, lists[i]) /\ \A j \in 1..l : j # i => Absent(x, lists[j])
    BY <1>3, <1>10
  <2> QED
    BY <1>5, <1>7, <1>8, <2>1
<1> QED
  BY <1>2, <1>9, <1>10 DEF outline, l

\* For every text without errors, each member is indexed once and shown under a symbol of its
\* class, and each head is indexed but for a category that has a class (aggregate_categories,
\* flat_symbols).
THEOREM OutlineOfEveryText ==
  ASSUME NEW text \in Seq(Line)
  PROVE  OutlineIsComplete(text)
<1> SUFFICES ASSUME Parses(text) PROVE OutlineIsComplete(text)
  BY DEF OutlineIsComplete
<1> DEFINE n == Len(text)
           symbols == CollectSymbols(text, Blocks(text))
           heads == InOrder(HeadsOf(text))
           c == Cardinality(HeadsOf(text))
           outline == DocumentSymbols(text, Blocks(text))
           members == At(text, MemberKinds)
<1>1. n \in Nat
  BY TextIs
<1>2. outline = AggregateCategories(symbols)
  BY DEF DocumentSymbols, FallsBack
<1>3. /\ symbols \in Seq(OutlineSymbol(n)) /\ Distinct(symbols) /\ Len(symbols) = c
      /\ \A i \in 1..c : /\ heads[i] \in HeadsOf(text)
                         /\ symbols[i].head = heads[i]
                         /\ symbols[i].children = InOrder(Between(text, heads[i]))
                         /\ symbols[i].class = text[heads[i]].class
                         /\ i \in Cats(symbols) <=> text[heads[i]].kind = "category"
                         /\ symbols[i].kind = "CLASS" <=>
                              text[heads[i]].kind \in {"interface", "implementation"}
  BY CollectedIs DEF Parses
<1>4. \A m \in members : m \notin HeadsOf(text)
  BY AtIs DEF HeadsOf, HeadKinds, MemberKinds
<1> HIDE DEF n, outline, members
<1>5. /\ outline \in Seq(OutlineSymbol(n))
      /\ \A j \in 1..Len(outline) : \E i \in 1..Len(symbols) : outline[j].head = symbols[i].head
      /\ \A i \in 1..Len(symbols) :
           IF i \in Cats(symbols) /\ Homes(symbols, i) # {}
           THEN \A j \in 1..Len(outline) : outline[j].head # symbols[i].head
           ELSE \E j \in 1..Len(outline) : /\ outline[j].head = symbols[i].head
                                           /\ \A l \in 1..Len(outline) :
                                                outline[l].head = symbols[i].head => l = j
  <2> HIDE DEF symbols, heads, c
  <2>1. symbols \in Seq(OutlineSymbol(n)) /\ Distinct(symbols)
    BY <1>3
  <2> DEFINE aggregate == AggregateCategories(symbols)
  <2>2. /\ aggregate \in Seq(OutlineSymbol(n))
        /\ \A j \in 1..Len(aggregate) : \E i \in 1..Len(symbols) : aggregate[j].head = symbols[i].head
        /\ \A i \in 1..Len(symbols) :
             IF i \in Cats(symbols) /\ Homes(symbols, i) # {}
             THEN \A j \in 1..Len(aggregate) : aggregate[j].head # symbols[i].head
             ELSE \E j \in 1..Len(aggregate) : /\ aggregate[j].head = symbols[i].head
                                               /\ \A l \in 1..Len(aggregate) :
                                                    aggregate[l].head = symbols[i].head => l = j
    BY <1>1, <2>1, AggregateHeads
  <2>3. outline = aggregate
    BY <1>2
  <2> HIDE DEF aggregate
  <2> QED
    BY <2>2, <2>3
<1>6. DOMAIN outline = 1..Len(outline) /\ \A j \in 1..Len(outline) : outline[j] \in OutlineSymbol(n)
  BY <1>5, LenProperties
<1>7. \A j \in 1..Len(outline) : outline[j].head \in HeadsOf(text)
  <2> HIDE DEF symbols, heads, c
  <2> QED
    BY <1>3, <1>5
<1>8. ASSUME NEW m \in members
      PROVE  /\ Times(m, FlatSymbols(text, Blocks(text))) = 1
             /\ \E i \in DOMAIN outline :
                  /\ outline[i].class = text[BlockOf(text, m)[1]].class
                  /\ m \in ToSet(outline[i].children)
  <2>1. PICK i \in 1..Len(symbols) :
          /\ Once(m, symbols[i].children)
          /\ symbols[i].class = text[BlockOf(text, m)[1]].class
          /\ \A l \in 1..Len(symbols) : l # i => Absent(m, symbols[l].children)
    BY MemberOnce DEF members
  <2> HIDE DEF symbols, heads, c
  <2>0. symbols \in Seq(OutlineSymbol(n)) /\ Distinct(symbols)
    BY <1>3
  <2>2. PICK j \in 1..Len(outline) :
          /\ outline[j].class = symbols[i].class
          /\ Once(m, outline[j].children)
          /\ \A l \in 1..Len(outline) : l # j => Absent(m, outline[l].children)
    BY <1>1, <1>2, <2>0, <2>1, AggregateMembers
  <2>3. \A l \in 1..Len(outline) : outline[l].head # m
    BY <1>4, <1>7
  <2>4. Once(m, Listed(outline[j]))
    BY <1>1, <1>6, <2>2, <2>3, ListedIs
  <2>5. \A l \in 1..Len(outline) : l # j => Absent(m, Listed(outline[l]))
    BY <1>1, <1>6, <2>2, <2>3, ListedIs
  <2>6. Times(m, FlatSymbols(text, Blocks(text))) = 1
    BY <1>1, <1>5, <2>4, <2>5, FlatIs DEF outline
  <2>7. m \in ToSet(outline[j].children)
    BY <2>2 DEF Once, ToSet
  <2> QED
    BY <1>6, <2>1, <2>2, <2>6, <2>7
<1>9. ASSUME NEW h \in HeadsOf(text)
      PROVE  Times(h, FlatSymbols(text, Blocks(text))) = 0 <=>
               /\ text[h].kind = "category"
               /\ \E g \in At(text, {"interface", "implementation"}) : text[g].class = text[h].class
  <2>0. HeadsOf(text) \subseteq 1..Len(text) /\ Len(text) \in Nat
    BY KindsAreSolid, TextIs
  <2>1. \A g \in HeadsOf(text) : \E i \in 1..c : heads[i] = g
    BY <2>0, InOrderIs
  <2>2. PICK i \in 1..c : heads[i] = h
    BY <2>1
  <2>3. \A l \in 1..c : Absent(h, symbols[l].children)
    <3> SUFFICES ASSUME NEW l \in 1..c PROVE Absent(h, symbols[l].children)
      OBVIOUS
    <3> DEFINE S == Between(text, heads[l])
    <3>1. S \subseteq 1..Len(text) /\ h \notin S
      BY <1>4, KindsAreSolid DEF Between, members
    <3>2. symbols[l].children = InOrder(S)
      BY <1>3
    <3> HIDE DEF S
    <3>3. DOMAIN InOrder(S) = 1..Cardinality(S) /\ \A k \in 1..Cardinality(S) : InOrder(S)[k] \in S
      BY <2>0, <3>1, InOrderIs
    <3> QED
      BY <3>1, <3>2, <3>3 DEF Absent
  <2>4. Homes(symbols, i) # {} <=>
          \E g \in At(text, {"interface", "implementation"}) : text[g].class = text[h].class
    <3> HIDE DEF symbols, heads, c
    <3>1. /\ \A j \in 1..Cardinality(Others(symbols)) :
               OtherAt(symbols)[j] \in 1..c /\ OtherAt(symbols)[j] \notin Cats(symbols)
          /\ \A l \in 1..c : l \notin Cats(symbols) =>
               \E j \in 1..Cardinality(Others(symbols)) : OtherAt(symbols)[j] = l
      <4>1. /\ DOMAIN symbols = 1..c
            /\ \A j \in 1..Cardinality(Others(symbols)) : OtherAt(symbols)[j] \in Others(symbols)
            /\ \A l \in Others(symbols) : \E j \in 1..Cardinality(Others(symbols)) : OtherAt(symbols)[j] = l
        BY <1>1, <1>3, CatsAndOthers
      <4> QED
        BY <4>1 DEF Others
    <3>2. \A g : g \in At(text, {"interface", "implementation"}) <=>
                   g \in HeadsOf(text) /\ text[g].kind \in {"interface", "implementation"}
      BY AtIs DEF HeadsOf, HeadKinds
    <3>3. ASSUME NEW j \in Homes(symbols, i)
          PROVE  \E g \in At(text, {"interface", "implementation"}) : text[g].class = text[h].class
      <4> DEFINE l == OtherAt(symbols)[j]
      <4>1. l \in 1..c /\ symbols[l].kind = "CLASS" /\ symbols[l].class = symbols[i].class
        BY <3>1 DEF Homes
      <4> HIDE DEF l
      <4>2. heads[l] \in At(text, {"interface", "implementation"}) /\ text[heads[l]].class = text[h].class
        BY <1>3, <2>2, <3>2, <4>1
      <4> QED
        BY <4>2
    <3>4. ASSUME NEW g \in At(text, {"interface", "implementation"}), text[g].class = text[h].class
          PROVE  Homes(symbols, i) # {}
      <4>1. PICK l \in 1..c : heads[l] = g
        BY <2>1, <3>2 DEF heads, c
      <4>2. symbols[l].kind = "CLASS" /\ symbols[l].class = symbols[i].class /\ l \notin Cats(symbols)
        BY <1>3, <2>2, <3>2, <3>4, <4>1
      <4>3. PICK j \in 1..Cardinality(Others(symbols)) : OtherAt(symbols)[j] = l
        BY <3>1, <4>2
      <4>4. j \in Homes(symbols, i)
        BY <4>2, <4>3 DEF Homes
      <4> QED
        BY <4>4
    <3> QED
      BY <3>3, <3>4
  <2> HIDE DEF symbols, heads, c
  <2>5. \A j \in 1..Len(outline) : Absent(h, outline[j].children)
    BY <1>1, <1>2, <1>3, <2>3, AggregateMembers
  <2>6. symbols[i].head = h /\ (i \in Cats(symbols) <=> text[h].kind = "category")
    BY <1>3, <2>2
  <2>7. CASE i \in Cats(symbols) /\ Homes(symbols, i) # {}
    <3>1. \A j \in 1..Len(outline) : outline[j].head # h
      BY <1>3, <1>5, <2>6, <2>7
    <3>2. \A j \in 1..Len(outline) : Absent(h, Listed(outline[j]))
      BY <1>1, <1>6, <2>5, <3>1, ListedIs
    <3>3. Times(h, FlatSymbols(text, Blocks(text))) = 0
      BY <1>1, <1>5, <3>2, FlatIs DEF outline
    <3> QED
      BY <2>4, <2>6, <2>7, <3>3
  <2>8. CASE ~(i \in Cats(symbols) /\ Homes(symbols, i) # {})
    <3>1. PICK j \in 1..Len(outline) :
            outline[j].head = h /\ \A l \in 1..Len(outline) : outline[l].head = h => l = j
      <4>1. i \in 1..Len(symbols)
        BY <1>3
      <4> QED
        BY <1>5, <2>6, <2>8, <4>1
    <3>2. Once(h, Listed(outline[j]))
      BY <1>1, <1>6, <2>5, <3>1, ListedIs
    <3>3. \A l \in 1..Len(outline) : l # j => Absent(h, Listed(outline[l]))
      BY <1>1, <1>6, <2>5, <3>1, ListedIs
    <3>4. Times(h, FlatSymbols(text, Blocks(text))) = 1
      BY <1>1, <1>5, <3>2, <3>3, FlatIs DEF outline
    <3> QED
      BY <2>4, <2>6, <2>8, <3>4
  <2> QED
    BY <2>7, <2>8
<1> QED
  BY <1>8, <1>9 DEF OutlineIsComplete, outline, members, HeadsOf

\* No member is lost or shown twice in any text an editor writes.
THEOREM OutlineAlwaysComplete == Spec => []OutlineComplete
<1>1. TextTyped => OutlineComplete
  BY OutlineOfEveryText DEF TextTyped, OutlineComplete
<1> QED
  BY <1>1, TextsTyped, PTL
-----------------------------------------------------------------------------
(* The sidebar *)

LEMMA MaxIs ==
  ASSUME NEW n \in Nat, NEW S, S \subseteq 1..n, S # {}
  PROVE  Max(S) \in S /\ \A x \in S : x <= Max(S)
<1> DEFINE c == Cardinality(S)
           last == InOrder(S)[c]
<1>1. /\ c \in Nat /\ \A i \in 1..c : InOrder(S)[i] \in S
      /\ \A i, j \in 1..c : i < j => InOrder(S)[i] < InOrder(S)[j]
      /\ \A x \in S : \E i \in 1..c : InOrder(S)[i] = x
  BY InOrderIs
<1>2. \A x \in S : x \in Int
  OBVIOUS
<1>3. c \in 1..c
  <2>1. PICK x \in S : TRUE
    OBVIOUS
  <2>2. PICK i \in 1..c : InOrder(S)[i] = x
    BY <1>1, <2>1
  <2> HIDE DEF c
  <2> QED
    BY <1>1, <2>2
<1>4. last \in S
  BY <1>1, <1>3
<1>5. ASSUME NEW x \in S PROVE last >= x
  <2>1. PICK i \in 1..c : InOrder(S)[i] = x
    BY <1>1
  <2>2. i = c \/ i < c
    BY <1>1
  <2> HIDE DEF c
  <2>3. x = last \/ x < last
    BY <1>1, <1>3, <2>1, <2>2
  <2> HIDE DEF last
  <2> QED
    BY <1>2, <1>4, <2>3
<1> HIDE DEF last
<1>6. \E x \in S : \A y \in S : x >= y
  BY <1>4, <1>5
<1>7. Max(S) \in S /\ \A y \in S : Max(S) >= y
  BY <1>6 DEF Max
<1> DEFINE max == Max(S)
<1> HIDE DEF max
<1>8. max \in S /\ \A y \in S : max >= y
  BY <1>7 DEF max
<1>9. \A y \in S : y <= max
  BY <1>2, <1>8
<1> QED
  BY <1>8, <1>9 DEF max


\* The nearest mark of a line is at or above it, and no other is between them.
LEMMA NearestIs ==
  ASSUME NEW text \in Seq(Line), NEW i \in 1..Len(text)
  PROVE  /\ NearestMark(text, i) \in {0} \cup Marks(text) /\ NearestMark(text, i) <= i
         /\ \A p \in Marks(text) : p <= i => p <= NearestMark(text, i)
<1> DEFINE before == {m \in Marks(text) : m <= i}
<1>1. Len(text) \in Nat /\ Marks(text) \subseteq 1..Len(text)
  BY TextIs, AtIs DEF Marks
<1>2. NearestMark(text, i) = IF before = {} THEN 0 ELSE Max(before)
  BY DEF NearestMark
<1>3. before \subseteq 1..Len(text)
  BY <1>1
<1>4. before # {} => Max(before) \in before /\ \A x \in before : x <= Max(before)
  <2> HIDE DEF before
  <2> QED
    BY <1>1, <1>3, MaxIs
<1>5. CASE before = {}
  <2>1. NearestMark(text, i) = 0
    BY <1>2, <1>5
  <2> QED
    BY <1>1, <1>5, <2>1
<1>6. CASE before # {}
  <2>1. NearestMark(text, i) = Max(before)
    BY <1>2, <1>6
  <2> DEFINE max == Max(before)
  <2>2. max \in before /\ \A x \in before : x <= max
    BY <1>4, <1>6
  <2> HIDE DEF max
  <2> QED
    BY <2>1, <2>2 DEF max
<1> QED
  BY <1>5, <1>6

LEMMA KeepSet ==
  ASSUME NEW S, NEW seq \in Seq(S), NEW at, at \subseteq 1..Len(seq)
  PROVE  ToSet(Keep(seq, at)) = {seq[i] : i \in at}
<1>0. /\ DOMAIN Keep(seq, at) = 1..Cardinality(at)
      /\ \A k \in 1..Cardinality(at) : Keep(seq, at)[k] = seq[InOrder(at)[k]]
  <2>1. DOMAIN InOrder(at) = 1..Cardinality(at)
    <3>1. Len(seq) \in Nat
      BY LenProperties
    <3> QED
      BY <3>1, InOrderIs
  <2> DEFINE order == InOrder(at)
  <2>2. Keep(seq, at) = [k \in DOMAIN order |-> seq[order[k]]]
    BY DEF Keep
  <2>3. DOMAIN order = 1..Cardinality(at)
    BY <2>1
  <2> HIDE DEF order
  <2>4. /\ DOMAIN Keep(seq, at) = 1..Cardinality(at)
        /\ \A k \in 1..Cardinality(at) : Keep(seq, at)[k] = seq[order[k]]
    BY <2>2, <2>3
  <2> QED
    BY <2>4 DEF order
<1> DEFINE c == Cardinality(at)
           kept == Keep(seq, at)
<1>1. DOMAIN kept = 1..c /\ \A k \in 1..c : kept[k] = seq[InOrder(at)[k]]
  BY <1>0
<1>2. /\ \A k \in 1..c : InOrder(at)[k] \in at
      /\ \A x \in at : \E k \in 1..c : InOrder(at)[k] = x
  <2>1. Len(seq) \in Nat
    BY LenProperties
  <2> QED
    BY <2>1, InOrderIs
<1> HIDE DEF c, kept
<1>3. ToSet(kept) = {kept[k] : k \in 1..c}
  BY <1>1 DEF ToSet
<1>4. \A k \in 1..c : kept[k] \in {seq[i] : i \in at}
  BY <1>1, <1>2
<1>5. ASSUME NEW i \in at PROVE seq[i] \in {kept[k] : k \in 1..c}
  <2>1. PICK k \in 1..c : InOrder(at)[k] = i
    BY <1>2
  <2> QED
    BY <1>1, <2>1
<1>6. {kept[k] : k \in 1..c} = {seq[i] : i \in at}
  BY <1>4, <1>5
<1> QED
  BY <1>3, <1>6 DEF kept
LEMMA KeepParts ==
  ASSUME NEW m \in Nat, NEW seq \in Seq(OutlineSymbol(m))
  PROVE  \A at \in SUBSET (1..Len(seq)) :
           /\ Keep(seq, at) \in Seq(OutlineSymbol(m)) /\ Len(Keep(seq, at)) = Cardinality(at)
           /\ ToSet(Keep(seq, at)) = {seq[i] : i \in at}
<1> SUFFICES ASSUME NEW at \in SUBSET (1..Len(seq))
             PROVE  /\ Keep(seq, at) \in Seq(OutlineSymbol(m)) /\ Len(Keep(seq, at)) = Cardinality(at)
                    /\ ToSet(Keep(seq, at)) = {seq[i] : i \in at}
  OBVIOUS
<1>1. at \subseteq 1..Len(seq)
  OBVIOUS
<1>2. Keep(seq, at) \in Seq(OutlineSymbol(m)) /\ Len(Keep(seq, at)) = Cardinality(at)
  BY <1>1, KeepIs
<1>3. ToSet(Keep(seq, at)) = {seq[i] : i \in at}
  BY <1>1, KeepSet
<1> QED
  BY <1>2, <1>3

\* Parts that share nothing and have everything: end to end they are the whole.
LEMMA FlattenParts ==
  ASSUME NEW m \in Nat, NEW seq \in Seq(OutlineSymbol(m)),
         NEW c \in Nat, NEW parts \in [1..c -> SUBSET (1..Len(seq))],
         \A k, l \in 1..c : k # l => parts[k] \cap parts[l] = {},
         \A i \in 1..Len(seq) : \E k \in 1..c : i \in parts[k]
  PROVE  LET shown == FlattenSeq([k \in 1..c |-> Keep(seq, parts[k])])
         IN  Len(shown) = Len(seq) /\ ToSet(shown) = ToSet(seq)
<1> DEFINE S == OutlineSymbol(m)
           n == Len(seq)
           kept == [k \in 1..c |-> Keep(seq, parts[k])]
           lists == Seq(S)
           U(k) == {i \in 1..n : \E l \in 1..k : i \in parts[l]}
<1>1. n \in Nat /\ DOMAIN seq = 1..n
  BY LenProperties
<1>2. \A k \in 1..c : parts[k] \subseteq 1..n
  OBVIOUS
<1>3. ASSUME NEW k \in 1..c
      PROVE  /\ kept[k] \in lists /\ Len(kept[k]) = Cardinality(parts[k])
             /\ ToSet(kept[k]) = {seq[i] : i \in parts[k]}
  <2> DEFINE at == parts[k]
  <2>1. at \subseteq 1..Len(seq)
    BY <1>2
  <2>2. kept[k] = Keep(seq, at)
    OBVIOUS
  <2> HIDE DEF at, kept
  <2>3. at \in SUBSET (1..Len(seq))
    BY <2>1
  <2>4. /\ Keep(seq, at) \in Seq(S) /\ Len(Keep(seq, at)) = Cardinality(at)
        /\ ToSet(Keep(seq, at)) = {seq[i] : i \in at}
    BY <2>3, KeepParts
  <2> QED
    BY <2>2, <2>4 DEF at
<1>4. kept \in [1..c -> lists]
  <2> HIDE DEF lists
  <2> QED
    BY <1>3
<1> HIDE DEF kept, lists
<1>5. kept \in Seq(lists) /\ Len(kept) = c
  BY <1>4, SeqDef, LenProperties
<1> DEFINE shown == FlattenSeq(kept)
<1>6. PICK upTo \in [0..c -> lists] :
        /\ upTo[0] = << >>
        /\ \A k \in 1..c : upTo[k] = upTo[k - 1] \o kept[k]
        /\ shown = upTo[c]
  <2>1. kept \in Seq(Seq(S))
    BY <1>5 DEF lists
  <2>2. \E upTo \in [0..Len(kept) -> Seq(S)] :
          /\ upTo[0] = << >>
          /\ \A k \in 1..Len(kept) : upTo[k] = upTo[k - 1] \o kept[k]
          /\ FlattenSeq(kept) = upTo[Len(kept)]
    BY <2>1, FlattenIs
  <2> QED
    BY <1>5, <2>2 DEF lists
<1> HIDE DEF shown
<1> DEFINE good == {k \in 0..c : /\ Len(upTo[k]) = Cardinality(U(k))
                                 /\ ToSet(upTo[k]) = {seq[i] : i \in U(k)}}
<1>7. 0 \in good
  <2>1. U(0) = {} /\ 0 \in 0..c
    OBVIOUS
  <2> HIDE DEF U
  <2>2. Len(upTo[0]) = 0 /\ ToSet(upTo[0]) = {}
    BY <1>6 DEF ToSet
  <2>3. Cardinality(U(0)) = 0
    BY <2>1, FS_EmptySet
  <2>4. {seq[i] : i \in U(0)} = {}
    BY <2>1
  <2> QED
    BY <2>1, <2>2, <2>3, <2>4
<1>8. ASSUME NEW k \in 1..c, k - 1 \in good PROVE k \in good
  <2> DEFINE old == U(k - 1)
             new == parts[k]
             before == upTo[k - 1]
             list == kept[k]
  <2>1. k - 1 \in 0..c /\ k \in 0..c /\ \A l : l \in 1..k <=> l \in 1..(k - 1) \/ l = k
    OBVIOUS
  <2>2. /\ before \in lists /\ list \in lists /\ upTo[k] = before \o list
        /\ Len(before) = Cardinality(old) /\ ToSet(before) = {seq[i] : i \in old}
        /\ Len(list) = Cardinality(new) /\ ToSet(list) = {seq[i] : i \in new}
    <3> HIDE DEF U, new
    <3>1. before \in lists /\ upTo[k] = before \o list
      BY <1>6, <2>1
    <3>2. Len(before) = Cardinality(old) /\ ToSet(before) = {seq[i] : i \in old}
      BY <1>8
    <3>3. list \in lists /\ Len(list) = Cardinality(new) /\ ToSet(list) = {seq[i] : i \in new}
      BY <1>3 DEF new
    <3> QED
      BY <3>1, <3>2, <3>3
  <2>3. old \cap new = {}
    <3> SUFFICES ASSUME NEW i \in old, i \in new PROVE FALSE
      OBVIOUS
    <3>1. PICK l \in 1..(k - 1) : i \in parts[l]
      OBVIOUS
    <3>2. l \in 1..c /\ l # k
      BY <2>1
    <3>3. parts[l] \cap parts[k] = {}
      BY <3>2
    <3> QED
      BY <3>1, <3>3
  <2>4. U(k) = old \cup new
    BY <1>2, <2>1
  <2>5. IsFiniteSet(old) /\ IsFiniteSet(new)
    <3>1. old \in SUBSET (1..n) /\ new \in SUBSET (1..n)
      BY <1>2
    <3> HIDE DEF old, new, n
    <3>2. IsFiniteSet(1..n)
      BY <1>1, FS_Interval
    <3> QED
      BY <3>1, <3>2, FS_Subset
  <2> HIDE DEF old, new, before, list, U
  <2>6. Cardinality(old \cup new) = Cardinality(old) + Cardinality(new) - Cardinality(old \cap new)
    BY <2>5, FS_Union
  <2>7. Cardinality(old) \in Nat /\ Cardinality(new) \in Nat /\ Cardinality(old \cap new) = 0
    BY <2>3, <2>5, FS_CardinalityType, FS_EmptySet
  <2>8. Cardinality(U(k)) = Cardinality(old) + Cardinality(new)
    BY <2>4, <2>6, <2>7
  <2>9. Len(before \o list) = Len(before) + Len(list)
    <3>1. before \in Seq(S) /\ list \in Seq(S)
      BY <2>2 DEF lists
    <3> HIDE DEF S
    <3> QED
      BY <3>1, ConcatProperties
  <2>10. ToSet(before \o list) = ToSet(before) \cup ToSet(list)
    BY <2>2, ConcatSet DEF lists
  <2>11. {seq[i] : i \in U(k)} = {seq[i] : i \in old} \cup {seq[i] : i \in new}
    BY <2>4
  <2> QED
    BY <2>1, <2>2, <2>8, <2>9, <2>10, <2>11
<1> HIDE DEF good
<1>9. c \in good
  <2>1. 0..c \subseteq good
    BY <1>7, <1>8, Upwards
  <2>2. c \in 0..c
    OBVIOUS
  <2> QED
    BY <2>1, <2>2
<1>10. U(c) = 1..n
  OBVIOUS
<1>11. Len(shown) = Cardinality(1..n) /\ ToSet(shown) = {seq[i] : i \in 1..n}
  <2> HIDE DEF U
  <2> QED
    BY <1>6, <1>9, <1>10 DEF good
<1>12. Cardinality(1..n) = n
  <2> HIDE DEF n
  <2> QED
    BY <1>1, FS_Interval
<1>13. ToSet(seq) = {seq[i] : i \in 1..n}
  BY <1>1 DEF ToSet
<1> QED
  BY <1>11, <1>12, <1>13 DEF shown, kept
\* Either extractor's symbols are those of the lines that start a block.
LEMMA OutlineHeads ==
  ASSUME NEW text \in Seq(Line), NEW tree \in SUBSET Blocks(text)
  PROVE  LET outline == DocumentSymbols(text, tree)
         IN  /\ outline \in Seq(OutlineSymbol(Len(text)))
             /\ \A j \in 1..Len(outline) : outline[j].head \in StartsOf(text)
<1> DEFINE n == Len(text)
           outline == DocumentSymbols(text, tree)
           symbols == IF FallsBack(text, tree) THEN FallbackSymbols(text) ELSE CollectSymbols(text, tree)
           aggregate == AggregateCategories(symbols)
<1>1. n \in Nat
  BY TextIs
<1>2. outline = aggregate
  BY DEF DocumentSymbols
<1>3. /\ symbols \in Seq(OutlineSymbol(n)) /\ Distinct(symbols)
      /\ \A i \in 1..Len(symbols) : symbols[i].head \in StartsOf(text)
  <2>1. CASE FallsBack(text, tree)
    <3>1. symbols = FallbackSymbols(text)
      BY <2>1
    <3> QED
      BY <3>1, PatternSymbols
  <2>2. CASE ~FallsBack(text, tree)
    <3>1. symbols = CollectSymbols(text, tree)
      BY <2>2
    <3> QED
      BY <3>1, TreeSymbols
  <2> QED
    BY <2>1, <2>2
<1> HIDE DEF symbols
<1>4. /\ aggregate \in Seq(OutlineSymbol(n))
      /\ \A j \in 1..Len(aggregate) : \E i \in 1..Len(symbols) : aggregate[j].head = symbols[i].head
  <2> HIDE DEF n
  <2> QED
    BY <1>1, <1>3, AggregateHeads
<1> HIDE DEF aggregate
<1>5. \A j \in 1..Len(aggregate) : aggregate[j].head \in StartsOf(text)
  BY <1>3, <1>4
<1> HIDE DEF outline
<1> QED
  BY <1>2, <1>4, <1>5 DEF outline

LEMMA StartIs ==
  ASSUME NEW text \in Seq(Line), NEW tree, NEW symbol, symbol.head \in StartsOf(text)
  PROVE  /\ StartLine(text, tree, symbol) \in 1..Len(text)
         /\ StartLine(text, tree, symbol) <= symbol.head
         /\ \A p \in At(text, FoldedMarks) : p < symbol.head => p < StartLine(text, tree, symbol)
<1> DEFINE h == symbol.head
<1>1. StartLine(text, tree, symbol) = IF FallsBack(text, tree) THEN MatchLine(text, h) ELSE h
  BY DEF StartLine
<1>2. h \in StartsOf(text)
  OBVIOUS
<1> HIDE DEF h
<1>3. Solid(text, h) /\ h \in 1..Len(text) /\ Len(text) \in Nat
  BY <1>2, StartsAreSolid, TextIs
<1>4. MatchLine(text, h) \in 1..h
  BY <1>3, MatchIs
<1>5. \A p \in At(text, FoldedMarks) : Solid(text, p)
  BY AtIs DEF FoldedMarks, Solid
<1>6. \A p \in At(text, FoldedMarks) : p < h => p < MatchLine(text, h)
  BY <1>3, <1>5, MatchOrder
<1> QED
  BY <1>1, <1>3, <1>4, <1>6 DEF h

\* A symbol in a section that folds is under the section's mark, or the two readers of marks
\* differ: about that mark, or about the one it is under.
LEMMA MarkOfSection ==
  ASSUME NEW text \in Seq(Line), NEW tree, NEW symbol, symbol.head \in StartsOf(text),
         NEW f \in PragmaFolds(text), f.first < symbol.head, symbol.head <= f.last
  PROVE  LET mark == NearestMark(text, StartLine(text, tree, symbol))
         IN  \/ mark = f.first
             \/ mark < f.first /\ text[f.first].kind = "rule"
             \/ f.first < mark /\ mark <= symbol.head /\ text[mark].kind = "wide"
<1> DEFINE h == symbol.head
           start == StartLine(text, tree, symbol)
           mark == NearestMark(text, start)
           p == f.first
           last == f.last
<1>1. /\ p \in At(text, FoldedMarks) /\ last \in 1..Len(text)
      /\ \A i \in (p + 1)..last : text[i].kind \notin FoldedMarks \cup {"end"}
  BY SectionsEnd
<1>2. /\ start \in 1..Len(text) /\ start <= h
      /\ p < h => p < start
  BY <1>1, StartIs
<1>3. /\ p \in 1..Len(text) /\ text[p].kind \in FoldedMarks
      /\ h \in 1..Len(text) /\ Len(text) \in Nat
  BY <1>1, AtIs, StartsAreSolid, TextIs
<1>4. p < h /\ h <= last
  OBVIOUS
<1>5. /\ mark \in {0} \cup Marks(text) /\ mark <= start
      /\ \A q \in Marks(text) : q <= start => q <= mark
  BY <1>2, NearestIs
<1> HIDE DEF h, start, p, last, mark
<1>6. \A q : q \in Marks(text) <=> q \in 1..Len(text) /\ text[q].kind \in {"pragma", "wide"}
  BY AtIs DEF Marks
<1>7. CASE mark < p
  <2>1. p \notin Marks(text)
    BY <1>2, <1>3, <1>4, <1>5, <1>6, <1>7
  <2>2. text[p].kind = "rule"
    BY <1>3, <1>6, <2>1 DEF FoldedMarks
  <2> QED
    BY <1>7, <2>2 DEF mark, p, start
<1>8. CASE p < mark
  <2>1. mark \in Marks(text) /\ mark \in 1..Len(text)
    BY <1>3, <1>5, <1>6, <1>8
  <2>2. mark \in (p + 1)..last /\ mark <= h
    BY <1>1, <1>2, <1>3, <1>4, <1>5, <1>8, <2>1
  <2>3. text[mark].kind = "wide"
    BY <1>1, <1>6, <2>1, <2>2 DEF FoldedMarks
  <2> QED
    BY <1>8, <2>2, <2>3 DEF mark, p, h, start
<1>9. mark \in Int /\ p \in Int
  BY <1>3, <1>5, <1>6
<1>10. CASE mark = p
  BY <1>10 DEF mark, p, start
<1> QED
  BY <1>7, <1>8, <1>9, <1>10

\* The symbols whose nearest mark is m.
Under(text, tree, m) ==
  LET outline == DocumentSymbols(text, tree)
  IN {i \in DOMAIN outline : NearestMark(text, StartLine(text, tree, outline[i])) = m}

\* A group for the symbols above the first mark and one for each mark, which share nothing.
LEMMA GroupsAre ==
  ASSUME NEW text \in Seq(Line), NEW tree, Marks(text) # {}
  PROVE  \E c \in Nat : \E marks \in [1..c -> {0} \cup Marks(text)] :
           /\ DOMAIN GroupedOutline(text, tree) = 1..c
           /\ \A k \in 1..c : GroupedOutline(text, tree)[k] =
                [mark |-> marks[k], symbols |-> Keep(DocumentSymbols(text, tree), Under(text, tree, marks[k]))]
           /\ \A k, l \in 1..c : marks[k] = marks[l] => k = l
           /\ \A m \in {0} \cup Marks(text) : \E k \in 1..c : marks[k] = m
<1> DEFINE d == Cardinality(Marks(text))
           order == InOrder(Marks(text))
           marks == <<0>> \o order
           group(m) == [mark |-> m, symbols |-> Keep(DocumentSymbols(text, tree), Under(text, tree, m))]
           all == {0} \cup Marks(text)
<1>1. Len(text) \in Nat /\ Marks(text) \subseteq 1..Len(text)
  BY TextIs, AtIs DEF Marks
<1>2. /\ d \in Nat /\ Len(order) = d /\ order \in Seq(Marks(text))
      /\ \A i \in 1..d : order[i] \in Marks(text)
      /\ \A i, j \in 1..d : i < j => order[i] < order[j]
      /\ \A x \in Marks(text) : \E i \in 1..d : order[i] = x
  BY <1>1, InOrderIs
<1>3. \A i, j \in 1..d : order[i] = order[j] => i = j
  BY <1>1, InOrderUnique
<1>4. 0 \notin Marks(text)
  BY <1>1
<1> HIDE DEF d, order
<1>5. order \in Seq(all) /\ <<0>> \in Seq(all) /\ Len(<<0>>) = 1 /\ <<0>>[1] = 0
  <2>1. Marks(text) \subseteq all
    OBVIOUS
  <2>2. 0 \in all
    OBVIOUS
  <2> HIDE DEF all
  <2>3. order \in Seq(all)
    BY <1>2, <2>1, SeqMonotonic
  <2> QED
    BY <2>2, <2>3
<1>6. /\ DOMAIN marks = 1..(d + 1) /\ marks[1] = 0
      /\ \A i \in 1..d : marks[1 + i] = order[i]
      /\ \A k \in 1..(d + 1) : k = 1 \/ \E i \in 1..d : k = 1 + i
  <2> DEFINE zero == <<0>>
  <2>0. order \in Seq(all) /\ zero \in Seq(all) /\ Len(zero) = 1 /\ zero[1] = 0 /\ Len(order) = d
    BY <1>2, <1>5
  <2>00. marks = zero \o order
    OBVIOUS
  <2> HIDE DEF all, zero, marks, group, order
  <2>1. /\ DOMAIN (zero \o order) = 1..(Len(zero) + Len(order))
        /\ \A i \in 1..Len(zero) : (zero \o order)[i] = zero[i]
        /\ \A i \in 1..Len(order) : (zero \o order)[Len(zero) + i] = order[i]
        /\ \A i \in 1..(Len(zero) + Len(order)) :
             i \in 1..Len(zero) \/ \E j \in 1..Len(order) : i = Len(zero) + j
    BY <2>0, ConcatParts
  <2>2. 1 \in 1..1 /\ 1 + d = d + 1 /\ \A i \in 1..1 : i = 1
    BY <1>2
  <2> QED
    BY <2>0, <2>00, <2>1, <2>2
<1>7. Len(marks) = d + 1 /\ d # 0
  <2>1. d + 1 \in Nat /\ d # 0
    BY <1>2
  <2>2. marks \in Seq(all)
    BY <1>5, ConcatProperties
  <2> HIDE DEF marks, all
  <2>3. Len(marks) \in Nat /\ DOMAIN marks = 1..Len(marks)
    BY <2>2, LenProperties
  <2> QED
    BY <1>6, <2>1, <2>3
<1>8. GroupedOutline(text, tree) = [k \in DOMAIN marks |-> group(marks[k])]
  <2>1. Len(marks) # 1
    BY <1>2, <1>7
  <2> QED
    BY <2>1 DEF GroupedOutline, Under, Marks, order
<1> HIDE DEF marks
<1> DEFINE c == d + 1
           at == [k \in 1..c |-> marks[k]]
<1>9. c \in Nat
  BY <1>2
<1>0. ASSUME NEW k \in 1..c
      PROVE  \/ k = 1 /\ marks[k] = 0
             \/ \E i \in 1..d : k = 1 + i /\ marks[k] = order[i] /\ order[i] \in Marks(text)
  <2>1. k = 1 \/ \E i \in 1..d : k = 1 + i
    BY <1>6
  <2>2. ASSUME NEW i \in 1..d, k = 1 + i PROVE marks[k] = order[i] /\ order[i] \in Marks(text)
    BY <1>2, <1>6, <2>2
  <2> HIDE DEF c
  <2> QED
    BY <1>6, <2>1, <2>2
<1>10. \A k \in 1..c : marks[k] \in all
  <2> HIDE DEF c
  <2> QED
    BY <1>0
<1>11. \A k \in 1..c : at[k] = marks[k]
  OBVIOUS
<1>12. at \in [1..c -> all]
  BY <1>10
<1>13. \A k \in 1..c : GroupedOutline(text, tree)[k] = group(marks[k])
  BY <1>6, <1>8
<1>14. DOMAIN GroupedOutline(text, tree) = 1..c
  BY <1>6, <1>8
<1>15. \A k, l \in 1..c : marks[k] = marks[l] => k = l
  <2> SUFFICES ASSUME NEW k \in 1..c, NEW l \in 1..c, marks[k] = marks[l] PROVE k = l
    OBVIOUS
  <2>1. \A i \in 1..d : order[i] \in Marks(text) /\ order[i] # 0
    BY <1>2, <1>4
  <2> HIDE DEF c
  <2>2. \/ k = 1 /\ marks[k] = 0
        \/ \E i \in 1..d : k = 1 + i /\ marks[k] = order[i] /\ order[i] \in Marks(text)
    BY <1>0
  <2>3. \/ l = 1 /\ marks[l] = 0
        \/ \E i \in 1..d : l = 1 + i /\ marks[l] = order[i] /\ order[i] \in Marks(text)
    BY <1>0
  <2>4. CASE k = 1
    BY <2>1, <2>2, <2>3, <2>4
  <2>5. ASSUME NEW i \in 1..d, k = 1 + i, marks[k] = order[i] PROVE k = l
    <3>1. PICK j \in 1..d : l = 1 + j /\ marks[l] = order[j]
      BY <2>1, <2>3, <2>5
    <3>2. i = j
      BY <1>3, <2>5, <3>1
    <3> QED
      BY <2>5, <3>1, <3>2
  <2> QED
    BY <2>2, <2>4, <2>5
<1>16. \A m \in all : \E k \in 1..c : marks[k] = m
  <2> SUFFICES ASSUME NEW m \in all PROVE \E k \in 1..c : marks[k] = m
    OBVIOUS
  <2>1. CASE m = 0
    <3>1. 1 \in 1..c
      BY <1>2
    <3> QED
      BY <1>6, <2>1, <3>1
  <2>2. CASE m \in Marks(text)
    <3>1. PICK i \in 1..d : order[i] = m
      BY <1>2, <2>2
    <3>2. 1 + i \in 1..c
      BY <1>2
    <3> QED
      BY <1>6, <3>1, <3>2
  <2> QED
    BY <2>1, <2>2
<1> HIDE DEF at, c
<1>17. /\ DOMAIN GroupedOutline(text, tree) = 1..c
       /\ \A k \in 1..c : GroupedOutline(text, tree)[k] =
            [mark |-> at[k], symbols |-> Keep(DocumentSymbols(text, tree), Under(text, tree, at[k]))]
       /\ \A k, l \in 1..c : at[k] = at[l] => k = l
       /\ \A m \in {0} \cup Marks(text) : \E k \in 1..c : at[k] = m
  BY <1>11, <1>13, <1>14, <1>15, <1>16
<1> QED
  BY <1>9, <1>12, <1>17
LEMMA UngroupedIs ==
  ASSUME NEW text \in Seq(Line), NEW tree, Marks(text) = {}
  PROVE  /\ DOMAIN GroupedOutline(text, tree) = 1..1
         /\ GroupedOutline(text, tree)[1] = [mark |-> 0, symbols |-> DocumentSymbols(text, tree)]
<1> DEFINE order == InOrder(Marks(text))
           marks == <<0>> \o order
           groups == <<[mark |-> 0, symbols |-> DocumentSymbols(text, tree)]>>
<1>1. Len(order) = 0 /\ order \in Seq({})
  <2>1. Cardinality(Marks(text)) = 0
    BY FS_EmptySet
  <2>2. Marks(text) \subseteq 1..0 /\ 0 \in Nat
    OBVIOUS
  <2>3. Len(order) = Cardinality(Marks(text)) /\ order \in Seq(Marks(text))
    BY <2>2, InOrderIs
  <2> QED
    BY <2>1, <2>3
<1> HIDE DEF order
<1>2. Len(marks) = 1
  <2>1. order = << >>
    BY <1>1, EmptySeq
  <2> QED
    BY <2>1
<1>3. GroupedOutline(text, tree) = groups
  BY <1>2 DEF GroupedOutline, order
<1>4. DOMAIN groups = 1..1 /\ groups[1] = [mark |-> 0, symbols |-> DocumentSymbols(text, tree)]
  OBVIOUS
<1> QED
  BY <1>3, <1>4

\* The sidebar shows the whole outline of every text, whatever is left of its tree, and under a
\* mark that folds what the fold has, where sidebar and folding take the same lines for marks
\* (parsePragmaMarks, buildGroupedOutline, collect_pragma_mark_folds).
THEOREM SidebarOfEveryText ==
  ASSUME NEW text \in Seq(Line)
  PROVE  SectionsMatch(text, PragmaFolds(text))
<1> SUFFICES ASSUME NEW tree \in Trees(text)
             PROVE  LET groups == GroupedOutline(text, tree)
                        shown == FlattenSeq([k \in DOMAIN groups |-> groups[k].symbols])
                        outline == DocumentSymbols(text, tree)
                    IN  /\ Len(shown) = Len(outline) /\ ToSet(shown) = ToSet(outline)
                        /\ \A k \in DOMAIN groups : \A s \in ToSet(groups[k].symbols) :
                             \A f \in PragmaFolds(text) :
                               LET mark == groups[k].mark
                               IN f.first < s.head /\ s.head <= f.last =>
                                    \/ mark = f.first
                                    \/ mark < f.first /\ text[f.first].kind = "rule"
                                    \/ f.first < mark /\ mark <= s.head /\ text[mark].kind = "wide"
  BY DEF SectionsMatch
<1>0. tree \in SUBSET Blocks(text)
  BY DEF Trees
<1> DEFINE n == Len(text)
           outline == DocumentSymbols(text, tree)
           l == Len(outline)
           groups == GroupedOutline(text, tree)
           lists == [k \in DOMAIN groups |-> groups[k].symbols]
           shown == FlattenSeq(lists)
           sections == PragmaFolds(text)
           S == OutlineSymbol(n)
           Agrees(mark, s, f) ==
             f.first < s.head /\ s.head <= f.last =>
               \/ mark = f.first
               \/ mark < f.first /\ text[f.first].kind = "rule"
               \/ f.first < mark /\ mark <= s.head /\ text[mark].kind = "wide"
<1>1. /\ n \in Nat /\ outline \in Seq(S)
      /\ \A i \in 1..l : outline[i].head \in StartsOf(text)
  BY <1>0, TextIs, OutlineHeads
<1>2. l \in Nat /\ DOMAIN outline = 1..l
  BY <1>1, LenProperties
<1>3. \A f \in sections : f.first \in At(text, FoldedMarks)
  BY SectionsEnd
<1> SUFFICES /\ Len(shown) = l /\ ToSet(shown) = ToSet(outline)
             /\ \A k \in DOMAIN groups : \A s \in ToSet(groups[k].symbols) : \A f \in sections :
                  Agrees(groups[k].mark, s, f)
  OBVIOUS
<1> HIDE DEF n, outline, groups, sections, Agrees
<1>4. CASE Marks(text) = {}
  <2>1. DOMAIN groups = 1..1 /\ groups[1] = [mark |-> 0, symbols |-> outline]
    BY <1>4, UngroupedIs DEF groups, outline
  <2>2. DOMAIN lists = 1..1 /\ lists[1] = outline
    BY <2>1
  <2>3. lists = [k \in 1..1 |-> outline]
    BY <2>2
  <2> DEFINE seqs == Seq(S)
  <2>4. outline \in seqs
    BY <1>1
  <2> HIDE DEF seqs, lists
  <2>5. lists \in Seq(seqs) /\ Len(lists) = 1
    BY <2>3, <2>4, SeqDef, LenProperties
  <2>6. PICK upTo \in [0..Len(lists) -> Seq(S)] :
          /\ upTo[0] = << >>
          /\ \A i \in 1..Len(lists) : upTo[i] = upTo[i - 1] \o lists[i]
          /\ FlattenSeq(lists) = upTo[Len(lists)]
    <3>1. lists \in Seq(Seq(S))
      BY <2>5 DEF seqs
    <3> QED
      BY <3>1, FlattenIs
  <2>7. shown = << >> \o outline
    <3>1. 1 \in 1..1 /\ 1 - 1 = 0
      OBVIOUS
    <3> QED
      BY <2>2, <2>5, <2>6, <3>1
  <2>8. shown = outline
    BY <1>1, <2>7, ConcatEmptySeq
  <2>9. ASSUME NEW s \in ToSet(groups[1].symbols), NEW f \in sections
        PROVE  Agrees(groups[1].mark, s, f)
    <3>1. groups[1].mark = 0
      BY <2>1
    <3>2. f.first \in 1..Len(text) /\ text[f.first].kind \in FoldedMarks /\ f.first \notin Marks(text)
      BY <1>3, <1>4, AtIs
    <3>3. text[f.first].kind = "rule"
      BY <3>2, AtIs DEF Marks, FoldedMarks
    <3>4. 0 < f.first
      BY <3>2, TextIs
    <3> QED
      BY <3>1, <3>3, <3>4 DEF Agrees
  <2>10. \A k \in DOMAIN groups : k = 1
    BY <2>1
  <2> QED
    BY <2>8, <2>9, <2>10
<1>5. CASE Marks(text) # {}
  <2>1. PICK c \in Nat : \E marks \in [1..c -> {0} \cup Marks(text)] :
          /\ DOMAIN groups = 1..c
          /\ \A k \in 1..c : groups[k] = [mark |-> marks[k], symbols |-> Keep(outline, Under(text, tree, marks[k]))]
          /\ \A k, m \in 1..c : marks[k] = marks[m] => k = m
          /\ \A m \in {0} \cup Marks(text) : \E k \in 1..c : marks[k] = m
    <3> HIDE DEF lists, shown
    <3>1. \E c \in Nat : \E marks \in [1..c -> {0} \cup Marks(text)] :
            /\ DOMAIN GroupedOutline(text, tree) = 1..c
            /\ \A k \in 1..c : GroupedOutline(text, tree)[k] =
                 [mark |-> marks[k],
                  symbols |-> Keep(DocumentSymbols(text, tree), Under(text, tree, marks[k]))]
            /\ \A k, m \in 1..c : marks[k] = marks[m] => k = m
            /\ \A m \in {0} \cup Marks(text) : \E k \in 1..c : marks[k] = m
      <4>1. groups = GroupedOutline(text, tree)
        BY DEF groups
      <4> QED
        BY <1>5, <4>1, GroupsAre
    <3> QED
      BY <3>1 DEF groups, outline
  <2>2. PICK marks \in [1..c -> {0} \cup Marks(text)] :
          /\ DOMAIN groups = 1..c
          /\ \A k \in 1..c : groups[k] = [mark |-> marks[k], symbols |-> Keep(outline, Under(text, tree, marks[k]))]
          /\ \A k, m \in 1..c : marks[k] = marks[m] => k = m
          /\ \A m \in {0} \cup Marks(text) : \E k \in 1..c : marks[k] = m
    BY <2>1
  <2> DEFINE near(i) == NearestMark(text, StartLine(text, tree, outline[i]))
             parts == [k \in 1..c |-> Under(text, tree, marks[k])]
  <2>3. \A m : Under(text, tree, m) = {i \in 1..l : near(i) = m}
    BY <1>2 DEF Under, outline
  <2>4. \A i \in 1..l : near(i) \in {0} \cup Marks(text)
    <3> SUFFICES ASSUME NEW i \in 1..l PROVE near(i) \in {0} \cup Marks(text)
      OBVIOUS
    <3> DEFINE symbol == outline[i]
    <3>1. symbol.head \in StartsOf(text)
      BY <1>1
    <3> HIDE DEF symbol
    <3>2. StartLine(text, tree, symbol) \in 1..Len(text)
      BY <3>1, StartIs
    <3>3. NearestMark(text, StartLine(text, tree, symbol)) \in {0} \cup Marks(text)
      BY <3>2, NearestIs
    <3> QED
      BY <3>3 DEF symbol
  <2> HIDE DEF near
  <2>5. \A k \in 1..c : parts[k] = {i \in 1..l : near(i) = marks[k]}
    BY <2>3
  <2>6. parts \in [1..c -> SUBSET (1..l)]
    BY <2>3
  <2> HIDE DEF parts
  <2>7. \A k, m \in 1..c : k # m => parts[k] \cap parts[m] = {}
    <3> SUFFICES ASSUME NEW k \in 1..c, NEW m \in 1..c, k # m PROVE parts[k] \cap parts[m] = {}
      OBVIOUS
    <3>1. marks[k] # marks[m]
      BY <2>2
    <3> QED
      BY <2>5, <3>1
  <2>8. \A i \in 1..l : \E k \in 1..c : i \in parts[k]
    <3> SUFFICES ASSUME NEW i \in 1..l PROVE \E k \in 1..c : i \in parts[k]
      OBVIOUS
    <3>1. PICK k \in 1..c : marks[k] = near(i)
      BY <2>2, <2>4
    <3> QED
      BY <2>5, <3>1
  <2>9. \A k \in 1..c : groups[k].mark = marks[k] /\ groups[k].symbols = Keep(outline, parts[k])
    BY <2>2 DEF parts
  <2>10. lists = [k \in 1..c |-> Keep(outline, parts[k])]
    BY <2>2, <2>9
  <2>11. Len(shown) = l /\ ToSet(shown) = ToSet(outline)
    <3> HIDE DEF lists
    <3>1. outline \in Seq(OutlineSymbol(n))
      BY <1>1
    <3>2. LET all == FlattenSeq([k \in 1..c |-> Keep(outline, parts[k])])
          IN  Len(all) = Len(outline) /\ ToSet(all) = ToSet(outline)
      BY <1>1, <2>6, <2>7, <2>8, <3>1, FlattenParts
    <3> QED
      BY <2>10, <3>2
  <2>12. ASSUME NEW k \in 1..c, NEW s \in ToSet(groups[k].symbols), NEW f \in sections
         PROVE  Agrees(groups[k].mark, s, f)
    <3> SUFFICES ASSUME f.first < s.head, s.head <= f.last PROVE Agrees(groups[k].mark, s, f)
      BY DEF Agrees
    <3>1. parts[k] \in SUBSET (1..Len(outline))
      BY <2>6
    <3>2. ToSet(groups[k].symbols) = {outline[i] : i \in parts[k]}
      <4>1. outline \in Seq(OutlineSymbol(n))
        BY <1>1
      <4>2. ToSet(Keep(outline, parts[k])) = {outline[i] : i \in parts[k]}
        BY <1>1, <3>1, <4>1, KeepParts
      <4> QED
        BY <2>9, <4>2
    <3>3. PICK i \in parts[k] : s = outline[i]
      BY <3>2
    <3>4. i \in 1..l /\ near(i) = marks[k]
      BY <2>5, <3>3
    <3>5. s.head \in StartsOf(text)
      BY <1>1, <3>3, <3>4
    <3> DEFINE mark == NearestMark(text, StartLine(text, tree, s))
    <3>6. \/ mark = f.first
          \/ mark < f.first /\ text[f.first].kind = "rule"
          \/ f.first < mark /\ mark <= s.head /\ text[mark].kind = "wide"
      BY <3>5, MarkOfSection DEF sections
    <3>7. groups[k].mark = mark
      BY <2>9, <3>3, <3>4 DEF near
    <3> HIDE DEF mark
    <3> QED
      BY <3>6, <3>7 DEF Agrees
  <2> QED
    BY <2>2, <2>11, <2>12
<1> QED
  BY <1>4, <1>5

\* Nothing is lost or shown twice in the sidebar, and its sections are the folded ones as far as
\* both know the mark, in every text an editor writes.
THEOREM SidebarAlwaysMatches == Spec => []SidebarMatchesFolds
<1>1. TextTyped => SidebarMatchesFolds
  BY SidebarOfEveryText DEF TextTyped, SidebarMatchesFolds
<1> QED
  BY <1>1, TextsTyped, PTL

-----------------------------------------------------------------------------
(* Sorting and encoding of tokens *)

Roles == {"namespace", "method", "parameter", "property", "function", "keyword", "type", "string", "comment", "variable"}

Token == [line : Nat \ {0}, from : Nat \ {0}, role : Roles]

\* The order of sort_by: a strict order of the positions, in which any two are comparable.
LEMMA PrecedesIs ==
  ASSUME NEW tokens \in Seq(Token)
  PROVE  /\ Len(tokens) \in Nat /\ DOMAIN tokens = 1..Len(tokens)
         /\ \A i \in 1..Len(tokens) : ~Precedes(tokens, i, i)
         /\ \A i, j \in 1..Len(tokens) : i = j \/ Precedes(tokens, i, j) \/ Precedes(tokens, j, i)
         /\ \A i, j, k \in 1..Len(tokens) :
              Precedes(tokens, i, j) /\ Precedes(tokens, j, k) => Precedes(tokens, i, k)
<1> DEFINE n == Len(tokens)
           line(i) == tokens[i].line
           from(i) == tokens[i].from
<1>1. n \in Nat /\ DOMAIN tokens = 1..n
  BY LenProperties
<1>2. \A i \in 1..n : line(i) \in Nat /\ from(i) \in Nat
  <2> SUFFICES ASSUME NEW i \in 1..n PROVE line(i) \in Nat /\ from(i) \in Nat
    OBVIOUS
  <2> DEFINE t == tokens[i]
  <2>1. t \in Token
    BY <1>1
  <2> HIDE DEF t
  <2>2. t.line \in Nat /\ t.from \in Nat
    BY <2>1 DEF Token
  <2> QED
    BY <2>2 DEF t
<1>3. \A i, j \in 1..n : Precedes(tokens, i, j) <=>
        \/ line(i) < line(j) \/ (line(i) = line(j) /\ from(i) < from(j))
        \/ line(i) = line(j) /\ from(i) = from(j) /\ i < j
  <2> SUFFICES ASSUME NEW i \in 1..n, NEW j \in 1..n
               PROVE  Precedes(tokens, i, j) <=>
                        \/ line(i) < line(j) \/ (line(i) = line(j) /\ from(i) < from(j))
                        \/ line(i) = line(j) /\ from(i) = from(j) /\ i < j
    OBVIOUS
  <2>1. Precedes(tokens, i, j) <=>
          \/ line(i) < line(j) \/ (line(i) = line(j) /\ from(i) < from(j))
          \/ ~(line(j) < line(i) \/ (line(j) = line(i) /\ from(j) < from(i))) /\ i < j
    BY DEF Precedes, Before
  <2>2. line(i) \in Nat /\ from(i) \in Nat /\ line(j) \in Nat /\ from(j) \in Nat
    BY <1>2
  <2> HIDE DEF line, from
  <2> QED
    BY <2>1, <2>2
<1>4. \A i \in 1..n : i \in Int
  BY <1>1
<1> HIDE DEF n, line, from
<1>5. \A i \in 1..n : ~Precedes(tokens, i, i)
  BY <1>2, <1>3, <1>4
<1>6. \A i, j \in 1..n : i = j \/ Precedes(tokens, i, j) \/ Precedes(tokens, j, i)
  BY <1>2, <1>3, <1>4
<1>7. \A i, j, k \in 1..n : Precedes(tokens, i, j) /\ Precedes(tokens, j, k) => Precedes(tokens, i, k)
  BY <1>2, <1>3, <1>4
<1> QED
  BY <1>1, <1>5, <1>6, <1>7 DEF n

\* sort_by keeps every token once, in order, and tokens of one place in the order they had.
LEMMA SortedIs ==
  ASSUME NEW tokens \in Seq(Token)
  PROVE  \E at \in [1..Len(tokens) -> 1..Len(tokens)] :
           /\ Sorted(tokens) = [k \in 1..Len(tokens) |-> tokens[at[k]]]
           /\ \A k, l \in 1..Len(tokens) : k < l => Precedes(tokens, at[k], at[l])
           /\ \A i \in 1..Len(tokens) : \E k \in 1..Len(tokens) : at[k] = i
<1> DEFINE n == Len(tokens)
           D == 1..n
           lower(i) == {j \in D : Precedes(tokens, j, i)}
           rank == [i \in D |-> Cardinality(lower(i))]
<1>1. /\ n \in Nat /\ DOMAIN tokens = D
      /\ \A i \in D : ~Precedes(tokens, i, i)
      /\ \A i, j \in D : i = j \/ Precedes(tokens, i, j) \/ Precedes(tokens, j, i)
      /\ \A i, j, k \in D : Precedes(tokens, i, j) /\ Precedes(tokens, j, k) => Precedes(tokens, i, k)
  BY PrecedesIs
<1>2. IsFiniteSet(D) /\ Cardinality(D) = n
  <2> HIDE DEF n
  <2> QED
    BY <1>1, FS_Interval
<1> HIDE DEF n
<1>3. ASSUME NEW i \in D
      PROVE  IsFiniteSet(lower(i)) /\ rank[i] \in 0..(n - 1)
  <2> DEFINE low == lower(i)
             rest == D \ {i}
  <2>1. low \in SUBSET rest
    BY <1>1
  <2>2. IsFiniteSet(rest) /\ Cardinality(rest) = n - 1
    <3>1. i \in D /\ IsFiniteSet(D) /\ Cardinality(D) = n
      BY <1>2
    <3> HIDE DEF D, lower, rank
    <3>2. IsFiniteSet(D \ {i}) /\ Cardinality(D \ {i}) = Cardinality(D) - 1
      BY <3>1, FS_RemoveElement
    <3> QED
      BY <3>1, <3>2
  <2>3. rank[i] = Cardinality(low)
    OBVIOUS
  <2> HIDE DEF low, rest, rank
  <2>4. IsFiniteSet(low) /\ Cardinality(low) <= Cardinality(rest)
    BY <2>1, <2>2, FS_Subset
  <2>5. Cardinality(low) \in Nat
    BY <2>4, FS_CardinalityType
  <2> QED
    BY <1>1, <2>2, <2>3, <2>4, <2>5 DEF low
<1>4. ASSUME NEW i \in D, NEW j \in D, Precedes(tokens, i, j) PROVE rank[i] < rank[j]
  <2> DEFINE low == lower(i)
             high == lower(j)
  <2>1. i \notin low /\ low \cup {i} \in SUBSET high
    <3>1. i \notin low /\ i \in high
      BY <1>1, <1>4
    <3>2. low \subseteq high
      BY <1>1, <1>4
    <3> QED
      BY <3>1, <3>2
  <2>2. IsFiniteSet(low) /\ IsFiniteSet(high) /\ rank[i] = Cardinality(low) /\ rank[j] = Cardinality(high)
    BY <1>3
  <2>3. rank[i] \in Int /\ rank[j] \in Int
    <3>1. rank[i] \in 0..(n - 1) /\ rank[j] \in 0..(n - 1)
      BY <1>3
    <3> HIDE DEF rank
    <3> QED
      BY <1>1, <3>1
  <2> HIDE DEF low, high, rank
  <2>4. Cardinality(low \cup {i}) = Cardinality(low) + 1
    BY <2>1, <2>2, FS_AddElement
  <2>5. Cardinality(low \cup {i}) <= Cardinality(high)
    BY <2>1, <2>2, FS_Subset
  <2> QED
    BY <2>2, <2>3, <2>4, <2>5
<1>5. rank \in [D -> 0..(n - 1)]
  <2> HIDE DEF lower
  <2> QED
    BY <1>3
<1>6. Sorted(tokens) = [k \in D |-> tokens[CHOOSE i \in D : rank[i] = k - 1]]
  BY <1>1 DEF Sorted
<1> HIDE DEF rank
<1>7. ASSUME NEW i \in D, NEW j \in D, rank[i] = rank[j] PROVE i = j
  <2>1. rank[i] \in Int /\ rank[j] \in Int
    BY <1>5
  <2>2. ~Precedes(tokens, i, j) /\ ~Precedes(tokens, j, i)
    BY <1>4, <1>7, <2>1
  <2> QED
    BY <1>1, <2>2
<1>8. \A k \in 0..(n - 1) : \E i \in D : rank[i] = k
  <2> DEFINE R == 0..(n - 1)
  <2>1. IsFiniteSet(R) /\ Cardinality(R) = n
    BY <1>1, FS_Interval
  <2>2. rank \in Injection(D, R)
    BY <1>5, <1>7, Zenon DEF Injection, IsInjective
  <2> HIDE DEF R, D
  <2>3. rank \in Surjection(D, R)
    BY <1>2, <2>1, <2>2, FS_Injection
  <2> QED
    BY <2>3, Zenon DEF Surjection, R
<1> DEFINE pick(k) == CHOOSE i \in D : rank[i] = k - 1
           at == [k \in D |-> pick(k)]
<1>9. ASSUME NEW k \in D PROVE pick(k) \in D /\ rank[pick(k)] = k - 1
  <2>1. \E i \in D : rank[i] = k - 1
    BY <1>1, <1>8
  <2> QED
    BY <2>1
<1> HIDE DEF pick
<1>10. at \in [D -> D] /\ \A k \in D : at[k] = pick(k)
  BY <1>9
<1>11. Sorted(tokens) = [k \in D |-> tokens[at[k]]]
  BY <1>6 DEF pick
<1>12. \A k \in D : at[k] \in D /\ rank[at[k]] = k - 1
  BY <1>9
<1> HIDE DEF at
<1>13. ASSUME NEW k \in D, NEW l \in D, k < l PROVE Precedes(tokens, at[k], at[l])
  <2>1. at[k] \in D /\ at[l] \in D /\ rank[at[k]] = k - 1 /\ rank[at[l]] = l - 1 /\ k \in Int /\ l \in Int
    BY <1>1, <1>12
  <2>2. ~(rank[at[l]] < rank[at[k]]) /\ rank[at[l]] # rank[at[k]]
    BY <1>13, <2>1
  <2>3. at[k] # at[l] /\ ~Precedes(tokens, at[l], at[k])
    BY <1>4, <2>1, <2>2
  <2> QED
    BY <1>1, <2>1, <2>3
<1>14. ASSUME NEW i \in D PROVE \E k \in D : at[k] = i
  <2>1. rank[i] \in 0..(n - 1)
    BY <1>5
  <2>2. rank[i] + 1 \in D /\ (rank[i] + 1) - 1 = rank[i]
    BY <1>1, <2>1
  <2>3. at[rank[i] + 1] \in D /\ rank[at[rank[i] + 1]] = rank[i]
    BY <1>12, <2>2
  <2> QED
    BY <1>7, <2>2, <2>3
<1>15. at \in [D -> D] /\ Sorted(tokens) = [k \in D |-> tokens[at[k]]]
  BY <1>10, <1>11
<1> HIDE DEF D
<1> QED
  BY <1>13, <1>14, <1>15 DEF D, n

\* The editor undoes a distance.
LEMMA DecodeNextIs ==
  ASSUME NEW t \in Token, NEW prev, prev.line \in Nat, prev.from \in Nat
  PROVE  DecodeNext(prev, [line  |-> t.line - prev.line,
                           start |-> IF t.line = prev.line THEN t.from - prev.from ELSE t.from,
                           role  |-> t.role]) = t
<1> DEFINE line == prev.line
           from == prev.from
           step == t.line - line
           start == IF t.line = line THEN t.from - from ELSE t.from
           e == [line |-> step, start |-> start, role |-> t.role]
           decoded == DecodeNext(prev, e)
<1>1. line \in Nat /\ from \in Nat /\ t.line \in Nat /\ t.from \in Nat
  BY DEF Token
<1>2. e.line = step /\ e.start = start /\ e.role = t.role
  OBVIOUS
<1> HIDE DEF e
<1>3. decoded = [line |-> line + step, role |-> t.role, from |-> IF step = 0 THEN from + start ELSE start]
  BY <1>2 DEF DecodeNext
<1> HIDE DEF line, from, decoded
<1>4. line + step = t.line /\ (IF step = 0 THEN from + start ELSE start) = t.from
  BY <1>1
<1>5. decoded = [line |-> t.line, role |-> t.role, from |-> t.from]
  BY <1>3, <1>4
<1>6. t = [line |-> t.line, from |-> t.from, role |-> t.role]
  BY DEF Token
<1>7. decoded = t
  BY <1>5, <1>6
<1> QED
  BY <1>7 DEF decoded, e, line, from

\* What is sorted has no negative distances and is what the editor decodes.
LEMMA DecodedIs ==
  ASSUME NEW tokens \in Seq(Token),
         \A i \in 2..Len(tokens) : ~Before(tokens[i], tokens[i - 1])
  PROVE  /\ DOMAIN Distances(tokens) = 1..Len(tokens)
         /\ \A i \in 1..Len(tokens) : Distances(tokens)[i].line >= 0 /\ Distances(tokens)[i].start >= 0
         /\ Decode(Distances(tokens)) = tokens
<1> DEFINE n == Len(tokens)
           prev(i) == IF i = 1 THEN [line |-> 0, from |-> 0] ELSE tokens[i - 1]
           distance(i) == [line  |-> tokens[i].line - prev(i).line,
                           start |-> IF tokens[i].line = prev(i).line
                                     THEN tokens[i].from - prev(i).from ELSE tokens[i].from,
                           role  |-> tokens[i].role]
           encoded == Distances(tokens)
           zero == [line |-> 0, from |-> 0, role |-> ""]
           Body(f, i) == IF i = 0 THEN zero ELSE DecodeNext(f[i - 1], encoded[i])
           decoded == CHOOSE f : f = [i \in 0..n |-> Body(f, i)]
<1>1. n \in Nat /\ DOMAIN tokens = 1..n /\ \A i \in 1..n : tokens[i] \in Token
  BY LenProperties
<1>2. \A i \in 1..n : tokens[i].line \in Nat /\ tokens[i].line # 0 /\ tokens[i].from \in Nat
  <2> SUFFICES ASSUME NEW t \in Token PROVE t.line \in Nat /\ t.line # 0 /\ t.from \in Nat
    BY <1>1
  <2> QED
    BY DEF Token
<1>3. encoded = [i \in 1..n |-> distance(i)]
  BY <1>1 DEF Distances
<1>4. DOMAIN encoded = 1..n /\ \A i \in 1..n : encoded[i] = distance(i)
  <2> HIDE DEF distance, encoded
  <2> QED
    BY <1>3
<1>5. Len(encoded) = n
  <2> HIDE DEF encoded, n
  <2> QED
    BY <1>1, <1>4
<1>6. \A i \in 1..n : /\ prev(i).line \in Nat /\ prev(i).from \in Nat
                      /\ prev(i).line <= tokens[i].line
                      /\ prev(i).line = tokens[i].line => prev(i).from <= tokens[i].from
  <2> SUFFICES ASSUME NEW i \in 1..n
               PROVE  /\ prev(i).line \in Nat /\ prev(i).from \in Nat
                      /\ prev(i).line <= tokens[i].line
                      /\ prev(i).line = tokens[i].line => prev(i).from <= tokens[i].from
    OBVIOUS
  <2>1. CASE i = 1
    <3> DEFINE first == [line |-> 0, from |-> 0]
    <3>1. prev(i) = first
      BY <2>1
    <3>2. first.line = 0 /\ first.from = 0
      OBVIOUS
    <3> HIDE DEF first, prev
    <3> QED
      BY <1>2, <3>1, <3>2
  <2>2. CASE i # 1
    <3>1. i - 1 \in 1..n /\ i \in 2..n
      BY <1>1, <2>2
    <3>2. prev(i) = tokens[i - 1]
      BY <2>2
    <3>3. ~Before(tokens[i], tokens[i - 1])
      BY <3>1
    <3> HIDE DEF prev
    <3> QED
      BY <1>2, <3>1, <3>2, <3>3 DEF Before
  <2> QED
    BY <2>1, <2>2
<1>7. \A i \in 1..n : encoded[i].line >= 0 /\ encoded[i].start >= 0
  <2> SUFFICES ASSUME NEW i \in 1..n PROVE encoded[i].line >= 0 /\ encoded[i].start >= 0
    OBVIOUS
  <2>1. /\ encoded[i].line = tokens[i].line - prev(i).line
        /\ encoded[i].start = IF tokens[i].line = prev(i).line
                              THEN tokens[i].from - prev(i).from ELSE tokens[i].from
    <3> HIDE DEF encoded, prev
    <3> QED
      BY <1>4
  <2> HIDE DEF encoded, prev
  <2> QED
    BY <1>2, <1>6, <2>1
<1> DEFINE g == [i \in 0..n |-> IF i = 0 THEN zero ELSE tokens[i]]
<1>8. ASSUME NEW i \in 1..n PROVE DecodeNext(g[i - 1], encoded[i]) = tokens[i]
  <2> DEFINE t == tokens[i]
             p == prev(i)
             q == g[i - 1]
             e == encoded[i]
  <2>1. q.line = p.line /\ q.from = p.from
    <3>1. CASE i = 1
      <4>1. g[i - 1] = zero
        BY <1>1, <3>1
      <4>2. zero.line = 0 /\ zero.from = 0 /\ prev(i).line = 0 /\ prev(i).from = 0
        BY <3>1
      <4> QED
        BY <4>1, <4>2
    <3>2. CASE i # 1
      <4>1. i - 1 \in 0..n /\ i - 1 # 0
        BY <1>1, <3>2
      <4>2. g[i - 1] = tokens[i - 1] /\ prev(i) = tokens[i - 1]
        BY <3>2, <4>1
      <4> QED
        BY <4>2
    <3> QED
      BY <3>1, <3>2
  <2>2. t \in Token /\ p.line \in Nat /\ p.from \in Nat
    <3> HIDE DEF prev
    <3> QED
      BY <1>1, <1>6
  <2>3. e = [line |-> t.line - p.line,
             start |-> IF t.line = p.line THEN t.from - p.from ELSE t.from, role |-> t.role]
    <3> HIDE DEF encoded, prev
    <3> QED
      BY <1>4
  <2> HIDE DEF t, p, q, e
  <2>4. q.line \in Nat /\ q.from \in Nat
    BY <2>1, <2>2
  <2>5. e = [line |-> t.line - q.line,
             start |-> IF t.line = q.line THEN t.from - q.from ELSE t.from, role |-> t.role]
    BY <2>1, <2>3
  <2>6. DecodeNext(q, e) = t
    BY <2>2, <2>4, <2>5, DecodeNextIs
  <2> QED
    BY <2>6 DEF q, e, t
<1>9. \A i \in 0..n : g[i] = Body(g, i)
  <2> SUFFICES ASSUME NEW i \in 0..n PROVE g[i] = Body(g, i)
    OBVIOUS
  <2>1. CASE i = 0
    BY <2>1
  <2>2. CASE i # 0
    <3>1. i \in 1..n /\ g[i] = tokens[i]
      BY <1>1, <2>2
    <3>2. DecodeNext(g[i - 1], encoded[i]) = tokens[i]
      BY <1>8, <3>1
    <3> HIDE DEF g, encoded
    <3> QED
      BY <2>2, <3>1, <3>2
  <2> QED
    BY <2>1, <2>2
<1>10. g = [i \in 0..n |-> Body(g, i)]
  <2> DEFINE again == [i \in 0..n |-> Body(g, i)]
  <2>1. \A i \in 0..n : g[i] = again[i]
    BY <1>9
  <2> HIDE DEF Body, encoded
  <2> QED
    BY <2>1
<1>11. decoded = [i \in 0..n |-> Body(decoded, i)]
  <2> HIDE DEF Body, g, encoded
  <2> QED
    BY <1>10
<1>12. \A i \in 0..n : decoded[i] = Body(decoded, i)
  <2> HIDE DEF Body, decoded, encoded
  <2> QED
    BY <1>11
<1> HIDE DEF decoded, encoded, prev, distance
<1> DEFINE same == {i \in 0..n : decoded[i] = g[i]}
<1>13. 0 \in same
  <2>1. 0 \in 0..n
    BY <1>1
  <2>2. Body(decoded, 0) = zero /\ g[0] = zero
    BY <2>1
  <2> HIDE DEF g
  <2> QED
    BY <1>12, <2>1, <2>2
<1>14. ASSUME NEW i \in 1..n, i - 1 \in same PROVE i \in same
  <2>1. i \in 0..n /\ i # 0
    BY <1>1
  <2>2. decoded[i - 1] = g[i - 1]
    BY <1>14
  <2>3. Body(decoded, i) = DecodeNext(decoded[i - 1], encoded[i])
    BY <2>1
  <2>4. g[i] = tokens[i]
    BY <2>1
  <2>5. DecodeNext(g[i - 1], encoded[i]) = tokens[i]
    BY <1>8
  <2> HIDE DEF g, Body
  <2> QED
    BY <1>12, <2>1, <2>2, <2>3, <2>4, <2>5
<1>15. 0..n \subseteq same
  <2> HIDE DEF same
  <2> QED
    BY <1>1, <1>13, <1>14, Upwards
<1>16. \A i \in 1..n : decoded[i] = tokens[i]
  <2> SUFFICES ASSUME NEW i \in 1..n PROVE decoded[i] = tokens[i]
    OBVIOUS
  <2>1. i \in 0..n /\ i # 0
    BY <1>1
  <2>2. g[i] = tokens[i]
    BY <2>1
  <2> HIDE DEF g
  <2> QED
    BY <1>15, <2>1, <2>2
<1>17. Decode(encoded) = [i \in 1..n |-> decoded[i]]
  BY <1>4, <1>5 DEF Decode, decoded
<1>18. Decode(encoded) = tokens
  BY <1>1, <1>16, <1>17
<1> QED
  BY <1>4, <1>7, <1>18 DEF encoded

\* Tokens of one place: no variable is before another.
NamesFirst(tokens) ==
  \A i, j \in 1..Len(tokens) :
    i < j /\ ~Before(tokens[i], tokens[j]) /\ ~Before(tokens[j], tokens[i])
      => tokens[i].role # "variable"

\* What the editor gets of any tokens that a walk pushes.
LEMMA EncodedIs ==
  ASSUME NEW tokens \in Seq(Token), NamesFirst(tokens)
  PROVE  LET encoded == Encode(tokens)
             decoded == Decode(encoded)
         IN  /\ \A i \in DOMAIN encoded : encoded[i].line >= 0 /\ encoded[i].start >= 0
             /\ Len(decoded) = Len(tokens) /\ ToSet(decoded) = ToSet(tokens)
             /\ \A i \in 2..Len(decoded) :
                  ~Before(decoded[i - 1], decoded[i]) => decoded[i - 1].role # "variable"
<1> DEFINE n == Len(tokens)
           sorted == Sorted(tokens)
           encoded == Encode(tokens)
<1>1. n \in Nat /\ DOMAIN tokens = 1..n /\ \A i \in 1..n : tokens[i] \in Token
  BY LenProperties
<1>2. PICK at \in [1..n -> 1..n] :
        /\ sorted = [k \in 1..n |-> tokens[at[k]]]
        /\ \A k, l \in 1..n : k < l => Precedes(tokens, at[k], at[l])
        /\ \A i \in 1..n : \E k \in 1..n : at[k] = i
  BY SortedIs
<1>3. \A k \in 1..n : at[k] \in 1..n /\ sorted[k] = tokens[at[k]]
  BY <1>2
<1> HIDE DEF sorted, n
<1>4. DOMAIN sorted = 1..n /\ \A k \in 1..n : sorted[k] \in Token
  BY <1>1, <1>2, <1>3
<1>5. sorted \in Seq(Token) /\ Len(sorted) = n
  <2>1. sorted \in [1..n -> Token]
    BY <1>2, <1>4
  <2> QED
    BY <1>1, <2>1, SeqDef, LenProperties
<1>6. \A s, t \in Token : Before(s, t) => ~Before(t, s)
  BY DEF Token, Before
<1>7. ASSUME NEW i \in 2..n PROVE ~Before(sorted[i], sorted[i - 1])
  <2>1. i \in 1..n /\ i - 1 \in 1..n /\ i - 1 < i
    BY <1>1
  <2>2. Precedes(tokens, at[i - 1], at[i])
    BY <1>2, <2>1
  <2>3. Before(sorted[i - 1], sorted[i]) \/ ~Before(sorted[i], sorted[i - 1])
    BY <1>3, <2>1, <2>2 DEF Precedes
  <2>4. sorted[i] \in Token /\ sorted[i - 1] \in Token
    BY <1>4, <2>1
  <2> QED
    BY <1>6, <2>3, <2>4
<1>8. /\ DOMAIN Distances(sorted) = 1..n
      /\ \A i \in 1..n : Distances(sorted)[i].line >= 0 /\ Distances(sorted)[i].start >= 0
      /\ Decode(Distances(sorted)) = sorted
  BY <1>5, <1>7, DecodedIs
<1>9. encoded = Distances(sorted)
  BY DEF Encode, sorted
<1>10. ToSet(sorted) = ToSet(tokens)
  <2> DEFINE A == {sorted[k] : k \in 1..n}
             B == {tokens[i] : i \in 1..n}
  <2>1. ToSet(sorted) = A /\ ToSet(tokens) = B
    BY <1>1, <1>4 DEF ToSet
  <2>2. ASSUME NEW i \in 1..n PROVE tokens[i] \in A
    <3>1. PICK k \in 1..n : at[k] = i
      BY <1>2
    <3> QED
      BY <1>3, <3>1
  <2>3. \A k \in 1..n : sorted[k] \in B
    BY <1>3
  <2>4. A = B
    BY <2>2, <2>3
  <2> HIDE DEF A, B
  <2> QED
    BY <2>1, <2>4
<1>11. ASSUME NEW i \in 2..n, ~Before(sorted[i - 1], sorted[i])
       PROVE  sorted[i - 1].role # "variable"
  <2>1. i \in 1..n /\ i - 1 \in 1..n /\ i - 1 < i
    BY <1>1
  <2>2. Precedes(tokens, at[i - 1], at[i])
    BY <1>2, <2>1
  <2> DEFINE p == at[i - 1]
             q == at[i]
  <2>3. p \in 1..n /\ q \in 1..n /\ sorted[i - 1] = tokens[p] /\ sorted[i] = tokens[q]
    BY <1>3, <2>1
  <2>4. Precedes(tokens, p, q)
    BY <2>2
  <2> HIDE DEF p, q
  <2>5. p < q /\ ~Before(tokens[p], tokens[q]) /\ ~Before(tokens[q], tokens[p])
    BY <1>11, <2>3, <2>4 DEF Precedes
  <2> QED
    BY <2>3, <2>5 DEF NamesFirst, n
<1> HIDE DEF encoded
<1>12. Decode(encoded) = sorted /\ DOMAIN encoded = 1..n
       /\ \A i \in 1..n : encoded[i].line >= 0 /\ encoded[i].start >= 0
  BY <1>8, <1>9
<1>13. Len(Decode(encoded)) = n /\ ToSet(Decode(encoded)) = ToSet(tokens)
  BY <1>5, <1>10, <1>12
<1>14. \A i \in 2..Len(Decode(encoded)) :
         ~Before(Decode(encoded)[i - 1], Decode(encoded)[i]) => Decode(encoded)[i - 1].role # "variable"
  BY <1>5, <1>11, <1>12
<1> QED
  BY <1>12, <1>13, <1>14 DEF encoded, n
-----------------------------------------------------------------------------
(* The walk of a tree *)

LeafKinds ==
  {"type_identifier", "identifier", "@interface", "@property", "@end", "preproc_directive",
   "string_literal", "comment", "@protocol", "blank"}

TokenAt(i, from, role) == [line |-> i, from |-> from, role |-> role]

LEMMA RolesAre ==
  /\ DOMAIN RoleOfName = {"class_interface", "method_declaration", "parameter_declaration",
                          "property_declaration", "function_declarator", "preproc_call"}
  /\ \A kind \in DOMAIN RoleOfName : RoleOfName[kind] \in Roles \ {"variable"}
  /\ DOMAIN RoleOfNode = {"type_identifier", "string_literal", "identifier", "comment",
                          "@interface", "@protocol", "@end", "@property"}
  /\ \A kind \in DOMAIN RoleOfNode :
       RoleOfNode[kind] \in Roles /\ (RoleOfNode[kind] = "variable" <=> kind = "identifier")
BY DEF RoleOfName, RoleOfNode, Roles

LEMMA VisitToken ==
  ASSUME NEW i, NEW from, NEW role
  PROVE  Visit(TokenAt(i, from, role)) = <<TokenAt(i, from, role)>>
<1> DEFINE x == TokenAt(i, from, role)
<1>1. "role" \in DOMAIN x
  BY DEF TokenAt
<1> HIDE DEF x
<1>2. Visit(x) = <<x>>
  BY <1>1 DEF Visit
<1> QED
  BY <1>2 DEF x

LEMMA VisitLeaf ==
  ASSUME NEW kind \in LeafKinds, NEW i, NEW from
  PROVE  Visit(Leaf(kind, i, from)) =
           IF kind \in DOMAIN RoleOfNode THEN <<TokenAt(i, from, RoleOfNode[kind])>> ELSE << >>
<1> DEFINE x == Leaf(kind, i, from)
           own == IF kind \in DOMAIN RoleOfNode THEN <<TokenAt(i, from, RoleOfNode[kind])>> ELSE << >>
<1>1. "role" \notin DOMAIN x /\ x.kind = kind /\ x.children = << >> /\ x.line = i /\ x.from = from
  BY DEF Leaf, Node
<1>2. kind # "ERROR" /\ kind \notin DOMAIN RoleOfName
  BY RolesAre DEF LeafKinds
<1> HIDE DEF x
<1>3. Own(x) = own
  BY <1>1, <1>2 DEF Own, Push, TokenAt
<1>4. Visit(x) = own \o << >>
  BY <1>1, <1>2, <1>3 DEF Visit
<1>5. own \o << >> = own
  OBVIOUS
<1> QED
  BY <1>4, <1>5 DEF x

LEMMA VisitNamed ==
  ASSUME NEW kind \in DOMAIN RoleOfName, kind \in NodesWithField,
         NEW i, NEW children, NEW name \in Nat \ {0}
  PROVE  Visit(Named(kind, i, children, name)) =
           <<TokenAt(children[name].line, children[name].from, RoleOfName[kind])>> \o children
<1> DEFINE x == Named(kind, i, children, name)
<1>1. "role" \notin DOMAIN x /\ x.kind = kind /\ x.children = children /\ x.name = name
  BY DEF Named
<1>2. kind # "ERROR" /\ kind \notin DOMAIN RoleOfNode
  BY RolesAre
<1> HIDE DEF x
<1>3. Own(x) = <<TokenAt(children[name].line, children[name].from, RoleOfName[kind])>>
  BY <1>1, <1>2 DEF Own, Push, TokenAt
<1>4. Visit(x) = Own(x) \o children
  BY <1>1, <1>2 DEF Visit
<1> QED
  BY <1>3, <1>4 DEF x

\* A node whose kind has no such field is walked through and has no token of its own.
LEMMA VisitUnnamed ==
  ASSUME NEW kind \in DOMAIN RoleOfName, kind \notin NodesWithField,
         NEW i, NEW S, NEW children \in Seq(S), NEW name
  PROVE  Visit(Named(kind, i, children, name)) = children
<1> DEFINE x == Named(kind, i, children, name)
<1>1. "role" \notin DOMAIN x /\ x.kind = kind /\ x.children = children /\ x.name = 0
  BY DEF Named
<1>2. kind # "ERROR" /\ kind \notin DOMAIN RoleOfNode
  BY RolesAre
<1> HIDE DEF x
<1>3. Own(x) = << >>
  BY <1>1, <1>2 DEF Own
<1>4. Visit(x) = Own(x) \o children
  BY <1>1, <1>2 DEF Visit
<1>5. << >> \o children = children
  BY ConcatEmptySeq
<1> QED
  BY <1>3, <1>4, <1>5 DEF x

LEMMA VisitPlain ==
  ASSUME NEW kind \in {"preproc_include", "declaration", "protocol_forward_declaration", "translation_unit"},
         NEW i, NEW from, NEW S, NEW children \in Seq(S)
  PROVE  Visit(Node(kind, i, from, children)) = children
<1> DEFINE x == Node(kind, i, from, children)
<1>1. "role" \notin DOMAIN x /\ x.kind = kind /\ x.children = children
  BY DEF Node
<1>2. kind # "ERROR" /\ kind \notin DOMAIN RoleOfName /\ kind \notin DOMAIN RoleOfNode
  BY RolesAre
<1> HIDE DEF x
<1>3. Own(x) = << >>
  BY <1>1, <1>2 DEF Own
<1>4. Visit(x) = Own(x) \o children
  BY <1>1, <1>2 DEF Visit
<1>5. << >> \o children = children
  BY ConcatEmptySeq
<1> QED
  BY <1>3, <1>4, <1>5 DEF x

LEMMA VisitError ==
  ASSUME NEW i, NEW from, NEW children
  PROVE  Visit(Node("ERROR", i, from, children)) = << >>
<1> DEFINE x == Node("ERROR", i, from, children)
<1>1. "role" \notin DOMAIN x /\ x.kind = "ERROR"
  BY DEF Node
<1> HIDE DEF x
<1>2. Visit(x) = << >>
  BY <1>1 DEF Visit
<1> QED
  BY <1>2 DEF x

\* Where a node's tokens are, and those of them that are variables, in columns of its line.
Cols(x) ==
  IF "role" \in DOMAIN x THEN {x.from}
  ELSE CASE x.kind \in LeafKinds             -> {x.from}
         [] x.kind = "parameter_declaration" -> {x.children[1].from, x.children[2].from}
         [] x.kind = "class_interface"       -> 1..2
         [] x.kind = "property_declaration"  -> 1..3
         [] x.kind = "preproc_call"          -> {1}
         [] x.kind = "preproc_include"       -> {2}
         [] x.kind = "protocol_forward_declaration" -> 1..2
         [] x.kind = "method_declaration"    -> 2..5
         [] x.kind = "function_declarator"   -> 2..4
         [] x.kind = "declaration"           -> 1..4
         [] OTHER                            -> {}

Vars(x) ==
  IF "role" \in DOMAIN x THEN IF x.role = "variable" THEN {x.from} ELSE {}
  ELSE CASE x.kind = "identifier"            -> {x.from}
         [] x.kind = "parameter_declaration" -> {x.children[2].from}
         [] x.kind = "class_interface"       -> {2}
         [] x.kind = "property_declaration"  -> {3}
         [] x.kind = "protocol_forward_declaration" -> {2}
         [] x.kind = "method_declaration"    -> {3, 5}
         [] x.kind = "function_declarator"   -> {2, 4}
         [] x.kind = "declaration"           -> {2, 4}
         [] OTHER                            -> {}

LEMMA TokenHas ==
  ASSUME NEW i, NEW from, NEW role
  PROVE  /\ TokenAt(i, from, role).line = i /\ Cols(TokenAt(i, from, role)) = {from}
         /\ Vars(TokenAt(i, from, role)) = IF role = "variable" THEN {from} ELSE {}
<1> DEFINE x == TokenAt(i, from, role)
<1>1. "role" \in DOMAIN x /\ x.line = i /\ x.from = from /\ x.role = role
  BY DEF TokenAt
<1> HIDE DEF x
<1>2. x.line = i /\ Cols(x) = {from} /\ Vars(x) = IF role = "variable" THEN {from} ELSE {}
  BY <1>1 DEF Cols, Vars
<1> QED
  BY <1>2 DEF x

LEMMA LeafHas ==
  ASSUME NEW kind \in LeafKinds, NEW i, NEW from
  PROVE  /\ Leaf(kind, i, from).line = i /\ Leaf(kind, i, from).from = from
         /\ Cols(Leaf(kind, i, from)) = {from}
         /\ Vars(Leaf(kind, i, from)) = IF kind = "identifier" THEN {from} ELSE {}
<1> DEFINE x == Leaf(kind, i, from)
<1>1. "role" \notin DOMAIN x /\ x.kind = kind /\ x.line = i /\ x.from = from
  BY DEF Leaf, Node
<1> HIDE DEF x
<1>2. kind \notin {"parameter_declaration", "class_interface", "property_declaration", "preproc_call",
                   "preproc_include", "method_declaration", "function_declarator", "declaration",
                   "protocol_forward_declaration"}
  BY DEF LeafKinds
<1>3. Cols(x) = {from}
  BY <1>1, <1>2 DEF Cols
<1>4. Vars(x) = IF kind = "identifier" THEN {from} ELSE {}
  BY <1>1, <1>2 DEF Vars
<1> QED
  BY <1>1, <1>3, <1>4 DEF x

\* Elements of one line that are apart: no variable of one is where a later one has a token.
Apart(s) ==
  \A k, l \in 1..Len(s) : k < l /\ s[k].line = s[l].line => Vars(s[k]) \cap Cols(s[l]) = {}

\* Tokens and nodes within the columns of a node.
Within(y, x) == y.line = x.line /\ Cols(y) \subseteq Cols(x) /\ Vars(y) \subseteq Vars(x)

Fits(x) ==
  /\ \A k \in 1..Len(Visit(x)) : Within(Visit(x)[k], x)
  /\ Apart(Visit(x))

Level(before) == FlattenSeq([i \in DOMAIN before |-> Visit(before[i])])

LEMMA ConcatRest ==
  ASSUME NEW T, NEW s \in Seq(T), NEW t \in Seq(T), NEW k \in 1..Len(s \o t)
  PROVE  k \in 1..Len(s) \/ (k - Len(s) \in 1..Len(t) /\ (s \o t)[k] = t[k - Len(s)])
<1>1. Len(s) \in Nat /\ Len(t) \in Nat
  BY LenProperties
<1>2. Len(s \o t) = Len(s) + Len(t)
      /\ \A i \in 1..(Len(s) + Len(t)) : (s \o t)[i] = IF i <= Len(s) THEN s[i] ELSE t[i - Len(s)]
  BY ConcatProperties
<1>3. k \in 1..Len(s) \/ (k - Len(s) \in 1..Len(t) /\ ~(k <= Len(s)))
  BY <1>1, <1>2
<1> QED
  BY <1>2, <1>3

LEMMA ApartConcat ==
  ASSUME NEW T, NEW s \in Seq(T), NEW t \in Seq(T), Apart(s), Apart(t),
         \A k \in 1..Len(s), l \in 1..Len(t) : s[k].line = t[l].line => Vars(s[k]) \cap Cols(t[l]) = {}
  PROVE  s \o t \in Seq(T) /\ Apart(s \o t)
<1> DEFINE m == Len(s)
           n == Len(t)
           u == s \o t
<1>1. /\ m \in Nat /\ n \in Nat /\ DOMAIN u = 1..(m + n)
      /\ \A i \in 1..m : u[i] = s[i]
      /\ \A i \in 1..n : u[m + i] = t[i]
  BY ConcatParts
<1>2. u \in Seq(T) /\ Len(u) = m + n
  BY ConcatProperties
<1>3. \A k \in 1..(m + n) : k \in 1..m \/ (k - m \in 1..n /\ u[k] = t[k - m])
  BY <1>2, ConcatRest
<1> HIDE DEF u, m, n
<1>4. ASSUME NEW k \in 1..(m + n), NEW l \in 1..(m + n), k < l, u[k].line = u[l].line
      PROVE  Vars(u[k]) \cap Cols(u[l]) = {}
  <2>1. CASE k \in 1..m /\ l \in 1..m
    BY <1>1, <1>4, <2>1 DEF Apart, m
  <2>2. CASE k \in 1..m /\ l \notin 1..m
    <3>1. l - m \in 1..n /\ u[l] = t[l - m] /\ u[k] = s[k]
      BY <1>1, <1>3, <2>2
    <3> QED
      BY <1>4, <2>2, <3>1 DEF m, n
  <2>3. CASE k \notin 1..m
    <3>1. l \notin 1..m
      BY <1>1, <1>4, <2>3
    <3>2. k - m \in 1..n /\ u[k] = t[k - m] /\ l - m \in 1..n /\ u[l] = t[l - m] /\ k - m < l - m
      <4>1. k - m < l - m
        BY <1>1, <1>4
      <4> QED
        BY <1>3, <2>3, <3>1, <4>1
    <3> QED
      BY <1>4, <3>2 DEF Apart, n
  <2> QED
    BY <2>1, <2>2, <2>3
<1>5. Apart(u)
  BY <1>2, <1>4 DEF Apart
<1> QED
  BY <1>2, <1>5 DEF u

\* One level of the walk: what fits into nodes that are apart is apart.
LEMMA LevelStep ==
  ASSUME NEW S, NEW T, NEW before \in Seq(S), Apart(before),
         \A x \in S : Visit(x) \in Seq(T) /\ Fits(x)
  PROVE  Level(before) \in Seq(T) /\ Apart(Level(before))
<1> DEFINE n == Len(before)
           lists == Seq(T)
           seqs == [i \in 1..n |-> Visit(before[i])]
<1>1. n \in Nat /\ DOMAIN before = 1..n /\ \A i \in 1..n : before[i] \in S
  BY LenProperties
<1>2. \A i \in 1..n : seqs[i] = Visit(before[i]) /\ seqs[i] \in lists /\ Fits(before[i])
  BY <1>1
<1>3. seqs \in Seq(lists) /\ Len(seqs) = n
  <2>1. seqs \in [1..n -> lists]
    BY <1>2
  <2> HIDE DEF seqs, lists, n
  <2> QED
    BY <1>1, <2>1, SeqDef, LenProperties
<1>4. Level(before) = FlattenSeq(seqs)
  BY <1>1 DEF Level
<1> HIDE DEF seqs
<1>5. PICK upTo \in [0..n -> lists] :
        /\ upTo[0] = << >>
        /\ \A i \in 1..n : upTo[i] = upTo[i - 1] \o seqs[i]
        /\ FlattenSeq(seqs) = upTo[n]
  <2>1. \E upTo \in [0..Len(seqs) -> Seq(T)] :
          /\ upTo[0] = << >>
          /\ \A i \in 1..Len(seqs) : upTo[i] = upTo[i - 1] \o seqs[i]
          /\ FlattenSeq(seqs) = upTo[Len(seqs)]
    BY <1>3, FlattenIs
  <2> QED
    BY <1>3, <2>1
<1> DEFINE good == {i \in 0..n :
                      /\ Apart(upTo[i])
                      /\ \A k \in 1..Len(upTo[i]) : \E j \in 1..i : Within(upTo[i][k], before[j])}
<1>6. 0 \in good
  <2>1. Len(upTo[0]) = 0 /\ 0 \in 0..n
    BY <1>1, <1>5
  <2> QED
    BY <2>1 DEF Apart
<1>7. ASSUME NEW i \in 1..n, i - 1 \in good PROVE i \in good
  <2> DEFINE s == upTo[i - 1]
             t == seqs[i]
             u == upTo[i]
  <2>0. i \in Nat /\ i - 1 \in 0..n /\ i \in 0..n
    BY <1>1
  <2>1. s \in lists /\ t \in lists /\ u = s \o t
    BY <1>2, <1>5, <2>0
  <2>2. Apart(s) /\ \A k \in 1..Len(s) : \E j \in 1..(i - 1) : Within(s[k], before[j])
    BY <1>7
  <2>3. Apart(t) /\ \A k \in 1..Len(t) : Within(t[k], before[i])
    BY <1>2 DEF Fits
  <2> HIDE DEF s, t, u, good
  <2>4. ASSUME NEW k \in 1..Len(s), NEW l \in 1..Len(t), s[k].line = t[l].line
        PROVE  Vars(s[k]) \cap Cols(t[l]) = {}
    <3>1. PICK j \in 1..(i - 1) : Within(s[k], before[j])
      BY <2>2
    <3>2. Within(t[l], before[i])
      BY <2>3
    <3>3. before[j].line = before[i].line
      BY <2>4, <3>1, <3>2 DEF Within
    <3>4. j \in 1..n /\ j < i
      BY <1>1, <2>0
    <3>5. Vars(before[j]) \cap Cols(before[i]) = {}
      BY <3>3, <3>4 DEF Apart
    <3> QED
      BY <3>1, <3>2, <3>5 DEF Within
  <2>5. Apart(u)
    BY <2>1, <2>2, <2>3, <2>4, ApartConcat
  <2>6. \A k \in 1..Len(u) : \E j \in 1..i : Within(u[k], before[j])
    <3>1. Len(s) \in Nat /\ Len(t) \in Nat /\ Len(u) = Len(s) + Len(t)
          /\ \A k \in 1..Len(s) : u[k] = s[k]
      BY <2>1, ConcatParts, ConcatProperties
    <3> SUFFICES ASSUME NEW k \in 1..Len(u) PROVE \E j \in 1..i : Within(u[k], before[j])
      OBVIOUS
    <3>2. CASE k \in 1..Len(s)
      <4>1. PICK j \in 1..(i - 1) : Within(s[k], before[j])
        BY <2>2, <3>2
      <4>2. j \in 1..i /\ u[k] = s[k]
        BY <2>0, <3>1, <3>2
      <4> QED
        BY <4>1, <4>2
    <3>3. CASE k \notin 1..Len(s)
      <4>1. k - Len(s) \in 1..Len(t) /\ u[k] = t[k - Len(s)]
        BY <2>1, <3>3, ConcatRest
      <4>2. i \in 1..i
        BY <2>0
      <4> QED
        BY <2>3, <4>1, <4>2
    <3> QED
      BY <3>2, <3>3
  <2> QED
    BY <2>0, <2>5, <2>6 DEF good, u
<1>8. n \in good
  <2> HIDE DEF good, n
  <2>1. n \in Nat /\ \A i \in 1..n : i - 1 \in good => i \in good
    BY <1>1, <1>7
  <2>2. 0..n \subseteq good
    BY <1>6, <2>1, Upwards
  <2>3. n \in 0..n
    BY <2>1
  <2> QED
    BY <2>2, <2>3
<1>9. n \in 0..n
  BY <1>1
<1>10. upTo[n] \in lists
  BY <1>5, <1>9
<1> QED
  BY <1>4, <1>5, <1>8, <1>10

LEMMA FitsFour ==
  ASSUME NEW x, NEW a, NEW b, NEW c, NEW d, Visit(x) = <<a, b, c, d>>,
         Within(a, x), Within(b, x), Within(c, x), Within(d, x),
         Vars(a) \cap (Cols(b) \cup Cols(c) \cup Cols(d)) = {},
         Vars(b) \cap (Cols(c) \cup Cols(d)) = {}, Vars(c) \cap Cols(d) = {}
  PROVE  Fits(x)
<1> DEFINE v == <<a, b, c, d>>
<1>1. Len(v) = 4 /\ v[1] = a /\ v[2] = b /\ v[3] = c /\ v[4] = d
  OBVIOUS
<1> HIDE DEF v
<1>2. \A k \in 1..4 : k = 1 \/ k = 2 \/ k = 3 \/ k = 4
  OBVIOUS
<1>3. \A k \in 1..Len(v) : Within(v[k], x)
  BY <1>1, <1>2
<1>4. Apart(v)
  <2> SUFFICES ASSUME NEW k \in 1..4, NEW l \in 1..4, k < l PROVE Vars(v[k]) \cap Cols(v[l]) = {}
    BY <1>1 DEF Apart
  <2>1. \/ k = 1 /\ (l = 2 \/ l = 3 \/ l = 4)
        \/ k = 2 /\ (l = 3 \/ l = 4)
        \/ k = 3 /\ l = 4
    OBVIOUS
  <2> QED
    BY <1>1, <2>1
<1> QED
  BY <1>3, <1>4 DEF Fits, v

LEMMA FitsThree ==
  ASSUME NEW x, NEW a, NEW b, NEW c, Visit(x) = <<a, b, c>>,
         Within(a, x), Within(b, x), Within(c, x),
         Vars(a) \cap (Cols(b) \cup Cols(c)) = {}, Vars(b) \cap Cols(c) = {}
  PROVE  Fits(x)
<1> DEFINE v == <<a, b, c>>
<1>1. Len(v) = 3 /\ v[1] = a /\ v[2] = b /\ v[3] = c
  OBVIOUS
<1> HIDE DEF v
<1>2. \A k \in 1..3 : k = 1 \/ k = 2 \/ k = 3
  OBVIOUS
<1>3. \A k \in 1..Len(v) : Within(v[k], x)
  BY <1>1, <1>2
<1>4. Apart(v)
  <2> SUFFICES ASSUME NEW k \in 1..3, NEW l \in 1..3, k < l PROVE Vars(v[k]) \cap Cols(v[l]) = {}
    BY <1>1 DEF Apart
  <2>1. (k = 1 /\ (l = 2 \/ l = 3)) \/ (k = 2 /\ l = 3)
    OBVIOUS
  <2> QED
    BY <1>1, <2>1
<1> QED
  BY <1>3, <1>4 DEF Fits, v

LEMMA FitsTwo ==
  ASSUME NEW x, NEW a, NEW b, Visit(x) = <<a, b>>, Within(a, x), Within(b, x),
         Vars(a) \cap Cols(b) = {}
  PROVE  Fits(x)
<1> DEFINE v == <<a, b>>
<1>1. Len(v) = 2 /\ v[1] = a /\ v[2] = b
  OBVIOUS
<1> HIDE DEF v
<1>2. \A k \in 1..2 : k = 1 \/ k = 2
  OBVIOUS
<1>3. \A k \in 1..Len(v) : Within(v[k], x)
  BY <1>1, <1>2
<1>4. Apart(v)
  <2> SUFFICES ASSUME NEW k \in 1..2, NEW l \in 1..2, k < l PROVE Vars(v[k]) \cap Cols(v[l]) = {}
    BY <1>1 DEF Apart
  <2>1. k = 1 /\ l = 2
    OBVIOUS
  <2> QED
    BY <1>1, <2>1
<1> QED
  BY <1>3, <1>4 DEF Fits, v

LEMMA FitsOne ==
  ASSUME NEW x, NEW a, Visit(x) = <<a>>, Within(a, x)
  PROVE  Fits(x)
<1> DEFINE v == <<a>>
<1>1. Len(v) = 1 /\ v[1] = a
  OBVIOUS
<1> HIDE DEF v
<1>2. \A k \in 1..1 : k = 1
  OBVIOUS
<1>3. (\A k \in 1..Len(v) : Within(v[k], x)) /\ Apart(v)
  BY <1>1, <1>2 DEF Apart
<1> QED
  BY <1>3 DEF Fits, v

LEMMA FitsNone ==
  ASSUME NEW x, Visit(x) = << >>
  PROVE  Fits(x)
<1>1. Len(<< >>) = 0 /\ 1..0 = {}
  OBVIOUS
<1> QED
  BY <1>1 DEF Fits, Apart

-----------------------------------------------------------------------------
(* The nodes of a tree, by the tokens they lead to *)

Places == Nat \ {0}

Parameter(i, from) ==
  Named("parameter_declaration", i,
        <<Leaf("type_identifier", i, from), Leaf("identifier", i, from + 1)>>, 2)

HeadNode(i) ==
  Named("class_interface", i, <<Leaf("@interface", i, 1), Leaf("identifier", i, 2)>>, 2)

MethodNode(i) ==
  Named("method_declaration", i,
        <<Leaf("type_identifier", i, 2), Leaf("identifier", i, 3), Parameter(i, 4)>>, 2)

PropertyNode(i) ==
  Named("property_declaration", i,
        <<Leaf("@property", i, 1), Leaf("type_identifier", i, 2), Leaf("identifier", i, 3)>>, 3)

PragmaNode(i) == Named("preproc_call", i, <<Leaf("preproc_directive", i, 1)>>, 1)

ForwardNode(i) ==
  Node("protocol_forward_declaration", i, 1, <<Leaf("@protocol", i, 1), Leaf("identifier", i, 2)>>)

ImportNode(i) == Node("preproc_include", i, 1, <<Leaf("string_literal", i, 2)>>)

Declarator(i) == Named("function_declarator", i, <<Leaf("identifier", i, 2), Parameter(i, 3)>>, 1)

TextNode(i) == Node("declaration", i, 1, <<Leaf("type_identifier", i, 1), Declarator(i)>>)

ErrorNode(text, i) == Node("ERROR", i, 1, <<Tree(text, i)>>)

Leaves == {Leaf(kind, i, from) : kind \in LeafKinds, i \in Places, from \in Places}

\* Nodes whose tokens are all reached in so many visits.
InOne(text) == Token \cup Leaves \cup {ErrorNode(text, i) : i \in Places}

InTwo(text) ==
  InOne(text) \cup {Parameter(i, from) : i \in Places, from \in Places}
              \cup {HeadNode(i) : i \in Places} \cup {PropertyNode(i) : i \in Places}
              \cup {PragmaNode(i) : i \in Places} \cup {ImportNode(i) : i \in Places}
              \cup {ForwardNode(i) : i \in Places}

InThree(text) == InTwo(text) \cup {MethodNode(i) : i \in Places} \cup {Declarator(i) : i \in Places}

InFour(text) == InThree(text) \cup {TextNode(i) : i \in Places}

LEMMA SeqGrows ==
  ASSUME NEW S, NEW T, S \subseteq T, NEW s \in Seq(S)
  PROVE  s \in Seq(T)
BY SeqDef, LenProperties

LEMMA TokenIs ==
  ASSUME NEW x \in Token
  PROVE  x = TokenAt(x.line, x.from, x.role) /\ x.role \in Roles /\ x.line \in Places /\ x.from \in Places
BY DEF Token, TokenAt, Places

\* A token stays, a leaf is at most one token, and an error is none.
LEMMA OneVisit ==
  ASSUME NEW text, NEW x \in InOne(text)
  PROVE  Visit(x) \in Seq(Token) /\ Fits(x)
<1>1. CASE x \in Token
  <2>1. Visit(x) = <<x>>
    BY <1>1, TokenIs, VisitToken
  <2>2. Fits(x)
    BY <2>1, FitsOne DEF Within
  <2> QED
    BY <1>1, <2>1, <2>2
<1>2. CASE x \in Leaves
  <2>1. PICK kind \in LeafKinds, i \in Places, from \in Places : x = Leaf(kind, i, from)
    BY <1>2 DEF Leaves
  <2>2. CASE kind \in DOMAIN RoleOfNode
    <3> DEFINE role == RoleOfNode[kind]
               t == TokenAt(i, from, role)
    <3>1. role \in Roles /\ (role = "variable" <=> kind = "identifier")
      BY <2>2, RolesAre
    <3>2. Visit(x) = <<t>>
      BY <2>1, <2>2, VisitLeaf
    <3> HIDE DEF role
    <3>3. t \in Token
      BY <3>1 DEF Token, TokenAt, Places
    <3>4. Within(t, x)
      BY <2>1, <3>1, TokenHas, LeafHas DEF Within
    <3> HIDE DEF t
    <3> QED
      BY <3>2, <3>3, <3>4, FitsOne
  <2>3. CASE kind \notin DOMAIN RoleOfNode
    <3>1. Visit(x) = << >>
      BY <2>1, <2>3, VisitLeaf
    <3> QED
      BY <3>1, FitsNone
  <2> QED
    BY <2>2, <2>3
<1>3. CASE x \in {ErrorNode(text, i) : i \in Places}
  <2>1. Visit(x) = << >>
    BY <1>3, VisitError DEF ErrorNode
  <2> QED
    BY <2>1, FitsNone
<1> QED
  BY <1>1, <1>2, <1>3 DEF InOne

LEMMA PrependIs ==
  ASSUME NEW S, NEW t \in S, NEW n \in 1..3, NEW r \in Seq(S), NEW u \in Seq(S),
         Len(r) = n, Len(u) = n + 1, u[1] = t, \A i \in 1..n : u[i + 1] = r[i]
  PROVE  <<t>> \o r = u
<1>0. <<t>> \in Seq(S) /\ Len(<<t>>) = 1 /\ <<t>>[1] = t
  OBVIOUS
<1> DEFINE v == <<t>> \o r
<1>1. v \in Seq(S) /\ Len(v) = n + 1
  BY <1>0, ConcatProperties
<1>2. ASSUME NEW i \in 1..(n + 1) PROVE v[i] = u[i]
  <2>1. v[i] = IF i <= 1 THEN <<t>>[i] ELSE r[i - 1]
    BY <1>0, ConcatProperties
  <2>2. CASE i = 1
    BY <1>0, <2>1, <2>2
  <2>3. CASE i # 1
    <3> DEFINE j == i - 1
    <3>1. j \in 1..n /\ i = j + 1 /\ ~(i <= 1)
      BY <2>3
    <3> HIDE DEF j
    <3>2. u[i] = r[j]
      BY <3>1
    <3> QED
      BY <2>1, <3>1, <3>2 DEF j
  <2> QED
    BY <2>2, <2>3
<1> HIDE DEF v
<1>3. v = u
  BY <1>1, <1>2, SeqEqual
<1> QED
  BY <1>3 DEF v

LEMMA ConcatFew ==
  ASSUME NEW t, NEW a, NEW b
  PROVE  <<t>> \o <<a>> = <<t, a>> /\ <<t>> \o <<a, b>> = <<t, a, b>>
<1> DEFINE S == {t, a, b}
<1>3. <<t>> \o <<a>> = <<t, a>>
  <2> DEFINE r == <<a>>
             u == <<t, a>>
  <2>1. r \in Seq(S) /\ u \in Seq(S) /\ Len(r) = 1 /\ Len(u) = 2 /\ u[1] = t /\ u[2] = r[1]
    OBVIOUS
  <2>0. t \in S
    OBVIOUS
  <2> HIDE DEF r, u, S
  <2>2. 1 \in 1..3 /\ Len(u) = 1 + 1 /\ \A i \in 1..1 : u[i + 1] = r[i]
    BY <2>1
  <2>3. <<t>> \o r = u
    BY <2>0, <2>1, <2>2, PrependIs
  <2> QED
    BY <2>3 DEF r, u
<1>4. <<t>> \o <<a, b>> = <<t, a, b>>
  <2> DEFINE r == <<a, b>>
             u == <<t, a, b>>
  <2>1. r \in Seq(S) /\ u \in Seq(S) /\ Len(r) = 2 /\ Len(u) = 3
        /\ u[1] = t /\ u[2] = r[1] /\ u[3] = r[2]
    OBVIOUS
  <2>0. t \in S
    OBVIOUS
  <2> HIDE DEF r, u, S
  <2>2. 2 \in 1..3 /\ Len(u) = 2 + 1 /\ \A i \in 1..2 : u[i + 1] = r[i]
    BY <2>1
  <2>3. <<t>> \o r = u
    BY <2>0, <2>1, <2>2, PrependIs
  <2> QED
    BY <2>3 DEF r, u
<1> QED
  BY <1>3, <1>4

LEMMA ConcatThree ==
  ASSUME NEW t, NEW a, NEW b, NEW c
  PROVE  <<t>> \o <<a, b, c>> = <<t, a, b, c>>
<1> DEFINE S == {t, a, b, c}
           r == <<a, b, c>>
           u == <<t, a, b, c>>
<1>1. r \in Seq(S) /\ u \in Seq(S) /\ Len(r) = 3 /\ Len(u) = 4
      /\ u[1] = t /\ u[2] = r[1] /\ u[3] = r[2] /\ u[4] = r[3]
  OBVIOUS
<1>0. t \in S
  OBVIOUS
<1> HIDE DEF r, u, S
<1>2. 3 \in 1..3 /\ Len(u) = 3 + 1 /\ \A i \in 1..3 : u[i + 1] = r[i]
  BY <1>1
<1>3. <<t>> \o r = u
  BY <1>0, <1>1, <1>2, PrependIs
<1> QED
  BY <1>3 DEF r, u

LEMMA NamedIs ==
  ASSUME NEW kind, NEW i, NEW children, NEW name
  PROVE  LET x == Named(kind, i, children, name)
         IN  x.kind = kind /\ x.line = i /\ x.children = children /\ "role" \notin DOMAIN x
BY DEF Named

\* A parameter is two places of its line: its type, and its name twice.
LEMMA ParameterHas ==
  ASSUME NEW i, NEW from
  PROVE  /\ Parameter(i, from).line = i
         /\ Cols(Parameter(i, from)) = {from, from + 1} /\ Vars(Parameter(i, from)) = {from + 1}
<1> DEFINE a == Leaf("type_identifier", i, from)
           b == Leaf("identifier", i, from + 1)
           x == Parameter(i, from)
<1>1. a.from = from /\ b.from = from + 1
  BY LeafHas DEF LeafKinds
<1> HIDE DEF a, b
<1>2. x.kind = "parameter_declaration" /\ x.line = i /\ x.children = <<a, b>> /\ "role" \notin DOMAIN x
  BY NamedIs DEF Parameter, a, b
<1> HIDE DEF x
<1>3. x.children[1] = a /\ x.children[2] = b
  BY <1>2
<1>4. Cols(x) = {from, from + 1} /\ Vars(x) = {from + 1}
  BY <1>1, <1>2, <1>3 DEF Cols, Vars, LeafKinds
<1> QED
  BY <1>2, <1>4 DEF x

LEMMA ParameterVisit ==
  ASSUME NEW text, NEW i \in Places, NEW from \in Places
  PROVE  Visit(Parameter(i, from)) \in Seq(InOne(text)) /\ Fits(Parameter(i, from))
<1> DEFINE a == Leaf("type_identifier", i, from)
           b == Leaf("identifier", i, from + 1)
           t == TokenAt(i, from + 1, "parameter")
           x == Parameter(i, from)
           kind == "parameter_declaration"
<1>1. from + 1 \in Places /\ from # from + 1
  BY DEF Places
<1>2. /\ a.line = i /\ Cols(a) = {from} /\ Vars(a) = {}
      /\ b.line = i /\ b.from = from + 1 /\ Cols(b) = {from + 1} /\ Vars(b) = {from + 1}
      /\ t.line = i /\ Cols(t) = {from + 1} /\ Vars(t) = {}
      /\ x.line = i /\ Cols(x) = {from, from + 1} /\ Vars(x) = {from + 1}
  BY LeafHas, TokenHas, ParameterHas DEF LeafKinds
<1>3. a \in InOne(text) /\ b \in InOne(text) /\ t \in InOne(text)
  BY <1>1 DEF InOne, Leaves, LeafKinds, Token, TokenAt, Roles, Places
<1>4. Visit(x) = IF kind \in NodesWithField THEN <<t>> \o <<a, b>> ELSE <<a, b>>
  <2> DEFINE children == <<a, b>>
  <2>0. children \in Seq({a, b}) /\ 2 \in Nat \ {0}
    OBVIOUS
  <2>1. kind \in DOMAIN RoleOfName /\ RoleOfName[kind] = "parameter"
    BY DEF RoleOfName
  <2>2. x = Named(kind, i, children, 2) /\ children[2] = b
    BY DEF Parameter
  <2> HIDE DEF children, kind, a, b, x
  <2>3. ASSUME kind \in NodesWithField
        PROVE  Visit(x) = <<TokenAt(children[2].line, children[2].from, RoleOfName[kind])>> \o children
    BY <2>0, <2>1, <2>2, <2>3, VisitNamed
  <2>4. ASSUME kind \notin NodesWithField
        PROVE  Visit(x) = children
    BY <2>0, <2>1, <2>2, <2>4, VisitUnnamed
  <2> QED
    BY <1>2, <2>1, <2>2, <2>3, <2>4 DEF children
<1> HIDE DEF a, b, t, x, kind
<1>5. /\ kind \in NodesWithField => Visit(x) = <<t, a, b>>
      /\ kind \notin NodesWithField => Visit(x) = <<a, b>>
  BY <1>4, ConcatFew
<1>6. Fits(x)
  <2>1. CASE kind \in NodesWithField
    BY <1>1, <1>2, <1>5, <2>1, FitsThree DEF Within
  <2>2. CASE kind \notin NodesWithField
    BY <1>1, <1>2, <1>5, <2>2, FitsTwo DEF Within
  <2> QED
    BY <2>1, <2>2
<1>7. Visit(x) \in Seq(InOne(text))
  <2>1. CASE kind \in NodesWithField
    <3>1. Visit(x) = <<t, a, b>>
      BY <1>5, <2>1
    <3> QED
      BY <1>3, <3>1
  <2>2. CASE kind \notin NodesWithField
    <3>1. Visit(x) = <<a, b>>
      BY <1>5, <2>2
    <3> QED
      BY <1>3, <3>1
  <2> QED
    BY <2>1, <2>2
<1> QED
  BY <1>6, <1>7 DEF x

LEMMA HeadVisit ==
  ASSUME NEW text, NEW i \in Places
  PROVE  Visit(HeadNode(i)) \in Seq(InOne(text)) /\ Fits(HeadNode(i)) /\ HeadNode(i).line = i
<1> DEFINE a == Leaf("@interface", i, 1)
           b == Leaf("identifier", i, 2)
           t == TokenAt(i, 2, "namespace")
           x == HeadNode(i)
           kind == "class_interface"
           children == <<a, b>>
<1>1. /\ a.line = i /\ Cols(a) = {1} /\ Vars(a) = {}
      /\ b.line = i /\ b.from = 2 /\ Cols(b) = {2} /\ Vars(b) = {2}
      /\ t.line = i /\ Cols(t) = {2} /\ Vars(t) = {}
  BY LeafHas, TokenHas DEF LeafKinds
<1>2. a \in InOne(text) /\ b \in InOne(text) /\ t \in InOne(text)
  BY DEF InOne, Leaves, LeafKinds, Token, TokenAt, Roles, Places
<1>3. kind \in DOMAIN RoleOfName /\ RoleOfName[kind] = "namespace"
  BY DEF RoleOfName
<1>4. x = Named(kind, i, children, 2) /\ children[2] = b
  BY DEF HeadNode
<1> HIDE DEF a, b, t, x
<1>5. x.kind = kind /\ x.line = i /\ "role" \notin DOMAIN x
  BY <1>4, NamedIs
<1>6. Cols(x) = {1, 2} /\ Vars(x) = {2}
  BY <1>5 DEF Cols, Vars, LeafKinds
<1>7. Visit(x) = IF kind \in NodesWithField THEN <<t>> \o children ELSE children
  <2>0. children \in Seq({a, b}) /\ 2 \in Nat \ {0}
    OBVIOUS
  <2> HIDE DEF children, kind
  <2>1. ASSUME kind \in NodesWithField
        PROVE  Visit(x) = <<TokenAt(children[2].line, children[2].from, RoleOfName[kind])>> \o children
    BY <1>3, <1>4, <2>0, <2>1, VisitNamed
  <2>2. ASSUME kind \notin NodesWithField
        PROVE  Visit(x) = children
    BY <1>3, <1>4, <2>0, <2>2, VisitUnnamed
  <2> QED
    BY <1>1, <1>3, <1>4, <2>1, <2>2 DEF t
<1>8. /\ kind \in NodesWithField => Visit(x) = <<t, a, b>>
      /\ kind \notin NodesWithField => Visit(x) = <<a, b>>
  <2>1. <<t>> \o children = <<t, a, b>>
    BY ConcatFew
  <2> HIDE DEF kind
  <2> QED
    BY <1>7, <2>1
<1> HIDE DEF kind
<1>9. Fits(x)
  <2>1. CASE kind \in NodesWithField
    BY <1>1, <1>5, <1>6, <1>8, <2>1, FitsThree DEF Within
  <2>2. CASE kind \notin NodesWithField
    BY <1>1, <1>5, <1>6, <1>8, <2>2, FitsTwo DEF Within
  <2> QED
    BY <2>1, <2>2
<1>10. Visit(x) \in Seq(InOne(text))
  <2>1. CASE kind \in NodesWithField
    <3>1. Visit(x) = <<t, a, b>>
      BY <1>8, <2>1
    <3> QED
      BY <1>2, <3>1
  <2>2. CASE kind \notin NodesWithField
    <3>1. Visit(x) = <<a, b>>
      BY <1>8, <2>2
    <3> QED
      BY <1>2, <3>1
  <2> QED
    BY <2>1, <2>2
<1> QED
  BY <1>5, <1>9, <1>10 DEF x

LEMMA PropertyVisit ==
  ASSUME NEW text, NEW i \in Places
  PROVE  Visit(PropertyNode(i)) \in Seq(InOne(text)) /\ Fits(PropertyNode(i)) /\ PropertyNode(i).line = i
<1> DEFINE a == Leaf("@property", i, 1)
           b == Leaf("type_identifier", i, 2)
           c == Leaf("identifier", i, 3)
           t == TokenAt(i, 3, "property")
           x == PropertyNode(i)
           kind == "property_declaration"
           children == <<a, b, c>>
<1>1. /\ a.line = i /\ Cols(a) = {1} /\ Vars(a) = {}
      /\ b.line = i /\ Cols(b) = {2} /\ Vars(b) = {}
      /\ c.line = i /\ c.from = 3 /\ Cols(c) = {3} /\ Vars(c) = {3}
      /\ t.line = i /\ Cols(t) = {3} /\ Vars(t) = {}
  BY LeafHas, TokenHas DEF LeafKinds
<1>2. a \in InOne(text) /\ b \in InOne(text) /\ c \in InOne(text) /\ t \in InOne(text)
  BY DEF InOne, Leaves, LeafKinds, Token, TokenAt, Roles, Places
<1>3. kind \in DOMAIN RoleOfName /\ RoleOfName[kind] = "property"
  BY DEF RoleOfName
<1>4. x = Named(kind, i, children, 3) /\ children[3] = c
  BY DEF PropertyNode
<1> HIDE DEF a, b, c, t, x
<1>5. x.kind = kind /\ x.line = i /\ "role" \notin DOMAIN x
  BY <1>4, NamedIs
<1>6. Cols(x) = {1, 2, 3} /\ Vars(x) = {3}
  BY <1>5 DEF Cols, Vars, LeafKinds
<1>7. Visit(x) = IF kind \in NodesWithField THEN <<t>> \o children ELSE children
  <2>0. children \in Seq({a, b, c}) /\ 3 \in Nat \ {0}
    OBVIOUS
  <2> HIDE DEF children, kind
  <2>1. ASSUME kind \in NodesWithField
        PROVE  Visit(x) = <<TokenAt(children[3].line, children[3].from, RoleOfName[kind])>> \o children
    BY <1>3, <1>4, <2>0, <2>1, VisitNamed
  <2>2. ASSUME kind \notin NodesWithField
        PROVE  Visit(x) = children
    BY <1>3, <1>4, <2>0, <2>2, VisitUnnamed
  <2> QED
    BY <1>1, <1>3, <1>4, <2>1, <2>2 DEF t
<1>8. /\ kind \in NodesWithField => Visit(x) = <<t, a, b, c>>
      /\ kind \notin NodesWithField => Visit(x) = <<a, b, c>>
  <2>1. <<t>> \o <<a, b, c>> = <<t, a, b, c>>
    BY ConcatThree
  <2>2. children = <<a, b, c>>
    OBVIOUS
  <2> HIDE DEF kind, children
  <2> QED
    BY <1>7, <2>1, <2>2
<1> HIDE DEF kind
<1>9. Fits(x)
  <2>1. CASE kind \in NodesWithField
    BY <1>1, <1>5, <1>6, <1>8, <2>1, FitsFour DEF Within
  <2>2. CASE kind \notin NodesWithField
    BY <1>1, <1>5, <1>6, <1>8, <2>2, FitsThree DEF Within
  <2> QED
    BY <2>1, <2>2
<1>10. Visit(x) \in Seq(InOne(text))
  <2>1. CASE kind \in NodesWithField
    <3>1. Visit(x) = <<t, a, b, c>>
      BY <1>8, <2>1
    <3> QED
      BY <1>2, <3>1
  <2>2. CASE kind \notin NodesWithField
    <3>1. Visit(x) = <<a, b, c>>
      BY <1>8, <2>2
    <3> QED
      BY <1>2, <3>1
  <2> QED
    BY <2>1, <2>2
<1> QED
  BY <1>5, <1>9, <1>10 DEF x

LEMMA PragmaVisit ==
  ASSUME NEW text, NEW i \in Places
  PROVE  Visit(PragmaNode(i)) \in Seq(InOne(text)) /\ Fits(PragmaNode(i)) /\ PragmaNode(i).line = i
<1> DEFINE a == Leaf("preproc_directive", i, 1)
           t == TokenAt(i, 1, "keyword")
           x == PragmaNode(i)
           kind == "preproc_call"
           children == <<a>>
<1>1. /\ a.line = i /\ a.from = 1 /\ Cols(a) = {1} /\ Vars(a) = {}
      /\ t.line = i /\ Cols(t) = {1} /\ Vars(t) = {}
  BY LeafHas, TokenHas DEF LeafKinds
<1>2. a \in InOne(text) /\ t \in InOne(text)
  BY DEF InOne, Leaves, LeafKinds, Token, TokenAt, Roles, Places
<1>3. kind \in DOMAIN RoleOfName /\ RoleOfName[kind] = "keyword"
  BY DEF RoleOfName
<1>4. x = Named(kind, i, children, 1) /\ children[1] = a
  BY DEF PragmaNode
<1> HIDE DEF a, t, x
<1>5. x.kind = kind /\ x.line = i /\ "role" \notin DOMAIN x
  BY <1>4, NamedIs
<1>6. Cols(x) = {1} /\ Vars(x) = {}
  BY <1>5 DEF Cols, Vars, LeafKinds
<1>7. Visit(x) = IF kind \in NodesWithField THEN <<t>> \o children ELSE children
  <2>0. children \in Seq({a}) /\ 1 \in Nat \ {0}
    OBVIOUS
  <2> HIDE DEF children, kind
  <2>1. ASSUME kind \in NodesWithField
        PROVE  Visit(x) = <<TokenAt(children[1].line, children[1].from, RoleOfName[kind])>> \o children
    BY <1>3, <1>4, <2>0, <2>1, VisitNamed
  <2>2. ASSUME kind \notin NodesWithField
        PROVE  Visit(x) = children
    BY <1>3, <1>4, <2>0, <2>2, VisitUnnamed
  <2> QED
    BY <1>1, <1>3, <1>4, <2>1, <2>2 DEF t
<1>8. /\ kind \in NodesWithField => Visit(x) = <<t, a>>
      /\ kind \notin NodesWithField => Visit(x) = <<a>>
  <2>1. <<t>> \o children = <<t, a>>
    BY ConcatFew
  <2> HIDE DEF kind
  <2> QED
    BY <1>7, <2>1
<1> HIDE DEF kind
<1>9. Fits(x)
  <2>1. CASE kind \in NodesWithField
    BY <1>1, <1>5, <1>6, <1>8, <2>1, FitsTwo DEF Within
  <2>2. CASE kind \notin NodesWithField
    BY <1>1, <1>5, <1>6, <1>8, <2>2, FitsOne DEF Within
  <2> QED
    BY <2>1, <2>2
<1>10. Visit(x) \in Seq(InOne(text))
  <2>1. CASE kind \in NodesWithField
    <3>1. Visit(x) = <<t, a>>
      BY <1>8, <2>1
    <3> QED
      BY <1>2, <3>1
  <2>2. CASE kind \notin NodesWithField
    <3>1. Visit(x) = <<a>>
      BY <1>8, <2>2
    <3> QED
      BY <1>2, <3>1
  <2> QED
    BY <2>1, <2>2
<1> QED
  BY <1>5, <1>9, <1>10 DEF x

LEMMA ImportVisit ==
  ASSUME NEW text, NEW i \in Places
  PROVE  Visit(ImportNode(i)) \in Seq(InOne(text)) /\ Fits(ImportNode(i)) /\ ImportNode(i).line = i
<1> DEFINE a == Leaf("string_literal", i, 2)
           x == ImportNode(i)
           kind == "preproc_include"
           children == <<a>>
<1>1. a.line = i /\ Cols(a) = {2} /\ Vars(a) = {}
  BY LeafHas DEF LeafKinds
<1>2. a \in InOne(text) /\ children \in Seq({a})
  BY DEF InOne, Leaves, LeafKinds, Places
<1>3. x = Node(kind, i, 1, children)
  BY DEF ImportNode
<1> HIDE DEF a, x
<1>4. x.kind = kind /\ x.line = i /\ "role" \notin DOMAIN x
  BY <1>3 DEF Node
<1>5. Cols(x) = {2} /\ Vars(x) = {}
  BY <1>4 DEF Cols, Vars, LeafKinds
<1>6. Visit(x) = children
  <2> HIDE DEF children
  <2> QED
    BY <1>2, <1>3, VisitPlain
<1>7. Fits(x)
  BY <1>1, <1>4, <1>5, <1>6, FitsOne DEF Within
<1>8. Visit(x) \in Seq(InOne(text))
  BY <1>2, <1>6
<1> QED
  BY <1>4, <1>7, <1>8 DEF x

LEMMA ForwardVisit ==
  ASSUME NEW text, NEW i \in Places
  PROVE  Visit(ForwardNode(i)) \in Seq(InOne(text)) /\ Fits(ForwardNode(i)) /\ ForwardNode(i).line = i
<1> DEFINE a == Leaf("@protocol", i, 1)
           b == Leaf("identifier", i, 2)
           x == ForwardNode(i)
           kind == "protocol_forward_declaration"
           children == <<a, b>>
<1>1. /\ a.line = i /\ Cols(a) = {1} /\ Vars(a) = {}
      /\ b.line = i /\ Cols(b) = {2} /\ Vars(b) = {2}
  BY LeafHas DEF LeafKinds
<1>2. a \in InOne(text) /\ b \in InOne(text) /\ children \in Seq({a, b})
  BY DEF InOne, Leaves, LeafKinds, Places
<1>3. x = Node(kind, i, 1, children)
  BY DEF ForwardNode
<1> HIDE DEF a, b, x
<1>4. x.kind = kind /\ x.line = i /\ "role" \notin DOMAIN x
  BY <1>3 DEF Node
<1>5. Cols(x) = {1, 2} /\ Vars(x) = {2}
  BY <1>4 DEF Cols, Vars, LeafKinds
<1>6. Visit(x) = children
  <2> HIDE DEF children
  <2> QED
    BY <1>2, <1>3, VisitPlain
<1>7. Fits(x)
  BY <1>1, <1>4, <1>5, <1>6, FitsTwo DEF Within
<1>8. Visit(x) \in Seq(InOne(text))
  BY <1>2, <1>6
<1> QED
  BY <1>4, <1>7, <1>8 DEF x

LEMMA MethodVisit ==
  ASSUME NEW text, NEW i \in Places
  PROVE  Visit(MethodNode(i)) \in Seq(InTwo(text)) /\ Fits(MethodNode(i)) /\ MethodNode(i).line = i
<1> DEFINE a == Leaf("type_identifier", i, 2)
           b == Leaf("identifier", i, 3)
           c == Parameter(i, 4)
           t == TokenAt(i, 3, "method")
           x == MethodNode(i)
           kind == "method_declaration"
           children == <<a, b, c>>
<1>1. /\ a.line = i /\ Cols(a) = {2} /\ Vars(a) = {}
      /\ b.line = i /\ b.from = 3 /\ Cols(b) = {3} /\ Vars(b) = {3}
      /\ t.line = i /\ Cols(t) = {3} /\ Vars(t) = {}
  BY LeafHas, TokenHas DEF LeafKinds
<1>2. c.line = i /\ Cols(c) = {4, 5} /\ Vars(c) = {5}
  BY ParameterHas
<1>3. a \in InTwo(text) /\ b \in InTwo(text) /\ t \in InTwo(text) /\ c \in InTwo(text)
  <2>1. a \in InOne(text) /\ b \in InOne(text) /\ t \in InOne(text)
    BY DEF InOne, Leaves, LeafKinds, Token, TokenAt, Roles, Places
  <2>2. c \in {Parameter(j, from) : j \in Places, from \in Places}
    BY DEF Places
  <2> QED
    BY <2>1, <2>2 DEF InTwo
<1>4. kind \in DOMAIN RoleOfName /\ RoleOfName[kind] = "method"
  BY DEF RoleOfName
<1>5. x = Named(kind, i, children, 2) /\ children[2] = b
  BY DEF MethodNode
<1> HIDE DEF a, b, c, t, x
<1>6. x.kind = kind /\ x.line = i /\ "role" \notin DOMAIN x
  BY <1>5, NamedIs
<1>7. Cols(x) = {2, 3, 4, 5} /\ Vars(x) = {3, 5}
  BY <1>6 DEF Cols, Vars, LeafKinds
<1>8. Visit(x) = IF kind \in NodesWithField THEN <<t>> \o children ELSE children
  <2>0. children \in Seq({a, b, c}) /\ 2 \in Nat \ {0}
    OBVIOUS
  <2> HIDE DEF children, kind
  <2>1. ASSUME kind \in NodesWithField
        PROVE  Visit(x) = <<TokenAt(children[2].line, children[2].from, RoleOfName[kind])>> \o children
    BY <1>4, <1>5, <2>0, <2>1, VisitNamed
  <2>2. ASSUME kind \notin NodesWithField
        PROVE  Visit(x) = children
    BY <1>4, <1>5, <2>0, <2>2, VisitUnnamed
  <2> QED
    BY <1>1, <1>4, <1>5, <2>1, <2>2 DEF t
<1>9. /\ kind \in NodesWithField => Visit(x) = <<t, a, b, c>>
      /\ kind \notin NodesWithField => Visit(x) = <<a, b, c>>
  <2>1. <<t>> \o <<a, b, c>> = <<t, a, b, c>>
    BY ConcatThree
  <2>2. children = <<a, b, c>>
    OBVIOUS
  <2> HIDE DEF kind, children
  <2> QED
    BY <1>8, <2>1, <2>2
<1> HIDE DEF kind
<1>10. Fits(x)
  <2>1. CASE kind \in NodesWithField
    BY <1>1, <1>2, <1>6, <1>7, <1>9, <2>1, FitsFour DEF Within
  <2>2. CASE kind \notin NodesWithField
    BY <1>1, <1>2, <1>6, <1>7, <1>9, <2>2, FitsThree DEF Within
  <2> QED
    BY <2>1, <2>2
<1>11. Visit(x) \in Seq(InTwo(text))
  <2>1. CASE kind \in NodesWithField
    <3>1. Visit(x) = <<t, a, b, c>>
      BY <1>9, <2>1
    <3> QED
      BY <1>3, <3>1
  <2>2. CASE kind \notin NodesWithField
    <3>1. Visit(x) = <<a, b, c>>
      BY <1>9, <2>2
    <3> QED
      BY <1>3, <3>1
  <2> QED
    BY <2>1, <2>2
<1> QED
  BY <1>6, <1>10, <1>11 DEF x

LEMMA DeclaratorHas ==
  ASSUME NEW i
  PROVE  /\ Declarator(i).kind = "function_declarator" /\ Declarator(i).line = i
         /\ "role" \notin DOMAIN Declarator(i)
         /\ Cols(Declarator(i)) = {2, 3, 4} /\ Vars(Declarator(i)) = {2, 4}
<1> DEFINE x == Declarator(i)
<1>1. x.kind = "function_declarator" /\ x.line = i /\ "role" \notin DOMAIN x
  BY NamedIs DEF Declarator
<1> HIDE DEF x
<1>2. Cols(x) = {2, 3, 4} /\ Vars(x) = {2, 4}
  BY <1>1 DEF Cols, Vars, LeafKinds
<1> QED
  BY <1>1, <1>2 DEF x

LEMMA DeclaratorVisit ==
  ASSUME NEW text, NEW i \in Places
  PROVE  Visit(Declarator(i)) \in Seq(InTwo(text)) /\ Fits(Declarator(i))
<1> DEFINE a == Leaf("identifier", i, 2)
           b == Parameter(i, 3)
           t == TokenAt(i, 2, "function")
           x == Declarator(i)
           kind == "function_declarator"
           children == <<a, b>>
<1>1. /\ a.line = i /\ a.from = 2 /\ Cols(a) = {2} /\ Vars(a) = {2}
      /\ t.line = i /\ Cols(t) = {2} /\ Vars(t) = {}
  BY LeafHas, TokenHas DEF LeafKinds
<1>2. b.line = i /\ Cols(b) = {3, 4} /\ Vars(b) = {4}
  BY ParameterHas
<1>3. a \in InTwo(text) /\ b \in InTwo(text) /\ t \in InTwo(text)
  <2>1. a \in InOne(text) /\ t \in InOne(text)
    BY DEF InOne, Leaves, LeafKinds, Token, TokenAt, Roles, Places
  <2>2. b \in {Parameter(j, from) : j \in Places, from \in Places}
    BY DEF Places
  <2> QED
    BY <2>1, <2>2 DEF InTwo
<1>4. kind \in DOMAIN RoleOfName /\ RoleOfName[kind] = "function"
  BY DEF RoleOfName
<1>5. x = Named(kind, i, children, 1) /\ children[1] = a
  BY DEF Declarator
<1>6. x.line = i /\ Cols(x) = {2, 3, 4} /\ Vars(x) = {2, 4}
  BY DeclaratorHas
<1> HIDE DEF a, b, t, x
<1>8. Visit(x) = IF kind \in NodesWithField THEN <<t>> \o children ELSE children
  <2>0. children \in Seq({a, b}) /\ 1 \in Nat \ {0}
    OBVIOUS
  <2> HIDE DEF children, kind
  <2>1. ASSUME kind \in NodesWithField
        PROVE  Visit(x) = <<TokenAt(children[1].line, children[1].from, RoleOfName[kind])>> \o children
    BY <1>4, <1>5, <2>0, <2>1, VisitNamed
  <2>2. ASSUME kind \notin NodesWithField
        PROVE  Visit(x) = children
    BY <1>4, <1>5, <2>0, <2>2, VisitUnnamed
  <2> QED
    BY <1>1, <1>4, <1>5, <2>1, <2>2 DEF t
<1>9. /\ kind \in NodesWithField => Visit(x) = <<t, a, b>>
      /\ kind \notin NodesWithField => Visit(x) = <<a, b>>
  <2>1. <<t>> \o children = <<t, a, b>>
    BY ConcatFew
  <2> HIDE DEF kind
  <2> QED
    BY <1>8, <2>1
<1> HIDE DEF kind
<1>10. Fits(x)
  <2>1. CASE kind \in NodesWithField
    BY <1>1, <1>2, <1>6, <1>9, <2>1, FitsThree DEF Within
  <2>2. CASE kind \notin NodesWithField
    BY <1>1, <1>2, <1>6, <1>9, <2>2, FitsTwo DEF Within
  <2> QED
    BY <2>1, <2>2
<1>11. Visit(x) \in Seq(InTwo(text))
  <2>1. CASE kind \in NodesWithField
    <3>1. Visit(x) = <<t, a, b>>
      BY <1>9, <2>1
    <3> QED
      BY <1>3, <3>1
  <2>2. CASE kind \notin NodesWithField
    <3>1. Visit(x) = <<a, b>>
      BY <1>9, <2>2
    <3> QED
      BY <1>3, <3>1
  <2> QED
    BY <2>1, <2>2
<1> QED
  BY <1>10, <1>11 DEF x

LEMMA TextVisit ==
  ASSUME NEW text, NEW i \in Places
  PROVE  Visit(TextNode(i)) \in Seq(InThree(text)) /\ Fits(TextNode(i)) /\ TextNode(i).line = i
<1> DEFINE a == Leaf("type_identifier", i, 1)
           b == Declarator(i)
           x == TextNode(i)
           kind == "declaration"
           children == <<a, b>>
<1>1. a.line = i /\ Cols(a) = {1} /\ Vars(a) = {}
  BY LeafHas DEF LeafKinds
<1>2. b.line = i /\ Cols(b) = {2, 3, 4} /\ Vars(b) = {2, 4}
  BY DeclaratorHas
<1>3. a \in InThree(text) /\ b \in InThree(text) /\ children \in Seq({a, b})
  <2>1. a \in InOne(text)
    BY DEF InOne, Leaves, LeafKinds, Places
  <2>2. b \in {Declarator(j) : j \in Places}
    OBVIOUS
  <2> QED
    BY <2>1, <2>2 DEF InTwo, InThree
<1>4. x = Node(kind, i, 1, children)
  BY DEF TextNode
<1> HIDE DEF a, b, x
<1>5. x.kind = kind /\ x.line = i /\ "role" \notin DOMAIN x
  BY <1>4 DEF Node
<1>6. Cols(x) = {1, 2, 3, 4} /\ Vars(x) = {2, 4}
  BY <1>5 DEF Cols, Vars, LeafKinds
<1>7. Visit(x) = children
  <2> HIDE DEF children
  <2> QED
    BY <1>3, <1>4, VisitPlain
<1>8. Fits(x)
  BY <1>1, <1>2, <1>5, <1>6, <1>7, FitsTwo DEF Within
<1>9. Visit(x) \in Seq(InThree(text))
  BY <1>3, <1>7
<1> QED
  BY <1>5, <1>8, <1>9 DEF x

LEMMA TwoVisits ==
  ASSUME NEW text, NEW x \in InTwo(text)
  PROVE  Visit(x) \in Seq(InOne(text)) /\ Fits(x)
<1>1. CASE x \in InOne(text)
  <2>1. Visit(x) \in Seq(Token) /\ Fits(x)
    BY <1>1, OneVisit
  <2>2. Token \subseteq InOne(text)
    BY DEF InOne
  <2> QED
    BY <2>1, <2>2, SeqGrows
<1>2. ASSUME NEW i \in Places, NEW from \in Places, x = Parameter(i, from)
      PROVE  Visit(x) \in Seq(InOne(text)) /\ Fits(x)
  BY <1>2, ParameterVisit
<1>3. ASSUME NEW i \in Places, x \in {HeadNode(i), PropertyNode(i), PragmaNode(i), ImportNode(i),
                                   ForwardNode(i)}
      PROVE  Visit(x) \in Seq(InOne(text)) /\ Fits(x)
  BY <1>3, HeadVisit, PropertyVisit, PragmaVisit, ImportVisit, ForwardVisit
<1> QED
  BY <1>1, <1>2, <1>3 DEF InTwo

LEMMA ThreeVisits ==
  ASSUME NEW text, NEW x \in InThree(text)
  PROVE  Visit(x) \in Seq(InTwo(text)) /\ Fits(x)
<1>1. CASE x \in InTwo(text)
  <2>1. Visit(x) \in Seq(InOne(text)) /\ Fits(x)
    BY <1>1, TwoVisits
  <2>2. InOne(text) \subseteq InTwo(text)
    BY DEF InTwo
  <2> QED
    BY <2>1, <2>2, SeqGrows
<1>2. ASSUME NEW i \in Places, x \in {MethodNode(i), Declarator(i)}
      PROVE  Visit(x) \in Seq(InTwo(text)) /\ Fits(x)
  BY <1>2, MethodVisit, DeclaratorVisit
<1> QED
  BY <1>1, <1>2 DEF InThree

LEMMA FourVisits ==
  ASSUME NEW text, NEW x \in InFour(text)
  PROVE  Visit(x) \in Seq(InThree(text)) /\ Fits(x)
<1>1. CASE x \in InThree(text)
  <2>1. Visit(x) \in Seq(InTwo(text)) /\ Fits(x)
    BY <1>1, ThreeVisits
  <2>2. InTwo(text) \subseteq InThree(text)
    BY DEF InThree
  <2> QED
    BY <2>1, <2>2, SeqGrows
<1>2. ASSUME NEW i \in Places, x = TextNode(i)
      PROVE  Visit(x) \in Seq(InThree(text)) /\ Fits(x)
  BY <1>2, TextVisit
<1> QED
  BY <1>1, <1>2 DEF InFour

\* The node of a line.
LEMMA TreeIs ==
  ASSUME NEW text \in Seq(Line), NEW i \in 1..Len(text)
  PROVE  Tree(text, i) \in InFour(text) /\ Tree(text, i).line = i
<1> DEFINE kind == text[i].kind
           x == Tree(text, i)
<1>1. i \in Places
  BY TextIs DEF Places
<1>2. kind \in HeadKinds \cup {"forward"} \cup PlainKinds
  <2>1. text[i] \in Line
    BY TextIs
  <2> DEFINE t == text[i]
  <2> HIDE DEF t
  <2>2. t \in Line => t.kind \in HeadKinds \cup {"forward"} \cup PlainKinds
    BY DEF Line
  <2> QED
    BY <2>1, <2>2 DEF t
<1>3. /\ kind \in HeadKinds => x = HeadNode(i)
      /\ kind = "end" => x = Leaf("@end", i, 1)
      /\ kind = "method" => x = MethodNode(i)
      /\ kind = "property" => x = PropertyNode(i)
      /\ kind = "forward" => x = ForwardNode(i)
      /\ kind \in {"pragma", "rule", "wide"} => x = PragmaNode(i)
      /\ kind = "import" => x = ImportNode(i)
      /\ kind \in {"begin", "finish"} => x = Leaf("identifier", i, 1)
      /\ kind \in {"beginMention", "finishMention"} => x = Leaf("comment", i, 1)
      /\ kind = "text" => x = TextNode(i)
      /\ kind = "blank" => x = Leaf("blank", i, 1)
  BY DEF Tree, HeadKinds, HeadNode, MethodNode, PropertyNode, PragmaNode, ImportNode, TextNode,
         ForwardNode, Declarator, Parameter, Leaf
<1> HIDE DEF kind, x
<1>4. CASE kind \in HeadKinds
  BY <1>1, <1>3, <1>4, HeadVisit DEF InFour, InThree, InTwo, x
<1>5. CASE kind \in {"end", "begin", "finish", "beginMention", "finishMention", "blank"}
  <2>1. PICK leaf \in LeafKinds : x = Leaf(leaf, i, 1)
    BY <1>3, <1>5 DEF LeafKinds
  <2>2. x \in Leaves
    BY <1>1, <2>1 DEF Leaves, Places
  <2>3. x.line = i
    BY <2>1, LeafHas
  <2> QED
    BY <2>2, <2>3 DEF InFour, InThree, InTwo, InOne, x
<1>6. CASE kind = "method"
  BY <1>1, <1>3, <1>6, MethodVisit DEF InFour, InThree, x
<1>7. CASE kind = "property"
  <2>1. x = PropertyNode(i) /\ x.line = i
    BY <1>1, <1>3, <1>7, PropertyVisit
  <2>2. x \in InTwo(text)
    BY <1>1, <2>1 DEF InTwo
  <2> QED
    BY <2>1, <2>2 DEF InFour, InThree, x
<1>8. CASE kind \in {"pragma", "rule", "wide"}
  BY <1>1, <1>3, <1>8, PragmaVisit DEF InFour, InThree, InTwo, x
<1>9. CASE kind = "import"
  BY <1>1, <1>3, <1>9, ImportVisit DEF InFour, InThree, InTwo, x
<1>10. CASE kind = "text"
  BY <1>1, <1>3, <1>10, TextVisit DEF InFour, x
<1>11. kind \in PlainKinds =>
         kind \in {"method", "property", "end", "import", "pragma", "rule", "wide", "begin", "finish",
                   "beginMention", "finishMention", "blank", "text"}
  BY DEF PlainKinds, MemberKinds
<1>12. CASE kind = "forward"
  BY <1>1, <1>3, <1>12, ForwardVisit DEF InFour, InThree, InTwo, x
<1> QED
  BY <1>2, <1>12, <1>4, <1>5, <1>6, <1>7, <1>8, <1>9, <1>10, <1>11 DEF x

\* The first level of the walk: a node for each line.
LEMMA RootVisit ==
  ASSUME NEW text \in Seq(Line)
  PROVE  /\ Visit(SyntaxTree(text)) \in Seq(InFour(text))
         /\ Apart(Visit(SyntaxTree(text)))
<1> DEFINE n == Len(text)
           errors == Errors(text)
           nodes == [i \in 1..n |-> IF i \in errors THEN ErrorNode(text, i) ELSE Tree(text, i)]
           S == InFour(text)
<1>1. n \in Nat /\ DOMAIN text = 1..n
  BY TextIs
<1>2. SyntaxTree(text) = Node("translation_unit", 1, 1, nodes)
  BY <1>1 DEF SyntaxTree, ErrorNode
<1>3. ASSUME NEW i \in 1..n PROVE nodes[i] \in S /\ nodes[i].line = i
  <2>1. Tree(text, i) \in S /\ Tree(text, i).line = i
    BY TreeIs
  <2>2. ErrorNode(text, i) \in S
    <3>1. i \in Places
      BY <1>1 DEF Places
    <3> QED
      BY <3>1 DEF InFour, InThree, InTwo, InOne
  <2>3. ErrorNode(text, i).line = i
    BY DEF ErrorNode, Node
  <2>4. nodes[i] = ErrorNode(text, i) \/ nodes[i] = Tree(text, i)
    OBVIOUS
  <2> HIDE DEF nodes, S
  <2> QED
    BY <2>1, <2>2, <2>3, <2>4
<1>4. nodes \in Seq(S) /\ Len(nodes) = n
  <2>1. nodes \in [1..n -> S]
    BY <1>3
  <2> HIDE DEF nodes, S, n
  <2> QED
    BY <1>1, <2>1, SeqDef, LenProperties
<1> HIDE DEF nodes, S
<1>5. Visit(SyntaxTree(text)) = nodes
  BY <1>2, <1>4, VisitPlain
<1>6. Apart(nodes)
  <2>1. \A k \in 1..n : k \in Int
    BY <1>1
  <2> QED
    BY <1>3, <1>4, <2>1 DEF Apart
<1> QED
  BY <1>4, <1>5, <1>6 DEF S

\* The walk by its levels.
LEMMA WalkIs ==
  ASSUME NEW tree
  PROVE  Walk(tree) = Level(Level(Level(Level(Level(<<tree>>)))))
<1> DEFINE Body(f, d) == IF d = 0 THEN <<tree>> ELSE Level(f[d - 1])
           walked == CHOOSE f : f = [d \in 0..5 |-> Body(f, d)]
           one == Level(<<tree>>)
           two == Level(one)
           three == Level(two)
           four == Level(three)
           five == Level(four)
           g == [d \in 0..5 |->
                   IF d = 0 THEN <<tree>> ELSE IF d = 1 THEN one ELSE IF d = 2 THEN two
                   ELSE IF d = 3 THEN three ELSE IF d = 4 THEN four ELSE five]
<1>1. Walk(tree) = walked[5]
  BY DEF Walk, Depth, Level
<1>2. \E f : f = [d \in 0..5 |-> Body(f, d)]
  <2>1. g[0] = <<tree>> /\ g[1] = one /\ g[2] = two /\ g[3] = three /\ g[4] = four /\ g[5] = five
    OBVIOUS
  <2> DEFINE h == [d \in 0..5 |-> Body(g, d)]
  <2>2. ASSUME NEW d \in 0..5 PROVE h[d] = g[d]
    <3>1. h[d] = Body(g, d) /\ (d = 0 \/ d = 1 \/ d = 2 \/ d = 3 \/ d = 4 \/ d = 5)
      OBVIOUS
    <3> HIDE DEF g, h
    <3>2. CASE d = 0
      BY <2>1, <3>1, <3>2
    <3>3. CASE d = 1
      BY <2>1, <3>1, <3>3
    <3>4. CASE d = 2
      BY <2>1, <3>1, <3>4
    <3>5. CASE d = 3
      BY <2>1, <3>1, <3>5
    <3>6. CASE d = 4
      BY <2>1, <3>1, <3>6
    <3>7. CASE d = 5
      BY <2>1, <3>1, <3>7
    <3> QED
      BY <3>1, <3>2, <3>3, <3>4, <3>5, <3>6, <3>7
  <2>3. DOMAIN g = 0..5 /\ DOMAIN h = 0..5 /\ g = [d \in DOMAIN g |-> g[d]] /\ h = [d \in DOMAIN h |-> h[d]]
    OBVIOUS
  <2>4. g = h
    <3> HIDE DEF g, h
    <3> QED
      BY <2>2, <2>3
  <2> HIDE DEF g
  <2>5. g = [d \in 0..5 |-> Body(g, d)]
    BY <2>4
  <2> HIDE DEF Body
  <2> QED
    BY <2>5
<1>3. walked = [d \in 0..5 |-> Body(walked, d)]
  <2> HIDE DEF Body
  <2> QED
    BY <1>2
<1> HIDE DEF walked
<1>4. \A d \in 0..5 : walked[d] = Body(walked, d)
  <2> HIDE DEF Body
  <2> QED
    BY <1>3
<1>5. walked[0] = <<tree>>
  BY <1>4
<1>6. \A d \in 1..5 : walked[d] = Level(walked[d - 1])
  BY <1>4
<1>7. walked[1] = Level(walked[0]) /\ walked[2] = Level(walked[1]) /\ walked[3] = Level(walked[2])
      /\ walked[4] = Level(walked[3]) /\ walked[5] = Level(walked[4])
  BY <1>6
<1> QED
  BY <1>1, <1>5, <1>7

LEMMA FirstLevel ==
  ASSUME NEW S, NEW tree, Visit(tree) \in Seq(S)
  PROVE  Level(<<tree>>) = Visit(tree)
<1> DEFINE before == <<tree>>
           v == Visit(tree)
           seqs == [i \in 1..1 |-> v]
<1>1. DOMAIN before = 1..1 /\ before[1] = tree
  OBVIOUS
<1> HIDE DEF before, v
<1>2. [i \in DOMAIN before |-> Visit(before[i])] = seqs
  <2>1. \A i \in 1..1 : Visit(before[i]) = v
    BY <1>1 DEF v
  <2> QED
    BY <1>1, <2>1
<1>3. Level(before) = FlattenSeq(seqs)
  BY <1>2 DEF Level
<1>4. v \in Seq(S)
  BY DEF v
<1>5. seqs \in Seq(Seq(S)) /\ Len(seqs) = 1 /\ seqs[1] = v
  <2> DEFINE lists == Seq(S)
             alone == <<v>>
  <2>1. alone \in Seq(lists) /\ Len(alone) = 1 /\ alone[1] = v
    BY <1>4
  <2>2. seqs = alone
    <3>1. DOMAIN alone = 1..1 /\ alone = [i \in DOMAIN alone |-> alone[i]]
      OBVIOUS
    <3>2. \A i \in 1..1 : alone[i] = v
      OBVIOUS
    <3> HIDE DEF alone
    <3> QED
      BY <3>1, <3>2
  <2> QED
    BY <2>1, <2>2 DEF lists
<1> HIDE DEF seqs
<1>6. FlattenSeq(seqs) = << >> \o v
  <2>1. PICK upTo \in [0..1 -> Seq(S)] :
          upTo[0] = << >> /\ (\A i \in 1..1 : upTo[i] = upTo[i - 1] \o seqs[i]) /\ FlattenSeq(seqs) = upTo[1]
    <3>1. \E upTo \in [0..Len(seqs) -> Seq(S)] :
            /\ upTo[0] = << >>
            /\ \A i \in 1..Len(seqs) : upTo[i] = upTo[i - 1] \o seqs[i]
            /\ FlattenSeq(seqs) = upTo[Len(seqs)]
      BY <1>5, FlattenIs
    <3> QED
      BY <1>5, <3>1
  <2>2. 1 \in 1..1 /\ 1 - 1 = 0
    OBVIOUS
  <2>3. upTo[1] = upTo[0] \o seqs[1]
    BY <2>1, <2>2
  <2> QED
    BY <1>5, <2>1, <2>3
<1>7. << >> \o v = v
  BY <1>4, ConcatEmptySeq
<1> QED
  BY <1>3, <1>6, <1>7 DEF before, v

\* All tokens of a text are reached, no two of one place with the variable before.
LEMMA WalkedIs ==
  ASSUME NEW text \in Seq(Line)
  PROVE  Walk(SyntaxTree(text)) \in Seq(Token) /\ NamesFirst(Walk(SyntaxTree(text)))
<1> DEFINE tree == SyntaxTree(text)
           one == Level(<<tree>>)
           two == Level(one)
           three == Level(two)
           four == Level(three)
           five == Level(four)
<1>1. one \in Seq(InFour(text)) /\ Apart(one)
  <2>1. Visit(tree) \in Seq(InFour(text)) /\ Apart(Visit(tree))
    BY RootVisit
  <2> HIDE DEF tree
  <2>2. one = Visit(tree)
    BY <2>1, FirstLevel
  <2> QED
    BY <2>1, <2>2
<1> HIDE DEF one
<1>2. two \in Seq(InThree(text)) /\ Apart(two)
  BY <1>1, FourVisits, LevelStep
<1> HIDE DEF two
<1>3. three \in Seq(InTwo(text)) /\ Apart(three)
  BY <1>2, ThreeVisits, LevelStep
<1> HIDE DEF three
<1>4. four \in Seq(InOne(text)) /\ Apart(four)
  BY <1>3, TwoVisits, LevelStep
<1> HIDE DEF four
<1>5. five \in Seq(Token) /\ Apart(five)
  BY <1>4, OneVisit, LevelStep
<1> HIDE DEF five
<1>6. Walk(tree) = five
  BY WalkIs DEF one, two, three, four, five
<1>7. NamesFirst(five)
  <2> DEFINE n == Len(five)
  <2>1. n \in Nat /\ \A i \in 1..n : five[i] \in Token
    BY <1>5, LenProperties
  <2> SUFFICES ASSUME NEW i \in 1..n, NEW j \in 1..n, i < j,
                      ~Before(five[i], five[j]), ~Before(five[j], five[i])
               PROVE  five[i].role # "variable"
    BY DEF NamesFirst
  <2> DEFINE s == five[i]
             t == five[j]
  <2>2. s \in Token /\ t \in Token
    BY <2>1
  <2>3. s.line = t.line => Vars(s) \cap Cols(t) = {}
    BY <1>5 DEF Apart
  <2>4. ~Before(s, t) /\ ~Before(t, s)
    OBVIOUS
  <2> HIDE DEF s, t
  <2>5. s.line \in Nat /\ t.line \in Nat /\ s.from \in Nat /\ t.from \in Nat
        /\ "role" \in DOMAIN s /\ "role" \in DOMAIN t
    BY <2>2 DEF Token
  <2>6. s.line = t.line /\ s.from = t.from
    BY <2>4, <2>5 DEF Before
  <2>7. Cols(t) = {s.from}
    BY <2>5, <2>6 DEF Cols
  <2>8. s.from \notin Vars(s)
    BY <2>3, <2>6, <2>7
  <2>9. s.role # "variable"
    BY <2>5, <2>8 DEF Vars
  <2> QED
    BY <2>9 DEF s
<1> QED
  BY <1>5, <1>6, <1>7 DEF tree

\* The semantic tokens of a text reach the editor as the walk of its tree found them.
THEOREM TokensOfEveryText ==
  ASSUME NEW text \in Seq(Line)
  PROVE  TokensDecodeInOrder(text)
<1> DEFINE walked == Walk(SyntaxTree(text))
<1>1. walked \in Seq(Token) /\ NamesFirst(walked)
  BY WalkedIs
<1>2. TokensDecodeInOrder(text) <=>
        LET encoded == Encode(walked)
            decoded == Decode(encoded)
        IN  /\ \A i \in DOMAIN encoded : encoded[i].line >= 0 /\ encoded[i].start >= 0
            /\ Len(decoded) = Len(walked) /\ ToSet(decoded) = ToSet(walked)
            /\ \A i \in 2..Len(decoded) :
                 ~Before(decoded[i - 1], decoded[i]) => decoded[i - 1].role # "variable"
  BY DEF TokensDecodeInOrder
<1> HIDE DEF walked
<1> QED
  BY <1>1, <1>2, EncodedIs

\* No token is lost, moved or given another role between the walk and the editor, in every text
\* an editor writes.
THEOREM TokensAlwaysInOrder == Spec => []TokensArriveInOrder
<1>1. TextTyped => TokensArriveInOrder
  BY TokensOfEveryText DEF TextTyped, TokensArriveInOrder
<1> QED
  BY <1>1, TextsTyped, PTL
=============================================================================
