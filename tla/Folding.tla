------------------------------ MODULE Folding ------------------------------
(***************************************************************************)
(* objc-syntax/src/folding.rs, the folding ranges of a file, and the scan  *)
(* of objc-intelligence/src/nullability.rs over the same regions.  Lines   *)
(* are numbered from 1.  Bodies in braces and comments are one line here,  *)
(* so of the tree walk only the blocks are left; the ranges are a set, in  *)
(* the order of which the editor is not interested.                        *)
(***************************************************************************)
EXTENDS ObjcText, SequencesExt

Fold(first, last, kind) == [first |-> first, last |-> last, kind |-> kind]

\* collect_folding: a block of more than one line.
BlockFolds(lines) == {Fold(b[1], b[2], "block") : b \in Blocks(lines)}

\* Mutant of ImportFolds: the scan goes on with the second line of the run.
ImportFoldsOverlap(lines) ==
  LET isImport(i) == i \in DOMAIN lines /\ lines[i].kind = "import"
      runEnd(i) == CHOOSE j \in i..Len(lines) :
                     ~isImport(j + 1) /\ \A k \in i..j : isImport(k)
      from[i \in 1..Len(lines) + 1] ==
        IF i > Len(lines) THEN {}
        ELSE IF ~isImport(i) THEN from[i + 1]
        ELSE from[i + 1] \cup (IF runEnd(i) > i THEN {Fold(i, runEnd(i), "imports")} ELSE {})
  IN from[1]

\* collect_import_folds: skip to the end of a run of imports, fold it when it has two.
ImportFolds(lines) ==
  LET isImport(i) == i \in DOMAIN lines /\ lines[i].kind = "import"
      runEnd(i) == CHOOSE j \in i..Len(lines) :
                     ~isImport(j + 1) /\ \A k \in i..j : isImport(k)
      from[i \in 1..Len(lines) + 1] ==
        IF i > Len(lines) THEN {}
        ELSE IF ~isImport(i) THEN from[i + 1]
        ELSE from[runEnd(i) + 1] \cup
               (IF runEnd(i) > i THEN {Fold(i, runEnd(i), "imports")} ELSE {})
  IN from[1]

\* collect_pragma_mark_folds: up to the next mark, the next @end or the end of the file.
FoldedMarks == {"pragma", "rule"}

PragmaFolds(lines) ==
  LET stops(i) == {j \in At(lines, FoldedMarks \cup {"end"}) : j > i}
      last(i) == IF stops(i) = {} THEN Len(lines) ELSE Min(stops(i)) - 1
  IN {Fold(i, last(i), "section") : i \in {j \in At(lines, FoldedMarks) : last(j) > j}}

\* collect_nonnull_folds, one line of it: a stack of the begins that are open.  The line is
\* compared as a whole: a mention is no begin and no finish.
ScanNonnull(lines, acc, i) ==
  CASE lines[i].kind = "begin" -> [acc EXCEPT !.stack = Append(@, i)]
    [] lines[i].kind = "finish" /\ acc.stack # << >> ->
         [stack |-> Front(acc.stack),
          folds |-> acc.folds \cup {Fold(Last(acc.stack), i, "nonnull")}]
    [] OTHER -> acc

NonnullFolds(lines) ==
  LET after[i \in 0..Len(lines)] ==
        IF i = 0 THEN [stack |-> << >>, folds |-> {}] ELSE ScanNonnull(lines, after[i - 1], i)
  IN after[Len(lines)].folds

FoldingRanges(lines) ==
  BlockFolds(lines) \cup ImportFolds(lines) \cup PragmaFolds(lines) \cup NonnullFolds(lines)

\* Mutant of Warned: the end of a region is not seen.
WarnedUntilBegin(lines) ==
  {i \in At(lines, {"method"}) : \A j \in 1..i : lines[j].kind \notin {"begin", "beginMention"}}

\* nullability_diagnostics: the declarations met outside a region, which is one flag; here a line
\* that contains the macro counts.
Warned(lines) ==
  LET inside[i \in 0..Len(lines)] ==
        IF i = 0 THEN FALSE
        ELSE CASE lines[i].kind \in {"begin", "beginMention"}   -> TRUE
               [] lines[i].kind \in {"finish", "finishMention"} -> FALSE
               [] OTHER -> inside[i - 1]
  IN {i \in At(lines, {"method"}) : ~inside[i]}

-----------------------------------------------------------------------------
(* References *)

MaximalRuns(lines, kind) ==
  {r \in (DOMAIN lines) \X (DOMAIN lines) :
     /\ r[1] <= r[2] /\ \A i \in r[1]..r[2] : lines[i].kind = kind
     /\ r[1] - 1 \notin At(lines, {kind}) /\ r[2] + 1 \notin At(lines, {kind})}

Count(lines, kind, i, j) == Cardinality({k \in i..j : lines[k].kind = kind})

\* A begin and the finish that balances it.
Balanced(lines) ==
  {p \in At(lines, {"begin"}) \X At(lines, {"finish"}) :
     /\ p[1] < p[2]
     /\ Count(lines, "begin", p[1], p[2]) = Count(lines, "finish", p[1], p[2])
     /\ \A k \in p[1]..(p[2] - 1) : Count(lines, "begin", p[1], k) > Count(lines, "finish", p[1], k)}

Nested(f, g) == f.first <= g.first /\ g.last <= f.last
Disjoint(f, g) == f.last < g.first \/ g.last < f.first

-----------------------------------------------------------------------------
(* Properties of a text *)

\* The loops of folding.rs find what they are meant to: every run of imports once, every
\* balanced nonnull region, sections that no mark and no @end interrupts; and no two
\* ranges of one kind cross.
FoldsRegions(lines) ==
  /\ ImportFolds(lines) = {Fold(r[1], r[2], "imports") :
                             r \in {q \in MaximalRuns(lines, "import") : q[1] < q[2]}}
  /\ NonnullFolds(lines) = {Fold(p[1], p[2], "nonnull") : p \in Balanced(lines)}
  /\ \A f \in PragmaFolds(lines) :
       /\ \A i \in (f.first + 1)..f.last : lines[i].kind \notin FoldedMarks \cup {"end"}
       /\ f.last = Len(lines) \/ lines[f.last + 1].kind \in FoldedMarks \cup {"end"}
  /\ \A f, g \in FoldingRanges(lines) :
       f.kind = g.kind => Nested(f, g) \/ Nested(g, f) \/ Disjoint(f, g)

\* Two scanners of the same macros, one with a stack and one with a flag: where regions do
\* not nest, the checker warns of a declaration exactly when it is outside every folded region
\* and after no region that is still open (nullability.rs:3-7), as long as no line before it
\* mentions a macro that is not alone on its line, which only the checker sees.
WarnsOutsideFolds(lines) ==
  (\A i, j \in At(lines, {"begin"}) : i < j => Count(lines, "finish", i, j) > 0) =>
    \A m \in At(lines, {"method"}) :
      (\A i \in 1..m : lines[i].kind \notin {"beginMention", "finishMention"}) =>
        (m \in Warned(lines) <=>
           /\ \A f \in NonnullFolds(lines) : ~(f.first < m /\ m < f.last)
           /\ \A b \in At(lines, {"begin"}) : b < m => Count(lines, "finish", b, Len(lines)) > 0)

\* What nullability.rs:3-7 promises of every text: a declaration inside a folded region has no
\* warning.
NoWarningInsideFold(lines) ==
  \A m \in Warned(lines) : \A f \in NonnullFolds(lines) : ~(f.first < m /\ m < f.last)

=============================================================================
