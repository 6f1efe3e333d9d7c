------------------------------ MODULE Sidebar ------------------------------
(***************************************************************************)
(* The outline in the sidebar of the VS Code extension (treeviews.ts): the *)
(* outline the server makes of a text, grouped by "#pragma mark".          *)
(***************************************************************************)
EXTENDS Outline

\* range.start.line of a symbol: its head, or where the fallback's match begins.
StartLine(lines, tree, symbol) ==
  IF FallsBack(lines, tree) THEN MatchLine(lines, symbol.head) ELSE symbol.head

\* parsePragmaMarks: "#pragma", blanks, "mark" and a label, from the first column on.
Marks(lines) == At(lines, {"pragma", "wide"})

\* Mutant of NearestMark: the search begins at the first mark.
FirstMark(lines, i) ==
  LET before == {m \in Marks(lines) : m <= i}
  IN IF before = {} THEN 0 ELSE Min(before)

\* The loop over the marks: the last one at or above a line, 0 for none.
NearestMark(lines, i) ==
  LET before == {m \in Marks(lines) : m <= i}
  IN IF before = {} THEN 0 ELSE Max(before)

\* buildGroupedOutline: a flat list without marks, else the symbols above the first mark and the
\* marks. Only the roots of the outline are grouped; a member stays under its class.
GroupedOutline(lines, tree) ==
  LET outline == DocumentSymbols(lines, tree)
      under(m) == {i \in DOMAIN outline : NearestMark(lines, StartLine(lines, tree, outline[i])) = m}
      group(m) == [mark |-> m, symbols |-> Keep(outline, under(m))]
      marks == <<0>> \o InOrder(Marks(lines))
  IN IF Len(marks) = 1 THEN <<[mark |-> 0, symbols |-> outline]>>
     ELSE [k \in DOMAIN marks |-> group(marks[k])]

-----------------------------------------------------------------------------
(* Properties of a text *)

\* The grouped outline shows what the outline has, nothing twice, and a symbol inside a section
\* that the server folds is shown under that section's mark, unless the two tell marks apart:
\* of a section whose mark the sidebar does not take it is under a mark above, and where the
\* sidebar takes one inside the section, under that.
SectionsMatch(lines, sections) ==
  \A tree \in Trees(lines) :
    LET groups == GroupedOutline(lines, tree)
        shown == FlattenSeq([k \in DOMAIN groups |-> groups[k].symbols])
        outline == DocumentSymbols(lines, tree)
    IN  /\ Len(shown) = Len(outline) /\ ToSet(shown) = ToSet(outline)
        /\ \A k \in DOMAIN groups : \A s \in ToSet(groups[k].symbols) :
             \A f \in sections :
               LET mark == groups[k].mark
               IN f.first < s.head /\ s.head <= f.last =>
                    \/ mark = f.first
                    \/ mark < f.first /\ lines[f.first].kind = "rule"
                    \/ f.first < mark /\ mark <= s.head /\ lines[mark].kind = "wide"

=============================================================================
