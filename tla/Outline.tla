------------------------------ MODULE Outline ------------------------------
(***************************************************************************)
(* objc-syntax/src/symbols.rs: the outline of a file, which is also what   *)
(* the symbol store indexes.  It is built from tree-sitter's tree (the     *)
(* blocks in it), or, when the text has errors and the tree has nothing,   *)
(* by a second extractor that looks for patterns in the lines.  A symbol is named by   *)
(* the line of its head, a member by its line; positions are left out.     *)
(***************************************************************************)
EXTENDS ObjcText, SequencesExt

\* DocumentSymbol; category is empty in "Foo" and "Foo ()", set in "Foo (Cat)".
SymbolKind(kind) ==
  CASE kind \in {"category", "extension"} -> "MODULE"
    [] kind \in {"protocol", "forward"}    -> "INTERFACE"
    [] OTHER                              -> "CLASS"

Symbol(lines, head, children) ==
  [kind |-> SymbolKind(lines[head].kind), class |-> lines[head].class,
   category |-> IF lines[head].kind = "category" THEN "Cat" ELSE "",
   head |-> head, children |-> children]

\* The members of a set of lines or positions, the smallest first.
InOrder(S) ==
  [i \in 1..Cardinality(S) |-> CHOOSE x \in S : Cardinality({y \in S : y < x}) = i - 1]

\* What a sequence has at some of its positions.
Keep(seq, positions) ==
  LET at == InOrder(positions) IN [k \in DOMAIN at |-> seq[at[k]]]

\* collect_symbols, in the order of the tree.
CollectSymbols(lines, tree) ==
  LET heads == InOrder({b[1] : b \in tree})
      end(s) == CHOOSE e \in DOMAIN lines : <<s, e>> \in tree
  IN [i \in DOMAIN heads |->
        Symbol(lines, heads[i],
               InOrder({m \in At(lines, MemberKinds) : heads[i] < m /\ m < end(heads[i])}))]

IsCategory(symbol) == symbol.kind = "MODULE" /\ symbol.category # ""

\* The classes that a category may be about.
Bases(rest, cat) == {i \in DOMAIN rest : rest[i].kind = "CLASS" /\ rest[i].class = cat.class}

\* Mutant of PlaceCategory: a category without a class is dropped.
PlaceCategoryOrNot(acc, cat) ==
  IF Bases(acc.rest, cat) = {} THEN acc
  ELSE [acc EXCEPT !.rest[Min(Bases(acc.rest, cat))].children = @ \o cat.children]

PlaceCategory(acc, cat) ==
  IF Bases(acc.rest, cat) = {} THEN [acc EXCEPT !.orphans = Append(@, cat)]
  ELSE [acc EXCEPT !.rest[Min(Bases(acc.rest, cat))].children = @ \o cat.children]

\* aggregate_categories: the members of a category go to the first class of its name; a
\* category without one follows at the end.
AggregateCategories(symbols) ==
  LET categories == {i \in DOMAIN symbols : IsCategory(symbols[i])}
      cats == Keep(symbols, categories)
      placed[k \in 0..Len(cats)] ==
        IF k = 0 THEN [rest |-> Keep(symbols, (DOMAIN symbols) \ categories), orphans |-> << >>]
        ELSE PlaceCategory(placed[k - 1], cats[k])
  IN placed[Len(cats)].rest \o placed[Len(cats)].orphans

\* `^\s*` also matches line breaks, so a match begins at the blank lines before it.
MatchLine(lines, i) == CHOOSE j \in 1..i :
  /\ \A k \in j..(i - 1) : lines[k].kind = "blank"
  /\ j > 1 => lines[j - 1].kind # "blank"

\* What the patterns take for the start of a block: re_protocol matches "@protocol C;" too.
StartKinds == HeadKinds \cup {"forward"}

\* Mutant of FallbackBlocks: a start takes the last @end of the file.
FallbackBlocksToLastEnd(lines) ==
  LET starts == InOrder(At(lines, StartKinds))
      ends == {MatchLine(lines, e) : e \in At(lines, {"end"})}
      end(s) == IF \E e \in ends : e > MatchLine(lines, s) THEN Max(ends) ELSE Len(lines)
  IN [i \in DOMAIN starts |-> <<starts[i], end(starts[i])>>]

\* fallback_document_symbols, phase 1: every start, in order, takes the first @end after it
\* that is left, or runs to the last line.
EndOf(lines, ends, start) ==
  LET after == {e \in ends : e > MatchLine(lines, start)}
  IN IF after = {} THEN Len(lines) ELSE Min(after)

FallbackBlocks(lines) ==
  LET starts == InOrder(At(lines, StartKinds))
      ends == {MatchLine(lines, e) : e \in At(lines, {"end"})}
      left[i \in 0..Len(starts)] ==
        IF i = 0 THEN ends ELSE left[i - 1] \ {EndOf(lines, left[i - 1], starts[i])}
  IN [i \in DOMAIN starts |-> <<starts[i], EndOf(lines, left[i - 1], starts[i])>>]

\* Phase 2: a block has the members whose match begins between its first and last line.
FallbackSymbols(lines) ==
  LET blocks == FallbackBlocks(lines)
      members(b) == {m \in At(lines, MemberKinds) :
                       MatchLine(lines, b[1]) < MatchLine(lines, m) /\ MatchLine(lines, m) < b[2]}
  IN [i \in DOMAIN blocks |-> Symbol(lines, blocks[i][1], InOrder(members(blocks[i])))]

\* document_symbols: the fallback is for a text with errors of whose tree nothing comes.
FallsBack(lines, tree) ==
  AggregateCategories(CollectSymbols(lines, tree)) = << >> /\ ~Parses(lines)

DocumentSymbols(lines, tree) ==
  AggregateCategories(
    IF FallsBack(lines, tree) THEN FallbackSymbols(lines) ELSE CollectSymbols(lines, tree))

\* flat_symbols: every symbol and then its children.
FlatSymbols(lines, tree) ==
  LET outline == DocumentSymbols(lines, tree)
  IN FlattenSeq([i \in DOMAIN outline |-> <<outline[i].head>> \o outline[i].children])

-----------------------------------------------------------------------------
(* Properties of a text *)

Times(x, seq) == Cardinality({i \in DOMAIN seq : seq[i] = x})
BlockOf(lines, m) == CHOOSE b \in Blocks(lines) : b[1] < m /\ m < b[2]

\* Aggregation moves members and loses none: each is indexed once and shown under a symbol
\* of its class, and a category has a symbol of its own only when its class has none.
OutlineIsComplete(lines) ==
  Parses(lines) =>
    LET outline == DocumentSymbols(lines, Blocks(lines))
        flat == FlatSymbols(lines, Blocks(lines))
    IN
      /\ \A m \in At(lines, MemberKinds) :
           /\ Times(m, flat) = 1
           /\ \E i \in DOMAIN outline :
                /\ outline[i].class = lines[BlockOf(lines, m)[1]].class
                /\ m \in ToSet(outline[i].children)
      /\ \A h \in At(lines, HeadKinds) :
           Times(h, flat) = 0 <=>
             /\ lines[h].kind = "category"
             /\ \E g \in At(lines, {"interface", "implementation"}) : lines[g].class = lines[h].class

\* Two extractors of the same outline: where heads and ends pair up, the patterns find the same
\* blocks with the same members, blank lines or not, if there is no forward declaration; with
\* one they find those blocks too, each with its members at least.
ExtractorsAgree(lines) ==
  LET found == FallbackSymbols(lines)
      collected == CollectSymbols(lines, Blocks(lines))
  IN Paired(lines) =>
       /\ At(lines, {"forward"}) = {} => found = collected
       /\ \A i \in DOMAIN collected : \E j \in DOMAIN found :
            /\ found[j].head = collected[i].head
            /\ ToSet(collected[i].children) \subseteq ToSet(found[j].children)

\* What symbols.rs:572-573 says of the patterns, of a text they are for (with a member astray): a
\* member is nested in the block that encloses it.
NestsInEnclosing(lines) ==
  LET found == FallbackSymbols(lines)
      astray == {m \in At(lines, MemberKinds) : ~Inside(lines, m)}
      inward == {i \in At(lines, {"forward"}) : Inside(lines, i)}
  IN  Paired(lines) /\ astray # {} /\ inward = {} =>
        \A i \in DOMAIN found : \A m \in ToSet(found[i].children) : \A b \in Blocks(lines) :
          b[1] < m /\ m < b[2] => found[i].head = b[1]

=============================================================================
