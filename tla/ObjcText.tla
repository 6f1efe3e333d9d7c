------------------------------ MODULE ObjcText ------------------------------
(***************************************************************************)
(* The text of a source file as the text-based features see it: a sequence *)
(* of lines, each of one kind, and what tree-sitter makes of them.         *)
(*                                                                         *)
(* A head opens a class-like block that an "@end" closes; "forward" is     *)
(* "@protocol C;", "method" the declaration of a method with a bare        *)
(* pointer.  "begin" and "finish" are NS_ASSUME_NONNULL_BEGIN and _END     *)
(* alone on a line, the mentions are lines that have the macro and more, a *)
(* comment after it or before it.  "pragma" is "#pragma mark Foo", "rule"  *)
(* a mark that treeviews.ts does not take (no label, or indented), "wide"  *)
(* one that folding.rs does not take (two blanks before "mark").           *)
(***************************************************************************)
EXTENDS Naturals, Sequences

CONSTANTS Classes, None

\* @interface C, @interface C (Cat), @interface C (), @implementation C, @protocol C.
HeadKinds == {"interface", "category", "extension", "implementation", "protocol"}
MemberKinds == {"method", "property"}
PlainKinds == MemberKinds \cup {"end", "import", "pragma", "rule", "wide", "begin", "finish",
                                "beginMention", "finishMention", "blank", "text"}

Line == [kind : HeadKinds \cup {"forward"}, class : Classes] \cup [kind : PlainKinds, class : {None}]

At(lines, kinds) == {i \in DOMAIN lines : lines[i].kind \in kinds}

\* The blocks tree-sitter finds where the text is well formed, as pairs of lines.
Blocks(lines) ==
  {b \in At(lines, HeadKinds) \X At(lines, {"end"}) :
     b[1] < b[2] /\ \A i \in (b[1] + 1)..(b[2] - 1) : lines[i].kind \notin HeadKinds \cup {"end"}}

\* Heads and ends pair up.
Paired(lines) ==
  /\ \A i \in At(lines, HeadKinds) : \E b \in Blocks(lines) : b[1] = i
  /\ \A i \in At(lines, {"end"}) : \E b \in Blocks(lines) : b[2] = i

Inside(lines, i) == \E b \in Blocks(lines) : b[1] < i /\ i < b[2]

\* No ERROR node: members are inside a block and forward declarations are not.
Parses(lines) ==
  /\ Paired(lines)
  /\ \A i \in At(lines, MemberKinds) : Inside(lines, i)
  /\ \A i \in At(lines, {"forward"}) : ~Inside(lines, i)

\* The trees a text may have, as the blocks in them: of a text with errors, any of its blocks.
Trees(lines) == IF Parses(lines) THEN {Blocks(lines)} ELSE SUBSET Blocks(lines)

=============================================================================
