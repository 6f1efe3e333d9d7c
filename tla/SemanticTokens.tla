--------------------------- MODULE SemanticTokens ---------------------------
(***************************************************************************)
(* objc-syntax/src/tokens.rs, the semantic tokens of a file: a walk of the *)
(* syntax tree, which comes upon the tokens in an order of its own, and    *)
(* the encoding of each as a distance from the one before it.  All tokens  *)
(* are on one line here, and lines and columns are numbered from 1.        *)
(***************************************************************************)
EXTENDS ObjcText, Integers, SequencesExt

\* The kinds of nodes that the grammar gives the field by which the walk asks for a name.
CONSTANT NodesWithField

Node(kind, line, from, children) ==
  [kind |-> kind, line |-> line, from |-> from, children |-> children, name |-> 0]

\* A node one of whose children has the name, if the grammar has the field; 0 is no child.
Named(kind, line, children, name) ==
  [kind |-> kind, line |-> line, from |-> 1, children |-> children,
   name |-> IF kind \in NodesWithField THEN name ELSE 0]

Leaf(kind, line, from) == Node(kind, line, from, << >>)

\* The nodes of a line: @interface C, - (T)m:(T)p, @property T p, #pragma, #import "f",
\* NS_ASSUME_..., T f(T p), @protocol C;, a comment with a macro in it.
Tree(lines, i) ==
  LET kind == lines[i].kind
      parameter(from) ==
        Named("parameter_declaration", i,
              <<Leaf("type_identifier", i, from), Leaf("identifier", i, from + 1)>>, 2)
  IN CASE kind \in HeadKinds ->
            Named("class_interface", i, <<Leaf("@interface", i, 1), Leaf("identifier", i, 2)>>, 2)
       [] kind = "end" -> Leaf("@end", i, 1)
       [] kind = "method" ->
            Named("method_declaration", i,
                  <<Leaf("type_identifier", i, 2), Leaf("identifier", i, 3), parameter(4)>>, 2)
       [] kind = "property" ->
            Named("property_declaration", i,
                  <<Leaf("@property", i, 1), Leaf("type_identifier", i, 2),
                    Leaf("identifier", i, 3)>>, 3)
       [] kind = "forward" ->
            Node("protocol_forward_declaration", i, 1,
                 <<Leaf("@protocol", i, 1), Leaf("identifier", i, 2)>>)
       [] kind \in {"pragma", "rule", "wide"} ->
            Named("preproc_call", i, <<Leaf("preproc_directive", i, 1)>>, 1)
       [] kind = "import" -> Node("preproc_include", i, 1, <<Leaf("string_literal", i, 2)>>)
       [] kind \in {"begin", "finish"} -> Leaf("identifier", i, 1)
       [] kind \in {"beginMention", "finishMention"} -> Leaf("comment", i, 1)
       [] kind = "text" ->
            Node("declaration", i, 1,
                 <<Leaf("type_identifier", i, 1),
                   Named("function_declarator", i, <<Leaf("identifier", i, 2), parameter(3)>>, 1)>>)
       [] kind = "blank" -> Node("blank", i, 1, << >>)

\* Lines that belong to no well-formed block are errors of the tree, and forward declarations
\* inside one.
Errors(lines) ==
  LET blocks == Blocks(lines)
  IN  {i \in At(lines, HeadKinds \cup {"end"}) : ~\E b \in blocks : i \in {b[1], b[2]}}
        \cup {i \in At(lines, MemberKinds) : ~Inside(lines, i)}
        \cup {i \in At(lines, {"forward"}) : Inside(lines, i)}

SyntaxTree(lines) ==
  LET errors == Errors(lines)
  IN  Node("translation_unit", 1, 1,
           [i \in DOMAIN lines |->
              IF i \in errors THEN Node("ERROR", i, 1, <<Tree(lines, i)>>) ELSE Tree(lines, i)])

-----------------------------------------------------------------------------

\* Nodes that give their name a role and are walked on, and nodes that are tokens.
RoleOfName ==
  [class_interface |-> "namespace", method_declaration |-> "method",
   parameter_declaration |-> "parameter", property_declaration |-> "property",
   function_declarator |-> "function", preproc_call |-> "keyword"]

RoleOfNode ==
  [kind \in {"type_identifier", "string_literal", "identifier", "comment",
            "@interface", "@protocol", "@end", "@property"} |->
     CASE kind = "type_identifier" -> "type"
       [] kind = "comment"         -> "comment"
       [] kind = "string_literal"  -> "string"
       [] kind = "identifier"      -> "variable"
       [] OTHER                    -> "keyword"]

Push(node, role) == <<[line |-> node.line, from |-> node.from, role |-> role]>>

\* A node without the name it is asked for has no token of its own.
Own(node) ==
  CASE node.kind \in DOMAIN RoleOfName /\ node.name # 0 ->
         Push(node.children[node.name], RoleOfName[node.kind])
    [] node.kind \in DOMAIN RoleOfNode -> Push(node, RoleOfNode[node.kind])
    [] OTHER -> << >>

\* walk_node on one node: its own token and then its children, nothing of an error.
Visit(x) ==
  CASE "role" \in DOMAIN x -> <<x>>
    [] "role" \notin DOMAIN x /\ x.kind = "ERROR" -> << >>
    [] OTHER -> Own(x) \o x.children

\* The walk from the root, in the place of each node what it leads to; a parameter's name is at
\* the greatest depth.
Depth == 5

Walk(tree) ==
  LET walked[d \in 0..Depth] ==
        IF d = 0 THEN <<tree>>
        ELSE LET before == walked[d - 1]
             IN  FlattenSeq([i \in DOMAIN before |-> Visit(before[i])])
  IN  walked[Depth]

Before(s, t) == s.line < t.line \/ (s.line = t.line /\ s.from < t.from)

\* sort_by, which is stable: tokens of one place stay in the order of the walk.
Precedes(tokens, j, i) ==
  Before(tokens[j], tokens[i]) \/ (~Before(tokens[i], tokens[j]) /\ j < i)

Sorted(tokens) ==
  LET rank == [i \in DOMAIN tokens |-> Cardinality({j \in DOMAIN tokens : Precedes(tokens, j, i)})]
  IN [k \in DOMAIN tokens |-> tokens[CHOOSE i \in DOMAIN tokens : rank[i] = k - 1]]

\* Each token by its distance from the one before it.
Distances(tokens) ==
  [i \in DOMAIN tokens |->
     LET t == tokens[i]
         prev == IF i = 1 THEN [line |-> 0, from |-> 0] ELSE tokens[i - 1]
     IN  [line |-> t.line - prev.line,
          start |-> IF t.line = prev.line THEN t.from - prev.from ELSE t.from,
          role |-> t.role]]

\* Mutant of Encode: the order of the walk is taken for that of the text.
EncodeAsWalked(tokens) == Distances(tokens)

Encode(tokens) == Distances(Sorted(tokens))

SemanticTokensFull(lines) == Encode(Walk(SyntaxTree(lines)))

-----------------------------------------------------------------------------

\* What the editor makes of it.
DecodeNext(prev, e) ==
  [line |-> prev.line + e.line, role |-> e.role,
   from |-> IF e.line = 0 THEN prev.from + e.start ELSE e.start]

Decode(encoded) ==
  LET decoded[i \in 0..Len(encoded)] ==
        IF i = 0 THEN [line |-> 0, from |-> 0, role |-> ""] ELSE DecodeNext(decoded[i - 1], encoded[i])
  IN [i \in DOMAIN encoded |-> decoded[i]]

\* No distance is negative (they are unsigned), the editor gets back every token of the walk and
\* no other, and where a name is emitted twice, by its parent and as an identifier, its role
\* as a name comes first.
TokensDecodeInOrder(lines) ==
  LET walked == Walk(SyntaxTree(lines))
      encoded == Encode(walked)
      decoded == Decode(encoded)
  IN  /\ \A i \in DOMAIN encoded : encoded[i].line >= 0 /\ encoded[i].start >= 0
      /\ Len(decoded) = Len(walked) /\ ToSet(decoded) = ToSet(walked)
      /\ \A i \in 2..Len(decoded) :
           ~Before(decoded[i - 1], decoded[i]) => decoded[i - 1].role # "variable"
=============================================================================
