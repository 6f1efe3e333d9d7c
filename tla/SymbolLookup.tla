---------------------------- MODULE SymbolLookup ----------------------------
(***************************************************************************)
(* Go to definition, go to declaration and hover (goto_def.rs, hover.rs in *)
(* objc-semantic).  Where libclang gives only the statement that holds the *)
(* click, a chain of strategies looks for the symbol: each answers or      *)
(* leaves it to the next, and some end the search.                         *)
(*                                                                         *)
(* A statement is a sequence of tokens of one line.  What libclang makes   *)
(* of it is external and left open: which of its expressions the AST       *)
(* shows, which of them and of the tokens it binds to a declaration, and   *)
(* which declarations have a place in a file (none has in a module cache). *)
(***************************************************************************)
EXTENDS Integers, Sequences, FiniteSets, FiniteSetsExt

CONSTANTS
  Statements,   \* sequences of tokens [word, kind], kind "identifier" or the punctuation itself
  Methods,      \* classes, to the names of their methods in order
  Returns,      \* methods' names, to the class of what they return
  NamePrefixes, \* pairs of a word and a longer name that begins with it
  MaxUnplaced,  \* bound: places that are missing
  None,
  Pending       \* no answer yet

ASSUME SequencesAssumption ==
  /\ \A s \in Statements : Len(s) \in Nat /\ DOMAIN s = 1..Len(s)
  /\ \A c \in DOMAIN Methods : Len(Methods[c]) \in Nat /\ DOMAIN Methods[c] = 1..Len(Methods[c])

\* A declaration is not taken for none.
ASSUME NoneAssumption ==
  \A s \in Statements : \A i \in DOMAIN s : [class |-> None, word |-> s[i].word] # None

VARIABLES
  tokens,       \* the statement under the click
  tight,        \* it is written without spaces where none is needed
  click,        \* token clicked, and whether on its first column
  cursor,       \* what clang_getCursor gives, or the kind of what it cannot resolve
  exposed,      \* expressions that visiting the children of the cursor shows
  bound,        \* those that refer to a declaration
  annotated,    \* tokens whose annotation refers to a declaration
  elsewhere,    \* words so annotated on other lines of the file
  placed,       \* <<declaration, "definition" or "declaration">> with a place in a file
  request,      \* "definition", "declaration" or "hover"
  answer        \* Pending; None, or a declaration and its place; or what the hover shows

input == <<tokens, tight, click, cursor, exposed, bound, annotated, elsewhere, placed, request>>
vars == <<tokens, tight, click, cursor, exposed, bound, annotated, elsewhere, placed, request,
          answer>>

-----------------------------------------------------------------------------
(* Statements: external *)

Indices == DOMAIN tokens
IsIdentifier(i) == tokens[i].kind = "identifier"
Identifiers == {i \in Indices : IsIdentifier(i)}
Word(i) == tokens[i].word

\* The bracket that closes the one at i.
Closing(i, open, close) ==
  Min({j \in Indices : j > i /\
        Cardinality({k \in i..j : tokens[k].kind = open})
          = Cardinality({k \in i..j : tokens[k].kind = close})})

\* Columns: a token has two, and one is left out before it: two identifiers are set apart,
\* others if there are spaces.
Spaces(i) == {j \in 2..i : ~tight \/ (IsIdentifier(j - 1) /\ IsIdentifier(j))}
From(i) == 2 * i - 1 + Cardinality(Spaces(i))
To(i) == From(i) + 2
Column == From(click.token) + (IF click.first THEN 0 ELSE 1)

\* [receiver selector ...]: the selector is the identifier after the receiver.
Selector(i) == (IF tokens[i + 1].kind = "[" THEN Closing(i + 1, "[", "]") ELSE i + 1) + 1

Symbol(word) == [class |-> None, word |-> word]

Messages ==
  {[first |-> i, last |-> Closing(i, "[", "]"), message |-> TRUE,
    decl |-> [word |-> Word(Selector(i)),
              class |-> IF tokens[i + 1].kind = "[" THEN Returns[Word(Selector(i + 1))]
                        ELSE Word(i + 1)]] :
     i \in {j \in Indices : tokens[j].kind = "["}}

Calls ==
  {[first |-> i - 1, last |-> Closing(i, "(", ")"), message |-> FALSE,
    decl |-> Symbol(Word(i - 1))] :
     i \in {j \in Indices : tokens[j].kind = "("}}

\* The name a variable is declared by, as in "A v = ...". Its cursor ends with the name or with
\* the initializer, if that is kept.
DeclaredNames ==
  {i \in {2} : Len(tokens) > 2 /\ IsIdentifier(1) /\ IsIdentifier(2) /\ tokens[3].kind = "="}

Variables ==
  {[first |-> 1, last |-> last, message |-> FALSE, decl |-> Symbol(Word(i))] :
     i \in DeclaredNames, last \in {2, Len(tokens)}}

\* References to classes, functions and variables: every other word that is no selector.
Names ==
  {[first |-> i, last |-> i, message |-> FALSE, decl |-> Symbol(Word(i))] :
     i \in {j \in Identifiers \ DeclaredNames : \A m \in Messages : j # Selector(m.first)}}

Expressions == Messages \cup Calls \cup Variables \cup Names

\* What a token means: a selector its message's method, another word its own declaration.
Meaning(i) ==
  IF \E m \in Messages : Selector(m.first) = i
    THEN (CHOOSE m \in Messages : Selector(m.first) = i).decl
    ELSE Symbol(Word(i))

\* Kinds of cursors as libclang numbers them; names and variables have others.
KindOf == [call |-> 103, message |-> 104]
KindOfExpression(e) == IF e.message THEN KindOf.message ELSE KindOf.call

-----------------------------------------------------------------------------
(* Shared by the strategies *)

\* cursor_to_location: where a declaration is.
At(decl, what) == IF <<decl, what>> \in placed THEN [decl |-> decl, at |-> what] ELSE None

\* Of several results the first there is.
FirstOf(results) ==
  LET some == {k \in DOMAIN results : results[k] # None}
  IN  IF some = {} THEN None ELSE results[Min(some)]

\* The definition of a declaration if it has a place, or else the declaration.
Place(decl) == FirstOf(<<At(decl, "definition"), At(decl, "declaration")>>)

\* A range holds the column of the click, the column after its end included.
Holds(first, last) == From(first) <= Column /\ Column <= To(last)
Around(S) == {e \in S : Holds(e.first, e.last)}

\* Expressions are met parents before children, and left before right.
Before(d, e) == d.first < e.first \/ (d.first = e.first /\ d.last > e.last)
FirstMet(S) == CHOOSE d \in S : \A e \in S : e = d \/ Before(d, e)
LastMet(S) == CHOOSE d \in S : \A e \in S : e = d \/ Before(e, d)

\* Mutant of Target: the first token at the click, whatever its kind.
TargetOfAnyKind ==
  LET at == {i \in Indices : Holds(i, i)}
  IN  IF at = {} \/ ~IsIdentifier(Min(at)) THEN 0 ELSE Min(at)

\* The first identifier at the click: the token before it ends in the same column.
Target ==
  LET at == {i \in Identifiers : Holds(i, i)}
  IN  IF at = {} THEN 0 ELSE Min(at)

\* The bracket before the target that is not closed before it, 0 for none.
OpenBracket(target) ==
  LET open == {i \in 1..(target - 1) : tokens[i].kind = "[" /\ Closing(i, "[", "]") > target}
  IN  IF open = {} THEN 0 ELSE Max(open)

\* Parentheses open between the bracket and the target, less than none in a broken statement.
ParenDepth(bracket, target) ==
  LET between == {i \in Indices : bracket <= i /\ i < target}
  IN  Cardinality({i \in between : tokens[i].kind = "("})
        - Cardinality({i \in between : tokens[i].kind = ")"})

\* The first method with the target's word or a name that begins with it, in the class that is
\* the first identifier after the bracket.
ReceiverMethod(target) ==
  LET bracket == OpenBracket(target)
      receiver == Word(Min({i \in Identifiers : i > bracket}))
      known == \E i \in annotated : Word(i) = receiver /\ Meaning(i) = Symbol(receiver)
      methods == Methods[receiver]
      named == {k \in DOMAIN methods :
                  methods[k] = Word(target) \/ <<Word(target), methods[k]>> \in NamePrefixes}
  IN  IF \/ bracket = 0
         \/ ~known \/ receiver \notin DOMAIN Methods \/ named = {}
        THEN None ELSE [class |-> receiver, word |-> methods[Min(named)]]

\* The target's word, when it is on another line.
OnOtherLine(target) == IF Word(target) \in elsewhere THEN Symbol(Word(target)) ELSE None

-----------------------------------------------------------------------------
(* Go to definition and declaration *)

\* Mutant of ChildWalk: the first expression found is kept, not the last.
ChildWalkFirst ==
  IF Around(bound) = {} THEN None ELSE Place(FirstMet(Around(bound)).decl)

\* Strategy 1: the last expression met that contains the click and is bound.
ChildWalk ==
  IF Around(bound) = {} THEN None ELSE Place(LastMet(Around(bound)).decl)

\* Strategy 2: a token of the same word that is bound.
Twin(target) ==
  FirstOf([i \in Indices |->
             IF i \in annotated /\ Word(i) = Word(target) THEN Place(Meaning(i)) ELSE None])

\* Strategy 3: the first message around the click, or else the first of all. A message is looked
\* for under the kind 233, which is not libclang's number of it.
MessageWalk ==
  LET messages == {e \in exposed : KindOfExpression(e) = 233}
      chosen == FirstMet(IF Around(messages) # {} THEN Around(messages) ELSE messages)
  IN  IF messages = {} \/ chosen \notin bound THEN None ELSE Place(chosen.decl)

\* Strategy 4: outside parentheses, and where none is closed too often.
ReceiverLookup(target) ==
  IF ParenDepth(OpenBracket(target), target) # 0 \/ ReceiverMethod(target) = None THEN None
  ELSE At(ReceiverMethod(target), "declaration")

\* Strategy 5.
WholeFile(target) ==
  IF Word(target) \in elsewhere THEN Place(Symbol(Word(target))) ELSE None

\* child_cursor_at_location: without an identifier at the click nothing after the walk is tried.
ChildCursorAtLocation ==
  IF ChildWalk # None THEN ChildWalk
  ELSE IF Target = 0 THEN None
  ELSE FirstOf(<<Twin(Target), MessageWalk, ReceiverLookup(Target), WholeFile(Target)>>)

\* definition_at: an included header, the symbol itself, or a look into the cursor.
DefinitionAt ==
  CASE cursor = "null" -> None
    [] cursor = "include" -> "header"
    [] cursor = "symbol" -> FirstOf(<<Place(Meaning(click.token)), ChildCursorAtLocation>>)
    [] OTHER -> ChildCursorAtLocation

\* declaration_at: the symbol itself or nothing.
DeclarationAt == IF cursor = "symbol" THEN At(Meaning(click.token), "declaration") ELSE None

-----------------------------------------------------------------------------
(* Hover *)

Shows(text, decl) == [text |-> text, decl |-> decl]
Nothing == Shows("nothing", None)

\* find_msg_expr_ref: the first bound message around the click, under the kind 233.
HoverMessage ==
  LET found == Around({e \in bound : KindOfExpression(e) = 233})
  IN  IF found = {} THEN None ELSE FirstMet(found).decl

\* find_method_by_token_scan: outside parentheses.
HoverReceiver(target) ==
  IF ParenDepth(OpenBracket(target), target) > 0 THEN None ELSE ReceiverMethod(target)

\* What a declaration statement is resolved to, None if no strategy finds anything.
HoverStatement ==
  IF HoverMessage # None THEN HoverMessage
  ELSE IF Target = 0 THEN None
  ELSE FirstOf(<<HoverReceiver(Target), OnOtherLine(Target)>>)

\* The name under the mouse with a remark, nothing where there is no name.
Remark(text) == IF Target = 0 THEN Nothing ELSE Shows(text, Symbol(Word(Target)))

\* hover_at: kinds 100 to 110, meant to be the preprocessor's, are expressions'.
HoverAt ==
  CASE cursor = "null" -> Nothing
    [] cursor = "symbol" -> Shows("declaration", Meaning(click.token))
    [] cursor = "statement" /\ HoverStatement # None -> Shows("declaration", HoverStatement)
    [] cursor = "statement" /\ HoverStatement = None -> Remark("no definition found")
    [] cursor = "call" -> Remark("macro (no definition found)")
    [] cursor = "message" -> Nothing
    [] cursor = "include" -> Shows("symbol", None)

-----------------------------------------------------------------------------
Declarations == {Meaning(i) : i \in Identifiers}
                  \cup UNION {{[class |-> c, word |-> Methods[c][k]] : k \in DOMAIN Methods[c]} :
                               c \in DOMAIN Methods}

Places == Declarations \X {"definition", "declaration"}

\* Brackets pair up: a selector is a word inside its message, a function's name is not one, and
\* an expression ends inside every expression it begins in.
WellFormed ==
  /\ \A m \in Messages :
       Selector(m.first) \in Identifiers /\ m.first < Selector(m.first) /\ Selector(m.first) < m.last
  /\ \A e \in Expressions : e.first \in Indices /\ e.last \in Indices
  /\ \A c \in Calls : c.first \in Identifiers /\ \A m \in Messages : c.first # Selector(m.first)
  /\ \A d, e \in Expressions : e.first \in d.first..d.last => e.last <= d.last

\* Messages and calls that are the whole statement: their cursor is the expression.
WholeExpressions == {e \in Messages \cup Calls : e.first = 1 /\ e.last = Len(tokens)}

Inside ==
  IF cursor = "statement" THEN Expressions
  ELSE {e \in Expressions : cursor # "null" /\ ~(e.first = 1 /\ e.last = Len(tokens))}

\* A click on a token of a statement and what libclang may make of it. A resolved symbol is a
\* token of its own; an expression that is not resolved is all there is to look into. What is
\* shown but bound to nothing matters only when it is a message. The cursor of a word is the one
\* its token is annotated with; a token may be annotated though no cursor of it is shown.
Init ==
  /\ tokens \in Statements /\ WellFormed
  /\ tight \in BOOLEAN
  /\ click \in [token : Identifiers, first : BOOLEAN]
  /\ cursor \in {"null", "include", "symbol", "statement"}
                   \cup {IF e.message THEN "message" ELSE "call" : e \in WholeExpressions}
  /\ cursor \in {"include", "symbol"} => Len(tokens) = 1
  /\ bound \in SUBSET Inside
  /\ \A d, e \in bound \cap Variables : d = e
  /\ \E unbound \in SUBSET ((Messages \cap Inside) \ bound) : exposed = bound \cup unbound
  /\ annotated \in SUBSET Identifiers
  /\ \A e \in bound \cap Names : e.first \in annotated
  /\ elsewhere \in SUBSET {Word(click.token)}
  /\ \E k \in 0..MaxUnplaced : \E lost \in kSubset(k, Places) : placed = Places \ lost
  /\ request \in {"definition", "declaration", "hover"}
  /\ answer = Pending

Definition ==
  /\ answer = Pending /\ request = "definition"
  /\ answer' = DefinitionAt
  /\ UNCHANGED input

Declaration ==
  /\ answer = Pending /\ request = "declaration"
  /\ answer' = DeclarationAt
  /\ UNCHANGED input

Hover ==
  /\ answer = Pending /\ request = "hover"
  /\ answer' = HoverAt
  /\ UNCHANGED input

Next == Definition \/ Declaration \/ Hover

Spec == Init /\ [][Next]_vars

-----------------------------------------------------------------------------
(* Properties *)

InStatement == cursor = "statement" /\ answer # Pending /\ request = "definition"
HoverInStatement == cursor = "statement" /\ answer # Pending /\ request = "hover"

\* A word that the file has bound anywhere, in the statement or on another line, is found, although
\* every strategy may fail for reasons of its own (goto_def.rs:247-266, hover.rs:50-58): none keeps
\* the next from being tried. The hover has no strategy for a twin in the same statement.
AnswerIfKnown ==
  /\ /\ InStatement
     /\ \/ \E i \in annotated : Word(i) = Word(click.token) /\ Place(Meaning(i)) # None
        \/ Word(click.token) \in elsewhere /\ Place(Symbol(Word(click.token))) # None
     => answer # None
  /\ HoverInStatement /\ Word(click.token) \in elsewhere
     => answer.text = "declaration"

\* The selector of a message that libclang bound leads to that message's method, not to one of
\* a message around it or inside it ("the deepest descendant", goto_def.rs:106). On the first
\* column of a selector that follows a bracket without space the code takes what is inside.
RightMethod ==
  \A m \in Messages \cap bound :
    /\ InStatement
    /\ click.token = Selector(m.first) /\ ~(tight /\ click.first)
    /\ Place(m.decl) # None
    => answer = Place(m.decl)

\* "Walk all descendants of `container` to find the first `ObjCMessageExpr` (kind=233) whose source
\* extent contains `location`. Returns the cursor obtained by calling `clang_getCursorReferenced()`
\* on the message expression" (hover.rs:300-303). The search looks for kind 233, which is not
\* libclang's number of a message, and finds none.
\* Not kept: SymbolHoverMessage.cfg has the counterexample.
HoverInMessage ==
  HoverInStatement /\ Around(Messages \cap bound) # {}
  => answer = Shows("declaration", FirstMet(Around(Messages \cap bound)).decl)
=============================================================================
