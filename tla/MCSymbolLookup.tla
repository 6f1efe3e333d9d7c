--------------------------- MODULE MCSymbolLookup ---------------------------
(* Instance of SymbolLookup: a symbol alone, messages alone, nested, with a call as argument, *)
(* one after another, and one broken by a parenthesis too many. *)
EXTENDS SymbolLookup

Token(word) ==
  IF word \in {"[", "]", "(", ")", "=", ":", ","} THEN [word |-> word, kind |-> word]
  ELSE [word |-> word, kind |-> "identifier"]

Tokens(words) == [i \in DOMAIN words |-> Token(words[i])]

SomeStatements ==
  {Tokens(s) : s \in {
     <<"A">>,
     <<"[", "A", "be", "]">>,
     <<"A", "v", "=", "[", "A", "be", "]">>,
     <<"[", "[", "A", "be", "]", "co", "]">>,
     <<"[", "A", "be", ":", "F", "(", "A", ")", "]">>,
     <<"[", "A", "be", "]", ",", "[", "A", "co", "]">>,
     <<"[", "A", "co", ")", "be", "]">>}}

TwoClasses == [A |-> <<"begin", "be">>, B |-> <<"co">>]
WhatTheyReturn == [be |-> "B", begin |-> "A", co |-> "A"]
OnePrefix == {<<"be", "begin">>}
=============================================================================
