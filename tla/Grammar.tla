------------------------------ MODULE Grammar ------------------------------
(***************************************************************************)
(* What the parser promises: the grammar that the comments of parser.go    *)
(* quote from the GraphQL specification (June 2018), as a context-free     *)
(* grammar and the set of places where a sentence of a symbol can end.     *)
(* Nothing here is taken from the parser's code.                           *)
(***************************************************************************)
EXTENDS Tokens, TLC

\* Terminals that stand for several tokens.
Class == [Name |-> Names,
          OperationType |-> OperationTypes,
          FragmentName |-> Names \ {"on"},
          EnumValue |-> Names \ {"true", "false", "null"},
          BooleanValue |-> {"true", "false"}, NullValue |-> {"null"},
          StringValue |-> {"String", "BlockString"}]

Optional(symbol) == {<<>>, <<symbol>>}

\* Symbols that end in "?" may be empty; const symbols have no variables below them.
Productions ==
  [Document |-> {<<"Definition">>, <<"Definition", "Document">>},
   Definition |-> {<<"SelectionSet">>,
                   <<"OperationType", "Name?", "VariableDefinitions?", "Directives?", "SelectionSet">>,
                   <<"fragment", "FragmentName", "FragmentVariables?", "TypeCondition",
                     "Directives?", "SelectionSet">>},
   TypeCondition |-> {<<"on", "Name">>},
   SelectionSet |-> {<<"{", "Selections", "}">>},
   Selections |-> {<<"Selection">>, <<"Selection", "Selections">>},
   Selection |-> {<<"Alias?", "Name", "Arguments?", "Directives?", "SelectionSet?">>,
                  <<"...", "FragmentName", "Directives?">>,
                  <<"...", "TypeCondition?", "Directives?", "SelectionSet">>},
   ArgumentList |-> {<<"Name", ":", "Value">>, <<"Name", ":", "Value", "ArgumentList">>},
   ConstArgumentList |-> {<<"Name", ":", "Const">>,
                          <<"Name", ":", "Const", "ConstArgumentList">>},
   Literal |-> {<<"Int">>, <<"Float">>, <<"StringValue">>, <<"BooleanValue">>, <<"NullValue">>,
                <<"EnumValue">>},
   Value |-> {<<"$", "Name">>, <<"Literal">>, <<"[", "Values?", "]">>, <<"{", "Fields?", "}">>},
   Const |-> {<<"Literal">>, <<"[", "Consts?", "]">>, <<"{", "ConstFields?", "}">>},
   VariableList |-> {<<"Variable">>, <<"Variable", "VariableList">>},
   Variable |-> {<<"$", "Name", ":", "Type", "Default?", "ConstDirectives?">>},
   Type |-> {<<"Name">>, <<"[", "Type", "]">>, <<"Name", "!">>, <<"[", "Type", "]", "!">>}]
  @@ ("Name?" :> Optional("Name"))
  @@ ("TypeCondition?" :> Optional("TypeCondition"))
  @@ ("SelectionSet?" :> Optional("SelectionSet"))
  @@ ("Alias?" :> {<<>>, <<"Name", ":">>})
  @@ ("Default?" :> {<<>>, <<"=", "Const">>})
  @@ ("Arguments?" :> {<<>>, <<"(", "ArgumentList", ")">>})
  @@ ("ConstArguments?" :> {<<>>, <<"(", "ConstArgumentList", ")">>})
  @@ ("VariableDefinitions?" :> {<<>>, <<"(", "VariableList", ")">>})
  @@ ("FragmentVariables?" :> {<<>>} \cup
        (IF ExperimentalFragmentVariables THEN {<<"(", "VariableList", ")">>} ELSE {}))
  @@ ("Directives?" :> {<<>>, <<"@", "Name", "Arguments?", "Directives?">>})
  @@ ("ConstDirectives?" :> {<<>>, <<"@", "Name", "ConstArguments?", "ConstDirectives?">>})
  @@ ("Values?" :> {<<>>, <<"Value", "Values?">>})
  @@ ("Consts?" :> {<<>>, <<"Const", "Consts?">>})
  @@ ("Fields?" :> {<<>>, <<"Name", ":", "Value", "Fields?">>})
  @@ ("ConstFields?" :> {<<>>, <<"Name", ":", "Const", "ConstFields?">>})

(***************************************************************************)
(* Ends(s, symbol, i): the places after the sentences of symbol that begin *)
(* at place i of s.  The place 0 says that one of them would go on after   *)
(* the end of s: s up to there is a viable prefix.                         *)
(***************************************************************************)
RECURSIVE Ends(_, _, _)
RECURSIVE EndsAll(_, _, _)
EndsAll(s, rhs, ends) ==
  IF rhs = <<>> THEN ends
  ELSE EndsAll(s, Tail(rhs),
         (ends \cap {0}) \cup UNION {Ends(s, Head(rhs), i) : i \in ends \ {0}})

Ends(s, symbol, i) ==
  IF symbol \in DOMAIN Productions
  THEN UNION {EndsAll(s, rhs, {i}) : rhs \in Productions[symbol]}
  ELSE LET class == IF symbol \in DOMAIN Class THEN Class[symbol] ELSE {symbol}
       IN  IF i > Len(s) THEN {0} ELSE IF s[i] \in class THEN {i + 1} ELSE {}

Sentence(s, symbol) == Len(s) + 1 \in Ends(s, symbol, 1)
ViablePrefix(s, symbol) == 0 \in Ends(s, symbol, 1) \/ Sentence(s, symbol)
=============================================================================
