-------------------------------- MODULE Ast --------------------------------
(***************************************************************************)
(* The syntax tree of graphql/ast: its nodes, the range of tokens a node   *)
(* reports, the generated visitor of graphql/ast/visitor and the printer.  *)
(*                                                                         *)
(* A token is named by its place in the token list t (1 is <SOF>); Prev    *)
(* and Next of a token are the places beside it, comment tokens included,  *)
(* because the lexer links comments into the list.  A node is a record:    *)
(*   kind - the Go type of the node,                                       *)
(*   tok  - the *token.Token it stores, 0 for nil,                         *)
(*   kids - the fields of the struct that hold nodes, in the order of      *)
(*          their declaration, Nil for an optional field that is absent;   *)
(*          for a list node its elements,                                  *)
(*   span - the tokens the parser consumed for it: a history variable that *)
(*          the code does not have and that only the properties read.      *)
(***************************************************************************)
EXTENDS Tokens

Nil == [kind |-> "Nil", tok |-> 0, kids |-> <<>>, span |-> <<0, 0>>]

IsNil(n) == n.kind = "Nil"

TypeKinds == {"NamedType", "ListType", "NonNullType"}

ValueKinds == {"Variable", "IntValue", "FloatValue", "StringValue", "BooleanValue",
               "NullValue", "EnumValue", "ListValue", "ObjectValue"}

SelectionKinds == {"Field", "FragmentSpread", "InlineFragment"}

\* Every type with TokenRange and GetDirectives is a Definition, selections too.
DefinitionKinds == SelectionKinds \cup {"OperationDefinition", "FragmentDefinition"}

ListKinds == {"Definitions", "VariableDefinitions", "SelectionSet", "Arguments",
              "Directives", "ListValue", "ObjectValue"}

NodeKinds == TypeKinds \cup ValueKinds \cup DefinitionKinds \cup ListKinds \cup
             {"Document", "Name", "Argument", "ObjectField", "VariableDefinition", "Directive"}

(***************************************************************************)
(* Token ranges                                                            *)
(***************************************************************************)
Final(s) == s[Len(s)]

\* The nodes that are one token, and report it as their range.
LeafKinds == {"Name", "IntValue", "FloatValue", "StringValue", "BooleanValue",
              "NullValue", "EnumValue"}

RECURSIVE FirstToken(_)
FirstToken(n) ==
  CASE n.kind \in LeafKinds -> n.tok
    [] n.kind \in {"Document", "Directives", "NamedType", "NonNullType",
                   "VariableDefinition", "Argument", "ObjectField"} -> FirstToken(n.kids[1])
    [] n.kind \in {"Definitions", "VariableDefinitions", "SelectionSet", "Arguments",
                   "Variable", "Directive", "FragmentDefinition", "FragmentSpread", "ListType"}
         -> PrevTok(FirstToken(n.kids[1]))
    [] n.kind \in {"ListValue", "ObjectValue"} ->
         IF n.kids = <<>> THEN n.tok ELSE PrevTok(FirstToken(n.kids[1]))
    [] n.kind = "OperationDefinition" -> IF n.tok = 0 THEN FirstToken(n.kids[4]) ELSE n.tok
    [] n.kind = "Field" -> FirstToken(IF IsNil(n.kids[1]) THEN n.kids[2] ELSE n.kids[1])
    [] n.kind = "InlineFragment" ->
         PrevTok(IF ~IsNil(n.kids[1]) THEN PrevTok(FirstToken(n.kids[1]))
              ELSE IF ~IsNil(n.kids[2]) THEN FirstToken(n.kids[2]) ELSE FirstToken(n.kids[3]))

\* The last token of the fields that are present: they are tried from the last one.
RECURSIVE LastToken(_)
LastToken(n) ==
  LET present == SelectSeq(n.kids, LAMBDA k : ~IsNil(k))
  IN  CASE n.kind \in LeafKinds -> n.tok
        [] n.kind \in {"Document", "Directives", "NamedType", "VariableDefinition", "Argument",
                       "ObjectField", "Variable", "Directive", "FragmentDefinition",
                       "FragmentSpread", "OperationDefinition", "Field", "InlineFragment"}
             -> LastToken(Final(present))
        [] n.kind \in {"Definitions", "VariableDefinitions", "SelectionSet", "Arguments",
                       "ListType", "NonNullType"} -> NextTok(LastToken(Final(n.kids)))
        [] n.kind = "ObjectValue" ->
             NextTok(IF n.kids = <<>> THEN n.tok ELSE LastToken(Final(n.kids)))
        [] n.kind = "ListValue" ->
             IF n.kids = <<>> THEN NextTok(n.tok) ELSE LastToken(Final(n.kids))

\* As if NonNullType.TokenRange forgot the "!" after the type.
TokenRangeNoBang(n) ==
  <<FirstToken(n), LastToken(IF n.kind = "NonNullType" THEN n.kids[1] ELSE n)>>

TokenRange(n) == <<FirstToken(n), LastToken(n)>>

(***************************************************************************)
(* The visitor.  A visitor holds an action for some kinds of nodes; the    *)
(* model's action answers SkipSubTree, Break or Continue by the node's     *)
(* kind.  A node is named by its path: the places of the fields that lead  *)
(* to it.                                                                  *)
(***************************************************************************)

\* The kinds that each New*Visitor of an abstract node registers its action for.
PossibleTypes == [Node |-> NodeKinds, Type |-> TypeKinds, Value |-> ValueKinds,
                  Definition |-> DefinitionKinds, Selection |-> SelectionKinds]

NewVisitor(node, skip, break) ==
  [on |-> IF node \in DOMAIN PossibleTypes THEN PossibleTypes[node] ELSE {node},
   skip |-> skip, break |-> break]

\* Visit<Kind>: the action's result, Continue when the visitor has none.
Visit(v, n) == IF n.kind \notin v.on THEN "Continue"
               ELSE IF n.kind \in v.skip THEN "SkipSubTree"
               ELSE IF n.kind \in v.break THEN "Break" ELSE "Continue"

RECURSIVE walkFrom(_, _, _, _, _)

\* walk<Kind>: apply the action, then walk the fields unless it said otherwise.
walk(n, path, v, log) ==
  LET seen == IF n.kind \in v.on THEN Append(log, path) ELSE log
      res  == Visit(v, n)
  IN  IF res # "Continue" THEN [log |-> seen, cont |-> res # "Break"]
      ELSE walkFrom(n, 1, path, v, seen)

\* As if Break only ended the walk of one node's fields.
walkFromNoBreak(n, i, path, v, log) ==
  IF i > Len(n.kids) THEN [log |-> log, cont |-> TRUE]
  ELSE IF IsNil(n.kids[i]) THEN walkFrom(n, i + 1, path, v, log)
  ELSE walkFrom(n, i + 1, path, v, walk(n.kids[i], Append(path, i), v, log).log)

\* The fields of n from the i-th one: absent ones are passed over, Break stops.
walkFrom(n, i, path, v, log) ==
  IF i > Len(n.kids) THEN [log |-> log, cont |-> TRUE]
  ELSE IF IsNil(n.kids[i]) THEN walkFrom(n, i + 1, path, v, log)
  ELSE LET r == walk(n.kids[i], Append(path, i), v, log)
       IN  IF r.cont THEN walkFrom(n, i + 1, path, v, r.log) ELSE r

Walk(n, v) == walk(n, <<>>, v, <<>>).log

(***************************************************************************)
(* The printer, up to layout: the tokens that Print writes.                *)
(***************************************************************************)
RECURSIVE PrintNode(_, _)
RECURSIVE PrintAll(_, _)
PrintAll(t, ns) == IF ns = <<>> THEN <<>> ELSE PrintNode(t, Head(ns)) \o PrintAll(t, Tail(ns))

\* A list between brackets; an empty list prints nothing.
printList(t, open, n, close) ==
  IF n.kids = <<>> THEN <<>> ELSE <<open>> \o PrintAll(t, n.kids) \o <<close>>

OperationType(t, n) == IF n.tok = 0 THEN "query" ELSE t[n.tok]

\* As if the short form were printed without a look at the operation's type.
printOperationShort(t, n) ==
  IF \A i \in 1..3 : IsNil(n.kids[i]) THEN PrintNode(t, n.kids[4])
  ELSE <<OperationType(t, n)>> \o PrintAll(t, n.kids)

\* An anonymous query without variables and directives prints as its selection set.
printOperationDefinition(t, n) ==
  IF OperationType(t, n) = "query" /\ \A i \in 1..3 : IsNil(n.kids[i])
  THEN PrintNode(t, n.kids[4])
  ELSE <<OperationType(t, n)>> \o PrintAll(t, n.kids)

printFragmentDefinition(t, n) ==
  <<"fragment">> \o PrintNode(t, n.kids[1]) \o PrintNode(t, n.kids[2]) \o <<"on">> \o
  PrintAll(t, SubSeq(n.kids, 3, 5))

printInlineFragment(t, n) ==
  <<"...">> \o (IF IsNil(n.kids[1]) THEN <<>> ELSE <<"on">>) \o PrintAll(t, n.kids)

printField(t, n) ==
  (IF IsNil(n.kids[1]) THEN <<>> ELSE PrintNode(t, n.kids[1]) \o <<":">>) \o
  PrintAll(t, Tail(n.kids))

printVariableDefinition(t, n) ==
  PrintNode(t, n.kids[1]) \o <<":">> \o PrintNode(t, n.kids[2]) \o
  (IF IsNil(n.kids[3]) THEN <<>> ELSE <<"=">> \o PrintNode(t, n.kids[3])) \o
  PrintNode(t, n.kids[4])

printNamed(t, n) == PrintNode(t, n.kids[1]) \o <<":">> \o PrintNode(t, n.kids[2])

\* The literal a leaf stands for: a Boolean and null are written from the node's value.
printLeaf(t, n) == <<t[n.tok]>>

PrintNode(t, n) ==
  CASE n.kind = "Nil" -> <<>>
    [] n.kind \in LeafKinds -> printLeaf(t, n)
    [] n.kind \in {"Document", "Definitions", "Directives", "NamedType"} -> PrintAll(t, n.kids)
    [] n.kind = "SelectionSet" -> printList(t, "{", n, "}")
    [] n.kind \in {"Arguments", "VariableDefinitions"} -> printList(t, "(", n, ")")
    [] n.kind \in {"ListValue", "ListType"} -> <<"[">> \o PrintAll(t, n.kids) \o <<"]">>
    [] n.kind = "ObjectValue" -> <<"{">> \o PrintAll(t, n.kids) \o <<"}">>
    [] n.kind = "NonNullType" -> PrintAll(t, n.kids) \o <<"!">>
    [] n.kind = "Variable" -> <<"$">> \o PrintAll(t, n.kids)
    [] n.kind = "Directive" -> <<"@">> \o PrintAll(t, n.kids)
    [] n.kind = "FragmentSpread" -> <<"...">> \o PrintAll(t, n.kids)
    [] n.kind = "InlineFragment" -> printInlineFragment(t, n)
    [] n.kind = "Field" -> printField(t, n)
    [] n.kind \in {"Argument", "ObjectField"} -> printNamed(t, n)
    [] n.kind = "VariableDefinition" -> printVariableDefinition(t, n)
    [] n.kind = "OperationDefinition" -> printOperationDefinition(t, n)
    [] n.kind = "FragmentDefinition" -> printFragmentDefinition(t, n)

\* What two trees share when they stand for the same document: kinds, literals, fields.
RECURSIVE Shape(_, _)
Shape(t, n) ==
  [kind |-> n.kind,
   text |-> IF n.kind = "OperationDefinition" THEN OperationType(t, n)
            ELSE IF n.kind \in LeafKinds THEN t[n.tok] ELSE "",
   kids |-> [i \in 1..Len(n.kids) |-> Shape(t, n.kids[i])]]

\* All nodes of a tree, as pairs of a path and a node.
RECURSIVE NodesAt(_, _)
NodesAt(n, path) ==
  IF IsNil(n) THEN {}
  ELSE {<<path, n>>} \cup UNION {NodesAt(n.kids[i], Append(path, i)) : i \in 1..Len(n.kids)}
=============================================================================
