------------------------------- MODULE Parser -------------------------------
(***************************************************************************)
(* The recursive-descent parser of graphql/parser over the token list the  *)
(* lexer links up.  The parser's state is the lexer's current token: every *)
(* function takes the list t and the place p of that token and returns the *)
(* place it leaves the lexer at, with the node it built.  A syntax error   *)
(* at token p is the place -p; every function passes an error on, as every *)
(* `if err != nil { return nil, err }` does.                               *)
(***************************************************************************)
EXTENDS Ast

\* The token the parser consumed last when it stands at p (for the history variable).
RECURSIVE Before(_, _)
Before(t, p) == IF t[p - 1] = "#" THEN Before(t, p - 1) ELSE p - 1

peek(t, p) == IF p > 0 THEN Kind(t[p]) ELSE "error"

expect(t, p, kind) == IF p <= 0 THEN p ELSE IF peek(t, p) = kind THEN Advance(t, p) ELSE -p

\* skip returns the place after the token, or the same place.
skip(t, p, kind) == IF peek(t, p) = kind THEN Advance(t, p) ELSE p

expectKeyword(t, p, word) == IF p <= 0 THEN p ELSE IF t[p] = word THEN Advance(t, p) ELSE -p

unexpected(p) == [pos |-> -p, node |-> Nil]

\* A node that begins at token p and ends before the token the lexer is at.
Built(t, kind, p, tok, kids, end) ==
  [pos |-> end,
   node |-> IF end <= 0 THEN Nil
            ELSE [kind |-> kind, tok |-> tok, kids |-> kids, span |-> <<p, Before(t, end)>>]]

Absent(p) == [pos |-> p, node |-> Nil]

\* The token at p becomes a leaf node and the lexer advances.
Leaf(t, kind, p) == Built(t, kind, p, p, <<>>, Advance(t, p))

(***************************************************************************)
(* A node under construction is the place the parser is at and the fields  *)
(* parsed so far; And takes the next one.                                  *)
(***************************************************************************)
Start(p) == [pos |-> p, kids |-> <<>>]

And(part, r) == [pos |-> r.pos, kids |-> Append(part.kids, r.node)]

Node(t, kind, p, part) == Built(t, kind, p, 0, part.kids, part.pos)

parseName(t, p) == Built(t, "Name", p, p, <<>>, expect(t, p, "Name"))

AndName(t, part) == And(part, parseName(t, part.pos))

parseNamedType(t, p) == Node(t, "NamedType", p, AndName(t, Start(p)))

parseVariable(t, p) == Node(t, "Variable", p, AndName(t, Start(expect(t, p, "$"))))

\* As if any name were the name of a fragment.
parseAnyFragmentName(t, p) == parseName(t, p)

parseFragmentName(t, p) == IF p > 0 /\ t[p] = "on" THEN unexpected(p) ELSE parseName(t, p)

parseTypeCondition(t, p) == parseNamedType(t, expectKeyword(t, p, "on"))

RECURSIVE parseValue(_, _, _)
RECURSIVE parseSelection(_, _)
RECURSIVE parseItems(_, _, _, _)

(***************************************************************************)
(* The loops.  Items are parsed one after the other until the closing      *)
(* token; parseDirectives stops when no @ follows instead.                 *)
(***************************************************************************)

\* Items between an opening and a closing token. A list value and an object value keep their
\* first token when they are empty.
Enclosed(t, kind, p, items, close) ==
  Built(t, kind, p, IF kind \in {"ListValue", "ObjectValue"} /\ items.kids = <<>> THEN p ELSE 0,
        items.kids, expect(t, items.pos, close))

\* Name : Value, the body of Argument and of ObjectField.
AndValue(t, part, isConst) == And(part, parseValue(t, expect(t, part.pos, ":"), isConst))
parseNameValue(t, kind, p, isConst) ==
  Node(t, kind, p, AndValue(t, AndName(t, Start(p)), isConst))

parseArguments(t, p, isConst) ==
  Enclosed(t, "Arguments", p, parseItems(t, "Argument", isConst, Start(expect(t, p, "("))), ")")

AndArguments(t, part, isConst) ==
  And(part, IF peek(t, part.pos) = "(" THEN parseArguments(t, part.pos, isConst)
            ELSE Absent(part.pos))

parseDirective(t, p, isConst) ==
  Node(t, "Directive", p, AndArguments(t, AndName(t, Start(expect(t, p, "@"))), isConst))

parseDirectives(t, p, isConst) ==
  Node(t, "Directives", p, parseItems(t, "Directive", isConst, Start(p)))

AndDirectives(t, part, isConst) ==
  And(part, IF peek(t, part.pos) = "@" THEN parseDirectives(t, part.pos, isConst)
            ELSE Absent(part.pos))

(***************************************************************************)
(* Values and types                                                        *)
(***************************************************************************)
parseListValue(t, p, isConst) ==
  Enclosed(t, "ListValue", p, parseItems(t, "Value", isConst, Start(expect(t, p, "["))), "]")

parseObjectValue(t, p, isConst) ==
  Enclosed(t, "ObjectValue", p, parseItems(t, "ObjectField", isConst, Start(expect(t, p, "{"))), "}")

parseValue(t, p, isConst) ==
  CASE peek(t, p) = "$" /\ ~isConst -> parseVariable(t, p)
    [] peek(t, p) = "Int" -> Leaf(t, "IntValue", p)
    [] peek(t, p) = "Float" -> Leaf(t, "FloatValue", p)
    [] peek(t, p) \in {"String", "BlockString"} -> Leaf(t, "StringValue", p)
    [] peek(t, p) = "Name" -> Leaf(t, CASE t[p] \in {"true", "false"} -> "BooleanValue"
                                        [] t[p] = "null" -> "NullValue"
                                        [] OTHER -> "EnumValue", p)
    [] peek(t, p) = "[" -> parseListValue(t, p, isConst)
    [] peek(t, p) = "{" -> parseObjectValue(t, p, isConst)
    [] peek(t, p) = "error" -> Absent(p)
    [] OTHER -> unexpected(p)

\* parseType counts the opening brackets on the way in ...
RECURSIVE openLists(_, _, _)
openLists(t, p, opened) == IF peek(t, p) = "["
                           THEN openLists(t, Advance(t, p), Append(opened, p))
                           ELSE <<p, opened>>

\* ... a "!" may follow the innermost name and every closing bracket, once.
nonNull(t, r) ==
  IF peek(t, r.pos) = "!"
  THEN Built(t, "NonNullType", r.node.span[1], 0, <<r.node>>, Advance(t, r.pos))
  ELSE r

closeList(t, item, p) == Built(t, "ListType", p, 0, <<item.node>>, expect(t, item.pos, "]"))

RECURSIVE closeLists(_, _, _)
closeLists(t, r, opened) ==
  IF r.pos <= 0 \/ opened = <<>> THEN r
  ELSE closeLists(t, closeList(t, nonNull(t, r), Final(opened)), SubSeq(opened, 1, Len(opened) - 1))

parseType(t, p) == LET in == openLists(t, p, <<>>)
                   IN  nonNull(t, closeLists(t, parseNamedType(t, in[1]), in[2]))

parseDefaultValue(t, p) == parseValue(t, expect(t, p, "="), TRUE)

AndType(t, part) == And(part, parseType(t, expect(t, part.pos, ":")))
AndDefault(t, part) ==
  And(part, IF peek(t, part.pos) = "=" THEN parseDefaultValue(t, part.pos) ELSE Absent(part.pos))

parseVariableDefinition(t, p) ==
  Node(t, "VariableDefinition", p,
       AndDirectives(t, AndDefault(t, AndType(t, And(Start(p), parseVariable(t, p)))), TRUE))

parseVariableDefinitions(t, p) ==
  Enclosed(t, "VariableDefinitions", p,
           parseItems(t, "VariableDefinition", TRUE, Start(expect(t, p, "("))), ")")

(***************************************************************************)
(* Selections and definitions                                              *)
(***************************************************************************)
parseSelectionSet(t, p) ==
  Enclosed(t, "SelectionSet", p, parseItems(t, "Selection", FALSE, Start(expect(t, p, "{"))), "}")

AndSelectionSet(t, part) == And(part, parseSelectionSet(t, part.pos))

\* A name followed by a colon is the alias of the name that follows.
fieldName(t, first, colon) ==
  IF colon = first.pos THEN And(And(Start(colon), Absent(colon)), first)
  ELSE AndName(t, And(Start(colon), [first EXCEPT !.pos = colon]))
aliasedName(t, first) == fieldName(t, first, skip(t, first.pos, ":"))

parseFieldRest(t, p, part) ==
  Node(t, "Field", p,
       And(part, IF peek(t, part.pos) = "{" THEN parseSelectionSet(t, part.pos) ELSE Absent(part.pos)))
parseField(t, p) ==
  parseFieldRest(t, p,
    AndDirectives(t, AndArguments(t, aliasedName(t, parseName(t, p)), FALSE), FALSE))

\* The two functions below start after "...", which parseSelection consumed at p.
parseFragmentSpread(t, p, q) ==
  Node(t, "FragmentSpread", p, AndDirectives(t, AndName(t, Start(q)), FALSE))

parseInlineFragment(t, p, q) ==
  LET cond == IF peek(t, q) = "Name" THEN parseTypeCondition(t, q) ELSE Absent(q)
  IN  Node(t, "InlineFragment", p, AndSelectionSet(t, AndDirectives(t, And(Start(q), cond), FALSE)))

parseSelection(t, p) ==
  LET q == skip(t, p, "...")
  IN  IF q = p THEN parseField(t, p)
      ELSE IF peek(t, q) # "Name" \/ t[q] = "on" THEN parseInlineFragment(t, p, q)
      ELSE parseFragmentSpread(t, p, q)

AndOptionalName(t, part) ==
  And(part, IF peek(t, part.pos) = "Name" THEN parseName(t, part.pos) ELSE Absent(part.pos))
AndVariables(t, part, allowed) ==
  And(part, IF allowed /\ peek(t, part.pos) = "(" THEN parseVariableDefinitions(t, part.pos)
            ELSE Absent(part.pos))
AndTypeCondition(t, part) == And(part, parseTypeCondition(t, part.pos))

parseOperationDefinition(t, p) ==
  LET head == AndVariables(t, AndOptionalName(t, Start(expect(t, p, "Name"))), TRUE)
      part == AndSelectionSet(t, AndDirectives(t, head, FALSE))
  IN  Built(t, "OperationDefinition", p, p, part.kids, part.pos)

parseQueryShorthand(t, p) ==
  LET set == parseSelectionSet(t, p)
  IN  Built(t, "OperationDefinition", p, 0, <<Nil, Nil, Nil, set.node>>, set.pos)

parseFragmentDefinition(t, p) ==
  LET name == And(Start(p), parseFragmentName(t, expect(t, p, "Name")))
      head == AndTypeCondition(t, AndVariables(t, name, ExperimentalFragmentVariables))
  IN  Node(t, "FragmentDefinition", p, AndSelectionSet(t, AndDirectives(t, head, FALSE)))

parseDefinition(t, p) ==
  CASE p > 0 /\ t[p] \in OperationTypes -> parseOperationDefinition(t, p)
    [] p > 0 /\ t[p] = "fragment" -> parseFragmentDefinition(t, p)
    [] p > 0 /\ t[p] = "{" -> parseQueryShorthand(t, p)
    [] OTHER -> unexpected(p)

\* One item of a loop, and whether the loop goes on after it: lists of values and fields
\* test for the closing token first, so they may be empty; the others have an item first.
Closing == [Argument |-> ")", VariableDefinition |-> ")", Selection |-> "}", Value |-> "]",
            ObjectField |-> "}", Definition |-> "EOF"]

parseItem(t, what, p, isConst) ==
  CASE what \in {"Argument", "ObjectField"} -> parseNameValue(t, what, p, isConst)
    [] what = "VariableDefinition" -> parseVariableDefinition(t, p)
    [] what = "Selection" -> parseSelection(t, p)
    [] what = "Value" -> parseValue(t, p, isConst)
    [] what = "Definition" -> parseDefinition(t, p)
    [] what = "Directive" -> parseDirective(t, p, isConst)

Goes(t, what, p) == IF what = "Directive" THEN peek(t, p) = "@" ELSE peek(t, p) # Closing[what]

AfterItem(t, what, isConst, part) ==
  IF part.pos > 0 /\ Goes(t, what, part.pos) THEN parseItems(t, what, isConst, part) ELSE part

parseItems(t, what, isConst, part) ==
  IF what \in {"Value", "ObjectField"} /\ ~Goes(t, what, part.pos) THEN part
  ELSE AfterItem(t, what, isConst, And(part, parseItem(t, what, part.pos, isConst)))

Definitions(t, part) ==
  LET list == [kind |-> "Definitions", tok |-> 0, kids |-> part.kids, span |-> <<1, Len(t)>>]
  IN  [pos |-> part.pos, node |-> [list EXCEPT !.kind = "Document", !.kids = <<list>>]]
parseDocument(t) == Definitions(t, parseItems(t, "Definition", FALSE, Start(expect(t, 1, "SOF"))))

\* The entry points of the package: a document, a value, a type.
Whole(t, r) == [r EXCEPT !.pos = expect(t, r.pos, "EOF")]
ParseValue(t) == Whole(t, parseValue(t, expect(t, 1, "SOF"), FALSE))
ParseType(t) == Whole(t, parseType(t, expect(t, 1, "SOF")))

Parse(entry, t) == CASE entry = "Document" -> parseDocument(t)
                     [] entry = "Value" -> ParseValue(t)
                     [] entry = "Type" -> ParseType(t)
=============================================================================
