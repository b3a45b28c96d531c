------------------------------- MODULE Tokens -------------------------------
(***************************************************************************)
(* The token list of graphql/token, as the parser and the syntax tree see  *)
(* it: a sequence from <SOF> to <EOF> in which a token is a place.  A      *)
(* token is written as its kind, a Name token as its value.                *)
(***************************************************************************)
EXTENDS Integers, Sequences

CONSTANT ExperimentalFragmentVariables   \* the parser option EnableFragmentVariables

\* The values a Name token has in the model: keywords, literals and a plain name.
OperationTypes == {"query", "mutation"}
Names == OperationTypes \cup {"a", "on", "fragment", "true", "false", "null"}

Kind(x) == IF x \in Names THEN "Name" ELSE x

\* The links of a token; comment tokens are in the list.
PrevTok(i) == i - 1
NextTok(i) == i + 1

\* Advance/Lookahead: comments are passed over; at <EOF> the lexer stays.
RECURSIVE Advance(_, _)
Advance(t, p) == IF p >= Len(t) THEN p
                 ELSE IF t[NextTok(p)] = "#" THEN Advance(t, NextTok(p)) ELSE NextTok(p)
=============================================================================
