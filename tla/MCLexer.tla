------------------------------ MODULE MCLexer ------------------------------
(* The frames typed into: numbers, names with comments and punctuators,    *)
(* strings, unicode escapes, block strings, lines.                         *)
EXTENDS Lexer

F(before, chars, after) == [before |-> before, chars |-> chars, after |-> after]

MCFrames ==
  {F(<<>>, {48, 49, 45, 46, 101, 43}, <<>>),
   F(<<BOM>>, {97, 48, 35, 10, 46, 33, 1}, <<>>),
   F(<<QUOTE>>, {97, QUOTE, BACKSLASH, 110, 10, 1, 38}, <<QUOTE>>),
   F(<<QUOTE, BACKSLASH, 117, 48, 48>>, {48, 70, 103, QUOTE, BACKSLASH}, <<QUOTE>>),
   F(<<QUOTE, BACKSLASH, 117>>, {48, 50, 56, 68}, <<QUOTE>>),
   F(TripleQuote, {32, 97, QUOTE, BACKSLASH, 10}, TripleQuote),
   F(TripleQuote \o <<97, 10, 32, 32>>, {32, 97, 10, QUOTE}, <<10>> \o TripleQuote),
   F(<<>>, {10, 13, 97}, <<>>)}
=============================================================================
