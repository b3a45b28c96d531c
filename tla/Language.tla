------------------------------ MODULE Language ------------------------------
(***************************************************************************)
(* The query language front end at work: a document is written token by    *)
(* token into a frame (tokens before and after it), and at every moment    *)
(* the parser, the token ranges, the visitor and the printer are compared  *)
(* with the grammar and with each other.                                   *)
(***************************************************************************)
EXTENDS Parser, Grammar, FiniteSets

CONSTANTS Frames,     \* records [entry, before, after, words]
          MaxTokens   \* how many tokens are written into a frame

VARIABLES frame,     \* where the document is written
          written,   \* the tokens written so far
          result     \* what the parser makes of the document in its frame
vars == <<frame, written, result>>

NoComments(s) == SelectSeq(s, LAMBDA x : x # "#")
Source(f, w) == <<"SOF">> \o f.before \o w \o f.after \o <<"EOF">>
Text == Source(frame, written)
Accepted == result.pos > 0

\* What is written so far can still become a document, for the parser or for the grammar.
Hopeful ==
  LET so == <<"SOF">> \o frame.before \o written \o <<"EOF">>
      at == Parse(frame.entry, so).pos
  IN  IF at > 0 THEN TRUE
      ELSE so[-at] = "EOF" \/ ViablePrefix(NoComments(frame.before \o written), frame.entry)

Init == /\ frame \in Frames
        /\ written = <<>>
        /\ result = Parse(frame.entry, Source(frame, <<>>))

\* Write one more token and parse the document in its frame.
Write(word) ==
  /\ written' = Append(written, word)
  /\ result' = Parse(frame.entry, Source(frame, written'))
  /\ UNCHANGED frame

Next == Len(written) < MaxTokens /\ Hopeful /\ \E word \in frame.words : Write(word)
Spec == Init /\ [][Next]_vars

(***************************************************************************)
(* Properties                                                              *)
(***************************************************************************)

\* The parser accepts exactly the sentences of the grammar its comments quote: no list of
\* selections, arguments or variables is empty, `on` is no fragment name, constants hold no
\* variables, a type has at most one `!` at each level.
AcceptsGrammar ==
  Accepted <=> Sentence(NoComments(frame.before \o written \o frame.after), frame.entry)

HasValues(n) == n.kind = "ListValue" /\ n.kids # <<>>
Subtree == NodesAt(result.node, <<>>)

\* The range of tokens that a node reports, computed from the few tokens it stores and the
\* links between tokens, is the range the parser consumed for it. Comment tokens and list
\* values that are not empty break this (see README).
RangesExact ==
  Accepted /\ "#" \notin {Text[i] : i \in 1..Len(Text)} /\ ~(\E x \in Subtree : HasValues(x[2]))
    => \A x \in Subtree : TokenRange(x[2]) = x[2].span

\* What Print writes for a tree parses again, into a tree that stands for the same document:
\* the short form of a query, aliases, the literals and all optional parts survive.
PrintReparses ==
  Accepted => LET t   == Text
                  out == <<"SOF">> \o PrintNode(t, result.node) \o <<"EOF">>
                  res == Parse(frame.entry, out)
              IN  res.pos > 0 /\ Shape(out, res.node) = Shape(t, result.node)

Visitors == {NewVisitor("Node", {}, {}), NewVisitor("Node", {"Field", "ListValue"}, {}),
             NewVisitor("Node", {"Arguments"}, {"FragmentSpread", "IntValue"}),
             NewVisitor("Name", {}, {}), NewVisitor("Type", {"ListType"}, {"NamedType"}),
             NewVisitor("Value", {"ObjectValue"}, {"EnumValue"}),
             NewVisitor("Selection", {"InlineFragment"}, {})}

\* n is written before m, or begins with m and encloses it.
Precedes(x, y) ==
  \/ x[2].span[1] < y[2].span[1]
  \/ x[2].span[1] = y[2].span[1] /\ x[2].span[2] > y[2].span[2]
  \/ x[2].span = y[2].span /\ Len(x[1]) < Len(y[1])

Inside(x, y) == Len(y[1]) < Len(x[1]) /\ SubSeq(x[1], 1, Len(y[1])) = y[1]

\* The visitor calls its action once for every node of its kinds, in the order of the source,
\* except inside a node where an action said SkipSubTree and after one that said Break.
VisitsInOrder ==
  Accepted => LET nodes == Subtree IN \A v \in Visitors :
    LET acting(how) == {x \in nodes : x[2].kind \in v.on /\ x[2].kind \in how}
        skipped(x)  == \E y \in acting(v.skip) : Inside(x, y)
        due == {x \in acting(v.on) : ~skipped(x) /\
                  ~\E y \in acting(v.break) : ~skipped(y) /\ Precedes(y, x)}
        log == Walk(result.node, v)
        at(i) == CHOOSE x \in nodes : x[1] = log[i]
    IN  /\ Len(log) = Cardinality(due)
        /\ {at(i) : i \in 1..Len(log)} = due
        /\ \A i \in 1..Len(log) - 1 : Precedes(at(i), at(i + 1))
=============================================================================
