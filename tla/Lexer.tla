------------------------------- MODULE Lexer -------------------------------
(***************************************************************************)
(* The lexer of graphql/lexer, the block string algorithm it calls, the    *)
(* source positions of graphql/token, and the two ways the program writes  *)
(* a string back: the printer's block string and jsonwriter's string.      *)
(*                                                                         *)
(* A text is a sequence of character codes, places counted from 1.  A code *)
(* above 127 stands for a whole character (the code reads UTF-8 bytes, all *)
(* of them above 127).  A lexing function takes a place and returns the    *)
(* place behind the token, or minus the place where it found an error.     *)
(***************************************************************************)
EXTENDS Integers, Sequences, FiniteSets, FiniteSetsExt, TLC

TAB == 9
LF == 10
CR == 13
SP == 32
QUOTE == 34
HASH == 35
DOT == 46
BACKSLASH == 92
BOM == 65279

Digit == 48..57
NameStart == (65..90) \cup (97..122) \cup {95}
NameChar == NameStart \cup Digit
Exponent == {69, 101}
Sign == {43, 45}

\* The one-character tokens.
Punctuators == (33 :> "!") @@ (36 :> "$") @@ (38 :> "&") @@ (40 :> "(") @@ (41 :> ")") @@
               (58 :> ":") @@ (61 :> "=") @@ (64 :> "@") @@ (91 :> "[") @@ (93 :> "]") @@
               (123 :> "{") @@ (124 :> "|") @@ (125 :> "}")

\* SourceBody.At: zero behind the end.
At(t, p) == IF p > Len(t) THEN 0 ELSE t[p]

\* The first place from p on whose character is not in set.
RECURSIVE Past(_, _, _)
Past(t, p, set) == IF p <= Len(t) /\ t[p] \in set THEN Past(t, p + 1, set) ELSE p

consumeWhitespace(t, p) ==
  Past(t, IF p = 1 /\ At(t, 1) = BOM THEN 2 ELSE p, {TAB, SP, 44, LF, CR})

consumeDigits(t, p) == Past(t, p, Digit)

Token(kind, from, end, value) == [kind |-> kind, from |-> from, end |-> end, value |-> value]
ErrorAt(p) == Token("Error", p, p, <<>>)

lexName(t, p) == Token("Name", p, Past(t, p, NameChar), <<>>)

\* A comment ends at a character up to 0x1F that is no tab, or at the end.
RECURSIVE lexComment(_, _, _)
lexComment(t, p, q) == IF At(t, q) > 31 \/ At(t, q) = TAB THEN lexComment(t, p, q + 1)
                       ELSE Token("Comment", p, q, <<>>)

(***************************************************************************)
(* Numbers                                                                 *)
(***************************************************************************)
integerPart(t, p) ==
  LET d == IF t[p] = 45 THEN p + 1 ELSE p
  IN  IF At(t, d) \notin Digit THEN -d
      ELSE IF t[d] # 48 THEN consumeDigits(t, d)
      ELSE IF At(t, d + 1) \in Digit THEN -(d + 1) ELSE d + 1

\* As if "1." were read as the number 1.
fractionalPartLax(t, p) ==
  IF p < 0 \/ At(t, p) # DOT THEN p
  ELSE IF At(t, p + 1) \in Digit THEN consumeDigits(t, p + 1) ELSE p

\* At least one digit behind a point; passes an error on.
fractionalPart(t, p) ==
  IF p < 0 \/ At(t, p) # DOT THEN p
  ELSE IF At(t, p + 1) \in Digit THEN consumeDigits(t, p + 1) ELSE -(p + 1)

exponentPart(t, p) ==
  IF p < 0 \/ At(t, p) \notin Exponent THEN p
  ELSE LET d == IF At(t, p + 1) \in Sign THEN p + 2 ELSE p + 1
       IN  IF At(t, d) \in Digit THEN consumeDigits(t, d) ELSE -d

lexNumber(t, p) ==
  LET int  == integerPart(t, p)
      frac == fractionalPart(t, int)
      exp  == exponentPart(t, frac)
  IN  IF exp < 0 THEN ErrorAt(-exp)
      ELSE Token(IF exp = int THEN "Int" ELSE "Float", p, exp, SubSeq(t, p, exp - 1))

(***************************************************************************)
(* Strings                                                                 *)
(***************************************************************************)
char2hex(c) == CASE c \in Digit -> c - 48
                 [] c \in 65..70 -> c - 55
                 [] c \in 97..102 -> c - 87
                 [] OTHER -> -1

\* Negative when one of the four characters is no hexadecimal digit.
uniCharCode(t, p) ==
  LET h == [i \in 0..3 |-> char2hex(At(t, p + i))]
  IN  IF \E i \in 0..3 : h[i] < 0 THEN -1 ELSE 4096 * h[0] + 256 * h[1] + 16 * h[2] + h[3]

\* What WriteRune writes: a surrogate becomes the replacement character.
Rune(c) == IF c \in 55296..57343 THEN 65533 ELSE c

Escaped == (34 :> 34) @@ (92 :> 92) @@ (47 :> 47) @@ (98 :> 8) @@ (102 :> 12) @@ (110 :> 10) @@
           (114 :> 13) @@ (116 :> 9)

\* p is the place of the opening quote, q the next character, v the value so far.
RECURSIVE lexString(_, _, _, _)
lexString(t, p, q, v) ==
  LET c == At(t, q)
      e == At(t, q + 1)
  IN  CASE q > Len(t) \/ c \in {LF, CR} -> ErrorAt(q)
        [] c = QUOTE -> Token("String", p, q + 1, v)
        [] q <= Len(t) /\ c < 32 /\ c \notin {TAB, LF, CR} -> ErrorAt(q)
        [] c = BACKSLASH /\ e \in DOMAIN Escaped -> lexString(t, p, q + 2, Append(v, Escaped[e]))
        [] c = BACKSLASH /\ e = 117 ->
             IF Len(t) - (q + 1) < 4 \/ uniCharCode(t, q + 2) < 0 THEN ErrorAt(q + 1)
             ELSE lexString(t, p, q + 6, Append(v, Rune(uniCharCode(t, q + 2))))
        [] c = BACKSLASH /\ e # 117 /\ e \notin DOMAIN Escaped -> ErrorAt(Min({q + 1, Len(t)}))
        [] OTHER -> lexString(t, p, q + 1, Append(v, c))

\* BlockStringValue: lines are cut at CR LF, LF and CR.
RECURSIVE SplitLines(_, _, _)
SplitLines(s, line, lines) ==
  IF s = <<>> THEN Append(lines, line)
  ELSE IF Head(s) \notin {LF, CR} THEN SplitLines(Tail(s), Append(line, Head(s)), lines)
  ELSE SplitLines(IF Head(s) = CR /\ Len(s) > 1 /\ s[2] = LF THEN Tail(Tail(s)) ELSE Tail(s),
                  <<>>, Append(lines, line))

leadingWhitespaceLen(line) == Past(line, 1, {TAB, SP}) - 1
isBlank(line) == leadingWhitespaceLen(line) = Len(line)

RECURSIVE Joined(_)
Joined(lines) == IF lines = <<>> THEN <<>>
                 ELSE IF Len(lines) = 1 THEN lines[1]
                 ELSE lines[1] \o <<LF>> \o Joined(Tail(lines))

\* The indentation all lines but the first have in common is removed; then blank lines at
\* both ends are.
BlockStringValue(s) ==
  LET lines  == SplitLines(s, <<>>, <<>>)
      deep   == {leadingWhitespaceLen(lines[i]) : i \in {j \in 2..Len(lines) : ~isBlank(lines[j])}}
      indent == IF deep = {} THEN 0 ELSE Min(deep)
      cut    == [i \in 1..Len(lines) |-> IF i = 1 THEN lines[i]
                                         ELSE SubSeq(lines[i], indent + 1, Len(lines[i]))]
      full   == {i \in 1..Len(cut) : ~isBlank(cut[i])}
  IN  IF full = {} THEN <<>> ELSE Joined(SubSeq(cut, Min(full), Max(full)))

Quotes(t, p) == Past(t, p, {QUOTE}) - p

\* p is the place of the opening quotes, q the next character, v the raw value so far.
RECURSIVE lexBlockString(_, _, _, _)
lexBlockString(t, p, q, v) ==
  LET c == At(t, q)
      n == IF c = BACKSLASH THEN Quotes(t, q + 1) ELSE Quotes(t, q)
  IN  CASE q > Len(t) -> ErrorAt(q)
        [] c = QUOTE /\ n >= 3 -> Token("BlockString", p, q + 3, BlockStringValue(v))
        [] c = QUOTE /\ n < 3 -> lexBlockString(t, p, q + n, v \o SubSeq(t, q, q + n - 1))
        [] c = BACKSLASH /\ n >= 3 ->
             lexBlockString(t, p, q + 4, v \o <<QUOTE, QUOTE, QUOTE>>)
        [] c = BACKSLASH /\ n < 3 -> lexBlockString(t, p, q + 1 + n, v \o SubSeq(t, q, q + n))
        [] q <= Len(t) /\ c < 32 /\ c \notin {TAB, LF, CR} -> ErrorAt(q)
        [] OTHER -> lexBlockString(t, p, q + 1, Append(v, c))

(***************************************************************************)
(* lexToken at place p, and the list of tokens of a text.                  *)
(***************************************************************************)
lexToken(t, at) ==
  LET p == consumeWhitespace(t, at)
      c == At(t, p)
  IN  CASE p > Len(t) -> Token("EOF", p, p, <<>>)
        [] c \in DOMAIN Punctuators -> Token(Punctuators[c], p, p + 1, <<>>)
        [] c = HASH -> lexComment(t, p, p + 1)
        [] c = DOT -> IF At(t, p + 1) = DOT /\ At(t, p + 2) = DOT
                      THEN Token("...", p, p + 3, <<>>) ELSE ErrorAt(p)
        [] c \in NameStart -> lexName(t, p)
        [] c \in Digit \cup {45} -> lexNumber(t, p)
        [] c = QUOTE -> CASE Quotes(t, p) >= 3 -> lexBlockString(t, p, p + 3, <<>>)
                          [] Quotes(t, p) = 2 -> Token("String", p, p + 2, <<>>)
                          [] OTHER -> lexString(t, p, p + 1, <<>>)
        [] OTHER -> ErrorAt(p)

\* The linked list from the first token to <EOF> or to the error, comments included.
RECURSIVE lexAll(_, _)
lexAll(t, p) == LET tok == lexToken(t, p)
                IN  IF tok.kind \in {"EOF", "Error"} THEN <<tok>>
                    ELSE <<tok>> \o lexAll(t, tok.end)

(***************************************************************************)
(* LocationInfoOf: line and column of a place.                             *)
(***************************************************************************)
RECURSIVE locate(_, _, _, _, _)
locate(t, i, pos, line, column) ==
  IF i >= pos THEN <<line, column>>
  ELSE IF t[i] = CR /\ At(t, i + 1) = LF
       THEN locate(t, i + 1, pos, IF i + 1 = pos THEN line + 1 ELSE line,
                   IF i + 1 = pos THEN 0 ELSE column)
  ELSE IF t[i] \in {CR, LF} THEN locate(t, i + 1, pos, line + 1, 1)
  ELSE locate(t, i + 1, pos, line, column + 1)

\* As if "\r\n" counted as two line ends.
LocationInfoTwice(t, p) ==
  <<1 + Cardinality({i \in 1..p - 1 : t[i] \in {CR, LF}}),
    p - Max({0} \cup {i \in 1..p - 1 : t[i] \in {CR, LF}})>>

LocationInfoOf(t, p) == locate(t, 1, Min({p, Len(t) + 1}), 1, 1)

(***************************************************************************)
(* Writing strings                                                         *)
(***************************************************************************)
Hex(n) == IF n < 10 THEN 48 + n ELSE 87 + n
UniEscape(c) == <<BACKSLASH, 117, Hex(c \div 4096), Hex((c \div 256) % 16), Hex((c \div 16) % 16),
                  Hex(c % 16)>>

\* Characters that JSON text may hold as they are: not <, > and &, for HTML.
htmlSafe(c) == c >= 32 /\ c \notin {QUOTE, BACKSLASH, 38, 60, 62}

\* Stream.WriteString, one character.
WriteChar(c) ==
  CASE c \in {QUOTE, BACKSLASH} -> <<BACKSLASH, c>>
    [] c = LF -> <<BACKSLASH, 110>>
    [] c = CR -> <<BACKSLASH, 114>>
    [] c = TAB -> <<BACKSLASH, 116>>
    [] ~htmlSafe(c) /\ c \notin {QUOTE, BACKSLASH, LF, CR, TAB} -> UniEscape(c)
    [] c \in {8232, 8233} -> UniEscape(c)
    [] OTHER -> <<c>>

RECURSIVE WriteChars(_)
WriteChars(s) == IF s = <<>> THEN <<>> ELSE WriteChar(Head(s)) \o WriteChars(Tail(s))
WriteString(s) == <<QUOTE>> \o WriteChars(s) \o <<QUOTE>>

\* strings.Replace of """ by \""" and of a line end by a line end and an indentation.
RECURSIVE blockChars(_, _)
blockChars(s, indent) ==
  IF s = <<>> THEN <<>>
  ELSE IF Quotes(s, 1) >= 3
       THEN <<BACKSLASH, QUOTE, QUOTE, QUOTE>> \o blockChars(SubSeq(s, 4, Len(s)), indent)
  ELSE (IF Head(s) = LF THEN <<LF>> \o indent ELSE <<Head(s)>>) \o blockChars(Tail(s), indent)

Spaces(n) == [i \in 1..n |-> SP]
TripleQuote == <<QUOTE, QUOTE, QUOTE>>

\* As if a value that ends in a quote were printed on one line.
printBlockStringOneLine(value, level) ==
  LET inner == Spaces(2 * level + 2)
      multi == \E i \in 1..Len(value) : value[i] = LF
  IN  TripleQuote \o (IF multi THEN <<LF>> \o inner ELSE <<>>) \o blockChars(value, inner) \o
      (IF multi THEN <<LF>> ELSE <<>>) \o TripleQuote

\* level is the printer's indentLevel; the value is indented two blanks deeper.
printBlockString(value, level) ==
  LET inner == Spaces(2 * level + 2)
      isSingleLine == \A i \in 1..Len(value) : value[i] # LF
      hasLeadingSpace == value # <<>> /\ value[1] \in {SP, TAB}
      hasTrailingQuote == value # <<>> /\ value[Len(value)] = QUOTE
      asLines == ~isSingleLine \/ hasTrailingQuote
  IN  TripleQuote \o
      (IF asLines /\ ~(isSingleLine /\ hasLeadingSpace) THEN <<LF>> \o inner ELSE <<>>) \o
      blockChars(value, inner) \o
      (IF asLines THEN <<LF>> \o Spaces(2 * level) ELSE <<>>) \o TripleQuote

printStringValue(tok, level) == IF tok.kind = "BlockString" THEN printBlockString(tok.value, level)
                                ELSE WriteString(tok.value)

(***************************************************************************)
(* Texts are typed character by character into a frame.                    *)
(***************************************************************************)
CONSTANTS Frames,    \* records [before, chars, after]
          MaxChars   \* how many characters are typed

VARIABLES frame, typed
vars == <<frame, typed>>

Text == frame.before \o typed \o frame.after

Init == frame \in Frames /\ typed = <<>>
Type(c) == Len(typed) < MaxChars /\ typed' = Append(typed, c) /\ UNCHANGED frame
Next == \E c \in frame.chars : Type(c)
Spec == Init /\ [][Next]_vars

(***************************************************************************)
(* Properties                                                              *)
(***************************************************************************)
IsInt(w) == LET d == IF w[1] = 45 THEN Tail(w) ELSE w
            IN  /\ d # <<>> /\ \A i \in 1..Len(d) : d[i] \in Digit
                /\ (d[1] # 48 \/ Len(d) = 1)
IsDigits(w) == w # <<>> /\ \A i \in 1..Len(w) : w[i] \in Digit
IsFraction(w) == w = <<>> \/ (w[1] = DOT /\ IsDigits(Tail(w)))
IsExponent(w) == \/ w = <<>>
                 \/ /\ w[1] \in Exponent
                    /\ \/ IsDigits(Tail(w))
                       \/ Len(w) > 2 /\ w[2] \in Sign /\ IsDigits(Tail(Tail(w)))
IsNumber(w) == \E i \in 1..Len(w) : \E j \in i..Len(w) :
                 /\ IsInt(SubSeq(w, 1, i)) /\ IsFraction(SubSeq(w, i + 1, j))
                 /\ IsExponent(SubSeq(w, j + 1, Len(w)))

\* The number at place p by the grammar: the longest prefix that is a number, refused when
\* what follows looks like more of it.
NumberAt(t, p) ==
  LET ends == {e \in p..Len(t) : IsNumber(SubSeq(t, p, e))}
      e    == Max(ends)
      w    == SubSeq(t, p, e)
      more == CASE IsInt(w) -> {DOT} \cup Exponent \cup (IF t[e] = 48 THEN Digit ELSE {})
                [] ~(\E i \in 1..Len(w) : w[i] \in Exponent) -> Exponent
                [] OTHER -> {}
  IN  IF ends = {} THEN 0 ELSE IF At(t, e + 1) \in more THEN 0 ELSE e + 1

Words == lexAll(Text, 1)

\* Later places have later locations: no two places share a line and column, and the last
\* place is on the line that counts all line ends, "\r\n" once.
Located(t) ==
  LET loc == [p \in 1..Len(t) + 1 |-> LocationInfoOf(t, p)]
  IN  /\ \A p \in 1..Len(t) : \/ loc[p][1] < loc[p + 1][1]
                              \/ loc[p][1] = loc[p + 1][1] /\ loc[p][2] < loc[p + 1][2]
      /\ loc[Len(t) + 1][1] = Len(SplitLines(t, <<>>, <<>>))

\* The tokens cover the text in order and between them is only what the lexer may ignore; a
\* number token is the longest number that stands there and is refused only when none does;
\* a name goes on to the last character that a name may have. The locations they report
\* increase with their places.
LexesLongest ==
  LET t == Text
      ws == Words
      begin(i) == IF i = 1 THEN 1 ELSE ws[i - 1].end
      ignored == {TAB, SP, 44, LF, CR}
  IN  Located(t) /\ \A i \in 1..Len(ws) : LET w == ws[i] IN
        /\ w.kind # "Error" => \A q \in begin(i)..w.from - 1 : t[q] \in ignored \cup {BOM}
        /\ w.kind \in {"Int", "Float"} => NumberAt(t, w.from) = w.end
        /\ w.kind \in {"Int", "Float"} => (w.kind = "Int" <=> IsInt(w.value))
        /\ w.kind = "Name" => /\ \A q \in w.from..w.end - 1 : t[q] \in NameChar
                              /\ At(t, w.end) \notin NameChar
        /\ LET p == Past(t, begin(i), ignored) IN
             w.kind = "Error" /\ At(t, p) \in Digit \cup {45} => NumberAt(t, p) = 0

Level == 1

\* A string literal that the printer writes lexes again, alone, into a token of the same kind
\* and value, inside a selection set as well: escapes, quotes, common indentation and blank
\* lines are as they were. A one-line block string that ends in a backslash is the exception
\* (README).
StringsSurvivePrinting ==
  LET ws == Words IN \A i \in 1..Len(ws) :
    ws[i].kind \in {"String", "BlockString"} =>
      LET v     == ws[i].value
          lossy == ws[i].kind = "BlockString" /\ v # <<>> /\ v[Len(v)] = BACKSLASH
                     /\ \A k \in 1..Len(v) : v[k] # LF
          again == lexAll(printStringValue(ws[i], Level), 1)
      IN  lossy \/ (Len(again) = 2 /\ again[1].kind = ws[i].kind /\ again[1].value = v)
=============================================================================
