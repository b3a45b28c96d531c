----------------------------- MODULE MCLanguage -----------------------------
(* The frames written into: each one opens a part of the grammar.          *)
EXTENDS Language

F(entry, before, words, after) ==
  [entry |-> entry, before |-> before, words |-> words, after |-> after]

MCFrames ==
  {F("Document", <<>>, {"{", "}", "a", "...", "on", ":", "@"}, <<>>),
   F("Document", <<"{">>, {"{", "}", "a", "...", "on", "@"}, <<"{", "a", "}", "}">>),
   F("Document", <<"{", "a", "(">>, {"a", ":", "[", "]", "$", "Int", "{", "}"}, <<")", "}">>),
   F("Document", <<>>, {"a", "query", "mutation", "(", ")", "$", ":", "@", "{", "}"},
     <<"{", "a", "}">>),
   F("Document", <<"query", "(", "$", "a", ":">>,
     {"a", "[", "]", "!", "=", "Int", "$", "@", ":"}, <<")", "{", "a", "}">>),
   F("Document", <<"fragment">>, {"a", "on", "fragment", "(", "$", ":", ")", "@"},
     <<"{", "a", "}">>),
   F("Document", <<"{", "a", "}">>, {"fragment", "query", "a", "on", "{", "}"}, <<>>),
   F("Document", <<"{", "a">>, {"#", "@", "a", "{", "}", "..."}, <<"}">>),
   F("Value", <<>>, {"[", "]", "{", "}", "a", ":", "$", "Int", "Float", "String", "true", "null"},
     <<>>),
   F("Value", <<"{", "a", ":">>, {"[", "]", "{", "}", "a", ":", "$"}, <<"}">>),
   F("Document", <<"fragment", "a", "(", "$", "a", ":", "a">>, {")", "on", "a", "=", "@", "$"},
     <<"{", "a", "}">>),
   F("Type", <<>>, {"[", "]", "!", "a", "Int"}, <<>>)}
=============================================================================
