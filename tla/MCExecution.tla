---------------------------- MODULE MCExecution ----------------------------
(* Execution for TLC:  { a { b { d } c }  l }  where l is a list of two. *)
EXTENDS Execution, TLC

CONSTANTS r, a, b, c, d, l, e1, e2

TheNodes == {r, a, b, c, d, l, e1, e2}
TheKids == r :> <<a, l>> @@ a :> <<b, c>> @@ b :> <<d>> @@ l :> <<e1, e2>>
           @@ [n \in {c, d, e1, e2} |-> << >>]
TheShape == [n \in TheNodes |-> CASE n \in {r, a, b} -> "object" [] n = l -> "list" [] OTHER -> "leaf"]
SomeNonNulls == {{}, {b, d}, {a, l}, {b, e1, e2}}
SomeAnswers == [n \in TheNodes |->
  CASE n = a -> {"value", "nil"}
    [] n = b -> {"value", "error"}
    [] n = c -> {"value", "error", "future"}
    [] n = d -> {"value", "nil"}
    [] n = l -> {"value", "bad"}
    [] n = e1 -> {"value", "future", "error"}
    [] OTHER -> {"value", "nil", "error"}]
=============================================================================
