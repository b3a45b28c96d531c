----------------------------- MODULE MCLoadMany -----------------------------
(* LoadMany for TLC: what each client wants, and who completes which task. *)
EXTENDS LoadMany, TLC

CONSTANTS k1, c1, c2, c3, p1, p2

\* c1 calls LoadMany with the same key twice, c2 calls Load with it.
SameTask == (c1 :> <<k1, k1>>) @@ (c2 :> <<k1>>)
\* A join and two calls of Load.
ThreeFutures == (c1 :> <<k1>>) @@ (c2 :> <<k1>>) @@ (c3 :> <<k1>>)
OneCall == p1 :> k1

\* A join of one future and a call of Load, for a task that two goroutines complete.
OneEach == (c1 :> <<k1>>) @@ (c2 :> <<k1>>)
RacingCalls == (p1 :> k1) @@ (p2 :> k1)
=============================================================================
