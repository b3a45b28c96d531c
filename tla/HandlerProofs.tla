--------------------------- MODULE HandlerProofs ---------------------------
(***************************************************************************)
(* What holds of graphql/handler for every set of goroutines, requests and *)
(* documents, and every size of the operation cache.                       *)
(***************************************************************************)
EXTENDS Handler, TLAPS

\* The places of ServeHTTP.
Places == {"idle", "get", "parse", "add", "evict", "serve", "done"}

\* The per-goroutine variables are functions on the goroutines.
TypeOK == /\ pc \in [Goroutines -> Places]
          /\ missed \in [Goroutines -> BOOLEAN]
          /\ asked = [g \in Goroutines |-> asked[g]]
          /\ operation = [g \in Goroutines |-> operation[g]]
          /\ response = [g \in Goroutines |-> response[g]]

\* A goroutine misses when it leaves Build, and not before.
MissedLate == \A g \in Goroutines : pc[g] \in {"idle", "get", "parse"} => ~missed[g]

\* From its Build to its answer, a goroutine that missed carries the operation that it prepared
\* from a query without a syntax error: no Add and no Get of another goroutine replaces it.
Carries == \A g \in Goroutines :
  /\ pc[g] \in {"add", "evict"} => missed[g]
  /\ missed[g] /\ pc[g] \in {"add", "evict", "serve"} =>
       operation[g] = Own(g) /\ Documents[asked[g][1]].fault # "syntax"

IInv == TypeOK /\ MissedLate /\ Carries /\ MissAnsweredAsAsked

\* The invariant holds before any request has come.
LEMMA IInvInit == Init => IInv
  BY DEF Init, IInv, TypeOK, MissedLate, Carries, MissAnsweredAsAsked, Done, Places

\* No step of ServeHTTP, of the goroutine or of another, breaks the invariant.
LEMMA IInvStep == IInv /\ [Next]_vars => IInv'
<1> SUFFICES ASSUME IInv, [Next]_vars PROVE IInv'
  OBVIOUS
<1> USE DEF IInv, TypeOK, MissedLate, Carries, MissAnsweredAsAsked, Done, Goto, Respond, Own, Places
<1>1. ASSUME NEW g \in Goroutines, NEW r \in Requests, Receive(g, r) PROVE IInv'
  <2> DEFINE parsed == ParseHTTPRequest(r)
             empty == ErrorPresented("ErrEmptyQuery")
             wrong == ErrorPresented("HTTPRequestParseError")
  <2> HIDE DEF parsed, empty, wrong
  <2>1. /\ pc[g] = "idle" /\ ~missed[g]
        /\ UNCHANGED <<operation, missed>>
        /\ pc' = [pc EXCEPT ![g] = "get"] \/ pc' = [pc EXCEPT ![g] = "done"]
        /\ response' = response \/ response' = [response EXCEPT ![g] = empty]
                                \/ response' = [response EXCEPT ![g] = wrong]
        /\ asked' = asked \/ asked' = [asked EXCEPT ![g] = parsed]
    BY <1>1 DEF Receive, parsed, empty, wrong
  <2>2. /\ pc'[g] \in {"get", "done"} /\ ~missed'[g]
        /\ \A h \in Goroutines \ {g} : UNCHANGED <<pc[h], missed[h], asked[h], operation[h], response[h]>>
    BY <2>1
  <2>3. TypeOK'
    BY <2>1
  <2>4. \A h \in Goroutines : h = g \/ Own(h)' = Own(h)
    BY <2>2
  <2>5. MissedLate'
    BY <2>2, <2>3
  <2>6. Carries'
    <3> SUFFICES ASSUME NEW h \in Goroutines
                 PROVE  /\ pc'[h] \in {"add", "evict"} => missed'[h]
                        /\ missed'[h] /\ pc'[h] \in {"add", "evict", "serve"} =>
                             operation'[h] = Own(h)' /\ Documents[asked'[h][1]].fault # "syntax"
      OBVIOUS
    <3>1. CASE h = g
      BY <2>2, <3>1
    <3>2. CASE h # g
      BY <2>2, <2>4, <3>2
    <3> QED BY <3>1, <3>2
  <2>7. MissAnsweredAsAsked'
    <3> SUFFICES ASSUME NEW h \in Goroutines, pc'[h] = "done", missed'[h]
                 PROVE  response'[h] = IF Documents[asked'[h][1]].fault = "syntax" THEN <<"bad request">>
                                       ELSE Own(h)'
      OBVIOUS
    <3>1. h # g
      BY <2>2
    <3> QED BY <2>2, <2>4, <3>1
  <2> QED BY <2>3, <2>5, <2>6, <2>7
<1>2. ASSUME NEW g \in Goroutines, Get(g) PROVE IInv'
  <2> DEFINE found == Looked(lru, asked[g][1])
  <2> HIDE DEF found
  <2>1. /\ pc[g] = "get" /\ ~missed[g]
        /\ UNCHANGED <<asked, missed, response>>
        /\ pc' = [pc EXCEPT ![g] = "serve"] \/ pc' = [pc EXCEPT ![g] = "parse"]
        /\ operation' = operation \/ operation' = [operation EXCEPT ![g] = found]
    BY <1>2 DEF Get, found
  <2> QED BY <2>1
<1>3. ASSUME NEW g \in Goroutines, GetPanics(g) PROVE IInv'
  BY <1>3 DEF GetPanics
<1>4. ASSUME NEW g \in Goroutines, Build(g) PROVE IInv'
  <2> DEFINE built == Prepare(asked[g][1], asked[g][2])
             syntax == Documents[asked[g][1]].fault = "syntax"
  <2>1. UNCHANGED asked /\ missed' = [missed EXCEPT ![g] = TRUE] /\ pc[g] = "parse"
    BY <1>4 DEF Build
  <2>2. \/ syntax /\ Respond(g, <<"bad request">>) /\ UNCHANGED operation
        \/ ~syntax /\ Respond(g, built) /\ UNCHANGED operation
        \/ /\ ~syntax /\ operation' = [operation EXCEPT ![g] = built]
           /\ Goto(g, "add") /\ UNCHANGED response
    BY <1>4 DEF Build, ErrorPresented
  <2>3. CASE syntax /\ Respond(g, <<"bad request">>) /\ UNCHANGED operation
    BY <2>1, <2>3
  <2>4. CASE ~syntax /\ Respond(g, built) /\ UNCHANGED operation
    BY <2>1, <2>4
  <2>5. CASE /\ ~syntax /\ operation' = [operation EXCEPT ![g] = built]
             /\ Goto(g, "add") /\ UNCHANGED response
    BY <2>1, <2>5
  <2> QED BY <2>2, <2>3, <2>4, <2>5
<1>5. ASSUME NEW g \in Goroutines, Add(g) PROVE IInv'
  BY <1>5 DEF Add
<1>6. ASSUME NEW g \in Goroutines, AddEvicts(g) PROVE IInv'
  BY <1>6 DEF AddEvicts
<1>7. ASSUME NEW g \in Goroutines, Serve(g) PROVE IInv'
  BY <1>7 DEF Serve
<1>8. CASE UNCHANGED vars
  BY <1>8 DEF vars
<1> QED BY <1>1, <1>2, <1>3, <1>4, <1>5, <1>6, <1>7, <1>8 DEF Next, Step

\* ServeHTTP: a request whose query was not in the cache when it looked is answered with the
\* operation it asks for or with the error of its own query, for any number of goroutines that
\* get, add and evict in between.
THEOREM MissCorrect == Spec => []MissAnsweredAsAsked
<1>1. IInv => MissAnsweredAsAsked
  BY DEF IInv
<1> QED BY <1>1, IInvInit, IInvStep, PTL DEF Spec
=============================================================================
