------------------------------ MODULE Handler ------------------------------
(***************************************************************************)
(* graphql/handler: goroutines that serve HTTP requests and share one      *)
(* operation cache.  A request is parsed, its operation is looked up by    *)
(* the text of its query, or parsed, prepared and added, and executed.     *)
(***************************************************************************)
EXTENDS OperationCache, Sequences

CONSTANTS Goroutines,
          Requests,    \* HTTP requests: method, type, form (r.Form is filled in), fault, query, name
          Documents,   \* what a query parses to: its operations [name, type], and the fault "syntax"
                       \* or "invalid" when parsing or validation fails
          Roots,       \* the types of operation that the schema has
          Configs      \* what OperationCache may be configured: "LRU", "Nop"

VARIABLES cached,   \* what OperationCache() returns: "LRU", or None for Go's nil
          lru,      \* the cache
          lock,     \* the goroutine that holds its mutex
          pc,       \* where a goroutine is in ServeHTTP
          asked,    \* what ParseHTTPRequest made of its request: <<query, name>>
          operation,\* the operation it got: <<"data", query, place of the definition>>
          missed,   \* whether it prepared the operation itself
          response  \* what was written

vars == <<cached, lru, lock, pc, asked, operation, missed, response>>

Blank == <<None, None>>
Error == <<"error">>

\* parseRequestFromValues: several values of a key and variables that are no JSON are errors.
parseRequestFromValues(r) == IF r.fault = "values" THEN Error ELSE <<r.query, r.name>>

ParseHTTPRequest(r) ==
  CASE r.method = "GET" ->
         IF ~r.form /\ r.fault = "url" THEN Error ELSE parseRequestFromValues(r)
    [] r.method = "POST" ->
         IF r.type = "form" /\ r.form THEN parseRequestFromValues(r)
         ELSE IF r.fault \in {"read", "large"} THEN Error
         ELSE CASE r.type = "graphql" -> <<r.query, None>>
                [] r.type = "form" -> IF r.fault = "url" THEN Error ELSE parseRequestFromValues(r)
                [] r.type = "json" -> IF r.fault = "json" THEN Error
                                      ELSE <<r.query, r.name>>
                [] OTHER -> Blank
    [] OTHER -> Blank

\* executor.Prepare: the name of a nameless definition is read when a name is given.
Prepare(query, name) ==
  LET ops == Documents[query].ops
      fit == {i \in 1..Len(ops) : name = None \/ ops[i].name = name}
  IN  CASE Documents[query].fault = "invalid" -> <<"errors">>
        [] Documents[query].fault = None /\ name # None /\ (\E i \in 1..Len(ops) : ops[i].name = None) ->
             <<"panic">>
        [] OTHER -> IF fit = {} \/ (name = None /\ Cardinality(fit) > 1) THEN <<"errors">>
                    ELSE IF ops[Max(fit)].type \notin Roots THEN <<"errors">>
                    ELSE <<"data", query, Max(fit)>>

\* DefaultErrorPresenter.Write has no case for an HTTPRequestParseError, and net/http sends a
\* 200 without a body.
ErrorPresented(err) ==
  CASE err \in {"ErrEmptyQuery", "ErrParseQuery"} -> <<"bad request">>
    [] err = "ErrPrepare" -> <<"errors">>
    [] OTHER -> <<"empty">>

(***************************************************************************)
(* ServeHTTP                                                               *)
(***************************************************************************)
Init == \* New and NewLLHandler: the cache that is to do nothing becomes nil
        /\ \E c \in Configs : cached = IF c = "Nop" THEN None ELSE "LRU"
        /\ lru = NewLRUOperationCache /\ lock = None
        /\ pc = [g \in Goroutines |-> "idle"]
        /\ asked = [g \in Goroutines |-> Blank]
        /\ operation = [g \in Goroutines |-> None]
        /\ missed = [g \in Goroutines |-> FALSE]
        /\ response = [g \in Goroutines |-> None]

Goto(g, place) == pc' = [pc EXCEPT ![g] = place]
Respond(g, what) == Goto(g, "done") /\ response' = [response EXCEPT ![g] = what]

\* A request arrives; ParseHTTPRequest, and the check for an empty query.
Receive(g, r) ==
  /\ pc[g] = "idle"
  /\ LET parsed == ParseHTTPRequest(r) IN
     IF parsed = Error THEN Respond(g, ErrorPresented("HTTPRequestParseError")) /\ UNCHANGED asked
     ELSE /\ asked' = [asked EXCEPT ![g] = parsed]
          /\ IF parsed[1] = None THEN Respond(g, ErrorPresented("ErrEmptyQuery"))
             ELSE Goto(g, "get") /\ UNCHANGED response
  /\ UNCHANGED <<cached, lru, lock, operation, missed>>

\* As if the mutex were kept on a hit.
GetKeepsLock(g) ==
  /\ pc[g] = "get" /\ cached # None /\ lock = None
  /\ IF Hit(lru, asked[g][1])
     THEN /\ lru' = Touched(lru, asked[g][1]) /\ lock' = g
          /\ operation' = [operation EXCEPT ![g] = Looked(lru, asked[g][1])]
          /\ Goto(g, "serve")
     ELSE Goto(g, "parse") /\ UNCHANGED <<lru, operation, lock>>
  /\ UNCHANGED <<cached, asked, missed, response>>

\* LRUOperationCache.Get, under the mutex.
Get(g) ==
  /\ pc[g] = "get" /\ cached # None /\ lock = None
  /\ IF Hit(lru, asked[g][1])
     THEN /\ lru' = Touched(lru, asked[g][1])
          /\ operation' = [operation EXCEPT ![g] = Looked(lru, asked[g][1])]
          /\ Goto(g, "serve")
     ELSE Goto(g, "parse") /\ UNCHANGED <<lru, operation>>
  /\ UNCHANGED <<cached, lock, asked, missed, response>>

\* Get is called on a nil interface, and net/http recovers.
GetPanics(g) ==
  /\ pc[g] = "get" /\ cached = None
  /\ Respond(g, <<"panic">>)
  /\ UNCHANGED <<cached, lru, lock, asked, operation, missed>>

\* parser.Parse and executor.Prepare
Build(g) ==
  /\ pc[g] = "parse"
  /\ missed' = [missed EXCEPT ![g] = TRUE]
  /\ LET built == Prepare(asked[g][1], asked[g][2]) IN
     IF Documents[asked[g][1]].fault = "syntax"
     THEN Respond(g, ErrorPresented("ErrParseQuery")) /\ UNCHANGED operation
     ELSE IF built = <<"panic">> THEN Respond(g, built) /\ UNCHANGED operation
     ELSE IF built = <<"errors">> THEN Respond(g, ErrorPresented("ErrPrepare")) /\ UNCHANGED operation
     ELSE /\ operation' = [operation EXCEPT ![g] = built]
          /\ Goto(g, "add") /\ UNCHANGED response
  /\ UNCHANGED <<cached, lru, lock, asked>>

\* As if the operation were read from the cache again once it is added.
AddTakes(g) ==
  /\ pc[g] = "add" /\ lock = None /\ ~Full(lru, asked[g][1])
  /\ lru' = Added(lru, asked[g][1], operation[g])
  /\ operation' = [operation EXCEPT ![g] = IF Hit(lru, asked[g][1]) THEN Looked(lru, asked[g][1]) ELSE @]
  /\ Goto(g, "serve")
  /\ UNCHANGED <<cached, lock, asked, missed, response>>

\* LRUOperationCache.Add, when it does not evict.
Add(g) ==
  /\ pc[g] = "add" /\ lock = None /\ ~Full(lru, asked[g][1])
  /\ lru' = Added(lru, asked[g][1], operation[g])
  /\ Goto(g, "serve")
  /\ UNCHANGED <<cached, lock, asked, operation, missed, response>>

\* Add calls removeOldest with the mutex locked, and that locks it again: for good.
AddEvicts(g) ==
  /\ pc[g] = "add" /\ lock = None /\ Full(lru, asked[g][1])
  /\ lock' = g
  /\ Goto(g, "evict")
  /\ UNCHANGED <<cached, lru, asked, operation, missed, response>>

\* Serve: no middleware is ever installed. The result of the execution is written.
Serve(g) ==
  /\ pc[g] = "serve"
  /\ Respond(g, operation[g])
  /\ UNCHANGED <<cached, lru, lock, asked, operation, missed>>

Step(g) == Get(g) \/ GetPanics(g) \/ Build(g) \/ Add(g) \/ AddEvicts(g) \/ Serve(g)
Next == \E g \in Goroutines : Step(g) \/ \E r \in Requests : Receive(g, r)

Spec == Init /\ [][Next]_vars

\* A goroutine that can go on does.
FairSpec == Spec /\ \A g \in Goroutines : WF_vars(Step(g))

(***************************************************************************)
(* Properties                                                              *)
(***************************************************************************)
Done(g) == pc[g] = "done"
Own(g) == Prepare(asked[g][1], asked[g][2])

\* A request whose query was not in the cache is answered with the operation it asks for, or the
\* error of its own query, whatever other requests do to the cache between its Get and its Add.
MissAnsweredAsAsked ==
  \A g \in Goroutines : Done(g) /\ missed[g] =>
    response[g] = IF Documents[asked[g][1]].fault = "syntax" THEN <<"bad request">> ELSE Own(g)

\* A request is answered unless some Add has met a full cache: the mutex is held by nobody else for
\* good.
AnsweredUnlessFull ==
  \A g \in Goroutines : pc[g] # "idle" ~> (Done(g) \/ \E h \in Goroutines : pc[h] = "evict")

\* A request that is answered with an operation is answered with one of its own query.
AnsweredOwnQuery ==
  \A g \in Goroutines : Done(g) /\ operation[g] # None => response[g][2] = asked[g][1]

\* Every request is answered, when the cache is full too: Add evicts the entry used longest ago and
\* returns. Violated: removeOldest locks the mutex that Add holds.
Answered == \A g \in Goroutines : pc[g] # "idle" ~> Done(g)

\* A request that gets an operation gets the one it asks for by name, from the cache too. Violated:
\* the key of the cache is the text of the query.
AnsweredAsAsked ==
  \A g \in Goroutines : Done(g) /\ operation[g] # None => response[g] = Own(g)
=============================================================================
