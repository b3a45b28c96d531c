---------------------------- MODULE TypeCreator ----------------------------
(***************************************************************************)
(* graphql/type_creator.go: goroutines that create types from definitions  *)
(* which refer to each other.  createdTypes maps a definition to the       *)
(* result of its creation; the goroutine that stores the result first      *)
(* finalizes the type, which resolves the definitions it refers to, and    *)
(* closes the result's channel.  Everybody else waits for the channel.     *)
(*                                                                         *)
(* An instance of a type is named by the goroutine that made it: a         *)
(* goroutine makes at most one of a definition that it stores.             *)
(***************************************************************************)
EXTENDS Naturals, Sequences, FiniteSets

CONSTANTS Goroutines, Defs, None,
          Graphs,   \* functions from Defs to the sets of definitions they refer to
          Flaws     \* functions from Defs to None, "load" or "finalize": where creation fails

ASSUME ConstantsAssumption ==
  /\ None \notin Goroutines \cup Defs \cup {"load", "finalize"}
  /\ None \notin [by : Goroutines, done : BOOLEAN, err : BOOLEAN]
  /\ Graphs \subseteq [Defs -> SUBSET Defs] /\ Flaws \subseteq [Defs -> {None, "load", "finalize"}]

VARIABLES refs,     \* the definitions that each definition refers to: constant
          flaw,     \* where its creation fails: constant
          created,  \* createdTypes: by (its maker), done (channel closed), err; or None
          stack,    \* the calls of newTypeImplInternal of each goroutine: a definition,
                    \* stage "new" or "finalizing", and the references left to resolve
          waits,    \* the definition whose channel a goroutine waits for
          asked,    \* the definition that its call of newTypeImpl is for
          result,   \* what its call of newTypeImpl returned: an instance, or "error"
          fields    \* fields[d][g][e]: the instance that g's instance of d got for e

vars == <<refs, flaw, created, stack, waits, asked, result, fields>>

Frame == [def : Defs, stage : {"new", "finalizing"}, left : SUBSET Defs, failed : BOOLEAN]

TypeOK == /\ refs \in Graphs /\ flaw \in Flaws
          /\ created \in [Defs -> [by : Goroutines, done : BOOLEAN, err : BOOLEAN] \cup {None}]
          /\ stack \in [Goroutines -> Seq(Frame)]
          /\ waits \in [Goroutines -> Defs \cup {None}]
          /\ asked \in [Goroutines -> Defs \cup {None}]
          /\ result \in [Goroutines -> Goroutines \cup {None, "error"}]
          /\ fields \in [Defs -> [Goroutines -> [Defs -> Goroutines \cup {None}]]]

Init == /\ refs \in Graphs /\ flaw \in Flaws
        /\ created = [d \in Defs |-> None]
        /\ stack = [g \in Goroutines |-> <<>>]
        /\ waits = [g \in Goroutines |-> None]
        /\ asked = [g \in Goroutines |-> None]
        /\ result = [g \in Goroutines |-> None]
        /\ fields = [d \in Defs |-> [g \in Goroutines |-> [e \in Defs |-> None]]]

Top(g) == stack[g][Len(stack[g])]
Below(g) == SubSeq(stack[g], 1, Len(stack[g]) - 1)
Idle(g) == stack[g] = <<>> /\ waits[g] = None /\ result[g] = None
Running(g, stage) == stack[g] # <<>> /\ waits[g] = None /\ Top(g).stage = stage

\* The stack that the call on top of callers gets when what it resolved is returned to it.
Received(callers, d, failed) ==
  [callers EXCEPT ![Len(callers)].left = @ \ {d}, ![Len(callers)].failed = failed]

\* d is resolved to inst, or to "error", for the innermost of callers, or for the caller of
\* newTypeImpl.
Deliver(g, callers, d, inst) ==
  IF callers = <<>>
  THEN /\ result' = [result EXCEPT ![g] = inst]
       /\ stack' = [stack EXCEPT ![g] = <<>>]
       /\ UNCHANGED fields
  ELSE /\ stack' = [stack EXCEPT ![g] = Received(callers, d, inst = "error")]
       /\ fields' = IF inst = "error" THEN fields
                    ELSE [fields EXCEPT ![callers[Len(callers)].def][g][d] = inst]
       /\ UNCHANGED result

\* The start of resolving d: an entry of createdTypes is waited for, else its creation begins.
LookUp(g, d) ==
  /\ IF created[d] # None
     THEN waits' = [waits EXCEPT ![g] = d] /\ UNCHANGED stack
     ELSE /\ stack' = [stack EXCEPT ![g] = Append(@, [def |-> d, stage |-> "new", left |-> refs[d],
                                                      failed |-> FALSE])]
          /\ UNCHANGED waits
  /\ UNCHANGED <<created, result, fields>>

\* newTypeImpl
NewType(g, d) ==
  /\ Idle(g)
  /\ asked' = [asked EXCEPT ![g] = d]
  /\ LookUp(g, d)
  /\ UNCHANGED <<refs, flaw>>

\* LoadDataAndNew fails, and nothing is stored.
LoadFails(g) ==
  /\ Running(g, "new") /\ flaw[Top(g).def] = "load"
  /\ Deliver(g, Below(g), Top(g).def, "error")
  /\ UNCHANGED <<refs, flaw, asked, created, waits>>

\* As if who comes second went on with its own instance.
LoadOrStoreKeeping(g) ==
  /\ Running(g, "new") /\ flaw[Top(g).def] # "load"
  /\ IF created[Top(g).def] # None
     THEN Deliver(g, Below(g), Top(g).def, g) /\ UNCHANGED created
     ELSE /\ created' = [created EXCEPT ![Top(g).def] = [by |-> g, done |-> FALSE, err |-> FALSE]]
          /\ stack' = [stack EXCEPT ![g][Len(stack[g])].stage = "finalizing"]
          /\ UNCHANGED <<result, fields>>
  /\ UNCHANGED <<refs, flaw, asked, waits>>

\* LoadDataAndNew, then LoadOrStore: the instance of who comes second is dropped.
LoadOrStore(g) ==
  /\ Running(g, "new") /\ flaw[Top(g).def] # "load"
  /\ IF created[Top(g).def] # None
     THEN /\ waits' = [waits EXCEPT ![g] = Top(g).def]
          /\ stack' = [stack EXCEPT ![g] = Below(g)]
          /\ UNCHANGED created
     ELSE /\ created' = [created EXCEPT ![Top(g).def] = [by |-> g, done |-> FALSE, err |-> FALSE]]
          /\ stack' = [stack EXCEPT ![g][Len(stack[g])].stage = "finalizing"]
          /\ UNCHANGED waits
  /\ UNCHANGED <<refs, flaw, asked, result, fields>>

\* finalizingTypeDefs: what the calls on the stack are finalizing.
Finalizing(g) == {stack[g][i].def : i \in 1..Len(stack[g])}

\* As if a type that is being finalized were waited for like any other.
ResolveWaits(g, d) ==
  /\ Running(g, "finalizing") /\ ~Top(g).failed /\ d \in Top(g).left
  /\ LookUp(g, d)
  /\ UNCHANGED <<refs, flaw, asked>>

\* The typeDefResolver of the call on top, for d: Go's maps give the references in any order.
Resolve(g, d) ==
  /\ Running(g, "finalizing") /\ ~Top(g).failed /\ d \in Top(g).left
  /\ IF d \in Finalizing(g)
     THEN Deliver(g, stack[g], d, g) /\ UNCHANGED <<created, waits>>
     ELSE LookUp(g, d)
  /\ UNCHANGED <<refs, flaw, asked>>

\* As if an entry of createdTypes were taken before its channel is closed.
WaitNot(g) ==
  /\ waits[g] # None
  /\ Deliver(g, stack[g], waits[g], IF created[waits[g]].err THEN "error" ELSE created[waits[g]].by)
  /\ waits' = [waits EXCEPT ![g] = None]
  /\ UNCHANGED <<refs, flaw, asked, created>>

\* waitForCompletion returns.
Wait(g) ==
  /\ waits[g] # None /\ created[waits[g]].done
  /\ Deliver(g, stack[g], waits[g], IF created[waits[g]].err THEN "error" ELSE created[waits[g]].by)
  /\ waits' = [waits EXCEPT ![g] = None]
  /\ UNCHANGED <<refs, flaw, asked, created>>

\* Finalize returns and the channel is closed, by complete or by completeWithError.
Complete(g) ==
  /\ Running(g, "finalizing") /\ ~Top(g).failed /\ Top(g).left = {} /\ flaw[Top(g).def] = None
  /\ created' = [created EXCEPT ![Top(g).def].done = TRUE]
  /\ Deliver(g, Below(g), Top(g).def, g)
  /\ UNCHANGED <<refs, flaw, asked, waits>>
CompleteWithError(g) ==
  /\ Running(g, "finalizing") /\ (Top(g).failed \/ flaw[Top(g).def] = "finalize")
  /\ created' = [created EXCEPT ![Top(g).def] = [@ EXCEPT !.done = TRUE, !.err = TRUE]]
  /\ Deliver(g, Below(g), Top(g).def, "error")
  /\ UNCHANGED <<refs, flaw, asked, waits>>

Step(g) == \/ LoadFails(g) \/ LoadOrStore(g) \/ Wait(g) \/ Complete(g) \/ CompleteWithError(g)
           \/ \E d \in Defs : Resolve(g, d)

Next == \E g \in Goroutines : Step(g) \/ \E d \in Defs : NewType(g, d)

Spec == Init /\ [][Next]_vars

\* A goroutine that can go on does; nobody has to ask for a type.
FairSpec == Spec /\ \A g \in Goroutines : WF_vars(Step(g))

(***************************************************************************)
(* Properties                                                              *)
(***************************************************************************)
\* One instance of a definition is ever handed out, whoever asks and however far its creation
\* is: every type that refers to it gets the one in createdTypes, and only that one is filled in;
\* a call of newTypeImpl that succeeds returns it, its creation having succeeded, though the call
\* may have made an instance of its own and lost to another goroutine.
OneInstance ==
  /\ \A d, e \in Defs, g \in Goroutines : fields[d][g][e] # None =>
       created[e] # None /\ fields[d][g][e] = created[e].by
  /\ \A d \in Defs, g \in Goroutines : created[d] # None /\ created[d].done =>
       \A h \in Goroutines : fields[d][h] # [e \in Defs |-> None] => h = created[d].by
  /\ \A g \in Goroutines : result[g] \notin {None, "error"} =>
       /\ created[asked[g]] # None /\ created[asked[g]].done /\ ~created[asked[g]].err
       /\ result[g] = created[asked[g]].by

\* The definitions that d refers to, directly or not: what is in every set that holds its references
\* and the references of its members.
Closed(S) == \A d \in S : refs[d] \subseteq S
Reach(d) == {e \in Defs : \A S \in SUBSET Defs : refs[d] \subseteq S /\ Closed(S) => e \in S}
Acyclic == \A d \in Defs : d \notin Reach(d)

\* A type that can be had without waiting is complete in all it refers to, if the definitions form
\* no cycle: none of them is still being finalized, and none has failed.
CompleteUnlessCyclic ==
  Acyclic => \A d \in Defs : created[d] # None /\ created[d].done /\ ~created[d].err =>
               \A e \in Reach(d) : created[e] # None /\ created[e].done /\ ~created[e].err

\* Two or more goroutines wait, each for one of the others.
Crossed == \E G \in SUBSET Goroutines :
             Cardinality(G) > 1 /\ \A g \in G : /\ waits[g] # None /\ ~created[waits[g]].done
                                               /\ created[waits[g]].by \in G

\* NewType returns, unless goroutines that create types which refer to each other have come to
\* wait for each other; a type that refers to itself is no reason to wait.
NewTypeReturnsUnlessCrossed ==
  \A g \in Goroutines : ~Idle(g) ~> (result[g] # None \/ Crossed)

\* NewType returns, whatever other goroutines create meanwhile. Violated: two that create types which
\* refer to each other wait for each other.
NewTypeReturns == \A g \in Goroutines : ~Idle(g) ~> result[g] # None
=============================================================================
