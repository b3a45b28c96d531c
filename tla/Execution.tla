----------------------------- MODULE Execution -----------------------------
(***************************************************************************)
(* The execution of one operation, graphql/executor: execute.go,            *)
(* executor.go, result_node.go, with the data loader manager of             *)
(* graphql/resolve_info.go.                                                *)
(*                                                                         *)
(* One goroutine walks the tree of result nodes by recursive calls: the     *)
(* variable stack holds the calls that are not finished, the innermost      *)
(* first.  A value may be a future.  Then the goroutine polls it, yields,   *)
(* dispatches the data loaders and blocks in Dispatch until other           *)
(* goroutines, which complete futures and call their wakers, resume the     *)
(* task.                                                                   *)
(*                                                                         *)
(* The tree is given: the nodes, their children, and whether a node holds   *)
(* a leaf value, an object or a list; children of an object are its fields  *)
(* and children of a list its elements.  Which positions have a non-null    *)
(* type is chosen initially, what a resolver answers when it is called.     *)
(***************************************************************************)
EXTENDS Integers, Sequences, FiniteSets

CONSTANTS
  Nodes, Root,
  Kids,      \* Kids[n]: the sequence of n's children
  Shape,     \* Shape[n]: "leaf", "object" or "list"
  NonNulls,  \* the choices of positions whose type is a graphql.NonNull
  Answers,   \* Answers[n]: what may come back as the value of n
  Chained,   \* nodes whose future needs a second load once the first is there
  MaxErrors  \* bound: at most so many failures in one execution

Parent == [n \in Nodes \ {Root} |-> CHOOSE p \in Nodes : \E i \in DOMAIN Kids[p] : Kids[p][i] = n]

\* nil; an error, returned by a resolver or as a value; a value that does not
\* fit the type (coercion, type resolution or field collection fails, or it is
\* not iterable); a future.
Values == {"value", "nil", "error", "bad", "future"}

ASSUME TreeAssumption ==
  /\ Root \in Nodes /\ Shape[Root] = "object"
  /\ \A n \in Nodes :
       /\ Kids[n] \in Seq(Nodes \ {Root})
       /\ Shape[n] \in {"leaf", "object", "list"}
       /\ Shape[n] = "leaf" => Kids[n] = << >>
       /\ Answers[n] \subseteq Values
  /\ \A s \in NonNulls : s \subseteq Nodes \ {Root}
  /\ Chained \subseteq Nodes /\ MaxErrors \in Nat

\* A result node is made for one place under one parent, and all are made on the
\* way down from the root.
ASSUME NestingAssumption ==
  /\ \A p, q \in Nodes : \A i \in DOMAIN Kids[p], j \in DOMAIN Kids[q] :
       Kids[p][i] = Kids[q][j] => p = q /\ i = j
  /\ \A S \in SUBSET Nodes :
       Root \in S /\ (\A p \in S : \A i \in DOMAIN Kids[p] : Kids[p][i] \in S) => S = Nodes

VARIABLES
  nonNull,    \* the positions with a non-null type
  stack,      \* the unfinished calls
  kind,       \* kind[n]: ResultNode.Kind; "none" is the zero value, also nil
  errs,       \* the nodes with an error in executor.errs
  nulls,      \* the nodes whose value came back as nil
  refs,       \* refs[n]: refCount of the ExecuteNodeTask of field n
  asy,        \* asy[n]: the AsyncValueTask of n: "none", "live" or "over"
  fut,        \* fut[n]: its future: "none", "queued", "flying" or "done"
  stage,      \* stage[n]: which of its loads the future waits for
  waker,      \* the nodes whose waker the future has
  wakes,      \* wake-ups under way: node, stage, next step
  pending,    \* HasPendingDataLoaders
  cycle,      \* executor.dataLoaderCycle
  taskCycle,  \* taskCycle[n]: AsyncValueTask.dataLoaderCycle
  yieldTasks, \* executor.yieldTasks[n]: "none", "waiting" or "resumed"
  blocked,    \* the goroutine is in yieldCond.Wait
  fails,      \* the number of failures so far
  outcome     \* "running", "returned", "panic" or "rerun"

treeVars == <<kind, errs, nulls, fails>>
loadVars == <<fut, stage, waker, wakes, pending>>
taskVars == <<refs, asy, taskCycle>>
yieldVars == <<yieldTasks, blocked, cycle>>
vars == <<nonNull, stack, treeVars, loadVars, taskVars, yieldVars, outcome>>

-----------------------------------------------------------------------------
(* The tree *)

Anc[n \in Nodes] == IF n = Root THEN {} ELSE {Parent[n]} \cup Anc[Parent[n]]
IsElement(n) == n # Root /\ Shape[Parent[n]] = "list"

\* The field whose ExecuteNodeTask completes n.
Owner[n \in Nodes] == IF IsElement(n) THEN Owner[Parent[n]] ELSE n

IsNil(n) == kind[n] \in {"none", "nil"}
Wrapping(n) == n \in nonNull \/ Shape[n] = "list"

\* The flag ResultFlagRejectNull.  For an element the code passes the
\* nullability of the list, not of the element, to EmplaceBack.
ShouldRejectNull(n) ==
  /\ n # Root
  /\ IF IsElement(n) THEN Parent[n] \in nonNull ELSE n \in nonNull

\* mutation: the walk starts at the node itself
PathPanicsAtOnce(n) ==
  \E a \in (Anc[n] \cup {n}) \ {Root} : IsNil(a) /\ kind[Parent[a]] = "object"

\* ResultNode.Path skips an ancestor that is nil but keeps the node below it as
\* the child to look for in the next one: for an object that is an index out of
\* range, for a list the index -1.
PathPanics(n) == \E a \in Anc[n] \ {Root} : IsNil(a) /\ kind[Parent[a]] = "object"

\* propagateExecutionError
Propagated(n) ==
  LET up[m \in Nodes] == IF ShouldRejectNull(m) THEN {Parent[m]} \cup up[Parent[m]] ELSE {}
  IN  up[n]

-----------------------------------------------------------------------------
(* Calls.  rest is what remains to be done when the call is over. *)

Call(op, n) == [op |-> op, n |-> n, i |-> 1, queue |-> << >>]
CallAt(op, n, i) == [Call(op, n) EXCEPT !.i = i]
CallQueue(n, q) == [Call("queue", n) EXCEPT !.queue = q]

Top == stack[1]
Rest == Tail(stack)
At(op) == outcome = "running" /\ ~blocked /\ stack # << >> /\ Top.op = op

SetKind(n, k, rest) ==
  /\ kind' = [kind EXCEPT ![n] = k]
  /\ stack' = rest
  /\ UNCHANGED <<errs, fails, outcome>>

\* dispatchTasksForObject sets the kind before it executes the fields.
StartObject(n, rest) == SetKind(n, "object", <<Call("fields", n)>> \o rest)

\* mutation: the error is discarded when the node itself is nil, as it is by now
AppendErrorOwn(n) == errs' = errs

\* AppendError discards an error whose parent is nil.
AppendError(n) == errs' = IF IsNil(Parent[n]) THEN errs ELSE errs \cup {n}
Nilled(n) == {n} \cup IF IsNil(Parent[n]) THEN {} ELSE Propagated(Parent[n])

\* handleNodeError: the path is computed first.
Fail(n, rest) ==
  IF PathPanics(n)
  THEN outcome' = "panic" /\ UNCHANGED <<stack, kind, errs, fails>>
  ELSE /\ kind' = [m \in Nodes |-> IF m \in Nilled(n) THEN "nil" ELSE kind[m]]
       /\ AppendError(n)
       /\ fails' = fails + 1
       /\ stack' = rest
       /\ UNCHANGED outcome

\* The load of n's value is in phase p.  LoadWith makes the loader pending, also when
\* its cache has the task; a future that is not new may come from elsewhere.
Load(n, p) ==
  /\ fut' = [fut EXCEPT ![n] = p]
  /\ pending' \in IF p = "queued" THEN {TRUE} ELSE {pending, TRUE}

\* mutation: the node's task is not retained
AwaitUnretained(n, rest) ==
  /\ asy' = [asy EXCEPT ![n] = "live"]
  /\ taskCycle' = [taskCycle EXCEPT ![n] = cycle]
  /\ \E p \in {"queued", "flying", "done"} : Load(n, p)
  /\ stage' = [stage EXCEPT ![n] = 1]
  /\ stack' = <<Call("poll", n), Call("drain", Root)>> \o rest
  /\ UNCHANGED <<kind, errs, nulls, fails, refs, outcome>>

\* completeValuePrologue for a future: an AsyncValueTask is dispatched.  The
\* future may be new, loaded for an earlier field, or already completed.
Await(n, rest) ==
  /\ refs' = [refs EXCEPT ![Owner[n]] = @ + 1]
  /\ asy' = [asy EXCEPT ![n] = "live"]
  /\ taskCycle' = [taskCycle EXCEPT ![n] = cycle]
  /\ \E p \in {"queued", "flying", "done"} : Load(n, p)
  /\ stage' = [stage EXCEPT ![n] = 1]
  /\ stack' = <<Call("poll", n), Call("drain", Root)>> \o rest
  /\ UNCHANGED <<kind, errs, nulls, fails, outcome>>

NotAwait == UNCHANGED <<taskVars, fut, stage, pending>>

SetNil(n, rest) == SetKind(n, "nil", rest) /\ nulls' = nulls \cup {n}

\* completeNonWrappingValue with completeLeafValue, completeObjectValue and
\* completeAbstractValue; the type is n's without NonNull.
CompleteNonWrapping(n, v, rest) ==
  \/ v = "future" /\ Await(n, rest)
  \/ /\ NotAwait
     /\ \/ v \in {"error", "bad"} /\ Fail(n, rest) /\ UNCHANGED nulls
        \/ v = "nil" /\ SetNil(n, rest)
        \/ /\ v = "value"
           /\ IF Shape[n] = "leaf" THEN SetKind(n, "leaf", rest)
              ELSE StartObject(n, rest)
           /\ UNCHANGED nulls

\* One round of completeWrappingValue's loop, for the node taken from its queue.
\* Elements of a wrapping type are queued, others are completed one by one.
CompleteQueued(n, v, queue, rest) ==
  LET more == <<CallQueue(n, queue)>> \o rest
      wrapped == \E i \in DOMAIN Kids[n] : Wrapping(Kids[n][i])
  IN  IF IsNil(Parent[n])
      THEN NotAwait /\ stack' = more /\ UNCHANGED <<treeVars, outcome>>
      ELSE \/ v = "nil" /\ n \in nonNull /\ Fail(n, more) /\ UNCHANGED nulls /\ NotAwait
           \/ v = "nil" /\ n \notin nonNull /\ SetNil(n, more) /\ NotAwait
           \/ v # "nil" /\ Shape[n] # "list" /\ CompleteNonWrapping(n, v, more)
           \/ /\ v # "nil" /\ Shape[n] = "list" /\ NotAwait /\ UNCHANGED nulls
              /\ IF v # "value" THEN Fail(n, more)   \* "Expected Iterable"
                 ELSE IF wrapped
                 THEN SetKind(n, "list", <<CallQueue(n, queue \o Kids[n])>> \o rest)
                 ELSE SetKind(n, "list", <<Call("elements", n)>> \o more)

\* completeValue with the declared type of field n
CompleteValue(n, v, rest) ==
  \/ ~Wrapping(n) /\ CompleteNonWrapping(n, v, rest)
  \/ Wrapping(n) /\ v = "error" /\ Fail(n, rest) /\ UNCHANGED nulls /\ NotAwait
  \/ Wrapping(n) /\ v = "future" /\ Await(n, rest)
  \/ Wrapping(n) /\ v \notin {"error", "future"} /\ CompleteQueued(n, v, << >>, rest)

\* What comes back for n.  A bound, not code: at most MaxErrors failures.
Answer(n) ==
  IF fails < MaxErrors THEN Answers[n]
  ELSE Answers[n] \ ({"error", "bad"} \cup IF n \in nonNull THEN {"nil"} ELSE {})

-----------------------------------------------------------------------------
(* The goroutine that executes the operation *)

\* execute: collectFields may fail for the root.
Execute ==
  /\ At("execute")
  /\ \/ StartObject(Root, << >>)
     \/ errs' = {Root} /\ stack' = << >> /\ UNCHANGED <<kind, fails, outcome>>
  /\ UNCHANGED <<nonNull, nulls, loadVars, taskVars, yieldVars>>

\* dispatchTasksForObject: one field after the other, each with a task of its own
\* that is dispatched, that is, run and drained.
Fields ==
  /\ At("fields")
  /\ IF Top.i > Len(Kids[Top.n])
     THEN stack' = Rest /\ UNCHANGED refs
     ELSE LET field == Kids[Top.n][Top.i] IN
          /\ refs' = [refs EXCEPT ![field] = 1]
          /\ stack' = <<Call("run", field), Call("drain", Root), CallAt("fields", Top.n, Top.i + 1)>>
                      \o Rest
  /\ UNCHANGED <<nonNull, treeVars, loadVars, asy, taskCycle, yieldVars, outcome>>

\* ExecuteNodeTask.run
RunNode ==
  /\ At("run")
  /\ \E v \in Answer(Top.n) : CompleteValue(Top.n, v, <<Call("release", Top.n)>> \o Rest)
  /\ UNCHANGED <<nonNull, waker, wakes, yieldVars>>

\* The loop of completeWrappingValue
Queue ==
  /\ At("queue")
  /\ IF Top.queue = << >>
     THEN stack' = Rest /\ NotAwait /\ UNCHANGED <<treeVars, outcome>>
     ELSE LET n == Head(Top.queue) IN
          \E v \in Answer(n) : CompleteQueued(n, v, Tail(Top.queue), Rest)
  /\ UNCHANGED <<nonNull, waker, wakes, yieldVars>>

\* The loop over the elements of a list whose element type is not wrapping.  Only
\* a value that does not fit its type (not an error value) ends it, if the list
\* is nil then; the list's own iterator may fail as well.
Elements ==
  /\ At("elements")
  /\ LET list == Top.n
         next == <<CallAt("elements", list, Top.i + 1)>> \o Rest
     IN  \/ Top.i > Len(Kids[list]) /\ stack' = Rest /\ NotAwait /\ UNCHANGED <<treeVars, outcome>>
         \/ /\ "bad" \in Answer(list)
            /\ Fail(list, Rest) /\ NotAwait /\ UNCHANGED nulls
         \/ /\ Top.i <= Len(Kids[list])
            /\ LET n == Kids[list][Top.i] IN
               \E v \in Answer(n) :
                 CompleteNonWrapping(n, v, IF v = "bad" /\ IsNil(list) THEN Rest ELSE next)
  /\ UNCHANGED <<nonNull, waker, wakes, yieldVars>>

\* ExecuteNodeTask.release
Release ==
  /\ At("release")
  /\ refs' = [refs EXCEPT ![Top.n] = @ - 1]
  /\ stack' = Rest
  /\ UNCHANGED <<nonNull, treeVars, loadVars, asy, taskCycle, yieldVars, outcome>>

-----------------------------------------------------------------------------
(* AsyncValueTask.run *)

\* Poll finds the value.  A chained future then asks for its second load and polls
\* that one.
PollReady ==
  /\ At("poll") /\ fut[Top.n] = "done"
  /\ IF Top.n \in Chained /\ stage[Top.n] = 1
     THEN /\ stage' = [stage EXCEPT ![Top.n] = 2]
          /\ Load(Top.n, "queued")
          /\ waker' = waker \ {Top.n}
          /\ UNCHANGED <<stack, asy>>
     ELSE /\ asy' = [asy EXCEPT ![Top.n] = "over"]
          /\ stack' = <<Call("value", Top.n)>> \o Rest
          /\ UNCHANGED <<stage, fut, pending, waker>>
  /\ UNCHANGED <<nonNull, treeVars, wakes, refs, taskCycle, yieldVars, outcome>>

\* Poll stores the waker where whoever completes the future finds it ...
PollStore ==
  /\ At("poll") /\ fut[Top.n] # "done"
  /\ waker' = waker \cup {Top.n}
  /\ stack' = <<Call("publish", Top.n)>> \o Rest
  /\ UNCHANGED <<nonNull, treeVars, fut, stage, wakes, pending, taskVars, yieldVars, outcome>>

\* ... and starts again if the future was completed meanwhile.
PollPublish ==
  /\ At("publish")
  /\ stack' = <<Call(IF fut[Top.n] = "done" THEN "poll" ELSE "yield", Top.n)>> \o Rest
  /\ UNCHANGED <<nonNull, treeVars, loadVars, taskVars, yieldVars, outcome>>

\* The value is there; Poll's own error path does not release the node's task.
\* An element is completed with the type it was queued with, less its NonNull.
\* Not modelled: a value that is a future again.
Value ==
  /\ At("value")
  /\ LET n == Top.n
         then == <<Call("release", Owner[n])>> \o Rest
     IN  \E v \in Answer(n) \ {"future"} :
           \/ v = "error" /\ Fail(n, Rest) /\ NotAwait /\ UNCHANGED nulls
           \/ IF IsElement(n) THEN CompleteNonWrapping(n, v, then) ELSE CompleteValue(n, v, then)
  /\ UNCHANGED <<nonNull, waker, wakes, yieldVars>>

\* mutation: a task that was resumed meanwhile is set to waiting again
YieldOver ==
  /\ At("yield")
  /\ yieldTasks' = [yieldTasks EXCEPT ![Top.n] = "waiting"]
  /\ stack' = <<Call("tryDispatch", Top.n)>> \o Rest
  /\ UNCHANGED <<nonNull, treeVars, loadVars, taskVars, blocked, cycle, outcome>>

Yield ==
  /\ At("yield")
  /\ yieldTasks' = [yieldTasks EXCEPT ![Top.n] = IF @ = "none" THEN "waiting" ELSE @]
  /\ stack' = <<Call("tryDispatch", Top.n)>> \o Rest
  /\ UNCHANGED <<nonNull, treeVars, loadVars, taskVars, blocked, cycle, outcome>>

\* tryDispatchDataLoaders.  The new cycle it returns is ignored.
TryDispatch ==
  /\ At("tryDispatch")
  /\ IF pending /\ taskCycle[Top.n] = cycle
     THEN cycle' = cycle + 1 /\ stack' = <<Call("dispatch", Root)>> \o Rest
     ELSE stack' = Rest /\ UNCHANGED cycle
  /\ UNCHANGED <<nonNull, treeVars, loadVars, taskVars, yieldTasks, blocked, outcome>>

\* dispatchDataLoaders, one round
DispatchLoaders ==
  /\ At("dispatch")
  /\ pending' = FALSE
  /\ IF pending
     THEN /\ fut' = [n \in Nodes |-> IF fut[n] = "queued" THEN "flying" ELSE fut[n]]
          /\ UNCHANGED stack
     ELSE stack' = Rest /\ UNCHANGED fut
  /\ UNCHANGED <<nonNull, treeVars, stage, waker, wakes, taskVars, yieldVars, outcome>>

-----------------------------------------------------------------------------
(* executor.Dispatch, after the task was run *)

Resumed == {n \in Nodes : yieldTasks[n] = "resumed"}
Yielded == {n \in Nodes : yieldTasks[n] # "none"}

\* mutation: Dispatch returns when no task can be run
DrainLeave ==
  /\ At("drain")
  /\ Resumed = {}
  /\ stack' = Rest
  /\ UNCHANGED <<nonNull, treeVars, loadVars, taskVars, yieldVars, outcome>>

DrainReturn ==
  /\ At("drain")
  /\ Yielded = {}
  /\ stack' = Rest
  /\ UNCHANGED <<nonNull, treeVars, loadVars, taskVars, yieldVars, outcome>>

\* A resumed task is run.  If it is over already, it uses a node task that it has
\* released: the model does not follow what happens then.
DrainRun ==
  /\ At("drain")
  /\ \E n \in Resumed :
       /\ yieldTasks' = [yieldTasks EXCEPT ![n] = "none"]
       /\ IF asy[n] = "live"
          THEN stack' = <<Call("poll", n)>> \o stack /\ UNCHANGED outcome
          ELSE outcome' = "rerun" /\ UNCHANGED stack
  /\ UNCHANGED <<nonNull, treeVars, loadVars, taskVars, blocked, cycle>>

DrainWait ==
  /\ At("drain")
  /\ Yielded # {} /\ Resumed = {}
  /\ blocked' = TRUE
  /\ UNCHANGED <<nonNull, stack, treeVars, loadVars, taskVars, yieldTasks, cycle, outcome>>

Return ==
  /\ outcome = "running" /\ stack = << >>
  /\ outcome' = "returned"
  /\ UNCHANGED <<nonNull, stack, treeVars, loadVars, taskVars, yieldVars>>

Goroutine ==
  \/ Execute \/ Fields \/ RunNode \/ Queue \/ Elements \/ Release
  \/ PollReady \/ PollStore \/ PollPublish \/ Value \/ Yield \/ TryDispatch \/ DispatchLoaders
  \/ DrainReturn \/ DrainRun \/ DrainWait \/ Return

-----------------------------------------------------------------------------
(* Goroutines of the batch loaders *)

\* Task.complete: the result first, then the wakers.
CompleteFuture(n) ==
  /\ outcome = "running"
  /\ fut[n] = "flying"
  /\ fut' = [fut EXCEPT ![n] = "done"]
  /\ wakes' = IF n \in waker THEN wakes \cup {<<n, stage[n], "resume">>} ELSE wakes
  /\ UNCHANGED <<nonNull, stack, treeVars, stage, waker, pending, taskVars, yieldVars, outcome>>

\* AsyncValueTask.wake and executor.Resume: mark the task, then signal.
Resume(w) ==
  /\ outcome = "running"
  /\ w \in wakes
  /\ IF w[3] = "resume"
     THEN /\ yieldTasks' = [yieldTasks EXCEPT ![w[1]] = "resumed"]
          /\ wakes' = (wakes \ {w}) \cup {<<w[1], w[2], "signal">>}
          /\ UNCHANGED blocked
     ELSE /\ blocked' = FALSE
          /\ wakes' = wakes \ {w}
          /\ UNCHANGED yieldTasks
  /\ UNCHANGED <<nonNull, stack, treeVars, fut, stage, waker, pending, taskVars, cycle, outcome>>

Init ==
  /\ nonNull \in NonNulls
  /\ stack = <<Call("execute", Root)>>
  /\ kind = [n \in Nodes |-> "none"]
  /\ errs = {} /\ nulls = {} /\ fails = 0
  /\ refs = [n \in Nodes |-> 0]
  /\ asy = [n \in Nodes |-> "none"]
  /\ fut = [n \in Nodes |-> "none"]
  /\ stage = [n \in Nodes |-> 1]
  /\ waker = {} /\ wakes = {} /\ pending = FALSE
  /\ cycle = 0 /\ taskCycle = [n \in Nodes |-> 0]
  /\ yieldTasks = [n \in Nodes |-> "none"] /\ blocked = FALSE
  /\ outcome = "running"

Next ==
  \/ Goroutine
  \/ \E n \in Nodes : CompleteFuture(n)
  \/ \E w \in wakes : Resume(w)

Spec == Init /\ [][Next]_vars

\* The goroutine is scheduled, batch jobs complete what was dispatched, and a
\* completer calls the wakers it took.
FairSpec ==
  /\ Spec
  /\ WF_vars(Goroutine)
  /\ \A n \in Nodes : WF_vars(CompleteFuture(n))
  /\ \A n \in Nodes, i \in {1, 2}, step \in {"resume", "signal"} : WF_vars(Resume(<<n, i, step>>))

-----------------------------------------------------------------------------
(* Properties *)

TypeOK ==
  /\ nonNull \in NonNulls
  /\ kind \in [Nodes -> {"none", "nil", "leaf", "object", "list"}]
  /\ errs \subseteq Nodes /\ nulls \subseteq Nodes /\ fails \in Nat
  /\ refs \in [Nodes -> Nat]
  /\ asy \in [Nodes -> {"none", "live", "over"}]
  /\ fut \in [Nodes -> {"none", "queued", "flying", "done"}]
  /\ stage \in [Nodes -> {1, 2}]
  /\ waker \subseteq Nodes
  /\ wakes \subseteq Nodes \X {1, 2} \X {"resume", "signal"}
  /\ yieldTasks \in [Nodes -> {"none", "waiting", "resumed"}]
  /\ cycle \in Nat /\ taskCycle \in [Nodes -> 0..cycle]
  /\ pending \in BOOLEAN /\ blocked \in BOOLEAN
  /\ outcome \in {"running", "returned", "panic", "rerun"}

Visible(n) == \A a \in Anc[n] : ~IsNil(a)
Below(m, n) == m = n \/ n \in Anc[m]

\* Whatever is on the stack or yielded for a field's task holds a reference to it:
\* the task is not in the free list while the execution still uses it.
Referenced ==
  /\ \A k \in DOMAIN stack :
       stack[k].op \notin {"execute", "fields", "drain", "dispatch"} => refs[Owner[stack[k].n]] > 0
  /\ \A n \in Nodes : asy[n] = "live" => refs[Owner[n]] > 0

\* A null in the response that was not the value of its field is accounted for by
\* an error at or below it.
NullsExplained ==
  outcome = "returned" =>
    \A n \in Nodes : Visible(n) /\ IsNil(n) => n \in nulls \/ \E e \in errs : Below(e, n)

\* A field starts only when nothing below an earlier field of the object waits for
\* a future: what a mutation needs, but not what Yield's comment promises.
SerialFields ==
  \A p \in Nodes : Shape[p] = "object" =>
    \A i, j \in DOMAIN Kids[p] : i < j /\ (kind[Kids[p][j]] # "none" \/ asy[Kids[p][j]] # "none") =>
      \A n \in Nodes : asy[n] = "live" => ~Below(n, Kids[p][i])

\* ResultNode.Path panics only after an earlier error was propagated to a node
\* other than the root: a first error never does.
PanicsAfterError ==
  outcome = "panic" => \E e \in errs : \E a \in Anc[e] \ {Root} : IsNil(a)

\* A chained future asks for data in a cycle that is over for its task: nobody
\* dispatches its loader.
Stranded == \E n \in Chained : blocked /\ stage[n] = 2 /\ fut[n] = "queued" /\ taskCycle[n] < cycle

\* Every execution ends, unless it waits for a second load of a future: no wake-up
\* between Poll, Yield and the wait in Dispatch is lost.
EndsUnlessStranded == <>(outcome # "running" \/ Stranded)

\* Dispatch runs a resumed task only while its node task holds a reference: one that release has put
\* into the free list "should not be used thereafter". Violated: a waker called late resumes a task
\* that is over.
ReleasedUnused == At("drain") => \A n \in Resumed : refs[Owner[n]] > 0
=============================================================================
