# Artemis in TLA+

A model of [Artemis](../src), a GraphQL server library in Go: TLA+ modules translated from the
source, TLC configurations that check them on small instances, and TLAPS proofs for every
instance. `PROJECT.json` maps each definition to its source lines and lists runs, mutants,
findings, hazards and theorems.

    tlc -workers 2 -config WorkerPoolSafety.cfg MCWorkerPool    # likewise for the other runs
    tlapm --threads 2 WorkerPoolProofs.tla                      # likewise for the other proofs

## 1. The system

| Part (under `src/`) | State | Operations | Hard because |
|---|---|---|---|
| `concurrent`: `WorkerPoolExecutor` | an atomic state word (run state, worker count), a task queue with mutex and condition variable, handles with results, Shutdown channels | `Submit`, `Shutdown`, `Cancel`, `AwaitResult`; the worker loop `run`/`pollTask` | lock-free state word next to a locked queue; decisions on stale loads; termination must be noticed by somebody |
| `concurrent`: `Executor`, `Task`, `TaskHandle`, `Queue` | none (interfaces) | the promises | |
| `concurrent/future` | `BlockOn`: flag and condition variable; `Join`: values, pending count, stored error | `Poll`, `Wake`, `BlockOn`, `Join`, `Ready`, `Err` | wake-ups race polls; `Wake` re-enters `Poll` |
| `dataloader`: `Task` | one atomic pointer to a result, with an array of wakers while incomplete | `newFuture`, `Poll`, `Complete`, `SetError` | lock-free, writes in place before its CAS |
| `dataloader`: `DataLoader`, `BatchLoadJob`, `CacheMap` | queue of tasks under a mutex, concurrent cache | `Load`, `LoadMany`, `Dispatch`, `Clear`, `ClearAll`, `Prime`, `PrimeError` | cache and queue are updated separately, unlocked read of the queue, a Runner that may refuse, a loader that may forget |
| `graphql/executor` | the tree of result nodes, the run queue of an executor and its cycle number, the futures of yielded tasks | `Prepare`, collecting fields, resolving, completing values, `Dispatch`, `Yield`, `Resume`, `AppendError` | asynchronous values, null propagation, when to dispatch data loaders |
| `graphql/handler` | one LRU cache of prepared operations for all requests: a map, a ring of entries, an allocator with a bit set, a mutex | `ServeHTTP`, `ParseHTTPRequest`, `Get`, `Add`, `Serve`, the error presenter | the cache is shared and at its limit; the key does not say all that the operation depends on |
| `graphql`: type creation | `createdTypes`, one result with a channel per definition, and the definitions a call is finalizing | `NewType` and friends | recursive creation of types that refer to each other, by several goroutines |
| `graphql/lexer`, `token` | the current token, the list of tokens | `Advance`, `Lookahead`, one function per kind of token; `LocationInfo` | longest tokens, escapes, block strings, comments inside the list |
| `graphql/parser`, `ast`, `ast/visitor` | the lexer; nodes that store one token | `Parse`, `ParseValue`, `ParseType`; `TokenRange`; `Print`; visitors | optional parts and keywords that are names; ranges are reconstructed from neighbours |
| `graphql/validator` | the walk's context: errors, skipping rules, fragments visited, memo tables | the walk and the standard rules | fragments are entered from several operations, cyclic spreads, memo tables of overlapping fields |
| `graphql`: schema, types, scalars, introspection; `internal/value`, `typeutil` | immutable once built | queries about types, coercions | corner cases of numbers, null and absent |
| `jsonwriter`, `internal/*`, `iterator` | buffers | output, helpers | |

How they interact: a request is parsed and its operation looked up in the cache, or its query is
lexed, parsed and validated and the operation prepared and added. A GraphQL execution resolves
fields; resolvers may return futures, typically of a `DataLoader`. The executor yields on a pending
future, dispatches the pending loaders and waits. `Dispatch` cuts the queued tasks into batches,
runs a `BatchLoadJob` for each on the configured `Runner` (a `WorkerPoolExecutor` or any other
`Executor`), the job calls the user's `BatchLoader`, which completes tasks, which call the wakers
their futures registered, which resume whoever polled: a goroutine in `BlockOn`, a `Join`, or the
executor. Types are created before, usually by package initialisation, but by any goroutine.

What makes each part correct is stated by the properties of the runs below.

## 2. The modules

| Module | Models | Checked by |
|---|---|---|
| `Executor` | the promise of `concurrent.Executor`: life of a task, termination | refinement target of `WorkerPool` |
| `WorkerPool` | `concurrent/worker_pool_executor.go` | `WorkerPoolSafety`, `WorkerPoolPair`, `WorkerPoolLive` |
| `WorkerPoolProofs`, `WorkerPoolRefinement` | theorems about `WorkerPool`; that it implements `Executor` | `tlapm` |
| `LoaderTask` | `dataloader/task.go`: steps only | extended by `LoadMany` |
| `LoadMany` | `future.BlockOn` and `future.Join` on the futures of `LoaderTask` | `LoadMany` |
| `LoadManyProofs` | theorems about `LoadMany` and `LoaderTask` | `tlapm` |
| `DataLoader` | `dataloader/dataloader.go`, `batch_job.go`, `cache_map.go` | `DataLoader` |
| `DataLoaderProofs` | theorems about `DataLoader` | `tlapm` |
| `Execution` | `graphql/executor`: `execute.go`, `executor.go`, `result_node.go`; the data loader manager | `Execution` |
| `ExecutionProofs` | theorems about `Execution` | `tlapm` |
| `Tokens`, `Ast`, `Parser` | `graphql/token`, `ast`, `ast/visitor`, `parser` as operators | extended by `Language` |
| `Grammar` | the grammar that the parser's comments quote, as productions: the reference definition | extended by `Language` |
| `Language` | documents written token by token; composes the four above | `Language` |
| `Lexer` | `graphql/lexer`, block strings, `LocationInfo`, printing of strings | `Lexer` |
| `Document`, `Overlapping`, `Rules` | nodes and types as the validator sees them; the rules | extended by `Validation` |
| `Validation` | `graphql/validator`: the walk; documents written node by node | `Validation` |
| `OperationCache` | `handler/operation_cache.go` as operators | extended by `Handler` |
| `Handler` | `graphql/handler` and `executor.Prepare`: goroutines that serve requests | `Handler`, `HandlerCache` |
| `HandlerProofs` | a theorem about `Handler` | `tlapm` |
| `TypeCreator` | `graphql/type_creator.go` | `TypeCreator` |
| `TypeCreatorProofs` | theorems about `TypeCreator` | `tlapm` |

`MC*` modules instantiate them for TLC. A definition whose comment begins with `mutation:` or
"As if" is a plausible bug; `PROJECT.json` names the property that it must break. It is not part
of any specification.

### WorkerPool

Processes are the goroutines: one per `Submit` call (which then owns the handle and may `Cancel`),
the workers, one per `Shutdown` call, and one per awaited handle. An action is one atomic access:
a load of the state word (its value is kept in `seen`), a CAS, a critical section of the queue's
or the executor's mutex. `pc` is the program point between two accesses. The state word is a
record; CAS compares the whole record, as the code compares the whole word. `job` says which of
the four callers of `addWorker` a process is in. The queue's circular list is a sequence.

A `Queue` is configurable in the code; `TimedPoll` and `QueueCapacity` stand for that: the default
queue ignores the timeout and has no capacity.

`Executor` knows tasks that are new, offered, pending, running, done, cancelled or rejected, and
an executor that runs, is shut down or terminated. `ImplementsExecutor` maps the pool's state to
it: e.g. a task is *pending* when its `Submit` has returned and it is still queued.

### LoaderTask and LoadMany

`result[t].ver` is the identity of the `taskResult` object that the CAS compares, and the length
of `wakers[t]` the identity of the array (`newFuture` always makes a longer one, `Poll` republishes
the one it loaded). `Poll` stores a waker, an interface of two words, without synchronisation:
in between, a reader sees `Torn`. Calling a torn waker does nothing or crashes, which is what
the two possible mixtures of words do. Functions are never equal for `reflect.DeepEqual`, so a
`BlockOn` waker is written again at every poll; a join's waker is a pointer and is not.

A client waits through `BlockOn` on one future or on a `Join` of several. Completers run the
wakers on their own goroutine. `twice` records that a value of a join was counted twice, `crashed`
that the program panicked (a torn waker, or `atomic.Value` given errors of two types). `deployed`
records the wakers that a CAS of `Poll` has published; `Poll` may also return Pending because it
found its waker in the array, and then it has not published anything.

### DataLoader

Tasks are numbers, in the order of creation. One action covers each critical section of
`queueMutex`, except that `Enqueue` is cut after `cacheMap.Set`, because the cache is visible
without the lock. `Dispatch` reads `loader.queue` unlocked, a data race: the read may return any
queue that `c` does not know to be replaced, and `seen[c]` is what `c` knows through the lock or
through a cached task. Completing a task is one step here (`LoaderTask` has the details), the
`Runner` may refuse a job, run it later or not exist, and the `BatchLoader` may complete any of the
tasks in any order, also from another goroutine after `Load` returned. `sync.Map` is an atomic map.
`LoadMany` is `Load` for one key after the other; its `Join` is in module `LoadMany`.

### Execution

One goroutine executes an operation by recursive calls; `stack` is its call stack, innermost call
first, one record per call that is not finished (which loop, for which result node, at which
child). Other goroutines complete futures and call wakers. Steps of the goroutine that touch
nothing shared are cut only where a call begins or ends.

The tree of result nodes is a constant; which positions have a non-null type is chosen initially,
and what a resolver or a list element yields when it is asked for: a value, nil, an error, a value
that does not fit its type (`bad`: coercion, type resolution, field collection or iteration fails)
or a future. `ShouldRejectNull` is the flag as the code sets it, `Propagated` the loop of
`propagateExecutionError`, `PathPanics` says when `ResultNode.Path` indexes out of range. Elements
of a wrapping type go through the queue of `completeWrappingValue`, others through its inner loop,
with the different rules for futures, errors and nil ancestors that the two have.

`Poll` is two steps (store the waker, publish it), as in `LoaderTask`, because a completer may call
a waker that is stored and not published. A future in `Chained` needs a second load when the first
is there: a future of the application whose `Poll` calls `LoadWith` again. `outcome` is `panic` when
`Path` panics and `rerun` when a finished task is run again; the model stops there, because what
follows depends on what the free list handed out. All data loaders of a manager are one. Two details
are left out: a future whose value is a future again (`completeValue` would wait for that one too), and
the elements that a failing iterator has queued before it fails, which the list's error makes nil
anyway.

### Language: Tokens, Ast, Parser, Grammar

A document is a sequence of tokens between `SOF` and `EOF`, a token is its place in it. Every parse
function takes the place of the lexer's current token and returns the place it leaves the lexer at
with the node it built; an error at token `p` is the place `-p`, and is passed on. A node stores
what the Go node stores: one token at most and its children; `TokenRange` computes first and last token
from those and from the neighbours of tokens, as `ast.go` does. `span` is a history variable: the
tokens the parser consumed for the node. The generated visitor is one operator over the kinds of
node (`Walk`), with the abstract kinds (`Node`, `Value`, `Selection`, `Type`) it also accepts, and
`Print` gives the tokens that the printer writes; layout is left out.

`Grammar` does not look at the parser: it is a context-free grammar with the operator that
computes where a sentence can end. A document grows token by token (`Write`) in a frame, and the
properties compare parser, ranges, printer and visitor with the grammar and each other. `Hopeful`
stops at a prefix that neither the parser nor the grammar can continue: the parser's error lies before
its end, and no sentence begins with it.

### Lexer

A text is a sequence of character codes, and a lexing function returns the place behind the token
or minus the place of the error. What tells tokens apart is modelled exactly: leading zeros, `.`, exponents,
escapes and their four hex digits, control characters, the byte order mark, line ends (`\r\n` is one),
the removal of common indentation in block strings. A code above 127 stands for a whole character,
because the code only passes such bytes on. The printer's string and block string (with the
indentation of its level) and `jsonwriter`'s escapes are conversions and are
modelled character by character, because a property is about them.

### Validation: Document, Overlapping, Rules

A document is the sequence of its nodes, each with the place of its parent; the place is the
identity that the code's pointers have. The walk (`Validation`) visits them as `walk.go` does,
with the context threaded through: the errors so far (a rule and the nodes it names), which rules skip the
current subtree, the fragments that were visited for the operation, the variables used, the memo
tables of `Overlapping`. `panicked` says that a rule dereferenced nil; the properties speak of the
documents on which `Validate` returns (`Judged`). `MaxDepth` cuts the comparison of fields below fields, which the
code does not bound when fragments form a cycle. Arguments are compared as the code does, by the Go
values that `Interface()` makes of them: an integer outside int32 (`MaxInt32`) becomes 0, a float that does not parse
(beyond `MaxFloat64`) NaN, enums, variables and strings all become strings, lists slices and objects maps. The reference definitions are written from the GraphQL
specification: reachability among fragments, the set of variables an operation reaches, the
expansion of selection sets (`Expand`, `Clash`), calls that are written alike (`SameCall`, which looks
at the nodes and at no conversion), literals that fit a type (`Fits`).

### Handler and OperationCache

A goroutine serves one request. What `ParseHTTPRequest` makes of it follows from method, content
type and fault; then come `Get`, `parser.Parse` with `executor.Prepare`, `Add` and `Serve`, where
`Get` and `Add` are one step each because they run under the cache's mutex. The cache is the map, the ring of
entries with its links, the bit set of the allocator and the operation of each entry; its operators
follow the code, faults included: `NextSet` returns an entry whose bit is *set*, and eviction locks
the mutex a second time, so `AddEvicts` never ends and what follows it in the code is never reached.
A document is the sequence of its operations, an operation is `<<"data", query, place>>`, and the
answer to a request is its operation, an error page, an empty page or a panic (which `net/http`
recovers).

### TypeCreator

One action per access of `createdTypes` (`Load`, `LoadOrStore`), of a channel (wait, close) and per
reference that is resolved. `stack` is a goroutine's stack of `newTypeImpl` calls with what is left
to resolve; the definitions on it are `finalizingTypeDefs`, which is why a type that refers to itself does not wait.
`created[d]` has the instance (named by the goroutine that made it), whether its channel is closed,
and whether with an error. `flaw` chooses where a creation fails: before the type is stored
or while it is finalized. `asked` and `result` are the definition a goroutine called `NewType` with and
what it returned, `fields` is what each instance refers to. `Reach`, the transitive
references of a definition, is the least closed set of definitions that holds its references.

## 3. The runs

| Run | Instance | Shows |
|---|---|---|
| `WorkerPoolSafety` | `MinPoolSize` 0, timed queue of capacity 1, two tasks, two Shutdowns | counting, one place per task, nothing lost, every Shutdown signalled once and not too early, refinement of `Executor`; 387 373 states |
| `WorkerPoolPair` | `MinPoolSize` 2, `MaxPoolSize` 3, four tasks, default queue | `PoolBound`, `NoLostWakeup`; 158 747 states |
| `WorkerPoolLive` | default queue, fairness | `Submit` and `AwaitResult` return, accepted tasks complete, Shutdown is signalled unless a task was withdrawn; 65 237 states |
| `LoadMany` | one task wanted twice by a `Join` and once by a `BlockOn`, one completer, fairness | deployed wakers stay, everyone gets the one result, `BlockOn` returns unless a `Join` counted twice, a waker was left behind or the program crashed; 99 714 states |
| `DataLoader` | two clients, two keys, at most three tasks and four calls, three configurations | batching, coalescing, `Dispatch` leads to completion of what its caller loaded; 122 292 states |
| `Execution` | `{ a { b { d } c } l }` with a list of two, four choices of non-null positions, two nodes with futures, one of them chained, at most two failures | reference counts, nulls, order of fields, `Path`, the end; 339 825 states |
| `Language` | five tokens in each of twelve frames | parser = grammar, ranges, print and parse again, visitors; about 20 000 states |
| `Lexer` | five characters in each of eight frames | longest tokens, locations, strings survive printing; about 59 000 states |
| `Validation` | ten frames, up to ten nodes (eighteen with the fixed part), a schema of pets, `MaxInt32` and `MaxFloat64` 1 | fragments, variables, conflicts, literals; 145 312 states |
| `Handler` | three requests of seventeen, a cache of one entry or none | a miss is answered as asked; every request is answered until the cache is full; about 80 000 states |
| `HandlerCache` | the same with a cache of two entries | **violation**: a hit answers with the operation of another query |
| `TypeCreator` | three goroutines, three definitions, three graphs, four flaws | one instance, complete when handed out, `NewType` returns unless goroutines cross; about 61 000 states |

Beside the runs there are instances for single questions, most of them a trace of a finding that a property of a
run exempts. They use the `MC` module of their part:

| Instance | Differs by | Result |
|---|---|---|
| `WorkerPoolIdle.cfg` | `MinPoolSize` 0, a queue that honours its timeout, no Shutdown, fairness | violates `AcceptedCompletes` (finding 2): an accepted task is left without a worker |
| `WorkerPoolWithdrawn.cfg` | as `WorkerPoolLive` | violates `ShutdownSignalled` (finding 1): a Shutdown is never signalled |
| `LoadRace.cfg` | one task, a `Join` of one future and a `BlockOn`, two completers | whoever completes first, everyone gets that result; 208 289 states |
| `LoadManyLost.cfg` | one task, three futures, one of them of a `Join` | violates `WakerDeployed` (finding 5): a waker is left behind in a replaced array |
| `DataLoaderRefused.cfg` | one client and one key, a Runner that may refuse, fairness | violates `DispatchCompletes` (finding 27): the tasks of a refused job are never completed |
| `ExecutionRerun.cfg` | as `Execution`, without fairness | violates `ReleasedUnused` (finding 8): a finished task is about to run on a released node task |
| `ValidationArguments.cfg` | the frame with lists as arguments | violates `ConflictsFoundAll` (finding 28): different arguments count as the same |
| `ValidationInline.cfg` | the frame with inline fragments | violates `ConflictsFoundAll` (finding 16): conflicts behind an inline fragment are misjudged |
| `HandlerFull.cfg` | three requests, a cache of one entry, fairness | violates `Answered` (finding 20): a request that meets a full cache is never answered |
| `HandlerNames.cfg` | two requests for one document by two names | violates `AnsweredAsAsked` (finding 21): a hit answers with the operation of the other name |
| `TypeCreatorCrossed.cfg` | as `TypeCreator` | violates `NewTypeReturns` (finding 11): two goroutines wait for each other |

Bounds. `WorkerPoolSafety` has what its races need: a second worker name to reuse, a second
Shutdown to find the executor terminated, a full queue. `WorkerPoolPair` needs four tasks so that
two queue up behind two workers. In `LoadMany` a `Join` of two
futures can see one of them collected by a waker while it polls the other; completers that race for one
task are in `LoadRace.cfg`, and in theorems for any number of them.
Three tasks in `DataLoader` are a full batch and a short one at `MaxBatchSize` 2 (without a
cache), and four calls allow load, clear, load, dispatch, or two dispatches that race. The tree of
`Execution` has three levels, the least on which an error can pass over a node, and a list after
the objects so that a late wake-up of the one meets the other; two failures are what `Path` needs to
go wrong. The frames of `Language` and `Lexer` put five free places where a part of the grammar begins:
selection sets, arguments, variable definitions, types, fragments, literals, comments; numbers,
names, strings, unicode escapes, block strings and lines. Five tokens are an alias with an argument, a nested list, or
a directive with its name and what follows; five characters are `-1.0e`, an escaped triple quote, or two
lines with indentation. The frames of `Validation` each feed one rule family: three fragments are a
cycle with a tail and two cycles that share a fragment, two operations and a fragment are what a stale set of visited
fragments needs, two fields of exclusive types over shared fragments are what a stale pair of
fragments needs; three more write two calls of a field with arguments, lists and objects that agree or
differ, and one defaults of variables. A largest integer of 1 has the numbers inside, at and beyond the limit. In `Handler` one entry makes the cache full at the second query; two in
`HandlerCache` are the least with which a second query can be added at all. Three goroutines in
`TypeCreator` allow two that create and one that only waits. Symmetry is used only in runs without liveness
properties.

Fairness. `WorkerPool`: weak fairness of every step of a call that was made and of every worker
(the Go scheduler runs runnable goroutines, and tasks return); no fairness for making a call or
for a timeout. `LoadMany`: weak fairness of clients and completers; that every task is completed
is what `BatchLoadJob.Run` guarantees (`DispatchLoads` in `DataLoader`). `DataLoader`: strong
fairness of the steps of a call that was made (a Go mutex does not starve its waiters) and weak
fairness of accepted jobs; none for calls, and none for the BatchLoader completing anything.
`Execution`: weak fairness of the goroutine, of completing what was dispatched (again `DispatchLoads`)
and of the wake-ups that follow; none is assumed for a load that was not dispatched. `Handler` and
`TypeCreator`: weak fairness of the next step of each goroutine, which is enough because a mutex
there is released for good or never; none for receiving a request or for calling `NewType`.

Deadlock is not checked where a run ends by itself: when all calls are made and have returned, when a
document is full, and in `Handler` and `TypeCreator` also when everybody is stuck, which the liveness
properties of these runs describe exactly.

## 4. Findings

Concurrency and execution:

1. A `Submit` that loses against `Shutdown` withdraws its task without `tryTerminate`, so the
   termination signal may never come. `SignalledUnlessWithdrawn` shows that this is the only way to
   lose it (default queue); `WorkerPoolWithdrawn` is the trace.
2. `terminateWorker`'s comparison for a replacement is inverted: with a timed queue and `MinPoolSize` 0 an
   accepted task may be left without a worker (`WorkerPoolIdle`; with the default queue `AcceptedCompletes` holds).
3. `PoolBound` (proved, `PoolBoundCorrect`): `MaxPoolSize` never has an effect.
4. `Join` may count a value twice, when a completer calls a waker that `Poll` has stored and not
   published, and then `BlockOn` may wait for ever.
5. `WakerDeployed` does not hold: `Poll` of a join whose CAS fails because another `Poll` republished the same array
   finds its own waker when it looks again and returns Pending without a CAS. A `newFuture` that had
   copied the array before the write then replaces it, and nobody will call the waker.
   It takes three futures, one to register, one whose `Poll` republishes the array meanwhile and one whose
   `newFuture` has the older copy; `LoadManyLost` is that instance. `BlockOnReturnsUnlessLost` states that, short of a panic, 4 and 5 are all that keeps `BlockOn`
   from returning; its run has two clients, so there 4 is all. An attempt to prove that every waker of a
   waiting future is in the array failed at this step; for the wakers that were deployed it is a theorem.
6. Propagation of an error begins at the parent's non-null flag, not at the failed field's.
   `NullsExplained` states what the code does instead: every null has an error or a null
   value that leads to it.
7. A second error below a node that the first one has set to nil panics in `Path`.
   `PanicsAfterError` shows that one error alone never does.
8. The early waker of 4 runs a finished `AsyncValueTask` again (`outcome = "rerun"`), also when its node
   task is in the free list (`ExecutionRerun`); `Referenced` is about the executions before that.
9. `SerialFields`: a field with a pending future blocks the fields after it, against `Yield`'s
   comment; so loads of sibling fields are never batched.
10. `EndsUnlessStranded`: a future that needs a second load is never dispatched (its task compares
   with a cycle that is over); the property shows that this is the only way for an execution not to end.
11. Two goroutines that create two types which refer to each other wait for each other;
    `NewTypeReturnsUnlessCrossed` shows that nothing else keeps `NewType` from returning, and
    `TypeCreatorCrossed` is the trace.

The front end:

12. `ListValue.LastToken` of a list that is not empty is the last token of the last element, not the
    bracket. `RangesExact` holds for documents without such lists, and
13. without comments: comment tokens are in the list of tokens, so a range found through a
    neighbour ends at the comment.
14. `Lookahead` makes a comment it passes over the current token.
15. A block string of one line that ends in a backslash is printed so that it does not end;
    `StringsSurvivePrinting` holds for all others.
16. The type condition of an inline fragment becomes the parent type of the selections behind it, and
    conflicts are missed or invented. `ConflictsFound` holds where nothing stands behind one
    (`InlineLast`); `ConflictsFoundAll` is the property without that condition, and `ValidationInline` violates it.
17. `PossibleFragmentSpreads` panics on an undefined fragment, or on a parent type that is not composite.
18. The comparison of overlapping fields has no bound when fragments form a cycle (cut at `MaxDepth`).

The handler:

19. `HandlerCache`: the allocator looks for a set bit and always finds the same one: all queries share
    one entry, and a hit answers with the operation added last.
20. Eviction locks a mutex its caller holds: that goroutine and all later requests wait for ever, and
    the limit is compared with `>` (`HandlerFull`). `AnsweredUnlessFull` shows that nothing else
    keeps a request from being answered.
21. The cache's key is the text of the query without the operation's name; `MissAnsweredAsAsked` is
    therefore about misses only, and `HandlerNames` shows a hit that is answered with the other operation.
22. `NopOperationCache` becomes a nil cache, on which `Get` is called.
23. Middlewares are never copied from the configuration.
24. A request that cannot be parsed is answered with an empty 200.
25. `Prepare` with an operation name reads the name of an anonymous operation through nil.

Also:

26. `Join` stores errors in an `atomic.Value`, which panics when a second error has another concrete
    type; the properties of `LoadMany` exempt a crash.
27. `Dispatch` drops the error of a Runner that refuses a job: the tasks are never completed, and stay
    in the cache (`DataLoaderRefused`). `DispatchLoads` exempts them.
28. `sameValue` compares arguments after a conversion that loses differences: `f(x: [$a])` and `f(x: [a])` are merged,
    so are integers beyond int32, and a float that does not parse differs from itself (`ValidationArguments`).
    `ConflictsFound` holds where no two values are confused (`KeptApart`).

## 5. The proofs

Every theorem is `Spec => []P`, or `Spec => P` for an action property or a refinement, for every
value of the constants that the named assumptions allow.

| Module | Theorem | States |
|---|---|---|
| `WorkerPoolProofs` | `TypeCorrect` | `TypeOK` |
| | `CountCorrect`, `PoolBoundCorrect` | `WorkerCountExact`, `PoolBound` |
| | `OnePlaceCorrect`, `NotLostCorrect` | `OnePlace`, `NotLost` |
| | `SignalCorrect` | `SignalMeansDone` |
| | `ShutdownDrainsCorrect` | `ShutdownDrains`, an action property |
| `WorkerPoolRefinement` | `WakeupCorrect` | `NoLostWakeup` |
| | `RefinementCorrect` | `ImplementsExecutor`: the pool implements `Executor` |
| `LoadManyProofs` | `TypeCorrect`, `SlotsCorrect` | `TypeOK`, `SlotsDistinct` |
| | `WakeupCorrect` | `NoLostWakeup` |
| | `ReturnsCorrect` | `ReturnsResult` |
| `DataLoaderProofs` | `TypeCorrect`, `BatchBoundCorrect` | `TypeOK`, `BatchBound` |
| | `OnePlaceCorrect`, `NotForgottenCorrect`, `CoalescedCorrect` | `OnePlace`, `NotForgotten`, `Coalesced` |
| `ExecutionProofs` | `TypeCorrect` | `TypeOK` |
| | `TasksReferenced` | `Referenced` |
| | `FieldsSerial`, `OneFutureAwaited` | `SerialFields`, `OneAwaited` |
| | `FirstErrorHasPath` | `PanicsAfterError` |
| | `NullsAccounted` | `NullsExplained` |
| `HandlerProofs` | `MissCorrect` | `MissAnsweredAsAsked` |
| `TypeCreatorProofs` | `TypeCorrect` | `TypeOK` |
| | `OneInstanceCorrect`, `CompleteCorrect` | `OneInstance`, `CompleteUnlessCyclic` |

None of the invariants is inductive alone. Each module has an inductive invariant (`IInv`, and `XInv` in
`WorkerPoolRefinement`), a lemma that every action keeps it, with one step or one lemma
per action, and then the theorems.

**WorkerPoolProofs.** Any tasks, Shutdown calls and finitely many workers, any pool sizes that
`Validate` accepts, any queue capacity, with or without timeouts (`ConfigAssumption`,
`ProcsAssumption`: names of different kinds differ). `IInv` adds

- `JobInv`: a process is in `addWorker` exactly if `job` says so, with the limit of that call site;
- `PlaceInv`: where a task is at each program point of its `Submit`, e.g. nowhere before the push;
- `StaleInv`: what a loaded state word still says: a process about to commit a termination loaded
  a shut down word with count zero, and since a shut down pool does not grow, the count is still
  zero and no worker lives;
- `SettledInv`: once terminated, no accepted task is queued or in a worker's hand;
- `SentInv`: a Shutdown call that was signalled is not in `terminations`.

`RemoveIndexProps` and `PushProps` say what the queue operations do to the tasks in the queue.

**WorkerPoolRefinement.** `XInv` adds what the mapping needs: a task is withdrawn only after a
shutdown (`RemoveInv`), a Shutdown call waits for its signal or has it (`AskedInv`), nobody saw
more workers than there may be (`SeenInv`), and `NoLostWakeup`. A worker that sleeps while tasks
are queued is left so by nobody: `Push` signals when the queue was empty, and a worker that pops from a
queue with more in it polls again. Then every action is shown to be a step of `Executor` or a
stutter under the mapping.

**LoadManyProofs.** Any tasks, clients, completers and error types (`WantedAssumption`,
`JoinersAssumption`, `NamesAssumption`); no bound on the length of an array or on the number of retries.
`IInv` has three groups beside the types.

- The arrays. A slot belongs to one future and lies in the array (`SlotInv`); a waker in an array, or in
  `newFuture`'s copy of it, is in its future's slot (`EntryInv`). What a goroutine loaded is not newer than the
  result, and if it is the result then the task is not completed and the array has not changed (`VerInv`). A
  deployed waker is in the array (`DeployedInv`) and in every copy that may yet be published
  (`CopyInv`: deploying publishes a new result, so an older copy fails its CAS), and a `Poll` whose CAS
  will succeed has its waker there (`WriteInv`).
- The wake-ups. One completer wins a task (`WonInv`), what it calls is a waker (`CallInv`), and
  when it has gone past a waker whose future still waits, it has left a flag or an error (`PassedInv`).
- The results. `CountInv`: as long as nothing was counted twice, `pendingCount` is the number of
  values not collected, plus those `Poll` found ready and those a waker has collected but
  not counted down yet. So it is zero only when all are collected.

`TypeOK` needs two further facts that are kept separately, `CountBound` and `Functional`.

**DataLoaderProofs.** Any keys, finitely many clients, any set of configurations (`ConfigAssumption`; the
bounds `MaxTasks` and `MaxCalls` are any numbers). `OnePlace` counts, which no prover does: `OnceInv` and
`ApartInv` say instead that no place repeats a task and no two places share one, `CountProps` and
`AtMostOne` turn that into cardinalities. `CutProps` is the lemma about cutting a batch from the queue.
`SweptInv` (what the sweep has passed is completed) makes `NotForgotten` inductive, and `CacheInv` (the
cache leads to the only task of a key that nobody cleared) `Coalesced`.

**ExecutionProofs.** Any tree of result nodes, finite or not, any shapes, answers, choices of non-null
positions and chained futures, any bound `MaxErrors` (`TreeAssumption`, `NestingAssumption`: a
result node is made for one place under one parent, and all are made on the way down from the root).

`Anc`, `Owner` and `Propagated` are recursive functions towards the root. That such functions exist is
shown by giving them without recursion, as least closed sets (`Above`, `Owners`, `Reached`); after that their
recursive equations are facts, and the second half of `NestingAssumption` is induction over the tree
(`FromRoot`).

The invariant `IInv` is about the call stack, frame by frame. A frame *waits* for the nodes it has still
to complete, *covers* the part of the tree in which it does so, and *holds* the task it will
release.

- `Sound`. What a frame covers is incomparable with what the frames below it wait for (`Ordered`), so a
  step of the innermost call cannot disturb the others: it changes its node and ancestors
  of it, and no frame waits for one of those. What a frame waits for is untouched (`Fresh`), and
  everything above it is complete, nil only under an error that was reported (`Explained`; from this
  follows `PanicsAfterError`). When a field has started, nothing below an earlier field is pending, that is,
  awaited or waited for by a frame (`Serial`). A loop over elements runs above the release of its owner's task (`Held`),
  and a task has at least as many references as frames that hold it, and one more for an
  awaited future (`Counted`). Holders are numbered from the bottom of the stack, so that pushing a
  frame leaves the others alone and the count changes by one.
- `Accounted`: what is visible and not there yet is pending or has an error of its own, and what is nil
  is in `nulls` or has an error at or below it. With an empty stack this is `NullsExplained`.
- `Awaiting`: at most one future is awaited, by the innermost call or by a task that is registered in
  `yieldTasks`, and directly inside a `Dispatch`. So `Dispatch` returns only when nothing is
  awaited, which is why the next field can start.

Between taking a node and completing it, a step is described by a frame `InHand(n)` that is never on the stack. Lemmas
`Hand*` show how each call puts a node in hand (from its place in the object, list or queue), `SoundAfter` and
`AccountedAfter` what any completion of it preserves, and one lemma each for `Fail`, `SetNil`,
`Await`, objects, lists and queues that it is such a completion. Then there is one lemma per action. TLC
checked the parts of `IInv` on the instance of the run before they were proved.

**HandlerProofs.** Any goroutines, requests and documents, any size of the cache. `Carries`: between
its Build and its answer a goroutine that missed holds the operation it prepared itself.

**TypeCreatorProofs.** Any goroutines and definitions, finite or not, any graphs and flaws
(`ConstantsAssumption`: `None` is none of the values that stand beside it). `Stacks` relates
each call on a goroutine's stack to `createdTypes`: it has stored its entry and not closed its channel,
what it has resolved is ready, and it reaches every call above it. The last part is why, without cycles, a
reference that is answered from the goroutine's own stack never occurs, and so `ReadyClosed`
(what a ready type refers to is ready) holds; `Reach` is the least closed set, so `ReadyClosed` gives
`CompleteUnlessCyclic` without induction. For what callers get, `Asks` says that a goroutine's result,
and before it the bottom of its stack or the entry it waits for, belongs to the definition it asked for;
it is kept relative to `IInv`, because a step delivers the instance that `createdTypes` holds and an
entry is never replaced.

Only model-checked:

- liveness (`SubmitReturns`, `AcceptedCompletes`, `AwaitReturns`, `SignalledUnlessWithdrawn`,
  `BlockOnReturnsUnlessLost`, `DispatchLoads`, `EndsUnlessStranded`, `AnsweredUnlessFull`,
  `NewTypeReturnsUnlessCrossed`, and those that a run violates), which is beyond this prover;
- `Language`, `Lexer` and `Validation`: recursive definitions compared with recursive definitions, for which
  induction over the data would be needed, in modules whose `RECURSIVE` operators the prover does not
  accept. These ten invariants are the only ones without a theorem.

## 6. Not modelled, and what is left

Not modelled, with the reason:

- `graphql/executor`: field collection at execution, argument coercion, the default resolver
  (reflection on Go values); `result_marshaler.go`, a traversal that writes the finished tree.
- `graphql/schema.go`: the type map, one sequential traversal of types at construction.
- `graphql/scalars.go`, `internal/value`, `internal/typeutil`: conversions between Go's numeric
  types and literals. They depend on Go's number formatting and on reflection.
- `graphql/introspection.go`: resolvers that read a finished schema.
- `jsonwriter` apart from the escaping of strings; `iterator`; `internal/unsafe`.
- `internal/util/sync_map.go`, a copy of Go's `sync.Map`: an atomic map here.
- Declarations of types (`graphql/object.go` and the like): accessors.

What is left. Every safety property of a run outside the front end is a theorem. The model could grow
towards field collection in `graphql/executor` (the same algorithm over fragments that `Validation` models for
its rules) and the result marshaler, which walks the tree that `Execution` builds.
