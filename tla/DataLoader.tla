----------------------------- MODULE DataLoader -----------------------------
(***************************************************************************)
(* The data loader, dataloader/dataloader.go, batch_job.go, cache_map.go:   *)
(* goroutines load keys through a concurrent cache and a mutex-guarded      *)
(* queue of tasks; Dispatch detaches the queue, cuts it into batches and    *)
(* runs a BatchLoadJob for each, on the Runner or itself; the user's        *)
(* BatchLoader completes the tasks and the job sweeps up what it left.      *)
(*                                                                         *)
(* A task is a number, its position in `key'.  Completing a task is one     *)
(* action here; LoaderTask has the lock-free protocol behind it.            *)
(***************************************************************************)
EXTENDS Integers, Sequences, FiniteSets

CONSTANTS
  Keys, Clients,
  Configs,  \* the Config's a loader may be created with: maxBatchSize (0:
            \* unlimited), cache (FALSE: NoCacheMap), runner (TRUE: jobs are
            \* submitted to Config.Runner)
  MaxTasks, \* bound: tasks created
  MaxCalls, \* bound: calls of all clients together
  None

Config == [maxBatchSize : Nat, cache : BOOLEAN, runner : BOOLEAN]

ASSUME ConfigAssumption ==
  /\ Configs \subseteq Config
  /\ MaxTasks \in Nat /\ MaxCalls \in Nat
  /\ None \notin Keys \cup Clients
  /\ IsFiniteSet(Clients)

VARIABLES
  config,
  key,       \* key[t]: the key of task t, for the tasks created so far
  born,      \* born[t]: the newest loader.queue t's creator knew of
  completed, \* the tasks that were completed, with a value or an error
  cache,     \* cacheMap: the task of a key, 0 if there is none
  list,      \* the tasks of loader.queue
  queue,     \* the identity of loader.queue
  queueMutex,
  pc,
  calls,     \* the number of calls made
  seen,      \* seen[c]: the newest loader.queue c knows of
  arg,       \* arg[c]: the key or task c works on, the queue its Dispatch read,
             \* or the keys its ClearAll has not met yet
  mine,      \* mine[c]: the tasks for which c got a future
  rest,      \* rest[c]: the tasks of the detached queue not yet dispatched
  jobs,      \* the jobs accepted and not finished: their tasks, and the number
             \* of tasks swept after BatchLoader.Load returned (-1: not yet)
  refused,   \* tasks whose job the Runner refused
  owed,      \* history: mine[c] when c called Dispatch last
  cleared    \* history: the keys that Clear or ClearAll was called for

cacheVars == <<cache, cleared>>
queueVars == <<list, queue, queueMutex>>
taskVars == <<config, key, born, completed>>
jobVars == <<rest, jobs, refused>>
clientVars == <<arg, mine, owed, seen>>
vars == <<cacheVars, queueVars, taskVars, jobVars, pc, clientVars, calls>>

Tasks == 1..Len(key)
Elems(s) == {s[i] : i \in 1..Len(s)}
Goto(c, l) == pc' = [pc EXCEPT ![c] = l]
\* Lock and cache order what c does next after what others did before.
See(c, q) == seen' = [seen EXCEPT ![c] = IF q > @ THEN q ELSE @]
\* newFuture: c holds a future of task t.
Hold(c, t) == mine' = [mine EXCEPT ![c] = @ \cup {t}]
\* Bound: every call that is about to create a task can create it.
Room == Len(key) + Cardinality({c \in Clients : pc[c] = "enqueue"}) < MaxTasks
NewTask(k, q) == key' = Append(key, k) /\ born' = Append(born, q)

-----------------------------------------------------------------------------
(* Load; LoadMany calls it for one key after the other *)

\* A key found in the cache needs no lock.
Load(c, k) ==
  /\ pc[c] = "idle"
  /\ IF config.cache /\ cache[k] # 0
     THEN Hold(c, cache[k]) /\ See(c, born[cache[k]]) /\ UNCHANGED <<pc, arg>>
     ELSE /\ Room
          /\ arg' = [arg EXCEPT ![c] = k]
          /\ Goto(c, "enqueue")
          /\ UNCHANGED <<mine, seen>>
  /\ UNCHANGED <<cacheVars, queueVars, taskVars, jobVars, owed>>

\* mutation: a task that another goroutine cached meanwhile is replaced
EnqueueReplaces(c) ==
  /\ pc[c] = "enqueue"
  /\ queueMutex = None
  /\ NewTask(arg[c], queue) /\ UNCHANGED <<config, completed>>
  /\ cache' = IF config.cache THEN [cache EXCEPT ![arg[c]] = Len(key) + 1] ELSE cache
  /\ queueMutex' = c
  /\ arg' = [arg EXCEPT ![c] = Len(key) + 1]
  /\ Goto(c, "push")
  /\ See(c, queue)
  /\ UNCHANGED <<cleared, list, queue, jobVars, mine, owed>>

\* taskQueue.Enqueue with the lock held: cacheMap.Set stores the new task
\* unless the key was cached meanwhile; the cache itself needs no lock.
Enqueue(c) ==
  /\ pc[c] = "enqueue"
  /\ queueMutex = None
  /\ IF config.cache /\ cache[arg[c]] # 0
     THEN /\ Hold(c, cache[arg[c]])
          /\ arg' = [arg EXCEPT ![c] = None]
          /\ Goto(c, "idle")
          /\ UNCHANGED <<taskVars, cache, queueMutex>>
     ELSE /\ NewTask(arg[c], queue) /\ UNCHANGED <<config, completed>>
          /\ cache' = IF config.cache THEN [cache EXCEPT ![arg[c]] = Len(key) + 1] ELSE cache
          /\ queueMutex' = c
          /\ arg' = [arg EXCEPT ![c] = Len(key) + 1]
          /\ Goto(c, "push")
          /\ UNCHANGED mine
  /\ See(c, queue)
  /\ UNCHANGED <<cleared, list, queue, jobVars, owed>>

EnqueuePush(c) ==
  /\ pc[c] = "push"
  /\ list' = Append(list, arg[c])
  /\ queueMutex' = None
  /\ Hold(c, arg[c])
  /\ arg' = [arg EXCEPT ![c] = None]
  /\ Goto(c, "idle")
  /\ UNCHANGED <<cacheVars, queue, taskVars, jobVars, owed, seen>>

-----------------------------------------------------------------------------
(* Dispatch *)

\* loader.queue is read without the lock, a data race: the read returns any
\* queue that was not, as far as c knows, replaced before.
Dispatch(c) ==
  /\ pc[c] = "idle"
  /\ \E q \in seen[c]..queue : arg' = [arg EXCEPT ![c] = q]
  /\ owed' = [owed EXCEPT ![c] = mine[c]]
  /\ Goto(c, "detach")
  /\ UNCHANGED <<cacheVars, queueVars, taskVars, jobVars, mine, seen>>

\* mutation: the loader keeps the queue that is being dispatched
DispatchDetachKeeps(c) ==
  /\ pc[c] = "detach"
  /\ queueMutex = None
  /\ IF arg[c] # queue \/ list = << >>
     THEN Goto(c, "idle") /\ UNCHANGED rest
     ELSE rest' = [rest EXCEPT ![c] = list] /\ Goto(c, "batch")
  /\ arg' = [arg EXCEPT ![c] = None]
  /\ See(c, queue)
  /\ UNCHANGED <<cacheVars, queueVars, taskVars, jobs, refused, mine, owed>>

\* dispatchQueue up to the unlock: only who finds the queue in place gets it.
DispatchDetach(c) ==
  /\ pc[c] = "detach"
  /\ queueMutex = None
  /\ IF arg[c] # queue \/ list = << >>
     THEN Goto(c, "idle") /\ UNCHANGED <<list, queue, rest>>
     ELSE /\ rest' = [rest EXCEPT ![c] = list]
          /\ list' = << >>
          /\ queue' = queue + 1
          /\ Goto(c, "batch")
  /\ arg' = [arg EXCEPT ![c] = None]
  /\ See(c, queue')
  /\ UNCHANGED <<cacheVars, queueMutex, taskVars, jobs, refused, mine, owed>>

\* The length of the next batch: the loop's counter runs down from MaxBatchSize.
BatchLen(n) == IF config.maxBatchSize = 0 \/ n < config.maxBatchSize THEN n ELSE config.maxBatchSize

\* mutation: the last, shorter batch is not dispatched
DispatchBatchFull(c) ==
  /\ pc[c] = "batch"
  /\ rest[c] # << >>
  /\ LET n == BatchLen(Len(rest[c])) IN
     /\ rest' = [rest EXCEPT ![c] = SubSeq(@, n + 1, Len(@))]
     /\ jobs' = IF n < config.maxBatchSize THEN jobs
                ELSE jobs \cup {[tasks |-> SubSeq(rest[c], 1, n), swept |-> -1]}
  /\ UNCHANGED <<cacheVars, queueVars, taskVars, refused, pc, clientVars>>

\* dispatchQueueBatch: submit the job, or run it here when there is no Runner.
\* An error of Submit ends in dispatchQueue, which ignores it.
DispatchBatch(c) ==
  /\ pc[c] = "batch"
  /\ rest[c] # << >>
  /\ LET n == BatchLen(Len(rest[c]))
         batch == SubSeq(rest[c], 1, n)
     IN  /\ rest' = [rest EXCEPT ![c] = SubSeq(@, n + 1, Len(@))]
         /\ \/ /\ jobs' = jobs \cup {[tasks |-> batch, swept |-> -1]}
               /\ IF config.runner
                  THEN UNCHANGED <<pc, arg>>
                  ELSE Goto(c, "running") /\ arg' = [arg EXCEPT ![c] = batch]
               /\ UNCHANGED refused
            \/ /\ config.runner
               /\ refused' = refused \cup Elems(batch)
               /\ UNCHANGED <<jobs, pc, arg>>
  /\ UNCHANGED <<cacheVars, queueVars, taskVars, mine, owed, seen>>

DispatchReturn(c) ==
  /\ pc[c] = "batch" /\ rest[c] = << >>
  /\ Goto(c, "idle")
  /\ UNCHANGED <<cacheVars, queueVars, taskVars, jobVars, clientVars>>

-----------------------------------------------------------------------------
(* BatchLoadJob.Run *)

\* Complete and SetError: the first call for a task wins.
SetCompleted(t) == completed' = completed \cup {t}

\* The user's BatchLoader completes a task: while its Load runs, or later from
\* a goroutine that it left behind.  A second completion is refused.
LoaderCompletes(j) ==
  /\ \E t \in Elems(j.tasks) : SetCompleted(t)
  /\ UNCHANGED <<cacheVars, queueVars, config, key, born, jobVars, pc, clientVars>>

\* BatchLoader.Load returns.
LoaderReturns(j) ==
  /\ j.swept = -1
  /\ jobs' = (jobs \ {j}) \cup {[j EXCEPT !.swept = 0]}
  /\ UNCHANGED <<cacheVars, queueVars, taskVars, rest, refused, pc, clientVars>>

\* mutation: the sweep stops before the last task
JobSweepShort(j) ==
  /\ j.swept \in 0..(Len(j.tasks) - 1)
  /\ IF j.swept + 1 < Len(j.tasks)
     THEN SetCompleted(j.tasks[j.swept + 1]) ELSE UNCHANGED completed
  /\ jobs' = (jobs \ {j}) \cup
       (IF j.swept + 1 = Len(j.tasks) THEN {} ELSE {[j EXCEPT !.swept = @ + 1]})
  /\ UNCHANGED <<cacheVars, queueVars, config, key, born, rest, refused, pc, clientVars>>

\* A task that the BatchLoader left incomplete ends with an error; the job
\* ends after the last one.
JobSweep(j) ==
  /\ j.swept >= 0
  /\ SetCompleted(j.tasks[j.swept + 1])
  /\ jobs' = (jobs \ {j}) \cup
       (IF j.swept + 1 = Len(j.tasks) THEN {} ELSE {[j EXCEPT !.swept = @ + 1]})
  /\ UNCHANGED <<cacheVars, queueVars, config, key, born, rest, refused, pc, clientVars>>

\* A job that the dispatching goroutine ran itself has ended.
RunReturns(c) ==
  /\ pc[c] = "running"
  /\ \A j \in jobs : j.tasks # arg[c]
  /\ arg' = [arg EXCEPT ![c] = None]
  /\ Goto(c, "batch")
  /\ UNCHANGED <<cacheVars, queueVars, taskVars, jobVars, mine, owed, seen>>

-----------------------------------------------------------------------------
(* Clear, ClearAll, Prime and PrimeError: without any lock *)

Clear(c, k) ==
  /\ config.cache /\ pc[c] = "idle"
  /\ cache' = [cache EXCEPT ![k] = 0]
  /\ cleared' = cleared \cup {k}
  /\ UNCHANGED <<queueVars, taskVars, jobVars, pc, clientVars>>

\* CacheMap.Clear ranges over the map and deletes the keys one by one.
ClearAll(c) ==
  /\ config.cache /\ pc[c] = "idle"
  /\ arg' = [arg EXCEPT ![c] = Keys]
  /\ Goto(c, "clear")
  /\ UNCHANGED <<cacheVars, queueVars, taskVars, jobVars, mine, owed, seen>>

ClearNext(c) ==
  /\ pc[c] = "clear"
  /\ \E k \in arg[c] :
       /\ cache' = [cache EXCEPT ![k] = 0]
       /\ cleared' = cleared \cup {k}
       /\ IF arg[c] = {k}
          THEN arg' = [arg EXCEPT ![c] = None] /\ Goto(c, "idle")
          ELSE arg' = [arg EXCEPT ![c] = @ \ {k}] /\ UNCHANGED pc
  /\ UNCHANGED <<queueVars, taskVars, jobVars, mine, owed, seen>>

\* A task that is born complete, cached unless the key is there already.
Prime(c, k) ==
  /\ config.cache /\ pc[c] = "idle"
  /\ cache[k] = 0
  /\ Room
  /\ NewTask(k, seen[c])
  /\ SetCompleted(Len(key) + 1)
  /\ UNCHANGED config
  /\ cache' = [cache EXCEPT ![k] = Len(key) + 1]
  /\ UNCHANGED <<cleared, queueVars, jobVars, pc, clientVars>>

-----------------------------------------------------------------------------
Init ==
  /\ config \in Configs
  /\ key = << >> /\ born = << >> /\ completed = {}
  /\ cache = [k \in Keys |-> 0]
  /\ list = << >> /\ queue = 0 /\ queueMutex = None
  /\ pc = [c \in Clients |-> "idle"]
  /\ arg = [c \in Clients |-> None] /\ calls = 0
  /\ mine = [c \in Clients |-> {}] /\ seen = [c \in Clients |-> 0]
  /\ rest = [c \in Clients |-> << >>]
  /\ jobs = {} /\ refused = {}
  /\ owed = [c \in Clients |-> {}]
  /\ cleared = {}

Call(c) ==
  /\ calls < MaxCalls
  /\ calls' = calls + 1
  /\ \/ \E k \in Keys : Load(c, k) \/ Clear(c, k) \/ Prime(c, k)
     \/ Dispatch(c) \/ ClearAll(c)
ClientStep(c) ==
  /\ \/ Enqueue(c) \/ EnqueuePush(c)
     \/ DispatchDetach(c) \/ DispatchBatch(c) \/ DispatchReturn(c) \/ RunReturns(c)
     \/ ClearNext(c)
  /\ UNCHANGED calls
JobStep(j) == (LoaderReturns(j) \/ JobSweep(j)) /\ UNCHANGED calls
LateStep(j) == LoaderCompletes(j) /\ UNCHANGED calls

\* All calls have returned and no job is left.
Quiet == jobs = {} /\ \A c \in Clients : pc[c] = "idle"
Done == Quiet /\ UNCHANGED vars

Next ==
  \/ \E c \in Clients : Call(c) \/ ClientStep(c)
  \/ \E j \in jobs : JobStep(j) \/ LateStep(j)
  \/ Done

Spec == Init /\ [][Next]_vars

\* Calls run to their end (the mutex is released in between, so it is not
\* withheld for ever), the Runner runs what it accepted, and the BatchLoader
\* returns; it need not complete anything.
Fairness ==
  /\ \A c \in Clients : SF_vars(ClientStep(c))
  /\ WF_vars(\E j \in jobs : JobStep(j))
FairSpec == Spec /\ Fairness

-----------------------------------------------------------------------------
(* Properties *)

\* The variables have their types.
TypeOK ==
  /\ config \in Configs
  /\ key \in Seq(Keys) /\ Len(key) <= MaxTasks
  /\ completed \subseteq Tasks
  /\ cache \in [Keys -> 0..Len(key)]
  /\ list \in Seq(Tasks)
  /\ queue \in Nat /\ seen \in [Clients -> 0..queue] /\ born \in Seq(0..queue)
  /\ queueMutex \in Clients \cup {None}
  /\ pc \in [Clients -> {"idle", "enqueue", "push", "detach", "batch", "running", "clear"}]
  /\ mine \in [Clients -> SUBSET Tasks] /\ owed \in [Clients -> SUBSET Tasks]
  /\ rest \in [Clients -> Seq(Tasks)]
  /\ \A j \in jobs : j.tasks \in Seq(Tasks) /\ j.swept \in -1..(Len(j.tasks) - 1)
  /\ calls \in 0..MaxCalls
  /\ refused \subseteq Tasks /\ cleared \subseteq Keys

Count(s, t) == Cardinality({i \in 1..Len(s) : s[i] = t})
Pushing(t) == {c \in Clients : pc[c] = "push" /\ arg[c] = t}
Batched(t) == {j \in jobs : t \in Elems(j.tasks)}
Detached(t) == {c \in Clients : t \in Elems(rest[c])}

\* Splitting the queue neither loses nor repeats a task: a task is in one
\* place only, about to be pushed, queued, detached, or in one batch, once.
OnePlace ==
  \A t \in Tasks :
    /\ Cardinality(Pushing(t)) + Count(list, t) + Cardinality(Detached(t))
         + Cardinality(Batched(t)) + Cardinality(refused \cap {t}) <= 1
    /\ \A c \in Clients : Count(rest[c], t) <= 1
    /\ \A j \in jobs : Count(j.tasks, t) <= 1

\* A task that is incomplete, and so all that wait for its key through the
\* cache, is on its way: nobody forgets it, except a Runner that refuses.
NotForgotten ==
  \A t \in Tasks \ completed :
    \/ Pushing(t) # {} \/ t \in Elems(list) \/ Detached(t) # {} \/ Batched(t) # {}
    \/ t \in refused

\* A batch is not empty and not longer than MaxBatchSize.
BatchBound ==
  \A j \in jobs :
    j.tasks # << >> /\ (config.maxBatchSize > 0 => Len(j.tasks) <= config.maxBatchSize)

\* "coalesces identical requests": with the cache on, a key that nobody clears
\* gets one task, however the loads of it, and Prime, interleave.
Coalesced ==
  config.cache => \A t, u \in Tasks : key[t] = key[u] /\ key[t] \notin cleared => t = u

\* So what was loaded before a Dispatch is eventually completed, with an error
\* if the BatchLoader forgets it, unless the Runner refuses its job.
DispatchLoads ==
  \A t \in 1..MaxTasks :
    (\E c \in Clients : t \in owed[c]) ~> (t \in refused \cup completed)

\* What was loaded before a Dispatch is eventually completed, whether or not the Runner takes its
\* job: an error of Submit reaches the tasks of the batch. Violated: dispatchQueue ignores the error.
DispatchCompletes ==
  \A t \in 1..MaxTasks : (\E c \in Clients : t \in owed[c]) ~> t \in completed
=============================================================================
