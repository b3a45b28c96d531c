----------------------------- MODULE WorkerPool -----------------------------
(***************************************************************************)
(* concurrent/worker_pool_executor.go: WorkerPoolExecutor, its task queue  *)
(* and its task handles.                                                   *)
(*                                                                         *)
(* Three kinds of goroutine run concurrently, named by the processes of    *)
(* the model: the caller of Submit for a task (which then holds the handle *)
(* and may Cancel it), the pool's workers, and the callers of Shutdown.    *)
(* Every atomic access of shared state in the code - a load or a CAS of    *)
(* the state word, a critical section of the queue, a critical section of  *)
(* the executor's mutex - is one action; what was read is kept in `seen'   *)
(* and used later, so that every stale read of the code is here.           *)
(***************************************************************************)
EXTENDS Integers, Sequences, FiniteSets

CONSTANTS
  Tasks,         \* the tasks submitted, each by its own goroutine
  Workers,       \* names for worker goroutines (reused once they have exited)
  Closers,       \* the calls of Shutdown, each by its own goroutine
  MinPoolSize, MaxPoolSize,
  QueueCapacity, \* elements the queue holds; the default queue is unbounded
  TimedPoll,     \* TRUE: the queue honours Poll's timeout (a custom Queue);
                 \* FALSE: the default queue, whose Poll never times out
  Awaited,       \* the tasks on whose handle somebody calls AwaitResult
  None           \* no task, no process, no result

Procs == Tasks \cup Workers \cup Closers

ASSUME ConfigAssumption == \* WorkerPoolExecutorConfig.Validate
  /\ MinPoolSize \in Nat
  /\ MaxPoolSize \in Nat \ {0}
  /\ MinPoolSize <= MaxPoolSize
  /\ QueueCapacity \in Nat
  /\ TimedPoll \in BOOLEAN

ASSUME ProcsAssumption ==
  /\ Tasks \cap Workers = {}
  /\ Tasks \cap Closers = {}
  /\ Workers \cap Closers = {}
  /\ None \notin Procs \cup {"value", "cancelled"}
  /\ IsFiniteSet(Workers)

VARIABLES
  state,        \* the state word: run state and worker count
  mutex,        \* holder of executor.mutex
  terminations, \* Shutdown calls whose channel waits for the termination signal
  sent,         \* signals put in the channel of each Shutdown call
  taskQueue,    \* the queued tasks, head first
  closed,       \* the queue was closed (pollCond = nil)
  pc, seen,     \* control point of each process and the state word it loaded
  job,          \* which addWorker call a process is in, and its limit
  cur, idle,    \* a worker's task in hand, and the workers with isIdle
  result,       \* result of each handle (None while cond # nil)
  runs,         \* how often each task was run
  await         \* the goroutine calling AwaitResult on each handle

poolVars == <<state, mutex, terminations, sent>>
queueVars == <<taskQueue, closed>>
localVars == <<seen, job, cur, idle>>
handleVars == <<result, runs, await>>
vars == <<poolVars, queueVars, pc, localVars, handleVars>>

-----------------------------------------------------------------------------
(* The state word *)

RUNNING == 0
SHUTDOWN == 1
TERMINATED == 2
StateWord == [run : {RUNNING, SHUTDOWN, TERMINATED}, count : Nat]
NoState == [run |-> RUNNING, count |-> 0]

IsRunning(s) == s.run = RUNNING
IsShutdown(s) == s.run >= SHUTDOWN
IsTerminated(s) == s.run = TERMINATED

\* The run state only moves forward; the worker count is kept.
SetRunState(s, r) == IF s.run >= r THEN s ELSE [s EXCEPT !.run = r]

Goto(p, l) == pc' = [pc EXCEPT ![p] = l]
Load(p) == seen' = [seen EXCEPT ![p] = state]
Forget(p) == seen' = [seen EXCEPT ![p] = NoState]

-----------------------------------------------------------------------------
(* The task queue: Push, Poll, Remove, Close, Empty *)

Empty == taskQueue = << >>
Waiting == {w \in Workers : pc[w] = "waiting"}  \* blocked in cond.Wait
Occurs(q, t) == \E i \in 1..Len(q) : q[i] = t
InQueue(t) == Occurs(taskQueue, t)

\* mutation: no worker is signalled
SignalNobody(p, l) == Goto(p, l)

\* pollCond.Signal: one waiter, if there is any, will re-acquire the lock.
SignalAnd(p, l) ==
  IF Waiting = {}
  THEN Goto(p, l)
  ELSE \E w \in Waiting : pc' = [pc EXCEPT ![p] = l, ![w] = "woken"]

\* The element at i leaves the queue.
RemoveIndex(q, i) ==
  [j \in 1..(Len(q) - 1) |-> IF j < i THEN q[j] ELSE q[j + 1]]

QueueRemove(t) ==
  \E i \in 1..Len(taskQueue) :
    /\ taskQueue[i] = t
    /\ taskQueue' = RemoveIndex(taskQueue, i)

\* A Poll that found the queue non-empty gives its head to worker w.
PopTo(w) ==
  /\ cur' = [cur EXCEPT ![w] = Head(taskQueue)]
  /\ taskQueue' = Tail(taskQueue)
  /\ Goto(w, "run")

-----------------------------------------------------------------------------
(* addWorker(firstTask, limit), called from four places *)

Jobs == [site : {"none", "first", "help", "final", "replace"},
         limit : {0, 1, MinPoolSize, MaxPoolSize}]
NoJob == [site |-> "none", limit |-> 0]

CallAddWorker(p, site, limit) ==
  /\ Goto(p, "addWorker")
  /\ job' = [job EXCEPT ![p] = [site |-> site, limit |-> limit]]

\* Where the caller continues after an error and after success.
OnAddWorkerError(site) ==
  CASE site = "first" -> "reload"      \* Submit ignores it and reloads the state
    [] site = "help" -> "pushed"       \* addTask retries
    [] site = "final" -> "rejected"    \* Submit returns it
    [] site = "replace" -> "none"      \* terminateWorker ignores it
OnAddWorkerOk(site) == IF site = "replace" THEN "none" ELSE "accepted"

\* mutation: the new worker is not counted
AddWorkerCheckOff(s, limit) == ~IsShutdown(s) /\ s.count <= limit

AddWorkerCheck(s, limit) == ~IsShutdown(s) /\ s.count + 1 <= limit

\* Load the state word, refuse when shut down or full.
AddWorkerLoad(p) ==
  /\ pc[p] = "addWorker"
  /\ IF AddWorkerCheck(state, job[p].limit)
     THEN /\ Load(p)
          /\ Goto(p, "casInc")
          /\ UNCHANGED job
     ELSE /\ Forget(p)
          /\ Goto(p, OnAddWorkerError(job[p].site))
          /\ job' = [job EXCEPT ![p] = NoJob]
  /\ UNCHANGED <<poolVars, queueVars, cur, idle, handleVars>>

\* mutation: the loaded state word is incremented and stored without a CAS
AddWorkerStartNoCAS(p, w) ==
  /\ pc[p] = "casInc"
  /\ pc[w] = "none"
  /\ w # p
  /\ state' = [seen[p] EXCEPT !.count = @ + 1]
  /\ IF job[p].site \in {"first", "final"}
     THEN /\ cur' = [cur EXCEPT ![w] = p]
          /\ pc' = [pc EXCEPT ![p] = OnAddWorkerOk(job[p].site), ![w] = "run"]
     ELSE /\ UNCHANGED cur
          /\ pc' = [pc EXCEPT ![p] = OnAddWorkerOk(job[p].site), ![w] = "poll"]
  /\ idle' = idle \ {w}
  /\ job' = [job EXCEPT ![p] = NoJob]
  /\ Forget(p)
  /\ UNCHANGED <<mutex, terminations, sent, queueVars, handleVars>>

\* CompareAndIncWorkerCount succeeded: a new worker goroutine is started, with
\* the caller's task only at Submit's two calls.
AddWorkerStart(p, w) ==
  /\ pc[p] = "casInc"
  /\ state = seen[p]
  /\ pc[w] = "none"
  /\ w # p
  /\ state' = [state EXCEPT !.count = @ + 1]
  /\ IF job[p].site \in {"first", "final"}
     THEN /\ cur' = [cur EXCEPT ![w] = p]
          /\ pc' = [pc EXCEPT ![p] = OnAddWorkerOk(job[p].site), ![w] = "run"]
     ELSE /\ UNCHANGED cur
          /\ pc' = [pc EXCEPT ![p] = OnAddWorkerOk(job[p].site), ![w] = "poll"]
  /\ idle' = idle \ {w}
  /\ job' = [job EXCEPT ![p] = NoJob]
  /\ Forget(p)
  /\ UNCHANGED <<mutex, terminations, sent, queueVars, handleVars>>

\* The CAS failed: restart the loop.
AddWorkerRetry(p) ==
  /\ pc[p] = "casInc"
  /\ state # seen[p]
  /\ Goto(p, "addWorker")
  /\ Forget(p)
  /\ UNCHANGED <<poolVars, queueVars, job, cur, idle, handleVars>>

-----------------------------------------------------------------------------
(* tryTerminate(), called by Shutdown, by an exiting worker and by Cancel *)

AfterTryTerminate(p) ==
  IF p \in Closers THEN "returned" ELSE IF p \in Workers THEN "none" ELSE "cancelling"

Return(p) == Goto(p, AfterTryTerminate(p)) /\ Forget(p)

TryTerminateLoad(p) ==
  /\ pc[p] = "tryTerminate"
  /\ IF IsShutdown(state) /\ ~IsTerminated(state)
     THEN Load(p) /\ Goto(p, "checkEmpty")
     ELSE Return(p)
  /\ UNCHANGED <<poolVars, queueVars, job, cur, idle, handleVars>>

\* mutation: the worker count is not checked
TryTerminateCheckQueueOnly(p) ==
  /\ pc[p] = "checkEmpty"
  /\ IF Empty THEN Goto(p, "terminate") /\ UNCHANGED seen ELSE Return(p)
  /\ UNCHANGED <<poolVars, queueVars, job, cur, idle, handleVars>>

TryTerminateCheck(p) ==
  /\ pc[p] = "checkEmpty"
  /\ IF Empty /\ seen[p].count = 0
     THEN Goto(p, "terminate") /\ UNCHANGED seen
     ELSE Return(p)
  /\ UNCHANGED <<poolVars, queueVars, job, cur, idle, handleVars>>

\* As if the channels were kept after they were signalled.
TryTerminateCommitKeeps(p) ==
  /\ pc[p] = "terminate"
  /\ mutex = None
  /\ state' = SetRunState(state, TERMINATED)
  /\ sent' = [d \in Closers |-> IF d \in terminations THEN sent[d] + 1 ELSE sent[d]]
  /\ Return(p)
  /\ UNCHANGED <<mutex, terminations, queueVars, job, cur, idle, handleVars>>

\* The critical section: seen[p] is not terminated, so the code's second check
\* of its stale copy always succeeds.
TryTerminateCommit(p) ==
  /\ pc[p] = "terminate"
  /\ mutex = None
  /\ state' = SetRunState(state, TERMINATED)
  /\ sent' = [d \in Closers |-> IF d \in terminations THEN sent[d] + 1 ELSE sent[d]]
  /\ terminations' = {}
  /\ Return(p)
  /\ UNCHANGED <<mutex, queueVars, job, cur, idle, handleVars>>

TryTerminate(p) ==
  TryTerminateLoad(p) \/ TryTerminateCheck(p) \/ TryTerminateCommit(p)

-----------------------------------------------------------------------------
(* Submit(task) and addTask *)

Submitting(t) ==
  pc[t] \in {"addWorker", "casInc", "reload", "push", "pushed", "remove"}
HandleReturned(t) ==
  pc[t] \in {"accepted", "tryTerminate", "checkEmpty", "terminate", "cancelling"}

Submit(t) ==
  /\ pc[t] = "idle"
  /\ IF state.count < MinPoolSize
     THEN CallAddWorker(t, "first", MinPoolSize)
     ELSE IF IsRunning(state)
     THEN Goto(t, "push") /\ UNCHANGED job
     ELSE CallAddWorker(t, "final", MaxPoolSize)
  /\ UNCHANGED <<poolVars, queueVars, seen, cur, idle, handleVars>>

\* The first addWorker failed: reload the state word and decide again.
SubmitReload(t) ==
  /\ pc[t] = "reload"
  /\ IF IsRunning(state)
     THEN Goto(t, "push") /\ UNCHANGED job
     ELSE CallAddWorker(t, "final", MaxPoolSize)
  /\ UNCHANGED <<poolVars, queueVars, seen, cur, idle, handleVars>>

\* taskQueue.Push: a waiting worker is signalled only when the queue was empty.
AddTaskPush(t) ==
  /\ pc[t] = "push"
  /\ IF closed \/ Len(taskQueue) >= QueueCapacity
     THEN Goto(t, "rejected") /\ UNCHANGED taskQueue
     ELSE /\ taskQueue' = Append(taskQueue, t)
          /\ IF Empty THEN SignalAnd(t, "pushed") ELSE Goto(t, "pushed")
  /\ UNCHANGED <<poolVars, closed, localVars, handleVars>>

\* The task is queued: make sure that it is still wanted and has a worker.
AddTaskLoad(t) ==
  /\ pc[t] = "pushed"
  /\ IF ~IsRunning(state)
     THEN Goto(t, "remove") /\ UNCHANGED job
     ELSE IF state.count = 0
     THEN CallAddWorker(t, "help", 1)
     ELSE Goto(t, "accepted") /\ UNCHANGED job
  /\ UNCHANGED <<poolVars, queueVars, seen, cur, idle, handleVars>>

\* mutation: an error of Remove is ignored
AddTaskRemoveNoError(t) ==
  /\ pc[t] = "remove"
  /\ IF InQueue(t) THEN QueueRemove(t) ELSE UNCHANGED taskQueue
  /\ Goto(t, "rejected")
  /\ UNCHANGED <<poolVars, closed, localVars, handleVars>>

\* mutation: a removed task is reported as accepted
AddTaskRemoveAccepts(t) ==
  /\ pc[t] = "remove"
  /\ IF InQueue(t) THEN QueueRemove(t) ELSE UNCHANGED taskQueue
  /\ Goto(t, "accepted")
  /\ UNCHANGED <<poolVars, closed, localVars, handleVars>>

\* mutation: the loop continues instead of breaking
AddTaskRemoveContinues(t) ==
  /\ pc[t] = "remove"
  /\ IF InQueue(t)
     THEN QueueRemove(t) /\ Goto(t, "rejected")
     ELSE Goto(t, "pushed") /\ UNCHANGED taskQueue
  /\ UNCHANGED <<poolVars, closed, localVars, handleVars>>

\* Shut down meanwhile: withdraw the task, unless a worker took it.
AddTaskRemove(t) ==
  /\ pc[t] = "remove"
  /\ IF InQueue(t)
     THEN QueueRemove(t) /\ Goto(t, "rejected")
     ELSE Goto(t, "accepted") /\ UNCHANGED taskQueue
  /\ UNCHANGED <<poolVars, closed, localVars, handleVars>>

-----------------------------------------------------------------------------
(* The task handle: Cancel, setResult, AwaitResult *)

\* Store the result and wake the goroutine blocked in AwaitResult.
SetResult(t, r) ==
  /\ result' = [result EXCEPT ![t] = r]
  /\ await' = [await EXCEPT ![t] = IF @ = "blocked" THEN "returned" ELSE @]

\* mutation: the task stays in the queue
CancelKeeps(t) ==
  /\ pc[t] = "accepted"
  /\ InQueue(t)
  /\ Goto(t, "tryTerminate")
  /\ UNCHANGED <<poolVars, queueVars, localVars, handleVars>>

\* Cancel succeeds only while the task is queued; else it returns an error and
\* changes nothing.
Cancel(t) ==
  /\ pc[t] = "accepted"
  /\ QueueRemove(t)
  /\ Goto(t, "tryTerminate")
  /\ UNCHANGED <<poolVars, closed, localVars, handleVars>>

CancelSetResult(t) ==
  /\ pc[t] = "cancelling"
  /\ SetResult(t, "cancelled")
  /\ Goto(t, "accepted")
  /\ UNCHANGED <<poolVars, queueVars, localVars, runs>>

\* mutation: waits without looking whether there is a result
AwaitResultBlindly(t) ==
  /\ t \in Awaited
  /\ HandleReturned(t)
  /\ await[t] = "no"
  /\ await' = [await EXCEPT ![t] = "blocked"]
  /\ UNCHANGED <<poolVars, queueVars, pc, localVars, result, runs>>

AwaitResult(t) ==
  /\ t \in Awaited
  /\ HandleReturned(t)
  /\ await[t] = "no"
  /\ await' = [await EXCEPT ![t] = IF result[t] = None THEN "blocked" ELSE "returned"]
  /\ UNCHANGED <<poolVars, queueVars, pc, localVars, result, runs>>

-----------------------------------------------------------------------------
(* The worker: run and pollTask *)

RunTask(w) ==
  /\ pc[w] = "run"
  /\ runs' = [runs EXCEPT ![cur[w]] = @ + 1]
  /\ Goto(w, "setResult")
  /\ UNCHANGED <<poolVars, queueVars, localVars, result, await>>

WorkerSetResult(w) ==
  /\ pc[w] = "setResult"
  /\ SetResult(cur[w], "value")
  /\ cur' = [cur EXCEPT ![w] = None]
  /\ idle' = idle \ {w}
  /\ Goto(w, "poll")
  /\ UNCHANGED <<poolVars, queueVars, seen, job, runs>>

PollLoad(w) ==
  /\ pc[w] = "poll"
  /\ Load(w)
  /\ Goto(w, "noTasks")
  /\ UNCHANGED <<poolVars, queueVars, job, cur, idle, handleVars>>

Redundant(s) == s.count > MinPoolSize

\* noTasks is read without the queue's lock; both decisions to exit use it.
PollDecide(w) ==
  /\ pc[w] = "noTasks"
  /\ IF IsShutdown(seen[w]) /\ Empty
     THEN Goto(w, "dec") /\ UNCHANGED idle
     ELSE IF Redundant(seen[w]) /\ w \in idle /\ (seen[w].count > 1 \/ Empty)
     THEN Goto(w, "casDec") /\ UNCHANGED idle
     ELSE Goto(w, "dequeue") /\ idle' = idle \ {w}
  /\ UNCHANGED <<poolVars, queueVars, seen, job, cur, handleVars>>

\* mutation: the worker count is not decremented
PollExitNoDec(w) ==
  /\ pc[w] = "dec"
  /\ Goto(w, "exit")
  /\ Forget(w)
  /\ UNCHANGED <<poolVars, queueVars, job, cur, idle, handleVars>>

\* Shut down and no task left.
PollExit(w) ==
  /\ pc[w] = "dec"
  /\ state' = [state EXCEPT !.count = @ - 1]
  /\ Goto(w, "exit")
  /\ Forget(w)
  /\ UNCHANGED <<mutex, terminations, sent, queueVars, job, cur, idle, handleVars>>

\* A redundant worker that timed out dies if the state word has not changed.
PollExitIdle(w) ==
  /\ pc[w] = "casDec"
  /\ idle' = idle \ {w}
  /\ IF state = seen[w]
     THEN /\ state' = [state EXCEPT !.count = @ - 1]
          /\ Goto(w, "exit")
          /\ Forget(w)
     ELSE /\ Goto(w, "dequeue")
          /\ UNCHANGED <<state, seen>>
  /\ UNCHANGED <<mutex, terminations, sent, queueVars, job, cur, handleVars>>

\* taskQueue.Poll: take the head, or wait unless the queue was closed. Waiting
\* is modelled by the control point; the result (nil, nil) restarts the loop.
QueuePoll(w) ==
  /\ pc[w] = "dequeue"
  /\ IF ~Empty
     THEN PopTo(w) /\ Forget(w)
     ELSE IF closed
     THEN Goto(w, "poll") /\ Forget(w) /\ UNCHANGED <<taskQueue, cur>>
     ELSE Goto(w, "waiting") /\ UNCHANGED <<taskQueue, cur, seen>>
  /\ UNCHANGED <<poolVars, closed, job, idle, handleVars>>

\* cond.Wait returned and holds the lock again; it is called only once.
QueueWoken(w) ==
  /\ pc[w] = "woken"
  /\ IF ~Empty
     THEN PopTo(w)
     ELSE Goto(w, "poll") /\ UNCHANGED <<taskQueue, cur>>
  /\ Forget(w)
  /\ UNCHANGED <<poolVars, closed, job, idle, handleVars>>

\* ErrQueuePollTimeout, from a queue that honours the timeout; pollTask passes
\* one only when the state it loaded shows more than MinPoolSize workers.
QueueTimeout(w) ==
  /\ TimedPoll
  /\ pc[w] = "waiting"
  /\ Redundant(seen[w])
  /\ idle' = idle \cup {w}
  /\ Goto(w, "poll")
  /\ Forget(w)
  /\ UNCHANGED <<poolVars, queueVars, job, cur, handleVars>>

\* mutation: the worker count, decremented by pollTask, is decremented again
TerminateWorkerDec(w) ==
  /\ pc[w] = "exit"
  /\ state' = [state EXCEPT !.count = @ - 1]
  /\ IF IsShutdown(state)
     THEN Goto(w, "tryTerminate") /\ UNCHANGED seen
     ELSE Goto(w, "replace") /\ Load(w)
  /\ UNCHANGED <<mutex, terminations, sent, queueVars, job, cur, idle, handleVars>>

\* terminateWorker, called after pollTask returned nil.
TerminateWorker(w) ==
  /\ pc[w] = "exit"
  /\ IF IsShutdown(state)
     THEN Goto(w, "tryTerminate") /\ UNCHANGED seen
     ELSE Goto(w, "replace") /\ Load(w)
  /\ UNCHANGED <<poolVars, queueVars, job, cur, idle, handleVars>>

\* Create a replacement as needed, as the code compares the sizes.
ReplacementSize == IF MinPoolSize = 0 /\ ~Empty THEN 1 ELSE MinPoolSize
ReplaceWorker(w) ==
  /\ pc[w] = "replace"
  /\ IF ReplacementSize < seen[w].count
     THEN CallAddWorker(w, "replace", ReplacementSize)
     ELSE Goto(w, "none") /\ UNCHANGED job
  /\ Forget(w)
  /\ UNCHANGED <<poolVars, queueVars, cur, idle, handleVars>>

-----------------------------------------------------------------------------
(* Shutdown() *)

\* The first critical section up to queue.Close, which follows only when this
\* call moved the executor out of RUNNING; the mutex stays locked for it.
Shutdown(d) ==
  /\ pc[d] = "idle"
  /\ mutex = None
  /\ state' = SetRunState(state, SHUTDOWN)
  /\ IF IsTerminated(state)
     THEN sent' = [sent EXCEPT ![d] = @ + 1] /\ UNCHANGED terminations
     ELSE terminations' = terminations \cup {d} /\ UNCHANGED sent
  /\ IF IsRunning(state)
     THEN mutex' = d /\ Goto(d, "close")
     ELSE UNCHANGED mutex /\ Goto(d, "tryTerminate")
  /\ UNCHANGED <<queueVars, localVars, handleVars>>

\* mutation: the waiting workers are not woken
ShutdownCloseSilently(d) ==
  /\ pc[d] = "close"
  /\ closed' = TRUE
  /\ Goto(d, "tryTerminate")
  /\ mutex' = None
  /\ UNCHANGED <<state, terminations, sent, taskQueue, localVars, handleVars>>

\* queue.Close: no more Push; every waiting worker is woken. Unlock.
ShutdownClose(d) ==
  /\ pc[d] = "close"
  /\ closed' = TRUE
  /\ pc' = [p \in Procs |->
              IF p = d THEN "tryTerminate"
              ELSE IF p \in Waiting THEN "woken" ELSE pc[p]]
  /\ mutex' = None
  /\ UNCHANGED <<state, terminations, sent, taskQueue, localVars, handleVars>>

-----------------------------------------------------------------------------

Init ==
  /\ state = [run |-> RUNNING, count |-> 0]
  /\ mutex = None
  /\ terminations = {}
  /\ sent = [d \in Closers |-> 0]
  /\ taskQueue = << >>
  /\ closed = FALSE
  /\ pc = [p \in Procs |-> IF p \in Workers THEN "none" ELSE "idle"]
  /\ seen = [p \in Procs |-> NoState]
  /\ job = [p \in Procs |-> NoJob]
  /\ cur = [w \in Workers |-> None]
  /\ idle = {}
  /\ result = [t \in Tasks |-> None]
  /\ runs = [t \in Tasks |-> 0]
  /\ await = [t \in Tasks |-> "no"]

AddWorker(p) ==
  AddWorkerLoad(p) \/ AddWorkerRetry(p) \/ \E w \in Workers : AddWorkerStart(p, w)

\* The steps a Submit call takes once it was made, and those of a Cancel call.
SubmitStep(t) ==
  AddWorker(t) \/ SubmitReload(t) \/ AddTaskPush(t) \/ AddTaskLoad(t) \/ AddTaskRemove(t)
CancelStep(t) == TryTerminate(t) \/ CancelSetResult(t)

TaskRun(w) == RunTask(w) \/ WorkerSetResult(w)
PollTask(w) ==
  \/ PollLoad(w) \/ PollDecide(w) \/ PollExit(w) \/ PollExitIdle(w)
  \/ QueuePoll(w) \/ QueueWoken(w)
WorkerExit(w) == TerminateWorker(w) \/ ReplaceWorker(w) \/ AddWorker(w) \/ TryTerminate(w)
WorkerStep(w) == TaskRun(w) \/ PollTask(w) \/ WorkerExit(w)

ShutdownStep(d) == ShutdownClose(d) \/ TryTerminate(d)

\* All calls were made and have returned, and every worker sleeps or has exited.
Quiet ==
  /\ \A t \in Tasks : pc[t] \in {"accepted", "rejected"}
  /\ \A d \in Closers : pc[d] = "returned"
  /\ \A w \in Workers : pc[w] \in {"none", "waiting"}
Done == Quiet /\ UNCHANGED vars

Next ==
  \/ \E t \in Tasks :
       Submit(t) \/ SubmitStep(t) \/ Cancel(t) \/ CancelStep(t) \/ AwaitResult(t)
  \/ \E w \in Workers : WorkerStep(w) \/ QueueTimeout(w)
  \/ \E d \in Closers : Shutdown(d) \/ ShutdownStep(d)
  \/ Done

Spec == Init /\ [][Next]_vars

\* A goroutine that can run is eventually scheduled, and Task.Run returns. No
\* client is obliged to call Submit, Cancel, AwaitResult or Shutdown, and no
\* poll is obliged to time out.
Fairness ==
  /\ \A t \in Tasks : WF_vars(SubmitStep(t)) /\ WF_vars(CancelStep(t))
  /\ \A w \in Workers : WF_vars(WorkerStep(w))
  /\ \A d \in Closers : WF_vars(ShutdownStep(d))

FairSpec == Spec /\ Fairness

-----------------------------------------------------------------------------
(* Properties *)

TryTerminatePCs == {"tryTerminate", "checkEmpty", "terminate"}
TaskPCs == TryTerminatePCs \cup
  {"idle", "addWorker", "casInc", "reload", "push", "pushed", "remove",
   "accepted", "rejected", "cancelling"}
\* The workers that the worker count of the state word counts.
Counted ==
  {"run", "setResult", "poll", "noTasks", "dec", "casDec", "dequeue", "waiting", "woken"}
WorkerPCs == TryTerminatePCs \cup Counted \cup
  {"none", "exit", "replace", "addWorker", "casInc"}
CloserPCs == TryTerminatePCs \cup {"idle", "close", "returned"}

PoolType ==
  /\ state \in StateWord
  /\ mutex \in Closers \cup {None}
  /\ terminations \in SUBSET Closers
  /\ sent \in [Closers -> Nat]
QueueType == taskQueue \in Seq(Tasks) /\ closed \in BOOLEAN
ControlType ==
  /\ pc \in [Procs -> TaskPCs \cup WorkerPCs \cup CloserPCs]
  /\ \A t \in Tasks : pc[t] \in TaskPCs
  /\ \A w \in Workers : pc[w] \in WorkerPCs
  /\ \A d \in Closers : pc[d] \in CloserPCs
LocalType ==
  /\ seen \in [Procs -> StateWord]
  /\ job \in [Procs -> Jobs]
  /\ idle \in SUBSET Workers
\* A worker has a task in hand exactly while it runs one.
HandType ==
  /\ cur \in [Workers -> Tasks \cup {None}]
  /\ \A w \in Workers : cur[w] # None <=> pc[w] \in {"run", "setResult"}
HandleType ==
  /\ result \in [Tasks -> {None, "value", "cancelled"}]
  /\ runs \in [Tasks -> Nat]
  /\ await \in [Tasks -> {"no", "blocked", "returned"}]

\* The variables have their types, and each process is at a point of its code.
TypeOK ==
  PoolType /\ QueueType /\ ControlType /\ LocalType /\ HandType /\ HandleType

Live == {w \in Workers : pc[w] \in Counted}
Holding(w, t) == pc[w] \in {"run", "setResult"} /\ cur[w] = t
Cancelled(t) ==
  pc[t] \in {"tryTerminate", "checkEmpty", "terminate", "cancelling"}

\* The lock-free worker count is exact: every CAS, with whatever stale state it
\* was prepared, and every DecWorkerCount keeps it equal to the number of live
\* workers.
WorkerCountExact == state.count = Cardinality(Live)

\* The pool never holds more than MinPoolSize workers (one if that is zero),
\* whatever MaxPoolSize is: no addWorker call that could exceed it succeeds.
PoolCap == IF MinPoolSize = 0 THEN 1 ELSE MinPoolSize
PoolBound == state.count <= PoolCap

\* Every task is in one place only: once in the queue, or in the hand of one
\* worker, or removed by Cancel, or completed, or refused. So it is run at
\* most once, setResult is called at most once on its handle (the second call
\* would dereference a nil cond), and a refused or cancelled task is not run.
Distinct(q) == \A i, j \in 1..Len(q) : q[i] = q[j] => i = j
OnePlace ==
  /\ Distinct(taskQueue)
  /\ \A t \in Tasks :
       /\ InQueue(t) => /\ \A w \in Workers : ~Holding(w, t)
                        /\ ~Cancelled(t)
                        /\ result[t] = None
                        /\ pc[t] # "rejected"
       /\ \A w \in Workers : Holding(w, t) =>
            /\ \A v \in Workers : Holding(v, t) => v = w
            /\ ~Cancelled(t)
            /\ result[t] = None
            /\ pc[t] # "rejected"
            /\ runs[t] = IF pc[w] = "run" THEN 0 ELSE 1
       /\ Cancelled(t) => result[t] = None
       /\ pc[t] = "rejected" => result[t] = None /\ runs[t] = 0
       /\ result[t] = "value" => runs[t] = 1
       /\ result[t] = "cancelled" => runs[t] = 0
       /\ InQueue(t) => runs[t] = 0
       /\ Cancelled(t) => runs[t] = 0

\* An accepted task is not lost: it is queued, in a worker's hand, being
\* cancelled, or its handle has a result.
NotLost ==
  \A t \in Tasks :
    pc[t] = "accepted" =>
      InQueue(t) \/ (\E w \in Workers : Holding(w, t)) \/ result[t] # None

\* A Shutdown call gets its termination signal only when the executor really
\* is done: it is terminated, no worker is left, and no accepted task is
\* queued or without a result (Cancel stores its result after tryTerminate).
\* And it gets it once, although several callers of tryTerminate may commit:
\* the channel has one slot and is filled while the mutex is held.
SignalMeansDone ==
  \A d \in Closers :
    /\ sent[d] <= 1
    /\ sent[d] > 0 =>
         /\ IsTerminated(state)
         /\ Live = {}
         /\ \A t \in Tasks : HandleReturned(t) =>
              ~InQueue(t) /\ (result[t] # None \/ Cancelled(t))

\* The run state never goes back, and once the executor is shut down its
\* worker count only falls, although addWorker prepares its CAS before.
ShutdownDrains ==
  [][/\ state'.run >= state.run
     /\ IsShutdown(state) => state'.count <= state.count]_vars

\* A Submit call returns: addTask's retry loop and the CAS loops end.
SubmitReturns ==
  \A t \in Tasks : Submitting(t) ~> pc[t] \in {"accepted", "rejected"}

\* addTask: a task that was accepted and queued is eventually run or cancelled,
\* for there is a worker to poll it. It takes the default queue, whose poll
\* never times out: with one that does, terminateWorker leaves a task behind.
AcceptedCompletes ==
  \A t \in Tasks : (pc[t] = "accepted" /\ InQueue(t)) ~> result[t] # None

\* AwaitResult returns: the result, or the cancellation, that comes between its
\* check and its wait still wakes it.
AwaitReturns == \A t \in Tasks : await[t] = "blocked" ~> await[t] = "returned"

\* No wake-up is lost although Push signals only when the queue was empty: while
\* tasks are queued and workers sleep, some worker is awake and will poll again.
NoLostWakeup ==
  ~Empty /\ Waiting # {} =>
    \E w \in Workers : pc[w] \in Counted \ {"waiting", "dec", "casDec"}

\* Every Shutdown call eventually gets its termination signal. Violated: a Submit
\* that withdraws its task does not call tryTerminate.
ShutdownSignalled == \A d \in Closers : pc[d] = "returned" ~> sent[d] > 0

\* It does unless a Submit that met the shutdown withdraws its task: whoever
\* empties the queue or is the last worker to leave calls tryTerminate, and
\* one of them finds both conditions met.
SignalledUnlessWithdrawn ==
  [](\A t \in Tasks : pc[t] # "remove") => ShutdownSignalled

\* The executor's promise, with the concrete state mapped to the life of the
\* tasks and of the executor: the pool implements it.
Status(t) ==
  IF result[t] = "value" THEN "done"
  ELSE IF result[t] = "cancelled" \/ Cancelled(t) THEN "cancelled"
  ELSE IF \E w \in Workers : Holding(w, t) THEN "running"
  ELSE IF InQueue(t) THEN (IF pc[t] = "accepted" THEN "pending" ELSE "offered")
  ELSE IF pc[t] = "rejected" THEN "rejected" ELSE "new"

Promise == INSTANCE Executor WITH
  phase <- IF IsRunning(state) THEN "running"
           ELSE IF IsTerminated(state) THEN "terminated" ELSE "shutdown",
  status <- [t \in Tasks |-> Status(t)],
  asked <- {d \in Closers : pc[d] # "idle"},
  signalled <- {d \in Closers : sent[d] > 0}

ImplementsExecutor == Promise!Spec
=============================================================================
