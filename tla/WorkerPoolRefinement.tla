----------------------- MODULE WorkerPoolRefinement -----------------------
(* The worker pool implements the executor's promise, and loses no wake-up,  *)
(* for every number of tasks, workers and closers and every pool size.       *)
EXTENDS WorkerPoolProofs

-----------------------------------------------------------------------------
(* What the two results need beyond the inductive invariant of the pool *)

\* A task is withdrawn only from an executor that is shut down.
RemoveInv == \A t \in Tasks : pc[t] = "remove" => ~IsRunning(state)

\* A Shutdown call that was made has its signal or waits for it, and nobody waits
\* for the termination signal of a terminated executor.
AskedInv ==
  /\ \A d \in Closers : pc[d] # "idle" => d \in terminations \/ sent[d] > 0
  /\ IsTerminated(state) => terminations = {}

\* No process ever saw more workers than PoolCap.
SeenInv == \A p \in Procs : seen[p].count <= PoolCap

XInv == IInv /\ RemoveInv /\ AskedInv /\ SeenInv /\ NoLostWakeup

\* Every step keeps them.
LEMMA RemoveStep == IInv /\ RemoveInv /\ [Next]_vars => RemoveInv'
<1> SUFFICES ASSUME IInv, RemoveInv, [Next]_vars PROVE RemoveInv'
  OBVIOUS
<1> USE ProcsAssumption DEF IInv, CountInv, TypeOK, PoolType
<1>1. ASSUME NEW t \in Tasks, Submit(t) PROVE RemoveInv'
  BY <1>1 DEF Submit, CallAddWorker, RemoveInv, IsRunning, StateWord, RUNNING,
     SHUTDOWN, TERMINATED, Goto, ControlType, Procs, JobInv, poolVars
<1>2. ASSUME NEW t \in Tasks, SubmitReload(t) PROVE RemoveInv'
  BY <1>2 DEF SubmitReload, CallAddWorker, RemoveInv, IsRunning, StateWord,
     RUNNING, SHUTDOWN, TERMINATED, Goto, ControlType, Procs, JobInv, poolVars
<1>3. ASSUME NEW t \in Tasks, AddTaskPush(t) PROVE RemoveInv'
  BY <1>3 DEF AddTaskPush, SignalAnd, Waiting, RemoveInv, IsRunning, StateWord,
     RUNNING, SHUTDOWN, TERMINATED, Goto, ControlType, Procs, JobInv, poolVars
<1>4. ASSUME NEW t \in Tasks, AddTaskLoad(t) PROVE RemoveInv'
  BY <1>4 DEF AddTaskLoad, CallAddWorker, RemoveInv, IsRunning, StateWord,
     RUNNING, SHUTDOWN, TERMINATED, Goto, ControlType, Procs, JobInv, poolVars
<1>5. ASSUME NEW t \in Tasks, AddTaskRemove(t) PROVE RemoveInv'
  BY <1>5 DEF AddTaskRemove, RemoveInv, IsRunning, StateWord, RUNNING,
     SHUTDOWN, TERMINATED, Goto, ControlType, Procs, JobInv, poolVars
<1>6. ASSUME NEW t \in Tasks, Cancel(t) PROVE RemoveInv'
  BY <1>6 DEF Cancel, RemoveInv, IsRunning, StateWord, RUNNING, SHUTDOWN,
     TERMINATED, Goto, ControlType, Procs, JobInv, poolVars
<1>7. ASSUME NEW t \in Tasks, CancelSetResult(t) PROVE RemoveInv'
  BY <1>7 DEF CancelSetResult, SetResult, RemoveInv, IsRunning, StateWord,
     RUNNING, SHUTDOWN, TERMINATED, Goto, ControlType, Procs, JobInv, poolVars
<1>8. ASSUME NEW t \in Tasks, AwaitResult(t) PROVE RemoveInv'
  BY <1>8 DEF AwaitResult, RemoveInv, IsRunning, StateWord, RUNNING, SHUTDOWN,
     TERMINATED, Goto, ControlType, Procs, JobInv, poolVars
<1>9. ASSUME NEW w \in Workers, RunTask(w) PROVE RemoveInv'
  BY <1>9 DEF RunTask, RemoveInv, IsRunning, StateWord, RUNNING, SHUTDOWN,
     TERMINATED, Goto, ControlType, Procs, JobInv, poolVars
<1>10. ASSUME NEW w \in Workers, WorkerSetResult(w) PROVE RemoveInv'
  BY <1>10 DEF WorkerSetResult, SetResult, RemoveInv, IsRunning, StateWord,
     RUNNING, SHUTDOWN, TERMINATED, Goto, ControlType, Procs, JobInv, poolVars
<1>11. ASSUME NEW w \in Workers, PollLoad(w) PROVE RemoveInv'
  BY <1>11 DEF PollLoad, RemoveInv, IsRunning, StateWord, RUNNING, SHUTDOWN,
     TERMINATED, Goto, ControlType, Procs, JobInv, poolVars
<1>12. ASSUME NEW w \in Workers, PollDecide(w) PROVE RemoveInv'
  BY <1>12 DEF PollDecide, Redundant, RemoveInv, IsRunning, StateWord, RUNNING,
     SHUTDOWN, TERMINATED, Goto, ControlType, Procs, JobInv, poolVars
<1>13. ASSUME NEW w \in Workers, PollExit(w) PROVE RemoveInv'
  BY <1>13 DEF PollExit, RemoveInv, IsRunning, StateWord, RUNNING, SHUTDOWN,
     TERMINATED, Goto, ControlType, Procs, JobInv, poolVars
<1>14. ASSUME NEW w \in Workers, PollExitIdle(w) PROVE RemoveInv'
  BY <1>14 DEF PollExitIdle, RemoveInv, IsRunning, StateWord, RUNNING,
     SHUTDOWN, TERMINATED, Goto, ControlType, Procs, JobInv, poolVars
<1>15. ASSUME NEW w \in Workers, QueuePoll(w) PROVE RemoveInv'
  BY <1>15 DEF QueuePoll, PopTo, RemoveInv, IsRunning, StateWord, RUNNING,
     SHUTDOWN, TERMINATED, Goto, ControlType, Procs, JobInv, poolVars
<1>16. ASSUME NEW w \in Workers, QueueWoken(w) PROVE RemoveInv'
  BY <1>16 DEF QueueWoken, PopTo, RemoveInv, IsRunning, StateWord, RUNNING,
     SHUTDOWN, TERMINATED, Goto, ControlType, Procs, JobInv, poolVars
<1>17. ASSUME NEW w \in Workers, QueueTimeout(w) PROVE RemoveInv'
  BY <1>17 DEF QueueTimeout, Redundant, RemoveInv, IsRunning, StateWord,
     RUNNING, SHUTDOWN, TERMINATED, Goto, ControlType, Procs, JobInv, poolVars
<1>18. ASSUME NEW w \in Workers, TerminateWorker(w) PROVE RemoveInv'
  BY <1>18 DEF TerminateWorker, RemoveInv, IsRunning, StateWord, RUNNING,
     SHUTDOWN, TERMINATED, Goto, ControlType, Procs, JobInv, poolVars
<1>19. ASSUME NEW w \in Workers, ReplaceWorker(w) PROVE RemoveInv'
  BY <1>19 DEF ReplaceWorker, CallAddWorker, RemoveInv, IsRunning, StateWord,
     RUNNING, SHUTDOWN, TERMINATED, Goto, ControlType, Procs, JobInv, poolVars
<1>20. ASSUME NEW d \in Closers, Shutdown(d) PROVE RemoveInv'
  BY <1>20 DEF Shutdown, SetRunState, RemoveInv, IsRunning, StateWord, RUNNING,
     SHUTDOWN, TERMINATED, Goto, ControlType, Procs, JobInv, poolVars
<1>21. ASSUME NEW d \in Closers, ShutdownClose(d) PROVE RemoveInv'
  BY <1>21 DEF ShutdownClose, Waiting, RemoveInv, IsRunning, StateWord,
     RUNNING, SHUTDOWN, TERMINATED, Goto, ControlType, Procs, JobInv, poolVars
<1>22. ASSUME NEW p \in Tasks \cup Workers, AddWorkerLoad(p) PROVE RemoveInv'
  BY <1>22 DEF AddWorkerLoad, OnAddWorkerError, RemoveInv, IsRunning,
     StateWord, RUNNING, SHUTDOWN, TERMINATED, Goto, ControlType, Procs,
     JobInv, poolVars
<1>23. ASSUME NEW p \in Tasks \cup Workers, NEW w \in Workers, AddWorkerStart(p, w)
       PROVE  RemoveInv'
  BY <1>23 DEF AddWorkerStart, OnAddWorkerOk, RemoveInv, IsRunning, StateWord,
     RUNNING, SHUTDOWN, TERMINATED, Goto, ControlType, Procs, JobInv, poolVars
<1>24. ASSUME NEW p \in Tasks \cup Workers, AddWorkerRetry(p) PROVE RemoveInv'
  BY <1>24 DEF AddWorkerRetry, RemoveInv, IsRunning, StateWord, RUNNING,
     SHUTDOWN, TERMINATED, Goto, ControlType, Procs, JobInv, poolVars
<1>25. ASSUME NEW p \in Procs, TryTerminateLoad(p) PROVE RemoveInv'
  BY <1>25 DEF TryTerminateLoad, Return, AfterTryTerminate, RemoveInv,
     IsRunning, StateWord, RUNNING, SHUTDOWN, TERMINATED, Goto, ControlType,
     Procs, JobInv, poolVars
<1>26. ASSUME NEW p \in Procs, TryTerminateCheck(p) PROVE RemoveInv'
  BY <1>26 DEF TryTerminateCheck, Return, AfterTryTerminate, RemoveInv,
     IsRunning, StateWord, RUNNING, SHUTDOWN, TERMINATED, Goto, ControlType,
     Procs, JobInv, poolVars
<1>27. ASSUME NEW p \in Procs, TryTerminateCommit(p) PROVE RemoveInv'
  BY <1>27 DEF TryTerminateCommit, Return, AfterTryTerminate, SetRunState,
     RemoveInv, IsRunning, StateWord, RUNNING, SHUTDOWN, TERMINATED, Goto,
     ControlType, Procs, JobInv, poolVars
<1>28. CASE UNCHANGED vars
  BY <1>28 DEF vars, poolVars, queueVars, localVars, handleVars, RemoveInv,
     IsRunning, StateWord, RUNNING, SHUTDOWN, TERMINATED, Goto, ControlType,
     Procs, JobInv, poolVars
<1> QED
  BY <1>1, <1>2, <1>3, <1>4, <1>5, <1>6, <1>7, <1>8, <1>9, <1>10, <1>11, <1>12,
     <1>13, <1>14, <1>15, <1>16, <1>17, <1>18, <1>19, <1>20, <1>21, <1>22,
     <1>23, <1>24, <1>25, <1>26, <1>27, <1>28 DEF Next, SubmitStep, CancelStep,
     TaskRun, PollTask, WorkerExit, WorkerStep, ShutdownStep, AddWorker,
     TryTerminate, Done, Procs

\* Every Shutdown call is counted once, with those that wait or those signalled.
LEMMA AskedStep == IInv /\ AskedInv /\ [Next]_vars => AskedInv'
<1> SUFFICES ASSUME IInv, AskedInv, [Next]_vars PROVE AskedInv'
  OBVIOUS
<1> USE ProcsAssumption DEF IInv, CountInv, TypeOK, PoolType
<1>1. ASSUME NEW t \in Tasks, Submit(t) PROVE AskedInv'
  BY <1>1 DEF Submit, CallAddWorker, AskedInv, IsTerminated, IsRunning,
     StateWord, RUNNING, SHUTDOWN, TERMINATED, Goto, ControlType, Procs,
     JobInv, poolVars
<1>2. ASSUME NEW t \in Tasks, SubmitReload(t) PROVE AskedInv'
  BY <1>2 DEF SubmitReload, CallAddWorker, AskedInv, IsTerminated, IsRunning,
     StateWord, RUNNING, SHUTDOWN, TERMINATED, Goto, ControlType, Procs,
     JobInv, poolVars
<1>3. ASSUME NEW t \in Tasks, AddTaskPush(t) PROVE AskedInv'
  BY <1>3 DEF AddTaskPush, SignalAnd, Waiting, AskedInv, IsTerminated,
     IsRunning, StateWord, RUNNING, SHUTDOWN, TERMINATED, Goto, ControlType,
     Procs, JobInv, poolVars
<1>4. ASSUME NEW t \in Tasks, AddTaskLoad(t) PROVE AskedInv'
  BY <1>4 DEF AddTaskLoad, CallAddWorker, AskedInv, IsTerminated, IsRunning,
     StateWord, RUNNING, SHUTDOWN, TERMINATED, Goto, ControlType, Procs,
     JobInv, poolVars
<1>5. ASSUME NEW t \in Tasks, AddTaskRemove(t) PROVE AskedInv'
  BY <1>5 DEF AddTaskRemove, AskedInv, IsTerminated, IsRunning, StateWord,
     RUNNING, SHUTDOWN, TERMINATED, Goto, ControlType, Procs, JobInv, poolVars
<1>6. ASSUME NEW t \in Tasks, Cancel(t) PROVE AskedInv'
  BY <1>6 DEF Cancel, AskedInv, IsTerminated, IsRunning, StateWord, RUNNING,
     SHUTDOWN, TERMINATED, Goto, ControlType, Procs, JobInv, poolVars
<1>7. ASSUME NEW t \in Tasks, CancelSetResult(t) PROVE AskedInv'
  BY <1>7 DEF CancelSetResult, SetResult, AskedInv, IsTerminated, IsRunning,
     StateWord, RUNNING, SHUTDOWN, TERMINATED, Goto, ControlType, Procs,
     JobInv, poolVars
<1>8. ASSUME NEW t \in Tasks, AwaitResult(t) PROVE AskedInv'
  BY <1>8 DEF AwaitResult, AskedInv, IsTerminated, IsRunning, StateWord,
     RUNNING, SHUTDOWN, TERMINATED, Goto, ControlType, Procs, JobInv, poolVars
<1>9. ASSUME NEW w \in Workers, RunTask(w) PROVE AskedInv'
  BY <1>9 DEF RunTask, AskedInv, IsTerminated, IsRunning, StateWord, RUNNING,
     SHUTDOWN, TERMINATED, Goto, ControlType, Procs, JobInv, poolVars
<1>10. ASSUME NEW w \in Workers, WorkerSetResult(w) PROVE AskedInv'
  BY <1>10 DEF WorkerSetResult, SetResult, AskedInv, IsTerminated, IsRunning,
     StateWord, RUNNING, SHUTDOWN, TERMINATED, Goto, ControlType, Procs,
     JobInv, poolVars
<1>11. ASSUME NEW w \in Workers, PollLoad(w) PROVE AskedInv'
  BY <1>11 DEF PollLoad, AskedInv, IsTerminated, IsRunning, StateWord, RUNNING,
     SHUTDOWN, TERMINATED, Goto, ControlType, Procs, JobInv, poolVars
<1>12. ASSUME NEW w \in Workers, PollDecide(w) PROVE AskedInv'
  BY <1>12 DEF PollDecide, Redundant, AskedInv, IsTerminated, IsRunning,
     StateWord, RUNNING, SHUTDOWN, TERMINATED, Goto, ControlType, Procs,
     JobInv, poolVars
<1>13. ASSUME NEW w \in Workers, PollExit(w) PROVE AskedInv'
  BY <1>13 DEF PollExit, AskedInv, IsTerminated, IsRunning, StateWord, RUNNING,
     SHUTDOWN, TERMINATED, Goto, ControlType, Procs, JobInv, poolVars
<1>14. ASSUME NEW w \in Workers, PollExitIdle(w) PROVE AskedInv'
  BY <1>14 DEF PollExitIdle, AskedInv, IsTerminated, IsRunning, StateWord,
     RUNNING, SHUTDOWN, TERMINATED, Goto, ControlType, Procs, JobInv, poolVars
<1>15. ASSUME NEW w \in Workers, QueuePoll(w) PROVE AskedInv'
  BY <1>15 DEF QueuePoll, PopTo, AskedInv, IsTerminated, IsRunning, StateWord,
     RUNNING, SHUTDOWN, TERMINATED, Goto, ControlType, Procs, JobInv, poolVars
<1>16. ASSUME NEW w \in Workers, QueueWoken(w) PROVE AskedInv'
  BY <1>16 DEF QueueWoken, PopTo, AskedInv, IsTerminated, IsRunning, StateWord,
     RUNNING, SHUTDOWN, TERMINATED, Goto, ControlType, Procs, JobInv, poolVars
<1>17. ASSUME NEW w \in Workers, QueueTimeout(w) PROVE AskedInv'
  BY <1>17 DEF QueueTimeout, Redundant, AskedInv, IsTerminated, IsRunning,
     StateWord, RUNNING, SHUTDOWN, TERMINATED, Goto, ControlType, Procs,
     JobInv, poolVars
<1>18. ASSUME NEW w \in Workers, TerminateWorker(w) PROVE AskedInv'
  BY <1>18 DEF TerminateWorker, AskedInv, IsTerminated, IsRunning, StateWord,
     RUNNING, SHUTDOWN, TERMINATED, Goto, ControlType, Procs, JobInv, poolVars
<1>19. ASSUME NEW w \in Workers, ReplaceWorker(w) PROVE AskedInv'
  BY <1>19 DEF ReplaceWorker, CallAddWorker, AskedInv, IsTerminated, IsRunning,
     StateWord, RUNNING, SHUTDOWN, TERMINATED, Goto, ControlType, Procs,
     JobInv, poolVars
<1>20. ASSUME NEW d \in Closers, Shutdown(d) PROVE AskedInv'
  BY <1>20 DEF Shutdown, SetRunState, AskedInv, IsTerminated, IsRunning,
     StateWord, RUNNING, SHUTDOWN, TERMINATED, Goto, ControlType, Procs,
     JobInv, poolVars
<1>21. ASSUME NEW d \in Closers, ShutdownClose(d) PROVE AskedInv'
  BY <1>21 DEF ShutdownClose, Waiting, AskedInv, IsTerminated, IsRunning,
     StateWord, RUNNING, SHUTDOWN, TERMINATED, Goto, ControlType, Procs,
     JobInv, poolVars
<1>22. ASSUME NEW p \in Tasks \cup Workers, AddWorkerLoad(p) PROVE AskedInv'
  BY <1>22 DEF AddWorkerLoad, OnAddWorkerError, AskedInv, IsTerminated,
     IsRunning, StateWord, RUNNING, SHUTDOWN, TERMINATED, Goto, ControlType,
     Procs, JobInv, poolVars
<1>23. ASSUME NEW p \in Tasks \cup Workers, NEW w \in Workers, AddWorkerStart(p, w)
       PROVE  AskedInv'
  BY <1>23 DEF AddWorkerStart, OnAddWorkerOk, AskedInv, IsTerminated,
     IsRunning, StateWord, RUNNING, SHUTDOWN, TERMINATED, Goto, ControlType,
     Procs, JobInv, poolVars
<1>24. ASSUME NEW p \in Tasks \cup Workers, AddWorkerRetry(p) PROVE AskedInv'
  BY <1>24 DEF AddWorkerRetry, AskedInv, IsTerminated, IsRunning, StateWord,
     RUNNING, SHUTDOWN, TERMINATED, Goto, ControlType, Procs, JobInv, poolVars
<1>25. ASSUME NEW p \in Procs, TryTerminateLoad(p) PROVE AskedInv'
  BY <1>25 DEF TryTerminateLoad, Return, AfterTryTerminate, AskedInv,
     IsTerminated, IsRunning, StateWord, RUNNING, SHUTDOWN, TERMINATED, Goto,
     ControlType, Procs, JobInv, poolVars
<1>26. ASSUME NEW p \in Procs, TryTerminateCheck(p) PROVE AskedInv'
  BY <1>26 DEF TryTerminateCheck, Return, AfterTryTerminate, AskedInv,
     IsTerminated, IsRunning, StateWord, RUNNING, SHUTDOWN, TERMINATED, Goto,
     ControlType, Procs, JobInv, poolVars
<1>27. ASSUME NEW p \in Procs, TryTerminateCommit(p) PROVE AskedInv'
  BY <1>27 DEF TryTerminateCommit, Return, AfterTryTerminate, SetRunState,
     AskedInv, IsTerminated, IsRunning, StateWord, RUNNING, SHUTDOWN,
     TERMINATED, Goto, ControlType, Procs, JobInv, poolVars
<1>28. CASE UNCHANGED vars
  BY <1>28 DEF vars, poolVars, queueVars, localVars, handleVars, AskedInv,
     IsTerminated, IsRunning, StateWord, RUNNING, SHUTDOWN, TERMINATED, Goto,
     ControlType, Procs, JobInv, poolVars
<1> QED
  BY <1>1, <1>2, <1>3, <1>4, <1>5, <1>6, <1>7, <1>8, <1>9, <1>10, <1>11, <1>12,
     <1>13, <1>14, <1>15, <1>16, <1>17, <1>18, <1>19, <1>20, <1>21, <1>22,
     <1>23, <1>24, <1>25, <1>26, <1>27, <1>28 DEF Next, SubmitStep, CancelStep,
     TaskRun, PollTask, WorkerExit, WorkerStep, ShutdownStep, AddWorker,
     TryTerminate, Done, Procs

\* A state word that was loaded is one that the pool had.
LEMMA SeenStep == IInv /\ SeenInv /\ [Next]_vars => SeenInv'
<1> SUFFICES ASSUME IInv, SeenInv, [Next]_vars PROVE SeenInv'
  OBVIOUS
<1>1. /\ PoolCap \in Nat /\ state.count \in Nat /\ state.count <= PoolCap /\ NoState.count = 0
      /\ seen \in [Procs -> StateWord] /\ Workers \subseteq Procs
  BY ConfigAssumption DEF IInv, CountInv, TypeOK, PoolType, LocalType, StateWord, PoolBound, PoolCap, NoState, Procs
<1>2. \/ seen' = seen \/ \E p \in Procs : Load(p) \/ Forget(p)
  BY DEF Next, SubmitStep, CancelStep, TaskRun, PollTask, WorkerExit, WorkerStep,
     ShutdownStep, AddWorker, TryTerminate, Done, Procs, vars, localVars,
     Submit, SubmitReload, AddTaskPush, AddTaskLoad, AddTaskRemove, Cancel,
     CancelSetResult, AwaitResult, RunTask, WorkerSetResult, PollLoad,
     PollDecide, PollExit, PollExitIdle, QueuePoll, QueueWoken, QueueTimeout, TerminateWorker,
     ReplaceWorker, Shutdown, ShutdownClose, AddWorkerLoad, AddWorkerRetry, AddWorkerStart,
     TryTerminateLoad, TryTerminateCheck, TryTerminateCommit, Return
<1> QED
  BY <1>1, <1>2 DEF SeenInv, Load, Forget

-----------------------------------------------------------------------------
(* Wake-ups *)

\* A worker decides to exit only when it found the queue empty: it finds itself
\* redundant only if the pool may shrink to nothing, and then it is alone.
LEMMA ExitsWhenEmpty ==
  ASSUME IInv, SeenInv, NEW w \in Workers, PollDecide(w)
  PROVE  Empty \/ pc' = [pc EXCEPT ![w] = "dequeue"]
<1>1. seen[w].count \in Nat /\ seen[w].count <= PoolCap
  BY DEF SeenInv, IInv, CountInv, TypeOK, LocalType, StateWord, Procs
<1>2. Redundant(seen[w]) => ~(seen[w].count > 1)
  BY <1>1, ConfigAssumption DEF Redundant, PoolCap
<1> QED
  BY <1>2 DEF PollDecide, Goto

\* Every step that puts a task in the queue, lets a worker sleep or lets one exit
\* leaves some worker awake while others sleep.
LEMMA WakeStep == IInv /\ SeenInv /\ NoLostWakeup /\ [Next]_vars => NoLostWakeup'
<1> SUFFICES ASSUME IInv, SeenInv, NoLostWakeup, [Next]_vars PROVE NoLostWakeup'
  OBVIOUS
<1> USE ProcsAssumption DEF IInv, CountInv, TypeOK
<1>1. ASSUME NEW t \in Tasks, Submit(t) PROVE NoLostWakeup'
  BY <1>1 DEF Submit, CallAddWorker, NoLostWakeup, Waiting, Empty, Counted,
     Goto, ControlType, Procs, queueVars
<1>2. ASSUME NEW t \in Tasks, SubmitReload(t) PROVE NoLostWakeup'
  BY <1>2 DEF SubmitReload, CallAddWorker, NoLostWakeup, Waiting, Empty,
     Counted, Goto, ControlType, Procs, queueVars
<1>3. ASSUME NEW t \in Tasks, AddTaskPush(t) PROVE NoLostWakeup'
  BY <1>3 DEF AddTaskPush, SignalAnd, Waiting, NoLostWakeup, Waiting, Empty,
     Counted, Goto, ControlType, Procs, queueVars
<1>4. ASSUME NEW t \in Tasks, AddTaskLoad(t) PROVE NoLostWakeup'
  BY <1>4 DEF AddTaskLoad, CallAddWorker, NoLostWakeup, Waiting, Empty,
     Counted, Goto, ControlType, Procs, queueVars
<1>5. ASSUME NEW t \in Tasks, AddTaskRemove(t) PROVE NoLostWakeup'
  <2>1. Empty => taskQueue' = taskQueue
    BY <1>5 DEF AddTaskRemove, QueueRemove, QueueType, Empty, queueVars
  <2> QED
    BY <1>5, <2>1 DEF AddTaskRemove, Empty, NoLostWakeup, Waiting, Counted, Goto,
       ControlType, Procs
<1>6. ASSUME NEW t \in Tasks, Cancel(t) PROVE NoLostWakeup'
  <2>1. Empty => taskQueue' = taskQueue
    BY <1>6 DEF Cancel, QueueRemove, QueueType, Empty, queueVars
  <2> QED
    BY <1>6, <2>1 DEF Cancel, Empty, NoLostWakeup, Waiting, Counted, Goto,
       ControlType, Procs
<1>7. ASSUME NEW t \in Tasks, CancelSetResult(t) PROVE NoLostWakeup'
  BY <1>7 DEF CancelSetResult, SetResult, NoLostWakeup, Waiting, Empty,
     Counted, Goto, ControlType, Procs, queueVars
<1>8. ASSUME NEW t \in Tasks, AwaitResult(t) PROVE NoLostWakeup'
  BY <1>8 DEF AwaitResult, NoLostWakeup, Waiting, Empty, Counted, Goto,
     ControlType, Procs, queueVars
<1>9. ASSUME NEW w \in Workers, RunTask(w) PROVE NoLostWakeup'
  BY <1>9 DEF RunTask, NoLostWakeup, Waiting, Empty, Counted, Goto,
     ControlType, Procs, queueVars
<1>10. ASSUME NEW w \in Workers, WorkerSetResult(w) PROVE NoLostWakeup'
  BY <1>10 DEF WorkerSetResult, SetResult, NoLostWakeup, Waiting, Empty,
     Counted, Goto, ControlType, Procs, queueVars
<1>11. ASSUME NEW w \in Workers, PollLoad(w) PROVE NoLostWakeup'
  BY <1>11 DEF PollLoad, NoLostWakeup, Waiting, Empty, Counted, Goto,
     ControlType, Procs, queueVars
<1>12. ASSUME NEW w \in Workers, PollDecide(w) PROVE NoLostWakeup'
  <2>1. Empty' = Empty /\ (Empty \/ pc' = [pc EXCEPT ![w] = "dequeue"])
    BY <1>12, ExitsWhenEmpty DEF PollDecide, queueVars, Empty
  <2> QED
    BY <2>1 DEF NoLostWakeup, Waiting, Counted, Goto,
       ControlType, Procs
<1>13. ASSUME NEW w \in Workers, PollExit(w) PROVE NoLostWakeup'
  BY <1>13 DEF PollExit, NoLostWakeup, Waiting, Empty, Counted, Goto,
     ControlType, Procs, queueVars
<1>14. ASSUME NEW w \in Workers, PollExitIdle(w) PROVE NoLostWakeup'
  BY <1>14 DEF PollExitIdle, NoLostWakeup, Waiting, Empty, Counted, Goto,
     ControlType, Procs, queueVars
<1>15. ASSUME NEW w \in Workers, QueuePoll(w) PROVE NoLostWakeup'
  BY <1>15 DEF QueuePoll, PopTo, NoLostWakeup, Waiting, Empty, Counted, Goto,
     ControlType, Procs, queueVars
<1>16. ASSUME NEW w \in Workers, QueueWoken(w) PROVE NoLostWakeup'
  BY <1>16 DEF QueueWoken, PopTo, NoLostWakeup, Waiting, Empty, Counted, Goto,
     ControlType, Procs, queueVars
<1>17. ASSUME NEW w \in Workers, QueueTimeout(w) PROVE NoLostWakeup'
  BY <1>17 DEF QueueTimeout, Redundant, NoLostWakeup, Waiting, Empty, Counted,
     Goto, ControlType, Procs, queueVars
<1>18. ASSUME NEW w \in Workers, TerminateWorker(w) PROVE NoLostWakeup'
  BY <1>18 DEF TerminateWorker, NoLostWakeup, Waiting, Empty, Counted, Goto,
     ControlType, Procs, queueVars
<1>19. ASSUME NEW w \in Workers, ReplaceWorker(w) PROVE NoLostWakeup'
  BY <1>19 DEF ReplaceWorker, CallAddWorker, NoLostWakeup, Waiting, Empty,
     Counted, Goto, ControlType, Procs, queueVars
<1>20. ASSUME NEW d \in Closers, Shutdown(d) PROVE NoLostWakeup'
  BY <1>20 DEF Shutdown, SetRunState, NoLostWakeup, Waiting, Empty, Counted,
     Goto, ControlType, Procs, queueVars
<1>21. ASSUME NEW d \in Closers, ShutdownClose(d) PROVE NoLostWakeup'
  BY <1>21 DEF ShutdownClose, Waiting, NoLostWakeup, Waiting, Empty, Counted,
     Goto, ControlType, Procs, queueVars
<1>22. ASSUME NEW p \in Tasks \cup Workers, AddWorkerLoad(p) PROVE NoLostWakeup'
  <2>1. \A w \in Workers : pc'[w] # pc[w] => pc[w] = "addWorker" /\ pc'[w] \in {"casInc", "none"}
    BY <1>22 DEF AddWorkerLoad, OnAddWorkerError, JobInv, Goto, ControlType, Procs
  <2> QED
    BY <1>22, <2>1 DEF AddWorkerLoad, queueVars, Empty, NoLostWakeup, Waiting, Counted, Goto,
       ControlType, Procs
<1>23. ASSUME NEW p \in Tasks \cup Workers, NEW w \in Workers, AddWorkerStart(p, w)
       PROVE  NoLostWakeup'
  BY <1>23 DEF AddWorkerStart, OnAddWorkerOk, NoLostWakeup, Waiting, Empty,
     Counted, Goto, ControlType, Procs, queueVars
<1>24. ASSUME NEW p \in Tasks \cup Workers, AddWorkerRetry(p)
       PROVE  NoLostWakeup'
  BY <1>24 DEF AddWorkerRetry, NoLostWakeup, Waiting, Empty, Counted, Goto,
     ControlType, Procs, queueVars
<1>25. ASSUME NEW p \in Procs, TryTerminateLoad(p) PROVE NoLostWakeup'
  BY <1>25 DEF TryTerminateLoad, Return, AfterTryTerminate, NoLostWakeup,
     Waiting, Empty, Counted, Goto, ControlType, Procs, queueVars
<1>26. ASSUME NEW p \in Procs, TryTerminateCheck(p) PROVE NoLostWakeup'
  BY <1>26 DEF TryTerminateCheck, Return, AfterTryTerminate, NoLostWakeup,
     Waiting, Empty, Counted, Goto, ControlType, Procs, queueVars
<1>27. ASSUME NEW p \in Procs, TryTerminateCommit(p) PROVE NoLostWakeup'
  BY <1>27 DEF TryTerminateCommit, Return, AfterTryTerminate, SetRunState,
     NoLostWakeup, Waiting, Empty, Counted, Goto, ControlType, Procs, queueVars
<1>28. CASE UNCHANGED vars
  BY <1>28 DEF vars, poolVars, queueVars, localVars, handleVars, NoLostWakeup,
     Waiting, Empty, Counted, Goto, ControlType, Procs, queueVars
<1> QED
  BY <1>1, <1>2, <1>3, <1>4, <1>5, <1>6, <1>7, <1>8, <1>9, <1>10, <1>11, <1>12,
     <1>13, <1>14, <1>15, <1>16, <1>17, <1>18, <1>19, <1>20, <1>21, <1>22,
     <1>23, <1>24, <1>25, <1>26, <1>27, <1>28 DEF Next, SubmitStep, CancelStep,
     TaskRun, PollTask, WorkerExit, WorkerStep, ShutdownStep, AddWorker,
     TryTerminate, Done, Procs

\* The initial state, and then every step, keeps what the pool needs in addition.
LEMMA XInvariance == Spec => []XInv
<1>1. Init => XInv
  <2> SUFFICES ASSUME Init PROVE XInv
    OBVIOUS
  <2>1. \A p \in Procs : pc[p] = (IF p \in Workers THEN "none" ELSE "idle") /\ seen[p] = NoState
    BY DEF Init
  <2>2. PoolCap \in Nat
    BY ConfigAssumption DEF PoolCap
  <2>3. RemoveInv
    BY <2>1, ProcsAssumption DEF RemoveInv, Procs
  <2>4. AskedInv
    BY <2>1, ProcsAssumption DEF Init, AskedInv, Procs
  <2>5. SeenInv
    BY <2>1, <2>2 DEF SeenInv, NoState
  <2>6. NoLostWakeup
    BY DEF Init, NoLostWakeup, Empty
  <2> QED
    BY <2>3, <2>4, <2>5, <2>6, IInvInit DEF XInv
<1>2. XInv /\ [Next]_vars => XInv'
  BY IInvStep, RemoveStep, AskedStep, SeenStep, WakeStep DEF XInv
<1> QED
  BY <1>1, <1>2, PTL DEF Spec

\* Push signals only when the queue was empty, and that is enough: while tasks are
\* queued and workers sleep, some worker is awake, for every size of the pool and of
\* the queue, whether its polls time out or not.
THEOREM WakeupCorrect == Spec => []NoLostWakeup
<1>1. XInv => NoLostWakeup
  BY DEF XInv
<1> QED
  BY <1>1, XInvariance, PTL

-----------------------------------------------------------------------------
(* The refinement of Executor *)

PhaseBar == IF IsRunning(state) THEN "running"
            ELSE IF IsTerminated(state) THEN "terminated" ELSE "shutdown"
StatusBar == [t \in Tasks |-> Status(t)]
AskedBar == {d \in Closers : pc[d] # "idle"}
SignalledBar == {d \in Closers : sent[d] > 0}

\* What a worker holds is what it has in its hand.
LEMMA HoldingHeld == TypeOK => \A t \in Tasks : (\E w \in Workers : Holding(w, t)) <=> Held(t)
  BY ProcsAssumption DEF TypeOK, HandType, Holding, Held, Procs

\* The status of a task, by where it is.
StatusFacts ==
  \A t \in Tasks :
    /\ result[t] = "value" => Status(t) = "done"
    /\ result[t] = "cancelled" => Status(t) = "cancelled"
    /\ Cancelled(t) => Status(t) = "cancelled"
    /\ Held(t) => Status(t) = "running"
    /\ InQueue(t) /\ pc[t] = "accepted" => Status(t) = "pending"
    /\ InQueue(t) /\ pc[t] # "accepted" => Status(t) = "offered"
    /\ pc[t] = "rejected" => Status(t) = "rejected"
    /\ ~Offered(t) /\ ~Cancelled(t) /\ pc[t] # "rejected" => Status(t) = "new"
    /\ Status(t) \in {"pending", "running"} => Held(t) \/ (InQueue(t) /\ pc[t] = "accepted")
    /\ Offered(t) => InQueue(t) \/ Held(t) \/ result[t] \in {"value", "cancelled"}
    /\ result[t] # None => Status(t) = IF result[t] = "value" THEN "done" ELSE "cancelled"

\* They hold wherever the inductive invariant does.
LEMMA StatusCases == IInv => StatusFacts
<1> SUFFICES ASSUME IInv PROVE StatusFacts
  OBVIOUS
<1> SUFFICES ASSUME NEW t \in Tasks PROVE StatusFacts!(t)
  BY DEF StatusFacts
<1>1. /\ TaskInv(t) /\ TypeOK /\ result[t] \in {None, "value", "cancelled"} /\ None \notin {"value", "cancelled"}
      /\ (\E w \in Workers : Holding(w, t)) <=> Held(t)
  BY HoldingHeld, ProcsAssumption DEF IInv, CountInv, PlaceInv, TypeOK, HandleType
<1>2. Cancelled(t) \/ pc[t] = "rejected" => ~Offered(t)
  BY DEF Cancelled, Offered
<1>3. Held(t) => result[t] = None
  BY <1>1 DEF TaskInv, Held
<1>4. Cancelled(t) => pc[t] # "rejected"
  BY DEF Cancelled
<1> QED
  BY <1>1, <1>2, <1>3, <1>4 DEF Status, TaskInv

\* They hold before and after a step.
LEMMA StatusBoth == IInv /\ IInv' => StatusFacts /\ StatusFacts'
  BY StatusCases, PTL

\* A task that no step touches keeps its status.
LEMMA StatusKept ==
  ASSUME IInv, IInv', NEW t \in Tasks, result'[t] = result[t], pc'[t] = pc[t],
         InQueue(t)' <=> InQueue(t), Held(t)' <=> Held(t)
  PROVE  Status(t)' = Status(t)
<1>1. (\E w \in Workers : Holding(w, t)) <=> Held(t)
  BY HoldingHeld DEF IInv, CountInv
<1>2. ((\E w \in Workers : Holding(w, t)) <=> Held(t))'
  BY ProcsAssumption DEF IInv, CountInv, TypeOK, HandType, Holding, Held, Procs
<1>3. Cancelled(t)' <=> Cancelled(t)
  BY DEF Cancelled
<1> QED
  BY <1>1, <1>2, <1>3 DEF Status

\* A step of the pool that moves one task is a step of the executor.
LEMMA MoveBar ==
  ASSUME NEW t \in Tasks, NEW to, Status(t)' = to,
         \A u \in Tasks : u # t => Status(u)' = Status(u)
  PROVE  StatusBar' = [StatusBar EXCEPT ![t] = to] /\ StatusBar[t] = Status(t)
  BY DEF StatusBar

\* A step that moves none is none.
LEMMA StillBar ==
  ASSUME \A u \in Tasks : Status(u)' = Status(u)
  PROVE  StatusBar' = StatusBar
  BY DEF StatusBar

\* What the mapped variables leave as it is, the executor does.
LEMMA Stutters ==
  ASSUME UNCHANGED <<PhaseBar, StatusBar, AskedBar, SignalledBar>>
  PROVE  UNCHANGED Promise!vars
  BY DEF Promise!vars, PhaseBar, StatusBar, AskedBar, SignalledBar

\* The moves of a task that the executor allows.
Allowed(from, to) ==
  \/ from = "new" /\ to \in {"offered", "rejected"}
  \/ PhaseBar = "running" /\ from = "new" /\ to = "running"
  \/ PhaseBar = "running" /\ from = "offered" /\ to = "pending"
  \/ PhaseBar # "running" /\ from = "offered" /\ to = "rejected"
  \/ PhaseBar # "terminated" /\ from \in {"offered", "pending"} /\ to = "running"
  \/ PhaseBar # "terminated" /\ from = "running" /\ to = "done"
  \/ from = "pending" /\ to = "cancelled"

\* A step that moves one task in such a way is a step of the executor.
LEMMA Moves ==
  ASSUME NEW t \in Tasks, NEW to, Status(t)' = to, Allowed(Status(t), to),
         \A u \in Tasks : u # t => Status(u)' = Status(u),
         UNCHANGED <<PhaseBar, AskedBar, SignalledBar>>
  PROVE  Promise!Next
<1>1. /\ StatusBar' = [StatusBar EXCEPT ![t] = to] /\ StatusBar[t] = Status(t)
      /\ UNCHANGED <<PhaseBar, AskedBar, SignalledBar>>
  BY MoveBar
<1>2. Promise!Move(t, Status(t), to)
  BY <1>1 DEF Promise!Move, PhaseBar, StatusBar, AskedBar, SignalledBar
<1> HIDE DEF Promise!Move
<1>3. CASE Status(t) = "new" /\ to \in {"offered", "rejected"}
  BY <1>2, <1>3 DEF Promise!Next, Promise!Offer, Promise!Refuse
<1>4. CASE PhaseBar = "running" /\ Status(t) = "new" /\ to = "running"
  BY <1>2, <1>4 DEF Promise!Next, Promise!StartAtOnce, PhaseBar
<1>5. CASE PhaseBar = "running" /\ Status(t) = "offered" /\ to = "pending"
  BY <1>2, <1>5 DEF Promise!Next, Promise!Accept, PhaseBar
<1>6. CASE PhaseBar # "running" /\ Status(t) = "offered" /\ to = "rejected"
  BY <1>2, <1>6 DEF Promise!Next, Promise!Withdraw, PhaseBar
<1>7. CASE PhaseBar # "terminated" /\ Status(t) \in {"offered", "pending"} /\ to = "running"
  BY <1>2, <1>7 DEF Promise!Next, Promise!Start, PhaseBar
<1>8. CASE PhaseBar # "terminated" /\ Status(t) = "running" /\ to = "done"
  BY <1>2, <1>8 DEF Promise!Next, Promise!Finish, PhaseBar
<1>9. CASE Status(t) = "pending" /\ to = "cancelled"
  BY <1>2, <1>9 DEF Promise!Next, Promise!Cancel
<1> QED
  BY <1>3, <1>4, <1>5, <1>6, <1>7, <1>8, <1>9 DEF Allowed

\* The phase depends on the run state only, and the signals on what was sent.
LEMMA BarsKept ==
  ASSUME state'.run = state.run, sent' = sent,
         \A d \in Closers : pc'[d] = "idle" <=> pc[d] = "idle"
  PROVE  UNCHANGED <<PhaseBar, AskedBar, SignalledBar>>
  BY DEF PhaseBar, AskedBar, SignalledBar, IsRunning, IsTerminated

\* A step of a worker or of a Shutdown call that moves no task, nor the run state.
LEMMA Stands ==
  ASSUME IInv, IInv', UNCHANGED <<taskQueue, cur, result, sent>>, state'.run = state.run,
         \A t \in Tasks : pc'[t] = pc[t],
         \A d \in Closers : pc'[d] = "idle" <=> pc[d] = "idle"
  PROVE  UNCHANGED Promise!vars
<1>1. \A t \in Tasks : Status(t)' = Status(t)
  BY StatusKept DEF InQueue, Held
<1> QED
  BY <1>1, StillBar, BarsKept, Stutters

\* A step of a Submit call that moves no task between the queue, a hand and a result.
LEMMA Decides ==
  ASSUME IInv, IInv', UNCHANGED <<taskQueue, cur, result, sent>>, state' = state, NEW t \in Tasks,
         \A p \in Procs \ {t} : pc'[p] = pc[p],
         Status(t)' = Status(t) \/ Allowed(Status(t), Status(t)')
  PROVE  Promise!Next \/ UNCHANGED Promise!vars
<1>1. \A u \in Tasks : u # t => Status(u)' = Status(u)
  BY StatusKept DEF InQueue, Held, Procs
<1>2. UNCHANGED <<PhaseBar, AskedBar, SignalledBar>>
  BY BarsKept, ProcsAssumption DEF Procs
<1>3. CASE Status(t)' = Status(t)
  BY <1>1, <1>2, <1>3, StillBar, Stutters
<1>4. CASE Allowed(Status(t), Status(t)')
  BY <1>1, <1>2, <1>4, Moves
<1> QED
  BY <1>3, <1>4

\* A task that stays in the pool keeps its status, unless it is queued and accepted.
LEMMA StaysOffered ==
  ASSUME IInv, IInv', UNCHANGED <<taskQueue, cur, result>>, NEW t \in Tasks, Offered(t), Offered(t)',
         InQueue(t) => (pc'[t] = "accepted" <=> pc[t] = "accepted")
  PROVE  Status(t)' = Status(t)
<1>1. (InQueue(t)' <=> InQueue(t)) /\ (Held(t)' <=> Held(t)) /\ result'[t] = result[t]
  BY DEF InQueue, Held
<1> QED
  BY <1>1, StatusBoth DEF StatusFacts

\* The steps of a Submit call that decide and do not touch the queue.
LEMMA SubmitRefines ==
  ASSUME XInv, XInv', NEW t \in Tasks, Submit(t) \/ SubmitReload(t) \/ AddTaskLoad(t)
  PROVE  Promise!Next \/ UNCHANGED Promise!vars
<1> USE ProcsAssumption DEF XInv, IInv, CountInv, TypeOK
<1>1. /\ UNCHANGED <<taskQueue, cur, result, sent>> /\ state' = state
      /\ \A p \in Procs \ {t} : pc'[p] = pc[p]
  BY DEF Submit, SubmitReload, AddTaskLoad, CallAddWorker, Goto, poolVars,
     queueVars, handleVars, ControlType, Procs
<1>2. CASE Submit(t) \/ SubmitReload(t)
  <2>1. ~Offered(t) /\ ~Cancelled(t) /\ pc[t] # "rejected"
    BY <1>2 DEF Submit, SubmitReload, Offered, Cancelled
  <2>2. (~Offered(t) /\ ~Cancelled(t) /\ pc[t] # "rejected")'
    BY <1>2 DEF Submit, SubmitReload, CallAddWorker, Goto, Offered, Cancelled,
       ControlType, LocalType, Procs
  <2>3. Status(t)' = Status(t)
    BY <2>1, <2>2, StatusBoth DEF StatusFacts
  <2> QED
    BY <1>1, <2>3, Decides
<1>3. CASE AddTaskLoad(t)
  <2>1. Offered(t) /\ pc[t] # "accepted"
    BY <1>3 DEF AddTaskLoad, Offered
  <2>2. Offered(t)' /\ (pc'[t] = "accepted" => IsRunning(state))
    BY <1>3 DEF AddTaskLoad, CallAddWorker, Goto, Offered, ControlType,
       LocalType, Procs
  <2>3. CASE ~InQueue(t) \/ pc'[t] # "accepted"
    BY <1>1, <2>1, <2>2, <2>3, StaysOffered, Decides
  <2>4. CASE InQueue(t) /\ pc'[t] = "accepted"
    <3>1. Status(t) = "offered" /\ Status(t)' = "pending"
      BY <1>1, <2>1, <2>4, StatusBoth DEF StatusFacts, InQueue
    <3>2. Allowed(Status(t), Status(t)')
      BY <2>2, <2>4, <3>1 DEF Allowed, PhaseBar
    <3> QED
      BY <1>1, <3>2, Decides
  <2> QED
    BY <2>3, <2>4
<1> QED
  BY <1>2, <1>3

\* addWorker, up to its CAS.
LEMMA AddWorkerRefines ==
  ASSUME XInv, XInv', NEW p \in Tasks \cup Workers, AddWorkerLoad(p) \/ AddWorkerRetry(p)
  PROVE  Promise!Next \/ UNCHANGED Promise!vars
<1> USE ProcsAssumption DEF XInv, IInv, CountInv, TypeOK
<1>1. /\ UNCHANGED <<taskQueue, cur, result, sent>> /\ state' = state
      /\ \A q \in Procs \ {p} : pc'[q] = pc[q]
  BY DEF AddWorkerLoad, AddWorkerRetry, Goto, poolVars, queueVars, handleVars,
     ControlType, Procs
<1>2. CASE p \in Workers
  BY <1>1, <1>2, Stands DEF Procs
<1>3. CASE p \in Tasks
  <2>1. pc[p] \in {"addWorker", "casInc"} /\ job[p].site \in {"first", "help", "final"}
    BY <1>3 DEF AddWorkerLoad, AddWorkerRetry, JobInv, Procs
  <2>2. CASE job[p].site = "help"
    <3>1. Offered(p) /\ Offered(p)' /\ pc[p] # "accepted" /\ pc'[p] # "accepted"
      BY <1>3, <2>1, <2>2 DEF AddWorkerLoad, AddWorkerRetry, OnAddWorkerError,
         Goto, Offered, ControlType, LocalType, Procs
    <3> QED
      BY <1>1, <1>3, <3>1, StaysOffered, Decides
  <2>3. CASE job[p].site # "help"
    <3>1. ~Offered(p) /\ ~Cancelled(p) /\ pc[p] # "rejected"
      BY <2>1, <2>3 DEF Offered, Cancelled
    <3>2. (~Offered(p) /\ ~Cancelled(p))'
      BY <1>3, <2>1, <2>3 DEF AddWorkerLoad, AddWorkerRetry, OnAddWorkerError,
         Goto, Offered, Cancelled, ControlType, LocalType, Procs
    <3>3. Status(p) = "new" /\ Status(p)' \in {"new", "rejected"}
      BY <1>3, <3>1, <3>2, StatusBoth DEF StatusFacts
    <3>4. Status(p)' = Status(p) \/ Allowed(Status(p), Status(p)')
      BY <3>3 DEF Allowed
    <3> QED
      BY <1>1, <1>3, <3>4, Decides
  <2> QED
    BY <2>2, <2>3
<1> QED
  BY <1>2, <1>3

\* The steps of tryTerminate before its critical section.
LEMMA TryTerminateRefines ==
  ASSUME XInv, XInv', NEW p \in Procs, TryTerminateLoad(p) \/ TryTerminateCheck(p)
  PROVE  Promise!Next \/ UNCHANGED Promise!vars
<1> USE ProcsAssumption DEF XInv, IInv, CountInv, TypeOK
<1>1. /\ UNCHANGED <<taskQueue, cur, result, sent>> /\ state' = state
      /\ \A q \in Procs \ {p} : pc'[q] = pc[q]
      /\ pc[p] # "idle" /\ pc'[p] # "idle"
      /\ p \in Tasks => Cancelled(p) /\ Cancelled(p)'
  BY DEF TryTerminateLoad, TryTerminateCheck, Return, AfterTryTerminate, Goto,
     poolVars, queueVars, handleVars, ControlType, Procs, Cancelled
<1>2. CASE p \in Tasks
  <2>1. Status(p)' = Status(p)
    BY <1>1, <1>2, StatusBoth DEF StatusFacts
  <2> QED
    BY <1>1, <1>2, <2>1, Decides
<1>3. CASE p \notin Tasks
  BY <1>1, <1>3, Stands DEF Procs
<1> QED
  BY <1>2, <1>3

\* The steps of a worker that take no task and finish none, AwaitResult, and queue.Close.
LEMMA StandingRefines ==
  ASSUME XInv, XInv',
         \/ \E t \in Tasks : AwaitResult(t)
         \/ \E w \in Workers :
              \/ RunTask(w) \/ PollLoad(w) \/ PollDecide(w) \/ PollExit(w) \/ PollExitIdle(w)
              \/ QueueTimeout(w) \/ TerminateWorker(w) \/ ReplaceWorker(w)
         \/ \E d \in Closers : ShutdownClose(d)
  PROVE  UNCHANGED Promise!vars
<1> USE ProcsAssumption DEF XInv, IInv, CountInv, TypeOK
<1>1. UNCHANGED <<taskQueue, cur, result, sent>>
  BY DEF AwaitResult, RunTask, PollLoad, PollDecide, PollExit, PollExitIdle,
     QueueTimeout, TerminateWorker, ReplaceWorker, ShutdownClose, poolVars,
     queueVars, handleVars, localVars
<1>2. state'.run = state.run
  BY DEF AwaitResult, RunTask, PollLoad, PollDecide, PollExit, PollExitIdle,
     QueueTimeout, TerminateWorker, ReplaceWorker, ShutdownClose, poolVars,
     PoolType, StateWord
<1>3. /\ \A t \in Tasks : pc'[t] = pc[t]
      /\ \A d \in Closers : pc'[d] = "idle" <=> pc[d] = "idle"
  <2>1. CASE \E t \in Tasks : AwaitResult(t)
    BY <2>1 DEF AwaitResult
  <2>2. CASE \E d \in Closers : ShutdownClose(d)
    BY <2>2 DEF ShutdownClose, Waiting, ControlType, Procs
  <2>3. ASSUME NEW w \in Workers,
               \/ RunTask(w) \/ PollLoad(w) \/ PollDecide(w) \/ PollExit(w) \/ PollExitIdle(w)
               \/ QueueTimeout(w) \/ TerminateWorker(w) \/ ReplaceWorker(w)
        PROVE  <1>3!1 /\ <1>3!2
    <3>1. \E l : pc' = [pc EXCEPT ![w] = l]
      BY <2>3 DEF RunTask, PollLoad, PollDecide, PollExit, PollExitIdle,
         QueueTimeout, TerminateWorker, ReplaceWorker, CallAddWorker, Goto
    <3> QED
      BY <3>1 DEF ControlType, Procs
  <2> QED
    BY <2>1, <2>2, <2>3
<1> QED
  BY <1>1, <1>2, <1>3, Stands

\* A task that enters or leaves the queue, a hand or the results moves alone.
LEMMA MovesAlone ==
  ASSUME IInv, IInv', NEW t \in Tasks, state'.run = state.run, sent' = sent,
         \A d \in Closers : pc'[d] = "idle" <=> pc[d] = "idle",
         \A u \in Tasks \ {t} : pc'[u] = pc[u],
         \A u \in Tasks \ {t} : result'[u] = result[u],
         \A u \in Tasks \ {t} : InQueue(u)' <=> InQueue(u),
         \A u \in Tasks \ {t} : Held(u)' <=> Held(u),
         Status(t)' = Status(t) \/ Allowed(Status(t), Status(t)')
  PROVE  Promise!Next \/ UNCHANGED Promise!vars
<1>1. \A u \in Tasks : u # t => Status(u)' = Status(u)
  <2> SUFFICES ASSUME NEW u \in Tasks, u # t PROVE Status(u)' = Status(u)
    OBVIOUS
  <2>1. pc'[u] = pc[u] /\ result'[u] = result[u]
    OBVIOUS
  <2>2. InQueue(u)' <=> InQueue(u)
    BY DEF InQueue
  <2>3. Held(u)' <=> Held(u)
    BY DEF Held
  <2> QED
    BY <2>1, <2>2, <2>3, StatusKept
<1>2. UNCHANGED <<PhaseBar, AskedBar, SignalledBar>>
  BY BarsKept
<1>3. CASE Status(t)' = Status(t)
  BY <1>1, <1>2, <1>3, StillBar, Stutters
<1>4. CASE Allowed(Status(t), Status(t)')
  BY <1>1, <1>2, <1>4, Moves
<1> QED
  BY <1>3, <1>4

\* Push: the task is offered, or refused.
LEMMA PushRefines ==
  ASSUME XInv, XInv', NEW t \in Tasks, AddTaskPush(t)
  PROVE  Promise!Next \/ UNCHANGED Promise!vars
<1> USE ProcsAssumption DEF XInv, IInv, CountInv, TypeOK
<1>1. /\ UNCHANGED <<cur, result, sent>> /\ state' = state /\ pc[t] = "push"
      /\ \A p \in Tasks \cup Closers : p # t => pc'[p] = pc[p]
      /\ pc'[t] \in {"pushed", "rejected"}
  BY DEF AddTaskPush, SignalAnd, Waiting, Goto, poolVars, localVars, handleVars,
     ControlType, Procs
<1>2. \A u \in Tasks : Held(u)' <=> Held(u)
  BY <1>1 DEF Held
<1>3. ~Offered(t) /\ ~Cancelled(t) /\ pc[t] # "rejected"
  BY <1>1 DEF Offered, Cancelled
<1>4. Status(t) = "new"
  BY <1>3, StatusBoth DEF StatusFacts
<1>5. CASE closed \/ Len(taskQueue) >= QueueCapacity
  <2>1. taskQueue' = taskQueue /\ pc'[t] = "rejected"
    BY <1>5 DEF AddTaskPush, Goto, ControlType, Procs
  <2>2. Status(t)' = "rejected"
    BY <2>1, StatusBoth DEF StatusFacts
  <2>3. Allowed(Status(t), Status(t)')
    BY <1>4, <2>2 DEF Allowed
  <2>4. \A u \in Tasks : InQueue(u)' <=> InQueue(u)
    BY <2>1 DEF InQueue
  <2> QED
    BY <1>1, <1>2, <2>3, <2>4, MovesAlone
<1>6. CASE ~(closed \/ Len(taskQueue) >= QueueCapacity)
  <2>1. taskQueue' = Append(taskQueue, t) /\ pc'[t] = "pushed"
    BY <1>6 DEF AddTaskPush, SignalAnd, Waiting, Goto, ControlType, Procs
  <2>2. \A u \in Tasks : InQueue(u)' <=> u = t \/ InQueue(u)
    BY <2>1, PushProps DEF InQueue, QueueType
  <2>3. Status(t)' = "offered"
    BY <2>1, <2>2, StatusBoth DEF StatusFacts
  <2>4. Allowed(Status(t), Status(t)')
    BY <1>4, <2>3 DEF Allowed
  <2> QED
    BY <1>1, <1>2, <2>2, <2>4, MovesAlone
<1> QED
  BY <1>5, <1>6

\* Remove, by a Submit call that met the shutdown: withdrawn, or already taken up.
LEMMA RemoveRefines ==
  ASSUME XInv, XInv', NEW t \in Tasks, AddTaskRemove(t)
  PROVE  Promise!Next \/ UNCHANGED Promise!vars
<1> USE ProcsAssumption DEF XInv, IInv, CountInv, TypeOK
<1>1. /\ UNCHANGED <<cur, result, sent>> /\ state' = state /\ pc[t] = "remove"
      /\ \A p \in Procs \ {t} : pc'[p] = pc[p]
  BY DEF AddTaskRemove, Goto, poolVars, localVars, handleVars, ControlType, Procs
<1>2. \A u \in Tasks : Held(u)' <=> Held(u)
  BY <1>1 DEF Held
<1>3. CASE InQueue(t)
  <2>1. QueueRemove(t) /\ pc'[t] = "rejected"
    BY <1>3 DEF AddTaskRemove, Goto, ControlType, Procs
  <2>2. \A u \in Tasks : InQueue(u)' <=> u # t /\ InQueue(u)
    BY <2>1, RemoveProps DEF QueueRemove, InQueue, QueueType, PlaceInv
  <2>3. Status(t) = "offered" /\ Status(t)' = "rejected"
    BY <1>1, <1>3, <2>1, StatusBoth DEF StatusFacts
  <2>4. Allowed(Status(t), Status(t)')
    BY <1>1, <2>3 DEF Allowed, PhaseBar, RemoveInv
  <2> QED
    BY <1>1, <1>2, <2>2, <2>4, MovesAlone DEF Procs
<1>4. CASE ~InQueue(t)
  <2>1. taskQueue' = taskQueue /\ pc'[t] = "accepted"
    BY <1>4 DEF AddTaskRemove, Goto, ControlType, Procs
  <2>2. Offered(t) /\ Offered(t)'
    BY <1>1, <2>1 DEF Offered
  <2>3. Status(t)' = Status(t)
    BY <1>1, <1>4, <2>1, <2>2, StaysOffered
  <2> QED
    BY <1>1, <2>1, <2>3, Decides
<1> QED
  BY <1>3, <1>4

\* Cancel takes the task out of the queue, and stores the result later.
LEMMA CancelRefines ==
  ASSUME XInv, XInv', NEW t \in Tasks, Cancel(t) \/ CancelSetResult(t)
  PROVE  Promise!Next \/ UNCHANGED Promise!vars
<1> USE ProcsAssumption DEF XInv, IInv, CountInv, TypeOK
<1>1. /\ UNCHANGED <<cur, sent>> /\ state' = state
      /\ \A p \in Procs \ {t} : pc'[p] = pc[p]
      /\ \A u \in Tasks \ {t} : result'[u] = result[u]
  BY DEF Cancel, CancelSetResult, SetResult, Goto, poolVars, localVars,
     handleVars, ControlType, HandleType, Procs
<1>2. \A u \in Tasks : Held(u)' <=> Held(u)
  BY <1>1 DEF Held
<1>3. CASE Cancel(t)
  <2>1. QueueRemove(t) /\ pc[t] = "accepted" /\ pc'[t] = "tryTerminate"
    BY <1>3 DEF Cancel, Goto, ControlType, Procs
  <2>2. InQueue(t) /\ \A u \in Tasks : InQueue(u)' <=> u # t /\ InQueue(u)
    <3>1. InQueue(t)
      BY <2>1 DEF QueueRemove, InQueue, Occurs
    <3>2. \A u \in Tasks : InQueue(u)' <=> u # t /\ InQueue(u)
      BY <2>1, RemoveProps DEF QueueRemove, InQueue, QueueType, PlaceInv
    <3> QED
      BY <3>1, <3>2
  <2>3. Cancelled(t)'
    BY <2>1 DEF Cancelled
  <2>4. Status(t) = "pending" /\ Status(t)' = "cancelled"
    BY <2>1, <2>2, <2>3, StatusBoth DEF StatusFacts
  <2>5. Allowed(Status(t), Status(t)')
    BY <2>4 DEF Allowed
  <2> QED
    BY <1>1, <1>2, <2>2, <2>5, MovesAlone DEF Procs
<1>4. CASE CancelSetResult(t)
  <2>1. Cancelled(t) /\ taskQueue' = taskQueue /\ result'[t] = "cancelled"
    BY <1>4 DEF CancelSetResult, SetResult, Cancelled, queueVars, HandleType
  <2>2. \A u \in Tasks : InQueue(u)' <=> InQueue(u)
    BY <2>1 DEF InQueue
  <2>3. Status(t)' = Status(t)
    BY <2>1, StatusBoth DEF StatusFacts
  <2> QED
    BY <1>1, <1>2, <2>2, <2>3, MovesAlone DEF Procs
<1> QED
  BY <1>3, <1>4

\* A terminated executor has no worker that could take a task or finish one.
LEMMA LiveNotTerminated ==
  ASSUME XInv, NEW w \in Workers, pc[w] \in Counted
  PROVE  PhaseBar # "terminated"
<1>1. ~IsTerminated(state)
  BY LiveCounted DEF XInv, IInv, CountInv, SettledInv
<1> QED
  BY <1>1 DEF PhaseBar

\* A worker finishes its task.
LEMMA FinishRefines ==
  ASSUME XInv, XInv', NEW w \in Workers, WorkerSetResult(w)
  PROVE  Promise!Next \/ UNCHANGED Promise!vars
<1> USE ProcsAssumption DEF XInv, IInv, CountInv, TypeOK
<1>0. PICK t \in Tasks : t = cur[w]
  BY DEF WorkerSetResult, HandType
<1>1. pc[w] = "setResult" /\ Held(t)
  BY <1>0 DEF WorkerSetResult, Held
<1>2. /\ UNCHANGED <<taskQueue, sent>> /\ state' = state
      /\ \A p \in Procs \ {w} : pc'[p] = pc[p]
      /\ cur' = [cur EXCEPT ![w] = None]
      /\ result' = [result EXCEPT ![t] = "value"]
  BY <1>0 DEF WorkerSetResult, SetResult, Goto, poolVars, queueVars, ControlType, Procs
<1>3. \A u \in Tasks \ {t} : result'[u] = result[u] /\ (Held(u)' <=> Held(u)) /\ (InQueue(u)' <=> InQueue(u))
  <2>1. \A u \in Tasks \ {t} : Held(u)' <=> Held(u)
    BY <1>0, <1>2 DEF Held, HandType, Procs
  <2> QED
    BY <1>2, <2>1 DEF InQueue, HandleType
<1>4. Status(t) = "running" /\ Status(t)' = "done"
  BY <1>1, <1>2, StatusBoth DEF StatusFacts, HandleType
<1>5. Allowed(Status(t), Status(t)')
  BY <1>1, <1>4, LiveNotTerminated DEF Allowed, Counted
<1> QED
  BY <1>1, <1>2, <1>3, <1>5, MovesAlone DEF Procs

\* A worker takes the head of the queue, or finds none.
LEMMA PollRefines ==
  ASSUME XInv, XInv', NEW w \in Workers, QueuePoll(w) \/ QueueWoken(w)
  PROVE  Promise!Next \/ UNCHANGED Promise!vars
<1> USE ProcsAssumption DEF XInv, IInv, CountInv, TypeOK
<1>1. /\ UNCHANGED <<result, sent>> /\ state' = state /\ pc[w] \in {"dequeue", "woken"}
      /\ \A p \in Procs \ {w} : pc'[p] = pc[p]
  BY DEF QueuePoll, QueueWoken, PopTo, Goto, poolVars, handleVars, ControlType, Procs
<1>2. CASE Empty
  <2>1. UNCHANGED <<taskQueue, cur>>
    BY <1>2 DEF QueuePoll, QueueWoken
  <2> QED
    BY <1>1, <2>1, Stands DEF Procs
<1>3. CASE ~Empty
  <2>0. PICK t \in Tasks : t = Head(taskQueue)
    BY <1>3, PollProps DEF Empty, QueueType, PlaceInv
  <2>1. cur' = [cur EXCEPT ![w] = t] /\ taskQueue' = Tail(taskQueue)
    BY <1>3, <2>0 DEF QueuePoll, QueueWoken, PopTo
  <2>2. InQueue(t) /\ \A u \in Tasks : InQueue(u)' <=> u # t /\ InQueue(u)
    BY <1>3, <2>0, <2>1, PollProps DEF Empty, InQueue, QueueType, PlaceInv
  <2>3. cur[w] = None
    BY <1>1 DEF HandType
  <2>4. Held(t)' /\ \A u \in Tasks \ {t} : Held(u)' <=> Held(u)
    BY <2>1, <2>2, <2>3 DEF Held, HandType, Procs
  <2>5. Status(t) \in {"offered", "pending"} /\ Status(t)' = "running"
    BY <2>2, <2>4, StatusBoth DEF StatusFacts
  <2>6. Allowed(Status(t), Status(t)')
    BY <1>1, <2>5, LiveNotTerminated DEF Allowed, Counted
  <2> QED
    BY <1>1, <2>2, <2>4, <2>6, MovesAlone DEF Procs
<1> QED
  BY <1>2, <1>3

\* A new worker is started, with the task of a Submit call or for a task in the queue.
LEMMA StartRefines ==
  ASSUME XInv, XInv', NEW p \in Tasks \cup Workers, NEW w \in Workers, AddWorkerStart(p, w)
  PROVE  Promise!Next \/ UNCHANGED Promise!vars
<1> USE ProcsAssumption DEF XInv, IInv, CountInv, TypeOK
<1>1. /\ UNCHANGED <<taskQueue, result, sent>> /\ state'.run = state.run
      /\ pc[p] = "casInc" /\ IsRunning(state) /\ pc[w] = "none" /\ w # p
      /\ \A q \in Procs \ {p, w} : pc'[q] = pc[q]
      /\ job[p].site \in (IF p \in Tasks THEN {"first", "help"} ELSE {"replace"})
  BY DEF AddWorkerStart, JobInv, PoolType, StateWord, queueVars, handleVars,
     ControlType, Procs
<1>2. cur[w] = None
  BY <1>1 DEF HandType
<1>3. CASE p \in Workers
  <2>1. cur' = cur
    BY <1>1, <1>3 DEF AddWorkerStart
  <2> QED
    BY <1>1, <1>3, <2>1, Stands DEF Procs
<1>4. CASE p \in Tasks /\ job[p].site = "first"
  <2>1. cur' = [cur EXCEPT ![w] = p]
    BY <1>1, <1>4 DEF AddWorkerStart
  <2>2. ~Offered(p) /\ ~Cancelled(p) /\ pc[p] # "rejected"
    BY <1>1, <1>4 DEF Offered, Cancelled
  <2>3. Held(p)' /\ \A u \in Tasks \ {p} : Held(u)' <=> Held(u)
    BY <1>2, <2>1 DEF Held, HandType, Procs
  <2>4. Status(p) = "new" /\ Status(p)' = "running"
    BY <1>4, <2>2, <2>3, StatusBoth DEF StatusFacts
  <2>5. Allowed(Status(p), Status(p)')
    BY <1>1, <2>4 DEF Allowed, PhaseBar
  <2>6. \A u \in Tasks : InQueue(u)' <=> InQueue(u)
    BY <1>1 DEF InQueue
  <2> QED
    BY <1>1, <1>4, <2>3, <2>5, <2>6, MovesAlone DEF Procs
<1>5. CASE p \in Tasks /\ job[p].site = "help"
  <2>1. cur' = cur /\ pc'[p] = "accepted"
    BY <1>1, <1>5 DEF AddWorkerStart, OnAddWorkerOk, ControlType, Procs
  <2>2. Offered(p) /\ Offered(p)'
    BY <1>1, <1>5, <2>1 DEF Offered
  <2>3. \A u \in Tasks : (InQueue(u)' <=> InQueue(u)) /\ (Held(u)' <=> Held(u))
    BY <1>1, <2>1 DEF InQueue, Held
  <2>4. Status(p)' = Status(p) \/ Allowed(Status(p), Status(p)')
    <3>1. CASE InQueue(p)
      BY <1>1, <1>5, <2>1, <2>3, <3>1, StatusBoth DEF StatusFacts, Allowed, PhaseBar
    <3>2. CASE ~InQueue(p)
      BY <1>1, <1>5, <2>1, <2>2, <3>2, StaysOffered
    <3> QED
      BY <3>1, <3>2
  <2> QED
    BY <1>1, <1>5, <2>3, <2>4, MovesAlone DEF Procs
<1> QED
  BY <1>1, <1>3, <1>4, <1>5

\* A Shutdown call is made.
LEMMA ShutdownRefines ==
  ASSUME XInv, XInv', NEW d \in Closers, Shutdown(d)
  PROVE  Promise!Next
<1> USE ProcsAssumption DEF XInv, IInv, CountInv, TypeOK
<1>1. /\ UNCHANGED <<taskQueue, cur, result>> /\ pc[d] = "idle" /\ pc'[d] # "idle"
      /\ \A q \in Procs \ {d} : pc'[q] = pc[q]
  BY DEF Shutdown, Goto, queueVars, localVars, handleVars, ControlType, Procs
<1>2. \A t \in Tasks : Status(t)' = Status(t)
  BY <1>1, StatusKept DEF InQueue, Held, Procs
<1>3. StatusBar' = StatusBar
  BY <1>2, StillBar
<1>4. AskedBar' = AskedBar \cup {d} /\ d \notin AskedBar
  BY <1>1 DEF AskedBar, Procs
<1>5. PhaseBar' = IF PhaseBar = "running" THEN "shutdown" ELSE PhaseBar
  BY DEF Shutdown, PhaseBar, SetRunState, IsRunning, IsTerminated, PoolType,
     StateWord, RUNNING, SHUTDOWN, TERMINATED
<1>6. SignalledBar' = IF PhaseBar = "terminated" THEN SignalledBar \cup {d} ELSE SignalledBar
  BY DEF Shutdown, PhaseBar, SignalledBar, IsRunning, IsTerminated, PoolType,
     StateWord, RUNNING, SHUTDOWN, TERMINATED
<1>7. Promise!Shutdown(d)
  BY <1>3, <1>4, <1>5, <1>6
     DEF Promise!Shutdown, PhaseBar, StatusBar, AskedBar, SignalledBar
<1> QED
  BY <1>7 DEF Promise!Next

\* The critical section of tryTerminate: the executor terminates, and signals everybody
\* who asked, or it was terminated already, and nobody is left to signal.
LEMMA CommitRefines ==
  ASSUME XInv, XInv', NEW p \in Procs, TryTerminateCommit(p)
  PROVE  Promise!Next \/ UNCHANGED Promise!vars
<1> USE ProcsAssumption DEF XInv, IInv, CountInv, TypeOK
<1>1. /\ UNCHANGED <<taskQueue, cur, result>> /\ pc[p] = "terminate" /\ pc'[p] # "idle"
      /\ \A q \in Procs \ {p} : pc'[q] = pc[q]
      /\ p \in Tasks => Cancelled(p) /\ Cancelled(p)'
      /\ sent' = [d \in Closers |-> IF d \in terminations THEN sent[d] + 1 ELSE sent[d]]
      /\ IsTerminated(state)' /\ state'.count = state.count
  BY DEF TryTerminateCommit, Return, AfterTryTerminate, SetRunState, Goto,
     queueVars, handleVars, ControlType, Procs, Cancelled, IsTerminated,
     PoolType, StateWord, RUNNING, SHUTDOWN, TERMINATED
<1>2. \A t \in Tasks : Status(t)' = Status(t)
  <2>1. \A t \in Tasks : t # p => Status(t)' = Status(t)
    BY <1>1, StatusKept DEF InQueue, Held, Procs
  <2>2. p \in Tasks => Status(p)' = Status(p)
    BY <1>1, StatusBoth DEF StatusFacts
  <2> QED
    BY <2>1, <2>2
<1>3. StatusBar' = StatusBar
  BY <1>2, StillBar
<1>4. AskedBar' = AskedBar
  BY <1>1 DEF AskedBar, Procs
<1>5. IsShutdown(state)
  BY <1>1 DEF StaleInv
<1>6. CASE IsTerminated(state)
  <2>1. sent' = sent
    BY <1>1, <1>6 DEF AskedInv, PoolType
  <2>2. UNCHANGED <<PhaseBar, SignalledBar>>
    BY <1>1, <1>6, <2>1 DEF PhaseBar, SignalledBar, IsRunning, IsTerminated, RUNNING, TERMINATED
  <2> QED
    BY <1>3, <1>4, <2>2, Stutters
<1>7. CASE ~IsTerminated(state)
  <2>1. PhaseBar = "shutdown" /\ PhaseBar' = "terminated"
    BY <1>1, <1>5, <1>7 DEF PhaseBar, IsRunning, IsShutdown, IsTerminated,
       PoolType, StateWord, RUNNING, SHUTDOWN, TERMINATED
  <2>2. \A t \in Tasks : Status(t) \notin {"pending", "running"}
    <3>1. /\ state.count = 0
          /\ \A t \in Tasks : InQueue(t) => pc[t] \in {"pushed", "remove"}
      BY <1>1 DEF SettledInv
    <3>2. \A w \in Workers : pc[w] \notin Counted
      BY <3>1, LiveCounted
    <3>3. \A t \in Tasks : ~Held(t)
      BY <3>2 DEF Counted, Held, HandType, Procs
    <3> QED
      BY <3>1, <3>3, StatusBoth DEF StatusFacts
  <2>3. SignalledBar' = AskedBar
    <3>1. \A d \in Closers : sent[d] \in Nat /\ ~(sent[d] > 0)
      BY <1>7 DEF SentInv, PoolType
    <3>2. \A d \in Closers : pc[d] # "idle" <=> d \in terminations
      BY <3>1 DEF AskedInv, SentInv
    <3>3. \A d \in Closers : sent'[d] > 0 <=> d \in terminations
      BY <1>1, <3>1
    <3> QED
      BY <3>2, <3>3 DEF SignalledBar, AskedBar
  <2>4. Promise!Terminate
    BY <1>3, <1>4, <2>1, <2>2, <2>3
       DEF Promise!Terminate, PhaseBar, StatusBar, AskedBar, SignalledBar
  <2> QED
    BY <2>4 DEF Promise!Next
<1> QED
  BY <1>6, <1>7

\* No task is known to the executor before it is submitted.
LEMMA InitRefines == Init => Promise!Init
<1> SUFFICES ASSUME Init PROVE Promise!Init
  OBVIOUS
<1>1. PhaseBar = "running" /\ SignalledBar = {} /\ AskedBar = {}
  BY ProcsAssumption DEF Init, PhaseBar, SignalledBar, AskedBar, IsRunning, Procs
<1>2. \A t \in Tasks : pc[t] = "idle"
  BY ProcsAssumption DEF Init, Procs
<1>3. \A t \in Tasks : Status(t) = "new"
  BY <1>2, IInvInit, StatusCases DEF StatusFacts, Offered, Cancelled
<1>4. StatusBar = [t \in Tasks |-> "new"]
  BY <1>3 DEF StatusBar
<1> QED
  BY <1>1, <1>4 DEF Promise!Init, PhaseBar, StatusBar, AskedBar, SignalledBar

\* WorkerPoolExecutor keeps the promise of the Executor interface: seen through the
\* status of the tasks and the phase of the executor, every step of every goroutine
\* is one the promise allows or none at all, for any number of tasks, workers and
\* Shutdown calls.
THEOREM RefinementCorrect == Spec => ImplementsExecutor
<1>1. XInv /\ XInv' /\ [Next]_vars => [Promise!Next]_(Promise!vars)
  <2> SUFFICES ASSUME XInv, XInv', [Next]_vars
               PROVE  Promise!Next \/ UNCHANGED Promise!vars
    OBVIOUS
  <2>1. CASE UNCHANGED vars
    <3>1. UNCHANGED <<taskQueue, cur, result, sent, state, pc>>
      BY <2>1 DEF vars, poolVars, queueVars, localVars, handleVars
    <3> QED
      BY <3>1, Stands DEF XInv
  <2> HIDE DEF Promise!Next, Promise!vars
  <2>2. CASE Next
    BY <2>1, <2>2, SubmitRefines, AddWorkerRefines, TryTerminateRefines, StandingRefines,
       PushRefines, RemoveRefines, CancelRefines, FinishRefines, PollRefines,
       StartRefines, ShutdownRefines, CommitRefines
       DEF Next, SubmitStep, CancelStep, TaskRun, PollTask, WorkerExit, WorkerStep,
           ShutdownStep, AddWorker, TryTerminate, Done, Procs
  <2> QED
    BY <2>1, <2>2
<1> QED
  BY <1>1, InitRefines, XInvariance, PTL DEF Spec, ImplementsExecutor, Promise!Spec
=============================================================================
