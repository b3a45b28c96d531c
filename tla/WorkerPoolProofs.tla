-------------------------- MODULE WorkerPoolProofs --------------------------
(* Theorems about WorkerPool, for every number of tasks, workers and closers *)
(* and every pool size.                                                      *)
EXTENDS WorkerPool, FiniteSetTheorems, TLAPS

-----------------------------------------------------------------------------
(* Sequences *)

\* Removing one element of a sequence leaves a sequence, one shorter, with the
\* other elements in their order.
LEMMA RemoveIndexProps ==
  ASSUME NEW S, NEW q \in Seq(S), NEW i \in 1..Len(q)
  PROVE  /\ RemoveIndex(q, i) \in Seq(S)
         /\ Len(RemoveIndex(q, i)) = Len(q) - 1
         /\ \A j \in 1..(Len(q) - 1) :
              RemoveIndex(q, i)[j] = IF j < i THEN q[j] ELSE q[j + 1]
<1> DEFINE n == Len(q) - 1
           r == [j \in 1..n |-> IF j < i THEN q[j] ELSE q[j + 1]]
<1>1. n \in Nat
  OBVIOUS
<1>2. \A j \in 1..n : r[j] \in S
  OBVIOUS
<1>3. r \in [1..n -> S]
  BY <1>2
<1>4. r \in Seq(S)
  BY <1>1, <1>3
<1>5. Len(r) = n
  BY <1>1, <1>3, <1>4
<1> QED
  BY <1>4, <1>5 DEF RemoveIndex

\* Push adds its task and no other, and repeats none if the task is new.
LEMMA PushProps ==
  ASSUME NEW S, NEW q \in Seq(S), NEW t \in S
  PROVE  /\ \A x : Occurs(Append(q, t), x) <=> x = t \/ Occurs(q, x)
         /\ Distinct(q) /\ ~Occurs(q, t) => Distinct(Append(q, t))
<1> DEFINE r == Append(q, t)
<1>1. /\ Len(r) = Len(q) + 1
      /\ r[Len(q) + 1] = t
      /\ \A i \in 1..Len(q) : r[i] = q[i]
      /\ Len(q) \in Nat
  OBVIOUS
<1>2. ASSUME NEW x PROVE Occurs(r, x) <=> x = t \/ Occurs(q, x)
  <2>1. ASSUME Occurs(r, x), x # t PROVE Occurs(q, x)
    <3>1. PICK i \in 1..Len(r) : r[i] = x
      BY <2>1 DEF Occurs
    <3>2. i \in 1..Len(q)
      BY <3>1, <2>1, <1>1
    <3> QED
      BY <3>1, <3>2, <1>1 DEF Occurs
  <2>2. ASSUME Occurs(q, x) PROVE Occurs(r, x)
    <3>1. PICK i \in 1..Len(q) : q[i] = x
      BY <2>2 DEF Occurs
    <3> QED
      BY <3>1, <1>1 DEF Occurs
  <2>3. Occurs(r, t)
    BY <1>1 DEF Occurs
  <2> QED
    BY <2>1, <2>2, <2>3
<1>3. ASSUME Distinct(q), ~Occurs(q, t) PROVE Distinct(r)
  <2> SUFFICES ASSUME NEW i \in 1..Len(r), NEW j \in 1..Len(r), r[i] = r[j]
               PROVE  i = j
    BY DEF Distinct
  <2> QED
    BY <1>1, <1>3 DEF Distinct, Occurs
<1> HIDE DEF r
<1> QED
  BY <1>2, <1>3 DEF r

\* Remove takes its task out of a queue without repetitions, and no other.
LEMMA RemoveProps ==
  ASSUME NEW S, NEW q \in Seq(S), NEW i \in 1..Len(q), Distinct(q)
  PROVE  /\ Distinct(RemoveIndex(q, i))
         /\ \A x : Occurs(RemoveIndex(q, i), x) <=> x # q[i] /\ Occurs(q, x)
<1> DEFINE r == RemoveIndex(q, i)
<1>1. /\ Len(r) = Len(q) - 1
      /\ \A j \in 1..(Len(q) - 1) : r[j] = IF j < i THEN q[j] ELSE q[j + 1]
      /\ Len(q) \in Nat
  BY RemoveIndexProps
<1> HIDE DEF r
<1>2. Distinct(r)
  <2> SUFFICES ASSUME NEW j \in 1..Len(r), NEW k \in 1..Len(r), r[j] = r[k]
               PROVE  j = k
    BY DEF Distinct
  <2> QED
    BY <1>1 DEF Distinct
<1>3. ASSUME NEW x PROVE Occurs(r, x) <=> x # q[i] /\ Occurs(q, x)
  <2>1. ASSUME Occurs(r, x) PROVE x # q[i] /\ Occurs(q, x)
    <3>1. PICK j \in 1..Len(r) : r[j] = x
      BY <2>1 DEF Occurs
    <3> QED
      BY <3>1, <1>1 DEF Occurs, Distinct
  <2>2. ASSUME x # q[i], Occurs(q, x) PROVE Occurs(r, x)
    <3>1. PICK j \in 1..Len(q) : q[j] = x
      BY <2>2 DEF Occurs
    <3>2. CASE j < i
      BY <3>1, <3>2, <1>1 DEF Occurs
    <3>3. CASE j > i
      <4>1. j - 1 \in 1..Len(r) /\ r[j - 1] = x
        BY <3>1, <3>3, <1>1
      <4> QED
        BY <4>1 DEF Occurs
    <3> QED
      BY <3>1, <3>2, <3>3, <2>2
  <2> QED
    BY <2>1, <2>2
<1> QED
  BY <1>2, <1>3 DEF r

\* Poll takes the head of a queue without repetitions, and no other.
LEMMA PollProps ==
  ASSUME NEW S, NEW q \in Seq(S), q # << >>, Distinct(q)
  PROVE  /\ Head(q) \in S /\ Occurs(q, Head(q))
         /\ Distinct(Tail(q))
         /\ \A x : Occurs(Tail(q), x) <=> x # Head(q) /\ Occurs(q, x)
<1> DEFINE r == Tail(q)
<1>1. /\ Len(q) \in Nat \ {0}
      /\ Len(r) = Len(q) - 1
      /\ \A j \in 1..Len(r) : r[j] = q[j + 1]
      /\ Head(q) = q[1]
      /\ Head(q) \in S
  OBVIOUS
<1> HIDE DEF r
<1>2. Distinct(r)
  BY <1>1 DEF Distinct
<1>3. ASSUME NEW x PROVE Occurs(r, x) <=> x # Head(q) /\ Occurs(q, x)
  <2>1. ASSUME Occurs(r, x) PROVE x # Head(q) /\ Occurs(q, x)
    BY <2>1, <1>1 DEF Occurs, Distinct
  <2>2. ASSUME x # Head(q), Occurs(q, x) PROVE Occurs(r, x)
    <3>1. PICK j \in 1..Len(q) : q[j] = x
      BY <2>2 DEF Occurs
    <3>2. j - 1 \in 1..Len(r) /\ r[j - 1] = x
      BY <3>1, <2>2, <1>1
    <3> QED
      BY <3>2 DEF Occurs
  <2> QED
    BY <2>1, <2>2
<1>4. Occurs(q, Head(q))
  BY <1>1 DEF Occurs
<1> QED
  BY <1>1, <1>2, <1>3, <1>4 DEF r

-----------------------------------------------------------------------------
(* The worker count *)

\* What a process inside addWorker knows: the limit it was called with never
\* exceeds PoolCap, except at Submit's last call, which is only made once the
\* executor is shut down and so never gets as far as the CAS.
JobInv ==
  \A p \in Procs :
    /\ pc[p] = "addWorker" =>
         \/ /\ job[p].site \in (IF p \in Tasks THEN {"first", "help"} ELSE {"replace"})
            /\ job[p].limit <= PoolCap
         \/ job[p].site = "final" /\ p \in Tasks /\ IsShutdown(state)
    /\ pc[p] = "casInc" =>
         /\ job[p].site \in (IF p \in Tasks THEN {"first", "help"} ELSE {"replace"})
         /\ job[p].limit <= PoolCap
         /\ IsRunning(seen[p])
         /\ seen[p].count + 1 <= PoolCap

CountInv == TypeOK /\ JobInv /\ WorkerCountExact /\ PoolBound

\* Initially no worker exists.
LEMMA CountInit == Init => CountInv
<1> SUFFICES ASSUME Init PROVE CountInv
  OBVIOUS
<1> USE ConfigAssumption, ProcsAssumption
<1>1. TypeOK
  <2>1. PoolType
    BY DEF Init, PoolType, StateWord, RUNNING, SHUTDOWN, TERMINATED
  <2>2. QueueType
    <3>1. closed \in BOOLEAN
      BY DEF Init
    <3>2. taskQueue \in Seq(Tasks)
      BY DEF Init
    <3> QED
      BY <3>1, <3>2 DEF QueueType
  <2>3. ControlType
    BY DEF Init, ControlType, Procs, TaskPCs, WorkerPCs, CloserPCs
  <2>4. LocalType
    <3>1. seen \in [Procs -> StateWord]
      BY DEF Init, NoState, StateWord, RUNNING
    <3>2. job \in [Procs -> Jobs]
      BY DEF Init, NoJob, Jobs
    <3> QED
      BY <3>1, <3>2 DEF Init, LocalType
  <2>5. HandType
    <3>1. \A w \in Workers : cur[w] = None /\ pc[w] = "none"
      BY DEF Init, Procs
    <3> QED
      BY <3>1 DEF Init, HandType
  <2>6. HandleType
    BY DEF Init, HandleType
  <2> QED
    BY <2>1, <2>2, <2>3, <2>4, <2>5, <2>6 DEF TypeOK
<1>2. JobInv
  BY DEF Init, JobInv, Procs
<1>3. Live = {}
  <2>1. \A w \in Workers : pc[w] = "none"
    BY DEF Init, Procs
  <2> QED
    BY <2>1 DEF Live, Counted
<1>4. WorkerCountExact
  BY <1>3, FS_EmptySet DEF Init, WorkerCountExact
<1>5. PoolBound
  BY DEF Init, PoolBound, PoolCap
<1> QED
  BY <1>1, <1>2, <1>4, <1>5 DEF CountInv

\* Every step leaves each process at a point of its own code.
LEMMA ControlStep == TypeOK /\ JobInv /\ [Next]_vars => ControlType'
<1> SUFFICES ASSUME TypeOK, JobInv, [Next]_vars PROVE ControlType'
  OBVIOUS
<1> USE ProcsAssumption DEF TypeOK
<1>1. ASSUME NEW t \in Tasks, Submit(t) PROVE ControlType'
  BY <1>1 DEF Submit, CallAddWorker, Goto, ControlType, Procs, TaskPCs,
     WorkerPCs, CloserPCs, TryTerminatePCs, Counted
<1>2. ASSUME NEW t \in Tasks, SubmitReload(t) PROVE ControlType'
  BY <1>2 DEF SubmitReload, CallAddWorker, Goto, ControlType, Procs, TaskPCs,
     WorkerPCs, CloserPCs, TryTerminatePCs, Counted
<1>3. ASSUME NEW t \in Tasks, AddTaskPush(t) PROVE ControlType'
  BY <1>3 DEF AddTaskPush, Goto, SignalAnd, Waiting, ControlType, Procs,
     TaskPCs, WorkerPCs, CloserPCs, TryTerminatePCs, Counted
<1>4. ASSUME NEW t \in Tasks, AddTaskLoad(t) PROVE ControlType'
  BY <1>4 DEF AddTaskLoad, CallAddWorker, Goto, ControlType, Procs, TaskPCs,
     WorkerPCs, CloserPCs, TryTerminatePCs, Counted
<1>5. ASSUME NEW t \in Tasks, AddTaskRemove(t) PROVE ControlType'
  BY <1>5 DEF AddTaskRemove, Goto, ControlType, Procs, TaskPCs, WorkerPCs,
     CloserPCs, TryTerminatePCs, Counted
<1>6. ASSUME NEW t \in Tasks, Cancel(t) PROVE ControlType'
  BY <1>6 DEF Cancel, Goto, ControlType, Procs, TaskPCs, WorkerPCs, CloserPCs,
     TryTerminatePCs, Counted
<1>7. ASSUME NEW t \in Tasks, CancelSetResult(t) PROVE ControlType'
  BY <1>7 DEF CancelSetResult, Goto, ControlType, Procs, TaskPCs, WorkerPCs,
     CloserPCs, TryTerminatePCs, Counted
<1>8. ASSUME NEW t \in Tasks, AwaitResult(t) PROVE ControlType'
  BY <1>8 DEF AwaitResult, ControlType, Procs, TaskPCs, WorkerPCs, CloserPCs,
     TryTerminatePCs, Counted
<1>9. ASSUME NEW w \in Workers, RunTask(w) PROVE ControlType'
  BY <1>9 DEF RunTask, Goto, ControlType, Procs, TaskPCs, WorkerPCs, CloserPCs,
     TryTerminatePCs, Counted
<1>10. ASSUME NEW w \in Workers, WorkerSetResult(w) PROVE ControlType'
  BY <1>10 DEF WorkerSetResult, Goto, ControlType, Procs, TaskPCs, WorkerPCs,
     CloserPCs, TryTerminatePCs, Counted
<1>11. ASSUME NEW w \in Workers, PollLoad(w) PROVE ControlType'
  BY <1>11 DEF PollLoad, Goto, ControlType, Procs, TaskPCs, WorkerPCs,
     CloserPCs, TryTerminatePCs, Counted
<1>12. ASSUME NEW w \in Workers, PollDecide(w) PROVE ControlType'
  BY <1>12 DEF PollDecide, Goto, ControlType, Procs, TaskPCs, WorkerPCs,
     CloserPCs, TryTerminatePCs, Counted
<1>13. ASSUME NEW w \in Workers, PollExit(w) PROVE ControlType'
  BY <1>13 DEF PollExit, Goto, ControlType, Procs, TaskPCs, WorkerPCs,
     CloserPCs, TryTerminatePCs, Counted
<1>14. ASSUME NEW w \in Workers, PollExitIdle(w) PROVE ControlType'
  BY <1>14 DEF PollExitIdle, Goto, ControlType, Procs, TaskPCs, WorkerPCs,
     CloserPCs, TryTerminatePCs, Counted
<1>15. ASSUME NEW w \in Workers, QueuePoll(w) PROVE ControlType'
  BY <1>15 DEF QueuePoll, PopTo, Goto, ControlType, Procs, TaskPCs, WorkerPCs,
     CloserPCs, TryTerminatePCs, Counted
<1>16. ASSUME NEW w \in Workers, QueueWoken(w) PROVE ControlType'
  BY <1>16 DEF QueueWoken, PopTo, Goto, ControlType, Procs, TaskPCs, WorkerPCs,
     CloserPCs, TryTerminatePCs, Counted
<1>17. ASSUME NEW w \in Workers, QueueTimeout(w) PROVE ControlType'
  BY <1>17 DEF QueueTimeout, Goto, ControlType, Procs, TaskPCs, WorkerPCs,
     CloserPCs, TryTerminatePCs, Counted
<1>18. ASSUME NEW w \in Workers, TerminateWorker(w) PROVE ControlType'
  BY <1>18 DEF TerminateWorker, Goto, ControlType, Procs, TaskPCs, WorkerPCs,
     CloserPCs, TryTerminatePCs, Counted
<1>19. ASSUME NEW w \in Workers, ReplaceWorker(w) PROVE ControlType'
  BY <1>19 DEF ReplaceWorker, CallAddWorker, Goto, ControlType, Procs, TaskPCs,
     WorkerPCs, CloserPCs, TryTerminatePCs, Counted
<1>20. ASSUME NEW d \in Closers, Shutdown(d) PROVE ControlType'
  BY <1>20 DEF Shutdown, Goto, ControlType, Procs, TaskPCs, WorkerPCs,
     CloserPCs, TryTerminatePCs, Counted
<1>21. ASSUME NEW d \in Closers, ShutdownClose(d) PROVE ControlType'
  BY <1>21 DEF ShutdownClose, Waiting, ControlType, Procs, TaskPCs, WorkerPCs,
     CloserPCs, TryTerminatePCs, Counted
<1>22. ASSUME NEW p \in Tasks \cup Workers, AddWorkerLoad(p) PROVE ControlType'
  BY <1>22 DEF AddWorkerLoad, Goto, OnAddWorkerError, JobInv, ControlType,
     Procs, TaskPCs, WorkerPCs, CloserPCs, TryTerminatePCs, Counted
<1>23. ASSUME NEW p \in Tasks \cup Workers, NEW w \in Workers, AddWorkerStart(p,
              w)
       PROVE  ControlType'
  BY <1>23 DEF AddWorkerStart, OnAddWorkerOk, JobInv, ControlType, Procs,
     TaskPCs, WorkerPCs, CloserPCs, TryTerminatePCs, Counted
<1>24. ASSUME NEW p \in Tasks \cup Workers, AddWorkerRetry(p) PROVE ControlType'
  BY <1>24 DEF AddWorkerRetry, Goto, ControlType, Procs, TaskPCs, WorkerPCs,
     CloserPCs, TryTerminatePCs, Counted
<1>25. ASSUME NEW p \in Procs, TryTerminateLoad(p) PROVE ControlType'
  BY <1>25 DEF TryTerminateLoad, Return, AfterTryTerminate, Goto, ControlType,
     Procs, TaskPCs, WorkerPCs, CloserPCs, TryTerminatePCs, Counted
<1>26. ASSUME NEW p \in Procs, TryTerminateCheck(p) PROVE ControlType'
  BY <1>26 DEF TryTerminateCheck, Return, AfterTryTerminate, Goto, ControlType,
     Procs, TaskPCs, WorkerPCs, CloserPCs, TryTerminatePCs, Counted
<1>27. ASSUME NEW p \in Procs, TryTerminateCommit(p) PROVE ControlType'
  BY <1>27 DEF TryTerminateCommit, Return, AfterTryTerminate, Goto,
     ControlType, Procs, TaskPCs, WorkerPCs, CloserPCs, TryTerminatePCs,
     Counted
<1>28. CASE UNCHANGED vars
  BY <1>28 DEF ControlType, vars
<1> QED
  BY <1>1, <1>2, <1>3, <1>4, <1>5, <1>6, <1>7, <1>8, <1>9, <1>10, <1>11, <1>12,
     <1>13, <1>14, <1>15, <1>16, <1>17, <1>18, <1>19, <1>20, <1>21, <1>22,
     <1>23, <1>24, <1>25, <1>26, <1>27, <1>28 DEF Next, SubmitStep, CancelStep,
     TaskRun, PollTask, WorkerExit, WorkerStep, ShutdownStep, AddWorker,
     TryTerminate, Done, Procs

\* Every step keeps the types of the processes' local variables.
LEMMA LocalStep == TypeOK /\ JobInv /\ [Next]_vars => LocalType'
<1> SUFFICES ASSUME TypeOK, JobInv, [Next]_vars PROVE LocalType'
  OBVIOUS
<1>1. state \in StateWord /\ NoState \in StateWord
  BY DEF TypeOK, PoolType, NoState, StateWord, RUNNING
<1>2. NoJob \in Jobs
  BY DEF NoJob, Jobs
<1>3. /\ [site |-> "first", limit |-> MinPoolSize] \in Jobs
      /\ [site |-> "final", limit |-> MaxPoolSize] \in Jobs
      /\ [site |-> "help", limit |-> 1] \in Jobs
      /\ [site |-> "replace", limit |-> ReplacementSize] \in Jobs
  BY ConfigAssumption DEF Jobs, ReplacementSize
<1> USE <1>1, <1>2, <1>3 DEF TypeOK, Procs
<1>4. ASSUME NEW t \in Tasks, Submit(t) PROVE LocalType'
  BY <1>4 DEF Submit, CallAddWorker, LocalType, Goto, Load, Forget, localVars
<1>5. ASSUME NEW t \in Tasks, SubmitReload(t) PROVE LocalType'
  BY <1>5 DEF SubmitReload, CallAddWorker, LocalType, Goto, Load, Forget,
     localVars
<1>6. ASSUME NEW t \in Tasks, AddTaskPush(t) PROVE LocalType'
  BY <1>6 DEF AddTaskPush, SignalAnd, LocalType, Goto, Load, Forget, localVars
<1>7. ASSUME NEW t \in Tasks, AddTaskLoad(t) PROVE LocalType'
  BY <1>7 DEF AddTaskLoad, CallAddWorker, LocalType, Goto, Load, Forget,
     localVars
<1>8. ASSUME NEW t \in Tasks, AddTaskRemove(t) PROVE LocalType'
  BY <1>8 DEF AddTaskRemove, LocalType, Goto, Load, Forget, localVars
<1>9. ASSUME NEW t \in Tasks, Cancel(t) PROVE LocalType'
  BY <1>9 DEF Cancel, LocalType, Goto, Load, Forget, localVars
<1>10. ASSUME NEW t \in Tasks, CancelSetResult(t) PROVE LocalType'
  BY <1>10 DEF CancelSetResult, LocalType, Goto, Load, Forget, localVars
<1>11. ASSUME NEW t \in Tasks, AwaitResult(t) PROVE LocalType'
  BY <1>11 DEF AwaitResult, LocalType, Goto, Load, Forget, localVars
<1>12. ASSUME NEW w \in Workers, RunTask(w) PROVE LocalType'
  BY <1>12 DEF RunTask, LocalType, Goto, Load, Forget, localVars
<1>13. ASSUME NEW w \in Workers, WorkerSetResult(w) PROVE LocalType'
  BY <1>13 DEF WorkerSetResult, LocalType, Goto, Load, Forget, localVars
<1>14. ASSUME NEW w \in Workers, PollLoad(w) PROVE LocalType'
  BY <1>14 DEF PollLoad, LocalType, Goto, Load, Forget, localVars
<1>15. ASSUME NEW w \in Workers, PollDecide(w) PROVE LocalType'
  BY <1>15 DEF PollDecide, LocalType, Goto, Load, Forget, localVars
<1>16. ASSUME NEW w \in Workers, PollExit(w) PROVE LocalType'
  BY <1>16 DEF PollExit, LocalType, Goto, Load, Forget, localVars
<1>17. ASSUME NEW w \in Workers, PollExitIdle(w) PROVE LocalType'
  BY <1>17 DEF PollExitIdle, LocalType, Goto, Load, Forget, localVars
<1>18. ASSUME NEW w \in Workers, QueuePoll(w) PROVE LocalType'
  BY <1>18 DEF QueuePoll, PopTo, LocalType, Goto, Load, Forget, localVars
<1>19. ASSUME NEW w \in Workers, QueueWoken(w) PROVE LocalType'
  BY <1>19 DEF QueueWoken, PopTo, LocalType, Goto, Load, Forget, localVars
<1>20. ASSUME NEW w \in Workers, QueueTimeout(w) PROVE LocalType'
  BY <1>20 DEF QueueTimeout, LocalType, Goto, Load, Forget, localVars
<1>21. ASSUME NEW w \in Workers, TerminateWorker(w) PROVE LocalType'
  BY <1>21 DEF TerminateWorker, LocalType, Goto, Load, Forget, localVars
<1>22. ASSUME NEW w \in Workers, ReplaceWorker(w) PROVE LocalType'
  BY <1>22 DEF ReplaceWorker, CallAddWorker, LocalType, Goto, Load, Forget,
     localVars
<1>23. ASSUME NEW d \in Closers, Shutdown(d) PROVE LocalType'
  BY <1>23 DEF Shutdown, LocalType, Goto, Load, Forget, localVars
<1>24. ASSUME NEW d \in Closers, ShutdownClose(d) PROVE LocalType'
  BY <1>24 DEF ShutdownClose, LocalType, Goto, Load, Forget, localVars
<1>25. ASSUME NEW p \in Tasks \cup Workers, AddWorkerLoad(p) PROVE LocalType'
  BY <1>25 DEF AddWorkerLoad, LocalType, Goto, Load, Forget, localVars
<1>26. ASSUME NEW p \in Tasks \cup Workers, NEW w \in Workers, AddWorkerStart(p,
              w)
       PROVE  LocalType'
  BY <1>26 DEF AddWorkerStart, LocalType, Goto, Load, Forget, localVars
<1>27. ASSUME NEW p \in Tasks \cup Workers, AddWorkerRetry(p) PROVE LocalType'
  BY <1>27 DEF AddWorkerRetry, LocalType, Goto, Load, Forget, localVars
<1>28. ASSUME NEW p \in Procs, TryTerminateLoad(p) PROVE LocalType'
  BY <1>28 DEF TryTerminateLoad, Return, LocalType, Goto, Load, Forget,
     localVars
<1>29. ASSUME NEW p \in Procs, TryTerminateCheck(p) PROVE LocalType'
  BY <1>29 DEF TryTerminateCheck, Return, LocalType, Goto, Load, Forget,
     localVars
<1>30. ASSUME NEW p \in Procs, TryTerminateCommit(p) PROVE LocalType'
  BY <1>30 DEF TryTerminateCommit, Return, LocalType, Goto, Load, Forget,
     localVars
<1>31. CASE UNCHANGED vars
  BY <1>31 DEF LocalType, vars, localVars
<1> QED
  BY <1>4, <1>5, <1>6, <1>7, <1>8, <1>9, <1>10, <1>11, <1>12, <1>13, <1>14,
     <1>15, <1>16, <1>17, <1>18, <1>19, <1>20, <1>21, <1>22, <1>23, <1>24,
     <1>25, <1>26, <1>27, <1>28, <1>29, <1>30, <1>31 DEF Next, SubmitStep,
     CancelStep, TaskRun, PollTask, WorkerExit, WorkerStep, ShutdownStep,
     AddWorker, TryTerminate, Done, Procs

\* Every step keeps a task in a worker's hand exactly while the worker runs it.
LEMMA HandStep == TypeOK /\ JobInv /\ [Next]_vars => HandType'
<1> SUFFICES ASSUME TypeOK, JobInv, [Next]_vars PROVE HandType'
  OBVIOUS
<1> USE ProcsAssumption DEF TypeOK
<1>1. ASSUME NEW t \in Tasks, Submit(t) PROVE HandType'
  BY <1>1 DEF Submit, CallAddWorker, localVars, HandType, ControlType, Goto,
     WorkerPCs, TryTerminatePCs, Counted, Procs
<1>2. ASSUME NEW t \in Tasks, SubmitReload(t) PROVE HandType'
  BY <1>2 DEF SubmitReload, CallAddWorker, localVars, HandType, ControlType,
     Goto, WorkerPCs, TryTerminatePCs, Counted, Procs
<1>3. ASSUME NEW t \in Tasks, AddTaskPush(t) PROVE HandType'
  BY <1>3 DEF AddTaskPush, SignalAnd, Waiting, localVars, HandType,
     ControlType, Goto, WorkerPCs, TryTerminatePCs, Counted, Procs
<1>4. ASSUME NEW t \in Tasks, AddTaskLoad(t) PROVE HandType'
  BY <1>4 DEF AddTaskLoad, CallAddWorker, localVars, HandType, ControlType,
     Goto, WorkerPCs, TryTerminatePCs, Counted, Procs
<1>5. ASSUME NEW t \in Tasks, AddTaskRemove(t) PROVE HandType'
  BY <1>5 DEF AddTaskRemove, localVars, HandType, ControlType, Goto, WorkerPCs,
     TryTerminatePCs, Counted, Procs
<1>6. ASSUME NEW t \in Tasks, Cancel(t) PROVE HandType'
  BY <1>6 DEF Cancel, localVars, HandType, ControlType, Goto, WorkerPCs,
     TryTerminatePCs, Counted, Procs
<1>7. ASSUME NEW t \in Tasks, CancelSetResult(t) PROVE HandType'
  BY <1>7 DEF CancelSetResult, localVars, HandType, ControlType, Goto,
     WorkerPCs, TryTerminatePCs, Counted, Procs
<1>8. ASSUME NEW t \in Tasks, AwaitResult(t) PROVE HandType'
  BY <1>8 DEF AwaitResult, localVars, HandType, ControlType, Goto, WorkerPCs,
     TryTerminatePCs, Counted, Procs
<1>9. ASSUME NEW w \in Workers, RunTask(w) PROVE HandType'
  BY <1>9 DEF RunTask, localVars, HandType, ControlType, Goto, WorkerPCs,
     TryTerminatePCs, Counted, Procs
<1>10. ASSUME NEW w \in Workers, WorkerSetResult(w) PROVE HandType'
  BY <1>10 DEF WorkerSetResult, HandType, ControlType, Goto, WorkerPCs,
     TryTerminatePCs, Counted, Procs
<1>11. ASSUME NEW w \in Workers, PollLoad(w) PROVE HandType'
  BY <1>11 DEF PollLoad, HandType, ControlType, Goto, WorkerPCs,
     TryTerminatePCs, Counted, Procs
<1>12. ASSUME NEW w \in Workers, PollDecide(w) PROVE HandType'
  BY <1>12 DEF PollDecide, HandType, ControlType, Goto, WorkerPCs,
     TryTerminatePCs, Counted, Procs
<1>13. ASSUME NEW w \in Workers, PollExit(w) PROVE HandType'
  BY <1>13 DEF PollExit, HandType, ControlType, Goto, WorkerPCs,
     TryTerminatePCs, Counted, Procs
<1>14. ASSUME NEW w \in Workers, PollExitIdle(w) PROVE HandType'
  BY <1>14 DEF PollExitIdle, HandType, ControlType, Goto, WorkerPCs,
     TryTerminatePCs, Counted, Procs
<1>15. ASSUME NEW w \in Workers, QueuePoll(w) PROVE HandType'
  BY <1>15 DEF QueuePoll, PopTo, QueueType, Empty, HandType, ControlType, Goto,
     WorkerPCs, TryTerminatePCs, Counted, Procs
<1>16. ASSUME NEW w \in Workers, QueueWoken(w) PROVE HandType'
  BY <1>16 DEF QueueWoken, PopTo, QueueType, Empty, HandType, ControlType,
     Goto, WorkerPCs, TryTerminatePCs, Counted, Procs
<1>17. ASSUME NEW w \in Workers, QueueTimeout(w) PROVE HandType'
  BY <1>17 DEF QueueTimeout, HandType, ControlType, Goto, WorkerPCs,
     TryTerminatePCs, Counted, Procs
<1>18. ASSUME NEW w \in Workers, TerminateWorker(w) PROVE HandType'
  BY <1>18 DEF TerminateWorker, HandType, ControlType, Goto, WorkerPCs,
     TryTerminatePCs, Counted, Procs
<1>19. ASSUME NEW w \in Workers, ReplaceWorker(w) PROVE HandType'
  BY <1>19 DEF ReplaceWorker, CallAddWorker, HandType, ControlType, Goto,
     WorkerPCs, TryTerminatePCs, Counted, Procs
<1>20. ASSUME NEW d \in Closers, Shutdown(d) PROVE HandType'
  BY <1>20 DEF Shutdown, localVars, HandType, ControlType, Goto, WorkerPCs,
     TryTerminatePCs, Counted, Procs
<1>21. ASSUME NEW d \in Closers, ShutdownClose(d) PROVE HandType'
  BY <1>21 DEF ShutdownClose, Waiting, localVars, HandType, ControlType, Goto,
     WorkerPCs, TryTerminatePCs, Counted, Procs
<1>22. ASSUME NEW p \in Tasks \cup Workers, AddWorkerLoad(p) PROVE HandType'
  BY <1>22 DEF AddWorkerLoad, OnAddWorkerError, JobInv, HandType, ControlType,
     Goto, WorkerPCs, TryTerminatePCs, Counted, Procs
<1>23. ASSUME NEW p \in Tasks \cup Workers, NEW w \in Workers, AddWorkerStart(p,
              w)
       PROVE  HandType'
  BY <1>23 DEF AddWorkerStart, OnAddWorkerOk, JobInv, HandType, ControlType,
     Goto, WorkerPCs, TryTerminatePCs, Counted, Procs
<1>24. ASSUME NEW p \in Tasks \cup Workers, AddWorkerRetry(p) PROVE HandType'
  BY <1>24 DEF AddWorkerRetry, HandType, ControlType, Goto, WorkerPCs,
     TryTerminatePCs, Counted, Procs
<1>25. ASSUME NEW p \in Procs, TryTerminateLoad(p) PROVE HandType'
  BY <1>25 DEF TryTerminateLoad, Return, AfterTryTerminate, HandType,
     ControlType, Goto, WorkerPCs, TryTerminatePCs, Counted, Procs
<1>26. ASSUME NEW p \in Procs, TryTerminateCheck(p) PROVE HandType'
  BY <1>26 DEF TryTerminateCheck, Return, AfterTryTerminate, HandType,
     ControlType, Goto, WorkerPCs, TryTerminatePCs, Counted, Procs
<1>27. ASSUME NEW p \in Procs, TryTerminateCommit(p) PROVE HandType'
  BY <1>27 DEF TryTerminateCommit, Return, AfterTryTerminate, HandType,
     ControlType, Goto, WorkerPCs, TryTerminatePCs, Counted, Procs
<1>28. CASE UNCHANGED vars
  BY <1>28 DEF HandType, vars, localVars
<1> QED
  BY <1>1, <1>2, <1>3, <1>4, <1>5, <1>6, <1>7, <1>8, <1>9, <1>10, <1>11, <1>12,
     <1>13, <1>14, <1>15, <1>16, <1>17, <1>18, <1>19, <1>20, <1>21, <1>22,
     <1>23, <1>24, <1>25, <1>26, <1>27, <1>28 DEF Next, SubmitStep, CancelStep,
     TaskRun, PollTask, WorkerExit, WorkerStep, ShutdownStep, AddWorker,
     TryTerminate, Done, Procs, vars, poolVars, queueVars, localVars,
     handleVars

\* A live worker is counted.
LEMMA LiveCounted ==
  ASSUME WorkerCountExact, NEW w \in Workers, pc[w] \in Counted
  PROVE  state.count \in Nat /\ state.count > 0
<1>1. IsFiniteSet(Live) /\ w \in Live
  BY FS_Subset, ProcsAssumption DEF Live
<1>2. Cardinality(Live) \in Nat /\ Cardinality(Live) # 0
  BY <1>1, FS_CardinalityType, FS_EmptySet
<1> QED
  BY <1>2 DEF WorkerCountExact

\* Every step keeps the types of the executor's shared state; the worker count is
\* never decremented below zero.
LEMMA PoolStep == TypeOK /\ WorkerCountExact /\ [Next]_vars => PoolType'
<1> SUFFICES ASSUME TypeOK, WorkerCountExact, [Next]_vars PROVE PoolType'
  OBVIOUS
<1> USE ProcsAssumption DEF TypeOK
<1>1. ASSUME NEW w \in Workers, PollExit(w) PROVE PoolType'
  <2>1. state.count > 0
    BY <1>1, LiveCounted DEF PollExit, Counted
  <2> QED
    BY <1>1, <2>1 DEF PollExit, PoolType, StateWord
<1>2. ASSUME NEW w \in Workers, PollExitIdle(w) PROVE PoolType'
  <2>1. state.count > 0
    BY <1>2, LiveCounted DEF PollExitIdle, Counted
  <2> QED
    BY <1>2, <2>1 DEF PollExitIdle, PoolType, StateWord
<1>3. ASSUME NEW d \in Closers, Shutdown(d) PROVE PoolType'
  BY <1>3 DEF Shutdown, SetRunState, StateWord, RUNNING, SHUTDOWN, TERMINATED,
     PoolType
<1>4. ASSUME NEW d \in Closers, ShutdownClose(d) PROVE PoolType'
  BY <1>4 DEF ShutdownClose, PoolType
<1>5. ASSUME NEW p \in Tasks \cup Workers, NEW w \in Workers, AddWorkerStart(p,
             w)
      PROVE  PoolType'
  BY <1>5 DEF AddWorkerStart, StateWord, PoolType
<1>6. ASSUME NEW p \in Procs, TryTerminateCommit(p) PROVE PoolType'
  BY <1>6 DEF TryTerminateCommit, SetRunState, StateWord, RUNNING, SHUTDOWN,
     TERMINATED, PoolType
<1>7. CASE UNCHANGED poolVars
  BY <1>7 DEF PoolType, poolVars
<1> QED
  BY <1>1, <1>2, <1>3, <1>4, <1>5, <1>6, <1>7 DEF Next, SubmitStep, CancelStep,
     TaskRun, PollTask, WorkerExit, WorkerStep, ShutdownStep, AddWorker,
     TryTerminate, Done, Procs, vars, poolVars, queueVars, localVars,
     handleVars, Submit, SubmitReload, AddTaskPush, AddTaskLoad, AddTaskRemove,
     Cancel, CancelSetResult, AwaitResult, RunTask, WorkerSetResult, PollLoad,
     PollDecide, QueuePoll, QueueWoken, QueueTimeout, TerminateWorker,
     ReplaceWorker, AddWorkerLoad, AddWorkerRetry, TryTerminateLoad,
     TryTerminateCheck

\* Every step keeps the queue a sequence of tasks.
LEMMA QueueStep == TypeOK /\ [Next]_vars => QueueType'
<1> SUFFICES ASSUME TypeOK, [Next]_vars PROVE QueueType'
  OBVIOUS
<1> USE DEF TypeOK
<1>1. ASSUME NEW t \in Tasks, AddTaskPush(t) PROVE QueueType'
  BY <1>1 DEF AddTaskPush, Empty, QueueType
<1>2. ASSUME NEW t \in Tasks, AddTaskRemove(t) PROVE QueueType'
  BY <1>2, RemoveIndexProps DEF AddTaskRemove, QueueRemove, QueueType
<1>3. ASSUME NEW t \in Tasks, Cancel(t) PROVE QueueType'
  BY <1>3, RemoveIndexProps DEF Cancel, QueueRemove, QueueType
<1>4. ASSUME NEW w \in Workers, QueuePoll(w) PROVE QueueType'
  BY <1>4 DEF QueuePoll, PopTo, Empty, QueueType
<1>5. ASSUME NEW w \in Workers, QueueWoken(w) PROVE QueueType'
  BY <1>5 DEF QueueWoken, PopTo, Empty, QueueType
<1>6. ASSUME NEW d \in Closers, ShutdownClose(d) PROVE QueueType'
  BY <1>6 DEF ShutdownClose, QueueType
<1>7. CASE UNCHANGED queueVars
  BY <1>7 DEF QueueType, queueVars
<1> QED
  BY <1>1, <1>2, <1>3, <1>4, <1>5, <1>6, <1>7 DEF Next, SubmitStep, CancelStep,
     TaskRun, PollTask, WorkerExit, WorkerStep, ShutdownStep, AddWorker,
     TryTerminate, Done, Procs, vars, poolVars, queueVars, localVars,
     handleVars, Submit, SubmitReload, AddTaskLoad, CancelSetResult,
     AwaitResult, RunTask, WorkerSetResult, PollLoad, PollDecide, PollExit,
     PollExitIdle, QueueTimeout, TerminateWorker, ReplaceWorker, Shutdown,
     AddWorkerLoad, AddWorkerStart, AddWorkerRetry, TryTerminateLoad,
     TryTerminateCheck, TryTerminateCommit

\* Every step keeps the types of the handles.
LEMMA HandleStep == TypeOK /\ [Next]_vars => HandleType'
<1> SUFFICES ASSUME TypeOK, [Next]_vars PROVE HandleType'
  OBVIOUS
<1> USE ProcsAssumption DEF TypeOK, HandType
<1>1. ASSUME NEW t \in Tasks, CancelSetResult(t) PROVE HandleType'
  BY <1>1 DEF CancelSetResult, SetResult, HandleType
<1>2. ASSUME NEW t \in Tasks, AwaitResult(t) PROVE HandleType'
  BY <1>2 DEF AwaitResult, HandleType
<1>3. ASSUME NEW w \in Workers, RunTask(w) PROVE HandleType'
  BY <1>3 DEF RunTask, HandleType
<1>4. ASSUME NEW w \in Workers, WorkerSetResult(w) PROVE HandleType'
  BY <1>4 DEF WorkerSetResult, SetResult, HandleType
<1>5. CASE UNCHANGED handleVars
  BY <1>5 DEF HandleType, handleVars
<1> QED
  BY <1>1, <1>2, <1>3, <1>4, <1>5 DEF Next, SubmitStep, CancelStep, TaskRun,
     PollTask, WorkerExit, WorkerStep, ShutdownStep, AddWorker, TryTerminate,
     Done, Procs, vars, poolVars, queueVars, localVars, handleVars, Submit,
     SubmitReload, AddTaskPush, AddTaskLoad, AddTaskRemove, Cancel, PollLoad,
     PollDecide, PollExit, PollExitIdle, QueuePoll, QueueWoken, QueueTimeout,
     TerminateWorker, ReplaceWorker, Shutdown, ShutdownClose, AddWorkerLoad,
     AddWorkerStart, AddWorkerRetry, TryTerminateLoad, TryTerminateCheck,
     TryTerminateCommit

\* Every step keeps what a process inside addWorker knows.
LEMMA JobStep == TypeOK /\ JobInv /\ [Next]_vars => JobInv'
<1> SUFFICES ASSUME TypeOK, JobInv, [Next]_vars PROVE JobInv'
  OBVIOUS
<1> USE ConfigAssumption, ProcsAssumption DEF TypeOK
<1>1. ASSUME NEW t \in Tasks, Submit(t) PROVE JobInv'
  BY <1>1 DEF Submit, CallAddWorker, poolVars, localVars, PoolCap,
     AddWorkerCheck, PoolType, LocalType, StateWord, Jobs, ReplacementSize,
     ControlType, RUNNING, SHUTDOWN, TERMINATED, JobInv, Goto, Load, Forget,
     Procs, IsShutdown, IsRunning
<1>2. ASSUME NEW t \in Tasks, SubmitReload(t) PROVE JobInv'
  BY <1>2 DEF SubmitReload, CallAddWorker, poolVars, localVars, PoolCap,
     AddWorkerCheck, PoolType, LocalType, StateWord, Jobs, ReplacementSize,
     ControlType, RUNNING, SHUTDOWN, TERMINATED, JobInv, Goto, Load, Forget,
     Procs, IsShutdown, IsRunning
<1>3. ASSUME NEW t \in Tasks, AddTaskPush(t) PROVE JobInv'
  BY <1>3 DEF AddTaskPush, SignalAnd, Waiting, poolVars, localVars,
     ControlType, CloserPCs, LocalType, RUNNING, SHUTDOWN, TERMINATED, JobInv,
     Goto, Load, Forget, Procs, IsShutdown, IsRunning
<1>4. ASSUME NEW t \in Tasks, AddTaskLoad(t) PROVE JobInv'
  BY <1>4 DEF AddTaskLoad, CallAddWorker, poolVars, localVars, PoolCap,
     AddWorkerCheck, PoolType, LocalType, StateWord, Jobs, ReplacementSize,
     ControlType, RUNNING, SHUTDOWN, TERMINATED, JobInv, Goto, Load, Forget,
     Procs, IsShutdown, IsRunning
<1>5. ASSUME NEW t \in Tasks, AddTaskRemove(t) PROVE JobInv'
  BY <1>5 DEF AddTaskRemove, poolVars, localVars, ControlType, LocalType,
     RUNNING, SHUTDOWN, TERMINATED, JobInv, Goto, Load, Forget, Procs,
     IsShutdown, IsRunning
<1>6. ASSUME NEW t \in Tasks, Cancel(t) PROVE JobInv'
  BY <1>6 DEF Cancel, poolVars, localVars, ControlType, LocalType, RUNNING,
     SHUTDOWN, TERMINATED, JobInv, Goto, Load, Forget, Procs, IsShutdown,
     IsRunning
<1>7. ASSUME NEW t \in Tasks, CancelSetResult(t) PROVE JobInv'
  BY <1>7 DEF CancelSetResult, poolVars, localVars, ControlType, LocalType,
     RUNNING, SHUTDOWN, TERMINATED, JobInv, Goto, Load, Forget, Procs,
     IsShutdown, IsRunning
<1>8. ASSUME NEW t \in Tasks, AwaitResult(t) PROVE JobInv'
  BY <1>8 DEF AwaitResult, poolVars, localVars, ControlType, LocalType,
     RUNNING, SHUTDOWN, TERMINATED, JobInv, Goto, Load, Forget, Procs,
     IsShutdown, IsRunning
<1>9. ASSUME NEW w \in Workers, RunTask(w) PROVE JobInv'
  BY <1>9 DEF RunTask, poolVars, localVars, ControlType, LocalType, RUNNING,
     SHUTDOWN, TERMINATED, JobInv, Goto, Load, Forget, Procs, IsShutdown,
     IsRunning
<1>10. ASSUME NEW w \in Workers, WorkerSetResult(w) PROVE JobInv'
  BY <1>10 DEF WorkerSetResult, poolVars, localVars, ControlType, LocalType,
     RUNNING, SHUTDOWN, TERMINATED, JobInv, Goto, Load, Forget, Procs,
     IsShutdown, IsRunning
<1>11. ASSUME NEW w \in Workers, PollLoad(w) PROVE JobInv'
  BY <1>11 DEF PollLoad, poolVars, localVars, ControlType, LocalType, RUNNING,
     SHUTDOWN, TERMINATED, JobInv, Goto, Load, Forget, Procs, IsShutdown,
     IsRunning
<1>12. ASSUME NEW w \in Workers, PollDecide(w) PROVE JobInv'
  BY <1>12 DEF PollDecide, poolVars, localVars, ControlType, LocalType,
     RUNNING, SHUTDOWN, TERMINATED, JobInv, Goto, Load, Forget, Procs,
     IsShutdown, IsRunning
<1>13. ASSUME NEW w \in Workers, PollExit(w) PROVE JobInv'
  BY <1>13 DEF PollExit, poolVars, localVars, PoolType, StateWord, LocalType,
     Jobs, SetRunState, ControlType, RUNNING, SHUTDOWN, TERMINATED, JobInv,
     Goto, Load, Forget, Procs, IsShutdown, IsRunning
<1>14. ASSUME NEW w \in Workers, PollExitIdle(w) PROVE JobInv'
  BY <1>14 DEF PollExitIdle, poolVars, localVars, PoolType, StateWord,
     LocalType, Jobs, SetRunState, ControlType, RUNNING, SHUTDOWN, TERMINATED,
     JobInv, Goto, Load, Forget, Procs, IsShutdown, IsRunning
<1>15. ASSUME NEW w \in Workers, QueuePoll(w) PROVE JobInv'
  BY <1>15 DEF QueuePoll, PopTo, poolVars, localVars, ControlType, LocalType,
     RUNNING, SHUTDOWN, TERMINATED, JobInv, Goto, Load, Forget, Procs,
     IsShutdown, IsRunning
<1>16. ASSUME NEW w \in Workers, QueueWoken(w) PROVE JobInv'
  BY <1>16 DEF QueueWoken, PopTo, poolVars, localVars, ControlType, LocalType,
     RUNNING, SHUTDOWN, TERMINATED, JobInv, Goto, Load, Forget, Procs,
     IsShutdown, IsRunning
<1>17. ASSUME NEW w \in Workers, QueueTimeout(w) PROVE JobInv'
  BY <1>17 DEF QueueTimeout, poolVars, localVars, ControlType, LocalType,
     RUNNING, SHUTDOWN, TERMINATED, JobInv, Goto, Load, Forget, Procs,
     IsShutdown, IsRunning
<1>18. ASSUME NEW w \in Workers, TerminateWorker(w) PROVE JobInv'
  BY <1>18 DEF TerminateWorker, poolVars, localVars, ControlType, LocalType,
     RUNNING, SHUTDOWN, TERMINATED, JobInv, Goto, Load, Forget, Procs,
     IsShutdown, IsRunning
<1>19. ASSUME NEW w \in Workers, ReplaceWorker(w) PROVE JobInv'
  BY <1>19 DEF ReplaceWorker, CallAddWorker, poolVars, localVars, PoolCap,
     AddWorkerCheck, PoolType, LocalType, StateWord, Jobs, ReplacementSize,
     ControlType, RUNNING, SHUTDOWN, TERMINATED, JobInv, Goto, Load, Forget,
     Procs, IsShutdown, IsRunning
<1>20. ASSUME NEW d \in Closers, Shutdown(d) PROVE JobInv'
  BY <1>20 DEF Shutdown, poolVars, localVars, PoolType, StateWord, LocalType,
     Jobs, SetRunState, ControlType, RUNNING, SHUTDOWN, TERMINATED, JobInv,
     Goto, Load, Forget, Procs, IsShutdown, IsRunning
<1>21. ASSUME NEW d \in Closers, ShutdownClose(d) PROVE JobInv'
  BY <1>21 DEF ShutdownClose, Waiting, poolVars, localVars, ControlType,
     CloserPCs, LocalType, RUNNING, SHUTDOWN, TERMINATED, JobInv, Goto, Load,
     Forget, Procs, IsShutdown, IsRunning
<1>22. ASSUME NEW p \in Tasks \cup Workers, AddWorkerLoad(p) PROVE JobInv'
  BY <1>22 DEF AddWorkerLoad, OnAddWorkerError, poolVars, localVars, PoolCap,
     AddWorkerCheck, PoolType, LocalType, StateWord, Jobs, ReplacementSize,
     ControlType, RUNNING, SHUTDOWN, TERMINATED, JobInv, Goto, Load, Forget,
     Procs, IsShutdown, IsRunning
<1>23. ASSUME NEW p \in Tasks \cup Workers, NEW w \in Workers, AddWorkerStart(p,
              w)
       PROVE  JobInv'
  BY <1>23 DEF AddWorkerStart, OnAddWorkerOk, poolVars, localVars, PoolType,
     StateWord, LocalType, Jobs, SetRunState, ControlType, RUNNING, SHUTDOWN,
     TERMINATED, JobInv, Goto, Load, Forget, Procs, IsShutdown, IsRunning
<1>24. ASSUME NEW p \in Tasks \cup Workers, AddWorkerRetry(p) PROVE JobInv'
  BY <1>24 DEF AddWorkerRetry, poolVars, localVars, ControlType, LocalType,
     RUNNING, SHUTDOWN, TERMINATED, JobInv, Goto, Load, Forget, Procs,
     IsShutdown, IsRunning
<1>25. ASSUME NEW p \in Procs, TryTerminateLoad(p) PROVE JobInv'
  BY <1>25 DEF TryTerminateLoad, Return, AfterTryTerminate, poolVars,
     localVars, ControlType, CloserPCs, TryTerminatePCs, LocalType, RUNNING,
     SHUTDOWN, TERMINATED, JobInv, Goto, Load, Forget, Procs, IsShutdown,
     IsRunning
<1>26. ASSUME NEW p \in Procs, TryTerminateCheck(p) PROVE JobInv'
  BY <1>26 DEF TryTerminateCheck, Return, AfterTryTerminate, poolVars,
     localVars, ControlType, CloserPCs, TryTerminatePCs, LocalType, RUNNING,
     SHUTDOWN, TERMINATED, JobInv, Goto, Load, Forget, Procs, IsShutdown,
     IsRunning
<1>27. ASSUME NEW p \in Procs, TryTerminateCommit(p) PROVE JobInv'
  BY <1>27 DEF TryTerminateCommit, Return, AfterTryTerminate, poolVars,
     localVars, PoolType, StateWord, LocalType, Jobs, SetRunState, ControlType,
     CloserPCs, TryTerminatePCs, RUNNING, SHUTDOWN, TERMINATED, JobInv, Goto,
     Load, Forget, Procs, IsShutdown, IsRunning
<1>28. CASE UNCHANGED vars
  BY <1>28 DEF JobInv, vars, poolVars, localVars, IsShutdown, IsRunning, Procs
<1> QED
  BY <1>1, <1>2, <1>3, <1>4, <1>5, <1>6, <1>7, <1>8, <1>9, <1>10, <1>11, <1>12,
     <1>13, <1>14, <1>15, <1>16, <1>17, <1>18, <1>19, <1>20, <1>21, <1>22,
     <1>23, <1>24, <1>25, <1>26, <1>27, <1>28 DEF Next, SubmitStep, CancelStep,
     TaskRun, PollTask, WorkerExit, WorkerStep, ShutdownStep, AddWorker,
     TryTerminate, Done, Procs, vars, poolVars, queueVars, localVars,
     handleVars

\* Every step keeps the worker count exact: a successful CAS and DecWorkerCount
\* move it together with the set of live workers.
LEMMA CountStep ==
  TypeOK /\ JobInv /\ WorkerCountExact /\ [Next]_vars => WorkerCountExact'
<1> SUFFICES ASSUME TypeOK, JobInv, WorkerCountExact, [Next]_vars
             PROVE  WorkerCountExact'
  OBVIOUS
<1> USE ProcsAssumption
<1>1. IsFiniteSet(Live)
  BY FS_Subset DEF Live
<1>2. ASSUME Live' = Live, state'.count = state.count PROVE WorkerCountExact'
  BY <1>2 DEF WorkerCountExact
<1>3. ASSUME NEW w \in Workers, pc[w] \in Counted, pc' = [pc EXCEPT ![w] = "exit"],
             state'.count = state.count - 1
      PROVE  WorkerCountExact'
  <2>1. w \in Live /\ Live' = Live \ {w}
    BY <1>3 DEF Live, Counted, TypeOK, ControlType, Procs
  <2> QED
    BY <2>1, <1>1, <1>3, FS_RemoveElement DEF WorkerCountExact
<1>4. ASSUME NEW t \in Tasks, Submit(t) PROVE WorkerCountExact'
  <2>1. Live' = Live
    BY <1>4 DEF Submit, CallAddWorker, Live, Counted, TypeOK, ControlType,
       Procs, Goto
  <2> QED
    BY <1>4, <2>1, <1>2 DEF Submit, poolVars
<1>5. ASSUME NEW t \in Tasks, SubmitReload(t) PROVE WorkerCountExact'
  <2>1. Live' = Live
    BY <1>5 DEF SubmitReload, CallAddWorker, Live, Counted, TypeOK, ControlType,
       Procs, Goto
  <2> QED
    BY <1>5, <2>1, <1>2 DEF SubmitReload, poolVars
<1>6. ASSUME NEW t \in Tasks, AddTaskPush(t) PROVE WorkerCountExact'
  <2>1. Live' = Live
    BY <1>6 DEF AddTaskPush, SignalAnd, Waiting, Live, Counted, TypeOK,
       ControlType, Procs, Goto
  <2> QED
    BY <1>6, <2>1, <1>2 DEF AddTaskPush, poolVars
<1>7. ASSUME NEW t \in Tasks, AddTaskLoad(t) PROVE WorkerCountExact'
  <2>1. Live' = Live
    BY <1>7 DEF AddTaskLoad, CallAddWorker, Live, Counted, TypeOK, ControlType,
       Procs, Goto
  <2> QED
    BY <1>7, <2>1, <1>2 DEF AddTaskLoad, poolVars
<1>8. ASSUME NEW t \in Tasks, AddTaskRemove(t) PROVE WorkerCountExact'
  <2>1. Live' = Live
    BY <1>8 DEF AddTaskRemove, Live, Counted, TypeOK, ControlType, Procs, Goto
  <2> QED
    BY <1>8, <2>1, <1>2 DEF AddTaskRemove, poolVars
<1>9. ASSUME NEW t \in Tasks, Cancel(t) PROVE WorkerCountExact'
  <2>1. Live' = Live
    BY <1>9 DEF Cancel, Live, Counted, TypeOK, ControlType, Procs, Goto
  <2> QED
    BY <1>9, <2>1, <1>2 DEF Cancel, poolVars
<1>10. ASSUME NEW t \in Tasks, CancelSetResult(t) PROVE WorkerCountExact'
  <2>1. Live' = Live
    BY <1>10 DEF CancelSetResult, Live, Counted, TypeOK, ControlType, Procs,
       Goto
  <2> QED
    BY <1>10, <2>1, <1>2 DEF CancelSetResult, poolVars
<1>11. ASSUME NEW t \in Tasks, AwaitResult(t) PROVE WorkerCountExact'
  <2>1. Live' = Live
    BY <1>11 DEF AwaitResult, Live, Counted, TypeOK, ControlType, Procs, Goto
  <2> QED
    BY <1>11, <2>1, <1>2 DEF AwaitResult, poolVars
<1>12. ASSUME NEW w \in Workers, RunTask(w) PROVE WorkerCountExact'
  <2>1. Live' = Live
    BY <1>12 DEF RunTask, Live, Counted, TypeOK, ControlType, Procs, Goto
  <2> QED
    BY <1>12, <2>1, <1>2 DEF RunTask, poolVars
<1>13. ASSUME NEW w \in Workers, WorkerSetResult(w) PROVE WorkerCountExact'
  <2>1. Live' = Live
    BY <1>13 DEF WorkerSetResult, Live, Counted, TypeOK, ControlType, Procs,
       Goto
  <2> QED
    BY <1>13, <2>1, <1>2 DEF WorkerSetResult, poolVars
<1>14. ASSUME NEW w \in Workers, PollLoad(w) PROVE WorkerCountExact'
  <2>1. Live' = Live
    BY <1>14 DEF PollLoad, Live, Counted, TypeOK, ControlType, Procs, Goto
  <2> QED
    BY <1>14, <2>1, <1>2 DEF PollLoad, poolVars
<1>15. ASSUME NEW w \in Workers, PollDecide(w) PROVE WorkerCountExact'
  <2>1. Live' = Live
    BY <1>15 DEF PollDecide, Live, Counted, TypeOK, ControlType, Procs, Goto
  <2> QED
    BY <1>15, <2>1, <1>2 DEF PollDecide, poolVars
<1>16. ASSUME NEW w \in Workers, PollExit(w) PROVE WorkerCountExact'
  BY <1>16, <1>3 DEF PollExit, Goto, Counted, TypeOK, PoolType, StateWord
<1>17. ASSUME NEW w \in Workers, PollExitIdle(w) PROVE WorkerCountExact'
  <2>1. CASE state = seen[w]
    BY <1>17, <2>1, <1>3 DEF PollExitIdle, Goto, Counted, TypeOK, PoolType,
       StateWord
  <2>2. CASE state # seen[w]
    <3>1. Live' = Live
      BY <1>17, <2>2 DEF PollExitIdle, Goto, Live, Counted, TypeOK, ControlType,
         Procs
    <3> QED
      BY <1>17, <2>2, <3>1, <1>2 DEF PollExitIdle
  <2> QED
    BY <2>1, <2>2
<1>18. ASSUME NEW w \in Workers, QueuePoll(w) PROVE WorkerCountExact'
  <2>1. Live' = Live
    BY <1>18 DEF QueuePoll, PopTo, Live, Counted, TypeOK, ControlType, Procs,
       Goto
  <2> QED
    BY <1>18, <2>1, <1>2 DEF QueuePoll, poolVars
<1>19. ASSUME NEW w \in Workers, QueueWoken(w) PROVE WorkerCountExact'
  <2>1. Live' = Live
    BY <1>19 DEF QueueWoken, PopTo, Live, Counted, TypeOK, ControlType, Procs,
       Goto
  <2> QED
    BY <1>19, <2>1, <1>2 DEF QueueWoken, poolVars
<1>20. ASSUME NEW w \in Workers, QueueTimeout(w) PROVE WorkerCountExact'
  <2>1. Live' = Live
    BY <1>20 DEF QueueTimeout, Live, Counted, TypeOK, ControlType, Procs, Goto
  <2> QED
    BY <1>20, <2>1, <1>2 DEF QueueTimeout, poolVars
<1>21. ASSUME NEW w \in Workers, TerminateWorker(w) PROVE WorkerCountExact'
  <2>1. Live' = Live
    BY <1>21 DEF TerminateWorker, Live, Counted, TypeOK, ControlType, Procs,
       Goto
  <2> QED
    BY <1>21, <2>1, <1>2 DEF TerminateWorker, poolVars
<1>22. ASSUME NEW w \in Workers, ReplaceWorker(w) PROVE WorkerCountExact'
  <2>1. Live' = Live
    BY <1>22 DEF ReplaceWorker, CallAddWorker, Live, Counted, TypeOK,
       ControlType, Procs, Goto
  <2> QED
    BY <1>22, <2>1, <1>2 DEF ReplaceWorker, poolVars
<1>23. ASSUME NEW d \in Closers, Shutdown(d) PROVE WorkerCountExact'
  <2>1. Live' = Live
    BY <1>23 DEF Shutdown, Goto, Live, Counted, TypeOK, ControlType, Procs
  <2>2. state'.count = state.count
    BY <1>23 DEF Shutdown, SetRunState, TypeOK, PoolType, StateWord
  <2> QED
    BY <2>1, <2>2, <1>2
<1>24. ASSUME NEW d \in Closers, ShutdownClose(d) PROVE WorkerCountExact'
  <2>1. Live' = Live
    BY <1>24 DEF ShutdownClose, Waiting, Live, Counted, TypeOK, ControlType,
       Procs
  <2> QED
    BY <1>24, <2>1, <1>2 DEF ShutdownClose
<1>25. ASSUME NEW p \in Tasks \cup Workers, AddWorkerLoad(p)
       PROVE  WorkerCountExact'
  <2>1. Live' = Live
    BY <1>25 DEF AddWorkerLoad, OnAddWorkerError, JobInv, Live, Counted, TypeOK,
       ControlType, Procs, Goto
  <2> QED
    BY <1>25, <2>1, <1>2 DEF AddWorkerLoad, poolVars
<1>26. ASSUME NEW p \in Tasks \cup Workers, NEW w \in Workers, AddWorkerStart(p,
              w)
       PROVE  WorkerCountExact'
  <2>1. w \notin Live /\ Live' = Live \cup {w}
    BY <1>26 DEF AddWorkerStart, OnAddWorkerOk, JobInv, Live, Counted, TypeOK,
       ControlType, Procs
  <2>2. Cardinality(Live') = Cardinality(Live) + 1
    BY <2>1, <1>1, FS_AddElement
  <2>3. state'.count = state.count + 1
    BY <1>26 DEF AddWorkerStart, TypeOK, PoolType, StateWord
  <2> QED
    BY <2>2, <2>3 DEF WorkerCountExact
<1>27. ASSUME NEW p \in Tasks \cup Workers, AddWorkerRetry(p)
       PROVE  WorkerCountExact'
  <2>1. Live' = Live
    BY <1>27 DEF AddWorkerRetry, Live, Counted, TypeOK, ControlType, Procs, Goto
  <2> QED
    BY <1>27, <2>1, <1>2 DEF AddWorkerRetry, poolVars
<1>28. ASSUME NEW p \in Procs, TryTerminateLoad(p) PROVE WorkerCountExact'
  <2>1. Live' = Live
    BY <1>28 DEF TryTerminateLoad, Return, AfterTryTerminate, TryTerminatePCs,
       Live, Counted, TypeOK, ControlType, Procs, Goto
  <2> QED
    BY <1>28, <2>1, <1>2 DEF TryTerminateLoad, poolVars
<1>29. ASSUME NEW p \in Procs, TryTerminateCheck(p) PROVE WorkerCountExact'
  <2>1. Live' = Live
    BY <1>29 DEF TryTerminateCheck, Return, AfterTryTerminate, TryTerminatePCs,
       Live, Counted, TypeOK, ControlType, Procs, Goto
  <2> QED
    BY <1>29, <2>1, <1>2 DEF TryTerminateCheck, poolVars
<1>30. ASSUME NEW p \in Procs, TryTerminateCommit(p) PROVE WorkerCountExact'
  <2>1. Live' = Live
    BY <1>30 DEF TryTerminateCommit, Return, AfterTryTerminate, Goto, Live,
       Counted, TypeOK, ControlType, Procs
  <2>2. state'.count = state.count
    BY <1>30 DEF TryTerminateCommit, SetRunState, TypeOK, PoolType, StateWord
  <2> QED
    BY <2>1, <2>2, <1>2
<1>31. CASE UNCHANGED vars
  BY <1>31 DEF WorkerCountExact, Live, vars, poolVars
<1> QED
  BY <1>4, <1>5, <1>6, <1>7, <1>8, <1>9, <1>10, <1>11, <1>12, <1>13, <1>14,
     <1>15, <1>16, <1>17, <1>18, <1>19, <1>20, <1>21, <1>22, <1>23, <1>24,
     <1>25, <1>26, <1>27, <1>28, <1>29, <1>30, <1>31 DEF Next, SubmitStep,
     CancelStep, TaskRun, PollTask, WorkerExit, WorkerStep, ShutdownStep,
     AddWorker, TryTerminate, Done, Procs, vars, poolVars, queueVars,
     localVars, handleVars

\* Every step keeps the pool within PoolCap.
LEMMA BoundStep == TypeOK /\ JobInv /\ PoolBound /\ [Next]_vars => PoolBound'
<1> SUFFICES ASSUME TypeOK, JobInv, PoolBound, [Next]_vars PROVE PoolBound'
  OBVIOUS
<1> USE ConfigAssumption DEF TypeOK
<1>1. ASSUME NEW w \in Workers, PollExit(w) PROVE PoolBound'
  BY <1>1 DEF PollExit, PoolType, StateWord, PoolCap, PoolBound
<1>2. ASSUME NEW w \in Workers, PollExitIdle(w) PROVE PoolBound'
  BY <1>2 DEF PollExitIdle, PoolType, StateWord, PoolCap, PoolBound
<1>3. ASSUME NEW d \in Closers, Shutdown(d) PROVE PoolBound'
  BY <1>3 DEF Shutdown, SetRunState, PoolType, StateWord, PoolBound, PoolCap
<1>4. ASSUME NEW d \in Closers, ShutdownClose(d) PROVE PoolBound'
  BY <1>4 DEF ShutdownClose, PoolBound, PoolCap
<1>5. ASSUME NEW p \in Tasks \cup Workers, NEW w \in Workers, AddWorkerStart(p,
             w)
      PROVE  PoolBound'
  BY <1>5 DEF AddWorkerStart, JobInv, PoolType, StateWord, Procs, PoolBound,
     PoolCap
<1>6. ASSUME NEW p \in Procs, TryTerminateCommit(p) PROVE PoolBound'
  BY <1>6 DEF TryTerminateCommit, SetRunState, PoolType, StateWord, PoolBound,
     PoolCap
<1>7. CASE UNCHANGED poolVars
  BY <1>7 DEF PoolBound, poolVars
<1> QED
  BY <1>1, <1>2, <1>3, <1>4, <1>5, <1>6, <1>7 DEF Next, SubmitStep, CancelStep,
     TaskRun, PollTask, WorkerExit, WorkerStep, ShutdownStep, AddWorker,
     TryTerminate, Done, Procs, vars, poolVars, queueVars, localVars,
     handleVars, Submit, SubmitReload, AddTaskPush, AddTaskLoad, AddTaskRemove,
     Cancel, CancelSetResult, AwaitResult, RunTask, WorkerSetResult, PollLoad,
     PollDecide, QueuePoll, QueueWoken, QueueTimeout, TerminateWorker,
     ReplaceWorker, AddWorkerLoad, AddWorkerRetry, TryTerminateLoad,
     TryTerminateCheck

-----------------------------------------------------------------------------
(* Where a task is *)

\* The task has been offered to the pool and not been withdrawn or cancelled.
Offered(t) ==
  \/ pc[t] \in {"pushed", "remove", "accepted"}
  \/ pc[t] \in {"addWorker", "casInc"} /\ job[t].site = "help"

Held(t) == \E w \in Workers : cur[w] = t

\* The life of one task: outside the pool it is untouched; inside, it is queued
\* or in a hand or completed, and these exclude each other.
TaskInv(t) ==
  /\ ~Offered(t) => ~InQueue(t) /\ ~Held(t) /\ result[t] = None /\ runs[t] = 0
  /\ Offered(t) => InQueue(t) \/ Held(t) \/ result[t] # None
  /\ InQueue(t) => ~Held(t) /\ result[t] = None /\ runs[t] = 0
  /\ \A w \in Workers : cur[w] = t =>
       result[t] = None /\ runs[t] = IF pc[w] = "run" THEN 0 ELSE 1
  /\ result[t] = "value" => runs[t] = 1
  /\ result[t] = "cancelled" => runs[t] = 0

OneHand == \A v, w \in Workers : cur[v] = cur[w] /\ cur[v] # None => v = w

PlaceInv == Distinct(taskQueue) /\ OneHand /\ \A t \in Tasks : TaskInv(t)

\* A worker that polls a task moves it from the queue into its hand.
LEMMA PopPlace ==
  ASSUME TypeOK, PlaceInv, ~Empty,
         NEW w \in Workers, PopTo(w), cur[w] = None, UNCHANGED <<job, result, runs>>
  PROVE  PlaceInv'
<1> DEFINE h == Head(taskQueue)
<1> USE DEF TypeOK
<1>1. cur' = [cur EXCEPT ![w] = h] /\ pc' = [pc EXCEPT ![w] = "run"]
  BY DEF PopTo, Goto
<1>2. /\ h \in Tasks /\ Occurs(taskQueue, h)
      /\ Distinct(taskQueue')
      /\ \A x : Occurs(taskQueue', x) <=> x # h /\ Occurs(taskQueue, x)
  BY PollProps DEF PopTo, PlaceInv, QueueType, Empty
<1> HIDE DEF h
<1>3. TaskInv(h) /\ ~Held(h) /\ result[h] = None /\ runs[h] = 0
  BY <1>2 DEF PlaceInv, TaskInv, InQueue
<1>4. cur'[w] = h /\ \A v \in Workers \ {w} : cur'[v] = cur[v]
  BY <1>1 DEF HandType
<1>5. /\ pc'[w] = "run" /\ (\A v \in Workers \ {w} : pc'[v] = pc[v])
      /\ \A x \in Tasks : pc'[x] = pc[x]
  BY <1>1, ProcsAssumption DEF ControlType, Procs
<1>6. OneHand'
  BY <1>3, <1>4 DEF OneHand, PlaceInv, Held
<1>7. ASSUME NEW x \in Tasks PROVE TaskInv(x)'
  <2>1. Offered(x)' <=> Offered(x)
    BY <1>5 DEF Offered
  <2>2. CASE x = h
    BY <2>1, <2>2, <1>2, <1>3, <1>4, <1>5 DEF TaskInv, Held, InQueue
  <2>3. CASE x # h
    <3>1. InQueue(x)' <=> InQueue(x)
      BY <2>3, <1>2 DEF InQueue
    <3>2. \A v \in Workers : cur'[v] = x <=> cur[v] = x
      BY <2>3, <1>4, ProcsAssumption DEF Procs
    <3>3. Held(x)' <=> Held(x)
      BY <3>2 DEF Held
    <3>4. \A v \in Workers : cur'[v] = x => pc'[v] = pc[v]
      BY <2>3, <1>4, <1>5
    <3>5. TaskInv(x)
      BY DEF PlaceInv
    <3> QED
      BY <2>1, <3>1, <3>2, <3>3, <3>4, <3>5 DEF TaskInv
  <2> QED
    BY <2>2, <2>3
<1> QED
  BY <1>2, <1>6, <1>7 DEF PlaceInv

\* Every step keeps every task in one place.
LEMMA PlaceStep == TypeOK /\ JobInv /\ PlaceInv /\ [Next]_vars => PlaceInv'
<1> SUFFICES ASSUME TypeOK, JobInv, PlaceInv, [Next]_vars PROVE PlaceInv'
  OBVIOUS
<1> USE ProcsAssumption DEF TypeOK
<1>1. ASSUME NEW t \in Tasks, Submit(t) PROVE PlaceInv'
  BY <1>1 DEF Submit, CallAddWorker, poolVars, queueVars, localVars,
     handleVars, PlaceInv, OneHand, TaskInv, Held, Offered, InQueue, Goto,
     ControlType, LocalType, HandType, HandleType, Procs
<1>2. ASSUME NEW t \in Tasks, SubmitReload(t) PROVE PlaceInv'
  BY <1>2 DEF SubmitReload, CallAddWorker, poolVars, queueVars, localVars,
     handleVars, PlaceInv, OneHand, TaskInv, Held, Offered, InQueue, Goto,
     ControlType, LocalType, HandType, HandleType, Procs
<1>3. ASSUME NEW t \in Tasks, AddTaskPush(t) PROVE PlaceInv'
  <2>1. CASE closed \/ Len(taskQueue) >= QueueCapacity
    BY <1>3, <2>1 DEF AddTaskPush, Goto, localVars, handleVars, PlaceInv,
       OneHand, TaskInv, Held, Offered, InQueue, ControlType, LocalType,
       HandType, HandleType, Procs
  <2>2. CASE ~(closed \/ Len(taskQueue) >= QueueCapacity)
    <3>1. ~Occurs(taskQueue, t)
      BY <1>3 DEF AddTaskPush, PlaceInv, TaskInv, Offered, InQueue
    <3>2. taskQueue' = Append(taskQueue, t)
      BY <1>3, <2>2 DEF AddTaskPush
    <3>3. /\ Distinct(taskQueue')
          /\ \A x : Occurs(taskQueue', x) <=> x = t \/ Occurs(taskQueue, x)
      BY <3>1, <3>2, PushProps DEF PlaceInv, QueueType
    <3>4. \A p \in Procs : pc'[p] = IF p = t THEN "pushed" ELSE
                                  IF pc'[p] = "woken" THEN "woken" ELSE pc[p]
      BY <1>3, <2>2 DEF AddTaskPush, Goto, SignalAnd, Waiting, ControlType,
         Procs
    <3>5. \A w \in Workers : pc'[w] = "woken" => pc[w] \in {"woken", "waiting"}
      BY <1>3, <2>2 DEF AddTaskPush, Goto, SignalAnd, Waiting, ControlType,
         Procs
    <3>6. \A x \in Tasks : pc'[x] = IF x = t THEN "pushed" ELSE pc[x]
      BY <1>3, <2>2 DEF AddTaskPush, Goto, SignalAnd, Waiting, ControlType,
         Procs
    <3> QED
      BY <1>3, <3>3, <3>4, <3>5, <3>6 DEF AddTaskPush, localVars, handleVars,
         PlaceInv, OneHand, TaskInv, Held, Offered, InQueue, HandType,
         HandleType, Procs
  <2> QED
    BY <2>1, <2>2
<1>4. ASSUME NEW t \in Tasks, AddTaskLoad(t) PROVE PlaceInv'
  BY <1>4 DEF AddTaskLoad, CallAddWorker, poolVars, queueVars, localVars,
     handleVars, PlaceInv, OneHand, TaskInv, Held, Offered, InQueue, Goto,
     ControlType, LocalType, HandType, HandleType, Procs
<1>5. ASSUME NEW t \in Tasks, AddTaskRemove(t) PROVE PlaceInv'
  <2>1. CASE InQueue(t)
    <3>1. PICK i \in 1..Len(taskQueue) :
            taskQueue[i] = t /\ taskQueue' = RemoveIndex(taskQueue, i)
      BY <1>5, <2>1 DEF AddTaskRemove, QueueRemove
    <3>2. /\ Distinct(taskQueue')
          /\ \A x : Occurs(taskQueue', x) <=> x # t /\ Occurs(taskQueue, x)
      BY <3>1, RemoveProps DEF PlaceInv, QueueType
    <3> QED
      BY <1>5, <2>1, <3>2 DEF AddTaskRemove, Goto, localVars, handleVars,
         PlaceInv, OneHand, TaskInv, Held, Offered, InQueue, ControlType,
         LocalType, HandType, HandleType, Procs
  <2>2. CASE ~InQueue(t)
    BY <1>5, <2>2 DEF AddTaskRemove, Goto, localVars, handleVars, PlaceInv,
       OneHand, TaskInv, Held, Offered, InQueue, ControlType, LocalType,
       HandType, HandleType, Procs
  <2> QED
    BY <2>1, <2>2
<1>6. ASSUME NEW t \in Tasks, Cancel(t) PROVE PlaceInv'
  <2>1. PICK i \in 1..Len(taskQueue) :
          taskQueue[i] = t /\ taskQueue' = RemoveIndex(taskQueue, i)
    BY <1>6 DEF Cancel, QueueRemove
  <2>2. /\ Distinct(taskQueue')
        /\ \A x : Occurs(taskQueue', x) <=> x # t /\ Occurs(taskQueue, x)
    BY <2>1, RemoveProps DEF PlaceInv, QueueType
  <2>3. InQueue(t)
    BY <2>1 DEF InQueue, Occurs
  <2> QED
    BY <1>6, <2>2, <2>3 DEF Cancel, Goto, localVars, handleVars, PlaceInv,
       OneHand, TaskInv, Held, Offered, InQueue, ControlType, LocalType,
       HandType, HandleType, Procs
<1>7. ASSUME NEW t \in Tasks, CancelSetResult(t) PROVE PlaceInv'
  BY <1>7 DEF CancelSetResult, poolVars, queueVars, localVars, handleVars,
     SetResult, PlaceInv, OneHand, TaskInv, Held, Offered, InQueue, Goto,
     ControlType, LocalType, HandType, HandleType, Procs
<1>8. ASSUME NEW t \in Tasks, AwaitResult(t) PROVE PlaceInv'
  BY <1>8 DEF AwaitResult, poolVars, queueVars, localVars, handleVars,
     PlaceInv, OneHand, TaskInv, Held, Offered, InQueue, Goto, ControlType,
     LocalType, HandType, HandleType, Procs
<1>9. ASSUME NEW w \in Workers, RunTask(w) PROVE PlaceInv'
  BY <1>9 DEF RunTask, poolVars, queueVars, localVars, handleVars, PlaceInv,
     OneHand, TaskInv, Held, Offered, InQueue, Goto, ControlType, LocalType,
     HandType, HandleType, Procs
<1>10. ASSUME NEW w \in Workers, WorkerSetResult(w) PROVE PlaceInv'
  BY <1>10 DEF WorkerSetResult, poolVars, queueVars, localVars, handleVars,
     SetResult, PlaceInv, OneHand, TaskInv, Held, Offered, InQueue, Goto,
     ControlType, LocalType, HandType, HandleType, Procs
<1>11. ASSUME NEW w \in Workers, PollLoad(w) PROVE PlaceInv'
  BY <1>11 DEF PollLoad, poolVars, queueVars, localVars, handleVars, PlaceInv,
     OneHand, TaskInv, Held, Offered, InQueue, Goto, ControlType, LocalType,
     HandType, HandleType, Procs
<1>12. ASSUME NEW w \in Workers, PollDecide(w) PROVE PlaceInv'
  BY <1>12 DEF PollDecide, poolVars, queueVars, localVars, handleVars,
     PlaceInv, OneHand, TaskInv, Held, Offered, InQueue, Goto, ControlType,
     LocalType, HandType, HandleType, Procs
<1>13. ASSUME NEW w \in Workers, PollExit(w) PROVE PlaceInv'
  BY <1>13 DEF PollExit, poolVars, queueVars, localVars, handleVars, PlaceInv,
     OneHand, TaskInv, Held, Offered, InQueue, Goto, ControlType, LocalType,
     HandType, HandleType, Procs
<1>14. ASSUME NEW w \in Workers, PollExitIdle(w) PROVE PlaceInv'
  BY <1>14 DEF PollExitIdle, poolVars, queueVars, localVars, handleVars,
     PlaceInv, OneHand, TaskInv, Held, Offered, InQueue, Goto, ControlType,
     LocalType, HandType, HandleType, Procs
<1>15. ASSUME NEW w \in Workers, QueuePoll(w) PROVE PlaceInv'
  <2>1. CASE Empty
    BY <1>15, <2>1 DEF QueuePoll, Goto, handleVars, PlaceInv, OneHand, TaskInv,
       Held, Offered, InQueue, ControlType, LocalType, HandType, HandleType,
       Procs
  <2>2. CASE ~Empty
    <3>1. PopTo(w) /\ cur[w] = None /\ UNCHANGED <<job, result, runs>>
      BY <1>15, <2>2 DEF QueuePoll, HandType, handleVars
    <3> QED
      BY <2>2, <3>1, PopPlace DEF TypeOK
  <2> QED
    BY <2>1, <2>2
<1>16. ASSUME NEW w \in Workers, QueueWoken(w) PROVE PlaceInv'
  <2>1. CASE Empty
    BY <1>16, <2>1 DEF QueueWoken, Goto, handleVars, PlaceInv, OneHand, TaskInv,
       Held, Offered, InQueue, ControlType, LocalType, HandType, HandleType,
       Procs
  <2>2. CASE ~Empty
    <3>1. PopTo(w) /\ cur[w] = None /\ UNCHANGED <<job, result, runs>>
      BY <1>16, <2>2 DEF QueueWoken, HandType, handleVars
    <3> QED
      BY <2>2, <3>1, PopPlace DEF TypeOK
  <2> QED
    BY <2>1, <2>2
<1>17. ASSUME NEW w \in Workers, QueueTimeout(w) PROVE PlaceInv'
  BY <1>17 DEF QueueTimeout, poolVars, queueVars, localVars, handleVars,
     PlaceInv, OneHand, TaskInv, Held, Offered, InQueue, Goto, ControlType,
     LocalType, HandType, HandleType, Procs
<1>18. ASSUME NEW w \in Workers, TerminateWorker(w) PROVE PlaceInv'
  BY <1>18 DEF TerminateWorker, poolVars, queueVars, localVars, handleVars,
     PlaceInv, OneHand, TaskInv, Held, Offered, InQueue, Goto, ControlType,
     LocalType, HandType, HandleType, Procs
<1>19. ASSUME NEW w \in Workers, ReplaceWorker(w) PROVE PlaceInv'
  BY <1>19 DEF ReplaceWorker, CallAddWorker, poolVars, queueVars, localVars,
     handleVars, PlaceInv, OneHand, TaskInv, Held, Offered, InQueue, Goto,
     ControlType, LocalType, HandType, HandleType, Procs
<1>20. ASSUME NEW d \in Closers, Shutdown(d) PROVE PlaceInv'
  BY <1>20 DEF Shutdown, poolVars, queueVars, localVars, handleVars, PlaceInv,
     OneHand, TaskInv, Held, Offered, InQueue, Goto, ControlType, LocalType,
     HandType, HandleType, Procs
<1>21. ASSUME NEW d \in Closers, ShutdownClose(d) PROVE PlaceInv'
  BY <1>21 DEF ShutdownClose, Waiting, poolVars, queueVars, localVars,
     handleVars, PlaceInv, OneHand, TaskInv, Held, Offered, InQueue, Goto,
     ControlType, LocalType, HandType, HandleType, Procs
<1>22. ASSUME NEW p \in Tasks \cup Workers, AddWorkerLoad(p) PROVE PlaceInv'
  BY <1>22 DEF AddWorkerLoad, OnAddWorkerError, poolVars, queueVars, localVars,
     handleVars, JobInv, WorkerPCs, TryTerminatePCs, Counted, PlaceInv,
     OneHand, TaskInv, Held, Offered, InQueue, Goto, ControlType, LocalType,
     HandType, HandleType, Procs
<1>23. ASSUME NEW p \in Tasks \cup Workers, NEW w \in Workers, AddWorkerStart(p,
              w)
       PROVE  PlaceInv'
  BY <1>23 DEF AddWorkerStart, OnAddWorkerOk, poolVars, queueVars, localVars,
     handleVars, JobInv, WorkerPCs, TryTerminatePCs, Counted, PlaceInv,
     OneHand, TaskInv, Held, Offered, InQueue, Goto, ControlType, LocalType,
     HandType, HandleType, Procs
<1>24. ASSUME NEW p \in Tasks \cup Workers, AddWorkerRetry(p) PROVE PlaceInv'
  BY <1>24 DEF AddWorkerRetry, poolVars, queueVars, localVars, handleVars,
     JobInv, WorkerPCs, TryTerminatePCs, Counted, PlaceInv, OneHand, TaskInv,
     Held, Offered, InQueue, Goto, ControlType, LocalType, HandType,
     HandleType, Procs
<1>25. ASSUME NEW p \in Procs, TryTerminateLoad(p) PROVE PlaceInv'
  BY <1>25 DEF TryTerminateLoad, Return, AfterTryTerminate, poolVars,
     queueVars, localVars, handleVars, TaskPCs, WorkerPCs, TryTerminatePCs,
     Counted, CloserPCs, PlaceInv, OneHand, TaskInv, Held, Offered, InQueue,
     Goto, ControlType, LocalType, HandType, HandleType, Procs
<1>26. ASSUME NEW p \in Procs, TryTerminateCheck(p) PROVE PlaceInv'
  BY <1>26 DEF TryTerminateCheck, Return, AfterTryTerminate, poolVars,
     queueVars, localVars, handleVars, TaskPCs, WorkerPCs, TryTerminatePCs,
     Counted, CloserPCs, PlaceInv, OneHand, TaskInv, Held, Offered, InQueue,
     Goto, ControlType, LocalType, HandType, HandleType, Procs
<1>27. ASSUME NEW p \in Procs, TryTerminateCommit(p) PROVE PlaceInv'
  BY <1>27 DEF TryTerminateCommit, Return, AfterTryTerminate, poolVars,
     queueVars, localVars, handleVars, TaskPCs, WorkerPCs, TryTerminatePCs,
     Counted, CloserPCs, PlaceInv, OneHand, TaskInv, Held, Offered, InQueue,
     Goto, ControlType, LocalType, HandType, HandleType, Procs
<1>28. CASE UNCHANGED vars
  BY <1>28 DEF PlaceInv, OneHand, TaskInv, Held, Offered, InQueue, vars,
     poolVars, queueVars, localVars, handleVars
<1> QED
  BY <1>1, <1>2, <1>3, <1>4, <1>5, <1>6, <1>7, <1>8, <1>9, <1>10, <1>11, <1>12,
     <1>13, <1>14, <1>15, <1>16, <1>17, <1>18, <1>19, <1>20, <1>21, <1>22,
     <1>23, <1>24, <1>25, <1>26, <1>27, <1>28 DEF Next, SubmitStep, CancelStep,
     TaskRun, PollTask, WorkerExit, WorkerStep, ShutdownStep, AddWorker,
     TryTerminate, Done, Procs, vars, poolVars, queueVars, localVars,
     handleVars

-----------------------------------------------------------------------------
(* Termination *)

\* What tryTerminate has seen stays true: once shut down, the worker count only
\* falls, so a stale count of zero is still zero when the mutex is acquired.
StaleInv ==
  \A p \in Procs : pc[p] \in {"checkEmpty", "terminate"} =>
    IsShutdown(state) /\ state.count <= seen[p].count

\* From the moment a tryTerminate has passed its checks, no worker exists and the
\* queue holds only tasks whose Submit will withdraw them.
SettledInv ==
  IsTerminated(state) \/ (\E p \in Procs : pc[p] = "terminate") =>
    /\ state.count = 0
    /\ \A t \in Tasks : InQueue(t) => pc[t] \in {"pushed", "remove"}

\* A signal is sent to a channel that waits for one, when terminated.
SentInv ==
  \A d \in Closers :
    /\ pc[d] = "idle" => d \notin terminations /\ sent[d] = 0
    /\ d \in terminations => sent[d] = 0
    /\ sent[d] <= 1
    /\ sent[d] > 0 => IsTerminated(state)

\* Every step keeps what tryTerminate has seen.
LEMMA StaleStep == TypeOK /\ JobInv /\ StaleInv /\ [Next]_vars => StaleInv'
<1> SUFFICES ASSUME TypeOK, JobInv, StaleInv, [Next]_vars PROVE StaleInv'
  OBVIOUS
<1> USE ProcsAssumption DEF TypeOK
<1>1. ASSUME NEW t \in Tasks, Submit(t) PROVE StaleInv'
  BY <1>1 DEF Submit, CallAddWorker, poolVars, localVars, IsShutdown,
     IsRunning, PoolType, StateWord, RUNNING, SHUTDOWN, TERMINATED, StaleInv,
     Goto, Load, Forget, ControlType, LocalType, Procs
<1>2. ASSUME NEW t \in Tasks, SubmitReload(t) PROVE StaleInv'
  BY <1>2 DEF SubmitReload, CallAddWorker, poolVars, localVars, IsShutdown,
     IsRunning, PoolType, StateWord, RUNNING, SHUTDOWN, TERMINATED, StaleInv,
     Goto, Load, Forget, ControlType, LocalType, Procs
<1>3. ASSUME NEW t \in Tasks, AddTaskPush(t) PROVE StaleInv'
  BY <1>3 DEF AddTaskPush, SignalAnd, Waiting, poolVars, localVars, IsShutdown,
     IsRunning, PoolType, StateWord, RUNNING, SHUTDOWN, TERMINATED, StaleInv,
     Goto, Load, Forget, ControlType, LocalType, Procs
<1>4. ASSUME NEW t \in Tasks, AddTaskLoad(t) PROVE StaleInv'
  BY <1>4 DEF AddTaskLoad, CallAddWorker, poolVars, localVars, IsShutdown,
     IsRunning, PoolType, StateWord, RUNNING, SHUTDOWN, TERMINATED, StaleInv,
     Goto, Load, Forget, ControlType, LocalType, Procs
<1>5. ASSUME NEW t \in Tasks, AddTaskRemove(t) PROVE StaleInv'
  BY <1>5 DEF AddTaskRemove, poolVars, localVars, IsShutdown, IsRunning,
     PoolType, StateWord, RUNNING, SHUTDOWN, TERMINATED, StaleInv, Goto, Load,
     Forget, ControlType, LocalType, Procs
<1>6. ASSUME NEW t \in Tasks, Cancel(t) PROVE StaleInv'
  BY <1>6 DEF Cancel, poolVars, localVars, IsShutdown, IsRunning, PoolType,
     StateWord, RUNNING, SHUTDOWN, TERMINATED, StaleInv, Goto, Load, Forget,
     ControlType, LocalType, Procs
<1>7. ASSUME NEW t \in Tasks, CancelSetResult(t) PROVE StaleInv'
  BY <1>7 DEF CancelSetResult, poolVars, localVars, IsShutdown, IsRunning,
     PoolType, StateWord, RUNNING, SHUTDOWN, TERMINATED, StaleInv, Goto, Load,
     Forget, ControlType, LocalType, Procs
<1>8. ASSUME NEW t \in Tasks, AwaitResult(t) PROVE StaleInv'
  BY <1>8 DEF AwaitResult, poolVars, localVars, IsShutdown, IsRunning,
     PoolType, StateWord, RUNNING, SHUTDOWN, TERMINATED, StaleInv, Goto, Load,
     Forget, ControlType, LocalType, Procs
<1>9. ASSUME NEW w \in Workers, RunTask(w) PROVE StaleInv'
  BY <1>9 DEF RunTask, poolVars, localVars, IsShutdown, IsRunning, PoolType,
     StateWord, RUNNING, SHUTDOWN, TERMINATED, StaleInv, Goto, Load, Forget,
     ControlType, LocalType, Procs
<1>10. ASSUME NEW w \in Workers, WorkerSetResult(w) PROVE StaleInv'
  BY <1>10 DEF WorkerSetResult, poolVars, localVars, IsShutdown, IsRunning,
     PoolType, StateWord, RUNNING, SHUTDOWN, TERMINATED, StaleInv, Goto, Load,
     Forget, ControlType, LocalType, Procs
<1>11. ASSUME NEW w \in Workers, PollLoad(w) PROVE StaleInv'
  BY <1>11 DEF PollLoad, poolVars, localVars, IsShutdown, IsRunning, PoolType,
     StateWord, RUNNING, SHUTDOWN, TERMINATED, StaleInv, Goto, Load, Forget,
     ControlType, LocalType, Procs
<1>12. ASSUME NEW w \in Workers, PollDecide(w) PROVE StaleInv'
  BY <1>12 DEF PollDecide, poolVars, localVars, IsShutdown, IsRunning,
     PoolType, StateWord, RUNNING, SHUTDOWN, TERMINATED, StaleInv, Goto, Load,
     Forget, ControlType, LocalType, Procs
<1>13. ASSUME NEW w \in Workers, PollExit(w) PROVE StaleInv'
  BY <1>13 DEF PollExit, poolVars, localVars, IsShutdown, IsRunning, PoolType,
     StateWord, RUNNING, SHUTDOWN, TERMINATED, StaleInv, Goto, Load, Forget,
     ControlType, LocalType, Procs
<1>14. ASSUME NEW w \in Workers, PollExitIdle(w) PROVE StaleInv'
  BY <1>14 DEF PollExitIdle, poolVars, localVars, IsShutdown, IsRunning,
     PoolType, StateWord, RUNNING, SHUTDOWN, TERMINATED, StaleInv, Goto, Load,
     Forget, ControlType, LocalType, Procs
<1>15. ASSUME NEW w \in Workers, QueuePoll(w) PROVE StaleInv'
  BY <1>15 DEF QueuePoll, PopTo, poolVars, localVars, IsShutdown, IsRunning,
     PoolType, StateWord, RUNNING, SHUTDOWN, TERMINATED, StaleInv, Goto, Load,
     Forget, ControlType, LocalType, Procs
<1>16. ASSUME NEW w \in Workers, QueueWoken(w) PROVE StaleInv'
  BY <1>16 DEF QueueWoken, PopTo, poolVars, localVars, IsShutdown, IsRunning,
     PoolType, StateWord, RUNNING, SHUTDOWN, TERMINATED, StaleInv, Goto, Load,
     Forget, ControlType, LocalType, Procs
<1>17. ASSUME NEW w \in Workers, QueueTimeout(w) PROVE StaleInv'
  BY <1>17 DEF QueueTimeout, poolVars, localVars, IsShutdown, IsRunning,
     PoolType, StateWord, RUNNING, SHUTDOWN, TERMINATED, StaleInv, Goto, Load,
     Forget, ControlType, LocalType, Procs
<1>18. ASSUME NEW w \in Workers, TerminateWorker(w) PROVE StaleInv'
  BY <1>18 DEF TerminateWorker, poolVars, localVars, IsShutdown, IsRunning,
     PoolType, StateWord, RUNNING, SHUTDOWN, TERMINATED, StaleInv, Goto, Load,
     Forget, ControlType, LocalType, Procs
<1>19. ASSUME NEW w \in Workers, ReplaceWorker(w) PROVE StaleInv'
  BY <1>19 DEF ReplaceWorker, CallAddWorker, poolVars, localVars, IsShutdown,
     IsRunning, PoolType, StateWord, RUNNING, SHUTDOWN, TERMINATED, StaleInv,
     Goto, Load, Forget, ControlType, LocalType, Procs
<1>20. ASSUME NEW d \in Closers, Shutdown(d) PROVE StaleInv'
  BY <1>20 DEF Shutdown, poolVars, localVars, IsShutdown, IsRunning, PoolType,
     StateWord, RUNNING, SHUTDOWN, TERMINATED, SetRunState, IsTerminated,
     StaleInv, Goto, Load, Forget, ControlType, LocalType, Procs
<1>21. ASSUME NEW d \in Closers, ShutdownClose(d) PROVE StaleInv'
  BY <1>21 DEF ShutdownClose, Waiting, poolVars, localVars, IsShutdown,
     IsRunning, PoolType, StateWord, RUNNING, SHUTDOWN, TERMINATED, StaleInv,
     Goto, Load, Forget, ControlType, LocalType, Procs
<1>22. ASSUME NEW p \in Tasks \cup Workers, AddWorkerLoad(p) PROVE StaleInv'
  BY <1>22 DEF AddWorkerLoad, OnAddWorkerError, poolVars, localVars,
     IsShutdown, IsRunning, PoolType, StateWord, RUNNING, SHUTDOWN, TERMINATED,
     JobInv, StaleInv, Goto, Load, Forget, ControlType, LocalType, Procs
<1>23. ASSUME NEW p \in Tasks \cup Workers, NEW w \in Workers, AddWorkerStart(p,
              w)
       PROVE  StaleInv'
  BY <1>23 DEF AddWorkerStart, OnAddWorkerOk, poolVars, localVars, IsShutdown,
     IsRunning, PoolType, StateWord, RUNNING, SHUTDOWN, TERMINATED, JobInv,
     StaleInv, Goto, Load, Forget, ControlType, LocalType, Procs
<1>24. ASSUME NEW p \in Tasks \cup Workers, AddWorkerRetry(p) PROVE StaleInv'
  BY <1>24 DEF AddWorkerRetry, poolVars, localVars, IsShutdown, IsRunning,
     PoolType, StateWord, RUNNING, SHUTDOWN, TERMINATED, JobInv, StaleInv,
     Goto, Load, Forget, ControlType, LocalType, Procs
<1>25. ASSUME NEW p \in Procs, TryTerminateLoad(p) PROVE StaleInv'
  BY <1>25 DEF TryTerminateLoad, Return, AfterTryTerminate, poolVars,
     localVars, IsShutdown, IsRunning, PoolType, StateWord, RUNNING, SHUTDOWN,
     TERMINATED, SetRunState, IsTerminated, StaleInv, Goto, Load, Forget,
     ControlType, LocalType, Procs
<1>26. ASSUME NEW p \in Procs, TryTerminateCheck(p) PROVE StaleInv'
  BY <1>26 DEF TryTerminateCheck, Return, AfterTryTerminate, poolVars,
     localVars, IsShutdown, IsRunning, PoolType, StateWord, RUNNING, SHUTDOWN,
     TERMINATED, StaleInv, Goto, Load, Forget, ControlType, LocalType, Procs
<1>27. ASSUME NEW p \in Procs, TryTerminateCommit(p) PROVE StaleInv'
  BY <1>27 DEF TryTerminateCommit, Return, AfterTryTerminate, poolVars,
     localVars, IsShutdown, IsRunning, PoolType, StateWord, RUNNING, SHUTDOWN,
     TERMINATED, SetRunState, IsTerminated, StaleInv, Goto, Load, Forget,
     ControlType, LocalType, Procs
<1>28. CASE UNCHANGED vars
  BY <1>28 DEF StaleInv, vars, poolVars, localVars, IsShutdown
<1> QED
  BY <1>1, <1>2, <1>3, <1>4, <1>5, <1>6, <1>7, <1>8, <1>9, <1>10, <1>11, <1>12,
     <1>13, <1>14, <1>15, <1>16, <1>17, <1>18, <1>19, <1>20, <1>21, <1>22,
     <1>23, <1>24, <1>25, <1>26, <1>27, <1>28 DEF Next, SubmitStep, CancelStep,
     TaskRun, PollTask, WorkerExit, WorkerStep, ShutdownStep, AddWorker,
     TryTerminate, Done, Procs, vars, poolVars, queueVars, localVars,
     handleVars

\* Every step keeps the executor settled.
LEMMA SettledStep ==
  TypeOK /\ JobInv /\ WorkerCountExact /\ PlaceInv /\ StaleInv /\ SettledInv
  /\ [Next]_vars => SettledInv'
<1> SUFFICES ASSUME TypeOK, JobInv, WorkerCountExact, PlaceInv, StaleInv,
                    SettledInv, [Next]_vars
             PROVE  SettledInv'
  OBVIOUS
<1> USE ProcsAssumption DEF TypeOK
<1>1. ASSUME NEW t \in Tasks, Submit(t) PROVE SettledInv'
  BY <1>1 DEF Submit, CallAddWorker, poolVars, localVars, IsShutdown,
     IsTerminated, RUNNING, SHUTDOWN, TERMINATED, SettledInv, StaleInv, Goto,
     ControlType, Procs, InQueue, queueVars
<1>2. ASSUME NEW t \in Tasks, SubmitReload(t) PROVE SettledInv'
  BY <1>2 DEF SubmitReload, CallAddWorker, poolVars, localVars, IsShutdown,
     IsTerminated, RUNNING, SHUTDOWN, TERMINATED, SettledInv, StaleInv, Goto,
     ControlType, Procs, InQueue, queueVars
<1>3. ASSUME NEW t \in Tasks, AddTaskPush(t) PROVE SettledInv'
  <2>1. CASE closed \/ Len(taskQueue) >= QueueCapacity
    <3>1. ~InQueue(t)
      BY <1>3 DEF AddTaskPush, PlaceInv, TaskInv, Offered
    <3> QED
      BY <1>3, <2>1, <3>1 DEF AddTaskPush, Goto, poolVars, SettledInv, InQueue,
         IsTerminated, ControlType, Procs
  <2>2. CASE ~(closed \/ Len(taskQueue) >= QueueCapacity)
    <3>1. taskQueue' = Append(taskQueue, t)
      BY <1>3, <2>2 DEF AddTaskPush
    <3>2. \A x \in Tasks : InQueue(x)' => x = t \/ InQueue(x)
      BY <3>1, PushProps DEF InQueue, QueueType
    <3>3. \A x \in Tasks : pc'[x] = IF x = t THEN "pushed" ELSE pc[x]
      BY <1>3, <2>2 DEF AddTaskPush, Goto, SignalAnd, Waiting, ControlType,
         Procs
    <3>4. \A p \in Procs : pc'[p] = "terminate" => pc[p] = "terminate"
      BY <1>3, <2>2 DEF AddTaskPush, Goto, SignalAnd, Waiting, ControlType,
         Procs
    <3> QED
      BY <1>3, <3>2, <3>3, <3>4 DEF AddTaskPush, poolVars, SettledInv,
         IsTerminated
  <2> QED
    BY <2>1, <2>2
<1>4. ASSUME NEW t \in Tasks, AddTaskLoad(t) PROVE SettledInv'
  BY <1>4 DEF AddTaskLoad, CallAddWorker, poolVars, localVars, IsShutdown,
     IsTerminated, RUNNING, SHUTDOWN, TERMINATED, IsRunning, AddWorkerCheck,
     SettledInv, StaleInv, Goto, ControlType, Procs, InQueue, queueVars
<1>5. ASSUME NEW t \in Tasks, AddTaskRemove(t) PROVE SettledInv'
  <2>1. \A x \in Tasks : InQueue(x)' => InQueue(x) /\ (pc[t] = "remove" => x # t)
    BY <1>5, RemoveProps DEF AddTaskRemove, QueueRemove, InQueue, QueueType,
       PlaceInv
  <2>2. InQueue(t) \/ pc[t] = "remove"
    BY <1>5 DEF AddTaskRemove, QueueRemove, InQueue, Occurs
  <2> QED
    BY <1>5, <2>1, <2>2 DEF AddTaskRemove, Goto, poolVars, SettledInv,
       IsTerminated, ControlType, Procs
<1>6. ASSUME NEW t \in Tasks, Cancel(t) PROVE SettledInv'
  <2>1. \A x \in Tasks : InQueue(x)' => InQueue(x) /\ (pc[t] = "remove" => x # t)
    BY <1>6, RemoveProps DEF Cancel, QueueRemove, InQueue, QueueType, PlaceInv
  <2>2. InQueue(t) \/ pc[t] = "remove"
    BY <1>6 DEF Cancel, QueueRemove, InQueue, Occurs
  <2> QED
    BY <1>6, <2>1, <2>2 DEF Cancel, Goto, poolVars, SettledInv, IsTerminated,
       ControlType, Procs
<1>7. ASSUME NEW t \in Tasks, CancelSetResult(t) PROVE SettledInv'
  BY <1>7 DEF CancelSetResult, poolVars, localVars, IsShutdown, IsTerminated,
     RUNNING, SHUTDOWN, TERMINATED, SettledInv, StaleInv, Goto, ControlType,
     Procs, InQueue, queueVars
<1>8. ASSUME NEW t \in Tasks, AwaitResult(t) PROVE SettledInv'
  BY <1>8 DEF AwaitResult, poolVars, localVars, IsShutdown, IsTerminated,
     RUNNING, SHUTDOWN, TERMINATED, SettledInv, StaleInv, Goto, ControlType,
     Procs, InQueue, queueVars
<1>9. ASSUME NEW w \in Workers, RunTask(w) PROVE SettledInv'
  BY <1>9 DEF RunTask, poolVars, localVars, IsShutdown, IsTerminated, RUNNING,
     SHUTDOWN, TERMINATED, SettledInv, StaleInv, Goto, ControlType, Procs,
     InQueue, queueVars
<1>10. ASSUME NEW w \in Workers, WorkerSetResult(w) PROVE SettledInv'
  BY <1>10 DEF WorkerSetResult, poolVars, localVars, IsShutdown, IsTerminated,
     RUNNING, SHUTDOWN, TERMINATED, SettledInv, StaleInv, Goto, ControlType,
     Procs, InQueue, queueVars
<1>11. ASSUME NEW w \in Workers, PollLoad(w) PROVE SettledInv'
  BY <1>11 DEF PollLoad, poolVars, localVars, IsShutdown, IsTerminated,
     RUNNING, SHUTDOWN, TERMINATED, SettledInv, StaleInv, Goto, ControlType,
     Procs, InQueue, queueVars
<1>12. ASSUME NEW w \in Workers, PollDecide(w) PROVE SettledInv'
  BY <1>12 DEF PollDecide, poolVars, localVars, IsShutdown, IsTerminated,
     RUNNING, SHUTDOWN, TERMINATED, SettledInv, StaleInv, Goto, ControlType,
     Procs, InQueue, queueVars
<1>13. ASSUME NEW w \in Workers, PollExit(w) PROVE SettledInv'
  <2>1. state.count \in Nat /\ state.count > 0
    BY <1>13, LiveCounted DEF PollExit, Counted
  <2>2. ~IsTerminated(state) /\ \A p \in Procs : pc[p] # "terminate"
    BY <2>1 DEF SettledInv
  <2>3. state'.run = state.run /\ \A p \in Procs : pc'[p] # "terminate"
    BY <1>13, <2>2 DEF PollExit, Goto, poolVars, PoolType, StateWord,
       ControlType
  <2> QED
    BY <2>2, <2>3 DEF SettledInv, IsTerminated
<1>14. ASSUME NEW w \in Workers, PollExitIdle(w) PROVE SettledInv'
  <2>1. state.count \in Nat /\ state.count > 0
    BY <1>14, LiveCounted DEF PollExitIdle, Counted
  <2>2. ~IsTerminated(state) /\ \A p \in Procs : pc[p] # "terminate"
    BY <2>1 DEF SettledInv
  <2>3. state'.run = state.run /\ \A p \in Procs : pc'[p] # "terminate"
    BY <1>14, <2>2 DEF PollExitIdle, Goto, poolVars, PoolType, StateWord,
       ControlType
  <2> QED
    BY <2>2, <2>3 DEF SettledInv, IsTerminated
<1>15. ASSUME NEW w \in Workers, QueuePoll(w) PROVE SettledInv'
  <2>1. state.count \in Nat /\ state.count > 0
    BY <1>15, LiveCounted DEF QueuePoll, Counted
  <2>2. ~IsTerminated(state) /\ \A p \in Procs : pc[p] # "terminate"
    BY <2>1 DEF SettledInv
  <2>3. state'.run = state.run /\ \A p \in Procs : pc'[p] # "terminate"
    BY <1>15, <2>2 DEF QueuePoll, PopTo, Goto, poolVars, PoolType, StateWord,
       ControlType
  <2> QED
    BY <2>2, <2>3 DEF SettledInv, IsTerminated
<1>16. ASSUME NEW w \in Workers, QueueWoken(w) PROVE SettledInv'
  <2>1. state.count \in Nat /\ state.count > 0
    BY <1>16, LiveCounted DEF QueueWoken, Counted
  <2>2. ~IsTerminated(state) /\ \A p \in Procs : pc[p] # "terminate"
    BY <2>1 DEF SettledInv
  <2>3. state'.run = state.run /\ \A p \in Procs : pc'[p] # "terminate"
    BY <1>16, <2>2 DEF QueueWoken, PopTo, Goto, poolVars, PoolType, StateWord,
       ControlType
  <2> QED
    BY <2>2, <2>3 DEF SettledInv, IsTerminated
<1>17. ASSUME NEW w \in Workers, QueueTimeout(w) PROVE SettledInv'
  BY <1>17 DEF QueueTimeout, poolVars, localVars, IsShutdown, IsTerminated,
     RUNNING, SHUTDOWN, TERMINATED, SettledInv, StaleInv, Goto, ControlType,
     Procs, InQueue, queueVars
<1>18. ASSUME NEW w \in Workers, TerminateWorker(w) PROVE SettledInv'
  BY <1>18 DEF TerminateWorker, poolVars, localVars, IsShutdown, IsTerminated,
     RUNNING, SHUTDOWN, TERMINATED, SettledInv, StaleInv, Goto, ControlType,
     Procs, InQueue, queueVars
<1>19. ASSUME NEW w \in Workers, ReplaceWorker(w) PROVE SettledInv'
  BY <1>19 DEF ReplaceWorker, CallAddWorker, poolVars, localVars, IsShutdown,
     IsTerminated, RUNNING, SHUTDOWN, TERMINATED, SettledInv, StaleInv, Goto,
     ControlType, Procs, InQueue, queueVars
<1>20. ASSUME NEW d \in Closers, Shutdown(d) PROVE SettledInv'
  BY <1>20 DEF Shutdown, poolVars, localVars, IsShutdown, IsTerminated,
     RUNNING, SHUTDOWN, TERMINATED, SetRunState, PoolType, StateWord,
     SettledInv, StaleInv, Goto, ControlType, Procs, InQueue, queueVars
<1>21. ASSUME NEW d \in Closers, ShutdownClose(d) PROVE SettledInv'
  BY <1>21 DEF ShutdownClose, Waiting, poolVars, localVars, IsShutdown,
     IsTerminated, RUNNING, SHUTDOWN, TERMINATED, SettledInv, StaleInv, Goto,
     ControlType, Procs, InQueue, queueVars
<1>22. ASSUME NEW p \in Tasks \cup Workers, AddWorkerLoad(p) PROVE SettledInv'
  BY <1>22 DEF AddWorkerLoad, OnAddWorkerError, poolVars, localVars,
     IsShutdown, IsTerminated, RUNNING, SHUTDOWN, TERMINATED, IsRunning,
     AddWorkerCheck, JobInv, SettledInv, StaleInv, Goto, ControlType, Procs,
     InQueue, queueVars
<1>23. ASSUME NEW p \in Tasks \cup Workers, NEW w \in Workers, AddWorkerStart(p,
              w)
       PROVE  SettledInv'
  BY <1>23 DEF AddWorkerStart, OnAddWorkerOk, poolVars, localVars, IsShutdown,
     IsTerminated, RUNNING, SHUTDOWN, TERMINATED, IsRunning, AddWorkerCheck,
     JobInv, SettledInv, StaleInv, Goto, ControlType, Procs, InQueue, queueVars
<1>24. ASSUME NEW p \in Tasks \cup Workers, AddWorkerRetry(p) PROVE SettledInv'
  BY <1>24 DEF AddWorkerRetry, poolVars, localVars, IsShutdown, IsTerminated,
     RUNNING, SHUTDOWN, TERMINATED, JobInv, SettledInv, StaleInv, Goto,
     ControlType, Procs, InQueue, queueVars
<1>25. ASSUME NEW p \in Procs, TryTerminateLoad(p) PROVE SettledInv'
  BY <1>25 DEF TryTerminateLoad, Return, AfterTryTerminate, poolVars,
     localVars, IsShutdown, IsTerminated, RUNNING, SHUTDOWN, TERMINATED,
     SettledInv, StaleInv, Goto, ControlType, Procs, InQueue, queueVars
<1>26. ASSUME NEW p \in Procs, TryTerminateCheck(p) PROVE SettledInv'
  <2>1. CASE pc'[p] = "terminate"
    <3>1. Empty /\ seen[p].count = 0
      BY <1>26, <2>1 DEF TryTerminateCheck, Return, AfterTryTerminate, Goto,
         ControlType, Procs
    <3>2. state.count = 0
      BY <1>26, <3>1 DEF TryTerminateCheck, StaleInv, PoolType, StateWord
    <3>3. \A x \in Tasks : ~InQueue(x)
      BY <3>1 DEF Empty, InQueue, Occurs
    <3> QED
      BY <1>26, <3>2, <3>3 DEF TryTerminateCheck, SettledInv, InQueue, poolVars,
         queueVars
  <2>2. CASE pc'[p] # "terminate"
    BY <1>26, <2>2 DEF TryTerminateCheck, Return, AfterTryTerminate, Goto,
       SettledInv, poolVars, queueVars, InQueue, IsTerminated, ControlType,
       Procs
  <2> QED
    BY <2>1, <2>2
<1>27. ASSUME NEW p \in Procs, TryTerminateCommit(p) PROVE SettledInv'
  BY <1>27 DEF TryTerminateCommit, Return, AfterTryTerminate, poolVars,
     localVars, IsShutdown, IsTerminated, RUNNING, SHUTDOWN, TERMINATED,
     SetRunState, PoolType, StateWord, SettledInv, StaleInv, Goto, ControlType,
     Procs, InQueue, queueVars
<1>28. CASE UNCHANGED vars
  BY <1>28 DEF SettledInv, vars, poolVars, queueVars, InQueue, IsTerminated
<1> QED
  BY <1>1, <1>2, <1>3, <1>4, <1>5, <1>6, <1>7, <1>8, <1>9, <1>10, <1>11, <1>12,
     <1>13, <1>14, <1>15, <1>16, <1>17, <1>18, <1>19, <1>20, <1>21, <1>22,
     <1>23, <1>24, <1>25, <1>26, <1>27, <1>28 DEF Next, SubmitStep, CancelStep,
     TaskRun, PollTask, WorkerExit, WorkerStep, ShutdownStep, AddWorker,
     TryTerminate, Done, Procs, vars, poolVars, queueVars, localVars,
     handleVars

\* Every step keeps the channels right.
LEMMA SentStep == TypeOK /\ SentInv /\ [Next]_vars => SentInv'
<1> SUFFICES ASSUME TypeOK, SentInv, [Next]_vars PROVE SentInv'
  OBVIOUS
<1> USE ProcsAssumption DEF TypeOK
<1>1. ASSUME NEW t \in Tasks, Submit(t) PROVE SentInv'
  BY <1>1 DEF Submit, CallAddWorker, poolVars, IsTerminated, ControlType,
     CloserPCs, TryTerminatePCs, SentInv, PoolType, Goto, Procs
<1>2. ASSUME NEW t \in Tasks, SubmitReload(t) PROVE SentInv'
  BY <1>2 DEF SubmitReload, CallAddWorker, poolVars, IsTerminated, ControlType,
     CloserPCs, TryTerminatePCs, SentInv, PoolType, Goto, Procs
<1>3. ASSUME NEW t \in Tasks, AddTaskPush(t) PROVE SentInv'
  BY <1>3 DEF AddTaskPush, SignalAnd, Waiting, poolVars, IsTerminated,
     ControlType, CloserPCs, TryTerminatePCs, SentInv, PoolType, Goto, Procs
<1>4. ASSUME NEW t \in Tasks, AddTaskLoad(t) PROVE SentInv'
  BY <1>4 DEF AddTaskLoad, CallAddWorker, poolVars, IsTerminated, ControlType,
     CloserPCs, TryTerminatePCs, SentInv, PoolType, Goto, Procs
<1>5. ASSUME NEW t \in Tasks, AddTaskRemove(t) PROVE SentInv'
  BY <1>5 DEF AddTaskRemove, poolVars, IsTerminated, ControlType, CloserPCs,
     TryTerminatePCs, SentInv, PoolType, Goto, Procs
<1>6. ASSUME NEW t \in Tasks, Cancel(t) PROVE SentInv'
  BY <1>6 DEF Cancel, poolVars, IsTerminated, ControlType, CloserPCs,
     TryTerminatePCs, SentInv, PoolType, Goto, Procs
<1>7. ASSUME NEW t \in Tasks, CancelSetResult(t) PROVE SentInv'
  BY <1>7 DEF CancelSetResult, poolVars, IsTerminated, ControlType, CloserPCs,
     TryTerminatePCs, SentInv, PoolType, Goto, Procs
<1>8. ASSUME NEW t \in Tasks, AwaitResult(t) PROVE SentInv'
  BY <1>8 DEF AwaitResult, poolVars, IsTerminated, ControlType, CloserPCs,
     TryTerminatePCs, SentInv, PoolType, Goto, Procs
<1>9. ASSUME NEW w \in Workers, RunTask(w) PROVE SentInv'
  BY <1>9 DEF RunTask, poolVars, IsTerminated, ControlType, CloserPCs,
     TryTerminatePCs, SentInv, PoolType, Goto, Procs
<1>10. ASSUME NEW w \in Workers, WorkerSetResult(w) PROVE SentInv'
  BY <1>10 DEF WorkerSetResult, poolVars, IsTerminated, ControlType, CloserPCs,
     TryTerminatePCs, SentInv, PoolType, Goto, Procs
<1>11. ASSUME NEW w \in Workers, PollLoad(w) PROVE SentInv'
  BY <1>11 DEF PollLoad, poolVars, IsTerminated, ControlType, CloserPCs,
     TryTerminatePCs, SentInv, PoolType, Goto, Procs
<1>12. ASSUME NEW w \in Workers, PollDecide(w) PROVE SentInv'
  BY <1>12 DEF PollDecide, poolVars, IsTerminated, ControlType, CloserPCs,
     TryTerminatePCs, SentInv, PoolType, Goto, Procs
<1>13. ASSUME NEW w \in Workers, PollExit(w) PROVE SentInv'
  BY <1>13 DEF PollExit, poolVars, IsTerminated, StateWord, ControlType,
     CloserPCs, TryTerminatePCs, SentInv, PoolType, Goto, Procs
<1>14. ASSUME NEW w \in Workers, PollExitIdle(w) PROVE SentInv'
  BY <1>14 DEF PollExitIdle, poolVars, IsTerminated, StateWord, ControlType,
     CloserPCs, TryTerminatePCs, SentInv, PoolType, Goto, Procs
<1>15. ASSUME NEW w \in Workers, QueuePoll(w) PROVE SentInv'
  BY <1>15 DEF QueuePoll, PopTo, poolVars, IsTerminated, ControlType,
     CloserPCs, TryTerminatePCs, SentInv, PoolType, Goto, Procs
<1>16. ASSUME NEW w \in Workers, QueueWoken(w) PROVE SentInv'
  BY <1>16 DEF QueueWoken, PopTo, poolVars, IsTerminated, ControlType,
     CloserPCs, TryTerminatePCs, SentInv, PoolType, Goto, Procs
<1>17. ASSUME NEW w \in Workers, QueueTimeout(w) PROVE SentInv'
  BY <1>17 DEF QueueTimeout, poolVars, IsTerminated, ControlType, CloserPCs,
     TryTerminatePCs, SentInv, PoolType, Goto, Procs
<1>18. ASSUME NEW w \in Workers, TerminateWorker(w) PROVE SentInv'
  BY <1>18 DEF TerminateWorker, poolVars, IsTerminated, ControlType, CloserPCs,
     TryTerminatePCs, SentInv, PoolType, Goto, Procs
<1>19. ASSUME NEW w \in Workers, ReplaceWorker(w) PROVE SentInv'
  BY <1>19 DEF ReplaceWorker, CallAddWorker, poolVars, IsTerminated,
     ControlType, CloserPCs, TryTerminatePCs, SentInv, PoolType, Goto, Procs
<1>20. ASSUME NEW d \in Closers, Shutdown(d) PROVE SentInv'
  BY <1>20 DEF Shutdown, poolVars, IsTerminated, SetRunState, StateWord,
     RUNNING, SHUTDOWN, TERMINATED, ControlType, CloserPCs, TryTerminatePCs,
     SentInv, PoolType, Goto, Procs
<1>21. ASSUME NEW d \in Closers, ShutdownClose(d) PROVE SentInv'
  BY <1>21 DEF ShutdownClose, Waiting, poolVars, IsTerminated, ControlType,
     CloserPCs, TryTerminatePCs, SentInv, PoolType, Goto, Procs
<1>22. ASSUME NEW p \in Tasks \cup Workers, AddWorkerLoad(p) PROVE SentInv'
  BY <1>22 DEF AddWorkerLoad, OnAddWorkerError, poolVars, IsTerminated,
     ControlType, CloserPCs, TryTerminatePCs, SentInv, PoolType, Goto, Procs
<1>23. ASSUME NEW p \in Tasks \cup Workers, NEW w \in Workers, AddWorkerStart(p,
              w)
       PROVE  SentInv'
  BY <1>23 DEF AddWorkerStart, OnAddWorkerOk, poolVars, IsTerminated,
     ControlType, CloserPCs, TryTerminatePCs, SentInv, PoolType, Goto, Procs
<1>24. ASSUME NEW p \in Tasks \cup Workers, AddWorkerRetry(p) PROVE SentInv'
  BY <1>24 DEF AddWorkerRetry, poolVars, IsTerminated, ControlType, CloserPCs,
     TryTerminatePCs, SentInv, PoolType, Goto, Procs
<1>25. ASSUME NEW p \in Procs, TryTerminateLoad(p) PROVE SentInv'
  BY <1>25 DEF TryTerminateLoad, Return, AfterTryTerminate, poolVars,
     IsTerminated, ControlType, CloserPCs, TryTerminatePCs, SentInv, PoolType,
     Goto, Procs
<1>26. ASSUME NEW p \in Procs, TryTerminateCheck(p) PROVE SentInv'
  BY <1>26 DEF TryTerminateCheck, Return, AfterTryTerminate, poolVars,
     IsTerminated, ControlType, CloserPCs, TryTerminatePCs, SentInv, PoolType,
     Goto, Procs
<1>27. ASSUME NEW p \in Procs, TryTerminateCommit(p) PROVE SentInv'
  BY <1>27 DEF TryTerminateCommit, Return, AfterTryTerminate, poolVars,
     IsTerminated, SetRunState, StateWord, RUNNING, SHUTDOWN, TERMINATED,
     ControlType, CloserPCs, TryTerminatePCs, SentInv, PoolType, Goto, Procs
<1>28. CASE UNCHANGED vars
  BY <1>28 DEF SentInv, vars, poolVars, IsTerminated
<1> QED
  BY <1>1, <1>2, <1>3, <1>4, <1>5, <1>6, <1>7, <1>8, <1>9, <1>10, <1>11, <1>12,
     <1>13, <1>14, <1>15, <1>16, <1>17, <1>18, <1>19, <1>20, <1>21, <1>22,
     <1>23, <1>24, <1>25, <1>26, <1>27, <1>28 DEF Next, SubmitStep, CancelStep,
     TaskRun, PollTask, WorkerExit, WorkerStep, ShutdownStep, AddWorker,
     TryTerminate, Done, Procs, vars, poolVars, queueVars, localVars,
     handleVars

-----------------------------------------------------------------------------
(* The inductive invariant and the theorems *)

IInv == CountInv /\ PlaceInv /\ StaleInv /\ SettledInv /\ SentInv

\* The initial state satisfies the inductive invariant.
LEMMA IInvInit == Init => IInv
<1> SUFFICES ASSUME Init PROVE IInv
  OBVIOUS
<1> USE ProcsAssumption
<1>1. CountInv
  BY CountInit
<1>2. PlaceInv
  <2>1. Distinct(taskQueue) /\ \A t \in Tasks : ~InQueue(t)
    BY DEF Init, Distinct, InQueue, Occurs
  <2>2. \A w \in Workers : cur[w] = None
    BY DEF Init
  <2>3. \A t \in Tasks : pc[t] = "idle" /\ result[t] = None /\ runs[t] = 0
    BY DEF Init, Procs
  <2> QED
    BY <2>1, <2>2, <2>3 DEF PlaceInv, OneHand, TaskInv, Offered, Held, Procs
<1>3. \A p \in Procs : pc[p] \in {"idle", "none"}
  BY DEF Init
<1>4. StaleInv /\ SettledInv
  BY <1>3 DEF Init, StaleInv, SettledInv, IsTerminated, RUNNING, TERMINATED
<1>5. SentInv
  BY DEF Init, SentInv
<1> QED
  BY <1>1, <1>2, <1>4, <1>5 DEF IInv

\* Every step preserves the inductive invariant.
LEMMA IInvStep == IInv /\ [Next]_vars => IInv'
<1> SUFFICES ASSUME IInv, [Next]_vars PROVE IInv'
  OBVIOUS
<1> USE DEF IInv, CountInv
<1>1. TypeOK'
  BY ControlStep, LocalStep, HandStep, PoolStep, QueueStep, HandleStep DEF
     TypeOK
<1>2. CountInv'
  BY <1>1, JobStep, CountStep, BoundStep
<1> QED
  BY <1>2, PlaceStep, StaleStep, SettledStep, SentStep

\* The inductive invariant holds in every reachable state.
LEMMA Invariance == Spec => []IInv
  BY IInvInit, IInvStep, PTL DEF Spec

\* Every variable keeps its type, for every configuration the code accepts.
THEOREM TypeCorrect == Spec => []TypeOK
<1>1. IInv => TypeOK
  BY DEF IInv, CountInv
<1> QED
  BY <1>1, Invariance, PTL

\* The worker count in the state word is the number of live workers, whatever
\* stale state word a CAS was prepared with.
THEOREM CountCorrect == Spec => []WorkerCountExact
<1>1. IInv => WorkerCountExact
  BY DEF IInv, CountInv
<1> QED
  BY <1>1, Invariance, PTL

\* The pool never has more than max(1, MinPoolSize) workers: addWorker is never
\* called with MaxPoolSize while it could succeed.
THEOREM PoolBoundCorrect == Spec => []PoolBound
<1>1. IInv => PoolBound
  BY DEF IInv, CountInv
<1> QED
  BY <1>1, Invariance, PTL

\* A task is in one place: it is run at most once and its result is set once.
THEOREM OnePlaceCorrect == Spec => []OnePlace
<1>1. IInv => OnePlace
  <2> SUFFICES ASSUME IInv PROVE OnePlace
    OBVIOUS
  <2>1. TypeOK /\ PlaceInv
    BY DEF IInv, CountInv
  <2>2. \A w \in Workers, t \in Tasks : Holding(w, t) <=> cur[w] = t
    BY <2>1, ProcsAssumption DEF TypeOK, HandType, Holding, Procs
  <2>3. \A t \in Tasks : Cancelled(t) \/ pc[t] = "rejected" => ~Offered(t)
    BY DEF Cancelled, Offered
  <2> QED
    BY <2>1, <2>2, <2>3, ProcsAssumption
       DEF OnePlace, PlaceInv, OneHand, TaskInv, Held, TypeOK, HandType, Procs
<1> QED
  BY <1>1, Invariance, PTL

\* An accepted task is never lost.
THEOREM NotLostCorrect == Spec => []NotLost
<1>1. IInv => NotLost
  BY ProcsAssumption DEF IInv, CountInv, TypeOK, HandType, PlaceInv, TaskInv,
     Offered, Held, NotLost, Holding, Procs
<1> QED
  BY <1>1, Invariance, PTL

\* A termination signal means that everything accepted is done, and is sent once.
THEOREM SignalCorrect == Spec => []SignalMeansDone
<1>1. IInv => \A d \in Closers : sent[d] <= 1
  BY DEF IInv, SentInv
<1>2. IInv => SignalMeansDone
  <2> SUFFICES ASSUME IInv, NEW d \in Closers, sent[d] > 0
               PROVE  /\ IsTerminated(state)
                      /\ Live = {}
                      /\ \A t \in Tasks : HandleReturned(t) =>
                           ~InQueue(t) /\ (result[t] # None \/ Cancelled(t))
    BY <1>1 DEF SignalMeansDone
  <2>1. IsTerminated(state)
    BY DEF IInv, SentInv
  <2>2. /\ state.count = 0
        /\ \A t \in Tasks : InQueue(t) => pc[t] \in {"pushed", "remove"}
    BY <2>1 DEF IInv, SettledInv
  <2>3. Live = {}
    <3>1. \A w \in Workers : pc[w] \notin Counted
      BY <2>2, LiveCounted DEF IInv, CountInv
    <3> QED
      BY <3>1 DEF Live
  <2>4. \A t \in Tasks : ~Held(t)
    BY <2>3, ProcsAssumption
       DEF Live, Counted, Held, IInv, CountInv, TypeOK, HandType, Procs
  <2>5. ASSUME NEW t \in Tasks, HandleReturned(t)
        PROVE  ~InQueue(t) /\ (result[t] # None \/ Cancelled(t))
    BY <2>2, <2>4, <2>5
       DEF HandleReturned, Cancelled, IInv, PlaceInv, TaskInv, Offered
  <2> QED
    BY <2>1, <2>3, <2>5
<1> QED
  BY <1>2, Invariance, PTL

\* No step takes the run state back, or starts a worker once shut down.
LEMMA DrainsStep ==
  IInv /\ [Next]_vars =>
    [/\ state'.run >= state.run
     /\ IsShutdown(state) => state'.count <= state.count]_vars
<1> SUFFICES ASSUME IInv, Next
             PROVE  /\ state'.run >= state.run
                    /\ IsShutdown(state) => state'.count <= state.count
  OBVIOUS
<1> USE DEF IInv, CountInv, TypeOK, PoolType, StateWord, RUNNING, SHUTDOWN,
            TERMINATED, SetRunState
<1>1. ASSUME NEW p \in Tasks \cup Workers, NEW w \in Workers, AddWorkerStart(p, w)
      PROVE  state'.run = state.run /\ ~IsShutdown(state)
  BY <1>1 DEF AddWorkerStart, JobInv, IsRunning, IsShutdown, Procs
<1>2. ASSUME NEW w \in Workers, PollExit(w) \/ PollExitIdle(w)
      PROVE  state'.run = state.run /\ state'.count <= state.count
  BY <1>2 DEF PollExit, PollExitIdle
<1>3. ASSUME NEW p \in Procs, TryTerminateCommit(p) \/ Shutdown(p)
      PROVE  state'.run >= state.run /\ state'.count = state.count
  BY <1>3 DEF TryTerminateCommit, Shutdown
<1>4. CASE UNCHANGED state
  BY <1>4
<1> QED
  BY <1>1, <1>2, <1>3, <1>4
     DEF Next, SubmitStep, CancelStep, TaskRun, PollTask, WorkerExit, WorkerStep,
         ShutdownStep, AddWorker, TryTerminate, Done, Procs, vars, poolVars,
         Submit, SubmitReload, AddTaskPush, AddTaskLoad, AddTaskRemove, Cancel,
         CancelSetResult, AwaitResult, RunTask, WorkerSetResult, PollLoad,
         PollDecide, QueuePoll, QueueWoken, QueueTimeout, TerminateWorker,
         ReplaceWorker, ShutdownClose, AddWorkerLoad, AddWorkerRetry,
         TryTerminateLoad, TryTerminateCheck

\* The run state only moves forward, and the pool only shrinks once shut down.
THEOREM ShutdownDrainsCorrect == Spec => ShutdownDrains
  BY DrainsStep, Invariance, PTL DEF Spec, ShutdownDrains
=============================================================================
