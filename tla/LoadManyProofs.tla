--------------------------- MODULE LoadManyProofs ---------------------------
(***************************************************************************)
(* Proofs about LoadMany: wakers that were deployed are not lost, and what  *)
(* BlockOn and Join return is what the tasks were completed with, for any   *)
(* number of tasks, clients and completers.                                *)
(***************************************************************************)
EXTENDS LoadMany, FiniteSetTheorems, SequenceTheorems, TLAPS

\* The indexes of the futures of client c.
Futures(c) == 1..Len(Wanted[c])

-----------------------------------------------------------------------------
(* The inductive invariant *)

\* The variables of the tasks and of the futures have their types.
TaskTypes ==
  /\ result \in [Tasks -> [kind : {"none"} \cup Kinds, ver : Nat]]
  /\ wakers \in [Tasks -> Seq(Slots)]
  /\ DOMAIN slot = Clients
  /\ \A c \in Clients : slot[c] \in [Futures(c) -> Nat]
  /\ copied \in [Clients -> Seq(Slots)]
  /\ seen \in [Clients \cup Completers -> [ver : Nat, len : Nat]]

\* The goroutines are at points of their code.
PlaceTypes ==
  /\ DOMAIN pc = Clients \cup Completers
  /\ \A c \in Clients : pc[c] \in ClientPCs
  /\ \A p \in Completers : pc[p] \in CompleterPCs
  /\ at \in [Clients -> Nat]
  /\ turn \in [Completers -> Nat \ {0}]
  /\ crashed \in BOOLEAN

\* The variables of BlockOn and Join have their types.
JoinTypes ==
  /\ isWaken \in [Clients -> BOOLEAN]
  /\ ret \in [Clients -> {"none"} \cup Kinds]
  /\ DOMAIN values = Clients
  /\ \A c \in Clients : values[c] \subseteq Futures(c)
  /\ pendingCount \in [Clients -> Int]
  /\ done \in [Clients -> Nat]
  /\ err \in [Clients -> {"none"} \cup Errors]
  /\ twice \in [Clients -> BOOLEAN]
  /\ deployed \subseteq Wakers

\* at is the index of a future, one past the last only at the end of Join's
\* loop, and back at the first whenever no loop is running.
AtInv ==
  \A c \in Clients :
    /\ at[c] >= 1
    /\ at[c] <= Len(Wanted[c]) + 1
    /\ pc[c] # "joining" => at[c] <= Len(Wanted[c])
    /\ c \notin Joiners => at[c] = 1 /\ pc[c] \notin {"joining", "check"}
    /\ pc[c] \in {"blockOn", "check", "waiting", "woken"} => at[c] = 1

\* newFuture goes through the futures in order: those it has not created have
\* no slot, the others have one, or their task was completed already.
CreatedInv ==
  \A c \in Clients : \A i \in Futures(c) :
    IF pc[c] \in {"newFuture", "publish"} /\ at[c] <= i
    THEN slot[c][i] = 0
    ELSE slot[c][i] > 0 \/ Completed(Wanted[c][i])

\* A Poll that is writing its waker has a slot to write to.
PollingInv ==
  \A c \in Clients : pc[c] \in {"write", "writing", "register"} => slot[c][at[c]] > 0

\* A slot is in the array, and it belongs to one future.
SlotInv ==
  \A c, d \in Clients : \A i \in Futures(c), j \in Futures(d) :
    /\ slot[c][i] <= Len(wakers[Wanted[c][i]])
    /\ slot[c][i] > 0 /\ Wanted[c][i] = Wanted[d][j] /\ slot[c][i] = slot[d][j] =>
         c = d /\ i = j

\* What is in an array is in the slot of its future. A copy of the array
\* is no exception.
EntryInv ==
  \A c \in Clients : \A i \in Futures(c) :
    /\ \A t \in Tasks : \A s \in 1..Len(wakers[t]) :
         wakers[t][s] = <<c, i>> => Wanted[c][i] = t /\ slot[c][i] = s
    /\ \A d \in Clients : \A s \in 1..Len(copied[d]) :
         pc[d] = "publish" /\ copied[d][s] = <<c, i>> =>
           Wanted[c][i] = Task(d) /\ slot[c][i] = s

\* q has loaded the result of t and is going to CAS it.
Loaded(q, t) ==
  \/ q \in Clients /\ pc[q] \in {"publish", "write", "writing", "register"} /\ t = Task(q)
  \/ q \in Completers /\ pc[q] = "swap" /\ t = TaskOf[q]

\* The CAS of a result that was loaded succeeds only if the task has not been
\* completed and its array is still the one that was loaded.
VerInv ==
  \A q \in Clients \cup Completers : \A t \in Tasks :
    Loaded(q, t) =>
      /\ seen[q].ver <= result[t].ver
      /\ seen[q].ver = result[t].ver => seen[q].len = Len(wakers[t]) /\ ~Completed(t)

\* A Poll whose CAS will succeed has its waker in the array.
WriteInv ==
  \A c \in Clients : pc[c] = "register" /\ Unchanged(c, Task(c)) => Registered(c)

\* A waker that was deployed is in the array.
DeployedInv ==
  \A c \in Clients : \A i \in Futures(c) :
    <<c, i>> \in deployed =>
      slot[c][i] > 0 /\ wakers[Wanted[c][i]][slot[c][i]] = <<c, i>>

\* The copy that d made has the length of the array and the wakers that were
\* deployed.
GoodCopy(d) ==
  /\ Len(copied[d]) = Len(wakers[Task(d)])
  /\ \A c \in Clients : \A i \in Futures(c) :
       <<c, i>> \in deployed /\ Wanted[c][i] = Task(d) => copied[d][slot[c][i]] = <<c, i>>

\* A copy that may yet be published is a good one.
CopyInv ==
  \A d \in Clients : pc[d] = "publish" /\ Unchanged(d, Task(d)) => GoodCopy(d)

\* BlockOn's waker is a function, which DeepEqual never finds equal: Poll
\* returns Pending only after its CAS.
BlockOnInv ==
  \A c \in Clients \ Joiners : pc[c] \in {"pending", "waiting"} => <<c, 1>> \in deployed

\* p's CAS completed its task.
Won(p) == pc[p] \in {"wake", "waking", "count", "flag", "signal", "returned"}

\* A task is completed by one completer, which then goes through its array.
WonInv ==
  /\ \A p \in Completers :
       /\ IF Won(p) THEN Completed(TaskOf[p]) ELSE turn[p] = 1
       /\ pc[p] = "returned" => turn[p] > Len(wakers[TaskOf[p]])
  /\ \A p, q \in Completers : Won(p) /\ Won(q) /\ TaskOf[p] = TaskOf[q] => p = q
  /\ \A t \in Tasks : Completed(t) => \E p \in Completers : Won(p) /\ TaskOf[p] = t

\* What the waker of the i-th future of c has done so far, when p called it.
CallDone(p, c, i) ==
  /\ pc[p] = "count" => c \in Joiners /\ i \in values[c]
  /\ pc[p] = "flag" => c \in Joiners
  /\ pc[p] \in {"flag", "signal"} /\ c \in Joiners => i \in values[c] \/ err[c] # "none"
  /\ pc[p] = "signal" /\ c \notin Joiners /\ pc[c] \in {"pending", "waiting"} => isWaken[c]

\* A completer that is calling a waker has found one.
CallInv ==
  \A p \in Completers : pc[p] \in {"waking", "count", "flag", "signal"} =>
    /\ turn[p] <= Len(wakers[TaskOf[p]])
    /\ \E c \in Clients : \E i \in Futures(c) : Current(p) = <<c, i>> /\ CallDone(p, c, i)

\* The i-th future of c returned Pending to the Poll that is running, or that
\* BlockOn waits after, and its value is still wanted.
Told(c, i) ==
  /\ i \notin values[c]
  /\ \/ pc[c] = "waiting" \/ Polled(c)
     \/ c \in Joiners /\ pc[c] \in {"joining", "poll", "write", "writing", "register", "pending"} /\ i < at[c]
     \/ c \in Joiners /\ pc[c] = "pending" /\ i = at[c]

\* A future that returned Pending has a slot.
ToldInv == \A c \in Clients : \A i \in Futures(c) : Told(c, i) => slot[c][i] > 0

\* p has gone past the slot of the i-th future of c.
Passed(p, c, i) == Won(p) /\ TaskOf[p] = Wanted[c][i] /\ turn[p] > slot[c][i]

\* Once the completer has gone past a waker in its array, the future knows.
PassedInv ==
  \A c \in Clients : \A i \in Futures(c) : \A p \in Completers :
    Told(c, i) /\ wakers[Wanted[c][i]][slot[c][i]] = <<c, i>> /\ Passed(p, c, i) =>
      IF c \in Joiners THEN err[c] # "none" ELSE isWaken[c] /\ pc[c] # "waiting"

\* The error a join was given is the error of one of its tasks.
ErrInv ==
  \A c \in Clients : err[c] # "none" => \E i \in Futures(c) : result[Wanted[c][i]].kind = err[c]

\* The values that a waker collected and has not counted down yet.
Counting(c) ==
  {i \in Futures(c) : \E p \in Completers : pc[p] = "count" /\ Current(p) = <<c, i>>}

\* As long as no value was counted twice, pendingCount is the number of values
\* still pending, and of those collected that are going to be counted down.
CountInv ==
  \A c \in Joiners : ~twice[c] =>
    pendingCount[c] = Len(Wanted[c]) - Cardinality(values[c]) + done[c] + Cardinality(Counting(c))

\* What BlockOn returned to c is right: ReturnsResult for one client.
RightReturn(c) ==
  /\ c \notin Joiners /\ ret[c] # "none" => result[Wanted[c][1]].kind = ret[c]
  /\ c \in Joiners /\ ret[c] \in Errors =>
       \E i \in Futures(c) : result[Wanted[c][i]].kind = ret[c]
  /\ c \in Joiners /\ ret[c] = "value" /\ ~twice[c] => values[c] = Futures(c)

Types == TaskTypes /\ PlaceTypes /\ JoinTypes
\* Newly written wakers and the slots they are written to.
ArrayInv ==
  /\ AtInv /\ CreatedInv /\ PollingInv /\ SlotInv /\ EntryInv
  /\ VerInv /\ CopyInv /\ WriteInv /\ DeployedInv /\ BlockOnInv
WakeInv == WonInv /\ CallInv /\ ToldInv /\ PassedInv
ResultInv == ErrInv /\ CountInv /\ ReturnsResult
IInv == Types /\ ArrayInv /\ WakeInv /\ ResultInv

-----------------------------------------------------------------------------
(* The constants *)

\* A future waits for a task, and every client has one.
LEMMA WantedTask ==
  ASSUME NEW c \in Clients
  PROVE  /\ Len(Wanted[c]) \in Nat
         /\ 1 \in Futures(c)
         /\ \A i \in Futures(c) : Wanted[c][i] \in Tasks
BY WantedAssumption DEF Futures

\* A client that does not join has one future.
LEMMA SingleFuture == \A c \in Clients \ Joiners : \A i \in Futures(c) : i = 1
<1> SUFFICES ASSUME NEW c \in Clients \ Joiners, NEW i \in Futures(c) PROVE i = 1
  OBVIOUS
<1>1. Len(Wanted[c]) = 1
  BY JoinersAssumption
<1> QED
  BY <1>1 DEF Futures

\* The wakers are the pairs of a client and the index of one of its futures.
LEMMA WakerPairs ==
  /\ \A c \in Clients : \A i \in Futures(c) : <<c, i>> \in Wakers
  /\ \A w \in Wakers : \E c \in Clients : \E i \in Futures(c) : w = <<c, i>>
BY DEF Wakers, Futures

\* A waker is told apart from NopWaker and from half a waker.
LEMMA WakerNames ==
  \A c \in Clients : \A i \in Futures(c) : <<c, i>> # Nop /\ <<c, i>> # Torn
BY WakerPairs, NamesAssumption

\* The kinds of results, and the type of error they are.
LEMMA KindNames ==
  /\ "none" \notin Kinds /\ "none" \notin Errors /\ "value" \notin Errors
  /\ Kinds = {"value"} \cup Errors
BY NamesAssumption DEF Kinds

\* Clients and completers are different goroutines.
LEMMA Goroutines == \A c \in Clients : \A p \in Completers : c # p
BY NamesAssumption

-----------------------------------------------------------------------------
(* What the steps that leave the arrays alone preserve *)

\* Points of a client's code where it has no result loaded.
Roaming == {"blockOn", "joining", "poll", "pending", "check", "waiting", "woken", "returned"}

\* What only depends on the arrays and on who has loaded them.
HeldInv ==
  /\ CreatedInv /\ PollingInv /\ SlotInv /\ EntryInv
  /\ VerInv /\ CopyInv /\ WriteInv /\ DeployedInv

\* A client that moves between such points does not disturb the arrays.
LEMMA ClientFrame ==
  ASSUME IInv, NEW c \in Clients,
         pc[c] \in Roaming, pc'[c] \in Roaming,
         \A q \in (Clients \cup Completers) \ {c} : pc'[q] = pc[q],
         \A d \in Clients \ {c} : at'[d] = at[d],
         UNCHANGED <<result, wakers, slot, copied, seen, turn, deployed>>
  PROVE  HeldInv' /\ WonInv'
<1> USE DEF IInv, Types, ArrayInv, WakeInv
<1>1. CreatedInv'
  BY WantedTask DEF CreatedInv, Roaming, Futures, Completed
<1>2. PollingInv'
  BY DEF PollingInv, Roaming
<1>3. SlotInv'
  BY DEF SlotInv
<1>4. EntryInv'
  BY DEF EntryInv, Roaming, Task
<1>5. VerInv'
  <2> SUFFICES ASSUME NEW q \in Clients \cup Completers, NEW t \in Tasks, Loaded(q, t)'
               PROVE  Loaded(q, t)
    BY DEF VerInv, Completed
  <2> QED
    BY Goroutines DEF Loaded, Roaming, Task
<1>6. CopyInv'
  <2> SUFFICES ASSUME NEW d \in Clients, (pc[d] = "publish")', Unchanged(d, Task(d))'
               PROVE  GoodCopy(d)'
    BY DEF CopyInv
  <2>1. pc[d] = "publish" /\ Task(d)' = Task(d)
    BY DEF Roaming, Task
  <2>2. GoodCopy(d)
    BY <2>1 DEF CopyInv, Unchanged
  <2> QED
    BY <2>1, <2>2 DEF GoodCopy
<1>7. WriteInv'
  BY DEF WriteInv, Roaming, Task, Unchanged, Registered, Slot
<1>8. DeployedInv'
  BY DEF DeployedInv, Roaming, Task, Unchanged
<1>9. WonInv'
  BY Goroutines DEF WonInv, Won, Completed
<1> QED
  BY <1>1, <1>2, <1>3, <1>4, <1>5, <1>6, <1>7, <1>8, <1>9 DEF HeldInv

\* A completer that does not replace a result does not disturb the arrays
\* either; it may at most end a client's wait.
LEMMA CompleterFrame ==
  ASSUME IInv, NEW p \in Completers,
         pc'[p] = "swap" =>
           /\ ~Completed(TaskOf[p])
           /\ seen'[p] = [ver |-> result[TaskOf[p]].ver, len |-> Len(wakers[TaskOf[p]])],
         \A q \in Completers \ {p} : pc'[q] = pc[q],
         \A q \in (Clients \cup Completers) \ {p} : seen'[q] = seen[q],
         \A c \in Clients : pc'[c] = pc[c] \/ (pc[c] = "waiting" /\ pc'[c] = "woken"),
         UNCHANGED <<result, wakers, slot, at, copied, deployed>>
  PROVE  HeldInv' /\ AtInv' /\ BlockOnInv'
<1> USE DEF IInv, Types, ArrayInv, WakeInv
<1>1. CreatedInv'
  BY WantedTask DEF CreatedInv, Futures, Completed
<1>2. PollingInv'
  BY DEF PollingInv
<1>3. SlotInv'
  BY DEF SlotInv
<1>4. EntryInv'
  BY DEF EntryInv, Task
<1>5. VerInv'
  <2> SUFFICES ASSUME NEW q \in Clients \cup Completers, NEW t \in Tasks, Loaded(q, t)'
               PROVE  (/\ seen[q].ver <= result[t].ver
                       /\ seen[q].ver = result[t].ver => seen[q].len = Len(wakers[t]) /\ ~Completed(t))'
    BY DEF VerInv
  <2>1. CASE q = p
    BY <2>1, Goroutines DEF Loaded, TaskTypes, Completed
  <2>2. CASE q # p
    <3>1. Loaded(q, t) /\ seen'[q] = seen[q]
      BY <2>2 DEF Loaded, Task
    <3> QED
      BY <3>1 DEF VerInv, Completed
  <2> QED
    BY <2>1, <2>2
<1>6. CopyInv'
  BY Goroutines DEF CopyInv, GoodCopy, Task, Unchanged
<1>7. WriteInv'
  BY Goroutines DEF WriteInv, Task, Unchanged, Registered, Slot
<1>8. DeployedInv'
  BY DEF DeployedInv, Task, Unchanged
<1>9. AtInv'
  BY DEF AtInv
<1>10. BlockOnInv'
  BY DEF BlockOnInv
<1> QED
  BY <1>1, <1>2, <1>3, <1>4, <1>5, <1>6, <1>7, <1>8, <1>9, <1>10 DEF HeldInv

\* The waker that a completer is calling belongs to a future of its task,
\* which is completed.
LEMMA CalledTask ==
  ASSUME IInv, NEW p \in Completers, pc[p] \in {"waking", "count", "flag", "signal"},
         NEW d \in Clients, NEW i \in Futures(d), Current(p) = <<d, i>>
  PROVE  /\ turn[p] \in 1..Len(wakers[TaskOf[p]])
         /\ Wanted[d][i] = TaskOf[p] /\ slot[d][i] = turn[p]
         /\ TaskOf[p] \in Tasks /\ Completed(TaskOf[p])
<1> USE DEF IInv, Types
<1>1. Won(p) /\ TaskOf[p] \in Tasks
  BY WantedAssumption DEF Won
<1>2. turn[p] \in 1..Len(wakers[TaskOf[p]])
  BY <1>1 DEF PlaceTypes, TaskTypes, CallInv, WakeInv
<1>3. Wanted[d][i] = TaskOf[p] /\ slot[d][i] = turn[p]
  BY <1>1, <1>2 DEF EntryInv, Current, ArrayInv
<1> QED
  BY <1>1, <1>2, <1>3 DEF WonInv, WakeInv

\* The wakers that are being called stay what they are, and what the futures
\* know is kept, when client c moves without a completed task's answer being
\* lost: it does not begin to wait on a completed task, and BlockOn only
\* blocks or goes on to look when its flag is down.
LEMMA ClientWakeFrame ==
  ASSUME IInv, NEW c \in Clients,
         \A q \in (Clients \cup Completers) \ {c} : pc'[q] = pc[q],
         \A d \in Clients \ {c} :
           at'[d] = at[d] /\ values'[d] = values[d] /\ isWaken'[d] = isWaken[d],
         UNCHANGED <<result, wakers, slot, turn, err>>,
         values[c] \subseteq values'[c],
         \A i \in Futures(c) : Told(c, i)' => Told(c, i) \/ ~Completed(Wanted[c][i]),
         c \notin Joiners /\ pc'[c] \in {"pending", "waiting"} =>
           /\ isWaken'[c] = isWaken[c]
           /\ pc'[c] = "waiting" => ~isWaken[c]
           /\ pc[c] = "pending" \/ ~Completed(Wanted[c][1])
  PROVE  CallInv' /\ PassedInv'
<1> USE DEF IInv, Types, WakeInv
<1>1. CallInv'
  <2> SUFFICES ASSUME NEW p \in Completers, (pc[p] \in {"waking", "count", "flag", "signal"})'
               PROVE  /\ (turn[p] <= Len(wakers[TaskOf[p]]))'
                      /\ \E d \in Clients : \E i \in Futures(d) :
                           (Current(p) = <<d, i>> /\ CallDone(p, d, i))'
    BY DEF CallInv
  <2>1. pc[p] = pc'[p] /\ Current(p)' = Current(p)
    BY Goroutines DEF Current
  <2>2. turn[p] <= Len(wakers[TaskOf[p]])
    BY <2>1 DEF CallInv
  <2>a. PICK d \in Clients : \E i \in Futures(d) : Current(p) = <<d, i>> /\ CallDone(p, d, i)
    BY <2>1 DEF CallInv
  <2>3. PICK i \in Futures(d) : Current(p) = <<d, i>> /\ CallDone(p, d, i)
    BY <2>a
  <2>4. Completed(Wanted[d][i])
    BY <2>1, <2>3, CalledTask
  <2>5. values[d] \subseteq values'[d]
    OBVIOUS
  <2>6. ASSUME pc[p] = "signal", d \notin Joiners, pc'[d] \in {"pending", "waiting"}
        PROVE  isWaken'[d]
    <3>1. i = 1
      BY <2>6, SingleFuture
    <3>2. pc[d] \in {"pending", "waiting"} /\ isWaken'[d] = isWaken[d]
      BY <2>4, <2>6, <3>1
    <3> QED
      BY <2>3, <2>6, <3>2 DEF CallDone
  <2>7. CallDone(p, d, i)'
    BY <2>1, <2>3, <2>5, <2>6 DEF CallDone
  <2> QED
    BY <2>1, <2>2, <2>3, <2>7
<1>4. PassedInv'
  <2> SUFFICES ASSUME NEW d \in Clients, NEW i \in Futures(d), NEW p \in Completers,
                      Told(d, i)', (wakers[Wanted[d][i]][slot[d][i]] = <<d, i>>)', Passed(p, d, i)'
               PROVE  (IF d \in Joiners THEN err[d] # "none" ELSE isWaken[d] /\ pc[d] # "waiting")'
    BY DEF PassedInv
  <2>1. Passed(p, d, i)
    BY Goroutines DEF Passed, Won
  <2>2. Completed(Wanted[d][i])
    BY <2>1 DEF Passed, WonInv
  <2>3. Told(d, i)
    <3>1. CASE d = c
      BY <2>2, <3>1
    <3>2. CASE d # c
      BY <3>2 DEF Told, Polled
    <3> QED
      BY <3>1, <3>2
  <2>4. IF d \in Joiners THEN err[d] # "none" ELSE isWaken[d] /\ pc[d] # "waiting"
    BY <2>1, <2>3 DEF PassedInv
  <2>5. CASE d \in Joiners
    BY <2>4, <2>5
  <2>6. CASE d \notin Joiners /\ d # c
    BY <2>4, <2>6
  <2>7. CASE d \notin Joiners /\ d = c
    <3>1. pc'[c] \in {"pending", "waiting"}
      BY <2>7 DEF Told, Polled
    <3> QED
      BY <2>4, <2>7, <3>1
  <2> QED
    BY <2>5, <2>6, <2>7
<1> QED
  BY <1>1, <1>4

\* The values being counted down are the same when no completer moves.
LEMMA CountingFrame ==
  ASSUME UNCHANGED <<wakers, turn>>,
         \A p \in Completers : pc'[p] = pc[p]
  PROVE  \A c \in Clients : Counting(c)' = Counting(c)
BY DEF Counting, Current

-----------------------------------------------------------------------------
(* The steps of BlockOn and of Join.Poll *)

\* Client c goes from one point where it has nothing loaded to another.
Roams(c) ==
  /\ pc[c] \in Roaming /\ pc'[c] \in Roaming
  /\ \A q \in (Clients \cup Completers) \ {c} : pc'[q] = pc[q]
  /\ \A d \in Clients \ {c} :
       /\ at'[d] = at[d] /\ values'[d] = values[d] /\ isWaken'[d] = isWaken[d]
       /\ twice'[d] = twice[d] /\ ret'[d] = ret[d]
       /\ pendingCount'[d] = pendingCount[d] /\ done'[d] = done[d]
  /\ values[c] \subseteq values'[c]
  /\ UNCHANGED <<result, wakers, slot, copied, seen, turn, deployed, err, crashed>>

\* A client that goes to wait notices what a completed task has done.
StaysTold(c) ==
  /\ \A i \in Futures(c) : Told(c, i)' => Told(c, i) \/ ~Completed(Wanted[c][i])
  /\ c \notin Joiners /\ pc'[c] \in {"pending", "waiting"} =>
       /\ isWaken'[c] = isWaken[c]
       /\ pc'[c] = "waiting" => ~isWaken[c]
       /\ pc[c] = "pending" \/ ~Completed(Wanted[c][1])

\* What is left to show of such a step is about the client's own variables.
LEMMA RoamsKeeps ==
  ASSUME IInv, NEW c \in Clients, Roams(c), StaysTold(c)
  PROVE  /\ HeldInv' /\ WonInv' /\ CallInv' /\ ToldInv' /\ PassedInv' /\ ErrInv'
         /\ \A d \in Clients : Counting(d)' = Counting(d)
<1>1. HeldInv' /\ WonInv'
  BY ClientFrame DEF Roams
<1>2. CallInv' /\ PassedInv'
  BY ClientWakeFrame DEF Roams, StaysTold
<1>3. ErrInv'
  BY DEF IInv, ResultInv, ErrInv, Roams
<1>4. \A d \in Clients : Counting(d)' = Counting(d)
  BY CountingFrame, Goroutines DEF Roams
<1>5. ToldInv'
  <2> SUFFICES ASSUME NEW d \in Clients, NEW i \in Futures(d), Told(d, i)'
               PROVE  slot[d][i] > 0
    BY DEF ToldInv, Roams
  <2>1. CASE d # c
    <3>1. Told(d, i)
      BY <2>1 DEF Told, Polled, Roams
    <3> QED
      BY <3>1 DEF ToldInv, IInv, WakeInv
  <2>2. CASE d = c
    <3>1. Told(c, i) \/ ~Completed(Wanted[c][i])
      BY <2>2 DEF StaysTold
    <3>2. pc[c] \notin {"newFuture", "publish"}
      BY DEF Roams, Roaming
    <3> QED
      BY <2>2, <3>1, <3>2 DEF ToldInv, CreatedInv, IInv, WakeInv, ArrayInv
  <2> QED
    BY <2>1, <2>2
<1> QED
  BY <1>1, <1>2, <1>3, <1>4, <1>5

\* ReturnsResult is about one client at a time.
LEMMA ReturnsEach == ReturnsResult <=> \A c \in Clients : RightReturn(c)
BY DEF ReturnsResult, RightReturn, Futures

\* A step after which one client has returned, at most, leaves the others'
\* results alone.
LEMMA RoamsReturns ==
  ASSUME IInv, NEW c \in Clients, Roams(c), JoinTypes',
         RightReturn(c)' \/ (ret'[c] = ret[c] /\ (twice[c] => twice'[c]))
  PROVE  ReturnsResult'
<1>1. \A d \in Clients : RightReturn(d)
  BY ReturnsEach DEF IInv, ResultInv
<1>2. ASSUME NEW d \in Clients, d # c PROVE RightReturn(d)'
  BY <1>1, <1>2 DEF Roams, RightReturn
<1>3. RightReturn(c)'
  <2>1. RightReturn(c)
    BY <1>1
  <2>2. values[c] \subseteq values'[c] /\ values'[c] \subseteq Futures(c) /\ result' = result
    BY DEF Roams, JoinTypes
  <2>3. CASE ret'[c] = ret[c] /\ (twice[c] => twice'[c])
    BY <2>1, <2>2, <2>3 DEF RightReturn
  <2> QED
    BY <2>3
<1>4. (\A d \in Clients : RightReturn(d))'
  BY <1>2, <1>3
<1> QED
  BY <1>4 DEF ReturnsResult, RightReturn, Futures

\* There are as many indexes as wanted tasks.
LEMMA FutureSets ==
  ASSUME NEW c \in Clients
  PROVE  /\ IsFiniteSet(Futures(c)) /\ Cardinality(Futures(c)) = Len(Wanted[c])
         /\ \A S \in SUBSET Futures(c) : IsFiniteSet(S)
<1>1. IsFiniteSet(Futures(c)) /\ Cardinality(Futures(c)) = Len(Wanted[c])
  BY WantedTask, FS_Interval DEF Futures
<1> QED
  BY <1>1, FS_Subset

\* The numbers that CountInv adds up.
LEMMA CountFacts ==
  ASSUME IInv, NEW c \in Clients
  PROVE  /\ Cardinality(values[c]) \in Nat /\ Cardinality(Counting(c)) \in Nat
         /\ Len(Wanted[c]) \in Nat /\ done[c] \in Nat /\ pendingCount[c] \in Int
<1>1. values[c] \subseteq Futures(c) /\ Counting(c) \subseteq Futures(c)
  BY DEF IInv, Types, JoinTypes, Counting
<1>2. IsFiniteSet(values[c]) /\ IsFiniteSet(Counting(c))
  BY <1>1, FutureSets
<1> QED
  BY <1>2, FS_CardinalityType, WantedTask DEF IInv, Types, JoinTypes

\* BlockOn polls the future, and returns what Poll returns.
LEMMA BlockOnPollStep ==
  ASSUME IInv, NEW c \in Clients, BlockOnPoll(c)
  PROVE  IInv'
<1> USE DEF IInv, Types
<1>1. Roams(c)
  BY DEF Roams, Roaming, TaskTypes, PlaceTypes, JoinTypes, taskVars, futureVars, localVars, blockVars, joinVars, BlockOnPoll, PollReady, Return, Goto, Outcome
<1>2. TaskTypes' /\ PlaceTypes' /\ JoinTypes'
  <2>1. TaskTypes'
    BY <1>1 DEF TaskTypes, Roams
  <2>2. PlaceTypes'
    BY <1>1, Goroutines DEF PlaceTypes, ClientPCs, Roams, taskVars, futureVars, localVars, blockVars, joinVars, BlockOnPoll, PollReady, Return, Goto, Outcome
  <2>3. JoinTypes'
    <3>1. at[c] = 1 /\ Task(c) \in Tasks /\ Outcome(c) \in {"none"} \cup Kinds
      BY WantedTask DEF AtInv, ArrayInv, TaskTypes, Task, Outcome, BlockOnPoll
    <3>2. ret' \in [Clients -> {"none"} \cup Kinds]
      BY <3>1 DEF JoinTypes, BlockOnPoll, Return
    <3> QED
      BY <1>1, <3>2 DEF JoinTypes, Roams, BlockOnPoll, joinVars
  <2> QED
    BY <2>1, <2>2, <2>3
<1>3. AtInv'
  BY <1>1, WantedTask DEF AtInv, ArrayInv, Roams, PlaceTypes, taskVars, futureVars, localVars, blockVars, joinVars, Futures, BlockOnPoll, PollReady, Return, Goto, Outcome
<1>4. BlockOnInv'
  BY <1>1 DEF BlockOnInv, AtInv, ArrayInv, PlaceTypes, Roams, BlockOnPoll, PollReady, Return, Goto, Outcome
<1>5. StaysTold(c)
  BY <1>1 DEF StaysTold, Told, Polled, AtInv, ArrayInv, PlaceTypes, JoinTypes, Roams, Futures, taskVars, futureVars, localVars, blockVars, joinVars, BlockOnPoll, PollReady, Return, Goto, Outcome
<1>6. /\ HeldInv' /\ WonInv' /\ CallInv' /\ ToldInv' /\ PassedInv' /\ ErrInv'
      /\ \A d \in Clients : Counting(d)' = Counting(d)
  BY <1>1, <1>5, RoamsKeeps
<1>7. CountInv'
  BY <1>1, <1>6, WantedAssumption DEF CountInv, ResultInv, Roams, PlaceTypes, JoinTypes, taskVars, futureVars, localVars, blockVars, joinVars, BlockOnPoll, PollReady, Return, Goto, Outcome
<1>8. ReturnsResult'
  <2>1. RightReturn(c)' \/ (ret'[c] = ret[c] /\ (twice[c] => twice'[c]))
    BY WantedTask DEF RightReturn, AtInv, ArrayInv, JoinTypes, TaskTypes, Task, taskVars, futureVars, localVars, blockVars, joinVars, BlockOnPoll, PollReady, Return, Goto, Outcome
  <2> QED
    BY <1>1, <1>2, <2>1, RoamsReturns
<1> QED
  BY <1>2, <1>3, <1>4, <1>6, <1>7, <1>8 DEF HeldInv, ArrayInv, WakeInv, ResultInv

\* BlockOn blocks unless it was woken already.
LEMMA BlockOnCheckStep ==
  ASSUME IInv, NEW c \in Clients, BlockOnCheck(c)
  PROVE  IInv'
<1> USE DEF IInv, Types
<1>1. Roams(c)
  BY DEF Roams, Roaming, TaskTypes, PlaceTypes, JoinTypes, taskVars, futureVars, localVars, blockVars, joinVars, BlockOnCheck, Polled, Goto
<1>2. TaskTypes' /\ PlaceTypes' /\ JoinTypes'
  <2>1. TaskTypes'
    BY <1>1 DEF TaskTypes, Roams
  <2>2. PlaceTypes'
    BY <1>1, Goroutines DEF PlaceTypes, ClientPCs, Roams, taskVars, futureVars, localVars, blockVars, joinVars, BlockOnCheck, Polled, Goto
  <2>3. JoinTypes'
    BY <1>1, KindNames, WantedTask DEF JoinTypes, Completed, PlaceTypes, AtInv, ArrayInv, Futures, TaskTypes, Roams, Task, taskVars, futureVars, localVars, blockVars, joinVars, BlockOnCheck, Polled, Goto
  <2> QED
    BY <2>1, <2>2, <2>3
<1>3. AtInv'
  BY <1>1, WantedTask DEF AtInv, ArrayInv, Roams, PlaceTypes, taskVars, futureVars, localVars, blockVars, joinVars, Futures, BlockOnCheck, Polled, Goto
<1>4. BlockOnInv'
  BY <1>1 DEF BlockOnInv, AtInv, ArrayInv, PlaceTypes, Roams, BlockOnCheck, Polled, Goto
<1>5. StaysTold(c)
  BY <1>1 DEF StaysTold, Told, Polled, AtInv, ArrayInv, PlaceTypes, JoinTypes, Roams, Futures, taskVars, futureVars, localVars, blockVars, joinVars, BlockOnCheck, Polled, Goto
<1>6. /\ HeldInv' /\ WonInv' /\ CallInv' /\ ToldInv' /\ PassedInv' /\ ErrInv'
      /\ \A d \in Clients : Counting(d)' = Counting(d)
  BY <1>1, <1>5, RoamsKeeps
<1>7. CountInv'
  BY <1>1, <1>6, WantedAssumption DEF CountInv, ResultInv, Roams, PlaceTypes, JoinTypes, taskVars, futureVars, localVars, blockVars, joinVars, BlockOnCheck, Polled, Goto
<1>8. ReturnsResult'
  <2>1. RightReturn(c)' \/ (ret'[c] = ret[c] /\ (twice[c] => twice'[c]))
    BY DEF JoinTypes, taskVars, futureVars, localVars, blockVars, joinVars, BlockOnCheck, Polled, Goto
  <2> QED
    BY <1>1, <1>2, <2>1, RoamsReturns
<1> QED
  BY <1>2, <1>3, <1>4, <1>6, <1>7, <1>8 DEF HeldInv, ArrayInv, WakeInv, ResultInv

\* BlockOn comes out of cond.Wait.
LEMMA BlockOnWokenStep ==
  ASSUME IInv, NEW c \in Clients, BlockOnWoken(c)
  PROVE  IInv'
<1> USE DEF IInv, Types
<1>1. Roams(c)
  BY DEF Roams, Roaming, TaskTypes, PlaceTypes, JoinTypes, taskVars, futureVars, localVars, blockVars, joinVars, BlockOnWoken, Goto
<1>2. TaskTypes' /\ PlaceTypes' /\ JoinTypes'
  <2>1. TaskTypes'
    BY <1>1 DEF TaskTypes, Roams
  <2>2. PlaceTypes'
    BY <1>1, Goroutines DEF PlaceTypes, ClientPCs, Roams, taskVars, futureVars, localVars, blockVars, joinVars, BlockOnWoken, Goto
  <2>3. JoinTypes'
    BY <1>1, KindNames, WantedTask DEF JoinTypes, Completed, PlaceTypes, AtInv, ArrayInv, Futures, TaskTypes, Roams, Task, taskVars, futureVars, localVars, blockVars, joinVars, BlockOnWoken, Goto
  <2> QED
    BY <2>1, <2>2, <2>3
<1>3. AtInv'
  BY <1>1, WantedTask DEF AtInv, ArrayInv, Roams, PlaceTypes, taskVars, futureVars, localVars, blockVars, joinVars, Futures, BlockOnWoken, Goto
<1>4. BlockOnInv'
  BY <1>1 DEF BlockOnInv, AtInv, ArrayInv, PlaceTypes, Roams, BlockOnWoken, Goto
<1>5. StaysTold(c)
  BY <1>1 DEF StaysTold, Told, Polled, AtInv, ArrayInv, PlaceTypes, JoinTypes, Roams, Futures, taskVars, futureVars, localVars, blockVars, joinVars, BlockOnWoken, Goto
<1>6. /\ HeldInv' /\ WonInv' /\ CallInv' /\ ToldInv' /\ PassedInv' /\ ErrInv'
      /\ \A d \in Clients : Counting(d)' = Counting(d)
  BY <1>1, <1>5, RoamsKeeps
<1>7. CountInv'
  BY <1>1, <1>6, WantedAssumption DEF CountInv, ResultInv, Roams, PlaceTypes, JoinTypes, taskVars, futureVars, localVars, blockVars, joinVars, BlockOnWoken, Goto
<1>8. ReturnsResult'
  <2>1. RightReturn(c)' \/ (ret'[c] = ret[c] /\ (twice[c] => twice'[c]))
    BY DEF JoinTypes, taskVars, futureVars, localVars, blockVars, joinVars, BlockOnWoken, Goto
  <2> QED
    BY <1>1, <1>2, <2>1, RoamsReturns
<1> QED
  BY <1>2, <1>3, <1>4, <1>6, <1>7, <1>8 DEF HeldInv, ArrayInv, WakeInv, ResultInv

\* Join.Poll begins.
LEMMA JoinPollStep ==
  ASSUME IInv, NEW c \in Clients, JoinPoll(c)
  PROVE  IInv'
<1> USE DEF IInv, Types
<1>1. Roams(c)
  BY DEF Roams, Roaming, TaskTypes, PlaceTypes, JoinTypes, taskVars, futureVars, localVars, blockVars, joinVars, JoinPoll, Return, Goto
<1>2. TaskTypes' /\ PlaceTypes' /\ JoinTypes'
  <2>1. TaskTypes'
    BY <1>1 DEF TaskTypes, Roams
  <2>2. PlaceTypes'
    BY <1>1, Goroutines DEF PlaceTypes, ClientPCs, Roams, taskVars, futureVars, localVars, blockVars, joinVars, JoinPoll, Return, Goto
  <2>3. JoinTypes'
    BY <1>1, KindNames, WantedTask DEF JoinTypes, Completed, PlaceTypes, AtInv, ArrayInv, Futures, TaskTypes, Roams, Task, taskVars, futureVars, localVars, blockVars, joinVars, JoinPoll, Return, Goto
  <2> QED
    BY <2>1, <2>2, <2>3
<1>3. AtInv'
  BY <1>1, WantedTask DEF AtInv, ArrayInv, Roams, PlaceTypes, taskVars, futureVars, localVars, blockVars, joinVars, Futures, JoinPoll, Return, Goto
<1>4. BlockOnInv'
  BY <1>1 DEF BlockOnInv, AtInv, ArrayInv, PlaceTypes, Roams, JoinPoll, Return, Goto
<1>5. StaysTold(c)
  BY <1>1 DEF StaysTold, Told, Polled, AtInv, ArrayInv, PlaceTypes, JoinTypes, Roams, Futures, taskVars, futureVars, localVars, blockVars, joinVars, JoinPoll, Return, Goto
<1>6. /\ HeldInv' /\ WonInv' /\ CallInv' /\ ToldInv' /\ PassedInv' /\ ErrInv'
      /\ \A d \in Clients : Counting(d)' = Counting(d)
  BY <1>1, <1>5, RoamsKeeps
<1>7. CountInv'
  BY <1>1, <1>6, WantedAssumption DEF CountInv, ResultInv, Roams, PlaceTypes, JoinTypes, taskVars, futureVars, localVars, blockVars, joinVars, JoinPoll, Return, Goto
<1>8. ReturnsResult'
  <2>1. RightReturn(c)' \/ (ret'[c] = ret[c] /\ (twice[c] => twice'[c]))
    BY <1>1, KindNames DEF RightReturn, Roams, ErrInv, ResultInv, JoinTypes, taskVars, futureVars, localVars, blockVars, joinVars, JoinPoll, Return, Goto
  <2> QED
    BY <1>1, <1>2, <2>1, RoamsReturns
<1> QED
  BY <1>2, <1>3, <1>4, <1>6, <1>7, <1>8 DEF HeldInv, ArrayInv, WakeInv, ResultInv

\* Join.Poll looks at the next value.
LEMMA JoinNextStep ==
  ASSUME IInv, NEW c \in Clients, JoinNext(c)
  PROVE  IInv'
<1> USE DEF IInv, Types
<1>1. Roams(c)
  BY DEF Roams, Roaming, TaskTypes, PlaceTypes, JoinTypes, taskVars, futureVars, localVars, blockVars, joinVars, JoinNext, Goto
<1>2. TaskTypes' /\ PlaceTypes' /\ JoinTypes'
  <2>1. TaskTypes'
    BY <1>1 DEF TaskTypes, Roams
  <2>2. PlaceTypes'
    BY <1>1, Goroutines DEF PlaceTypes, ClientPCs, Roams, taskVars, futureVars, localVars, blockVars, joinVars, JoinNext, Goto
  <2>3. JoinTypes'
    BY <1>1, KindNames, WantedTask DEF JoinTypes, Completed, PlaceTypes, AtInv, ArrayInv, Futures, TaskTypes, Roams, Task, taskVars, futureVars, localVars, blockVars, joinVars, JoinNext, Goto
  <2> QED
    BY <2>1, <2>2, <2>3
<1>3. AtInv'
  BY <1>1, WantedTask DEF AtInv, ArrayInv, Roams, PlaceTypes, taskVars, futureVars, localVars, blockVars, joinVars, Futures, JoinNext, Goto
<1>4. BlockOnInv'
  BY <1>1 DEF BlockOnInv, AtInv, ArrayInv, PlaceTypes, Roams, JoinNext, Goto
<1>5. StaysTold(c)
  BY <1>1 DEF StaysTold, Told, Polled, AtInv, ArrayInv, PlaceTypes, JoinTypes, Roams, Futures, taskVars, futureVars, localVars, blockVars, joinVars, JoinNext, Goto
<1>6. /\ HeldInv' /\ WonInv' /\ CallInv' /\ ToldInv' /\ PassedInv' /\ ErrInv'
      /\ \A d \in Clients : Counting(d)' = Counting(d)
  BY <1>1, <1>5, RoamsKeeps
<1>7. CountInv'
  BY <1>1, <1>6, WantedAssumption DEF CountInv, ResultInv, Roams, PlaceTypes, JoinTypes, taskVars, futureVars, localVars, blockVars, joinVars, JoinNext, Goto
<1>8. ReturnsResult'
  <2>1. RightReturn(c)' \/ (ret'[c] = ret[c] /\ (twice[c] => twice'[c]))
    BY DEF JoinTypes, taskVars, futureVars, localVars, blockVars, joinVars, JoinNext, Goto
  <2> QED
    BY <1>1, <1>2, <2>1, RoamsReturns
<1> QED
  BY <1>2, <1>3, <1>4, <1>6, <1>7, <1>8 DEF HeldInv, ArrayInv, WakeInv, ResultInv

\* Join.Poll returns the error of a future.
LEMMA JoinFailedStep ==
  ASSUME IInv, NEW c \in Clients, JoinFailed(c)
  PROVE  IInv'
<1> USE DEF IInv, Types
<1>1. Roams(c)
  BY DEF Roams, Roaming, TaskTypes, PlaceTypes, JoinTypes, taskVars, futureVars, localVars, blockVars, joinVars, JoinFailed, PollReady, Return, Goto, Outcome
<1>2. TaskTypes' /\ PlaceTypes' /\ JoinTypes'
  <2>1. TaskTypes'
    BY <1>1 DEF TaskTypes, Roams
  <2>2. PlaceTypes'
    BY <1>1, Goroutines DEF PlaceTypes, ClientPCs, Roams, taskVars, futureVars, localVars, blockVars, joinVars, JoinFailed, PollReady, Return, Goto, Outcome
  <2>3. JoinTypes'
    BY <1>1, KindNames, WantedTask DEF JoinTypes, Completed, PlaceTypes, AtInv, ArrayInv, Futures, TaskTypes, Roams, Task, taskVars, futureVars, localVars, blockVars, joinVars, JoinFailed, PollReady, Return, Goto, Outcome
  <2> QED
    BY <2>1, <2>2, <2>3
<1>3. AtInv'
  BY <1>1, WantedTask DEF AtInv, ArrayInv, Roams, PlaceTypes, taskVars, futureVars, localVars, blockVars, joinVars, Futures, JoinFailed, PollReady, Return, Goto, Outcome
<1>4. BlockOnInv'
  BY <1>1 DEF BlockOnInv, AtInv, ArrayInv, PlaceTypes, Roams, JoinFailed, PollReady, Return, Goto, Outcome
<1>5. StaysTold(c)
  BY <1>1 DEF StaysTold, Told, Polled, AtInv, ArrayInv, PlaceTypes, JoinTypes, Roams, Futures, taskVars, futureVars, localVars, blockVars, joinVars, JoinFailed, PollReady, Return, Goto, Outcome
<1>6. /\ HeldInv' /\ WonInv' /\ CallInv' /\ ToldInv' /\ PassedInv' /\ ErrInv'
      /\ \A d \in Clients : Counting(d)' = Counting(d)
  BY <1>1, <1>5, RoamsKeeps
<1>7. CountInv'
  BY <1>1, <1>6, WantedAssumption DEF CountInv, ResultInv, Roams, PlaceTypes, JoinTypes, taskVars, futureVars, localVars, blockVars, joinVars, JoinFailed, PollReady, Return, Goto, Outcome
<1>8. ReturnsResult'
  <2>1. RightReturn(c)' \/ (ret'[c] = ret[c] /\ (twice[c] => twice'[c]))
    <3>1. at[c] \in Futures(c) /\ ret'[c] = result[Wanted[c][at[c]]].kind /\ c \in Joiners /\ result' = result
      BY <1>1 DEF Roams, AtInv, ArrayInv, Futures, PlaceTypes, JoinTypes, Task, JoinFailed, PollReady, Return, Goto, Outcome
    <3>2. ret'[c] \in Errors
      BY DEF JoinFailed, Return, JoinTypes
    <3> QED
      BY <3>1, <3>2, KindNames DEF RightReturn
  <2> QED
    BY <1>1, <1>2, <2>1, RoamsReturns
<1> QED
  BY <1>2, <1>3, <1>4, <1>6, <1>7, <1>8 DEF HeldInv, ArrayInv, WakeInv, ResultInv

\* Join.Poll collects a value.
LEMMA JoinReadyStep ==
  ASSUME IInv, NEW c \in Clients, JoinReady(c)
  PROVE  IInv'
<1> USE DEF IInv, Types
<1>1. Roams(c)
  BY DEF Roams, Roaming, TaskTypes, PlaceTypes, JoinTypes, taskVars, futureVars, localVars, blockVars, joinVars, JoinReady, PollReady, Collect, Goto, Outcome
<1>2. TaskTypes' /\ PlaceTypes' /\ JoinTypes'
  <2>1. TaskTypes'
    BY <1>1 DEF TaskTypes, Roams
  <2>2. PlaceTypes'
    BY <1>1, Goroutines DEF PlaceTypes, ClientPCs, Roams, taskVars, futureVars, localVars, blockVars, joinVars, JoinReady, PollReady, Collect, Goto, Outcome
  <2>3. JoinTypes'
    <3>1. at[c] \in Futures(c)
      BY WantedTask DEF AtInv, ArrayInv, Futures, PlaceTypes, JoinReady, PollReady
    <3>2. DOMAIN values' = Clients /\ values'[c] = values[c] \cup {at[c]}
      BY DEF JoinTypes, JoinReady, Collect
    <3>3. \A d \in Clients : values'[d] \subseteq Futures(d)
      BY <1>1, <3>1, <3>2 DEF JoinTypes, Roams
    <3>4. twice' \in [Clients -> BOOLEAN] /\ done' \in [Clients -> Nat]
      BY DEF JoinTypes, JoinReady, Collect
    <3> QED
      BY <1>1, <3>2, <3>3, <3>4 DEF JoinTypes, JoinReady, Roams, blockVars
  <2> QED
    BY <2>1, <2>2, <2>3
<1>3. AtInv'
  BY <1>1, WantedTask DEF AtInv, ArrayInv, Roams, PlaceTypes, taskVars, futureVars, localVars, blockVars, joinVars, Futures, JoinReady, PollReady, Collect, Goto, Outcome
<1>4. BlockOnInv'
  BY <1>1 DEF BlockOnInv, AtInv, ArrayInv, PlaceTypes, Roams, JoinReady, PollReady, Collect, Goto, Outcome
<1>5. StaysTold(c)
  BY <1>1 DEF StaysTold, Told, Polled, AtInv, ArrayInv, PlaceTypes, JoinTypes, Roams, Futures, taskVars, futureVars, localVars, blockVars, joinVars, JoinReady, PollReady, Collect, Goto, Outcome
<1>6. /\ HeldInv' /\ WonInv' /\ CallInv' /\ ToldInv' /\ PassedInv' /\ ErrInv'
      /\ \A d \in Clients : Counting(d)' = Counting(d)
  BY <1>1, <1>5, RoamsKeeps
<1>7. CountInv'
  <2>1. Roams(c) /\ CountInv
    BY <1>1 DEF ResultInv
  <2>2. /\ done'[c] = done[c] + 1 /\ pendingCount'[c] = pendingCount[c]
        /\ values'[c] = values[c] \cup {at[c]}
        /\ ~twice'[c] => ~twice[c] /\ at[c] \notin values[c]
    BY DEF JoinTypes, JoinReady, Collect
  <2>3. IsFiniteSet(values[c])
    BY FutureSets DEF JoinTypes
  <2>4. ~twice'[c] => Cardinality(values'[c]) = Cardinality(values[c]) + 1
    BY <2>2, <2>3, FS_AddElement
  <2>5. ASSUME NEW d \in Joiners, ~twice'[d]
        PROVE  pendingCount'[d] = Len(Wanted[d]) - Cardinality(values'[d]) + done'[d] + Cardinality(Counting(d)')
    <3>1. d \in Clients
      BY WantedAssumption
    <3>2. CASE d # c
      BY <1>6, <2>1, <2>5, <3>1, <3>2 DEF CountInv, Roams
    <3>3. CASE d = c
      <4>1. Counting(c)' = Counting(c)
        BY <1>6
      <4>2. /\ Cardinality(values[c]) \in Nat /\ Cardinality(Counting(c)) \in Nat
            /\ Len(Wanted[c]) \in Nat /\ done[c] \in Nat
        BY <2>3, FutureSets, FS_CardinalityType, WantedTask DEF JoinTypes, Counting
      <4>3. pendingCount[c] = Len(Wanted[c]) - Cardinality(values[c]) + done[c] + Cardinality(Counting(c))
        BY <2>1, <2>2, <2>5, <3>3 DEF CountInv
      <4>4. Cardinality(values'[c]) = Cardinality(values[c]) + 1
        BY <2>4, <2>5, <3>3
      <4>5. pendingCount'[c] = Len(Wanted[c]) - Cardinality(values'[c]) + done'[c] + Cardinality(Counting(c)')
        BY <2>2, <4>1, <4>2, <4>3, <4>4
      <4> QED
        BY <3>3, <4>5
    <3> QED
      BY <3>2, <3>3
  <2> QED
    BY <2>5 DEF CountInv
<1>8. ReturnsResult'
  <2>1. RightReturn(c)' \/ (ret'[c] = ret[c] /\ (twice[c] => twice'[c]))
    BY DEF JoinTypes, taskVars, futureVars, localVars, blockVars, joinVars, JoinReady, PollReady, Collect, Goto, Outcome
  <2> QED
    BY <1>1, <1>2, <2>1, RoamsReturns
<1> QED
  BY <1>2, <1>3, <1>4, <1>6, <1>7, <1>8 DEF HeldInv, ArrayInv, WakeInv, ResultInv

\* Join.Poll goes past a future that is pending.
LEMMA JoinPendingStep ==
  ASSUME IInv, NEW c \in Clients, JoinPending(c)
  PROVE  IInv'
<1> USE DEF IInv, Types
<1>1. Roams(c)
  BY DEF Roams, Roaming, TaskTypes, PlaceTypes, JoinTypes, taskVars, futureVars, localVars, blockVars, joinVars, JoinPending, Goto
<1>2. TaskTypes' /\ PlaceTypes' /\ JoinTypes'
  <2>1. TaskTypes'
    BY <1>1 DEF TaskTypes, Roams
  <2>2. PlaceTypes'
    BY <1>1, Goroutines DEF PlaceTypes, ClientPCs, Roams, taskVars, futureVars, localVars, blockVars, joinVars, JoinPending, Goto
  <2>3. JoinTypes'
    BY <1>1, KindNames, WantedTask DEF JoinTypes, Completed, PlaceTypes, AtInv, ArrayInv, Futures, TaskTypes, Roams, Task, taskVars, futureVars, localVars, blockVars, joinVars, JoinPending, Goto
  <2> QED
    BY <2>1, <2>2, <2>3
<1>3. AtInv'
  BY <1>1, WantedTask DEF AtInv, ArrayInv, Roams, PlaceTypes, taskVars, futureVars, localVars, blockVars, joinVars, Futures, JoinPending, Goto
<1>4. BlockOnInv'
  BY <1>1 DEF BlockOnInv, AtInv, ArrayInv, PlaceTypes, Roams, JoinPending, Goto
<1>5. StaysTold(c)
  BY <1>1 DEF StaysTold, Told, Polled, AtInv, ArrayInv, PlaceTypes, JoinTypes, Roams, Futures, taskVars, futureVars, localVars, blockVars, joinVars, JoinPending, Goto
<1>6. /\ HeldInv' /\ WonInv' /\ CallInv' /\ ToldInv' /\ PassedInv' /\ ErrInv'
      /\ \A d \in Clients : Counting(d)' = Counting(d)
  BY <1>1, <1>5, RoamsKeeps
<1>7. CountInv'
  BY <1>1, <1>6, WantedAssumption DEF CountInv, ResultInv, Roams, PlaceTypes, JoinTypes, taskVars, futureVars, localVars, blockVars, joinVars, JoinPending, Goto
<1>8. ReturnsResult'
  <2>1. RightReturn(c)' \/ (ret'[c] = ret[c] /\ (twice[c] => twice'[c]))
    BY DEF JoinTypes, taskVars, futureVars, localVars, blockVars, joinVars, JoinPending, Goto
  <2> QED
    BY <1>1, <1>2, <2>1, RoamsReturns
<1> QED
  BY <1>2, <1>3, <1>4, <1>6, <1>7, <1>8 DEF HeldInv, ArrayInv, WakeInv, ResultInv

\* Join.Poll counts down and returns.
LEMMA JoinCountStep ==
  ASSUME IInv, NEW c \in Clients, JoinCount(c)
  PROVE  IInv'
<1> USE DEF IInv, Types
<1>1. Roams(c)
  BY DEF Roams, Roaming, TaskTypes, PlaceTypes, JoinTypes, taskVars, futureVars, localVars, blockVars, joinVars, JoinCount, Return, Goto
<1>2. TaskTypes' /\ PlaceTypes' /\ JoinTypes'
  <2>1. TaskTypes'
    BY <1>1 DEF TaskTypes, Roams
  <2>2. PlaceTypes'
    BY <1>1, Goroutines DEF PlaceTypes, ClientPCs, Roams, taskVars, futureVars, localVars, blockVars, joinVars, JoinCount, Return, Goto
  <2>3. JoinTypes'
    <3>1. pendingCount' \in [Clients -> Int] /\ done' \in [Clients -> Nat]
      BY DEF JoinTypes, JoinCount
    <3>2. ret' \in [Clients -> {"none"} \cup Kinds]
      BY KindNames DEF JoinTypes, JoinCount, Return
    <3> QED
      BY <1>1, <3>1, <3>2 DEF JoinTypes, JoinCount, Roams
  <2> QED
    BY <2>1, <2>2, <2>3
<1>3. AtInv'
  BY <1>1, WantedTask DEF AtInv, ArrayInv, Roams, PlaceTypes, taskVars, futureVars, localVars, blockVars, joinVars, Futures, JoinCount, Return, Goto
<1>4. BlockOnInv'
  BY <1>1 DEF BlockOnInv, AtInv, ArrayInv, PlaceTypes, Roams, JoinCount, Return, Goto
<1>5. StaysTold(c)
  BY <1>1 DEF StaysTold, Told, Polled, AtInv, ArrayInv, PlaceTypes, JoinTypes, Roams, Futures, taskVars, futureVars, localVars, blockVars, joinVars, JoinCount, Return, Goto
<1>6. /\ HeldInv' /\ WonInv' /\ CallInv' /\ ToldInv' /\ PassedInv' /\ ErrInv'
      /\ \A d \in Clients : Counting(d)' = Counting(d)
  BY <1>1, <1>5, RoamsKeeps
<1>7. CountInv'
  <2>1. Roams(c) /\ CountInv
    BY <1>1 DEF ResultInv
  <2>2. /\ done'[c] = 0 /\ pendingCount'[c] = pendingCount[c] - done[c]
        /\ values' = values /\ twice' = twice
    BY DEF JoinTypes, JoinCount
  <2>3. ASSUME NEW d \in Joiners, ~twice'[d]
        PROVE  pendingCount'[d] = Len(Wanted[d]) - Cardinality(values'[d]) + done'[d] + Cardinality(Counting(d)')
    <3>1. d \in Clients
      BY WantedAssumption
    <3>2. CASE d # c
      BY <1>6, <2>1, <2>3, <3>1, <3>2 DEF CountInv, Roams
    <3>3. CASE d = c
      BY <1>6, <2>1, <2>2, <2>3, <3>1, <3>3, CountFacts DEF CountInv
    <3> QED
      BY <3>2, <3>3
  <2> QED
    BY <2>3 DEF CountInv
<1>8. ReturnsResult'
  <2>1. RightReturn(c)' \/ (ret'[c] = ret[c] /\ (twice[c] => twice'[c]))
    <3>1. CASE pendingCount[c] # done[c]
      BY <3>1 DEF JoinCount
    <3>2. CASE pendingCount[c] = done[c]
      <4>1. ret'[c] = "value" /\ c \in Joiners /\ twice' = twice /\ values' = values
        BY <3>2 DEF JoinCount, Return, JoinTypes, AtInv, ArrayInv
      <4>2. ASSUME ~twice[c] PROVE values[c] = Futures(c)
        <5>0. pendingCount[c] = Len(Wanted[c]) - Cardinality(values[c]) + done[c] + Cardinality(Counting(c))
          BY <4>1, <4>2 DEF CountInv, ResultInv
        <5>1. Cardinality(values[c]) = Len(Wanted[c]) + Cardinality(Counting(c))
          <6>1. /\ Cardinality(values[c]) \in Nat /\ Cardinality(Counting(c)) \in Nat
                /\ Len(Wanted[c]) \in Nat /\ done[c] \in Nat /\ pendingCount[c] = done[c]
            BY <3>2, CountFacts
          <6> QED
            BY <6>1, <5>0
        <5>2. /\ IsFiniteSet(Futures(c)) /\ values[c] \subseteq Futures(c)
              /\ Cardinality(Futures(c)) = Len(Wanted[c])
          BY FutureSets DEF JoinTypes
        <5>3. Cardinality(values[c]) >= Cardinality(Futures(c))
          BY <5>1, <5>2, CountFacts
        <5> QED
          BY <5>2, <5>3, FS_Subset, FS_CardinalityType
      <4> QED
        BY <4>1, <4>2, KindNames DEF RightReturn
    <3> QED
      BY <3>1, <3>2
  <2> QED
    BY <1>1, <1>2, <2>1, RoamsReturns
<1> QED
  BY <1>2, <1>3, <1>4, <1>6, <1>7, <1>8 DEF HeldInv, ArrayInv, WakeInv, ResultInv

-----------------------------------------------------------------------------
(* The steps inside newFuture and Poll *)

\* A step of client c inside newFuture or Poll changes nothing of what the
\* completers of completed tasks have to do with.
Settled(c) ==
  /\ \A q \in (Clients \cup Completers) \ {c} : pc'[q] = pc[q]
  /\ \A t \in Tasks : result'[t].kind = result[t].kind
  /\ \A t \in Tasks : Completed(t) =>
       /\ Len(wakers'[t]) = Len(wakers[t])
       /\ \A s \in 1..Len(wakers[t]) : wakers[t][s] \in Wakers => wakers'[t][s] = wakers[t][s]
  /\ \A d \in Clients : \A i \in Futures(d) : Completed(Wanted[d][i]) =>
       /\ slot'[d][i] = slot[d][i]
       /\ Told(d, i)' =>
            /\ Told(d, i)
            /\ wakers'[Wanted[d][i]][slot[d][i]] = wakers[Wanted[d][i]][slot[d][i]]
  /\ c \notin Joiners /\ pc'[c] \in {"pending", "waiting"} => ~Completed(Wanted[c][1])
  /\ UNCHANGED <<turn, crashed, isWaken, ret, values, pendingCount, done, err, twice>>

\* Such a step does not disturb the completers and the results.
LEMMA SettledKeeps ==
  ASSUME IInv, NEW c \in Clients, Settled(c), CreatedInv'
  PROVE  WakeInv' /\ ResultInv'
<1> USE DEF IInv, Types
<1>1. \A t \in Tasks : Completed(t)' <=> Completed(t)
  BY DEF Settled, Completed
<1>2. \A p \in Completers : pc'[p] = pc[p] /\ turn'[p] = turn[p] /\ TaskOf[p] \in Tasks
  BY Goroutines, WantedAssumption DEF Settled
<1>3. \A p \in Completers : Won(p)' <=> Won(p)
  BY <1>2 DEF Won
<1>4. WonInv'
  BY <1>1, <1>2, <1>3 DEF WonInv, WakeInv, Settled, Won
<1>5. ASSUME NEW p \in Completers, pc[p] \in {"waking", "count", "flag", "signal"}
      PROVE  /\ Current(p)' = Current(p)
             /\ turn[p] <= Len(wakers[TaskOf[p]])
             /\ Len(wakers'[TaskOf[p]]) = Len(wakers[TaskOf[p]])
             /\ \E d \in Clients : \E i \in Futures(d) :
                  /\ Current(p) = <<d, i>> /\ CallDone(p, d, i)
                  /\ Completed(Wanted[d][i])
  <2>1. PICK d \in Clients : \E i \in Futures(d) : Current(p) = <<d, i>> /\ CallDone(p, d, i)
    BY <1>5 DEF CallInv, WakeInv
  <2>2. PICK i \in Futures(d) : Current(p) = <<d, i>> /\ CallDone(p, d, i)
    BY <2>1
  <2>3. /\ turn[p] \in 1..Len(wakers[TaskOf[p]])
        /\ Wanted[d][i] = TaskOf[p]
        /\ TaskOf[p] \in Tasks /\ Completed(TaskOf[p])
    BY <1>5, <2>2, CalledTask
  <2>4. wakers[TaskOf[p]][turn[p]] \in Wakers
    BY <2>2, WakerPairs DEF Current
  <2>5. Current(p)' = Current(p) /\ Len(wakers'[TaskOf[p]]) = Len(wakers[TaskOf[p]])
    BY <1>2, <2>3, <2>4 DEF Settled, Current
  <2> QED
    BY <2>2, <2>3, <2>5
<1>6. CallInv'
  <2> SUFFICES ASSUME NEW p \in Completers, (pc[p] \in {"waking", "count", "flag", "signal"})'
               PROVE  /\ (turn[p] <= Len(wakers[TaskOf[p]]))'
                      /\ \E d \in Clients : \E i \in Futures(d) :
                           (Current(p) = <<d, i>> /\ CallDone(p, d, i))'
    BY DEF CallInv
  <2>1. pc[p] \in {"waking", "count", "flag", "signal"}
    BY <1>2
  <2>2. PICK d \in Clients : \E i \in Futures(d) :
          Current(p) = <<d, i>> /\ CallDone(p, d, i) /\ Completed(Wanted[d][i])
    BY <2>1, <1>5
  <2>3. PICK i \in Futures(d) :
          Current(p) = <<d, i>> /\ CallDone(p, d, i) /\ Completed(Wanted[d][i])
    BY <2>2
  <2>4. d \notin Joiners => i = 1
    BY SingleFuture
  <2>5. CallDone(p, d, i)'
    BY <1>2, <2>3, <2>4 DEF CallDone, Settled
  <2>6. /\ Current(p)' = Current(p)
        /\ turn'[p] <= Len(wakers'[TaskOf[p]])
    BY <1>2, <1>5, <2>1
  <2> QED
    BY <2>3, <2>5, <2>6
<1>7. PassedInv'
  <2> SUFFICES ASSUME NEW d \in Clients, NEW i \in Futures(d), NEW p \in Completers,
                      Told(d, i)', (wakers[Wanted[d][i]][slot[d][i]] = <<d, i>>)', Passed(p, d, i)'
               PROVE  (IF d \in Joiners THEN err[d] # "none" ELSE isWaken[d] /\ pc[d] # "waiting")'
    BY DEF PassedInv
  <2>1. Won(p) /\ TaskOf[p] = Wanted[d][i] /\ Completed(Wanted[d][i])
    BY <1>3 DEF Passed, WonInv, WakeInv
  <2>2. Told(d, i) /\ wakers[Wanted[d][i]][slot[d][i]] = <<d, i>> /\ Passed(p, d, i)
    BY <1>2, <2>1 DEF Settled, Passed
  <2>3. IF d \in Joiners THEN err[d] # "none" ELSE isWaken[d] /\ pc[d] # "waiting"
    BY <2>2 DEF PassedInv, WakeInv
  <2>4. d = c /\ d \notin Joiners => pc'[d] # "waiting"
    <3>1. d \notin Joiners => i = 1
      BY SingleFuture
    <3> QED
      BY <2>1, <3>1 DEF Settled
  <2> QED
    BY <2>3, <2>4 DEF Settled
<1>11. ToldInv'
  <2> SUFFICES ASSUME NEW d \in Clients, NEW i \in Futures(d), Told(d, i)'
               PROVE  slot'[d][i] > 0
    BY DEF ToldInv
  <2>1. CASE Completed(Wanted[d][i])
    BY <2>1 DEF ToldInv, WakeInv, Settled
  <2>2. CASE ~Completed(Wanted[d][i])
    <3>1. pc'[d] \notin {"newFuture", "publish"}
      BY DEF Told, Polled
    <3>2. ~Completed(Wanted[d][i])'
      BY <1>1, <2>2, WantedTask
    <3> QED
      BY <3>1, <3>2 DEF CreatedInv
  <2> QED
    BY <2>1, <2>2
<1>8. ErrInv'
  <2> SUFFICES ASSUME NEW d \in Clients, err'[d] # "none"
               PROVE  \E i \in Futures(d) : result'[Wanted[d][i]].kind = err'[d]
    BY DEF ErrInv
  <2>1. PICK i \in Futures(d) : result[Wanted[d][i]].kind = err[d]
    BY DEF ErrInv, ResultInv, Settled
  <2> QED
    BY <2>1, WantedTask DEF Settled
<1>9. CountInv'
  <2>1. \A d \in Clients : Counting(d)' = Counting(d)
    BY <1>2, <1>5 DEF Counting
  <2> QED
    BY <2>1, WantedAssumption DEF CountInv, ResultInv, Settled
<1>10. ReturnsResult'
  <2>1. \A d \in Clients : RightReturn(d)
    BY ReturnsEach DEF ResultInv
  <2>2. ASSUME NEW d \in Clients PROVE RightReturn(d)'
    <3>1. \A i \in Futures(d) : result'[Wanted[d][i]].kind = result[Wanted[d][i]].kind
      BY WantedTask DEF Settled
    <3>2. 1 \in Futures(d)
      BY WantedTask
    <3> QED
      BY <2>1, <3>1, <3>2 DEF Settled, RightReturn
  <2> QED
    BY <2>2 DEF ReturnsResult, RightReturn, Futures
<1> QED
  BY <1>4, <1>6, <1>7, <1>8, <1>9, <1>10, <1>11 DEF WakeInv, ResultInv

\* newFuture finds the task completed and returns Ready or Err.
LEMMA NewFutureReadyStep ==
  ASSUME IInv, NEW c \in Clients, NewFutureLoad(c),
         Completed(Task(c)),
         UNCHANGED <<blockVars, joinVars>>
  PROVE  IInv'
<1> USE DEF IInv, Types, ArrayInv
<1>1. /\ pc[c] = "newFuture"
      /\ IF at[c] < Len(Wanted[c])
         THEN pc'[c] = "newFuture" /\ at'[c] = at[c] + 1
         ELSE pc'[c] = "blockOn" /\ at'[c] = 1
      /\ copied' = copied
      /\ seen' = seen
      /\ \A q \in (Clients \cup Completers) \ {c} : pc'[q] = pc[q] /\ seen'[q] = seen[q]
      /\ \A d \in Clients \ {c} : at'[d] = at[d] /\ copied'[d] = copied[d]
      /\ UNCHANGED <<result, wakers, slot, turn, crashed, isWaken, ret, values,
                    pendingCount, done, err, twice, deployed>>
  BY DEF TaskTypes, PlaceTypes, taskVars, futureVars, localVars, blockVars, joinVars, NewFutureLoad, Created, Goto
<1>2. at[c] \in Futures(c) /\ Task(c) \in Tasks
  BY <1>1, WantedTask DEF AtInv, Futures, Task, PlaceTypes
<1>3. TaskTypes'
  BY <1>1, <1>2 DEF TaskTypes, taskVars, futureVars, localVars, blockVars, joinVars, NewFutureLoad, Created, Goto
<1>4. PlaceTypes'
  <2>1. at' \in [Clients -> Nat]
    BY <1>1, <1>2 DEF PlaceTypes, NewFutureLoad, Created, Futures
  <2>2. DOMAIN pc' = Clients \cup Completers
    BY DEF PlaceTypes, NewFutureLoad, Created, Goto
  <2> QED
    BY <1>1, <2>1, <2>2, Goroutines DEF PlaceTypes, ClientPCs
<1>5. JoinTypes'
  BY <1>1 DEF JoinTypes
<1>6. AtInv'
  BY <1>1, <1>2, WantedTask, SingleFuture DEF AtInv, Futures
<1>7. CreatedInv'
  BY <1>1, <1>2, WantedTask DEF CreatedInv, Completed, Futures, Task, AtInv, NewFutureLoad
<1>8. PollingInv'
  BY <1>1, <1>2 DEF PollingInv, CreatedInv, Task, NewFutureLoad
<1>9. SlotInv'
  BY <1>1 DEF SlotInv
<1>10. EntryInv'
  BY <1>1, <1>2 DEF EntryInv, Task
<1>11. VerInv'
  <2> SUFFICES ASSUME NEW q \in Clients \cup Completers, NEW t \in Tasks, Loaded(q, t)'
               PROVE  (/\ seen[q].ver <= result[t].ver
                       /\ seen[q].ver = result[t].ver => seen[q].len = Len(wakers[t]) /\ ~Completed(t))'
    BY DEF VerInv
  <2>1. CASE q = c
    BY <1>1, <1>2, <2>1, Goroutines DEF Loaded, Task, Completed, TaskTypes, NewFutureLoad
  <2>2. CASE q # c
    <3>1. Loaded(q, t)
      BY <1>1, <2>2 DEF Loaded, Task
    <3> QED
      BY <1>1, <2>2, <3>1 DEF VerInv, Completed
  <2> QED
    BY <2>1, <2>2
<1>12. CopyInv'
  <2> SUFFICES ASSUME NEW d \in Clients, (pc[d] = "publish")', Unchanged(d, Task(d))'
               PROVE  GoodCopy(d)'
    BY DEF CopyInv
  <2>1. CASE d = c
    BY <1>1, <2>1 DEF GoodCopy, DeployedInv, Task
  <2>2. CASE d # c
    <3>1. Task(d)' = Task(d) /\ Unchanged(d, Task(d)) /\ pc[d] = "publish"
      BY <1>1, <2>2 DEF Task, Unchanged
    <3>2. GoodCopy(d)
      BY <3>1 DEF CopyInv
    <3> QED
      BY <1>1, <2>2, <3>1, <3>2 DEF GoodCopy
  <2> QED
    BY <2>1, <2>2
<1>13. WriteInv'
  BY <1>1 DEF WriteInv, Unchanged, Registered, Task, Slot
<1>14. DeployedInv'
  BY <1>1 DEF DeployedInv
<1>15. BlockOnInv'
  BY <1>1 DEF BlockOnInv, AtInv
<1>16. Settled(c)
  BY <1>1, <1>2 DEF Settled, Told, Polled, Task, AtInv, Futures, PlaceTypes, NewFutureLoad
<1>17. WakeInv' /\ ResultInv'
  BY <1>7, <1>16, SettledKeeps
<1> QED
  BY <1>3, <1>4, <1>5, <1>6, <1>7, <1>8, <1>9, <1>10, <1>11, <1>12, <1>13, <1>14, <1>15, <1>17

\* newFuture loads the result and copies its array.
LEMMA NewFutureCopiesStep ==
  ASSUME IInv, NEW c \in Clients, NewFutureLoad(c),
         ~Completed(Task(c)),
         UNCHANGED <<blockVars, joinVars>>
  PROVE  IInv'
<1> USE DEF IInv, Types, ArrayInv
<1>1. /\ pc[c] = "newFuture"
      /\ pc'[c] = "publish" /\ at' = at
      /\ copied'[c] = wakers[Task(c)]
      /\ seen'[c] = [ver |-> result[Task(c)].ver, len |-> Len(wakers[Task(c)])]
      /\ \A q \in (Clients \cup Completers) \ {c} : pc'[q] = pc[q] /\ seen'[q] = seen[q]
      /\ \A d \in Clients \ {c} : at'[d] = at[d] /\ copied'[d] = copied[d]
      /\ UNCHANGED <<result, wakers, slot, turn, crashed, isWaken, ret, values,
                    pendingCount, done, err, twice, deployed>>
  BY DEF TaskTypes, PlaceTypes, taskVars, futureVars, localVars, blockVars, joinVars, NewFutureLoad, LoadResult, Goto
<1>2. at[c] \in Futures(c) /\ Task(c) \in Tasks
  BY <1>1, WantedTask DEF AtInv, Futures, Task, PlaceTypes
<1>3. TaskTypes'
  <2>1. result[Task(c)].ver \in Nat /\ Len(wakers[Task(c)]) \in Nat /\ wakers[Task(c)] \in Seq(Slots)
    BY <1>2 DEF TaskTypes
  <2>2. seen' \in [Clients \cup Completers -> [ver : Nat, len : Nat]]
    <3>1. PICK r \in [ver : Nat, len : Nat] : seen' = [seen EXCEPT ![c] = r]
      BY <2>1 DEF NewFutureLoad, LoadResult, Goto
    <3> QED
      BY <3>1 DEF TaskTypes
  <2>3. copied' \in [Clients -> Seq(Slots)]
    BY <1>1, <2>1 DEF TaskTypes, NewFutureLoad, LoadResult, Goto
  <2> QED
    BY <1>1, <2>2, <2>3 DEF TaskTypes
<1>4. PlaceTypes'
  BY <1>1, <1>2, Goroutines, WantedTask DEF PlaceTypes, ClientPCs, Futures, taskVars, futureVars, localVars, blockVars, joinVars, NewFutureLoad, LoadResult, Goto
<1>5. JoinTypes'
  BY <1>1 DEF JoinTypes
<1>6. AtInv'
  BY <1>1, <1>2, WantedTask, SingleFuture DEF AtInv, Futures
<1>7. CreatedInv'
  BY <1>1, <1>2, WantedTask DEF CreatedInv, Completed, Futures, Task, AtInv, NewFutureLoad
<1>8. PollingInv'
  BY <1>1, <1>2 DEF PollingInv, CreatedInv, Task, NewFutureLoad
<1>9. SlotInv'
  BY <1>1 DEF SlotInv
<1>10. EntryInv'
  BY <1>1, <1>2 DEF EntryInv, Task
<1>11. VerInv'
  <2> SUFFICES ASSUME NEW q \in Clients \cup Completers, NEW t \in Tasks, Loaded(q, t)'
               PROVE  (/\ seen[q].ver <= result[t].ver
                       /\ seen[q].ver = result[t].ver => seen[q].len = Len(wakers[t]) /\ ~Completed(t))'
    BY DEF VerInv
  <2>1. CASE q = c
    BY <1>1, <1>2, <2>1, Goroutines DEF Loaded, Task, Completed, TaskTypes, NewFutureLoad
  <2>2. CASE q # c
    <3>1. Loaded(q, t)
      BY <1>1, <2>2 DEF Loaded, Task
    <3> QED
      BY <1>1, <2>2, <3>1 DEF VerInv, Completed
  <2> QED
    BY <2>1, <2>2
<1>12. CopyInv'
  <2> SUFFICES ASSUME NEW d \in Clients, (pc[d] = "publish")', Unchanged(d, Task(d))'
               PROVE  GoodCopy(d)'
    BY DEF CopyInv
  <2>1. CASE d = c
    <3>1. Task(c)' = Task(c) /\ Task(c)' \in Tasks
      BY <1>1, <1>2 DEF Task
    <3>2. copied'[c] = wakers[Task(c)]
      BY <1>1
    <3>3. \A e \in Clients : \A i \in Futures(e) :
            <<e, i>> \in deployed /\ Wanted[e][i] = Task(c) => wakers[Task(c)][slot[e][i]] = <<e, i>>
      BY DEF DeployedInv
    <3> QED
      BY <1>1, <2>1, <3>1, <3>2, <3>3 DEF GoodCopy
  <2>2. CASE d # c
    <3>1. Task(d)' = Task(d) /\ Unchanged(d, Task(d)) /\ pc[d] = "publish"
      BY <1>1, <2>2 DEF Task, Unchanged
    <3>2. GoodCopy(d)
      BY <3>1 DEF CopyInv
    <3> QED
      BY <1>1, <2>2, <3>1, <3>2 DEF GoodCopy
  <2> QED
    BY <2>1, <2>2
<1>13. WriteInv'
  BY <1>1 DEF WriteInv, Unchanged, Registered, Task, Slot
<1>14. DeployedInv'
  BY <1>1 DEF DeployedInv
<1>15. BlockOnInv'
  BY <1>1 DEF BlockOnInv, AtInv
<1>16. Settled(c)
  BY <1>1, <1>2 DEF Settled, Told, Polled, Task, AtInv, Futures, PlaceTypes, NewFutureLoad
<1>17. WakeInv' /\ ResultInv'
  BY <1>7, <1>16, SettledKeeps
<1> QED
  BY <1>3, <1>4, <1>5, <1>6, <1>7, <1>8, <1>9, <1>10, <1>11, <1>12, <1>13, <1>14, <1>15, <1>17

\* newFuture's CAS fails.
LEMMA NewFutureRetriesStep ==
  ASSUME IInv, NEW c \in Clients, NewFuturePublish(c),
         ~Unchanged(c, Task(c)),
         UNCHANGED <<blockVars, joinVars>>
  PROVE  IInv'
<1> USE DEF IInv, Types, ArrayInv
<1>1. /\ pc[c] = "publish"
      /\ pc'[c] = "newFuture" /\ at' = at
      /\ copied'[c] = << >>
      /\ seen'[c] = NoResult
      /\ \A q \in (Clients \cup Completers) \ {c} : pc'[q] = pc[q] /\ seen'[q] = seen[q]
      /\ \A d \in Clients \ {c} : at'[d] = at[d] /\ copied'[d] = copied[d]
      /\ UNCHANGED <<result, wakers, slot, turn, crashed, isWaken, ret, values,
                    pendingCount, done, err, twice, deployed>>
  BY DEF TaskTypes, PlaceTypes, taskVars, futureVars, localVars, blockVars, joinVars, NewFuturePublish, Forget, NoResult, Goto
<1>2. at[c] \in Futures(c) /\ Task(c) \in Tasks
  BY <1>1, WantedTask DEF AtInv, Futures, Task, PlaceTypes
<1>3. TaskTypes'
  BY <1>1, <1>2 DEF TaskTypes, taskVars, futureVars, localVars, blockVars, joinVars, NewFuturePublish, Forget, NoResult, Goto
<1>4. PlaceTypes'
  BY <1>1, <1>2, Goroutines, WantedTask DEF PlaceTypes, ClientPCs, Futures, taskVars, futureVars, localVars, blockVars, joinVars, NewFuturePublish, Forget, NoResult, Goto
<1>5. JoinTypes'
  BY <1>1 DEF JoinTypes
<1>6. AtInv'
  BY <1>1, <1>2, WantedTask, SingleFuture DEF AtInv, Futures
<1>7. CreatedInv'
  BY <1>1, <1>2, WantedTask DEF CreatedInv, Completed, Futures, Task, AtInv, NewFuturePublish
<1>8. PollingInv'
  BY <1>1, <1>2 DEF PollingInv, CreatedInv, Task, NewFuturePublish
<1>9. SlotInv'
  BY <1>1 DEF SlotInv
<1>10. EntryInv'
  BY <1>1, <1>2 DEF EntryInv, Task
<1>11. VerInv'
  <2> SUFFICES ASSUME NEW q \in Clients \cup Completers, NEW t \in Tasks, Loaded(q, t)'
               PROVE  (/\ seen[q].ver <= result[t].ver
                       /\ seen[q].ver = result[t].ver => seen[q].len = Len(wakers[t]) /\ ~Completed(t))'
    BY DEF VerInv
  <2>1. CASE q = c
    BY <1>1, <1>2, <2>1, Goroutines DEF Loaded, Task, Completed, TaskTypes, NewFuturePublish
  <2>2. CASE q # c
    <3>1. Loaded(q, t)
      BY <1>1, <2>2 DEF Loaded, Task
    <3> QED
      BY <1>1, <2>2, <3>1 DEF VerInv, Completed
  <2> QED
    BY <2>1, <2>2
<1>12. CopyInv'
  <2> SUFFICES ASSUME NEW d \in Clients, (pc[d] = "publish")', Unchanged(d, Task(d))'
               PROVE  GoodCopy(d)'
    BY DEF CopyInv
  <2>1. CASE d = c
    BY <1>1, <2>1 DEF GoodCopy, DeployedInv, Task
  <2>2. CASE d # c
    <3>1. Task(d)' = Task(d) /\ Unchanged(d, Task(d)) /\ pc[d] = "publish"
      BY <1>1, <2>2 DEF Task, Unchanged
    <3>2. GoodCopy(d)
      BY <3>1 DEF CopyInv
    <3> QED
      BY <1>1, <2>2, <3>1, <3>2 DEF GoodCopy
  <2> QED
    BY <2>1, <2>2
<1>13. WriteInv'
  BY <1>1 DEF WriteInv, Unchanged, Registered, Task, Slot
<1>14. DeployedInv'
  BY <1>1 DEF DeployedInv
<1>15. BlockOnInv'
  BY <1>1 DEF BlockOnInv, AtInv
<1>16. Settled(c)
  BY <1>1, <1>2 DEF Settled, Told, Polled, Task, AtInv, Futures, PlaceTypes, NewFuturePublish
<1>17. WakeInv' /\ ResultInv'
  BY <1>7, <1>16, SettledKeeps
<1> QED
  BY <1>3, <1>4, <1>5, <1>6, <1>7, <1>8, <1>9, <1>10, <1>11, <1>12, <1>13, <1>14, <1>15, <1>17

\* Poll of a join finds its waker in the array and returns Pending.
LEMMA PollFindsStep ==
  ASSUME IInv, NEW c \in Clients, PollLoad(c),
         c \in Joiners /\ Registered(c),
         UNCHANGED <<blockVars, joinVars>>
  PROVE  IInv'
<1> USE DEF IInv, Types, ArrayInv
<1>1. /\ pc[c] = "poll"
      /\ pc'[c] = "pending" /\ at' = at
      /\ copied' = copied
      /\ seen' = seen
      /\ \A q \in (Clients \cup Completers) \ {c} : pc'[q] = pc[q] /\ seen'[q] = seen[q]
      /\ \A d \in Clients \ {c} : at'[d] = at[d] /\ copied'[d] = copied[d]
      /\ UNCHANGED <<result, wakers, slot, turn, crashed, isWaken, ret, values,
                    pendingCount, done, err, twice, deployed>>
  BY DEF TaskTypes, PlaceTypes, taskVars, futureVars, localVars, blockVars, joinVars, PollLoad, Goto
<1>2. at[c] \in Futures(c) /\ Task(c) \in Tasks
  BY <1>1, WantedTask DEF AtInv, Futures, Task, PlaceTypes
<1>3. TaskTypes'
  BY <1>1, <1>2 DEF TaskTypes, taskVars, futureVars, localVars, blockVars, joinVars, PollLoad, Goto
<1>4. PlaceTypes'
  BY <1>1, <1>2, Goroutines, WantedTask DEF PlaceTypes, ClientPCs, Futures, taskVars, futureVars, localVars, blockVars, joinVars, PollLoad, Goto
<1>5. JoinTypes'
  BY <1>1 DEF JoinTypes
<1>6. AtInv'
  BY <1>1, <1>2, WantedTask, SingleFuture DEF AtInv, Futures
<1>7. CreatedInv'
  BY <1>1, <1>2, WantedTask DEF CreatedInv, Completed, Futures, Task, AtInv, PollLoad
<1>8. PollingInv'
  BY <1>1, <1>2 DEF PollingInv, CreatedInv, Task, PollLoad
<1>9. SlotInv'
  BY <1>1 DEF SlotInv
<1>10. EntryInv'
  BY <1>1, <1>2 DEF EntryInv, Task
<1>11. VerInv'
  <2> SUFFICES ASSUME NEW q \in Clients \cup Completers, NEW t \in Tasks, Loaded(q, t)'
               PROVE  (/\ seen[q].ver <= result[t].ver
                       /\ seen[q].ver = result[t].ver => seen[q].len = Len(wakers[t]) /\ ~Completed(t))'
    BY DEF VerInv
  <2>1. CASE q = c
    BY <1>1, <1>2, <2>1, Goroutines DEF Loaded, Task, Completed, TaskTypes, PollLoad
  <2>2. CASE q # c
    <3>1. Loaded(q, t)
      BY <1>1, <2>2 DEF Loaded, Task
    <3> QED
      BY <1>1, <2>2, <3>1 DEF VerInv, Completed
  <2> QED
    BY <2>1, <2>2
<1>12. CopyInv'
  <2> SUFFICES ASSUME NEW d \in Clients, (pc[d] = "publish")', Unchanged(d, Task(d))'
               PROVE  GoodCopy(d)'
    BY DEF CopyInv
  <2>1. CASE d = c
    BY <1>1, <2>1 DEF GoodCopy, DeployedInv, Task
  <2>2. CASE d # c
    <3>1. Task(d)' = Task(d) /\ Unchanged(d, Task(d)) /\ pc[d] = "publish"
      BY <1>1, <2>2 DEF Task, Unchanged
    <3>2. GoodCopy(d)
      BY <3>1 DEF CopyInv
    <3> QED
      BY <1>1, <2>2, <3>1, <3>2 DEF GoodCopy
  <2> QED
    BY <2>1, <2>2
<1>13. WriteInv'
  BY <1>1 DEF WriteInv, Unchanged, Registered, Task, Slot
<1>14. DeployedInv'
  BY <1>1 DEF DeployedInv
<1>15. BlockOnInv'
  BY <1>1 DEF BlockOnInv, AtInv
<1>16. Settled(c)
  BY <1>1, <1>2 DEF Settled, Told, Polled, Task, AtInv, Futures, PlaceTypes, PollLoad
<1>17. WakeInv' /\ ResultInv'
  BY <1>7, <1>16, SettledKeeps
<1> QED
  BY <1>3, <1>4, <1>5, <1>6, <1>7, <1>8, <1>9, <1>10, <1>11, <1>12, <1>13, <1>14, <1>15, <1>17

\* Poll loads the result to write its waker.
LEMMA PollLoadsStep ==
  ASSUME IInv, NEW c \in Clients, PollLoad(c),
         ~(c \in Joiners /\ Registered(c)),
         UNCHANGED <<blockVars, joinVars>>
  PROVE  IInv'
<1> USE DEF IInv, Types, ArrayInv
<1>1. /\ pc[c] = "poll"
      /\ pc'[c] = "write" /\ at' = at
      /\ copied' = copied
      /\ seen'[c] = [ver |-> result[Task(c)].ver, len |-> Len(wakers[Task(c)])]
      /\ \A q \in (Clients \cup Completers) \ {c} : pc'[q] = pc[q] /\ seen'[q] = seen[q]
      /\ \A d \in Clients \ {c} : at'[d] = at[d] /\ copied'[d] = copied[d]
      /\ UNCHANGED <<result, wakers, slot, turn, crashed, isWaken, ret, values,
                    pendingCount, done, err, twice, deployed>>
  BY DEF TaskTypes, PlaceTypes, taskVars, futureVars, localVars, blockVars, joinVars, PollLoad, LoadResult, Goto
<1>2. at[c] \in Futures(c) /\ Task(c) \in Tasks
  BY <1>1, WantedTask DEF AtInv, Futures, Task, PlaceTypes
<1>3. TaskTypes'
  <2>1. result[Task(c)].ver \in Nat /\ Len(wakers[Task(c)]) \in Nat /\ wakers[Task(c)] \in Seq(Slots)
    BY <1>2 DEF TaskTypes
  <2>2. seen' \in [Clients \cup Completers -> [ver : Nat, len : Nat]]
    <3>1. PICK r \in [ver : Nat, len : Nat] : seen' = [seen EXCEPT ![c] = r]
      BY <2>1 DEF PollLoad, LoadResult, Goto
    <3> QED
      BY <3>1 DEF TaskTypes
  <2>3. copied' \in [Clients -> Seq(Slots)]
    BY <1>1, <2>1 DEF TaskTypes, PollLoad, LoadResult, Goto
  <2> QED
    BY <1>1, <2>2, <2>3 DEF TaskTypes
<1>4. PlaceTypes'
  BY <1>1, <1>2, Goroutines, WantedTask DEF PlaceTypes, ClientPCs, Futures, taskVars, futureVars, localVars, blockVars, joinVars, PollLoad, LoadResult, Goto
<1>5. JoinTypes'
  BY <1>1 DEF JoinTypes
<1>6. AtInv'
  BY <1>1, <1>2, WantedTask, SingleFuture DEF AtInv, Futures
<1>7. CreatedInv'
  BY <1>1, <1>2, WantedTask DEF CreatedInv, Completed, Futures, Task, AtInv, PollLoad
<1>8. PollingInv'
  BY <1>1, <1>2 DEF PollingInv, CreatedInv, Task, PollLoad
<1>9. SlotInv'
  BY <1>1 DEF SlotInv
<1>10. EntryInv'
  BY <1>1, <1>2 DEF EntryInv, Task
<1>11. VerInv'
  <2> SUFFICES ASSUME NEW q \in Clients \cup Completers, NEW t \in Tasks, Loaded(q, t)'
               PROVE  (/\ seen[q].ver <= result[t].ver
                       /\ seen[q].ver = result[t].ver => seen[q].len = Len(wakers[t]) /\ ~Completed(t))'
    BY DEF VerInv
  <2>1. CASE q = c
    BY <1>1, <1>2, <2>1, Goroutines DEF Loaded, Task, Completed, TaskTypes, PollLoad
  <2>2. CASE q # c
    <3>1. Loaded(q, t)
      BY <1>1, <2>2 DEF Loaded, Task
    <3> QED
      BY <1>1, <2>2, <3>1 DEF VerInv, Completed
  <2> QED
    BY <2>1, <2>2
<1>12. CopyInv'
  <2> SUFFICES ASSUME NEW d \in Clients, (pc[d] = "publish")', Unchanged(d, Task(d))'
               PROVE  GoodCopy(d)'
    BY DEF CopyInv
  <2>1. CASE d = c
    BY <1>1, <2>1 DEF GoodCopy, DeployedInv, Task
  <2>2. CASE d # c
    <3>1. Task(d)' = Task(d) /\ Unchanged(d, Task(d)) /\ pc[d] = "publish"
      BY <1>1, <2>2 DEF Task, Unchanged
    <3>2. GoodCopy(d)
      BY <3>1 DEF CopyInv
    <3> QED
      BY <1>1, <2>2, <3>1, <3>2 DEF GoodCopy
  <2> QED
    BY <2>1, <2>2
<1>13. WriteInv'
  BY <1>1 DEF WriteInv, Unchanged, Registered, Task, Slot
<1>14. DeployedInv'
  BY <1>1 DEF DeployedInv
<1>15. BlockOnInv'
  BY <1>1 DEF BlockOnInv, AtInv
<1>16. Settled(c)
  BY <1>1, <1>2 DEF Settled, Told, Polled, Task, AtInv, Futures, PlaceTypes, PollLoad
<1>17. WakeInv' /\ ResultInv'
  BY <1>7, <1>16, SettledKeeps
<1> QED
  BY <1>3, <1>4, <1>5, <1>6, <1>7, <1>8, <1>9, <1>10, <1>11, <1>12, <1>13, <1>14, <1>15, <1>17

\* Poll's CAS fails.
LEMMA PollRetriesStep ==
  ASSUME IInv, NEW c \in Clients, PollRegister(c),
         ~Unchanged(c, Task(c)),
         UNCHANGED <<blockVars, joinVars>>
  PROVE  IInv'
<1> USE DEF IInv, Types, ArrayInv
<1>1. /\ pc[c] = "register"
      /\ pc'[c] = "poll" /\ at' = at
      /\ copied' = copied
      /\ seen'[c] = NoResult
      /\ \A q \in (Clients \cup Completers) \ {c} : pc'[q] = pc[q] /\ seen'[q] = seen[q]
      /\ \A d \in Clients \ {c} : at'[d] = at[d] /\ copied'[d] = copied[d]
      /\ UNCHANGED <<result, wakers, slot, turn, crashed, isWaken, ret, values,
                    pendingCount, done, err, twice, deployed>>
  BY DEF TaskTypes, PlaceTypes, taskVars, futureVars, localVars, blockVars, joinVars, PollRegister, Forget, NoResult, Goto
<1>2. at[c] \in Futures(c) /\ Task(c) \in Tasks
  BY <1>1, WantedTask DEF AtInv, Futures, Task, PlaceTypes
<1>3. TaskTypes'
  BY <1>1, <1>2 DEF TaskTypes, taskVars, futureVars, localVars, blockVars, joinVars, PollRegister, Forget, NoResult, Goto
<1>4. PlaceTypes'
  BY <1>1, <1>2, Goroutines, WantedTask DEF PlaceTypes, ClientPCs, Futures, taskVars, futureVars, localVars, blockVars, joinVars, PollRegister, Forget, NoResult, Goto
<1>5. JoinTypes'
  BY <1>1 DEF JoinTypes
<1>6. AtInv'
  BY <1>1, <1>2, WantedTask, SingleFuture DEF AtInv, Futures
<1>7. CreatedInv'
  BY <1>1, <1>2, WantedTask DEF CreatedInv, Completed, Futures, Task, AtInv, PollRegister
<1>8. PollingInv'
  BY <1>1, <1>2 DEF PollingInv, CreatedInv, Task, PollRegister
<1>9. SlotInv'
  BY <1>1 DEF SlotInv
<1>10. EntryInv'
  BY <1>1, <1>2 DEF EntryInv, Task
<1>11. VerInv'
  <2> SUFFICES ASSUME NEW q \in Clients \cup Completers, NEW t \in Tasks, Loaded(q, t)'
               PROVE  (/\ seen[q].ver <= result[t].ver
                       /\ seen[q].ver = result[t].ver => seen[q].len = Len(wakers[t]) /\ ~Completed(t))'
    BY DEF VerInv
  <2>1. CASE q = c
    BY <1>1, <1>2, <2>1, Goroutines DEF Loaded, Task, Completed, TaskTypes, PollRegister
  <2>2. CASE q # c
    <3>1. Loaded(q, t)
      BY <1>1, <2>2 DEF Loaded, Task
    <3> QED
      BY <1>1, <2>2, <3>1 DEF VerInv, Completed
  <2> QED
    BY <2>1, <2>2
<1>12. CopyInv'
  <2> SUFFICES ASSUME NEW d \in Clients, (pc[d] = "publish")', Unchanged(d, Task(d))'
               PROVE  GoodCopy(d)'
    BY DEF CopyInv
  <2>1. CASE d = c
    BY <1>1, <2>1 DEF GoodCopy, DeployedInv, Task
  <2>2. CASE d # c
    <3>1. Task(d)' = Task(d) /\ Unchanged(d, Task(d)) /\ pc[d] = "publish"
      BY <1>1, <2>2 DEF Task, Unchanged
    <3>2. GoodCopy(d)
      BY <3>1 DEF CopyInv
    <3> QED
      BY <1>1, <2>2, <3>1, <3>2 DEF GoodCopy
  <2> QED
    BY <2>1, <2>2
<1>13. WriteInv'
  BY <1>1 DEF WriteInv, Unchanged, Registered, Task, Slot
<1>14. DeployedInv'
  BY <1>1 DEF DeployedInv
<1>15. BlockOnInv'
  BY <1>1 DEF BlockOnInv, AtInv
<1>16. Settled(c)
  BY <1>1, <1>2 DEF Settled, Told, Polled, Task, AtInv, Futures, PlaceTypes, PollRegister
<1>17. WakeInv' /\ ResultInv'
  BY <1>7, <1>16, SettledKeeps
<1> QED
  BY <1>3, <1>4, <1>5, <1>6, <1>7, <1>8, <1>9, <1>10, <1>11, <1>12, <1>13, <1>14, <1>15, <1>17

\* The in-place write of a waker, of its first word or of both.
LEMMA WriteStep ==
  ASSUME IInv, NEW c \in Clients, NEW v,
         pc[c] \in {"write", "writing"}, pc'[c] \in {"writing", "register"},
         v = <<c, at[c]>> \/ (v = Torn /\ ~Registered(c) /\ pc'[c] = "writing"),
         InPlace(c, v), Goto(c, pc'[c]),
         UNCHANGED <<result, futureVars, localVars, crashed, blockVars, joinVars>>
  PROVE  IInv'
<1> USE DEF IInv, Types, ArrayInv
<1> DEFINE t == Wanted[c][at[c]]
<1> DEFINE s == slot[c][at[c]]
<1>1. /\ \A q \in (Clients \cup Completers) \ {c} : pc'[q] = pc[q]
      /\ UNCHANGED <<result, slot, at, seen, copied, turn, crashed, isWaken, ret, values,
                     pendingCount, done, err, twice, deployed>>
  BY DEF PlaceTypes, futureVars, localVars, blockVars, joinVars, Goto
<1>2. at[c] \in Futures(c) /\ t \in Tasks /\ Task(c) = t /\ Slot(c) = s
  BY WantedTask DEF AtInv, Futures, Task, PlaceTypes, Slot
<1>3. s \in 1..Len(wakers[t]) /\ wakers[t] \in Seq(Slots) /\ v \in Slots
  BY <1>2, WakerPairs DEF SlotInv, PollingInv, TaskTypes, Slots
<1>4. /\ \A u \in Tasks \ {t} : wakers'[u] = wakers[u]
      /\ wakers'[t] \in Seq(Slots)
      /\ Len(wakers'[t]) = Len(wakers[t])
      /\ \A k \in 1..Len(wakers[t]) : k # s => wakers'[t][k] = wakers[t][k]
      /\ wakers'[t][s] = IF seen[c].len = Len(wakers[t]) THEN v ELSE wakers[t][s]
      /\ DOMAIN wakers' = Tasks
  <2>1. CASE seen[c].len = Len(wakers[t])
    <3> DEFINE n == [wakers[t] EXCEPT ![s] = v]
    <3>1. wakers' = [wakers EXCEPT ![t] = n]
      BY <1>2, <2>1 DEF InPlace
    <3>2. n \in Seq(Slots) /\ Len(n) = Len(wakers[t]) /\ n[s] = v
          /\ \A k \in 1..Len(wakers[t]) : k # s => n[k] = wakers[t][k]
      BY <1>3, ExceptSeq
    <3> HIDE DEF n
    <3> QED
      BY <1>2, <2>1, <3>1, <3>2 DEF TaskTypes
  <2>2. CASE seen[c].len # Len(wakers[t])
    <3>1. wakers' = wakers
      BY <1>2, <2>2 DEF InPlace
    <3> QED
      BY <1>3, <2>2, <3>1 DEF TaskTypes
  <2> QED
    BY <2>1, <2>2
<1>5. \A u \in Tasks : Len(wakers'[u]) = Len(wakers[u])
  BY <1>4
<1>a. s > 0 /\ Wanted[c][at[c]] = t
  BY <1>3
<1> HIDE DEF t, s
\* The slot that is written belongs to no other future.
<1>6. ASSUME NEW d \in Clients, NEW i \in Futures(d), slot[d][i] > 0, d # c \/ i # at[c]
      PROVE  wakers'[Wanted[d][i]][slot[d][i]] = wakers[Wanted[d][i]][slot[d][i]]
  <2>1. Wanted[d][i] \in Tasks
    BY WantedTask
  <2>2. slot[d][i] \in 1..Len(wakers[Wanted[d][i]])
    BY <1>2, <1>6, <2>1 DEF SlotInv, TaskTypes
  <2>3. Wanted[d][i] = t => slot[d][i] # s
    BY <1>2, <1>6, <1>a DEF SlotInv, s
  <2> QED
    BY <1>4, <2>1, <2>2, <2>3
\* A waker in the array stays there.
<1>7. ASSUME NEW u \in Tasks, NEW k \in 1..Len(wakers[u]), wakers[u][k] \in Wakers
      PROVE  wakers'[u][k] = wakers[u][k]
  <2>1. PICK d \in Clients : \E i \in Futures(d) : wakers[u][k] = <<d, i>>
    BY <1>7, WakerPairs
  <2>2. PICK i \in Futures(d) : wakers[u][k] = <<d, i>>
    BY <2>1
  <2>3. Wanted[d][i] = u /\ slot[d][i] = k
    BY <2>2 DEF EntryInv
  <2>4. CASE d # c \/ i # at[c]
    BY <1>6, <2>3, <2>4
  <2>5. CASE d = c /\ i = at[c]
    <3>1. u = t /\ k = s /\ wakers[t][s] = <<c, at[c]>>
      BY <2>2, <2>3, <2>5, <1>a DEF s
    <3>2. v = <<c, at[c]>>
      BY <1>2, <3>1 DEF Registered
    <3> QED
      BY <1>4, <3>1, <3>2
  <2> QED
    BY <2>4, <2>5
<1>8. TaskTypes'
  <2>1. wakers' \in [Tasks -> Seq(Slots)]
    <3>1. \A u \in Tasks : wakers'[u] \in Seq(Slots)
      BY <1>4 DEF TaskTypes
    <3>2. wakers' = [u \in Tasks |-> wakers'[u]]
      BY <1>2 DEF InPlace, TaskTypes
    <3> QED
      BY <3>1, <3>2
  <2> QED
    BY <1>1, <2>1 DEF TaskTypes
<1>9. PlaceTypes' /\ JoinTypes'
  BY <1>1, Goroutines DEF PlaceTypes, JoinTypes, Goto, ClientPCs
<1>10. AtInv'
  BY <1>1 DEF AtInv
<1>11. CreatedInv'
  BY <1>1, WantedTask DEF CreatedInv, Completed
<1>12. PollingInv'
  BY <1>1 DEF PollingInv
<1>13. SlotInv'
  BY <1>1, <1>5, WantedTask DEF SlotInv
<1>14. EntryInv'
  <2>1. ASSUME NEW d \in Clients, NEW i \in Futures(d), NEW u \in Tasks, NEW k \in 1..Len(wakers[u]),
               wakers'[u][k] = <<d, i>>
        PROVE  Wanted[d][i] = u /\ slot[d][i] = k
    <3>1. CASE wakers[u][k] = <<d, i>>
      BY <3>1 DEF EntryInv
    <3>2. CASE wakers[u][k] # <<d, i>>
      <4>1. u = t /\ k = s /\ v = <<d, i>>
        BY <1>4, <2>1, <3>2
      <4>2. d = c /\ i = at[c]
        BY <4>1, WakerNames
      <4> QED
        BY <4>1, <4>2, <1>a DEF s
    <3> QED
      BY <3>1, <3>2
  <2>2. \A d \in Clients : pc'[d] = "publish" => pc[d] = "publish" /\ Task(d)' = Task(d)
    BY <1>1 DEF Task
  <2> QED
    BY <1>1, <1>5, <2>1, <2>2 DEF EntryInv
<1>15. VerInv'
  <2> SUFFICES ASSUME NEW q \in Clients \cup Completers, NEW u \in Tasks, Loaded(q, u)'
               PROVE  Loaded(q, u)
    BY <1>1, <1>5 DEF VerInv, Completed
  <2> QED
    BY <1>1 DEF Loaded, Task
<1>16. CopyInv'
  <2> SUFFICES ASSUME NEW d \in Clients, (pc[d] = "publish")', Unchanged(d, Task(d))'
               PROVE  GoodCopy(d)'
    BY DEF CopyInv
  <2>1. Task(d)' = Task(d) /\ Unchanged(d, Task(d)) /\ pc[d] = "publish"
    BY <1>1 DEF Task, Unchanged
  <2>2. GoodCopy(d)
    BY <2>1 DEF CopyInv
  <2>3. Task(d) \in Tasks
    BY <2>1, WantedTask DEF Task, AtInv, Futures, PlaceTypes
  <2> QED
    BY <1>1, <1>5, <2>1, <2>2, <2>3 DEF GoodCopy
<1>17. WriteInv'
  <2> SUFFICES ASSUME NEW d \in Clients, (pc[d] = "register")', Unchanged(d, Task(d))'
               PROVE  (wakers[Wanted[d][at[d]]][slot[d][at[d]]] = <<d, at[d]>>)'
    BY DEF WriteInv, Registered, Task, Slot
  <2>1. Task(d)' = Task(d) /\ Unchanged(d, Task(d)) /\ at' = at /\ slot' = slot
    BY <1>1 DEF Task, Unchanged
  <2>2. CASE d # c
    <3>1. pc[d] = "register" /\ at[d] \in Futures(d)
      BY <1>1, <2>2, WantedTask DEF AtInv, Futures, PlaceTypes
    <3>2. Registered(d) /\ slot[d][at[d]] > 0
      BY <2>1, <3>1 DEF WriteInv, PollingInv
    <3> QED
      BY <1>6, <2>1, <2>2, <3>1, <3>2 DEF Registered, Task, Slot
  <2>3. CASE d = c
    <3>1. Loaded(c, t)
      BY <1>2 DEF Loaded
    <3>2. seen[c].len = Len(wakers[t])
      BY <1>2, <2>1, <2>3, <3>1 DEF VerInv, Unchanged
    <3> QED
      BY <1>4, <1>a, <2>1, <2>3, <3>2 DEF s
  <2> QED
    BY <2>2, <2>3
<1>18. DeployedInv'
  <2> SUFFICES ASSUME NEW d \in Clients, NEW i \in Futures(d), <<d, i>> \in deployed
               PROVE  slot[d][i] > 0 /\ wakers'[Wanted[d][i]][slot[d][i]] = <<d, i>>
    BY <1>1 DEF DeployedInv
  <2>1. slot[d][i] > 0 /\ wakers[Wanted[d][i]][slot[d][i]] = <<d, i>> /\ Wanted[d][i] \in Tasks
    BY WantedTask DEF DeployedInv
  <2>2. slot[d][i] \in 1..Len(wakers[Wanted[d][i]]) /\ <<d, i>> \in Wakers
    BY <1>2, <2>1, WakerPairs DEF SlotInv, TaskTypes
  <2> QED
    BY <1>7, <2>1, <2>2
<1>19. BlockOnInv'
  BY <1>1 DEF BlockOnInv
<1>20. Settled(c)
  <2>1. ASSUME NEW d \in Clients, NEW i \in Futures(d), Told(d, i)'
        PROVE  /\ Told(d, i)
               /\ wakers'[Wanted[d][i]][slot[d][i]] = wakers[Wanted[d][i]][slot[d][i]]
    <3>1. Told(d, i) /\ (d # c \/ i # at[c])
      BY <1>1, <2>1 DEF Told, Polled, Futures, PlaceTypes
    <3>2. slot[d][i] > 0
      BY <3>1 DEF ToldInv, WakeInv
    <3> QED
      BY <1>6, <3>1, <3>2
  <2> QED
    BY <1>1, <1>5, <1>7, <2>1 DEF Settled
<1>21. WakeInv' /\ ResultInv'
  BY <1>11, <1>20, SettledKeeps
<1> QED
  BY <1>8, <1>9, <1>10, <1>11, <1>12, <1>13, <1>14, <1>15, <1>16, <1>17, <1>18, <1>19, <1>21

\* Poll writes the first word of its waker.
LEMMA PollWriteStep ==
  ASSUME IInv, NEW c \in Clients, PollWrite(c), UNCHANGED <<blockVars, joinVars>>
  PROVE  IInv'
<1> DEFINE v == IF Registered(c) THEN <<c, at[c]>> ELSE Torn
<1>1. pc[c] = "write" /\ pc'[c] = "writing" /\ InPlace(c, v)
  BY DEF PollWrite, Goto, IInv, Types, PlaceTypes
<1>2. v = <<c, at[c]>> \/ (v = Torn /\ ~Registered(c) /\ pc'[c] = "writing")
  BY <1>1
<1>3. Goto(c, pc'[c]) /\ UNCHANGED <<result, futureVars, localVars, crashed>>
  BY <1>1 DEF PollWrite, Goto
<1> HIDE DEF v
<1> QED
  BY <1>1, <1>2, <1>3, WriteStep

\* Poll writes the second word.
LEMMA PollWrittenStep ==
  ASSUME IInv, NEW c \in Clients, PollWritten(c), UNCHANGED <<blockVars, joinVars>>
  PROVE  IInv'
<1>1. pc[c] = "writing" /\ pc'[c] = "register" /\ InPlace(c, <<c, at[c]>>)
  BY DEF PollWritten, Goto, IInv, Types, PlaceTypes
<1>2. Goto(c, pc'[c]) /\ UNCHANGED <<result, futureVars, localVars, crashed>>
  BY <1>1 DEF PollWritten, Goto
<1> QED
  BY <1>1, <1>2, WriteStep

\* What a CAS that leaves the task incomplete does to the result, and to
\* those who loaded the result before it.
LEMMA PublishFacts ==
  ASSUME IInv, NEW t \in Tasks, Publish(t, "none"), ~Completed(t)
  PROVE  /\ result' \in [Tasks -> [kind : {"none"} \cup Kinds, ver : Nat]]
         /\ result'[t].ver = result[t].ver + 1
         /\ \A u \in Tasks : result'[u].kind = result[u].kind
         /\ \A u \in Tasks \ {t} : result'[u] = result[u]
         /\ \A q \in Clients \cup Completers : Loaded(q, t) => seen[q].ver < result'[t].ver
<1> DEFINE r == [kind |-> "none", ver |-> result[t].ver + 1]
<1>1. result' = [result EXCEPT ![t] = r]
  BY DEF Publish
<1>2. result[t] \in [kind : {"none"} \cup Kinds, ver : Nat] /\ result[t].kind = "none"
  BY DEF IInv, Types, TaskTypes, Completed
<1>3. r \in [kind : {"none"} \cup Kinds, ver : Nat] /\ r.kind = "none" /\ r.ver = result[t].ver + 1
  BY <1>2
<1> HIDE DEF r
<1>4. /\ result' \in [Tasks -> [kind : {"none"} \cup Kinds, ver : Nat]]
      /\ result'[t] = r
      /\ \A u \in Tasks \ {t} : result'[u] = result[u]
  BY <1>1, <1>3 DEF IInv, Types, TaskTypes
<1>5. ASSUME NEW q \in Clients \cup Completers, Loaded(q, t)
      PROVE  seen[q].ver < result'[t].ver
  <2>1. seen[q].ver <= result[t].ver /\ seen[q].ver \in Nat
    BY <1>5 DEF IInv, ArrayInv, VerInv, Types, TaskTypes
  <2> QED
    BY <2>1, <1>2, <1>3, <1>4
<1> QED
  BY <1>2, <1>3, <1>4, <1>5

\* Poll's CAS succeeds: the waker is deployed.
LEMMA PollDeploysStep ==
  ASSUME IInv, NEW c \in Clients, PollRegister(c), Unchanged(c, Task(c)),
         deployed' = deployed \cup {<<c, at[c]>>},
         UNCHANGED <<blockVars, values, pendingCount, done, err, twice>>
  PROVE  IInv'
<1> USE DEF IInv, Types, ArrayInv
<1>1. /\ pc[c] = "register" /\ pc'[c] = "pending"
      /\ \A q \in (Clients \cup Completers) \ {c} : pc'[q] = pc[q] /\ seen'[q] = seen[q]
      /\ UNCHANGED <<wakers, slot, at, copied, turn, crashed, isWaken, ret, values,
                     pendingCount, done, err, twice>>
  BY DEF TaskTypes, PlaceTypes, futureVars, blockVars, PollRegister, Goto, Forget
<1>2. PICK t \in Tasks : t = Task(c) /\ at[c] \in Futures(c) /\ t = Wanted[c][at[c]]
  BY <1>1, WantedTask DEF AtInv, Futures, Task, PlaceTypes
<1>3. Loaded(c, t) /\ ~Completed(t) /\ Publish(t, "none")
  BY <1>1, <1>2 DEF Loaded, VerInv, PollRegister, Unchanged
<1>4. /\ result' \in [Tasks -> [kind : {"none"} \cup Kinds, ver : Nat]]
      /\ result'[t].ver = result[t].ver + 1
      /\ \A u \in Tasks : result'[u].kind = result[u].kind
      /\ \A u \in Tasks \ {t} : result'[u] = result[u]
      /\ \A q \in Clients \cup Completers : Loaded(q, t) => seen[q].ver < result'[t].ver
  BY <1>2, <1>3, PublishFacts
<1>5. \A u \in Tasks : Completed(u)' <=> Completed(u)
  BY <1>4 DEF Completed
\* Those who loaded the task's result before fail.
<1>6. ASSUME NEW q \in Clients \cup Completers, NEW u \in Tasks, Loaded(q, u)'
      PROVE  /\ q # c /\ Loaded(q, u) /\ seen'[q] = seen[q]
             /\ u = t => seen'[q].ver < result'[u].ver
  <2>1. q # c
    BY <1>1, <1>6, Goroutines DEF Loaded
  <2>2. Loaded(q, u) /\ seen'[q] = seen[q]
    BY <1>1, <1>6, <2>1 DEF Loaded, Task
  <2> QED
    BY <1>4, <2>1, <2>2
<1>7. ASSUME NEW d \in Clients, pc'[d] \in {"publish", "register"}, Unchanged(d, Task(d))'
      PROVE  /\ d # c /\ pc[d] = pc'[d] /\ Task(d)' = Task(d)
             /\ Task(d) \in Tasks \ {t} /\ Unchanged(d, Task(d))
  <2>1. d # c /\ pc[d] = pc'[d] /\ Task(d)' = Task(d) /\ seen'[d] = seen[d]
    BY <1>1, <1>7 DEF Task
  <2>2. Task(d) \in Tasks /\ Loaded(d, Task(d))' /\ seen'[d].ver \in Nat
    BY <1>7, <2>1, WantedTask DEF Task, AtInv, Futures, PlaceTypes, Loaded, TaskTypes
  <2>3. Task(d) # t
    BY <1>4, <1>6, <1>7, <2>1, <2>2 DEF Unchanged, TaskTypes
  <2> QED
    BY <1>4, <1>7, <2>1, <2>2, <2>3 DEF Unchanged
<1>8. TaskTypes' /\ PlaceTypes' /\ JoinTypes'
  <2>1. TaskTypes'
    BY <1>1, <1>4 DEF TaskTypes, PollRegister, Forget, NoResult
  <2>2. PlaceTypes'
    BY <1>1, Goroutines DEF PlaceTypes, PollRegister, Goto, ClientPCs
  <2>3. JoinTypes'
    BY <1>1, <1>2, WakerPairs DEF JoinTypes
  <2> QED
    BY <2>1, <2>2, <2>3
<1>10. AtInv'
  BY <1>1 DEF AtInv
<1>11. CreatedInv'
  BY <1>1, <1>5, WantedTask DEF CreatedInv
<1>12. PollingInv'
  BY <1>1 DEF PollingInv
<1>13. SlotInv'
  BY <1>1 DEF SlotInv
<1>14. EntryInv'
  BY <1>1 DEF EntryInv, Task
<1>15. VerInv'
  <2> SUFFICES ASSUME NEW q \in Clients \cup Completers, NEW u \in Tasks, Loaded(q, u)'
               PROVE  (/\ seen[q].ver <= result[u].ver
                       /\ seen[q].ver = result[u].ver => seen[q].len = Len(wakers[u]) /\ ~Completed(u))'
    BY DEF VerInv
  <2>1. Loaded(q, u) /\ seen'[q] = seen[q] /\ seen[q].ver \in Nat /\ result'[u].ver \in Nat
    BY <1>4, <1>6 DEF TaskTypes
  <2>2. CASE u = t
    BY <1>6, <2>1, <2>2
  <2>3. CASE u # t
    BY <1>1, <1>4, <1>5, <2>1, <2>3 DEF VerInv
  <2> QED
    BY <2>2, <2>3
<1>16. CopyInv'
  <2> SUFFICES ASSUME NEW d \in Clients, (pc[d] = "publish")', Unchanged(d, Task(d))'
               PROVE  GoodCopy(d)'
    BY DEF CopyInv
  <2>1. /\ d # c /\ pc[d] = "publish" /\ Task(d)' = Task(d)
        /\ Task(d) \in Tasks \ {t} /\ Unchanged(d, Task(d))
    BY <1>7
  <2>2. GoodCopy(d)
    BY <2>1 DEF CopyInv
  <2> QED
    BY <1>1, <1>2, <2>1, <2>2 DEF GoodCopy
<1>17. WriteInv'
  <2> SUFFICES ASSUME NEW d \in Clients, (pc[d] = "register")', Unchanged(d, Task(d))'
               PROVE  Registered(d)'
    BY DEF WriteInv
  <2>1. /\ d # c /\ pc[d] = "register" /\ Task(d)' = Task(d)
        /\ Unchanged(d, Task(d))
    BY <1>7
  <2>2. Registered(d)
    BY <2>1 DEF WriteInv
  <2> QED
    BY <1>1, <2>1, <2>2 DEF Registered, Slot
<1>18. DeployedInv'
  <2>1. slot[c][at[c]] > 0 /\ wakers[Wanted[c][at[c]]][slot[c][at[c]]] = <<c, at[c]>>
    BY <1>1, <1>2 DEF PollingInv, WriteInv, Registered, Task, Slot
  <2> QED
    BY <1>1, <2>1 DEF DeployedInv
<1>19. BlockOnInv'
  BY <1>1 DEF BlockOnInv, AtInv
<1>20. Settled(c)
  <2>1. ASSUME NEW d \in Clients, NEW i \in Futures(d), Completed(Wanted[d][i]), Told(d, i)'
        PROVE  Told(d, i)
    <3>1. d # c \/ i # at[c]
      BY <1>2, <1>3, <2>1
    <3> QED
      <4>1. CASE d # c
        BY <1>1, <2>1, <4>1 DEF Told, Polled
      <4>2. CASE d = c
        BY <1>1, <1>2, <2>1, <3>1, <4>2, SingleFuture DEF Told, Polled, Futures, PlaceTypes
      <4> QED
        BY <4>1, <4>2
  <2>2. c \notin Joiners => ~Completed(Wanted[c][1])
    BY <1>2, <1>3, SingleFuture
  <2> QED
    BY <1>1, <1>4, <2>1, <2>2 DEF Settled
<1>21. WakeInv' /\ ResultInv'
  BY <1>11, <1>20, SettledKeeps
<1> QED
  BY <1>8, <1>10, <1>11, <1>12, <1>13, <1>14, <1>15, <1>16, <1>17, <1>18, <1>19, <1>21

\* newFuture's CAS succeeds: the copy, with one slot more, becomes the array.
LEMMA NewFuturePublishesStep ==
  ASSUME IInv, NEW c \in Clients, NewFuturePublish(c), Unchanged(c, Task(c)),
         UNCHANGED <<blockVars, joinVars>>
  PROVE  IInv'
<1> USE DEF IInv, Types, ArrayInv
<1>1. /\ pc[c] = "publish"
      /\ IF at[c] < Len(Wanted[c])
         THEN pc'[c] = "newFuture" /\ at'[c] = at[c] + 1
         ELSE pc'[c] = "blockOn" /\ at'[c] = 1
      /\ \A q \in (Clients \cup Completers) \ {c} : pc'[q] = pc[q] /\ seen'[q] = seen[q]
      /\ \A d \in Clients \ {c} : at'[d] = at[d] /\ copied'[d] = copied[d] /\ slot'[d] = slot[d]
      /\ UNCHANGED <<turn, crashed, isWaken, ret, values, pendingCount, done, err, twice, deployed>>
  BY DEF TaskTypes, PlaceTypes, blockVars, joinVars, NewFuturePublish, Created, Goto, Forget
<1>2. PICK t \in Tasks : t = Task(c) /\ at[c] \in Futures(c) /\ t = Wanted[c][at[c]]
  BY <1>1, WantedTask DEF AtInv, Futures, Task, PlaceTypes
<1>3. Loaded(c, t) /\ ~Completed(t) /\ Publish(t, "none")
  <2>1. Loaded(c, t)
    BY <1>1, <1>2 DEF Loaded
  <2>2. seen[c].ver = result[t].ver
    BY <1>2 DEF Unchanged
  <2>3. ~Completed(t)
    BY <2>1, <2>2 DEF VerInv
  <2> QED
    BY <1>2, <2>1, <2>3 DEF NewFuturePublish
<1>4. /\ result' \in [Tasks -> [kind : {"none"} \cup Kinds, ver : Nat]]
      /\ result'[t].ver = result[t].ver + 1
      /\ \A u \in Tasks : result'[u].kind = result[u].kind
      /\ \A u \in Tasks \ {t} : result'[u] = result[u]
      /\ \A q \in Clients \cup Completers : Loaded(q, t) => seen[q].ver < result'[t].ver
  BY <1>2, <1>3, PublishFacts
<1>5. \A u \in Tasks : Completed(u)' <=> Completed(u)
  BY <1>4 DEF Completed
<1>6. PICK n \in Nat : n = Len(wakers[t]) /\ n = Len(copied[c])
  <2>1. GoodCopy(c)
    BY <1>1 DEF CopyInv
  <2>2. Len(wakers[t]) \in Nat
    BY DEF TaskTypes
  <2> QED
    BY <1>2, <2>1, <2>2 DEF GoodCopy
<1>7. /\ \A u \in Tasks \ {t} : wakers'[u] = wakers[u]
      /\ wakers'[t] \in Seq(Slots) /\ Len(wakers'[t]) = n + 1
      /\ \A k \in 1..n : wakers'[t][k] = copied[c][k]
      /\ wakers'[t][n + 1] = Nop
      /\ wakers' \in [Tasks -> Seq(Slots)]
  <2>1. PICK a \in Seq(Slots) : a = copied[c]
    BY DEF TaskTypes
  <2>2. PICK b \in Seq(Slots) : b = Append(a, Nop)
    <3>1. Nop \in Slots
      BY DEF Slots
    <3> QED
      BY <3>1, AppendProperties
  <2>3. Len(b) = n + 1 /\ (\A k \in 1..n : b[k] = a[k]) /\ b[n + 1] = Nop
    BY <1>6, <2>1, <2>2
  <2>4. wakers' = [wakers EXCEPT ![t] = b]
    BY <1>2, <2>1, <2>2 DEF NewFuturePublish
  <2> QED
    BY <2>1, <2>3, <2>4 DEF TaskTypes
<1>8. /\ DOMAIN slot' = Clients /\ slot'[c] \in [Futures(c) -> Nat]
      /\ slot'[c][at[c]] = n + 1
      /\ \A i \in Futures(c) : i # at[c] => slot'[c][i] = slot[c][i]
  <2>1. PICK m : m = [slot[c] EXCEPT ![at[c]] = n + 1]
    OBVIOUS
  <2>2. slot' = [slot EXCEPT ![c] = m]
    BY <1>6, <2>1 DEF NewFuturePublish
  <2>3. /\ m \in [Futures(c) -> Nat] /\ m[at[c]] = n + 1
        /\ \A i \in Futures(c) : i # at[c] => m[i] = slot[c][i]
    BY <1>2, <2>1 DEF TaskTypes
  <2> QED
    BY <2>2, <2>3 DEF TaskTypes
<1>9. slot[c][at[c]] = 0
  <2>1. at[c] <= at[c]
    BY DEF PlaceTypes
  <2> QED
    BY <1>1, <1>2, <2>1 DEF CreatedInv
\* Nobody else's slot changes.
<1>10. ASSUME NEW d \in Clients, NEW i \in Futures(d), d # c \/ i # at[c]
       PROVE  slot'[d][i] = slot[d][i]
  BY <1>1, <1>8, <1>10
<1>11. ASSUME NEW d \in Clients, NEW i \in Futures(d), slot[d][i] > 0
       PROVE  slot'[d][i] = slot[d][i]
  BY <1>9, <1>10, <1>11
\* Those who loaded the task's result before fail.
<1>12. ASSUME NEW q \in Clients \cup Completers, NEW u \in Tasks, Loaded(q, u)'
       PROVE  /\ q # c /\ Loaded(q, u) /\ seen'[q] = seen[q]
              /\ u = t => seen'[q].ver < result'[u].ver
  <2>1. q # c
    BY <1>1, <1>12, Goroutines DEF Loaded
  <2>2. Loaded(q, u) /\ seen'[q] = seen[q]
    BY <1>1, <1>12, <2>1 DEF Loaded, Task
  <2> QED
    BY <1>4, <2>1, <2>2
<1>13. ASSUME NEW d \in Clients, pc'[d] \in {"publish", "register"}, Unchanged(d, Task(d))'
       PROVE  /\ d # c /\ pc[d] = pc'[d] /\ Task(d)' = Task(d)
              /\ Task(d) \in Tasks \ {t} /\ Unchanged(d, Task(d))
  <2>1. d # c /\ pc[d] = pc'[d] /\ Task(d)' = Task(d) /\ seen'[d] = seen[d]
    BY <1>1, <1>13 DEF Task
  <2>2. Task(d) \in Tasks /\ Loaded(d, Task(d))' /\ seen'[d].ver \in Nat
    BY <1>13, <2>1, WantedTask DEF Task, AtInv, Futures, PlaceTypes, Loaded, TaskTypes
  <2>3. Task(d) # t
    BY <1>4, <1>12, <1>13, <2>1, <2>2 DEF Unchanged, TaskTypes
  <2> QED
    BY <1>4, <1>13, <2>1, <2>2, <2>3 DEF Unchanged
<1>14. TaskTypes' /\ PlaceTypes' /\ JoinTypes'
  <2>1. TaskTypes'
    <3>1. \A d \in Clients : slot'[d] \in [Futures(d) -> Nat]
      BY <1>1, <1>8 DEF TaskTypes
    <3>2. copied' \in [Clients -> Seq(Slots)]
      BY DEF TaskTypes, NewFuturePublish
    <3>3. seen' \in [Clients \cup Completers -> [ver : Nat, len : Nat]]
      BY DEF TaskTypes, NewFuturePublish, Forget, NoResult
    <3> QED
      BY <1>4, <1>7, <1>8, <3>1, <3>2, <3>3 DEF TaskTypes
  <2>2. PlaceTypes'
    <3>1. at' \in [Clients -> Nat]
      BY <1>1, <1>2 DEF PlaceTypes, NewFuturePublish, Created, Futures
    <3>2. DOMAIN pc' = Clients \cup Completers
      BY <1>2 DEF PlaceTypes, NewFuturePublish, Created, Goto
    <3> QED
      BY <1>1, <3>1, <3>2, Goroutines DEF PlaceTypes, ClientPCs
  <2>3. JoinTypes'
    BY <1>1 DEF JoinTypes
  <2> QED
    BY <2>1, <2>2, <2>3
<1>15. AtInv'
  BY <1>1, <1>2, WantedTask, SingleFuture DEF AtInv, Futures
<1>16. CreatedInv'
  <2> SUFFICES ASSUME NEW d \in Clients, NEW i \in Futures(d)
               PROVE  (IF pc[d] \in {"newFuture", "publish"} /\ at[d] <= i
                       THEN slot[d][i] = 0
                       ELSE slot[d][i] > 0 \/ Completed(Wanted[d][i]))'
    BY DEF CreatedInv
  <2>1. IF pc[d] \in {"newFuture", "publish"} /\ at[d] <= i
        THEN slot[d][i] = 0
        ELSE slot[d][i] > 0 \/ Completed(Wanted[d][i])
    BY DEF CreatedInv
  <2>2. Completed(Wanted[d][i])' <=> Completed(Wanted[d][i])
    BY <1>5, WantedTask
  <2>3. CASE d # c
    BY <1>1, <2>1, <2>2, <2>3
  <2>4. CASE d = c /\ i = at[c]
    BY <1>1, <1>2, <1>8, <2>4 DEF Futures
  <2>5. CASE d = c /\ i # at[c]
    BY <1>1, <1>2, <1>8, <2>1, <2>2, <2>5 DEF Futures
  <2> QED
    BY <2>3, <2>4, <2>5
<1>17. PollingInv'
  BY <1>1 DEF PollingInv
<1>18. SlotInv'
  <2>1. ASSUME NEW d \in Clients, NEW i \in Futures(d), d # c \/ i # at[c]
        PROVE  /\ slot'[d][i] <= Len(wakers'[Wanted[d][i]])
               /\ Wanted[d][i] = t => slot'[d][i] <= n
    <3>1. slot'[d][i] = slot[d][i] /\ slot[d][i] \in Nat /\ Wanted[d][i] \in Tasks
      BY <1>10, <2>1, WantedTask DEF TaskTypes
    <3>2. slot[d][i] <= Len(wakers[Wanted[d][i]])
      BY <1>2 DEF SlotInv
    <3>3. CASE Wanted[d][i] = t
      <4>1. slot[d][i] <= n /\ slot'[d][i] = slot[d][i] /\ slot[d][i] \in Nat /\ n \in Nat
        BY <1>6, <3>1, <3>2, <3>3
      <4>2. Len(wakers'[Wanted[d][i]]) = n + 1
        BY <1>7, <3>3
      <4> QED
        BY <4>1, <4>2
    <3>4. CASE Wanted[d][i] # t
      BY <1>7, <3>1, <3>2, <3>4
    <3> QED
      BY <3>3, <3>4
  <2>2. slot'[c][at[c]] = n + 1 /\ Len(wakers'[Wanted[c][at[c]]]) = n + 1
    BY <1>2, <1>7, <1>8
  <2> SUFFICES ASSUME NEW d \in Clients, NEW e \in Clients, NEW i \in Futures(d), NEW j \in Futures(e)
               PROVE  /\ slot'[d][i] <= Len(wakers'[Wanted[d][i]])
                      /\ slot'[d][i] > 0 /\ Wanted[d][i] = Wanted[e][j] /\ slot'[d][i] = slot'[e][j] =>
                           d = e /\ i = j
    BY DEF SlotInv
  <2>3. slot'[d][i] <= Len(wakers'[Wanted[d][i]])
    BY <2>1, <2>2
  <2>4. ASSUME slot'[d][i] > 0, Wanted[d][i] = Wanted[e][j], slot'[d][i] = slot'[e][j]
        PROVE  d = e /\ i = j
    <3>1. CASE (d # c \/ i # at[c]) /\ (e # c \/ j # at[c])
      BY <1>10, <2>4, <3>1 DEF SlotInv
    <3>2. CASE (d # c \/ i # at[c]) /\ (e = c /\ j = at[c])
      BY <1>2, <2>1, <2>2, <2>4, <3>2
    <3>3. CASE (d = c /\ i = at[c]) /\ (e # c \/ j # at[c])
      BY <1>2, <2>1, <2>2, <2>4, <3>3
    <3>4. CASE (d = c /\ i = at[c]) /\ (e = c /\ j = at[c])
      BY <3>4
    <3> QED
      BY <3>1, <3>2, <3>3, <3>4
  <2> QED
    BY <2>3, <2>4
<1>19. EntryInv'
  <2>1. ASSUME NEW d \in Clients, NEW i \in Futures(d), NEW u \in Tasks, NEW k \in 1..Len(wakers'[u]),
               wakers'[u][k] = <<d, i>>
        PROVE  Wanted[d][i] = u /\ slot'[d][i] = k
    <3>1. CASE u # t
      <4>1. Wanted[d][i] = u /\ slot[d][i] = k
        BY <1>7, <2>1, <3>1 DEF EntryInv
      <4> QED
        BY <1>11, <4>1
    <3>2. CASE u = t
      <4>1. k \in 1..n /\ copied[c][k] = <<d, i>>
        <5>1. k \in 1..(n + 1) /\ wakers'[t][k] = <<d, i>> /\ <<d, i>> # Nop
          BY <1>7, <2>1, <3>2, WakerNames
        <5>2. k # n + 1
          BY <1>7, <5>1
        <5> QED
          BY <1>6, <1>7, <5>1, <5>2
      <4>2. Wanted[d][i] = t /\ slot[d][i] = k
        <5>1. k \in 1..Len(copied[c]) /\ pc[c] = "publish"
          BY <1>1, <1>6, <4>1
        <5> QED
          <6>1. copied[c][k] = <<d, i>> => Wanted[d][i] = Task(c) /\ slot[d][i] = k
            BY <5>1 DEF EntryInv
          <6> QED
            BY <1>2, <4>1, <6>1
      <4> QED
        BY <1>11, <3>2, <4>1, <4>2
    <3> QED
      BY <3>1, <3>2
  <2>2. ASSUME NEW d \in Clients, NEW i \in Futures(d), NEW e \in Clients, NEW k \in 1..Len(copied'[e]),
               pc'[e] = "publish", copied'[e][k] = <<d, i>>
        PROVE  Wanted[d][i] = Task(e)' /\ slot'[d][i] = k
    <3>1. e # c /\ pc[e] = "publish" /\ copied'[e] = copied[e] /\ Task(e)' = Task(e)
      BY <1>1, <2>2 DEF Task
    <3>2. Wanted[d][i] = Task(e) /\ slot[d][i] = k
      BY <2>2, <3>1 DEF EntryInv
    <3> QED
      BY <1>11, <3>1, <3>2
  <2> QED
    BY <2>1, <2>2 DEF EntryInv
<1>20. VerInv'
  <2> SUFFICES ASSUME NEW q \in Clients \cup Completers, NEW u \in Tasks, Loaded(q, u)'
               PROVE  (/\ seen[q].ver <= result[u].ver
                       /\ seen[q].ver = result[u].ver => seen[q].len = Len(wakers[u]) /\ ~Completed(u))'
    BY DEF VerInv
  <2>1. Loaded(q, u) /\ seen'[q] = seen[q] /\ seen[q].ver \in Nat /\ result'[u].ver \in Nat
    BY <1>4, <1>12 DEF TaskTypes
  <2>2. CASE u = t
    BY <1>12, <2>1, <2>2
  <2>3. CASE u # t
    BY <1>4, <1>5, <1>7, <2>1, <2>3 DEF VerInv
  <2> QED
    BY <2>2, <2>3
<1>21. CopyInv'
  <2> SUFFICES ASSUME NEW d \in Clients, (pc[d] = "publish")', Unchanged(d, Task(d))'
               PROVE  GoodCopy(d)'
    BY DEF CopyInv
  <2>1. /\ d # c /\ pc[d] = "publish" /\ Task(d)' = Task(d)
        /\ Task(d) \in Tasks \ {t} /\ Unchanged(d, Task(d))
    BY <1>13
  <2>2. GoodCopy(d) /\ copied'[d] = copied[d]
    BY <1>1, <2>1 DEF CopyInv
  <2>3. \A e \in Clients : \A i \in Futures(e) : <<e, i>> \in deployed => slot'[e][i] = slot[e][i]
    BY <1>11 DEF DeployedInv
  <2>4. wakers'[Task(d)] = wakers[Task(d)] /\ deployed' = deployed
    BY <1>1, <1>7, <2>1
  <2> QED
    BY <2>1, <2>2, <2>3, <2>4 DEF GoodCopy
<1>22. WriteInv'
  <2> SUFFICES ASSUME NEW d \in Clients, (pc[d] = "register")', Unchanged(d, Task(d))'
               PROVE  Registered(d)'
    BY DEF WriteInv
  <2>1. /\ d # c /\ pc[d] = "register" /\ Task(d)' = Task(d)
        /\ Task(d) \in Tasks \ {t} /\ Unchanged(d, Task(d))
    BY <1>13
  <2>2. Registered(d)
    BY <2>1 DEF WriteInv
  <2> QED
    BY <1>1, <1>7, <2>1, <2>2 DEF Registered, Slot
<1>23. DeployedInv'
  <2> SUFFICES ASSUME NEW d \in Clients, NEW i \in Futures(d), <<d, i>> \in deployed
               PROVE  slot'[d][i] > 0 /\ wakers'[Wanted[d][i]][slot'[d][i]] = <<d, i>>
    BY <1>1 DEF DeployedInv
  <2>1. slot[d][i] > 0 /\ wakers[Wanted[d][i]][slot[d][i]] = <<d, i>> /\ Wanted[d][i] \in Tasks
    BY WantedTask DEF DeployedInv
  <2>2. slot'[d][i] = slot[d][i]
    BY <1>11, <2>1
  <2>3. CASE Wanted[d][i] # t
    BY <1>7, <2>1, <2>2, <2>3
  <2>4. CASE Wanted[d][i] = t
    <3>1. slot[d][i] \in 1..n
      <4>1. slot[d][i] <= Len(wakers[t]) /\ slot[d][i] \in Nat
        BY <1>2, <2>4 DEF SlotInv, TaskTypes
      <4> QED
        BY <1>6, <2>1, <4>1
    <3>2. copied[c][slot[d][i]] = <<d, i>>
      <4>1. GoodCopy(c)
        BY <1>1 DEF CopyInv
      <4> QED
        BY <1>2, <2>4, <4>1 DEF GoodCopy
    <3> QED
      BY <1>7, <2>1, <2>2, <2>4, <3>1, <3>2
  <2> QED
    BY <2>3, <2>4
<1>24. BlockOnInv'
  BY <1>1 DEF BlockOnInv
<1>25. Settled(c)
  <2>1. ASSUME NEW d \in Clients, NEW i \in Futures(d), Completed(Wanted[d][i])
        PROVE  /\ slot'[d][i] = slot[d][i]
               /\ wakers'[Wanted[d][i]] = wakers[Wanted[d][i]]
               /\ Told(d, i)' => Told(d, i)
    <3>1. Wanted[d][i] \in Tasks \ {t}
      BY <1>3, <2>1, WantedTask
    <3>2. Told(d, i)' => Told(d, i)
      BY <1>1 DEF Told, Polled
    <3> QED
      BY <1>2, <1>7, <1>10, <3>1, <3>2
  <2>2. \A u \in Tasks : Completed(u) => wakers'[u] = wakers[u]
    BY <1>3, <1>7
  <2> QED
    BY <1>1, <1>4, <2>1, <2>2 DEF Settled
<1>26. WakeInv' /\ ResultInv'
  BY <1>16, <1>25, SettledKeeps
<1> QED
  BY <1>14, <1>15, <1>16, <1>17, <1>18, <1>19, <1>20, <1>21, <1>22, <1>23, <1>24, <1>26

-----------------------------------------------------------------------------
(* The steps of complete and of the wakers it calls *)

\* Completer p goes on, on its own; flags, errors and values are only added,
\* and a client's wait may end.
Goes(p) ==
  /\ \A q \in Completers \ {p} : pc'[q] = pc[q] /\ turn'[q] = turn[q]
  /\ \A c \in Clients : pc'[c] = pc[c] \/ (pc[c] = "waiting" /\ pc'[c] = "woken")
  /\ \A c \in Clients : /\ values[c] \subseteq values'[c]
                        /\ err[c] # "none" => err'[c] # "none"
                        /\ isWaken[c] => isWaken'[c]
                        /\ twice[c] => twice'[c]
  /\ UNCHANGED <<result, wakers, slot, at, copied, deployed, done, ret>>

\* What p has to do before it goes past a waker.
MayPass(p) ==
  \/ turn'[p] = turn[p]
  \/ /\ turn'[p] = turn[p] + 1
     /\ \A c \in Clients : \A i \in Futures(c) : Current(p) = <<c, i>> /\ Told(c, i)' =>
          IF c \in Joiners THEN err'[c] # "none" ELSE isWaken'[c] /\ pc'[c] # "waiting"

\* The wakers that others call, and what the futures know, are kept by a
\* completer that does its own part.
LEMMA GoesKeeps ==
  ASSUME IInv, NEW p \in Completers, Goes(p), MayPass(p),
         Won(p)' <=> Won(p),
         ~Won(p) => turn'[p] = turn[p],
         pc'[p] = "returned" => turn'[p] > Len(wakers[TaskOf[p]]),
         pc'[p] \in {"waking", "count", "flag", "signal"} =>
           /\ turn'[p] <= Len(wakers[TaskOf[p]])
           /\ \E c \in Clients : \E i \in Futures(c) : (Current(p) = <<c, i>> /\ CallDone(p, c, i))'
  PROVE  WakeInv'
<1> USE DEF IInv, Types
<1>1. \A q \in Completers : Won(q)' <=> Won(q)
  BY DEF Won, Goes
<1>2. WonInv'
  <2>1. \A q \in Completers : IF Won(q)' THEN Completed(TaskOf[q])' ELSE turn'[q] = 1
    BY <1>1 DEF WonInv, WakeInv, Goes, Completed
  <2>2. \A q \in Completers : pc'[q] = "returned" => turn'[q] > Len(wakers'[TaskOf[q]])
    BY DEF WonInv, WakeInv, Goes
  <2>3. \A q, r \in Completers : Won(q)' /\ Won(r)' /\ TaskOf[q] = TaskOf[r] => q = r
    BY <1>1 DEF WonInv, WakeInv
  <2>4. \A t \in Tasks : Completed(t)' => \E q \in Completers : Won(q)' /\ TaskOf[q] = t
    BY <1>1 DEF WonInv, WakeInv, Goes, Completed
  <2> QED
    BY <2>1, <2>2, <2>3, <2>4 DEF WonInv
<1>3. CallInv'
  <2> SUFFICES ASSUME NEW q \in Completers, (pc[q] \in {"waking", "count", "flag", "signal"})'
               PROVE  /\ (turn[q] <= Len(wakers[TaskOf[q]]))'
                      /\ \E c \in Clients : \E i \in Futures(c) :
                           (Current(q) = <<c, i>> /\ CallDone(q, c, i))'
    BY DEF CallInv
  <2>1. CASE q = p
    BY <2>1 DEF Goes
  <2>2. CASE q # p
    <3>1. pc[q] = pc'[q] /\ turn'[q] = turn[q] /\ wakers' = wakers /\ Current(q)' = Current(q)
      BY <2>2 DEF Goes, Current
    <3>2. turn[q] <= Len(wakers[TaskOf[q]])
      BY <3>1 DEF CallInv, WakeInv
    <3>3. PICK c \in Clients : \E i \in Futures(c) : Current(q) = <<c, i>> /\ CallDone(q, c, i)
      BY <3>1 DEF CallInv, WakeInv
    <3>4. PICK i \in Futures(c) : Current(q) = <<c, i>> /\ CallDone(q, c, i)
      BY <3>3
    <3>5. CallDone(q, c, i)'
      BY <3>1, <3>4 DEF CallDone, Goes
    <3> QED
      BY <3>1, <3>2, <3>4, <3>5
  <2> QED
    BY <2>1, <2>2
<1>4. ASSUME NEW c \in Clients, NEW i \in Futures(c), Told(c, i)' PROVE Told(c, i) /\ pc'[c] = pc[c]
  BY <1>4 DEF Told, Polled, Goes
<1>5. ToldInv'
  BY <1>4 DEF ToldInv, WakeInv, Goes
<1>6. PassedInv'
  <2> SUFFICES ASSUME NEW c \in Clients, NEW i \in Futures(c), NEW q \in Completers,
                      Told(c, i)', (wakers[Wanted[c][i]][slot[c][i]] = <<c, i>>)', Passed(q, c, i)'
               PROVE  (IF c \in Joiners THEN err[c] # "none" ELSE isWaken[c] /\ pc[c] # "waiting")'
    BY DEF PassedInv
  <2>1. Told(c, i) /\ pc'[c] = pc[c] /\ wakers[Wanted[c][i]][slot[c][i]] = <<c, i>>
    BY <1>4 DEF Goes
  <2>2. Won(q) /\ TaskOf[q] = Wanted[c][i] /\ turn'[q] > slot[c][i]
    BY <1>1 DEF Passed, Goes
  <2>3. CASE Passed(q, c, i)
    <3>1. IF c \in Joiners THEN err[c] # "none" ELSE isWaken[c] /\ pc[c] # "waiting"
      BY <2>1, <2>3 DEF PassedInv, WakeInv
    <3> QED
      BY <2>1, <3>1 DEF Goes
  <2>4. CASE ~Passed(q, c, i)
    <3>1. q = p /\ turn'[p] # turn[p]
      BY <2>2, <2>4 DEF Goes, Passed
    <3>2. turn[p] = slot[c][i]
      BY <2>2, <2>4, <3>1 DEF MayPass, Passed, PlaceTypes, TaskTypes
    <3>3. Current(p) = <<c, i>>
      BY <2>1, <2>2, <3>1, <3>2 DEF Current
    <3> QED
      BY <3>1, <3>3 DEF MayPass
  <2> QED
    BY <2>3, <2>4
<1> QED
  BY <1>2, <1>3, <1>5, <1>6 DEF WakeInv

\* Completers return nothing to the clients.
LEMMA GoesReturns ==
  ASSUME IInv, NEW p \in Completers, Goes(p), JoinTypes'
  PROVE  ReturnsResult'
<1>1. ASSUME NEW c \in Clients PROVE RightReturn(c)'
  <2>1. RightReturn(c)
    BY ReturnsEach DEF IInv, ResultInv
  <2>2. values[c] \subseteq values'[c] /\ values'[c] \subseteq Futures(c)
    BY DEF Goes, JoinTypes
  <2> QED
    BY <2>1, <2>2 DEF RightReturn, Goes
<1> QED
  BY <1>1 DEF ReturnsResult, RightReturn, Futures

\* A completer that neither begins nor ends to count leaves CountInv alone.
LEMMA GoesCounts ==
  ASSUME IInv, NEW p \in Completers, Goes(p), pc[p] # "count", pc'[p] # "count",
         UNCHANGED <<values, pendingCount, twice>>
  PROVE  CountInv'
<1>1. \A c \in Clients : Counting(c)' = Counting(c)
  BY DEF Counting, Current, Goes
<1> QED
  BY <1>1, WantedAssumption DEF CountInv, IInv, ResultInv, Goes

\* complete finds the task completed and returns an error.
LEMMA CompleteRefusedStep ==
  ASSUME IInv, NEW p \in Completers, CompleteLoad(p),
         Completed(TaskOf[p]),
         UNCHANGED <<blockVars, joinVars>>
  PROVE  IInv'
<1> USE DEF IInv, Types
<1>1. /\ pc[p] = "complete" /\ pc'[p] = "refused"
      /\ turn' = turn
      /\ seen' = seen
      /\ \A q \in (Clients \cup Completers) \ {p} : pc'[q] = pc[q] /\ seen'[q] = seen[q]
      /\ \A q \in Completers \ {p} : turn'[q] = turn[q]
      /\ UNCHANGED <<result, wakers, slot, at, copied, isWaken, ret, values,
                    pendingCount, done, err, twice, deployed>>
  BY DEF TaskTypes, PlaceTypes, taskVars, futureVars, localVars, blockVars, joinVars, CompleteLoad, Goto
<1>2. Goes(p)
  BY <1>1, Goroutines DEF Goes
<1>3. TaskTypes'
  <2>1. seen' = seen
    BY <1>1
  <2> QED
    BY <1>1, <2>1 DEF TaskTypes
<1>4. PlaceTypes' /\ JoinTypes'
  <2>1. DOMAIN pc' = Clients \cup Completers /\ crashed' \in BOOLEAN
    BY DEF PlaceTypes, taskVars, futureVars, localVars, blockVars, joinVars, CompleteLoad, Goto
  <2>2. turn' \in [Completers -> Nat \ {0}]
    BY DEF PlaceTypes, taskVars, futureVars, localVars, blockVars, joinVars, CompleteLoad, Goto
  <2>3. JoinTypes'
    BY <1>1 DEF JoinTypes
  <2>4. (\A c \in Clients : pc'[c] = pc[c]) /\ pc'[p] \in CompleterPCs
    BY <1>1, Goroutines DEF CompleterPCs
  <2> QED
    BY <1>1, <2>1, <2>2, <2>3, <2>4 DEF PlaceTypes
<1>5. HeldInv' /\ AtInv' /\ BlockOnInv'
  BY <1>1, <1>2, CompleterFrame DEF Goes
<1>6. pc'[p] \in {"waking", "count", "flag", "signal"} =>
        /\ turn'[p] <= Len(wakers[TaskOf[p]])
        /\ \E c \in Clients : \E i \in Futures(c) : (Current(p) = <<c, i>> /\ CallDone(p, c, i))'
  BY <1>1
<1>7. WakeInv'
  <2>1. MayPass(p)
    BY <1>1, WakerNames DEF MayPass
  <2>2. (Won(p)' <=> Won(p)) /\ (~Won(p) => turn'[p] = turn[p])
    BY <1>1 DEF Won
  <2>3. pc'[p] = "returned" => turn'[p] > Len(wakers[TaskOf[p]])
    BY <1>1
  <2> QED
    BY <1>2, <1>6, <2>1, <2>2, <2>3, GoesKeeps
<1>8. ErrInv'
  BY <1>1 DEF ErrInv, ResultInv
<1>9. CountInv'
  BY <1>1, <1>2, GoesCounts
<1>10. ReturnsResult'
  BY <1>2, <1>4, GoesReturns
<1> QED
  BY <1>3, <1>4, <1>5, <1>7, <1>8, <1>9, <1>10 DEF HeldInv, ArrayInv, ResultInv

\* complete loads the result.
LEMMA CompleteLoadsStep ==
  ASSUME IInv, NEW p \in Completers, CompleteLoad(p),
         ~Completed(TaskOf[p]),
         UNCHANGED <<blockVars, joinVars>>
  PROVE  IInv'
<1> USE DEF IInv, Types
<1>1. /\ pc[p] = "complete" /\ pc'[p] = "swap"
      /\ turn' = turn
      /\ seen'[p] = [ver |-> result[TaskOf[p]].ver, len |-> Len(wakers[TaskOf[p]])]
      /\ \A q \in (Clients \cup Completers) \ {p} : pc'[q] = pc[q] /\ seen'[q] = seen[q]
      /\ \A q \in Completers \ {p} : turn'[q] = turn[q]
      /\ UNCHANGED <<result, wakers, slot, at, copied, isWaken, ret, values,
                    pendingCount, done, err, twice, deployed>>
  BY DEF TaskTypes, PlaceTypes, taskVars, futureVars, localVars, blockVars, joinVars, CompleteLoad, LoadResult, Goto
<1>2. Goes(p)
  BY <1>1, Goroutines DEF Goes
<1>3. TaskTypes'
  <2>1. PICK r \in [ver : Nat, len : Nat] : seen' = [seen EXCEPT ![p] = r]
    BY WantedAssumption DEF TaskTypes, CompleteLoad, LoadResult, Goto
  <2> QED
    BY <1>1, <2>1 DEF TaskTypes
<1>4. PlaceTypes' /\ JoinTypes'
  <2>1. DOMAIN pc' = Clients \cup Completers /\ crashed' \in BOOLEAN
    BY DEF PlaceTypes, taskVars, futureVars, localVars, blockVars, joinVars, CompleteLoad, LoadResult, Goto
  <2>2. turn' \in [Completers -> Nat \ {0}]
    BY DEF PlaceTypes, taskVars, futureVars, localVars, blockVars, joinVars, CompleteLoad, LoadResult, Goto
  <2>3. JoinTypes'
    BY <1>1 DEF JoinTypes
  <2>4. (\A c \in Clients : pc'[c] = pc[c]) /\ pc'[p] \in CompleterPCs
    BY <1>1, Goroutines DEF CompleterPCs
  <2> QED
    BY <1>1, <2>1, <2>2, <2>3, <2>4 DEF PlaceTypes
<1>5. HeldInv' /\ AtInv' /\ BlockOnInv'
  BY <1>1, <1>2, CompleterFrame DEF Goes
<1>6. pc'[p] \in {"waking", "count", "flag", "signal"} =>
        /\ turn'[p] <= Len(wakers[TaskOf[p]])
        /\ \E c \in Clients : \E i \in Futures(c) : (Current(p) = <<c, i>> /\ CallDone(p, c, i))'
  BY <1>1
<1>7. WakeInv'
  <2>1. MayPass(p)
    BY <1>1, WakerNames DEF MayPass
  <2>2. (Won(p)' <=> Won(p)) /\ (~Won(p) => turn'[p] = turn[p])
    BY <1>1 DEF Won
  <2>3. pc'[p] = "returned" => turn'[p] > Len(wakers[TaskOf[p]])
    BY <1>1
  <2> QED
    BY <1>2, <1>6, <2>1, <2>2, <2>3, GoesKeeps
<1>8. ErrInv'
  BY <1>1 DEF ErrInv, ResultInv
<1>9. CountInv'
  BY <1>1, <1>2, GoesCounts
<1>10. ReturnsResult'
  BY <1>2, <1>4, GoesReturns
<1> QED
  BY <1>3, <1>4, <1>5, <1>7, <1>8, <1>9, <1>10 DEF HeldInv, ArrayInv, ResultInv

\* complete's CAS fails.
LEMMA CompleteRetriesStep ==
  ASSUME IInv, NEW p \in Completers, CompleteSwap(p),
         ~Unchanged(p, TaskOf[p]),
         UNCHANGED <<blockVars, joinVars>>
  PROVE  IInv'
<1> USE DEF IInv, Types
<1>1. /\ pc[p] = "swap" /\ pc'[p] = "complete"
      /\ turn' = turn
      /\ seen'[p] = NoResult
      /\ \A q \in (Clients \cup Completers) \ {p} : pc'[q] = pc[q] /\ seen'[q] = seen[q]
      /\ \A q \in Completers \ {p} : turn'[q] = turn[q]
      /\ UNCHANGED <<result, wakers, slot, at, copied, isWaken, ret, values,
                    pendingCount, done, err, twice, deployed>>
  BY DEF TaskTypes, PlaceTypes, taskVars, futureVars, localVars, blockVars, joinVars, CompleteSwap, Forget, NoResult, Goto
<1>2. Goes(p)
  BY <1>1, Goroutines DEF Goes
<1>3. TaskTypes'
  <2>1. PICK r \in [ver : Nat, len : Nat] : seen' = [seen EXCEPT ![p] = r]
    BY WantedAssumption DEF TaskTypes, CompleteSwap, Forget, NoResult, Goto
  <2> QED
    BY <1>1, <2>1 DEF TaskTypes
<1>4. PlaceTypes' /\ JoinTypes'
  <2>1. DOMAIN pc' = Clients \cup Completers /\ crashed' \in BOOLEAN
    BY DEF PlaceTypes, taskVars, futureVars, localVars, blockVars, joinVars, CompleteSwap, Forget, NoResult, Goto
  <2>2. turn' \in [Completers -> Nat \ {0}]
    BY DEF PlaceTypes, taskVars, futureVars, localVars, blockVars, joinVars, CompleteSwap, Forget, NoResult, Goto
  <2>3. JoinTypes'
    BY <1>1 DEF JoinTypes
  <2>4. (\A c \in Clients : pc'[c] = pc[c]) /\ pc'[p] \in CompleterPCs
    BY <1>1, Goroutines DEF CompleterPCs
  <2> QED
    BY <1>1, <2>1, <2>2, <2>3, <2>4 DEF PlaceTypes
<1>5. HeldInv' /\ AtInv' /\ BlockOnInv'
  BY <1>1, <1>2, CompleterFrame DEF Goes
<1>6. pc'[p] \in {"waking", "count", "flag", "signal"} =>
        /\ turn'[p] <= Len(wakers[TaskOf[p]])
        /\ \E c \in Clients : \E i \in Futures(c) : (Current(p) = <<c, i>> /\ CallDone(p, c, i))'
  BY <1>1
<1>7. WakeInv'
  <2>1. MayPass(p)
    BY <1>1, WakerNames DEF MayPass
  <2>2. (Won(p)' <=> Won(p)) /\ (~Won(p) => turn'[p] = turn[p])
    BY <1>1 DEF Won
  <2>3. pc'[p] = "returned" => turn'[p] > Len(wakers[TaskOf[p]])
    BY <1>1
  <2> QED
    BY <1>2, <1>6, <2>1, <2>2, <2>3, GoesKeeps
<1>8. ErrInv'
  BY <1>1 DEF ErrInv, ResultInv
<1>9. CountInv'
  BY <1>1, <1>2, GoesCounts
<1>10. ReturnsResult'
  BY <1>2, <1>4, GoesReturns
<1> QED
  BY <1>3, <1>4, <1>5, <1>7, <1>8, <1>9, <1>10 DEF HeldInv, ArrayInv, ResultInv

\* complete has called the last waker.
LEMMA CompleteEndsStep ==
  ASSUME IInv, NEW p \in Completers, CompleteWake(p),
         turn[p] > Len(wakers[TaskOf[p]]),
         UNCHANGED <<blockVars, joinVars>>
  PROVE  IInv'
<1> USE DEF IInv, Types
<1>1. /\ pc[p] = "wake" /\ pc'[p] = "returned"
      /\ turn' = turn
      /\ seen' = seen
      /\ \A q \in (Clients \cup Completers) \ {p} : pc'[q] = pc[q] /\ seen'[q] = seen[q]
      /\ \A q \in Completers \ {p} : turn'[q] = turn[q]
      /\ UNCHANGED <<result, wakers, slot, at, copied, isWaken, ret, values,
                    pendingCount, done, err, twice, deployed>>
  BY DEF TaskTypes, PlaceTypes, taskVars, futureVars, localVars, blockVars, joinVars, CompleteWake, Goto
<1>2. Goes(p)
  BY <1>1, Goroutines DEF Goes
<1>3. TaskTypes'
  <2>1. seen' = seen
    BY <1>1
  <2> QED
    BY <1>1, <2>1 DEF TaskTypes
<1>4. PlaceTypes' /\ JoinTypes'
  <2>1. DOMAIN pc' = Clients \cup Completers /\ crashed' \in BOOLEAN
    BY DEF PlaceTypes, taskVars, futureVars, localVars, blockVars, joinVars, CompleteWake, Goto
  <2>2. turn' \in [Completers -> Nat \ {0}]
    BY DEF PlaceTypes, taskVars, futureVars, localVars, blockVars, joinVars, CompleteWake, Goto
  <2>3. JoinTypes'
    BY <1>1 DEF JoinTypes
  <2>4. (\A c \in Clients : pc'[c] = pc[c]) /\ pc'[p] \in CompleterPCs
    BY <1>1, Goroutines DEF CompleterPCs
  <2> QED
    BY <1>1, <2>1, <2>2, <2>3, <2>4 DEF PlaceTypes
<1>5. HeldInv' /\ AtInv' /\ BlockOnInv'
  BY <1>1, <1>2, CompleterFrame DEF Goes
<1>6. pc'[p] \in {"waking", "count", "flag", "signal"} =>
        /\ turn'[p] <= Len(wakers[TaskOf[p]])
        /\ \E c \in Clients : \E i \in Futures(c) : (Current(p) = <<c, i>> /\ CallDone(p, c, i))'
  BY <1>1
<1>7. WakeInv'
  <2>1. MayPass(p)
    BY <1>1, WakerNames DEF MayPass
  <2>2. (Won(p)' <=> Won(p)) /\ (~Won(p) => turn'[p] = turn[p])
    BY <1>1 DEF Won
  <2>3. pc'[p] = "returned" => turn'[p] > Len(wakers[TaskOf[p]])
    BY <1>1
  <2> QED
    BY <1>2, <1>6, <2>1, <2>2, <2>3, GoesKeeps
<1>8. ErrInv'
  BY <1>1 DEF ErrInv, ResultInv
<1>9. CountInv'
  BY <1>1, <1>2, GoesCounts
<1>10. ReturnsResult'
  BY <1>2, <1>4, GoesReturns
<1> QED
  BY <1>3, <1>4, <1>5, <1>7, <1>8, <1>9, <1>10 DEF HeldInv, ArrayInv, ResultInv

\* complete calls NopWaker, or half a waker to no effect.
LEMMA CompleteSkipsStep ==
  ASSUME IInv, NEW p \in Completers, CompleteWake(p),
         turn[p] <= Len(wakers[TaskOf[p]]),
         Current(p) \in {Nop, Torn},
         Advance(p),
         UNCHANGED <<pc, crashed>>,
         UNCHANGED <<blockVars, joinVars>>
  PROVE  IInv'
<1> USE DEF IInv, Types
<1>1. /\ pc[p] = "wake" /\ pc'[p] = "wake"
      /\ turn'[p] = turn[p] + 1
      /\ seen' = seen
      /\ \A q \in (Clients \cup Completers) \ {p} : pc'[q] = pc[q] /\ seen'[q] = seen[q]
      /\ \A q \in Completers \ {p} : turn'[q] = turn[q]
      /\ UNCHANGED <<result, wakers, slot, at, copied, isWaken, ret, values,
                    pendingCount, done, err, twice, deployed>>
  BY DEF TaskTypes, PlaceTypes, taskVars, futureVars, localVars, blockVars, joinVars, CompleteWake, Advance
<1>2. Goes(p)
  BY <1>1, Goroutines DEF Goes
<1>3. TaskTypes'
  <2>1. seen' = seen
    BY <1>1
  <2> QED
    BY <1>1, <2>1 DEF TaskTypes
<1>4. PlaceTypes' /\ JoinTypes'
  <2>1. DOMAIN pc' = Clients \cup Completers /\ crashed' \in BOOLEAN
    BY DEF PlaceTypes, taskVars, futureVars, localVars, blockVars, joinVars, CompleteWake, Advance
  <2>2. turn' \in [Completers -> Nat \ {0}]
    BY DEF PlaceTypes, taskVars, futureVars, localVars, blockVars, joinVars, CompleteWake, Advance
  <2>3. JoinTypes'
    BY <1>1 DEF JoinTypes
  <2>4. (\A c \in Clients : pc'[c] = pc[c]) /\ pc'[p] \in CompleterPCs
    BY <1>1, Goroutines DEF CompleterPCs
  <2> QED
    BY <1>1, <2>1, <2>2, <2>3, <2>4 DEF PlaceTypes
<1>5. HeldInv' /\ AtInv' /\ BlockOnInv'
  BY <1>1, <1>2, CompleterFrame DEF Goes
<1>6. pc'[p] \in {"waking", "count", "flag", "signal"} =>
        /\ turn'[p] <= Len(wakers[TaskOf[p]])
        /\ \E c \in Clients : \E i \in Futures(c) : (Current(p) = <<c, i>> /\ CallDone(p, c, i))'
  BY <1>1
<1>7. WakeInv'
  <2>1. MayPass(p)
    BY <1>1, WakerNames DEF MayPass
  <2>2. (Won(p)' <=> Won(p)) /\ (~Won(p) => turn'[p] = turn[p])
    BY <1>1 DEF Won
  <2>3. pc'[p] = "returned" => turn'[p] > Len(wakers[TaskOf[p]])
    BY <1>1
  <2> QED
    BY <1>2, <1>6, <2>1, <2>2, <2>3, GoesKeeps
<1>8. ErrInv'
  BY <1>1 DEF ErrInv, ResultInv
<1>9. CountInv'
  BY <1>1, <1>2, GoesCounts
<1>10. ReturnsResult'
  BY <1>2, <1>4, GoesReturns
<1> QED
  BY <1>3, <1>4, <1>5, <1>7, <1>8, <1>9, <1>10 DEF HeldInv, ArrayInv, ResultInv

\* complete calls half a waker, and the program crashes.
LEMMA CompleteCrashesStep ==
  ASSUME IInv, NEW p \in Completers, CompleteWake(p),
         turn[p] <= Len(wakers[TaskOf[p]]),
         crashed' = TRUE,
         UNCHANGED <<pc, turn>>,
         UNCHANGED <<blockVars, joinVars>>
  PROVE  IInv'
<1> USE DEF IInv, Types
<1>1. /\ pc[p] = "wake" /\ pc'[p] = "wake"
      /\ turn' = turn
      /\ seen' = seen
      /\ \A q \in (Clients \cup Completers) \ {p} : pc'[q] = pc[q] /\ seen'[q] = seen[q]
      /\ \A q \in Completers \ {p} : turn'[q] = turn[q]
      /\ UNCHANGED <<result, wakers, slot, at, copied, isWaken, ret, values,
                    pendingCount, done, err, twice, deployed>>
  BY DEF TaskTypes, PlaceTypes, taskVars, futureVars, localVars, blockVars, joinVars, CompleteWake
<1>2. Goes(p)
  BY <1>1, Goroutines DEF Goes
<1>3. TaskTypes'
  <2>1. seen' = seen
    BY <1>1
  <2> QED
    BY <1>1, <2>1 DEF TaskTypes
<1>4. PlaceTypes' /\ JoinTypes'
  <2>1. DOMAIN pc' = Clients \cup Completers /\ crashed' \in BOOLEAN
    BY DEF PlaceTypes, taskVars, futureVars, localVars, blockVars, joinVars, CompleteWake
  <2>2. turn' \in [Completers -> Nat \ {0}]
    BY DEF PlaceTypes, taskVars, futureVars, localVars, blockVars, joinVars, CompleteWake
  <2>3. JoinTypes'
    BY <1>1 DEF JoinTypes
  <2>4. (\A c \in Clients : pc'[c] = pc[c]) /\ pc'[p] \in CompleterPCs
    BY <1>1, Goroutines DEF CompleterPCs
  <2> QED
    BY <1>1, <2>1, <2>2, <2>3, <2>4 DEF PlaceTypes
<1>5. HeldInv' /\ AtInv' /\ BlockOnInv'
  BY <1>1, <1>2, CompleterFrame DEF Goes
<1>6. pc'[p] \in {"waking", "count", "flag", "signal"} =>
        /\ turn'[p] <= Len(wakers[TaskOf[p]])
        /\ \E c \in Clients : \E i \in Futures(c) : (Current(p) = <<c, i>> /\ CallDone(p, c, i))'
  BY <1>1
<1>7. WakeInv'
  <2>1. MayPass(p)
    BY <1>1, WakerNames DEF MayPass
  <2>2. (Won(p)' <=> Won(p)) /\ (~Won(p) => turn'[p] = turn[p])
    BY <1>1 DEF Won
  <2>3. pc'[p] = "returned" => turn'[p] > Len(wakers[TaskOf[p]])
    BY <1>1
  <2> QED
    BY <1>2, <1>6, <2>1, <2>2, <2>3, GoesKeeps
<1>8. ErrInv'
  BY <1>1 DEF ErrInv, ResultInv
<1>9. CountInv'
  BY <1>1, <1>2, GoesCounts
<1>10. ReturnsResult'
  BY <1>2, <1>4, GoesReturns
<1> QED
  BY <1>3, <1>4, <1>5, <1>7, <1>8, <1>9, <1>10 DEF HeldInv, ArrayInv, ResultInv

\* complete calls a waker.
LEMMA CompleteCallsStep ==
  ASSUME IInv, NEW p \in Completers, CompleteWake(p),
         turn[p] <= Len(wakers[TaskOf[p]]),
         Current(p) \in Wakers,
         Goto(p, "waking"),
         UNCHANGED <<turn, crashed>>,
         UNCHANGED <<blockVars, joinVars>>
  PROVE  IInv'
<1> USE DEF IInv, Types
<1>1. /\ pc[p] = "wake" /\ pc'[p] = "waking"
      /\ turn' = turn
      /\ seen' = seen
      /\ \A q \in (Clients \cup Completers) \ {p} : pc'[q] = pc[q] /\ seen'[q] = seen[q]
      /\ \A q \in Completers \ {p} : turn'[q] = turn[q]
      /\ UNCHANGED <<result, wakers, slot, at, copied, isWaken, ret, values,
                    pendingCount, done, err, twice, deployed>>
  BY DEF TaskTypes, PlaceTypes, taskVars, futureVars, localVars, blockVars, joinVars, CompleteWake, Goto
<1>2. Goes(p)
  BY <1>1, Goroutines DEF Goes
<1>3. TaskTypes'
  <2>1. seen' = seen
    BY <1>1
  <2> QED
    BY <1>1, <2>1 DEF TaskTypes
<1>4. PlaceTypes' /\ JoinTypes'
  <2>1. DOMAIN pc' = Clients \cup Completers /\ crashed' \in BOOLEAN
    BY DEF PlaceTypes, taskVars, futureVars, localVars, blockVars, joinVars, CompleteWake, Goto
  <2>2. turn' \in [Completers -> Nat \ {0}]
    BY DEF PlaceTypes, taskVars, futureVars, localVars, blockVars, joinVars, CompleteWake, Goto
  <2>3. JoinTypes'
    BY <1>1 DEF JoinTypes
  <2>4. (\A c \in Clients : pc'[c] = pc[c]) /\ pc'[p] \in CompleterPCs
    BY <1>1, Goroutines DEF CompleterPCs
  <2> QED
    BY <1>1, <2>1, <2>2, <2>3, <2>4 DEF PlaceTypes
<1>5. HeldInv' /\ AtInv' /\ BlockOnInv'
  BY <1>1, <1>2, CompleterFrame DEF Goes
<1>6. pc'[p] \in {"waking", "count", "flag", "signal"} =>
        /\ turn'[p] <= Len(wakers[TaskOf[p]])
        /\ \E c \in Clients : \E i \in Futures(c) : (Current(p) = <<c, i>> /\ CallDone(p, c, i))'
  <2>1. PICK c \in Clients : \E i \in Futures(c) : Current(p) = <<c, i>>
    BY WakerPairs
  <2>2. PICK i \in Futures(c) : Current(p) = <<c, i>>
    BY <2>1
  <2>3. (Current(p) = <<c, i>> /\ CallDone(p, c, i))'
    BY <1>1, <2>2 DEF Current, CallDone
  <2> QED
    BY <1>1, <2>3
<1>7. WakeInv'
  <2>1. MayPass(p)
    BY <1>1, WakerNames DEF MayPass
  <2>2. (Won(p)' <=> Won(p)) /\ (~Won(p) => turn'[p] = turn[p])
    BY <1>1 DEF Won
  <2>3. pc'[p] = "returned" => turn'[p] > Len(wakers[TaskOf[p]])
    BY <1>1
  <2> QED
    BY <1>2, <1>6, <2>1, <2>2, <2>3, GoesKeeps
<1>8. ErrInv'
  BY <1>1 DEF ErrInv, ResultInv
<1>9. CountInv'
  BY <1>1, <1>2, GoesCounts
<1>10. ReturnsResult'
  BY <1>2, <1>4, GoesReturns
<1> QED
  BY <1>3, <1>4, <1>5, <1>7, <1>8, <1>9, <1>10 DEF HeldInv, ArrayInv, ResultInv

\* What is being counted was collected.
LEMMA CountingCollected ==
  ASSUME IInv, NEW c \in Clients
  PROVE  Counting(c) \subseteq values[c]
<1> SUFFICES ASSUME NEW i \in Counting(c) PROVE i \in values[c]
  OBVIOUS
<1>1. PICK p \in Completers : pc[p] = "count" /\ Current(p) = <<c, i>>
  BY DEF Counting
<1>2. PICK d \in Clients : \E j \in Futures(d) : Current(p) = <<d, j>> /\ CallDone(p, d, j)
  BY <1>1 DEF IInv, WakeInv, CallInv
<1> QED
  BY <1>1, <1>2 DEF CallDone

\* BlockOn's waker raises the flag.
LEMMA WakeFlagStep ==
  ASSUME IInv, NEW p \in Completers, WakeFlag(p)
  PROVE  IInv'
<1> USE DEF IInv, Types
<1>0. /\ pc[p] \in {"waking", "count", "flag", "signal"} /\ Won(p)
      /\ turn[p] <= Len(wakers[TaskOf[p]])
      /\ \E c \in Clients : \E i \in Futures(c) : Current(p) = <<c, i>> /\ CallDone(p, c, i)
  BY DEF CallInv, WakeInv, Won, WakeFlag
<1>a. PICK c \in Clients : \E i \in Futures(c) : Current(p) = <<c, i>> /\ CallDone(p, c, i)
  BY <1>0
<1>b. PICK i \in Futures(c) : Current(p) = <<c, i>> /\ CallDone(p, c, i)
  BY <1>a
<1>c. /\ Wanted[c][i] = TaskOf[p] /\ TaskOf[p] \in Tasks /\ Completed(TaskOf[p])
      /\ Owner(Current(p)) = c /\ Index(Current(p)) = i
  BY <1>0, <1>b, CalledTask DEF Owner, Index
<1>1. /\ \A q \in Completers \ {p} : pc'[q] = pc[q] /\ turn'[q] = turn[q]
      /\ UNCHANGED <<result, wakers, slot, at, copied, seen, deployed, done, ret>>
      /\ \A d \in Clients : pc'[d] = pc[d]
      /\ pc'[p] = "signal" /\ turn' = turn
      /\ isWaken' = [isWaken EXCEPT ![c] = TRUE]
      /\ pc[p] \in {"waking", "flag"} /\ (pc[p] = "waking" => c \notin Joiners)
      /\ \A d \in Clients : isWaken[d] => isWaken'[d]
      /\ UNCHANGED <<values, pendingCount, err, twice>>
  BY <1>c, Goroutines DEF PlaceTypes, JoinTypes, taskVars, futureVars, localVars, blockVars, joinVars, WakeFlag, Goto
<1>2. Goes(p)
  BY <1>1, KindNames DEF Goes, JoinTypes
<1>3. TaskTypes'
  BY <1>1 DEF TaskTypes
<1>4. PlaceTypes'
  <2>1. DOMAIN pc' = Clients \cup Completers /\ crashed' \in BOOLEAN
    BY DEF PlaceTypes, taskVars, futureVars, localVars, blockVars, joinVars, WakeFlag, Goto
  <2>2. turn' \in [Completers -> Nat \ {0}]
    BY DEF PlaceTypes, taskVars, futureVars, localVars, blockVars, joinVars, WakeFlag, Goto
  <2> QED
    BY <1>1, <2>1, <2>2 DEF PlaceTypes, CompleterPCs, ClientPCs
<1>5. JoinTypes'
  BY <1>1 DEF JoinTypes
<1>6. HeldInv' /\ AtInv' /\ BlockOnInv'
  BY <1>1, <1>2, CompleterFrame DEF Goes
<1>7. pc'[p] \in {"waking", "count", "flag", "signal"} =>
        /\ turn'[p] <= Len(wakers[TaskOf[p]])
        /\ \E d \in Clients : \E j \in Futures(d) : (Current(p) = <<d, j>> /\ CallDone(p, d, j))'
  <2>1. Current(p)' = <<c, i>>
    BY <1>1, <1>b DEF Current
  <2>2. CallDone(p, c, i)'
    BY <1>0, <1>1, <1>b DEF CallDone, JoinTypes
  <2> QED
    BY <1>0, <1>1, <2>1, <2>2
<1>8. WakeInv'
  <2>1. MayPass(p)
    BY <1>1 DEF MayPass
  <2>2. (Won(p)' <=> Won(p)) /\ (~Won(p) => turn'[p] = turn[p])
    BY <1>0, <1>1 DEF Won
  <2>3. pc'[p] # "returned"
    BY <1>0, <1>1
  <2> QED
    BY <1>2, <1>7, <2>1, <2>2, <2>3, GoesKeeps
<1>9. ErrInv'
  BY <1>1 DEF ErrInv, ResultInv
<1>10. CountInv'
  BY <1>0, <1>1, <1>2, GoesCounts
<1>11. ReturnsResult'
  BY <1>2, <1>5, GoesReturns
<1> QED
  BY <1>3, <1>4, <1>5, <1>6, <1>8, <1>9, <1>10, <1>11 DEF HeldInv, ArrayInv, ResultInv

\* BlockOn's waker signals the condition variable.
LEMMA WakeSignalStep ==
  ASSUME IInv, NEW p \in Completers, WakeSignal(p)
  PROVE  IInv'
<1> USE DEF IInv, Types
<1>0. /\ pc[p] \in {"waking", "count", "flag", "signal"} /\ Won(p)
      /\ turn[p] <= Len(wakers[TaskOf[p]])
      /\ \E c \in Clients : \E i \in Futures(c) : Current(p) = <<c, i>> /\ CallDone(p, c, i)
  BY DEF CallInv, WakeInv, Won, WakeSignal
<1>a. PICK c \in Clients : \E i \in Futures(c) : Current(p) = <<c, i>> /\ CallDone(p, c, i)
  BY <1>0
<1>b. PICK i \in Futures(c) : Current(p) = <<c, i>> /\ CallDone(p, c, i)
  BY <1>a
<1>c. /\ Wanted[c][i] = TaskOf[p] /\ TaskOf[p] \in Tasks /\ Completed(TaskOf[p])
      /\ Owner(Current(p)) = c /\ Index(Current(p)) = i
  BY <1>0, <1>b, CalledTask DEF Owner, Index
<1>1. /\ \A q \in Completers \ {p} : pc'[q] = pc[q] /\ turn'[q] = turn[q]
      /\ UNCHANGED <<result, wakers, slot, at, copied, seen, deployed, done, ret>>
      /\ pc[p] = "signal" /\ pc'[p] = "wake" /\ turn'[p] = turn[p] + 1
      /\ pc'[c] = IF pc[c] = "waiting" THEN "woken" ELSE pc[c]
      /\ \A d \in Clients \ {c} : pc'[d] = pc[d]
      /\ UNCHANGED <<isWaken, values, pendingCount, err, twice>>
  BY <1>c, Goroutines DEF PlaceTypes, JoinTypes, taskVars, futureVars, localVars, blockVars, joinVars, WakeSignal, Advance
<1>2. Goes(p)
  BY <1>1, KindNames DEF Goes, JoinTypes
<1>3. TaskTypes'
  BY <1>1 DEF TaskTypes
<1>4. PlaceTypes'
  <2>1. DOMAIN pc' = Clients \cup Completers /\ crashed' \in BOOLEAN
    BY DEF PlaceTypes, taskVars, futureVars, localVars, blockVars, joinVars, WakeSignal, Advance
  <2>2. turn' \in [Completers -> Nat \ {0}]
    BY DEF PlaceTypes, taskVars, futureVars, localVars, blockVars, joinVars, WakeSignal, Advance
  <2> QED
    BY <1>1, <2>1, <2>2 DEF PlaceTypes, CompleterPCs, ClientPCs
<1>5. JoinTypes'
  BY <1>1 DEF JoinTypes
<1>6. HeldInv' /\ AtInv' /\ BlockOnInv'
  BY <1>1, <1>2, CompleterFrame DEF Goes
<1>7. pc'[p] \in {"waking", "count", "flag", "signal"} =>
        /\ turn'[p] <= Len(wakers[TaskOf[p]])
        /\ \E d \in Clients : \E j \in Futures(d) : (Current(p) = <<d, j>> /\ CallDone(p, d, j))'
  BY <1>1
<1>8. WakeInv'
  <2>1. MayPass(p)
    <3> SUFFICES ASSUME NEW d \in Clients, NEW j \in Futures(d), Current(p) = <<d, j>>, Told(d, j)'
                 PROVE  IF d \in Joiners THEN err'[d] # "none" ELSE isWaken'[d] /\ pc'[d] # "waiting"
      BY <1>1 DEF MayPass
    <3>1. d = c /\ j = i
      BY <1>b
    <3>2. CASE c \in Joiners
      BY <1>1, <1>b, <3>1, <3>2 DEF CallDone, Told
    <3>3. CASE c \notin Joiners
      BY <1>1, <1>b, <3>1, <3>3 DEF CallDone, Told, Polled
    <3> QED
      BY <3>1, <3>2, <3>3
  <2>2. (Won(p)' <=> Won(p)) /\ (~Won(p) => turn'[p] = turn[p])
    BY <1>0, <1>1 DEF Won
  <2>3. pc'[p] # "returned"
    BY <1>0, <1>1
  <2> QED
    BY <1>2, <1>7, <2>1, <2>2, <2>3, GoesKeeps
<1>9. ErrInv'
  BY <1>1 DEF ErrInv, ResultInv
<1>10. CountInv'
  BY <1>0, <1>1, <1>2, GoesCounts
<1>11. ReturnsResult'
  BY <1>2, <1>5, GoesReturns
<1> QED
  BY <1>3, <1>4, <1>5, <1>6, <1>8, <1>9, <1>10, <1>11 DEF HeldInv, ArrayInv, ResultInv

\* The waker of a join stores the error of its task.
LEMMA WakeFailsStep ==
  ASSUME IInv, NEW p \in Completers, WakePending(p),
         result[TaskOf[p]].kind \in Errors,
         err[Owner(Current(p))] \in {"none", result[TaskOf[p]].kind}
  PROVE  IInv'
<1> USE DEF IInv, Types
<1>0. /\ pc[p] \in {"waking", "count", "flag", "signal"} /\ Won(p)
      /\ turn[p] <= Len(wakers[TaskOf[p]])
      /\ \E c \in Clients : \E i \in Futures(c) : Current(p) = <<c, i>> /\ CallDone(p, c, i)
  BY DEF CallInv, WakeInv, Won, WakePending
<1>a. PICK c \in Clients : \E i \in Futures(c) : Current(p) = <<c, i>> /\ CallDone(p, c, i)
  BY <1>0
<1>b. PICK i \in Futures(c) : Current(p) = <<c, i>> /\ CallDone(p, c, i)
  BY <1>a
<1>c. /\ Wanted[c][i] = TaskOf[p] /\ TaskOf[p] \in Tasks /\ Completed(TaskOf[p])
      /\ Owner(Current(p)) = c /\ Index(Current(p)) = i
  BY <1>0, <1>b, CalledTask DEF Owner, Index
<1>1. /\ \A q \in Completers \ {p} : pc'[q] = pc[q] /\ turn'[q] = turn[q]
      /\ UNCHANGED <<result, wakers, slot, at, copied, seen, deployed, done, ret>>
      /\ \A d \in Clients : pc'[d] = pc[d]
      /\ pc[p] = "waking" /\ pc'[p] = "flag" /\ turn' = turn /\ c \in Joiners
      /\ err' = [err EXCEPT ![c] = result[TaskOf[p]].kind]
      /\ UNCHANGED <<isWaken, values, pendingCount, twice>>
  <2>1. /\ pc[p] = "waking" /\ c \in Joiners
        /\ err' = [err EXCEPT ![c] = result[TaskOf[p]].kind]
        /\ pc' = [pc EXCEPT ![p] = "flag"]
        /\ UNCHANGED <<values, twice>>
    BY <1>c DEF WakePending, Goto
  <2>2. UNCHANGED <<taskVars, futureVars, localVars, blockVars, pendingCount, done, deployed>>
    BY DEF WakePending
  <2> QED
    BY <2>1, <2>2, Goroutines DEF PlaceTypes, taskVars, futureVars, localVars, blockVars
<1>2. Goes(p)
  BY <1>1, KindNames DEF Goes, JoinTypes
<1>3. TaskTypes'
  BY <1>1 DEF TaskTypes
<1>4. PlaceTypes'
  <2>1. DOMAIN pc' = Clients \cup Completers /\ crashed' \in BOOLEAN
    BY DEF PlaceTypes, taskVars, futureVars, localVars, blockVars, joinVars, WakePending, Goto
  <2>2. turn' \in [Completers -> Nat \ {0}]
    BY DEF PlaceTypes, taskVars, futureVars, localVars, blockVars, joinVars, WakePending, Goto
  <2> QED
    BY <1>1, <2>1, <2>2 DEF PlaceTypes, CompleterPCs, ClientPCs
<1>5. JoinTypes'
  BY <1>1 DEF JoinTypes
<1>6. HeldInv' /\ AtInv' /\ BlockOnInv'
  BY <1>1, <1>2, CompleterFrame DEF Goes
<1>7. pc'[p] \in {"waking", "count", "flag", "signal"} =>
        /\ turn'[p] <= Len(wakers[TaskOf[p]])
        /\ \E d \in Clients : \E j \in Futures(d) : (Current(p) = <<d, j>> /\ CallDone(p, d, j))'
  <2>1. Current(p)' = <<c, i>>
    BY <1>1, <1>b DEF Current
  <2>2. err'[c] # "none"
    BY <1>1, KindNames DEF JoinTypes
  <2>3. CallDone(p, c, i)'
    BY <1>1, <2>2 DEF CallDone
  <2> QED
    BY <1>0, <1>1, <2>1, <2>3
<1>8. WakeInv'
  <2>1. MayPass(p)
    BY <1>1 DEF MayPass
  <2>2. (Won(p)' <=> Won(p)) /\ (~Won(p) => turn'[p] = turn[p])
    BY <1>0, <1>1 DEF Won
  <2>3. pc'[p] # "returned"
    BY <1>0, <1>1
  <2> QED
    BY <1>2, <1>7, <2>1, <2>2, <2>3, GoesKeeps
<1>9. ErrInv'
  <2> SUFFICES ASSUME NEW d \in Clients, err'[d] # "none"
               PROVE  \E j \in Futures(d) : result[Wanted[d][j]].kind = err'[d]
    BY <1>1 DEF ErrInv
  <2>1. CASE d = c
    BY <1>1, <1>c, <2>1 DEF JoinTypes
  <2>2. CASE d # c
    BY <1>1, <2>2 DEF JoinTypes, ErrInv, ResultInv
  <2> QED
    BY <2>1, <2>2
<1>10. CountInv'
  BY <1>0, <1>1, <1>2, GoesCounts
<1>11. ReturnsResult'
  BY <1>2, <1>5, GoesReturns
<1> QED
  BY <1>3, <1>4, <1>5, <1>6, <1>8, <1>9, <1>10, <1>11 DEF HeldInv, ArrayInv, ResultInv

\* The waker of a join stores an error of another type, and the program crashes.
LEMMA WakePanicsStep ==
  ASSUME IInv, NEW p \in Completers, WakePending(p),
         result[TaskOf[p]].kind \in Errors,
         err[Owner(Current(p))] \notin {"none", result[TaskOf[p]].kind}
  PROVE  IInv'
<1> USE DEF IInv, Types
<1>0. /\ pc[p] \in {"waking", "count", "flag", "signal"} /\ Won(p)
      /\ turn[p] <= Len(wakers[TaskOf[p]])
      /\ \E c \in Clients : \E i \in Futures(c) : Current(p) = <<c, i>> /\ CallDone(p, c, i)
  BY DEF CallInv, WakeInv, Won, WakePending
<1>a. PICK c \in Clients : \E i \in Futures(c) : Current(p) = <<c, i>> /\ CallDone(p, c, i)
  BY <1>0
<1>b. PICK i \in Futures(c) : Current(p) = <<c, i>> /\ CallDone(p, c, i)
  BY <1>a
<1>c. /\ Wanted[c][i] = TaskOf[p] /\ TaskOf[p] \in Tasks /\ Completed(TaskOf[p])
      /\ Owner(Current(p)) = c /\ Index(Current(p)) = i
  BY <1>0, <1>b, CalledTask DEF Owner, Index
<1>1. /\ \A q \in Completers \ {p} : pc'[q] = pc[q] /\ turn'[q] = turn[q]
      /\ UNCHANGED <<result, wakers, slot, at, copied, seen, deployed, done, ret>>
      /\ \A d \in Clients : pc'[d] = pc[d]
      /\ pc[p] = "waking" /\ pc' = pc /\ turn' = turn
      /\ UNCHANGED <<err, isWaken, values, pendingCount, twice>>
  BY <1>c, Goroutines DEF PlaceTypes, JoinTypes, taskVars, futureVars, localVars, blockVars, joinVars, WakePending, Goto
<1>2. Goes(p)
  BY <1>1, KindNames DEF Goes, JoinTypes
<1>3. TaskTypes'
  BY <1>1 DEF TaskTypes
<1>4. PlaceTypes'
  <2>1. DOMAIN pc' = Clients \cup Completers /\ crashed' \in BOOLEAN
    BY DEF PlaceTypes, taskVars, futureVars, localVars, blockVars, joinVars, WakePending, Goto
  <2>2. turn' \in [Completers -> Nat \ {0}]
    BY DEF PlaceTypes, taskVars, futureVars, localVars, blockVars, joinVars, WakePending, Goto
  <2> QED
    BY <1>1, <2>1, <2>2 DEF PlaceTypes, CompleterPCs, ClientPCs
<1>5. JoinTypes'
  BY <1>1 DEF JoinTypes
<1>6. HeldInv' /\ AtInv' /\ BlockOnInv'
  BY <1>1, <1>2, CompleterFrame DEF Goes
<1>7. pc'[p] \in {"waking", "count", "flag", "signal"} =>
        /\ turn'[p] <= Len(wakers[TaskOf[p]])
        /\ \E d \in Clients : \E j \in Futures(d) : (Current(p) = <<d, j>> /\ CallDone(p, d, j))'
  <2>1. Current(p)' = <<c, i>>
    BY <1>1, <1>b DEF Current
  <2>2. CallDone(p, c, i)'
    BY <1>0, <1>1, <1>b DEF CallDone
  <2> QED
    BY <1>0, <1>1, <2>1, <2>2
<1>8. WakeInv'
  <2>1. MayPass(p)
    BY <1>1 DEF MayPass
  <2>2. (Won(p)' <=> Won(p)) /\ (~Won(p) => turn'[p] = turn[p])
    BY <1>0, <1>1 DEF Won
  <2>3. pc'[p] # "returned"
    BY <1>0, <1>1
  <2> QED
    BY <1>2, <1>7, <2>1, <2>2, <2>3, GoesKeeps
<1>9. ErrInv'
  BY <1>1 DEF ErrInv, ResultInv
<1>10. CountInv'
  BY <1>0, <1>1, <1>2, GoesCounts
<1>11. ReturnsResult'
  BY <1>2, <1>5, GoesReturns
<1> QED
  BY <1>3, <1>4, <1>5, <1>6, <1>8, <1>9, <1>10, <1>11 DEF HeldInv, ArrayInv, ResultInv

\* The waker of a join collects the value.
LEMMA WakeCollectsStep ==
  ASSUME IInv, NEW p \in Completers, WakePending(p),
         result[TaskOf[p]].kind \notin Errors
  PROVE  IInv'
<1> USE DEF IInv, Types
<1>0. /\ pc[p] \in {"waking", "count", "flag", "signal"} /\ Won(p)
      /\ turn[p] <= Len(wakers[TaskOf[p]])
      /\ \E c \in Clients : \E i \in Futures(c) : Current(p) = <<c, i>> /\ CallDone(p, c, i)
  BY DEF CallInv, WakeInv, Won, WakePending
<1>a. PICK c \in Clients : \E i \in Futures(c) : Current(p) = <<c, i>> /\ CallDone(p, c, i)
  BY <1>0
<1>b. PICK i \in Futures(c) : Current(p) = <<c, i>> /\ CallDone(p, c, i)
  BY <1>a
<1>c. /\ Wanted[c][i] = TaskOf[p] /\ TaskOf[p] \in Tasks /\ Completed(TaskOf[p])
      /\ Owner(Current(p)) = c /\ Index(Current(p)) = i
  BY <1>0, <1>b, CalledTask DEF Owner, Index
<1>1. /\ \A q \in Completers \ {p} : pc'[q] = pc[q] /\ turn'[q] = turn[q]
      /\ UNCHANGED <<result, wakers, slot, at, copied, seen, deployed, done, ret>>
      /\ \A d \in Clients : pc'[d] = pc[d]
      /\ pc[p] = "waking" /\ pc'[p] = "count" /\ turn' = turn /\ c \in Joiners
      /\ values' = [values EXCEPT ![c] = values[c] \cup {i}]
      /\ twice' = [twice EXCEPT ![c] = twice[c] \/ i \in values[c]]
      /\ \A d \in Clients : values[d] \subseteq values'[d] /\ (twice[d] => twice'[d])
      /\ UNCHANGED <<isWaken, pendingCount, err>>
  BY <1>c, Goroutines DEF PlaceTypes, JoinTypes, taskVars, futureVars, localVars, blockVars, joinVars, WakePending, Goto, Collect
<1>2. Goes(p)
  BY <1>1, KindNames DEF Goes, JoinTypes
<1>3. TaskTypes'
  BY <1>1 DEF TaskTypes
<1>4. PlaceTypes'
  <2>1. DOMAIN pc' = Clients \cup Completers /\ crashed' \in BOOLEAN
    BY DEF PlaceTypes, taskVars, futureVars, localVars, blockVars, joinVars, WakePending, Goto, Collect
  <2>2. turn' \in [Completers -> Nat \ {0}]
    BY DEF PlaceTypes, taskVars, futureVars, localVars, blockVars, joinVars, WakePending, Goto, Collect
  <2> QED
    BY <1>1, <2>1, <2>2 DEF PlaceTypes, CompleterPCs, ClientPCs
<1>5. JoinTypes'
  <2>1. \A d \in Clients : values'[d] \subseteq Futures(d)
    BY <1>1 DEF JoinTypes
  <2>2. twice' \in [Clients -> BOOLEAN] /\ DOMAIN values' = Clients
    BY <1>1 DEF JoinTypes
  <2> QED
    BY <1>1, <2>1, <2>2 DEF JoinTypes
<1>6. HeldInv' /\ AtInv' /\ BlockOnInv'
  BY <1>1, <1>2, CompleterFrame DEF Goes
<1>7. pc'[p] \in {"waking", "count", "flag", "signal"} =>
        /\ turn'[p] <= Len(wakers[TaskOf[p]])
        /\ \E d \in Clients : \E j \in Futures(d) : (Current(p) = <<d, j>> /\ CallDone(p, d, j))'
  <2>1. Current(p)' = <<c, i>>
    BY <1>1, <1>b DEF Current
  <2>2. i \in values'[c]
    BY <1>1 DEF JoinTypes
  <2>3. CallDone(p, c, i)'
    BY <1>1, <2>2 DEF CallDone
  <2> QED
    BY <1>0, <1>1, <2>1, <2>3
<1>8. WakeInv'
  <2>1. MayPass(p)
    BY <1>1 DEF MayPass
  <2>2. (Won(p)' <=> Won(p)) /\ (~Won(p) => turn'[p] = turn[p])
    BY <1>0, <1>1 DEF Won
  <2>3. pc'[p] # "returned"
    BY <1>0, <1>1
  <2> QED
    BY <1>2, <1>7, <2>1, <2>2, <2>3, GoesKeeps
<1>9. ErrInv'
  BY <1>1 DEF ErrInv, ResultInv
<1>10. CountInv'
  <2>1. \A d \in Clients \ {c} : Counting(d)' = Counting(d) /\ values'[d] = values[d] /\ twice'[d] = twice[d]
    <3>1. \A d \in Clients \ {c} : Counting(d)' = Counting(d)
      BY <1>1, <1>b DEF Counting, Current
    <3> QED
      BY <1>1, <3>1 DEF JoinTypes
  <2>2. Counting(c)' = Counting(c) \cup {i}
    BY <1>1, <1>b DEF Counting, Current
  <2>3. values'[c] = values[c] \cup {i} /\ (~twice'[c] => ~twice[c] /\ i \notin values[c])
    BY <1>1 DEF JoinTypes
  <2>4. ASSUME ~twice'[c]
        PROVE  /\ Cardinality(values'[c]) = Cardinality(values[c]) + 1
               /\ Cardinality(Counting(c)') = Cardinality(Counting(c)) + 1
    <3>1. Counting(c) \subseteq values[c]
      BY CountingCollected
    <3>2. IsFiniteSet(values[c]) /\ IsFiniteSet(Counting(c))
      BY FutureSets DEF JoinTypes, Counting
    <3>3. i \notin values[c] /\ i \notin Counting(c)
      BY <2>3, <2>4, <3>1
    <3> QED
      BY <2>2, <2>3, <3>2, <3>3, FS_AddElement
  <2>5. ASSUME NEW d \in Joiners, ~twice'[d]
        PROVE  pendingCount'[d] = Len(Wanted[d]) - Cardinality(values'[d]) + done'[d] + Cardinality(Counting(d)')
    <3>1. d \in Clients
      BY WantedAssumption
    <3>2. CASE d # c
      BY <1>1, <2>1, <2>5, <3>1, <3>2 DEF CountInv, ResultInv
    <3>3. CASE d = c
      <4>1. /\ Cardinality(values'[c]) = Cardinality(values[c]) + 1
            /\ Cardinality(Counting(c)') = Cardinality(Counting(c)) + 1
        BY <2>4, <2>5, <3>3
      <4>2. pendingCount[c] = Len(Wanted[c]) - Cardinality(values[c]) + done[c] + Cardinality(Counting(c))
        BY <2>3, <2>5, <3>3 DEF CountInv, ResultInv
      <4>3. /\ Cardinality(values[c]) \in Nat /\ Cardinality(Counting(c)) \in Nat
            /\ Len(Wanted[c]) \in Nat /\ done[c] \in Nat
        BY CountFacts
      <4>4. pendingCount'[c] = Len(Wanted[c]) - Cardinality(values'[c]) + done'[c] + Cardinality(Counting(c)')
        BY <1>1, <4>1, <4>2, <4>3
      <4> QED
        BY <3>3, <4>4
    <3> QED
      BY <3>2, <3>3
  <2> QED
    BY <2>5 DEF CountInv
<1>11. ReturnsResult'
  BY <1>2, <1>5, GoesReturns
<1> QED
  BY <1>3, <1>4, <1>5, <1>6, <1>8, <1>9, <1>10, <1>11 DEF HeldInv, ArrayInv, ResultInv

\* The waker of a join counts down the last value and goes on to wake BlockOn.
LEMMA WakeCountLastStep ==
  ASSUME IInv, NEW p \in Completers, WakeCount(p),
         pendingCount[Owner(Current(p))] = 1
  PROVE  IInv'
<1> USE DEF IInv, Types
<1>0. /\ pc[p] \in {"waking", "count", "flag", "signal"} /\ Won(p)
      /\ turn[p] <= Len(wakers[TaskOf[p]])
      /\ \E c \in Clients : \E i \in Futures(c) : Current(p) = <<c, i>> /\ CallDone(p, c, i)
  BY DEF CallInv, WakeInv, Won, WakeCount
<1>a. PICK c \in Clients : \E i \in Futures(c) : Current(p) = <<c, i>> /\ CallDone(p, c, i)
  BY <1>0
<1>b. PICK i \in Futures(c) : Current(p) = <<c, i>> /\ CallDone(p, c, i)
  BY <1>a
<1>c. /\ Wanted[c][i] = TaskOf[p] /\ TaskOf[p] \in Tasks /\ Completed(TaskOf[p])
      /\ Owner(Current(p)) = c /\ Index(Current(p)) = i
  BY <1>0, <1>b, CalledTask DEF Owner, Index
<1>1. /\ \A q \in Completers \ {p} : pc'[q] = pc[q] /\ turn'[q] = turn[q]
      /\ UNCHANGED <<result, wakers, slot, at, copied, seen, deployed, done, ret>>
      /\ \A d \in Clients : pc'[d] = pc[d]
      /\ pc[p] = "count" /\ pc'[p] = "flag" /\ turn' = turn
      /\ pendingCount' = [pendingCount EXCEPT ![c] = @ - 1]
      /\ UNCHANGED <<isWaken, values, err, twice>>
  BY <1>c, Goroutines DEF PlaceTypes, JoinTypes, taskVars, futureVars, localVars, blockVars, joinVars, WakeCount, Goto, NextWaker, Advance
<1>2. Goes(p)
  BY <1>1, KindNames DEF Goes, JoinTypes
<1>3. TaskTypes'
  BY <1>1 DEF TaskTypes
<1>4. PlaceTypes'
  <2>1. DOMAIN pc' = Clients \cup Completers /\ crashed' \in BOOLEAN
    BY DEF PlaceTypes, taskVars, futureVars, localVars, blockVars, joinVars, WakeCount, Goto, NextWaker, Advance
  <2>2. turn' \in [Completers -> Nat \ {0}]
    BY DEF PlaceTypes, taskVars, futureVars, localVars, blockVars, joinVars, WakeCount, Goto, NextWaker, Advance
  <2> QED
    BY <1>1, <2>1, <2>2 DEF PlaceTypes, CompleterPCs, ClientPCs
<1>5. JoinTypes'
  BY <1>1 DEF JoinTypes
<1>6. HeldInv' /\ AtInv' /\ BlockOnInv'
  BY <1>1, <1>2, CompleterFrame DEF Goes
<1>7. pc'[p] \in {"waking", "count", "flag", "signal"} =>
        /\ turn'[p] <= Len(wakers[TaskOf[p]])
        /\ \E d \in Clients : \E j \in Futures(d) : (Current(p) = <<d, j>> /\ CallDone(p, d, j))'
  <2>1. Current(p)' = <<c, i>>
    BY <1>1, <1>b DEF Current
  <2>2. CallDone(p, c, i)'
    BY <1>0, <1>1, <1>b DEF CallDone
  <2> QED
    BY <1>0, <1>1, <2>1, <2>2
<1>8. WakeInv'
  <2>1. MayPass(p)
    BY <1>1 DEF MayPass
  <2>2. (Won(p)' <=> Won(p)) /\ (~Won(p) => turn'[p] = turn[p])
    BY <1>0, <1>1 DEF Won
  <2>3. pc'[p] # "returned"
    BY <1>0, <1>1
  <2> QED
    BY <1>2, <1>7, <2>1, <2>2, <2>3, GoesKeeps
<1>9. ErrInv'
  BY <1>1 DEF ErrInv, ResultInv
<1>10. CountInv'
  <2>1. i \in Counting(c)
    BY <1>1, <1>b DEF Counting
  <2>2. \A q \in Completers : pc[q] = "count" /\ Current(q) = <<c, i>> => q = p
    <3> SUFFICES ASSUME NEW q \in Completers, pc[q] = "count", Current(q) = <<c, i>>
                 PROVE  q = p
      OBVIOUS
    <3>1. Won(q) /\ TaskOf[q] = TaskOf[p]
      BY <1>c, CalledTask DEF Won
    <3> QED
      BY <1>0, <3>1 DEF WonInv, WakeInv
  <2>3. Counting(c)' = Counting(c) \ {i}
    <3>1. \A q \in Completers : Current(q)' = IF q = p THEN Current(p)' ELSE Current(q)
      BY <1>1 DEF Current
    <3> QED
      BY <1>1, <1>b, <2>2, <3>1 DEF Counting
  <2>4. \A d \in Clients \ {c} : Counting(d)' = Counting(d) /\ pendingCount'[d] = pendingCount[d]
    <3>1. \A q \in Completers : pc'[q] = "count" => q # p /\ Current(q)' = Current(q) /\ pc[q] = "count"
      BY <1>1 DEF Current
    <3>2. \A q \in Completers \ {p} : pc[q] = "count" => pc'[q] = "count" /\ Current(q)' = Current(q)
      BY <1>1 DEF Current
    <3>3. \A d \in Clients \ {c} : Counting(d)' = Counting(d)
      BY <1>b, <3>1, <3>2 DEF Counting
    <3> QED
      BY <1>1, <3>3 DEF JoinTypes
  <2>5. IsFiniteSet(Counting(c))
    BY FutureSets DEF Counting
  <2>6. Cardinality(Counting(c)') = Cardinality(Counting(c)) - 1
    BY <2>1, <2>3, <2>5, FS_RemoveElement
  <2>7. ASSUME NEW d \in Joiners, ~twice'[d]
        PROVE  pendingCount'[d] = Len(Wanted[d]) - Cardinality(values'[d]) + done'[d] + Cardinality(Counting(d)')
    <3>1. d \in Clients
      BY WantedAssumption
    <3>2. CASE d # c
      BY <1>1, <2>4, <2>7, <3>1, <3>2 DEF CountInv, ResultInv
    <3>3. CASE d = c
      <4>1. pendingCount'[c] = pendingCount[c] - 1
        BY <1>1 DEF JoinTypes
      <4>2. pendingCount[c] = Len(Wanted[c]) - Cardinality(values[c]) + done[c] + Cardinality(Counting(c))
        BY <1>1, <2>7, <3>3 DEF CountInv, ResultInv
      <4>3. /\ Cardinality(values[c]) \in Nat /\ Cardinality(Counting(c)) \in Nat
            /\ Len(Wanted[c]) \in Nat /\ done[c] \in Nat
        BY CountFacts
      <4>4. pendingCount'[c] = Len(Wanted[c]) - Cardinality(values'[c]) + done'[c] + Cardinality(Counting(c)')
        BY <1>1, <2>6, <4>1, <4>2, <4>3
      <4> QED
        BY <3>3, <4>4
    <3> QED
      BY <3>2, <3>3
  <2> QED
    BY <2>7 DEF CountInv
<1>11. ReturnsResult'
  BY <1>2, <1>5, GoesReturns
<1> QED
  BY <1>3, <1>4, <1>5, <1>6, <1>8, <1>9, <1>10, <1>11 DEF HeldInv, ArrayInv, ResultInv

\* The waker of a join counts down, and values are still pending.
LEMMA WakeCountMoreStep ==
  ASSUME IInv, NEW p \in Completers, WakeCount(p),
         pendingCount[Owner(Current(p))] # 1
  PROVE  IInv'
<1> USE DEF IInv, Types
<1>0. /\ pc[p] \in {"waking", "count", "flag", "signal"} /\ Won(p)
      /\ turn[p] <= Len(wakers[TaskOf[p]])
      /\ \E c \in Clients : \E i \in Futures(c) : Current(p) = <<c, i>> /\ CallDone(p, c, i)
  BY DEF CallInv, WakeInv, Won, WakeCount
<1>a. PICK c \in Clients : \E i \in Futures(c) : Current(p) = <<c, i>> /\ CallDone(p, c, i)
  BY <1>0
<1>b. PICK i \in Futures(c) : Current(p) = <<c, i>> /\ CallDone(p, c, i)
  BY <1>a
<1>c. /\ Wanted[c][i] = TaskOf[p] /\ TaskOf[p] \in Tasks /\ Completed(TaskOf[p])
      /\ Owner(Current(p)) = c /\ Index(Current(p)) = i
  BY <1>0, <1>b, CalledTask DEF Owner, Index
<1>1. /\ \A q \in Completers \ {p} : pc'[q] = pc[q] /\ turn'[q] = turn[q]
      /\ UNCHANGED <<result, wakers, slot, at, copied, seen, deployed, done, ret>>
      /\ \A d \in Clients : pc'[d] = pc[d]
      /\ pc[p] = "count" /\ pc'[p] = "wake" /\ turn'[p] = turn[p] + 1
      /\ pendingCount' = [pendingCount EXCEPT ![c] = @ - 1]
      /\ UNCHANGED <<isWaken, values, err, twice>>
  BY <1>c, Goroutines DEF PlaceTypes, JoinTypes, taskVars, futureVars, localVars, blockVars, joinVars, WakeCount, Goto, NextWaker, Advance
<1>2. Goes(p)
  BY <1>1, KindNames DEF Goes, JoinTypes
<1>3. TaskTypes'
  BY <1>1 DEF TaskTypes
<1>4. PlaceTypes'
  <2>1. DOMAIN pc' = Clients \cup Completers /\ crashed' \in BOOLEAN
    BY DEF PlaceTypes, taskVars, futureVars, localVars, blockVars, joinVars, WakeCount, Goto, NextWaker, Advance
  <2>2. turn' \in [Completers -> Nat \ {0}]
    BY DEF PlaceTypes, taskVars, futureVars, localVars, blockVars, joinVars, WakeCount, Goto, NextWaker, Advance
  <2> QED
    BY <1>1, <2>1, <2>2 DEF PlaceTypes, CompleterPCs, ClientPCs
<1>5. JoinTypes'
  BY <1>1 DEF JoinTypes
<1>6. HeldInv' /\ AtInv' /\ BlockOnInv'
  BY <1>1, <1>2, CompleterFrame DEF Goes
<1>7. pc'[p] \in {"waking", "count", "flag", "signal"} =>
        /\ turn'[p] <= Len(wakers[TaskOf[p]])
        /\ \E d \in Clients : \E j \in Futures(d) : (Current(p) = <<d, j>> /\ CallDone(p, d, j))'
  BY <1>1
<1>8. WakeInv'
  <2>1. MayPass(p)
    <3> SUFFICES ASSUME NEW d \in Clients, NEW j \in Futures(d), Current(p) = <<d, j>>, Told(d, j)'
                 PROVE  FALSE
      BY <1>1 DEF MayPass
    <3>1. d = c /\ j = i
      BY <1>b
    <3> QED
      BY <1>1, <1>b, <3>1 DEF CallDone, Told
  <2>2. (Won(p)' <=> Won(p)) /\ (~Won(p) => turn'[p] = turn[p])
    BY <1>0, <1>1 DEF Won
  <2>3. pc'[p] # "returned"
    BY <1>0, <1>1
  <2> QED
    BY <1>2, <1>7, <2>1, <2>2, <2>3, GoesKeeps
<1>9. ErrInv'
  BY <1>1 DEF ErrInv, ResultInv
<1>10. CountInv'
  <2>1. i \in Counting(c)
    BY <1>1, <1>b DEF Counting
  <2>2. \A q \in Completers : pc[q] = "count" /\ Current(q) = <<c, i>> => q = p
    <3> SUFFICES ASSUME NEW q \in Completers, pc[q] = "count", Current(q) = <<c, i>>
                 PROVE  q = p
      OBVIOUS
    <3>1. Won(q) /\ TaskOf[q] = TaskOf[p]
      BY <1>c, CalledTask DEF Won
    <3> QED
      BY <1>0, <3>1 DEF WonInv, WakeInv
  <2>3. Counting(c)' = Counting(c) \ {i}
    <3>1. \A q \in Completers : Current(q)' = IF q = p THEN Current(p)' ELSE Current(q)
      BY <1>1 DEF Current
    <3> QED
      BY <1>1, <1>b, <2>2, <3>1 DEF Counting
  <2>4. \A d \in Clients \ {c} : Counting(d)' = Counting(d) /\ pendingCount'[d] = pendingCount[d]
    <3>1. \A q \in Completers : pc'[q] = "count" => q # p /\ Current(q)' = Current(q) /\ pc[q] = "count"
      BY <1>1 DEF Current
    <3>2. \A q \in Completers \ {p} : pc[q] = "count" => pc'[q] = "count" /\ Current(q)' = Current(q)
      BY <1>1 DEF Current
    <3>3. \A d \in Clients \ {c} : Counting(d)' = Counting(d)
      BY <1>b, <3>1, <3>2 DEF Counting
    <3> QED
      BY <1>1, <3>3 DEF JoinTypes
  <2>5. IsFiniteSet(Counting(c))
    BY FutureSets DEF Counting
  <2>6. Cardinality(Counting(c)') = Cardinality(Counting(c)) - 1
    BY <2>1, <2>3, <2>5, FS_RemoveElement
  <2>7. ASSUME NEW d \in Joiners, ~twice'[d]
        PROVE  pendingCount'[d] = Len(Wanted[d]) - Cardinality(values'[d]) + done'[d] + Cardinality(Counting(d)')
    <3>1. d \in Clients
      BY WantedAssumption
    <3>2. CASE d # c
      BY <1>1, <2>4, <2>7, <3>1, <3>2 DEF CountInv, ResultInv
    <3>3. CASE d = c
      <4>1. pendingCount'[c] = pendingCount[c] - 1
        BY <1>1 DEF JoinTypes
      <4>2. pendingCount[c] = Len(Wanted[c]) - Cardinality(values[c]) + done[c] + Cardinality(Counting(c))
        BY <1>1, <2>7, <3>3 DEF CountInv, ResultInv
      <4>3. /\ Cardinality(values[c]) \in Nat /\ Cardinality(Counting(c)) \in Nat
            /\ Len(Wanted[c]) \in Nat /\ done[c] \in Nat
        BY CountFacts
      <4>4. pendingCount'[c] = Len(Wanted[c]) - Cardinality(values'[c]) + done'[c] + Cardinality(Counting(c)')
        BY <1>1, <2>6, <4>1, <4>2, <4>3
      <4> QED
        BY <3>3, <4>4
    <3> QED
      BY <3>2, <3>3
  <2> QED
    BY <2>7 DEF CountInv
<1>11. ReturnsResult'
  BY <1>2, <1>5, GoesReturns
<1> QED
  BY <1>3, <1>4, <1>5, <1>6, <1>8, <1>9, <1>10, <1>11 DEF HeldInv, ArrayInv, ResultInv

\* complete's CAS succeeds: the task is completed, and its array will not
\* change any more.
LEMMA CompleteWinsStep ==
  ASSUME IInv, NEW p \in Completers, CompleteSwap(p), Unchanged(p, TaskOf[p]),
         UNCHANGED <<blockVars, joinVars>>
  PROVE  IInv'
<1> USE DEF IInv, Types
<1>1. /\ pc[p] = "swap" /\ pc'[p] = "wake"
      /\ \A q \in (Clients \cup Completers) \ {p} : pc'[q] = pc[q] /\ seen'[q] = seen[q]
      /\ UNCHANGED <<wakers, slot, at, copied, turn, crashed, isWaken, ret, values,
                     pendingCount, done, err, twice, deployed>>
  BY DEF TaskTypes, PlaceTypes, futureVars, blockVars, joinVars, CompleteSwap, Goto, Forget
<1>2. PICK t \in Tasks : t = TaskOf[p]
  BY WantedAssumption
<1>3. Loaded(p, t) /\ ~Completed(t)
  <2>1. Loaded(p, t)
    BY <1>1, <1>2 DEF Loaded
  <2> QED
    BY <1>2, <2>1 DEF VerInv, ArrayInv, Unchanged
<1>4. PICK k \in Kinds : Publish(t, k)
  BY <1>2 DEF CompleteSwap
<1>5. /\ result' \in [Tasks -> [kind : {"none"} \cup Kinds, ver : Nat]]
      /\ result'[t].ver = result[t].ver + 1 /\ result'[t].kind = k
      /\ \A u \in Tasks \ {t} : result'[u] = result[u]
  <2>1. PICK r : r = [kind |-> k, ver |-> result[t].ver + 1]
    OBVIOUS
  <2>2. r \in [kind : {"none"} \cup Kinds, ver : Nat] /\ r.kind = k /\ r.ver = result[t].ver + 1
    BY <2>1 DEF TaskTypes
  <2>3. result' = [result EXCEPT ![t] = r]
    BY <1>4, <2>1 DEF Publish
  <2> QED
    BY <2>2, <2>3 DEF TaskTypes
<1>6. \A u \in Tasks : Completed(u)' <=> (Completed(u) \/ u = t)
  BY <1>5, KindNames DEF Completed
\* Those who loaded the task's result before fail.
<1>7. ASSUME NEW q \in Clients \cup Completers, NEW u \in Tasks, Loaded(q, u)'
      PROVE  /\ Loaded(q, u) /\ seen'[q] = seen[q]
             /\ u = t => seen'[q].ver < result'[u].ver
  <2>1. q # p
    BY <1>1, <1>7, Goroutines DEF Loaded
  <2>2. Loaded(q, u) /\ seen'[q] = seen[q]
    BY <1>1, <1>7, <2>1 DEF Loaded, Task
  <2>3. seen[q].ver <= result[u].ver /\ seen[q].ver \in Nat /\ result[u].ver \in Nat
    BY <2>2 DEF VerInv, ArrayInv, TaskTypes
  <2> QED
    BY <1>5, <2>2, <2>3
<1>8. ASSUME NEW d \in Clients, pc'[d] \in {"publish", "register"}, Unchanged(d, Task(d))'
      PROVE  pc[d] = pc'[d] /\ Task(d)' = Task(d) /\ Unchanged(d, Task(d))
  <2>1. pc[d] = pc'[d] /\ Task(d)' = Task(d) /\ seen'[d] = seen[d]
    BY <1>1, Goroutines DEF Task
  <2>2. Task(d) \in Tasks /\ Loaded(d, Task(d))' /\ seen'[d].ver \in Nat
    BY <1>8, <2>1, WantedTask DEF Task, AtInv, ArrayInv, Futures, PlaceTypes, Loaded, TaskTypes
  <2>3. Task(d) # t
    BY <1>5, <1>7, <1>8, <2>1, <2>2 DEF Unchanged, TaskTypes
  <2> QED
    BY <1>5, <1>8, <2>1, <2>2, <2>3 DEF Unchanged
<1>9. \A c \in Clients : pc'[c] = pc[c]
  BY <1>1, Goroutines
<1>10. TaskTypes' /\ PlaceTypes' /\ JoinTypes'
  <2>1. TaskTypes'
    BY <1>1, <1>5 DEF TaskTypes, CompleteSwap, Forget, NoResult
  <2>2. PlaceTypes'
    BY <1>1, <1>9 DEF PlaceTypes, CompleteSwap, Goto, CompleterPCs
  <2>3. JoinTypes'
    BY <1>1 DEF JoinTypes
  <2> QED
    BY <2>1, <2>2, <2>3
<1>11. AtInv' /\ PollingInv' /\ SlotInv' /\ BlockOnInv'
  BY <1>1, <1>9 DEF AtInv, PollingInv, SlotInv, BlockOnInv, ArrayInv
<1>12. CreatedInv'
  BY <1>1, <1>6, <1>9, WantedTask DEF CreatedInv, ArrayInv
<1>13. EntryInv' /\ DeployedInv'
  <2>1. EntryInv'
    BY <1>1, <1>9 DEF EntryInv, ArrayInv, Task
  <2>2. DeployedInv'
    BY <1>1 DEF DeployedInv, ArrayInv
  <2> QED
    BY <2>1, <2>2
<1>14. VerInv'
  <2> SUFFICES ASSUME NEW q \in Clients \cup Completers, NEW u \in Tasks, Loaded(q, u)'
               PROVE  (/\ seen[q].ver <= result[u].ver
                       /\ seen[q].ver = result[u].ver => seen[q].len = Len(wakers[u]) /\ ~Completed(u))'
    BY DEF VerInv
  <2>1. Loaded(q, u) /\ seen'[q] = seen[q] /\ seen[q].ver \in Nat /\ result'[u].ver \in Nat
    BY <1>5, <1>7 DEF TaskTypes
  <2>2. CASE u = t
    BY <1>7, <2>1, <2>2
  <2>3. CASE u # t
    BY <1>1, <1>5, <1>6, <2>1, <2>3 DEF VerInv, ArrayInv
  <2> QED
    BY <2>2, <2>3
<1>15. CopyInv'
  <2> SUFFICES ASSUME NEW d \in Clients, (pc[d] = "publish")', Unchanged(d, Task(d))'
               PROVE  GoodCopy(d)'
    BY DEF CopyInv
  <2>1. pc[d] = "publish" /\ Task(d)' = Task(d) /\ Unchanged(d, Task(d))
    BY <1>8
  <2>2. GoodCopy(d)
    BY <2>1 DEF CopyInv, ArrayInv
  <2> QED
    BY <1>1, <2>1, <2>2 DEF GoodCopy
<1>16. WriteInv'
  <2> SUFFICES ASSUME NEW d \in Clients, (pc[d] = "register")', Unchanged(d, Task(d))'
               PROVE  Registered(d)'
    BY DEF WriteInv
  <2>1. pc[d] = "register" /\ Task(d)' = Task(d) /\ Unchanged(d, Task(d))
    BY <1>8
  <2>2. Registered(d)
    BY <2>1 DEF WriteInv, ArrayInv
  <2> QED
    BY <1>1, <2>1, <2>2 DEF Registered, Slot
<1>17. /\ Won(p)' /\ ~Won(p) /\ turn[p] = 1
       /\ \A q \in Completers \ {p} : Won(q)' <=> Won(q)
       /\ \A q \in Completers : Won(q) => TaskOf[q] # t
  <2>1. Won(p)' /\ ~Won(p)
    BY <1>1 DEF Won
  <2> QED
    BY <1>1, <1>3, <2>1 DEF Won, WonInv, WakeInv
<1>18. WonInv'
  <2>1. ASSUME NEW q \in Completers
        PROVE  /\ IF Won(q)' THEN Completed(TaskOf[q])' ELSE turn'[q] = 1
               /\ pc'[q] = "returned" => turn'[q] > Len(wakers'[TaskOf[q]])
    <3>1. CASE q = p
      BY <1>1, <1>2, <1>6, <1>17, <3>1
    <3>2. CASE q # p
      BY <1>1, <1>6, <1>17, <3>2, WantedAssumption DEF WonInv, WakeInv
    <3> QED
      BY <3>1, <3>2
  <2>2. \A q, r \in Completers : Won(q)' /\ Won(r)' /\ TaskOf[q] = TaskOf[r] => q = r
    BY <1>2, <1>17 DEF WonInv, WakeInv
  <2>3. \A u \in Tasks : Completed(u)' => \E q \in Completers : Won(q)' /\ TaskOf[q] = u
    BY <1>2, <1>6, <1>17 DEF WonInv, WakeInv
  <2> QED
    BY <2>1, <2>2, <2>3 DEF WonInv
<1>19. CallInv'
  <2> SUFFICES ASSUME NEW q \in Completers, (pc[q] \in {"waking", "count", "flag", "signal"})'
               PROVE  /\ (turn[q] <= Len(wakers[TaskOf[q]]))'
                      /\ \E c \in Clients : \E i \in Futures(c) :
                           (Current(q) = <<c, i>> /\ CallDone(q, c, i))'
    BY DEF CallInv
  <2>1. pc[q] = pc'[q] /\ Current(q)' = Current(q) /\ turn' = turn /\ wakers' = wakers
    BY <1>1 DEF Current
  <2>2. turn[q] <= Len(wakers[TaskOf[q]])
    BY <2>1 DEF CallInv, WakeInv
  <2>3. PICK c \in Clients : \E i \in Futures(c) : Current(q) = <<c, i>> /\ CallDone(q, c, i)
    BY <2>1 DEF CallInv, WakeInv
  <2>4. PICK i \in Futures(c) : Current(q) = <<c, i>> /\ CallDone(q, c, i)
    BY <2>3
  <2>5. CallDone(q, c, i)'
    BY <1>1, <1>9, <2>1, <2>4 DEF CallDone
  <2> QED
    BY <2>1, <2>2, <2>4, <2>5
<1>20. ASSUME NEW c \in Clients, NEW i \in Futures(c), Told(c, i)' PROVE Told(c, i) /\ slot[c][i] > 0
  <2>1. Told(c, i)
    BY <1>1, <1>9, <1>20 DEF Told, Polled
  <2> QED
    BY <2>1 DEF ToldInv, WakeInv
<1>21. ToldInv'
  BY <1>1, <1>20 DEF ToldInv
<1>22. PassedInv'
  <2> SUFFICES ASSUME NEW c \in Clients, NEW i \in Futures(c), NEW q \in Completers,
                      Told(c, i)', (wakers[Wanted[c][i]][slot[c][i]] = <<c, i>>)', Passed(q, c, i)'
               PROVE  (IF c \in Joiners THEN err[c] # "none" ELSE isWaken[c] /\ pc[c] # "waiting")'
    BY DEF PassedInv
  <2>1. Told(c, i) /\ slot[c][i] > 0 /\ slot[c][i] \in Nat
    BY <1>20 DEF TaskTypes
  <2>2. q # p
    BY <1>1, <1>17, <2>1 DEF Passed
  <2>3. Passed(q, c, i)
    BY <1>1, <1>17, <2>2 DEF Passed
  <2>4. IF c \in Joiners THEN err[c] # "none" ELSE isWaken[c] /\ pc[c] # "waiting"
    BY <1>1, <2>1, <2>3 DEF PassedInv, WakeInv
  <2> QED
    BY <1>1, <1>9, <2>4
\* A result that was not "none" is still there.
<1>23. ASSUME NEW c \in Clients, NEW i \in Futures(c), NEW x, x # "none", result[Wanted[c][i]].kind = x
       PROVE  result'[Wanted[c][i]].kind = x
  <2>1. Wanted[c][i] \in Tasks /\ Wanted[c][i] # t
    BY <1>3, <1>23, WantedTask DEF Completed
  <2> QED
    BY <1>5, <1>23, <2>1
<1>24. ErrInv'
  <2> SUFFICES ASSUME NEW c \in Clients, err[c] # "none"
               PROVE  \E i \in Futures(c) : result'[Wanted[c][i]].kind = err[c]
    BY <1>1 DEF ErrInv
  <2>1. PICK i \in Futures(c) : result[Wanted[c][i]].kind = err[c]
    BY DEF ErrInv, ResultInv
  <2> QED
    BY <1>23, <2>1
<1>25. CountInv'
  <2>1. \A c \in Clients : Counting(c)' = Counting(c)
    BY <1>1 DEF Counting, Current
  <2> QED
    BY <1>1, <2>1, WantedAssumption DEF CountInv, ResultInv
<1>26. ReturnsResult'
  <2>1. ASSUME NEW c \in Clients PROVE RightReturn(c)'
    <3>1. RightReturn(c) /\ 1 \in Futures(c)
      BY ReturnsEach, WantedTask DEF ResultInv
    <3> QED
      BY <1>1, <1>23, <3>1, KindNames DEF RightReturn
  <2> QED
    BY <2>1 DEF ReturnsResult, RightReturn, Futures
<1> QED
  BY <1>10, <1>11, <1>12, <1>13, <1>14, <1>15, <1>16, <1>18, <1>19, <1>21, <1>22, <1>24, <1>25, <1>26
     DEF ArrayInv, WakeInv, ResultInv

-----------------------------------------------------------------------------
(* The theorems *)

\* The invariant holds when the clients begin to load.
LEMMA InitIInv == Init => IInv
<1> SUFFICES ASSUME Init PROVE IInv
  OBVIOUS
<1> USE DEF Init, LoaderInit
<1>1. TaskTypes
  <2>1. result \in [Tasks -> [kind : {"none"} \cup Kinds, ver : Nat]]
    BY DEF NoResult
  <2>2. << >> \in Seq(Slots)
    OBVIOUS
  <2>3. wakers \in [Tasks -> Seq(Slots)] /\ copied \in [Clients -> Seq(Slots)]
    BY <2>2
  <2>4. DOMAIN slot = Clients /\ \A c \in Clients : slot[c] \in [Futures(c) -> Nat]
    BY DEF Futures
  <2>5. seen \in [Clients \cup Completers -> [ver : Nat, len : Nat]]
    BY DEF NoResult
  <2> QED
    BY <2>1, <2>3, <2>4, <2>5 DEF TaskTypes
<1>2. PlaceTypes
  <2>1. DOMAIN pc = Clients \cup Completers /\ crashed \in BOOLEAN
    OBVIOUS
  <2>2. \A c \in Clients : pc[c] \in ClientPCs
    BY DEF ClientPCs
  <2>3. \A p \in Completers : pc[p] \in CompleterPCs
    BY Goroutines DEF CompleterPCs
  <2>4. at \in [Clients -> Nat] /\ turn \in [Completers -> Nat \ {0}]
    OBVIOUS
  <2> QED
    BY <2>1, <2>2, <2>3, <2>4 DEF PlaceTypes
<1>3. JoinTypes
  BY WantedTask DEF JoinTypes
<1>4. \A c \in Clients : pc[c] = "newFuture"
  OBVIOUS
<1>5. \A p \in Completers : pc[p] = "complete"
  BY Goroutines
<1>6. \A t \in Tasks : wakers[t] = << >> /\ ~Completed(t)
  BY DEF Completed
<1>7. \A c \in Clients : \A i \in Futures(c) : slot[c][i] = 0
  BY DEF Futures
<1>8. ArrayInv
  <2>1. AtInv
    BY <1>4, WantedTask DEF AtInv, Futures
  <2>2. CreatedInv
    BY <1>4, <1>7 DEF CreatedInv, Futures
  <2>3. /\ PollingInv
        /\ CopyInv
        /\ WriteInv
        /\ BlockOnInv
    <3>1. PollingInv
      BY <1>4 DEF PollingInv
    <3>2. CopyInv
      BY <1>4 DEF CopyInv
    <3>3. WriteInv
      BY <1>4 DEF WriteInv
    <3>4. BlockOnInv
      BY <1>4 DEF BlockOnInv
    <3> QED
      BY <3>1, <3>2, <3>3, <3>4
  <2>4. SlotInv
    <3>1. \A c \in Clients : \A i \in Futures(c) : slot[c][i] = 0 /\ Len(wakers[Wanted[c][i]]) = 0
      BY <1>6, <1>7, WantedTask
    <3> QED
      BY <3>1 DEF SlotInv
  <2>5. EntryInv
    BY <1>4, <1>6 DEF EntryInv
  <2>6. VerInv
    BY <1>4, <1>5 DEF VerInv, Loaded
  <2>7. DeployedInv
    BY DEF DeployedInv
  <2> QED
    BY <2>1, <2>2, <2>3, <2>4, <2>5, <2>6, <2>7 DEF ArrayInv
<1>9. WakeInv
  <2>1. WonInv /\ CallInv
    BY <1>5, <1>6 DEF WonInv, CallInv, Won
  <2>2. ToldInv /\ PassedInv
    BY <1>4 DEF ToldInv, PassedInv, Told, Polled
  <2> QED
    BY <2>1, <2>2 DEF WakeInv
<1>10. ResultInv
  <2>1. ErrInv
    BY DEF ErrInv
  <2>2. CountInv
    <3> SUFFICES ASSUME NEW c \in Joiners
                 PROVE  pendingCount[c] = Len(Wanted[c]) - Cardinality(values[c]) + done[c] + Cardinality(Counting(c))
      BY DEF CountInv
    <3>1. c \in Clients /\ Len(Wanted[c]) \in Nat
      BY WantedAssumption, WantedTask
    <3>2. values[c] = {} /\ Counting(c) = {} /\ done[c] = 0 /\ pendingCount[c] = Len(Wanted[c])
      BY <1>5, <3>1 DEF Counting
    <3>3. Cardinality({}) = 0
      BY FS_EmptySet
    <3> QED
      BY <3>1, <3>2, <3>3
  <2>3. ReturnsResult
    BY KindNames DEF ReturnsResult
  <2> QED
    BY <2>1, <2>2, <2>3 DEF ResultInv
<1> QED
  BY <1>1, <1>2, <1>3, <1>8, <1>9, <1>10 DEF IInv, Types

\* Every step keeps the invariant.
LEMMA NextIInv == IInv /\ [Next]_vars => IInv'
<1> SUFFICES ASSUME IInv, [Next]_vars PROVE IInv'
  OBVIOUS
<1>1. CASE UNCHANGED vars
  <2>1. UNCHANGED <<result, wakers, slot, at, copied, seen, turn, pc, crashed>>
    BY <1>1 DEF vars, loaderVars, taskVars, futureVars, localVars
  <2>2. UNCHANGED <<isWaken, ret, values, pendingCount, done, err, twice, deployed>>
    BY <1>1 DEF vars, blockVars, joinVars
  <2>3. Types'
    <3>1. TaskTypes'
      BY <2>1, <2>2 DEF IInv, Types, TaskTypes
    <3>2. PlaceTypes'
      BY <2>1, <2>2 DEF IInv, Types, PlaceTypes
    <3>3. JoinTypes'
      BY <2>1, <2>2 DEF IInv, Types, JoinTypes
    <3> QED
      BY <3>1, <3>2, <3>3 DEF Types
  <2>4. ArrayInv'
    <3>1. AtInv'
      BY <2>1, <2>2 DEF IInv, ArrayInv, AtInv
    <3>2. CreatedInv'
      BY <2>1, <2>2 DEF IInv, ArrayInv, CreatedInv, Completed
    <3>3. PollingInv'
      BY <2>1, <2>2 DEF IInv, ArrayInv, PollingInv
    <3>4. SlotInv'
      BY <2>1, <2>2 DEF IInv, ArrayInv, SlotInv
    <3>5. EntryInv'
      BY <2>1, <2>2 DEF IInv, ArrayInv, EntryInv, Task
    <3>6. VerInv'
      BY <2>1, <2>2 DEF IInv, ArrayInv, VerInv, Loaded, Completed, Task
    <3>7. CopyInv'
      BY <2>1, <2>2 DEF IInv, ArrayInv, CopyInv, GoodCopy, Unchanged, Task
    <3>8. WriteInv'
      BY <2>1, <2>2 DEF IInv, ArrayInv, WriteInv, Registered, Unchanged, Task, Slot
    <3>9. DeployedInv'
      BY <2>1, <2>2 DEF IInv, ArrayInv, DeployedInv
    <3>10. BlockOnInv'
      BY <2>1, <2>2 DEF IInv, ArrayInv, BlockOnInv
    <3> QED
      BY <3>1, <3>2, <3>3, <3>4, <3>5, <3>6, <3>7, <3>8, <3>9, <3>10 DEF ArrayInv
  <2>5. WakeInv'
    <3>1. WonInv'
      BY <2>1, <2>2 DEF IInv, WakeInv, WonInv, Won, Completed
    <3>2. CallInv'
      BY <2>1, <2>2 DEF IInv, WakeInv, CallInv, CallDone, Current
    <3>3. ToldInv'
      BY <2>1, <2>2 DEF IInv, WakeInv, ToldInv, Told, Polled
    <3>4. PassedInv'
      BY <2>1, <2>2 DEF IInv, WakeInv, PassedInv, Told, Polled, Passed, Won
    <3> QED
      BY <3>1, <3>2, <3>3, <3>4 DEF WakeInv
  <2>6. ResultInv'
    <3>1. ErrInv'
      BY <2>1, <2>2 DEF IInv, ResultInv, ErrInv
    <3>2. CountInv'
      BY <2>1, <2>2 DEF IInv, ResultInv, CountInv, Counting, Current
    <3>3. ReturnsResult'
      BY <2>1, <2>2 DEF IInv, ResultInv, ReturnsResult
    <3> QED
      BY <3>1, <3>2, <3>3 DEF ResultInv
  <2> QED
    BY <2>3, <2>4, <2>5, <2>6 DEF IInv
<1>2. ASSUME NEW c \in Clients, ClientStep(c) PROVE IInv'
  <2>1. CASE Future(c)
    <3>1. UNCHANGED <<blockVars, values, pendingCount, done, err, twice>>
      BY <2>1 DEF Future
    <3>2. CASE NewFuture(c)
      <4>1. pc[c] # "register"
        BY <3>2 DEF NewFuture, NewFutureLoad, NewFuturePublish
      <4>2. UNCHANGED <<blockVars, joinVars>>
        BY <2>1, <4>1 DEF Future, joinVars
      <4> QED
        BY <3>2, <4>2, NewFutureReadyStep, NewFutureCopiesStep, NewFutureRetriesStep,
           NewFuturePublishesStep DEF NewFuture
    <3>3. CASE PollLoad(c) \/ PollWrite(c) \/ PollWritten(c)
      <4>1. pc[c] # "register"
        BY <3>3 DEF PollLoad, PollWrite, PollWritten
      <4>2. UNCHANGED <<blockVars, joinVars>>
        BY <2>1, <4>1 DEF Future, joinVars
      <4> QED
        BY <3>3, <4>2, PollFindsStep, PollLoadsStep, PollWriteStep, PollWrittenStep
    <3>4. CASE PollRegister(c) /\ Unchanged(c, Task(c))
      <4>1. pc[c] = "register" /\ pc'[c] = "pending"
        BY <3>4 DEF PollRegister, Goto, IInv, Types, PlaceTypes
      <4>2. deployed' = deployed \cup {<<c, at[c]>>}
        BY <2>1, <4>1 DEF Future
      <4> QED
        BY <3>1, <3>4, <4>2, PollDeploysStep
    <3>5. CASE PollRegister(c) /\ ~Unchanged(c, Task(c))
      <4>1. pc'[c] = "poll"
        BY <3>5 DEF PollRegister, Goto, IInv, Types, PlaceTypes
      <4>2. UNCHANGED <<blockVars, joinVars>>
        BY <2>1, <4>1 DEF Future, joinVars
      <4> QED
        BY <3>5, <4>2, PollRetriesStep
    <3> QED
      BY <2>1, <3>2, <3>3, <3>4, <3>5 DEF Future, Poll
  <2> QED
    BY <1>2, <2>1, BlockOnPollStep, BlockOnCheckStep, BlockOnWokenStep, JoinPollStep, JoinNextStep,
       JoinFailedStep, JoinReadyStep, JoinPendingStep, JoinCountStep DEF ClientStep
<1>3. ASSUME NEW p \in Completers, CompleterStep(p) PROVE IInv'
  <2>1. CASE Completing(p)
    <3>1. UNCHANGED <<blockVars, joinVars>>
      BY <2>1 DEF Completing
    <3>2. CASE CompleteLoad(p)
      BY <3>1, <3>2, CompleteRefusedStep, CompleteLoadsStep
    <3>3. CASE CompleteSwap(p)
      BY <3>1, <3>3, CompleteRetriesStep, CompleteWinsStep
    <3>4. CASE CompleteWake(p)
      <4>1. turn[p] \in Nat /\ Len(wakers[TaskOf[p]]) \in Nat
        BY WantedAssumption DEF IInv, Types, PlaceTypes, TaskTypes
      <4>2. CASE turn[p] > Len(wakers[TaskOf[p]])
        BY <3>1, <3>4, <4>2, CompleteEndsStep
      <4>3. CASE ~(turn[p] > Len(wakers[TaskOf[p]]))
        <5>1. turn[p] <= Len(wakers[TaskOf[p]])
          BY <4>1, <4>3
        <5>2. \/ Current(p) \in {Nop, Torn} /\ Advance(p) /\ UNCHANGED <<pc, crashed>>
              \/ Current(p) = Torn /\ crashed' = TRUE /\ UNCHANGED <<pc, turn>>
              \/ Current(p) \in Wakers /\ Goto(p, "waking") /\ UNCHANGED <<turn, crashed>>
          BY <3>4, <4>3 DEF CompleteWake
        <5> QED
          BY <3>1, <3>4, <5>1, <5>2, CompleteSkipsStep, CompleteCrashesStep, CompleteCallsStep
      <4> QED
        BY <4>2, <4>3
    <3> QED
      BY <2>1, <3>2, <3>3, <3>4 DEF Completing, CompleteStep
  <2>2. CASE WakePending(p)
    BY <2>2, WakeFailsStep, WakePanicsStep, WakeCollectsStep
  <2>3. CASE WakeCount(p)
    BY <2>3, WakeCountLastStep, WakeCountMoreStep
  <2> QED
    BY <1>3, <2>1, <2>2, <2>3, WakeFlagStep, WakeSignalStep DEF CompleterStep
<1> QED
  BY <1>1, <1>2, <1>3 DEF Next

\* The invariant holds in every reachable state.
LEMMA IInvCorrect == Spec => []IInv
BY InitIInv, NextIInv, PTL DEF Spec

\* pendingCount only goes down.
CountBound == \A c \in Clients : pendingCount[c] <= Len(Wanted[c])

\* The count of a join starts at the number of its values.
LEMMA InitCountBound == Init => CountBound
BY DEF Init, CountBound

\* Poll subtracts what it found ready, a waker subtracts one, and no other step
\* changes pendingCount.
LEMMA NextCountBound == IInv /\ CountBound /\ [Next]_vars => CountBound'
<1> SUFFICES ASSUME IInv, CountBound, [Next]_vars PROVE CountBound'
  OBVIOUS
<1>1. /\ pendingCount \in [Clients -> Int]
      /\ done \in [Clients -> Nat]
      /\ \A c \in Clients : Len(Wanted[c]) \in Nat
  BY WantedTask DEF IInv, Types, JoinTypes
<1>2. \/ UNCHANGED pendingCount
      \/ \E c \in Clients : JoinCount(c)
      \/ \E p \in Completers : WakeCount(p)
  <2>1. CASE UNCHANGED vars
    BY <2>1 DEF vars, joinVars
  <2>2. ASSUME NEW c \in Clients, ClientStep(c) PROVE UNCHANGED pendingCount \/ JoinCount(c)
    BY <2>2 DEF ClientStep, Future, BlockOnPoll, BlockOnCheck, BlockOnWoken, JoinPoll, JoinNext,
       JoinFailed, JoinReady, JoinPending, joinVars
  <2>3. ASSUME NEW p \in Completers, CompleterStep(p) PROVE UNCHANGED pendingCount \/ WakeCount(p)
    BY <2>3 DEF CompleterStep, Completing, WakeFlag, WakeSignal, WakePending, joinVars
  <2> QED
    BY <2>1, <2>2, <2>3 DEF Next
<1>3. CASE UNCHANGED pendingCount
  BY <1>3 DEF CountBound
<1>4. ASSUME NEW c \in Clients, JoinCount(c) PROVE CountBound'
  <2>1. pendingCount' = [pendingCount EXCEPT ![c] = @ - done[c]]
    BY <1>4 DEF JoinCount
  <2> QED
    BY <1>1, <2>1 DEF CountBound
<1>5. ASSUME NEW p \in Completers, WakeCount(p) PROVE CountBound'
  <2>1. PICK d : pendingCount' = [pendingCount EXCEPT ![d] = @ - 1]
    BY <1>5 DEF WakeCount
  <2> QED
    BY <1>1, <2>1 DEF CountBound
<1> QED
  BY <1>2, <1>3, <1>4, <1>5

\* slot and pc are functions, which having a domain does not say.
Functional ==
  /\ slot = [c \in Clients |-> slot[c]]
  /\ pc = [q \in Clients \cup Completers |-> pc[q]]

\* They are to begin with.
LEMMA InitFunctional == Init => Functional
BY DEF Init, LoaderInit, Functional

\* A step only updates them.
LEMMA NextFunctional == IInv /\ Functional /\ [Next]_vars => Functional'
<1> SUFFICES ASSUME IInv, Functional, [Next]_vars PROVE Functional'
  OBVIOUS
<1>1. CASE UNCHANGED vars
  BY <1>1 DEF vars, loaderVars, futureVars, Functional
<1>2. ASSUME NEW c \in Clients, ClientStep(c)
      PROVE  /\ UNCHANGED pc \/ \E q, l : Goto(q, l)
             /\ UNCHANGED slot \/ \E d, f : slot' = [slot EXCEPT ![d] = f]
  <2>1. CASE NewFuture(c)
    BY <2>1 DEF NewFuture, NewFutureLoad, NewFuturePublish, Created, futureVars
  <2>2. CASE Poll(c)
    BY <2>2 DEF Poll, PollLoad, PollWrite, PollWritten, PollRegister, futureVars
  <2>3. CASE BlockOnPoll(c) \/ BlockOnCheck(c) \/ BlockOnWoken(c)
    BY <2>3 DEF BlockOnPoll, BlockOnCheck, BlockOnWoken, Return, futureVars
  <2>4. CASE JoinPoll(c) \/ JoinNext(c) \/ JoinFailed(c)
    BY <2>4 DEF JoinPoll, JoinNext, JoinFailed, Return, futureVars
  <2>5. CASE JoinReady(c) \/ JoinPending(c) \/ JoinCount(c)
    BY <2>5 DEF JoinReady, JoinPending, JoinCount, Return
  <2> QED
    BY <1>2, <2>1, <2>2, <2>3, <2>4, <2>5 DEF ClientStep, Future
<1>3. ASSUME NEW p \in Completers, CompleterStep(p)
      PROVE  /\ \/ UNCHANGED pc
                \/ \E q, l : Goto(q, l)
                \/ \E q, l, r, m : pc' = [pc EXCEPT ![q] = l, ![r] = m]
             /\ UNCHANGED slot
  <2>1. CASE Completing(p)
    BY <2>1 DEF Completing, CompleteStep, CompleteLoad, CompleteSwap, CompleteWake, futureVars
  <2>2. CASE WakeFlag(p)
    BY <2>2 DEF WakeFlag, futureVars
  <2>3. CASE WakePending(p)
    BY <2>3 DEF WakePending, futureVars
  <2>4. CASE WakeCount(p)
    BY <2>4 DEF WakeCount, NextWaker, futureVars
  <2>5. CASE WakeSignal(p)
    <3>1. UNCHANGED slot
      BY <2>5 DEF WakeSignal, futureVars
    <3>2. \E m : pc' = [pc EXCEPT ![p] = "wake", ![Owner(Current(p))] = m]
      BY <2>5 DEF WakeSignal
    <3> QED
      BY <3>1, <3>2
  <2> QED
    BY <1>3, <2>1, <2>2, <2>3, <2>4, <2>5 DEF CompleterStep
<1>4. ASSUME UNCHANGED slot \/ \E d, f : slot' = [slot EXCEPT ![d] = f]
      PROVE  slot' = [c \in Clients |-> slot'[c]]
  <2>1. slot = [c \in Clients |-> slot[c]]
    BY DEF Functional
  <2>2. CASE UNCHANGED slot
    BY <2>1, <2>2
  <2>3. ASSUME NEW d, NEW f, slot' = [slot EXCEPT ![d] = f] PROVE slot' = [c \in Clients |-> slot'[c]]
    BY <2>1, <2>3
  <2> QED
    BY <1>4, <2>2, <2>3
<1>5. ASSUME \/ UNCHANGED pc
             \/ \E q, l : Goto(q, l)
             \/ \E q, l, r, m : pc' = [pc EXCEPT ![q] = l, ![r] = m]
      PROVE  pc' = [q \in Clients \cup Completers |-> pc'[q]]
  <2>1. pc = [q \in Clients \cup Completers |-> pc[q]]
    BY DEF Functional
  <2>2. CASE UNCHANGED pc
    BY <2>1, <2>2
  <2>3. ASSUME NEW q, NEW l, Goto(q, l) PROVE pc' = [x \in Clients \cup Completers |-> pc'[x]]
    <3>1. pc' = [pc EXCEPT ![q] = l]
      BY <2>3 DEF Goto
    <3> QED
      BY <2>1, <3>1
  <2>4. ASSUME NEW q, NEW l, NEW r, NEW m, pc' = [pc EXCEPT ![q] = l, ![r] = m]
        PROVE  pc' = [x \in Clients \cup Completers |-> pc'[x]]
    BY <2>1, <2>4
  <2> QED
    BY <1>5, <2>2, <2>3, <2>4
<1> QED
  BY <1>1, <1>2, <1>3, <1>4, <1>5 DEF Next, Functional

\* Together they give TypeOK.
LEMMA IInvTypes == IInv /\ CountBound /\ Functional => TypeOK
<1> SUFFICES ASSUME IInv, CountBound, Functional PROVE TypeOK
  OBVIOUS
<1> USE DEF IInv, Types
<1>1. /\ slot \in [Clients -> Seq(Nat)]
      /\ \A c \in Clients : Len(slot[c]) = Len(Wanted[c])
  <2>1. ASSUME NEW c \in Clients PROVE slot[c] \in Seq(Nat) /\ Len(slot[c]) = Len(Wanted[c])
    <3>1. Len(Wanted[c]) \in Nat /\ slot[c] \in [1..Len(Wanted[c]) -> Nat]
      BY WantedTask DEF TaskTypes, Futures
    <3>2. slot[c] \in Seq(Nat)
      BY <3>1
    <3>3. Len(slot[c]) \in Nat /\ DOMAIN slot[c] = 1..Len(slot[c]) /\ DOMAIN slot[c] = 1..Len(Wanted[c])
      BY <3>1, <3>2
    <3> QED
      BY <3>1, <3>2, <3>3
  <2>2. slot = [c \in Clients |-> slot[c]]
    BY DEF Functional
  <2> QED
    BY <2>1, <2>2
<1>2. pc \in [Clients \cup Completers -> ClientPCs \cup CompleterPCs]
  <2>1. pc = [q \in Clients \cup Completers |-> pc[q]]
    BY DEF Functional
  <2>2. \A q \in Clients \cup Completers : pc[q] \in ClientPCs \cup CompleterPCs
    BY DEF PlaceTypes
  <2> QED
    BY <2>1, <2>2
<1>3. \A c \in Clients : at[c] \in 1..(Len(Wanted[c]) + 1)
  <2> SUFFICES ASSUME NEW c \in Clients PROVE at[c] \in 1..(Len(Wanted[c]) + 1)
    OBVIOUS
  <2>1. at[c] \in Nat /\ Len(Wanted[c]) \in Nat /\ 1 <= at[c] /\ at[c] <= Len(Wanted[c]) + 1
    BY WantedTask DEF PlaceTypes, ArrayInv, AtInv
  <2> QED
    BY <2>1
<1>4. LoaderTypeOK
  BY <1>1, <1>2, <1>3 DEF LoaderTypeOK, TaskTypes, PlaceTypes
<1> QED
  BY <1>4 DEF TypeOK, JoinTypes, CountBound, Futures

\* The variables keep their types and every goroutine stays at a point of its
\* code, for any number of tasks, clients and completers.
THEOREM TypeCorrect == Spec => []TypeOK
<1>1. Spec => []CountBound
  BY IInvCorrect, InitCountBound, NextCountBound, PTL DEF Spec
<1>2. Spec => []Functional
  BY IInvCorrect, InitFunctional, NextFunctional, PTL DEF Spec
<1> QED
  BY <1>1, <1>2, IInvCorrect, IInvTypes, PTL

\* The invariant gives NoLostWakeup: a waker that was deployed is in the
\* array, and a completer that is past it has left a trace.
LEMMA IInvWakes == IInv => NoLostWakeup
<1> SUFFICES ASSUME IInv, NEW w \in Wakers, Waits(w)
             PROVE  /\ Owner(w) \notin Joiners \/ w \in deployed => Stored(w)
                    /\ Stored(w) /\ Completed(Wanted[Owner(w)][Index(w)]) =>
                         \/ \E p \in Completers : WillWake(p, w)
                         \/ isWaken[Owner(w)] /\ pc[Owner(w)] # "waiting"
                         \/ err[Owner(w)] # "none"
  BY DEF NoLostWakeup
<1> USE DEF IInv, Types
<1>1. PICK c \in Clients : \E i \in Futures(c) : w = <<c, i>>
  BY WakerPairs
<1>2. PICK i \in Futures(c) : w = <<c, i>>
  BY <1>1
<1>3. Owner(w) = c /\ Index(w) = i /\ Wanted[c][i] \in Tasks
  BY <1>2, WantedTask DEF Owner, Index
<1>4. Told(c, i)
  BY <1>3 DEF Waits, Told
<1>5. ASSUME c \notin Joiners \/ w \in deployed PROVE Stored(w)
  <2>1. w \in deployed
    <3>1. CASE c \notin Joiners
      <4>1. i = 1 /\ pc[c] \in {"pending", "waiting"}
        BY <1>3, <3>1, SingleFuture DEF Waits, Polled
      <4> QED
        BY <1>2, <3>1, <4>1 DEF BlockOnInv, ArrayInv
    <3> QED
      BY <1>5, <3>1
  <2> QED
    BY <1>2, <1>3, <2>1 DEF DeployedInv, ArrayInv, Stored
<1>6. ASSUME Stored(w), Completed(Wanted[c][i])
      PROVE  \/ \E p \in Completers : WillWake(p, w)
             \/ isWaken[c] /\ pc[c] # "waiting"
             \/ err[c] # "none"
  <2>1. PICK p \in Completers : Won(p) /\ TaskOf[p] = Wanted[c][i]
    BY <1>3, <1>6 DEF WonInv, WakeInv
  <2>2. slot[c][i] \in Nat /\ turn[p] \in Nat /\ slot[c][i] <= Len(wakers[TaskOf[p]])
    BY <2>1 DEF SlotInv, ArrayInv, TaskTypes, PlaceTypes
  <2>3. CASE turn[p] > slot[c][i]
    <3>1. Passed(p, c, i) /\ wakers[Wanted[c][i]][slot[c][i]] = <<c, i>>
      BY <1>2, <1>3, <1>6, <2>1, <2>3 DEF Passed, Stored
    <3> QED
      BY <1>4, <3>1 DEF PassedInv, WakeInv
  <2>4. CASE turn[p] <= slot[c][i]
    <3>1. pc[p] # "returned"
      <4>1. Len(wakers[TaskOf[p]]) \in Nat
        BY <1>3, <2>1 DEF TaskTypes
      <4> QED
        BY <2>2, <2>4, <4>1 DEF WonInv, WakeInv
    <3>2. WillWake(p, w)
      BY <1>3, <2>1, <2>4, <3>1 DEF WillWake, Won
    <3> QED
      BY <3>2
  <2> QED
    BY <2>2, <2>3, <2>4
<1> QED
  BY <1>3, <1>5, <1>6

\* A future that waits is woken: the waker it deployed, which BlockOn's always
\* is, stays in the task's array, and when the task is completed with the
\* waker in its array a completer is on the way to it, or it has left a flag or
\* an error behind.
THEOREM WakeupCorrect == Spec => []NoLostWakeup
BY IInvCorrect, IInvWakes, PTL

\* BlockOn returns what the task was completed with, and a join returns its
\* values only when each was collected, unless one was counted twice.
THEOREM ReturnsCorrect == Spec => []ReturnsResult
<1>1. IInv => ReturnsResult
  BY DEF IInv, ResultInv
<1> QED
  BY <1>1, IInvCorrect, PTL

\* Concurrent newFuture calls never hand out one slot of a task twice, nor a
\* slot outside the array.
THEOREM SlotsCorrect == Spec => []SlotsDistinct
<1>1. IInv => SlotsDistinct
  <2> SUFFICES ASSUME IInv, NEW w \in Wakers, NEW v \in Wakers, slot[w[1]][w[2]] > 0
               PROVE  /\ slot[w[1]][w[2]] <= Len(wakers[Wanted[w[1]][w[2]]])
                      /\ w # v /\ Wanted[v[1]][v[2]] = Wanted[w[1]][w[2]] =>
                           slot[v[1]][v[2]] # slot[w[1]][w[2]]
    BY DEF SlotsDistinct
  <2>1. PICK c \in Clients : \E i \in Futures(c) : w = <<c, i>>
    BY WakerPairs
  <2>2. PICK i \in Futures(c) : w = <<c, i>>
    BY <2>1
  <2>3. PICK d \in Clients : \E j \in Futures(d) : v = <<d, j>>
    BY WakerPairs
  <2>4. PICK j \in Futures(d) : v = <<d, j>>
    BY <2>3
  <2>5. /\ slot[c][i] <= Len(wakers[Wanted[c][i]])
        /\ slot[c][i] > 0 /\ Wanted[c][i] = Wanted[d][j] /\ slot[c][i] = slot[d][j] => c = d /\ i = j
    BY DEF IInv, ArrayInv, SlotInv
  <2> QED
    BY <2>2, <2>4, <2>5
<1> QED
  BY <1>1, IInvCorrect, PTL
=============================================================================
