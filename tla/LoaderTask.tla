----------------------------- MODULE LoaderTask -----------------------------
(***************************************************************************)
(* The task of a data loader, dataloader/task.go: a lock-free result word   *)
(* shared by the futures that wait for the task and by whoever completes   *)
(* it.  An incomplete result holds an array with one waker slot per future. *)
(*                                                                         *)
(*   - newFuture copies the array, adds a slot and publishes both with CAS; *)
(*   - resultFuture.Poll writes its waker IN PLACE into the array it        *)
(*     loaded and publishes that array again with CAS;                     *)
(*   - complete publishes the value or error with CAS and then wakes the    *)
(*     wakers of the array it replaced.                                    *)
(*                                                                         *)
(* A waker is an interface of two words that Poll stores without any        *)
(* synchronisation: whoever reads the slot meanwhile reads half of it       *)
(* (Torn), and calling that either does nothing or crashes the program.     *)
(*                                                                         *)
(* One action per atomic step.  This module has the steps; what a client    *)
(* does with the outcome of Poll, and what a wake-up does, is the business  *)
(* of the module that extends it.                                          *)
(***************************************************************************)
EXTENDS Integers, Sequences

CONSTANTS
  Tasks,      \* the tasks, one for each key
  Clients,    \* goroutines, each waits for futures of its own
  Joiners,    \* those that wait through a Join: their wakers are pointers, the
              \* wakers of the others are functions
  Wanted,     \* Wanted[c]: the tasks that client c needs, a non-empty sequence
  Completers, \* calls of Complete or SetError
  TaskOf,     \* TaskOf[p]: the task that completer p completes
  Errors,     \* the concrete types of the errors a task may end with
  Nop, Torn   \* future.NopWaker and a half-written waker

ASSUME WantedAssumption ==
  /\ \A c \in Clients : Wanted[c] \in Seq(Tasks) /\ Wanted[c] # << >>
  /\ \A p \in Completers : TaskOf[p] \in Tasks
  /\ Joiners \subseteq Clients

\* The wakers clients pass to Poll: one per future.
Wakers == UNION {{<<c, i>> : i \in 1..Len(Wanted[c])} : c \in Clients}

ASSUME NamesAssumption ==
  /\ Clients \cap Completers = {}
  /\ Nop # Torn
  /\ {Nop, Torn} \cap Wakers = {}
  /\ "none" \notin Errors /\ "value" \notin Errors

VARIABLES
  result,   \* result[t]: kind, and ver, the identity of the taskResult object
  wakers,   \* wakers[t]: the latest array of wakers; its length identifies it
  slot,     \* slot[c][i]: the wakerSlot of c's i-th future (0: none)
  pc,
  at,       \* at[c]: the future that client c creates or polls
  seen,     \* seen[q]: the result q loaded last, and the length of its array
  copied,   \* copied[c]: newFuture's copy of the array
  turn,     \* turn[p]: position in the array whose wakers p wakes
  crashed   \* the program called half a waker, or panicked

taskVars == <<result, wakers>>
futureVars == <<slot, at>>
localVars == <<seen, copied, turn>>
loaderVars == <<taskVars, futureVars, pc, localVars, crashed>>

Kinds == {"value"} \cup Errors
Completed(t) == result[t].kind # "none"
Task(c) == Wanted[c][at[c]]
Slot(c) == slot[c][at[c]]
Goto(q, l) == pc' = [pc EXCEPT ![q] = l]
NoResult == [ver |-> 0, len |-> 0]

\* loadResult by q: the identity of the object, and of the array it points to.
LoadResult(q, t) ==
  seen' = [seen EXCEPT ![q] = [ver |-> result[t].ver, len |-> Len(wakers[t])]]
Forget(q) == seen' = [seen EXCEPT ![q] = NoResult]
Unchanged(q, t) == result[t].ver = seen[q].ver   \* the CAS on task.result succeeds
Publish(t, kind) == result' = [result EXCEPT ![t] = [kind |-> kind, ver |-> @.ver + 1]]

-----------------------------------------------------------------------------
(* newFuture, called by Load for one key after the other *)

\* The future exists: create the next one, or go on to poll.
Created(c) ==
  IF at[c] < Len(Wanted[c])
  THEN at' = [at EXCEPT ![c] = @ + 1] /\ Goto(c, "newFuture")
  ELSE at' = [at EXCEPT ![c] = 1] /\ Goto(c, "blockOn")

NewFutureLoad(c) ==
  /\ pc[c] = "newFuture"
  /\ IF Completed(Task(c))
     THEN Created(c) /\ UNCHANGED <<seen, copied>>  \* future.Ready or future.Err
     ELSE /\ LoadResult(c, Task(c))
          /\ copied' = [copied EXCEPT ![c] = wakers[Task(c)]]
          /\ Goto(c, "publish")
          /\ UNCHANGED at
  /\ UNCHANGED <<taskVars, slot, turn, crashed>>

\* The copy of the array was made when it was loaded: a waker written into the
\* array since is not in the copy.
NewFuturePublish(c) ==
  /\ pc[c] = "publish"
  /\ IF Unchanged(c, Task(c))
     THEN /\ Publish(Task(c), "none")
          /\ wakers' = [wakers EXCEPT ![Task(c)] = Append(copied[c], Nop)]
          /\ slot' = [slot EXCEPT ![c][at[c]] = Len(copied[c]) + 1]
          /\ Created(c)
     ELSE Goto(c, "newFuture") /\ UNCHANGED <<taskVars, futureVars>>
  /\ Forget(c)
  /\ copied' = [copied EXCEPT ![c] = << >>]
  /\ UNCHANGED <<turn, crashed>>

NewFuture(c) == NewFutureLoad(c) \/ NewFuturePublish(c)

-----------------------------------------------------------------------------
(* resultFuture.Poll: it returns the outcome when it finds the task completed *)
(* (PollReady, a step of the client), otherwise it ends at "pending" *)

PollReady(c) == pc[c] = "poll" /\ Completed(Task(c))
Outcome(c) == result[Task(c)].kind

Registered(c) == wakers[Task(c)][Slot(c)] = <<c, at[c]>>

\* The waker is compared with reflect.DeepEqual: functions are never equal.
PollLoad(c) ==
  /\ pc[c] = "poll"
  /\ ~Completed(Task(c))
  /\ IF c \in Joiners /\ Registered(c)
     THEN Goto(c, "pending") /\ UNCHANGED seen
     ELSE LoadResult(c, Task(c)) /\ Goto(c, "write")
  /\ UNCHANGED <<taskVars, futureVars, copied, turn, crashed>>

\* A write into an array that was replaced meanwhile is seen by nobody.
InPlace(c, w) ==
  wakers' = IF seen[c].len = Len(wakers[Task(c)])
            THEN [wakers EXCEPT ![Task(c)][Slot(c)] = w]
            ELSE wakers

\* The two words of the waker, one after the other.
PollWrite(c) ==
  /\ pc[c] = "write"
  /\ InPlace(c, IF Registered(c) THEN <<c, at[c]>> ELSE Torn)
  /\ Goto(c, "writing")
  /\ UNCHANGED <<result, futureVars, localVars, crashed>>

PollWritten(c) ==
  /\ pc[c] = "writing"
  /\ InPlace(c, <<c, at[c]>>)
  /\ Goto(c, "register")
  /\ UNCHANGED <<result, futureVars, localVars, crashed>>

\* mutation: Poll does not look whether its write reached the current result
PollRegisterOnce(c) ==
  /\ pc[c] = "register"
  /\ IF Unchanged(c, Task(c)) THEN Publish(Task(c), "none") ELSE UNCHANGED result
  /\ Goto(c, "pending")
  /\ Forget(c)
  /\ UNCHANGED <<wakers, futureVars, copied, turn, crashed>>

PollRegister(c) ==
  /\ pc[c] = "register"
  /\ IF Unchanged(c, Task(c))
     THEN Publish(Task(c), "none") /\ Goto(c, "pending")
     ELSE Goto(c, "poll") /\ UNCHANGED result
  /\ Forget(c)
  /\ UNCHANGED <<wakers, futureVars, copied, turn, crashed>>

Poll(c) == PollLoad(c) \/ PollWrite(c) \/ PollWritten(c) \/ PollRegister(c)

-----------------------------------------------------------------------------
(* complete, called by Complete and SetError *)

\* A task that was completed already makes complete return an error.
CompleteLoad(p) ==
  /\ pc[p] = "complete"
  /\ IF Completed(TaskOf[p])
     THEN Goto(p, "refused") /\ UNCHANGED seen
     ELSE LoadResult(p, TaskOf[p]) /\ Goto(p, "swap")
  /\ UNCHANGED <<taskVars, futureVars, copied, turn, crashed>>

CompleteSwap(p) ==
  /\ pc[p] = "swap"
  /\ IF Unchanged(p, TaskOf[p])
     THEN (\E kind \in Kinds : Publish(TaskOf[p], kind)) /\ Goto(p, "wake")
     ELSE Goto(p, "complete") /\ UNCHANGED result
  /\ Forget(p)
  /\ UNCHANGED <<wakers, futureVars, copied, turn, crashed>>

Current(p) == wakers[TaskOf[p]][turn[p]]
Advance(p) == turn' = [turn EXCEPT ![p] = @ + 1]

\* The loop over the wakers of the replaced array. Half a waker is the method
\* of one type with the data of the other: NopWaker's ignores its data, the
\* other way round the program crashes.
CompleteWake(p) ==
  /\ pc[p] = "wake"
  /\ IF turn[p] > Len(wakers[TaskOf[p]])
     THEN Goto(p, "returned") /\ UNCHANGED <<turn, crashed>>
     ELSE \/ Current(p) \in {Nop, Torn} /\ Advance(p) /\ UNCHANGED <<pc, crashed>>
          \/ Current(p) = Torn /\ crashed' = TRUE /\ UNCHANGED <<pc, turn>>
          \/ Current(p) \in Wakers /\ Goto(p, "waking") /\ UNCHANGED <<turn, crashed>>
  /\ UNCHANGED <<taskVars, futureVars, seen, copied>>

CompleteStep(p) == CompleteLoad(p) \/ CompleteSwap(p) \/ CompleteWake(p)

\* Waker.Wake returned: go on with the next waker.
NextWaker(p) == Advance(p) /\ Goto(p, "wake")

-----------------------------------------------------------------------------
LoaderInit ==
  /\ result = [t \in Tasks |-> [kind |-> "none", ver |-> 0]]
  /\ wakers = [t \in Tasks |-> << >>]
  /\ slot = [c \in Clients |-> [i \in 1..Len(Wanted[c]) |-> 0]]
  /\ pc = [q \in Clients \cup Completers |-> IF q \in Clients THEN "newFuture" ELSE "complete"]
  /\ at = [c \in Clients |-> 1]
  /\ seen = [q \in Clients \cup Completers |-> NoResult]
  /\ copied = [c \in Clients |-> << >>]
  /\ turn = [p \in Completers |-> 1]
  /\ crashed = FALSE

-----------------------------------------------------------------------------
(* Properties of every system built from these steps *)

ClientPCs == {"newFuture", "publish", "blockOn", "joining", "poll", "write",
  "writing", "register", "pending", "check", "waiting", "woken", "returned"}
CompleterPCs == {"complete", "refused", "swap", "wake", "waking", "count", "flag",
  "signal", "returned"}
Slots == Wakers \cup {Nop, Torn}

LoaderTypeOK ==
  /\ result \in [Tasks -> [kind : {"none"} \cup Kinds, ver : Nat]]
  /\ wakers \in [Tasks -> Seq(Slots)]
  /\ slot \in [Clients -> Seq(Nat)]
  /\ \A c \in Clients : Len(slot[c]) = Len(Wanted[c]) /\ at[c] \in 1..(Len(Wanted[c]) + 1)
  /\ pc \in [Clients \cup Completers -> ClientPCs \cup CompleterPCs]
  /\ \A c \in Clients : pc[c] \in ClientPCs
  /\ \A p \in Completers : pc[p] \in CompleterPCs
  /\ at \in [Clients -> Nat]
  /\ seen \in [Clients \cup Completers -> [ver : Nat, len : Nat]]
  /\ copied \in [Clients -> Seq(Slots)]
  /\ turn \in [Completers -> Nat \ {0}]
  /\ crashed \in BOOLEAN

\* A waker slot belongs to one future: concurrent newFuture calls never hand
\* out the same slot of a task, nor a slot outside the array.
SlotsDistinct ==
  \A w, v \in Wakers :
    LET s == slot[w[1]][w[2]]
        t == Wanted[w[1]][w[2]]
    IN  s > 0 => /\ s <= Len(wakers[t])
                 /\ w # v /\ Wanted[v[1]][v[2]] = t => slot[v[1]][v[2]] # s

=============================================================================
