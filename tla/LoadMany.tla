------------------------------ MODULE LoadMany ------------------------------
(***************************************************************************)
(* Clients that wait for loaded data: future.BlockOn (block_on.go) on the   *)
(* future that Load returns, or, for the Joiners, on the future.Join        *)
(* (join.go) of several such futures that LoadMany returns.  Completers     *)
(* run the wakers: they set BlockOn's flag and signal its condition         *)
(* variable, or enter joinPendingValue.Wake, which polls the future again   *)
(* and counts down the join.                                               *)
(***************************************************************************)
EXTENDS LoaderTask

ASSUME JoinersAssumption == \A c \in Clients \ Joiners : Len(Wanted[c]) = 1

VARIABLES
  isWaken,      \* BlockOn's flag
  ret,          \* what BlockOn returned: "none" so far, "value" or an error
  values,       \* values[c]: the indexes whose joinPendingValue was replaced
  pendingCount,
  done,         \* Poll's local count of the values it found ready
  err,          \* j.err: "none" or the type of the error stored
  twice,        \* history: some index of the join was counted twice
  deployed      \* history: the wakers whose CAS in Poll succeeded

blockVars == <<isWaken, ret>>
joinVars == <<values, pendingCount, done, err, twice, deployed>>
vars == <<loaderVars, blockVars, joinVars>>

Return(c, r) == ret' = [ret EXCEPT ![c] = r] /\ Goto(c, "returned")
Owner(w) == w[1]
Index(w) == w[2]

-----------------------------------------------------------------------------
(* BlockOn: the loop around Poll *)

\* Poll of the future of Load.
BlockOnPoll(c) ==
  /\ c \notin Joiners
  /\ \/ pc[c] = "blockOn" /\ Goto(c, "poll") /\ UNCHANGED ret
     \/ PollReady(c) /\ Return(c, Outcome(c))
  /\ UNCHANGED <<taskVars, futureVars, localVars, crashed, isWaken, joinVars>>

Polled(c) == pc[c] = IF c \in Joiners THEN "check" ELSE "pending"

\* mutation: the flag is not looked at before blocking
BlockOnCheckBlindly(c) ==
  /\ Polled(c)
  /\ Goto(c, "waiting")
  /\ UNCHANGED <<taskVars, futureVars, localVars, crashed, blockVars, joinVars>>

\* Poll returned Pending. With the mutex held: block in cond.Wait unless the waker was called already.
BlockOnCheck(c) ==
  /\ Polled(c)
  /\ IF isWaken[c]
     THEN isWaken' = [isWaken EXCEPT ![c] = FALSE] /\ Goto(c, "blockOn")
     ELSE Goto(c, "waiting") /\ UNCHANGED isWaken
  /\ UNCHANGED <<taskVars, futureVars, localVars, crashed, ret, joinVars>>

BlockOnWoken(c) ==
  /\ pc[c] = "woken"
  /\ isWaken' = [isWaken EXCEPT ![c] = FALSE]
  /\ Goto(c, "blockOn")
  /\ UNCHANGED <<taskVars, futureVars, localVars, crashed, ret, joinVars>>

\* The waker of BlockOn: the flag under the mutex, the signal after it.
WakeFlag(p) ==
  /\ \/ pc[p] = "waking" /\ Owner(Current(p)) \notin Joiners
     \/ pc[p] = "flag"
  /\ isWaken' = [isWaken EXCEPT ![Owner(Current(p))] = TRUE]
  /\ Goto(p, "signal")
  /\ UNCHANGED <<taskVars, futureVars, localVars, crashed, ret, joinVars>>

WakeSignal(p) ==
  /\ pc[p] = "signal"
  /\ LET c == Owner(Current(p)) IN
     pc' = [pc EXCEPT ![p] = "wake", ![c] = IF @ = "waiting" THEN "woken" ELSE @]
  /\ Advance(p)
  /\ UNCHANGED <<taskVars, futureVars, seen, copied, crashed, blockVars, joinVars>>

-----------------------------------------------------------------------------
(* Join *)

\* values[i] of client c is replaced by a value.
Collect(c, i) ==
  /\ values' = [values EXCEPT ![c] = @ \cup {i}]
  /\ twice' = [twice EXCEPT ![c] = @ \/ i \in values[c]]

\* Join.Poll begins with the error that a waker stored. It stores BlockOn's
\* waker, which is always the same, before it polls the first value.
JoinPoll(c) ==
  /\ c \in Joiners
  /\ pc[c] = "blockOn"
  /\ IF err[c] # "none" THEN Return(c, err[c]) ELSE Goto(c, "joining") /\ UNCHANGED ret
  /\ UNCHANGED <<taskVars, futureVars, localVars, crashed, isWaken, joinVars>>

\* The loop over the values: skip those that are not pending, poll the others.
JoinNext(c) ==
  /\ pc[c] = "joining"
  /\ at[c] <= Len(Wanted[c])
  /\ IF at[c] \in values[c]
     THEN at' = [at EXCEPT ![c] = @ + 1] /\ UNCHANGED pc
     ELSE Goto(c, "poll") /\ UNCHANGED at
  /\ UNCHANGED <<taskVars, slot, localVars, crashed, blockVars, joinVars>>

JoinFailed(c) ==
  /\ c \in Joiners
  /\ PollReady(c) /\ Outcome(c) \in Errors
  /\ Return(c, Outcome(c))
  /\ UNCHANGED <<taskVars, futureVars, localVars, crashed, isWaken, joinVars>>

JoinReady(c) ==
  /\ c \in Joiners
  /\ PollReady(c) /\ Outcome(c) = "value"
  /\ Collect(c, at[c])
  /\ done' = [done EXCEPT ![c] = @ + 1]
  /\ at' = [at EXCEPT ![c] = @ + 1]
  /\ Goto(c, "joining")
  /\ UNCHANGED <<taskVars, slot, localVars, crashed, blockVars, pendingCount, err, deployed>>

\* mutation: a pending value is counted as done
JoinPendingCounted(c) ==
  /\ c \in Joiners
  /\ pc[c] = "pending"
  /\ done' = [done EXCEPT ![c] = @ + 1]
  /\ at' = [at EXCEPT ![c] = @ + 1]
  /\ Goto(c, "joining")
  /\ UNCHANGED <<taskVars, slot, localVars, crashed, blockVars, values, pendingCount, err, twice, deployed>>

JoinPending(c) ==
  /\ c \in Joiners
  /\ pc[c] = "pending"
  /\ at' = [at EXCEPT ![c] = @ + 1]
  /\ Goto(c, "joining")
  /\ UNCHANGED <<taskVars, slot, localVars, crashed, blockVars, joinVars>>

\* The end of Join.Poll: count down, and return the values when none is pending.
JoinCount(c) ==
  /\ pc[c] = "joining"
  /\ at[c] > Len(Wanted[c])
  /\ pendingCount' = [pendingCount EXCEPT ![c] = @ - done[c]]
  /\ IF pendingCount[c] = done[c]
     THEN Return(c, "value")
     ELSE Goto(c, "check") /\ UNCHANGED ret
  /\ at' = [at EXCEPT ![c] = 1]
  /\ done' = [done EXCEPT ![c] = 0]
  /\ UNCHANGED <<taskVars, slot, localVars, crashed, isWaken, values, err, twice, deployed>>

\* joinPendingValue.Wake: its poll finds the task completed. Storing a second
\* error of another concrete type panics in atomic.Value.
WakePending(p) ==
  LET c == Owner(Current(p))
      kind == result[TaskOf[p]].kind
  IN  /\ pc[p] = "waking" /\ c \in Joiners
      /\ IF kind \in Errors
         THEN /\ IF err[c] \in {"none", kind}
                 THEN /\ err' = [err EXCEPT ![c] = kind]
                      /\ Goto(p, "flag")
                      /\ UNCHANGED crashed
                 ELSE crashed' = TRUE /\ UNCHANGED <<err, pc>>
              /\ UNCHANGED <<values, twice>>
         ELSE /\ Collect(c, Index(Current(p)))
              /\ Goto(p, "count")
              /\ UNCHANGED <<err, crashed>>
      /\ UNCHANGED <<taskVars, futureVars, localVars, blockVars, pendingCount, done, deployed>>

WakeCount(p) ==
  /\ pc[p] = "count"
  /\ LET c == Owner(Current(p)) IN
     /\ pendingCount' = [pendingCount EXCEPT ![c] = @ - 1]
     /\ IF pendingCount[c] = 1
        THEN Goto(p, "flag") /\ UNCHANGED turn
        ELSE NextWaker(p)
  /\ UNCHANGED <<taskVars, futureVars, seen, copied, crashed, blockVars, values, done, err, twice, deployed>>

-----------------------------------------------------------------------------
Init ==
  /\ LoaderInit
  /\ isWaken = [c \in Clients |-> FALSE]
  /\ ret = [c \in Clients |-> "none"]
  /\ values = [c \in Clients |-> {}]
  /\ pendingCount = [c \in Clients |-> Len(Wanted[c])]
  /\ done = [c \in Clients |-> 0]
  /\ err = [c \in Clients |-> "none"]
  /\ twice = [c \in Clients |-> FALSE]
  /\ deployed = {}

\* The steps inside newFuture and Poll.
Future(c) ==
  /\ NewFuture(c) \/ Poll(c)
  /\ deployed' = IF pc[c] = "register" /\ pc'[c] = "pending"
                 THEN deployed \cup {<<c, at[c]>>}
                 ELSE deployed
  /\ UNCHANGED <<blockVars, values, pendingCount, done, err, twice>>
ClientStep(c) ==
  /\ ~crashed
  /\ \/ Future(c)
     \/ BlockOnPoll(c) \/ BlockOnCheck(c) \/ BlockOnWoken(c)
     \/ JoinPoll(c) \/ JoinNext(c) \/ JoinFailed(c) \/ JoinReady(c) \/ JoinPending(c)
     \/ JoinCount(c)

Completing(p) == CompleteStep(p) /\ UNCHANGED <<blockVars, joinVars>>
CompleterStep(p) ==
  /\ ~crashed
  /\ \/ Completing(p)
     \/ WakeFlag(p) \/ WakeSignal(p) \/ WakePending(p) \/ WakeCount(p)

\* The program ended: everybody returned, waits for ever, or it crashed.
Ended ==
  \/ crashed
  \/ /\ \A c \in Clients : pc[c] \in {"returned", "waiting"}
     /\ \A p \in Completers : pc[p] \in {"refused", "returned"}

Next ==
  \/ \E c \in Clients : ClientStep(c)
  \/ \E p \in Completers : CompleterStep(p)
  \/ Ended /\ UNCHANGED vars

Spec == Init /\ [][Next]_vars

\* Runnable goroutines are scheduled, and every task is completed by someone
\* (BatchLoadJob.Run sees to it).
Fairness ==
  /\ \A c \in Clients : WF_vars(ClientStep(c))
  /\ \A p \in Completers : WF_vars(CompleterStep(p))
FairSpec == Spec /\ Fairness

-----------------------------------------------------------------------------
(* Properties *)

\* The variables have their types.
TypeOK ==
  /\ LoaderTypeOK
  /\ isWaken \in [Clients -> BOOLEAN]
  /\ ret \in [Clients -> {"none"} \cup Kinds]
  /\ \A c \in Clients : values[c] \subseteq 1..Len(Wanted[c])
  /\ pendingCount \in [Clients -> Int]
  /\ \A c \in Clients : pendingCount[c] <= Len(Wanted[c])
  /\ done \in [Clients -> Nat]
  /\ err \in [Clients -> {"none"} \cup Errors]
  /\ twice \in [Clients -> BOOLEAN]
  /\ deployed \subseteq Wakers

\* Completer p will still get to waker w of its task.
WillWake(p, w) ==
  /\ TaskOf[p] = Wanted[Owner(w)][Index(w)]
  /\ pc[p] \in {"wake", "waking", "count", "flag", "signal"}
  /\ turn[p] <= slot[Owner(w)][Index(w)]

\* The future of w returned Pending, and its value is still wanted.
Waits(w) ==
  /\ pc[Owner(w)] = "waiting" \/ Polled(Owner(w))
  /\ Index(w) \notin values[Owner(w)]

\* w is in the array that the task will wake, or woke.
Stored(w) ==
  LET t == Wanted[Owner(w)][Index(w)]
  IN  wakers[t][slot[Owner(w)][Index(w)]] = w

\* "perform a CAS to make sure the above update was deployed to the up-to-date taskResult"
\* (task.go): while a future waits, the task holds its waker. Violated: Poll
\* of a join that finds its waker in the array returns without the CAS.
WakerDeployed == \A w \in Wakers : Waits(w) => Stored(w)

\* A future that waits is woken: the waker it deployed (BlockOn's always is)
\* stays in the array, although Poll writes it in place while newFuture copies
\* and complete replaces the array; and if the task is completed with the
\* waker in its array, someone is on the way to call it, or the wake-up has
\* happened but has not been noticed.
NoLostWakeup ==
  \A w \in Wakers :
    LET c == Owner(w) IN
    Waits(w) =>
      /\ c \notin Joiners \/ w \in deployed => Stored(w)
      /\ Stored(w) /\ Completed(Wanted[c][Index(w)]) =>
           \/ \E p \in Completers : WillWake(p, w)
           \/ isWaken[c] /\ pc[c] # "waiting"
           \/ err[c] # "none"

\* BlockOn returns what the task was completed with, and a join returns its
\* values only when each of them was collected, unless one was counted twice.
ReturnsResult ==
  \A c \in Clients :
    /\ c \notin Joiners /\ ret[c] # "none" => result[Wanted[c][1]].kind = ret[c]
    /\ c \in Joiners /\ ret[c] \in Errors =>
         \E i \in 1..Len(Wanted[c]) : result[Wanted[c][i]].kind = ret[c]
    /\ c \in Joiners /\ ret[c] = "value" /\ ~twice[c] =>
         values[c] = 1..Len(Wanted[c])

\* "BlockOn runs a future to completion on the current thread": everybody returns in the
\* end, if every task is completed, unless the program crashes, Join counts a
\* value twice or a waker is left behind in an array that newFuture replaced.
BlockOnReturnsUnlessLost ==
  <>(\/ \A c \in Clients : pc[c] = "returned"
     \/ crashed \/ ~WakerDeployed \/ \E c \in Clients : twice[c])
=============================================================================
