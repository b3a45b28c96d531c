------------------------------ MODULE Executor ------------------------------
(***************************************************************************)
(* What concurrent.Executor and concurrent.TaskHandle promise, with no     *)
(* pool, queue or state word: the life of a task and of the executor.      *)
(*                                                                         *)
(* A task is "offered" while its Submit has not yet decided, and may       *)
(* already be picked up then; once Submit has accepted it, it is "pending" *)
(* until it runs or is cancelled. The executor terminates, and signals the *)
(* pending Shutdown calls, only when no task is pending or running.        *)
(***************************************************************************)
EXTENDS Naturals

CONSTANTS Tasks, Closers

VARIABLES phase, status, asked, signalled

vars == <<phase, status, asked, signalled>>

Init ==
  /\ phase = "running"
  /\ status = [t \in Tasks |-> "new"]
  /\ asked = {}
  /\ signalled = {}

Move(t, from, to) ==
  /\ status[t] = from
  /\ status' = [status EXCEPT ![t] = to]
  /\ UNCHANGED <<phase, asked, signalled>>

\* Submit hands the task over; it is run at once, or decided on later.
Offer(t) == Move(t, "new", "offered")
StartAtOnce(t) == phase = "running" /\ Move(t, "new", "running")
Refuse(t) == Move(t, "new", "rejected")
Accept(t) == phase = "running" /\ Move(t, "offered", "pending")
\* Only a shut down executor takes an offered task back.
Withdraw(t) == phase # "running" /\ Move(t, "offered", "rejected")

\* No task is taken up after termination.
Start(t) ==
  /\ phase # "terminated"
  /\ Move(t, "offered", "running") \/ Move(t, "pending", "running")
Finish(t) == phase # "terminated" /\ Move(t, "running", "done")
Cancel(t) == Move(t, "pending", "cancelled")

Shutdown(d) ==
  /\ d \notin asked
  /\ asked' = asked \cup {d}
  /\ phase' = IF phase = "running" THEN "shutdown" ELSE phase
  /\ signalled' = IF phase = "terminated" THEN signalled \cup {d} ELSE signalled
  /\ UNCHANGED status

Terminate ==
  /\ phase = "shutdown"
  /\ \A t \in Tasks : status[t] \notin {"pending", "running"}
  /\ phase' = "terminated"
  /\ signalled' = asked
  /\ UNCHANGED <<status, asked>>

Next ==
  \/ \E t \in Tasks :
       \/ Offer(t) \/ StartAtOnce(t) \/ Refuse(t) \/ Accept(t) \/ Withdraw(t)
       \/ Start(t) \/ Finish(t) \/ Cancel(t)
  \/ \E d \in Closers : Shutdown(d)
  \/ Terminate

Spec == Init /\ [][Next]_vars
=============================================================================
