-------------------------- MODULE DataLoaderProofs --------------------------
(***************************************************************************)
(* Proofs about the data loader: for any set of keys and goroutines, any    *)
(* configuration and any number of calls, a task is in one place only, no   *)
(* incomplete task is forgotten, and a key gets one task until somebody     *)
(* clears it.                                                              *)
(***************************************************************************)
EXTENDS DataLoader, FiniteSetTheorems, TLAPS

Distinct(s) == \A i, j \in 1..Len(s) : s[i] = s[j] => i = j

-----------------------------------------------------------------------------
(* Lemmas about the operators of the model *)

\* Nothing is in the empty queue.
LEMMA EmptyProps == Elems(<< >>) = {} /\ Distinct(<< >>) /\ << >> \in Seq(Nat)
  BY DEF Elems, Distinct

\* Append adds its argument.
LEMMA AppendProps ==
  ASSUME NEW s \in Seq(Nat), NEW x \in Nat
  PROVE  /\ Append(s, x) \in Seq(Nat)
         /\ Elems(Append(s, x)) = Elems(s) \cup {x}
         /\ Distinct(s) /\ x \notin Elems(s) => Distinct(Append(s, x))
<1>1. /\ Append(s, x) \in Seq(Nat) /\ Len(Append(s, x)) = Len(s) + 1 /\ Len(s) \in Nat
      /\ \A i \in 1..Len(s) : Append(s, x)[i] = s[i]
      /\ Append(s, x)[Len(s) + 1] = x
  OBVIOUS
<1>2. \A i : i \in 1..(Len(s) + 1) <=> i \in 1..Len(s) \/ i = Len(s) + 1
  BY <1>1
<1> DEFINE r == Append(s, x)
<1> HIDE DEF r
<1>3. Elems(r) = Elems(s) \cup {x}
  BY <1>1, <1>2 DEF Elems, r
<1>4. ASSUME Distinct(s), x \notin Elems(s) PROVE Distinct(r)
  BY <1>1, <1>2, <1>4 DEF Elems, Distinct, r
<1> QED
  BY <1>1, <1>3, <1>4 DEF r

\* A cut makes two parts that together have the elements, each of them in one part.
LEMMA CutProps ==
  ASSUME NEW s \in Seq(Nat), NEW n \in 1..Len(s)
  PROVE  /\ SubSeq(s, 1, n) \in Seq(Nat) /\ Len(SubSeq(s, 1, n)) = n
         /\ SubSeq(s, n + 1, Len(s)) \in Seq(Nat)
         /\ Elems(SubSeq(s, 1, n)) \cup Elems(SubSeq(s, n + 1, Len(s))) = Elems(s)
         /\ Distinct(s) => /\ Distinct(SubSeq(s, 1, n)) /\ Distinct(SubSeq(s, n + 1, Len(s)))
                           /\ Elems(SubSeq(s, 1, n)) \cap Elems(SubSeq(s, n + 1, Len(s))) = {}
<1> DEFINE a == SubSeq(s, 1, n)
           b == SubSeq(s, n + 1, Len(s))
<1>1. /\ Len(s) \in Nat /\ n \in Nat /\ n <= Len(s) /\ 1 <= n
      /\ a \in Seq(Nat) /\ Len(a) = n
      /\ b \in Seq(Nat) /\ Len(b) = Len(s) - n
  OBVIOUS
<1>2. /\ \A i \in 1..n : a[i] = s[i]
      /\ \A i \in 1..(Len(s) - n) : b[i] = s[i + n]
  OBVIOUS
<1> HIDE DEF a, b
<1>3. Elems(a) \subseteq Elems(s)
  BY <1>1, <1>2 DEF Elems
<1>0. \A i \in 1..(Len(s) - n) : i + n \in 1..Len(s)
  BY <1>1
<1>4. Elems(b) \subseteq Elems(s)
  <2> SUFFICES ASSUME NEW i \in 1..(Len(s) - n) PROVE b[i] \in Elems(s)
    BY <1>1 DEF Elems
  <2> QED
    BY <1>0, <1>2 DEF Elems
<1>5. Elems(s) \subseteq Elems(a) \cup Elems(b)
  <2> SUFFICES ASSUME NEW i \in 1..Len(s) PROVE s[i] \in Elems(a) \cup Elems(b)
    BY DEF Elems
  <2>1. CASE i <= n
    BY <1>1, <1>2, <2>1 DEF Elems
  <2>2. CASE i > n
    <3>1. i - n \in 1..(Len(s) - n) /\ b[i - n] = s[(i - n) + n] /\ (i - n) + n = i
      BY <1>1, <1>2, <2>2
    <3> QED
      BY <1>1, <3>1 DEF Elems
  <2> QED
    BY <1>1, <2>1, <2>2
<1>6. ASSUME Distinct(s)
      PROVE  Distinct(a) /\ Distinct(b) /\ Elems(a) \cap Elems(b) = {}
  <2>1. Distinct(a)
    BY <1>1, <1>2, <1>6 DEF Distinct
  <2>2. Distinct(b)
    <3> SUFFICES ASSUME NEW i \in 1..(Len(s) - n), NEW j \in 1..(Len(s) - n), b[i] = b[j] PROVE i = j
      BY <1>1 DEF Distinct
    <3>1. i + n = j + n
      BY <1>0, <1>2, <1>6 DEF Distinct
    <3> QED
      BY <1>1, <3>1
  <2>3. ASSUME NEW i \in 1..n, NEW j \in 1..(Len(s) - n) PROVE a[i] # b[j]
    <3>1. i \in 1..Len(s) /\ j + n \in 1..Len(s) /\ i # j + n
      BY <1>1
    <3> QED
      BY <1>2, <1>6, <3>1 DEF Distinct
  <2> QED
    BY <1>1, <2>1, <2>2, <2>3 DEF Elems
<1> QED
  BY <1>1, <1>3, <1>4, <1>5, <1>6 DEF a, b

\* A sequence of numbers is one of whatever set its elements are in.
LEMMA SeqProps ==
  ASSUME NEW s \in Seq(Nat), NEW S, Elems(s) \subseteq S
  PROVE  s \in Seq(S)
<1>1. \A i \in 1..Len(s) : s[i] \in S
  BY DEF Elems
<1>2. s = [i \in 1..Len(s) |-> s[i]] /\ Len(s) \in Nat
  OBVIOUS
<1> QED
  BY <1>1, <1>2

\* A set with at most one element has cardinality 0 or 1.
LEMMA AtMostOne ==
  ASSUME NEW S, \A x, y \in S : x = y
  PROVE  Cardinality(S) = IF S = {} THEN 0 ELSE 1
<1>1. CASE S = {}
  BY <1>1, FS_EmptySet
<1>2. CASE S # {}
  <2>1. PICK x \in S : S = {x}
    BY <1>2
  <2> QED
    BY <1>2, <2>1, FS_Singleton
<1> QED
  BY <1>1, <1>2

\* A sequence without repetitions has an element once.
LEMMA CountProps ==
  ASSUME NEW s \in Seq(Nat), Distinct(s), NEW t
  PROVE  Count(s, t) = IF t \in Elems(s) THEN 1 ELSE 0
<1> DEFINE I == {i \in 1..Len(s) : s[i] = t}
<1>1. \A i, j \in I : i = j
  BY DEF Distinct
<1>2. I = {} <=> t \notin Elems(s)
  BY DEF Elems
<1> HIDE DEF I
<1>3. Cardinality(I) = IF I = {} THEN 0 ELSE 1
  BY <1>1, AtMostOne
<1> QED
  BY <1>2, <1>3 DEF Count, I

-----------------------------------------------------------------------------
(* The inductive invariant *)

PCs == {"idle", "enqueue", "push", "detach", "batch", "running", "clear"}
Enqueueing == {c \in Clients : pc[c] = "enqueue"}

\* The tasks created, and the marks that the loader puts on them.
KeyType ==
  /\ config \in Config /\ config \in Configs
  /\ key \in Seq(Keys)
  /\ completed \subseteq Tasks
  /\ cache \in [Keys -> 0..Len(key)]
  /\ cleared \subseteq Keys

\* The places a task may be in hold tasks.
PlaceType ==
  /\ list \in Seq(Nat) /\ Elems(list) \subseteq Tasks
  /\ rest \in [Clients -> Seq(Nat)]
  /\ \A c \in Clients : Elems(rest[c]) \subseteq Tasks
  /\ jobs \subseteq [tasks : Seq(Nat), swept : Int]
  /\ \A j \in jobs : Elems(j.tasks) \subseteq Tasks /\ j.swept \in -1..(Len(j.tasks) - 1)
  /\ refused \subseteq Tasks

\* The goroutines, and what each works on at its point of the code.
ClientType ==
  /\ pc \in [Clients -> PCs]
  /\ DOMAIN arg = Clients
  /\ queueMutex \in Clients \cup {None}
  /\ \A c \in Clients :
       /\ pc[c] = "enqueue" => arg[c] \in Keys
       /\ pc[c] = "push" => arg[c] \in Tasks /\ queueMutex = c
       /\ pc[c] = "clear" => arg[c] \subseteq Keys
  /\ mine \in [Clients -> SUBSET Tasks] /\ owed \in [Clients -> SUBSET Tasks]

\* The queues that were seen are not newer than the loader's.
SeenType ==
  /\ queue \in Nat
  /\ seen \in [Clients -> Nat] /\ \A c \in Clients : seen[c] <= queue
  /\ born \in Seq(Nat) /\ Len(born) = Len(key)
  /\ \A t \in Tasks : born[t] <= queue

\* A call that is about to create a task has room for it.
RoomInv == Len(key) + Cardinality(Enqueueing) <= MaxTasks /\ calls \in 0..MaxCalls

\* No place repeats a task.
OnceInv ==
  /\ Distinct(list)
  /\ \A c \in Clients : Distinct(rest[c])
  /\ \A j \in jobs : Distinct(j.tasks)

\* What is being pushed, the queue, the detached queues, the batches and the refused
\* batches have no task in common.
ApartInv ==
  /\ \A c \in Clients : pc[c] = "push" =>
       /\ arg[c] \notin Elems(list) \cup refused
       /\ \A d \in Clients : arg[c] \notin Elems(rest[d])
       /\ \A j \in jobs : arg[c] \notin Elems(j.tasks)
  /\ Elems(list) \cap refused = {}
  /\ \A c \in Clients : Elems(rest[c]) \cap (Elems(list) \cup refused) = {}
  /\ \A j \in jobs : Elems(j.tasks) \cap (Elems(list) \cup refused) = {}
  /\ \A c \in Clients, j \in jobs : Elems(rest[c]) \cap Elems(j.tasks) = {}
  /\ \A c, d \in Clients : c # d => Elems(rest[c]) \cap Elems(rest[d]) = {}
  /\ \A i, j \in jobs : i # j => Elems(i.tasks) \cap Elems(j.tasks) = {}

\* Who is not in dispatchQueue has no detached queue in hand.
RestInv ==
  \A c \in Clients : pc[c] \notin {"batch", "running"} => rest[c] = << >>

\* The sweep of a job completes its tasks one after the other.
SweptInv == \A j \in jobs : \A i \in 1..j.swept : j.tasks[i] \in completed

\* With the cache on, a key that nobody cleared leads to its only task.
CacheInv == config.cache => \A t \in Tasks : key[t] \notin cleared => cache[key[t]] = t

Types == KeyType /\ PlaceType /\ ClientType /\ SeenType
IInv ==
  /\ Types /\ RoomInv
  /\ OnceInv /\ ApartInv /\ RestInv /\ SweptInv
  /\ BatchBound /\ CacheInv /\ NotForgotten
-----------------------------------------------------------------------------
(* Every step keeps the types *)

\* A new task has the next number.
LEMMA NewTaskProps ==
  ASSUME key \in Seq(Keys), NEW k \in Keys, NEW q, NewTask(k, q)
  PROVE  /\ key' \in Seq(Keys) /\ Len(key) \in Nat /\ Len(key') = Len(key) + 1
         /\ Tasks' = Tasks \cup {Len(key) + 1} /\ Len(key) + 1 \notin Tasks
         /\ key'[Len(key) + 1] = k /\ \A t \in Tasks : key'[t] = key[t]
<1>1. /\ key' \in Seq(Keys) /\ Len(key) \in Nat /\ Len(key') = Len(key) + 1
      /\ key'[Len(key) + 1] = k /\ \A t \in 1..Len(key) : key'[t] = key[t]
  BY DEF NewTask
<1> QED
  BY <1>1 DEF Tasks

\* The tasks created stay.
LEMMA KeyStep ==
  ASSUME Types, [Next]_vars
  PROVE  KeyType' /\ Tasks \subseteq Tasks' /\ Len(key) \in Nat /\ Len(key') \in Nat
<1> USE DEF Types, KeyType
<1>0. Len(key) \in Nat
  OBVIOUS
<1> DEFINE G == KeyType' /\ Tasks \subseteq Tasks' /\ Len(key') \in Nat
<1>1. ASSUME NEW c \in Clients, NEW k \in Keys, Load(c, k) PROVE G
  BY <1>1 DEF Load, Hold, See, Goto, cacheVars, queueVars, taskVars, jobVars, Tasks
<1>2. ASSUME NEW c \in Clients, NEW k \in Keys, Clear(c, k) PROVE G
  BY <1>2 DEF Clear, queueVars, taskVars, jobVars, clientVars, Tasks
<1>3. ASSUME NEW c \in Clients, NEW k \in Keys, Prime(c, k) PROVE G
  <2>1. /\ Len(key') = Len(key) + 1 /\ key' \in Seq(Keys)
        /\ Tasks' = Tasks \cup {Len(key) + 1}
    BY <1>3, NewTaskProps DEF Prime
  <2>2. cache' \in [Keys -> 0..Len(key')]
    BY <1>3, <1>0, <2>1 DEF Prime
  <2> QED
    BY <1>3, <1>0, <2>1, <2>2 DEF Prime, SetCompleted
<1>4. ASSUME NEW c \in Clients, Dispatch(c) PROVE G
  BY <1>4 DEF Dispatch, Goto, cacheVars, queueVars, taskVars, jobVars, Tasks
<1>5. ASSUME NEW c \in Clients, ClearAll(c) PROVE G
  BY <1>5 DEF ClearAll, Goto, cacheVars, queueVars, taskVars, jobVars, Tasks
<1>6. ASSUME NEW c \in Clients, Enqueue(c) PROVE G
  <2>1. CASE config.cache /\ cache[arg[c]] # 0
    <3>1. UNCHANGED <<taskVars, cache, cleared>>
      BY <1>6, <2>1 DEF Enqueue
    <3> QED
      BY <1>0, <3>1 DEF taskVars, Tasks
  <2>2. CASE ~(config.cache /\ cache[arg[c]] # 0)
    <3>1. NewTask(arg[c], queue) /\ arg[c] \in Keys
      BY <1>6, <2>2 DEF Enqueue, ClientType
    <3>2. /\ Len(key') = Len(key) + 1 /\ key' \in Seq(Keys)
          /\ Tasks' = Tasks \cup {Len(key) + 1}
      BY <3>1, NewTaskProps
    <3>3. cache' \in [Keys -> 0..Len(key')]
      BY <1>6, <1>0, <2>2, <3>1, <3>2 DEF Enqueue
    <3> QED
      BY <1>6, <1>0, <2>2, <3>2, <3>3 DEF Enqueue, taskVars
  <2> QED
    BY <2>1, <2>2
<1>7. ASSUME NEW c \in Clients, EnqueuePush(c) PROVE G
  BY <1>7 DEF EnqueuePush, Hold, Goto, cacheVars, taskVars, jobVars, Tasks
<1>8. ASSUME NEW c \in Clients, DispatchDetach(c) PROVE G
  BY <1>8 DEF DispatchDetach, See, Goto, cacheVars, taskVars, Tasks
<1>9. ASSUME NEW c \in Clients, DispatchBatch(c) PROVE G
  BY <1>9 DEF DispatchBatch, Goto, cacheVars, queueVars, taskVars, Tasks
<1>10. ASSUME NEW c \in Clients, DispatchReturn(c) PROVE G
  BY <1>10 DEF DispatchReturn, Goto, cacheVars, queueVars, taskVars, jobVars,
     clientVars, Tasks
<1>11. ASSUME NEW c \in Clients, RunReturns(c) PROVE G
  BY <1>11 DEF RunReturns, Goto, cacheVars, queueVars, taskVars, jobVars, Tasks
<1>12. ASSUME NEW c \in Clients, ClearNext(c) PROVE G
  <2>1. arg[c] \subseteq Keys
    BY <1>12 DEF ClearNext, ClientType
  <2> QED
    BY <1>12, <1>0, <2>1 DEF ClearNext, taskVars, Tasks
<1>13. ASSUME NEW j \in jobs, LoaderReturns(j) PROVE G
  BY <1>13 DEF LoaderReturns, cacheVars, queueVars, taskVars, clientVars, Tasks
<1>14. ASSUME NEW j \in jobs, JobSweep(j) PROVE G
  <2>1. j.tasks \in Seq(Nat) /\ j.swept \in -1..(Len(j.tasks) - 1) /\ Elems(j.tasks) \subseteq Tasks
    BY DEF PlaceType
  <2>2. j.swept + 1 \in 1..Len(j.tasks)
    BY <1>14, <2>1 DEF JobSweep
  <2>3. j.tasks[j.swept + 1] \in Tasks
    BY <2>1, <2>2 DEF Elems
  <2> QED
    BY <1>14, <1>0, <2>3 DEF JobSweep, SetCompleted, cacheVars, Tasks
<1>15. ASSUME NEW j \in jobs, LoaderCompletes(j) PROVE G
  <2>1. Elems(j.tasks) \subseteq Tasks
    BY DEF PlaceType
  <2> QED
    BY <1>15, <1>0, <2>1 DEF LoaderCompletes, SetCompleted, cacheVars, Tasks
<1>16. CASE UNCHANGED vars
  BY <1>16 DEF vars, cacheVars, queueVars, taskVars, jobVars, clientVars, Tasks
<1> QED
  BY <1>0, <1>1, <1>2, <1>3, <1>4, <1>5, <1>6, <1>7, <1>8, <1>9, <1>10, <1>11, <1>12,
     <1>13, <1>14, <1>15, <1>16 DEF Next, Call, ClientStep, JobStep, LateStep, Done

\* The steps that move a task from one place to another.
LEMMA PlacesMove ==
  ASSUME [Next]_vars
  PROVE  \/ UNCHANGED <<list, rest, jobs, refused>>
         \/ \E c \in Clients : EnqueuePush(c) \/ DispatchDetach(c) \/ DispatchBatch(c)
         \/ \E j \in jobs : LoaderReturns(j) \/ JobSweep(j)
<1> DEFINE G == UNCHANGED <<list, rest, jobs, refused>>
<1>1. ASSUME NEW c \in Clients, NEW k \in Keys, Load(c, k) \/ Clear(c, k) \/ Prime(c, k) PROVE G
  BY <1>1 DEF Load, Clear, Prime, queueVars, jobVars
<1>2. ASSUME NEW c \in Clients, Dispatch(c) \/ ClearAll(c) \/ Enqueue(c) \/ DispatchReturn(c)
                                \/ RunReturns(c) \/ ClearNext(c)
      PROVE  G
  BY <1>2 DEF Dispatch, ClearAll, Enqueue, DispatchReturn, RunReturns, ClearNext, queueVars, jobVars
<1>3. ASSUME NEW j \in jobs, LoaderCompletes(j) PROVE G
  BY <1>3 DEF LoaderCompletes, queueVars, jobVars
<1>4. CASE UNCHANGED vars
  BY <1>4 DEF vars, queueVars, jobVars
<1> QED
  BY <1>1, <1>2, <1>3, <1>4 DEF Next, Call, ClientStep, JobStep, LateStep, Done

\* A batch a is cut off the queue that c detached, and b is left: a becomes a job, or is
\* refused.
Cuts(c, a, b) ==
  /\ rest' = [rest EXCEPT ![c] = b]
  /\ a # << >> /\ (config.maxBatchSize > 0 => Len(a) <= config.maxBatchSize)
  /\ Elems(a) \cup Elems(b) = Elems(rest[c])
  /\ Distinct(rest[c]) => Distinct(a) /\ Distinct(b) /\ Elems(a) \cap Elems(b) = {}
  /\ \/ jobs' = jobs \cup {[tasks |-> a, swept |-> -1]} /\ refused' = refused
     \/ jobs' = jobs /\ refused' = refused \cup Elems(a)
  /\ list' = list

\* That is what DispatchBatch does.
LEMMA BatchEffect ==
  ASSUME Types, NEW c \in Clients, DispatchBatch(c)
  PROVE  \E a, b \in Seq(Nat) : Cuts(c, a, b)
<1> DEFINE s == rest[c]
           n == BatchLen(Len(s))
           a == SubSeq(s, 1, n)
           b == SubSeq(s, n + 1, Len(s))
<1>1. s \in Seq(Nat) /\ s # << >> /\ Len(s) \in Nat \ {0}
  BY DEF Types, PlaceType, DispatchBatch
<1>2. n \in 1..Len(s) /\ (config.maxBatchSize > 0 => n <= config.maxBatchSize)
  BY <1>1 DEF BatchLen, Types, KeyType, Config
<1>3. /\ rest' = [rest EXCEPT ![c] = b] /\ list' = list
      /\ \/ jobs' = jobs \cup {[tasks |-> a, swept |-> -1]} /\ refused' = refused
         \/ jobs' = jobs /\ refused' = refused \cup Elems(a)
  BY DEF DispatchBatch, queueVars, Types, PlaceType
<1> HIDE DEF s, n
<1>4. a \in Seq(Nat) /\ b \in Seq(Nat) /\ Len(a) = n
  BY <1>1, <1>2, CutProps
<1>5. Elems(a) \cup Elems(b) = Elems(s)
  BY <1>1, <1>2, CutProps
<1>6. Distinct(s) => Distinct(a) /\ Distinct(b) /\ Elems(a) \cap Elems(b) = {}
  BY <1>1, <1>2, CutProps
<1>7. a # << >> /\ (config.maxBatchSize > 0 => Len(a) <= config.maxBatchSize)
  BY <1>2, <1>4
<1> HIDE DEF a, b
<1> QED
  BY <1>3, <1>4, <1>5, <1>6, <1>7 DEF s, Cuts

\* Job j goes on, as i, to its next task; or it ends after the last one.
GoesOn(j, i) ==
  /\ i.tasks = j.tasks /\ i.swept = j.swept + 1 /\ i.swept <= Len(j.tasks) - 1
  /\ jobs' = (jobs \ {j}) \cup {i}
Ends(j) == jobs' = jobs \ {j} /\ j.swept + 1 = Len(j.tasks)

\* That is what a job does, and the task it was at is completed.
LEMMA JobEffect ==
  ASSUME Types, BatchBound, NEW j \in jobs, LoaderReturns(j) \/ JobSweep(j)
  PROVE  /\ Ends(j) \/ \E i \in [tasks : Seq(Nat), swept : Int] : GoesOn(j, i)
         /\ completed \subseteq completed'
         /\ j.swept + 1 > 0 => j.tasks[j.swept + 1] \in completed'
         /\ UNCHANGED <<list, rest, refused>>
<1> USE DEF Ends, GoesOn
<1>1. /\ j \in [tasks : Seq(Nat), swept : Int] /\ Len(j.tasks) \in Nat \ {0}
      /\ j.swept \in -1..(Len(j.tasks) - 1)
  BY DEF Types, PlaceType, BatchBound
<1>2. UNCHANGED <<list, rest, refused>>
  BY DEF LoaderReturns, JobSweep, queueVars
<1>3. CASE LoaderReturns(j)
  <2> DEFINE i == [j EXCEPT !.swept = 0]
  <2>1. j.swept = -1 /\ jobs' = (jobs \ {j}) \cup {i} /\ completed' = completed
    BY <1>3 DEF LoaderReturns, taskVars
  <2>2. i \in [tasks : Seq(Nat), swept : Int] /\ i.tasks = j.tasks /\ i.swept = 0
    BY <1>1
  <2> HIDE DEF i
  <2> QED
    BY <1>1, <1>2, <2>1, <2>2
<1>4. CASE JobSweep(j)
  <2> DEFINE i == [j EXCEPT !.swept = @ + 1]
  <2>1. /\ completed' = completed \cup {j.tasks[j.swept + 1]} /\ j.swept >= 0
        /\ jobs' = (jobs \ {j}) \cup (IF j.swept + 1 = Len(j.tasks) THEN {} ELSE {i})
    BY <1>4 DEF JobSweep, SetCompleted
  <2>2. i \in [tasks : Seq(Nat), swept : Int] /\ i.tasks = j.tasks /\ i.swept = j.swept + 1
    BY <1>1
  <2> HIDE DEF i
  <2>3. CASE j.swept + 1 = Len(j.tasks)
    BY <1>1, <1>2, <2>1, <2>3
  <2>4. CASE j.swept + 1 # Len(j.tasks)
    BY <1>1, <1>2, <2>1, <2>2, <2>4
  <2> QED
    BY <2>3, <2>4
<1> QED
  BY <1>3, <1>4

\* Push puts a task at the end of the queue, and Dispatch takes the whole queue or nothing.
LEMMA QueueEffect ==
  ASSUME Types, NEW c \in Clients
  PROVE  /\ EnqueuePush(c) =>
              /\ arg[c] \in Tasks /\ arg[c] \in Nat /\ pc[c] = "push"
              /\ list' = Append(list, arg[c]) /\ UNCHANGED <<rest, jobs, refused>>
         /\ DispatchDetach(c) =>
              /\ \/ UNCHANGED <<list, rest>>
                 \/ rest' = [rest EXCEPT ![c] = list] /\ list' = << >>
              /\ UNCHANGED <<jobs, refused>> /\ pc[c] = "detach"
<1>1. ASSUME EnqueuePush(c) PROVE arg[c] \in Tasks /\ arg[c] \in Nat
  BY <1>1 DEF EnqueuePush, Types, ClientType, KeyType, Tasks
<1> QED
  BY <1>1 DEF EnqueuePush, DispatchDetach, jobVars

\* The places keep holding tasks.
LEMMA PlaceStep ==
  ASSUME Types, BatchBound, [Next]_vars
  PROVE  PlaceType'
<1> USE KeyStep DEF PlaceType
<1>1. /\ PlaceType /\ Tasks \subseteq Tasks'
  BY DEF Types
<1>2. CASE UNCHANGED <<list, rest, jobs, refused>>
  BY <1>1, <1>2
<1>3. ASSUME NEW c \in Clients, EnqueuePush(c) PROVE PlaceType'
  <2>1. /\ arg[c] \in Tasks /\ arg[c] \in Nat
        /\ list' = Append(list, arg[c]) /\ UNCHANGED <<rest, jobs, refused>>
    BY <1>3, QueueEffect
  <2>2. list' \in Seq(Nat) /\ Elems(list') = Elems(list) \cup {arg[c]}
    BY <1>1, <2>1, AppendProps
  <2> QED
    BY <1>1, <2>1, <2>2
<1>4. ASSUME NEW c \in Clients, DispatchDetach(c) PROVE PlaceType'
  BY <1>1, <1>4, QueueEffect, EmptyProps
<1>5. ASSUME NEW c \in Clients, DispatchBatch(c) PROVE PlaceType'
  <2>1. PICK a, b \in Seq(Nat) : Cuts(c, a, b)
    BY <1>5, BatchEffect
  <2> QED
    BY <1>1, <2>1 DEF Cuts
<1>6. ASSUME NEW j \in jobs, LoaderReturns(j) \/ JobSweep(j) PROVE PlaceType'
  <2>1. UNCHANGED <<list, rest, refused>>
    BY <1>6, JobEffect
  <2>2. CASE Ends(j)
    BY <1>1, <2>1, <2>2 DEF Ends
  <2>3. ASSUME NEW i \in [tasks : Seq(Nat), swept : Int], GoesOn(j, i) PROVE PlaceType'
    <3>1. Elems(i.tasks) \subseteq Tasks' /\ i.swept \in -1..(Len(i.tasks) - 1)
      BY <1>1, <2>3 DEF GoesOn
    <3> QED
      BY <1>1, <2>1, <2>3, <3>1 DEF GoesOn
  <2> QED
    BY <1>6, <2>2, <2>3, JobEffect
<1> QED
  BY <1>2, <1>3, <1>4, <1>5, <1>6, PlacesMove

\* Nobody sees a queue that is newer than the loader's.
LEMMA SeenStep ==
  ASSUME Types, [Next]_vars
  PROVE  SeenType'
<1> USE DEF SeenType
<1>0. SeenType /\ key \in Seq(Keys) /\ Len(key) \in Nat /\ cache \in [Keys -> 0..Len(key)] /\ Tasks = 1..Len(key)
  BY DEF Types, KeyType, Tasks
<1>1. ASSUME NEW c \in Clients, NEW k \in Keys, Load(c, k) PROVE SeenType'
  <2>1. CASE config.cache /\ cache[k] # 0
    <3>1. cache[k] \in Tasks /\ UNCHANGED <<key, born, queue>> /\ See(c, born[cache[k]])
      BY <1>1, <1>0, <2>1 DEF Load, queueVars, taskVars
    <3> QED
      BY <1>0, <3>1 DEF See, Tasks
  <2>2. CASE ~(config.cache /\ cache[k] # 0)
    BY <1>1, <1>0, <2>2 DEF Load, queueVars, taskVars, Tasks
  <2> QED
    BY <2>1, <2>2
<1>2. ASSUME NEW c \in Clients, NEW k \in Keys, Clear(c, k) PROVE SeenType'
  BY <1>2, <1>0 DEF Clear, queueVars, taskVars, jobVars, clientVars, Tasks
<1>3. ASSUME NEW c \in Clients, NEW k \in Keys, Prime(c, k) PROVE SeenType'
  <2>1. key' = Append(key, k) /\ born' = Append(born, seen[c]) /\ UNCHANGED <<seen, queue>>
    BY <1>3 DEF Prime, NewTask, queueVars, clientVars
  <2>2. Len(key') = Len(key) + 1 /\ Len(born') = Len(born) + 1 /\ born' \in Seq(Nat)
    BY <1>0, <2>1
  <2>3. \A t \in 1..(Len(key) + 1) : born'[t] <= queue
    BY <1>0, <2>1
  <2> QED
    BY <1>0, <2>1, <2>2, <2>3 DEF Tasks
<1>4. ASSUME NEW c \in Clients, Dispatch(c) PROVE SeenType'
  BY <1>4, <1>0 DEF Dispatch, Goto, cacheVars, queueVars, taskVars, jobVars, Tasks
<1>5. ASSUME NEW c \in Clients, ClearAll(c) PROVE SeenType'
  BY <1>5, <1>0 DEF ClearAll, Goto, cacheVars, queueVars, taskVars, jobVars, Tasks
<1>6. ASSUME NEW c \in Clients, Enqueue(c) PROVE SeenType'
  <2>1. queue' = queue /\ See(c, queue)
    BY <1>6 DEF Enqueue
  <2>2. seen' \in [Clients -> Nat] /\ \A d \in Clients : seen'[d] <= queue'
    BY <1>0, <2>1 DEF See
  <2>3. CASE config.cache /\ cache[arg[c]] # 0
    <3>1. UNCHANGED <<key, born>>
      BY <1>6, <2>3 DEF Enqueue, taskVars
    <3> QED
      BY <1>0, <2>1, <2>2, <3>1 DEF Tasks
  <2>4. CASE ~(config.cache /\ cache[arg[c]] # 0)
    <3>1. key' = Append(key, arg[c]) /\ born' = Append(born, queue) /\ arg[c] \in Keys
      BY <1>6, <2>4 DEF Enqueue, NewTask, Types, ClientType
    <3>2. Len(key') = Len(key) + 1 /\ Len(born') = Len(born) + 1 /\ born' \in Seq(Nat)
      BY <1>0, <3>1
    <3>3. \A t \in 1..(Len(key) + 1) : born'[t] <= queue
      BY <1>0, <3>1
    <3> QED
      BY <1>0, <2>1, <2>2, <3>2, <3>3 DEF Tasks
  <2> QED
    BY <2>3, <2>4
<1>7. ASSUME NEW c \in Clients, EnqueuePush(c) PROVE SeenType'
  BY <1>7, <1>0 DEF EnqueuePush, Hold, Goto, cacheVars, taskVars, jobVars, Tasks
<1>8. ASSUME NEW c \in Clients, DispatchDetach(c) PROVE SeenType'
  <2>1. queue' \in {queue, queue + 1} /\ See(c, queue') /\ UNCHANGED <<key, born>>
    BY <1>8 DEF DispatchDetach, taskVars
  <2> QED
    BY <1>0, <2>1 DEF See, Tasks
<1>9. ASSUME NEW c \in Clients, DispatchBatch(c) PROVE SeenType'
  BY <1>9, <1>0 DEF DispatchBatch, Goto, cacheVars, queueVars, taskVars, Tasks
<1>10. ASSUME NEW c \in Clients, DispatchReturn(c) PROVE SeenType'
  BY <1>10, <1>0 DEF DispatchReturn, Goto, cacheVars, queueVars, taskVars, jobVars,
     clientVars, Tasks
<1>11. ASSUME NEW c \in Clients, RunReturns(c) PROVE SeenType'
  BY <1>11, <1>0 DEF RunReturns, Goto, cacheVars, queueVars, taskVars, jobVars,
     Tasks
<1>12. ASSUME NEW c \in Clients, ClearNext(c) PROVE SeenType'
  BY <1>12, <1>0 DEF ClearNext, Goto, queueVars, taskVars, jobVars, Tasks
<1>13. ASSUME NEW j \in jobs, LoaderReturns(j) PROVE SeenType'
  BY <1>13, <1>0 DEF LoaderReturns, cacheVars, queueVars, taskVars, clientVars,
     Tasks
<1>14. ASSUME NEW j \in jobs, JobSweep(j) PROVE SeenType'
  BY <1>14, <1>0 DEF JobSweep, SetCompleted, cacheVars, queueVars, clientVars, Tasks
<1>15. ASSUME NEW j \in jobs, LoaderCompletes(j) PROVE SeenType'
  BY <1>15, <1>0 DEF LoaderCompletes, SetCompleted, cacheVars, queueVars, jobVars,
     clientVars, Tasks
<1>16. CASE UNCHANGED vars
  BY <1>16, <1>0 DEF vars, cacheVars, queueVars, taskVars, jobVars, clientVars,
     Tasks
<1> QED
  BY <1>1, <1>2, <1>3, <1>4, <1>5, <1>6, <1>7, <1>8, <1>9, <1>10, <1>11, <1>12,
     <1>13, <1>14, <1>15, <1>16 DEF Next, Call, ClientStep, JobStep, LateStep, Done

\* Every goroutine works on what belongs to its point of the code.
LEMMA ClientTypeStep ==
  ASSUME Types, [Next]_vars
  PROVE  ClientType'
<1> USE DEF ClientType, PCs
<1>0. ClientType /\ Tasks \subseteq Tasks' /\ None \notin Clients
  BY KeyStep, ConfigAssumption DEF Types
<1>1. ASSUME NEW c \in Clients, NEW k \in Keys, Load(c, k) PROVE ClientType'
  <2>1. CASE config.cache /\ cache[k] # 0
    <3>1. cache[k] \in Tasks
      BY <2>1 DEF Types, KeyType, Tasks
    <3> QED
      BY <1>1, <1>0, <2>1, <3>1 DEF Load, Hold, queueVars
  <2>2. CASE ~(config.cache /\ cache[k] # 0)
    BY <1>1, <1>0, <2>2 DEF Load, Goto, queueVars
  <2> QED
    BY <2>1, <2>2
<1>2. ASSUME NEW c \in Clients, NEW k \in Keys, Clear(c, k) PROVE ClientType'
  BY <1>2, <1>0 DEF Clear, queueVars, taskVars, jobVars, clientVars
<1>3. ASSUME NEW c \in Clients, NEW k \in Keys, Prime(c, k) PROVE ClientType'
  BY <1>3, <1>0 DEF Prime, NewTask, SetCompleted, queueVars, jobVars, clientVars
<1>4. ASSUME NEW c \in Clients, Dispatch(c) PROVE ClientType'
  BY <1>4, <1>0 DEF Dispatch, Goto, cacheVars, queueVars, taskVars, jobVars
<1>5. ASSUME NEW c \in Clients, ClearAll(c) PROVE ClientType'
  BY <1>5, <1>0 DEF ClearAll, Goto, cacheVars, queueVars, taskVars, jobVars
<1>6. ASSUME NEW c \in Clients, Enqueue(c) PROVE ClientType'
  <2>1. CASE config.cache /\ cache[arg[c]] # 0
    <3>1. cache[arg[c]] \in Tasks
      BY <1>6, <1>0, <2>1 DEF Enqueue, Types, KeyType, Tasks
    <3>2. mine' = [mine EXCEPT ![c] = mine[c] \cup {cache[arg[c]]}] /\ queueMutex' = queueMutex /\ owed' = owed
          /\ arg' = [arg EXCEPT ![c] = None] /\ pc' = [pc EXCEPT ![c] = "idle"]
      BY <1>6, <2>1 DEF Enqueue, Hold, Goto
    <3> QED
      BY <1>0, <3>1, <3>2
  <2>2. CASE ~(config.cache /\ cache[arg[c]] # 0)
    <3>1. Len(key) + 1 \in Tasks'
      BY <1>6, <2>2, NewTaskProps DEF Enqueue, Types, KeyType
    <3>2. mine' = mine /\ queueMutex' = c /\ owed' = owed /\ queueMutex = None
          /\ arg' = [arg EXCEPT ![c] = Len(key) + 1] /\ pc' = [pc EXCEPT ![c] = "push"]
      BY <1>6, <2>2 DEF Enqueue, Goto
    <3> QED
      BY <1>0, <3>1, <3>2
  <2> QED
    BY <2>1, <2>2
<1>7. ASSUME NEW c \in Clients, EnqueuePush(c) PROVE ClientType'
  BY <1>7, <1>0 DEF EnqueuePush, Hold, Goto, cacheVars, taskVars, jobVars
<1>8. ASSUME NEW c \in Clients, DispatchDetach(c) PROVE ClientType'
  BY <1>8, <1>0 DEF DispatchDetach, See, Goto, cacheVars, taskVars
<1>9. ASSUME NEW c \in Clients, DispatchBatch(c) PROVE ClientType'
  BY <1>9, <1>0 DEF DispatchBatch, Goto, cacheVars, queueVars, taskVars
<1>10. ASSUME NEW c \in Clients, DispatchReturn(c) PROVE ClientType'
  BY <1>10, <1>0 DEF DispatchReturn, Goto, cacheVars, queueVars, taskVars, jobVars,
     clientVars
<1>11. ASSUME NEW c \in Clients, RunReturns(c) PROVE ClientType'
  BY <1>11, <1>0 DEF RunReturns, Goto, cacheVars, queueVars, taskVars, jobVars
<1>12. ASSUME NEW c \in Clients, ClearNext(c) PROVE ClientType'
  BY <1>12, <1>0 DEF ClearNext, Goto, queueVars, taskVars, jobVars
<1>13. ASSUME NEW j \in jobs, LoaderReturns(j) PROVE ClientType'
  BY <1>13, <1>0 DEF LoaderReturns, cacheVars, queueVars, taskVars, clientVars
<1>14. ASSUME NEW j \in jobs, JobSweep(j) PROVE ClientType'
  BY <1>14, <1>0 DEF JobSweep, SetCompleted, cacheVars, queueVars, clientVars
<1>15. ASSUME NEW j \in jobs, LoaderCompletes(j) PROVE ClientType'
  BY <1>15, <1>0 DEF LoaderCompletes, SetCompleted, cacheVars, queueVars, jobVars,
     clientVars
<1>16. CASE UNCHANGED vars
  BY <1>16, <1>0 DEF vars, cacheVars, queueVars, taskVars, jobVars, clientVars
<1> QED
  BY <1>1, <1>2, <1>3, <1>4, <1>5, <1>6, <1>7, <1>8, <1>9, <1>10, <1>11, <1>12,
     <1>13, <1>14, <1>15, <1>16 DEF Next, Call, ClientStep, JobStep, LateStep, Done

\* So the types are kept.
LEMMA TypesStep ==
  ASSUME Types, BatchBound, [Next]_vars
  PROVE  Types'
  BY KeyStep, PlaceStep, SeenStep, ClientTypeStep DEF Types

-----------------------------------------------------------------------------
(* Every step keeps the tasks in their places *)

\* No step puts a task into a place twice.
LEMMA OnceStep ==
  ASSUME Types, BatchBound, OnceInv, ApartInv, [Next]_vars
  PROVE  OnceInv'
<1> USE DEF OnceInv
<1>1. PlaceType
  BY DEF Types
<1>2. CASE UNCHANGED <<list, rest, jobs, refused>>
  BY <1>2
<1>3. ASSUME NEW c \in Clients, EnqueuePush(c) PROVE OnceInv'
  <2>1. /\ arg[c] \in Nat /\ arg[c] \notin Elems(list)
        /\ list' = Append(list, arg[c]) /\ UNCHANGED <<rest, jobs, refused>>
    BY <1>3, QueueEffect DEF ApartInv
  <2>2. Distinct(list')
    BY <1>1, <2>1, AppendProps DEF PlaceType
  <2> QED
    BY <2>1, <2>2
<1>4. ASSUME NEW c \in Clients, DispatchDetach(c) PROVE OnceInv'
  BY <1>1, <1>4, QueueEffect, EmptyProps DEF PlaceType
<1>5. ASSUME NEW c \in Clients, DispatchBatch(c) PROVE OnceInv'
  <2>1. PICK a, b \in Seq(Nat) : Cuts(c, a, b)
    BY <1>5, BatchEffect
  <2> QED
    BY <1>1, <2>1 DEF Cuts, PlaceType
<1>6. ASSUME NEW j \in jobs, LoaderReturns(j) \/ JobSweep(j) PROVE OnceInv'
  BY <1>6, JobEffect DEF Ends, GoesOn
<1> QED
  BY <1>2, <1>3, <1>4, <1>5, <1>6, PlacesMove

\* A batch is cut to the maximal size, and a job keeps its batch.
LEMMA BoundStep ==
  ASSUME Types, BatchBound, [Next]_vars
  PROVE  BatchBound'
<1> USE DEF BatchBound
<1>1. config' = config
  BY DEF Next, Call, ClientStep, JobStep, LateStep, Done, vars, taskVars, Load, Clear, Prime,
     Dispatch, ClearAll, Enqueue, EnqueuePush, DispatchDetach, DispatchBatch, DispatchReturn,
     RunReturns, ClearNext, LoaderReturns, JobSweep, LoaderCompletes
<1>2. CASE UNCHANGED <<list, rest, jobs, refused>>
  BY <1>1, <1>2
<1>3. ASSUME NEW c \in Clients, EnqueuePush(c) \/ DispatchDetach(c) PROVE BatchBound'
  BY <1>1, <1>3, QueueEffect
<1>5. ASSUME NEW c \in Clients, DispatchBatch(c) PROVE BatchBound'
  <2>1. PICK a, b \in Seq(Nat) : Cuts(c, a, b)
    BY <1>5, BatchEffect
  <2> QED
    BY <1>1, <2>1 DEF Cuts
<1>6. ASSUME NEW j \in jobs, LoaderReturns(j) \/ JobSweep(j) PROVE BatchBound'
  BY <1>1, <1>6, JobEffect DEF Ends, GoesOn
<1> QED
  BY <1>2, <1>3, <1>5, <1>6, PlacesMove

\* Only Dispatch puts a queue into a goroutine's hand, and it returns when that is empty.
LEMMA RestStep ==
  ASSUME Types, RestInv, [Next]_vars
  PROVE  RestInv'
<1> USE DEF RestInv
<1>0. pc \in [Clients -> PCs] /\ rest \in [Clients -> Seq(Nat)]
  BY DEF Types, ClientType, PlaceType
<1>1. ASSUME NEW c \in Clients, NEW k \in Keys, Load(c, k) PROVE RestInv'
  BY <1>1, <1>0 DEF Load, Hold, See, Goto, cacheVars, queueVars, taskVars, jobVars
<1>2. ASSUME NEW c \in Clients, NEW k \in Keys, Clear(c, k) PROVE RestInv'
  BY <1>2, <1>0 DEF Clear, queueVars, taskVars, jobVars, clientVars
<1>3. ASSUME NEW c \in Clients, NEW k \in Keys, Prime(c, k) PROVE RestInv'
  BY <1>3, <1>0 DEF Prime, NewTask, SetCompleted, queueVars, jobVars, clientVars
<1>4. ASSUME NEW c \in Clients, Dispatch(c) PROVE RestInv'
  BY <1>4, <1>0 DEF Dispatch, Goto, cacheVars, queueVars, taskVars, jobVars
<1>5. ASSUME NEW c \in Clients, ClearAll(c) PROVE RestInv'
  BY <1>5, <1>0 DEF ClearAll, Goto, cacheVars, queueVars, taskVars, jobVars
<1>6. ASSUME NEW c \in Clients, Enqueue(c) PROVE RestInv'
  BY <1>6, <1>0 DEF Enqueue, Hold, See, Goto, NewTask, taskVars, jobVars
<1>7. ASSUME NEW c \in Clients, EnqueuePush(c) PROVE RestInv'
  BY <1>7, <1>0 DEF EnqueuePush, Hold, Goto, cacheVars, taskVars, jobVars
<1>8. ASSUME NEW c \in Clients, DispatchDetach(c) PROVE RestInv'
  BY <1>8, <1>0 DEF DispatchDetach, See, Goto, cacheVars, taskVars
<1>9. ASSUME NEW c \in Clients, DispatchBatch(c) PROVE RestInv'
  BY <1>9, <1>0 DEF DispatchBatch, Goto, cacheVars, queueVars, taskVars
<1>10. ASSUME NEW c \in Clients, DispatchReturn(c) PROVE RestInv'
  BY <1>10, <1>0 DEF DispatchReturn, Goto, cacheVars, queueVars, taskVars, jobVars,
     clientVars
<1>11. ASSUME NEW c \in Clients, RunReturns(c) PROVE RestInv'
  BY <1>11, <1>0 DEF RunReturns, Goto, cacheVars, queueVars, taskVars, jobVars
<1>12. ASSUME NEW c \in Clients, ClearNext(c) PROVE RestInv'
  BY <1>12, <1>0 DEF ClearNext, Goto, queueVars, taskVars, jobVars
<1>13. ASSUME NEW j \in jobs, LoaderReturns(j) PROVE RestInv'
  BY <1>13, <1>0 DEF LoaderReturns, cacheVars, queueVars, taskVars, clientVars
<1>14. ASSUME NEW j \in jobs, JobSweep(j) PROVE RestInv'
  BY <1>14, <1>0 DEF JobSweep, SetCompleted, cacheVars, queueVars, clientVars
<1>15. ASSUME NEW j \in jobs, LoaderCompletes(j) PROVE RestInv'
  BY <1>15, <1>0 DEF LoaderCompletes, SetCompleted, cacheVars, queueVars, jobVars,
     clientVars
<1>16. CASE UNCHANGED vars
  BY <1>16, <1>0 DEF vars, cacheVars, queueVars, taskVars, jobVars, clientVars
<1> QED
  BY <1>1, <1>2, <1>3, <1>4, <1>5, <1>6, <1>7, <1>8, <1>9, <1>10, <1>11, <1>12,
     <1>13, <1>14, <1>15, <1>16 DEF Next, Call, ClientStep, JobStep, LateStep, Done

\* What is being pushed after a step was being pushed before it, or is a new task.
LEMMA PushKept ==
  ASSUME Types, [Next]_vars, NEW d \in Clients, pc'[d] = "push"
  PROVE  (pc[d] = "push" /\ arg'[d] = arg[d]) \/ arg'[d] \notin Tasks
<1>0. pc \in [Clients -> PCs] /\ DOMAIN arg = Clients
  BY DEF Types, ClientType
<1> DEFINE G == (pc[d] = "push" /\ arg'[d] = arg[d]) \/ arg'[d] \notin Tasks
<1>1. ASSUME NEW c \in Clients, NEW k \in Keys, Load(c, k) PROVE G
  BY <1>1, <1>0 DEF Load, Hold, See, Goto, cacheVars, queueVars, taskVars, jobVars
<1>2. ASSUME NEW c \in Clients, NEW k \in Keys, Clear(c, k) PROVE G
  BY <1>2, <1>0 DEF Clear, queueVars, taskVars, jobVars, clientVars
<1>3. ASSUME NEW c \in Clients, NEW k \in Keys, Prime(c, k) PROVE G
  BY <1>3, <1>0 DEF Prime, NewTask, SetCompleted, queueVars, jobVars, clientVars
<1>4. ASSUME NEW c \in Clients, Dispatch(c) PROVE G
  BY <1>4, <1>0 DEF Dispatch, Goto, cacheVars, queueVars, taskVars, jobVars
<1>5. ASSUME NEW c \in Clients, ClearAll(c) PROVE G
  BY <1>5, <1>0 DEF ClearAll, Goto, cacheVars, queueVars, taskVars, jobVars
<1>6. ASSUME NEW c \in Clients, Enqueue(c) PROVE G
  <2>1. CASE config.cache /\ cache[arg[c]] # 0
    BY <1>6, <1>0, <2>1 DEF Enqueue, Goto
  <2>2. CASE ~(config.cache /\ cache[arg[c]] # 0)
    <3>1. Len(key) + 1 \notin Tasks
      BY DEF Types, KeyType, Tasks
    <3>2. arg' = [arg EXCEPT ![c] = Len(key) + 1] /\ pc' = [pc EXCEPT ![c] = "push"]
      BY <1>6, <2>2 DEF Enqueue, Goto
    <3> QED
      BY <1>0, <3>1, <3>2
  <2> QED
    BY <2>1, <2>2
<1>7. ASSUME NEW c \in Clients, EnqueuePush(c) PROVE G
  BY <1>7, <1>0 DEF EnqueuePush, Hold, Goto, cacheVars, taskVars, jobVars
<1>8. ASSUME NEW c \in Clients, DispatchDetach(c) PROVE G
  BY <1>8, <1>0 DEF DispatchDetach, See, Goto, cacheVars, taskVars
<1>9. ASSUME NEW c \in Clients, DispatchBatch(c) PROVE G
  BY <1>9, <1>0 DEF DispatchBatch, Goto, cacheVars, queueVars, taskVars
<1>10. ASSUME NEW c \in Clients, DispatchReturn(c) PROVE G
  BY <1>10, <1>0 DEF DispatchReturn, Goto, cacheVars, queueVars, taskVars, jobVars,
     clientVars
<1>11. ASSUME NEW c \in Clients, RunReturns(c) PROVE G
  BY <1>11, <1>0 DEF RunReturns, Goto, cacheVars, queueVars, taskVars, jobVars
<1>12. ASSUME NEW c \in Clients, ClearNext(c) PROVE G
  BY <1>12, <1>0 DEF ClearNext, Goto, queueVars, taskVars, jobVars
<1>13. ASSUME NEW j \in jobs, LoaderReturns(j) PROVE G
  BY <1>13, <1>0 DEF LoaderReturns, cacheVars, queueVars, taskVars, clientVars
<1>14. ASSUME NEW j \in jobs, JobSweep(j) PROVE G
  BY <1>14, <1>0 DEF JobSweep, SetCompleted, cacheVars, queueVars, clientVars
<1>15. ASSUME NEW j \in jobs, LoaderCompletes(j) PROVE G
  BY <1>15, <1>0 DEF LoaderCompletes, SetCompleted, cacheVars, queueVars, jobVars,
     clientVars
<1>16. CASE UNCHANGED vars
  BY <1>16, <1>0 DEF vars, cacheVars, queueVars, taskVars, jobVars, clientVars
<1> QED
  BY <1>1, <1>2, <1>3, <1>4, <1>5, <1>6, <1>7, <1>8, <1>9, <1>10, <1>11, <1>12,
     <1>13, <1>14, <1>15, <1>16 DEF Next, Call, ClientStep, JobStep, LateStep, Done

\* A step takes a task from one place to the next, and never leaves it in both.
LEMMA ApartStep ==
  ASSUME Types, BatchBound, OnceInv, ApartInv, [Next]_vars
  PROVE  ApartInv'
<1> USE DEF ApartInv
<1>1. PlaceType /\ ClientType
  BY DEF Types
<1>2. \A d \in Clients : pc'[d] = "push" => (pc[d] = "push" /\ arg'[d] = arg[d]) \/ arg'[d] \notin Tasks
  BY PushKept
<1>3. CASE UNCHANGED <<list, rest, jobs, refused>>
  BY <1>1, <1>2, <1>3 DEF PlaceType
<1>4. ASSUME NEW c \in Clients, EnqueuePush(c) PROVE ApartInv'
  <2>1. /\ arg[c] \in Nat /\ pc[c] = "push"
        /\ list' = Append(list, arg[c]) /\ UNCHANGED <<rest, jobs, refused>>
    BY <1>4, QueueEffect
  <2>2. Elems(list') = Elems(list) \cup {arg[c]}
    BY <1>1, <2>1, AppendProps DEF PlaceType
  <2>3. \A d \in Clients : pc'[d] # "push"
    BY <1>1, <1>4, <2>1 DEF EnqueuePush, Goto, ClientType
  <2>4. Elems(list') \cap refused' = {}
    BY <2>1, <2>2
  <2>5. \A d \in Clients : Elems(rest'[d]) \cap (Elems(list') \cup refused') = {}
    BY <2>1, <2>2
  <2>6. \A j \in jobs' : Elems(j.tasks) \cap (Elems(list') \cup refused') = {}
    BY <2>1, <2>2
  <2> QED
    BY <2>1, <2>3, <2>4, <2>5, <2>6
<1>5. ASSUME NEW c \in Clients, DispatchDetach(c) PROVE ApartInv'
  <2>1. CASE UNCHANGED <<list, rest>>
    BY <1>1, <1>2, <1>5, <2>1, QueueEffect DEF PlaceType
  <2>2. CASE rest' = [rest EXCEPT ![c] = list] /\ list' = << >>
    <3>1. UNCHANGED <<jobs, refused>> /\ Elems(list') = {}
      BY <1>5, <2>2, QueueEffect, EmptyProps
    <3>2. \A d \in Clients : rest'[d] = IF d = c THEN list ELSE rest[d]
      BY <1>1, <2>2 DEF PlaceType
    <3>3. \A d \in Clients : pc'[d] = "push" =>
            /\ \A e \in Clients : arg'[d] \notin Elems(rest'[e])
            /\ \A j \in jobs' : arg'[d] \notin Elems(j.tasks)
            /\ arg'[d] \notin Elems(list') \cup refused'
      BY <1>1, <1>2, <3>1, <3>2 DEF PlaceType
    <3> QED
      BY <3>1, <3>2, <3>3
  <2> QED
    BY <1>5, <2>1, <2>2, QueueEffect
<1>6. ASSUME NEW c \in Clients, DispatchBatch(c) PROVE ApartInv'
  <2>1. PICK a, b \in Seq(Nat) : Cuts(c, a, b)
    BY <1>6, BatchEffect
  <2>2. /\ list' = list /\ Elems(a) \cap Elems(b) = {}
        /\ Elems(a) \subseteq Elems(rest[c]) /\ Elems(b) \subseteq Elems(rest[c])
    BY <2>1 DEF Cuts, OnceInv
  <2>3. \A d \in Clients : rest'[d] = IF d = c THEN b ELSE rest[d]
    BY <1>1, <2>1 DEF PlaceType, Cuts
  <2>4. \A d \in Clients : Elems(rest'[d]) \subseteq Elems(rest[d]) /\ Elems(rest'[d]) \cap Elems(a) = {}
    BY <2>2, <2>3
  <2>5. CASE jobs' = jobs \cup {[tasks |-> a, swept |-> -1]} /\ refused' = refused
    <3>1. \A j \in jobs' : j \in jobs \/ (j.tasks = a /\ j = [tasks |-> a, swept |-> -1])
      BY <2>5
    <3>2. \A d \in Clients : pc'[d] = "push" =>
            /\ \A e \in Clients : arg'[d] \notin Elems(rest'[e])
            /\ \A j \in jobs' : arg'[d] \notin Elems(j.tasks)
            /\ arg'[d] \notin Elems(list') \cup refused'
      BY <1>1, <1>2, <2>2, <2>4, <2>5, <3>1 DEF PlaceType
    <3>3. \A i, j \in jobs' : i # j => Elems(i.tasks) \cap Elems(j.tasks) = {}
      BY <2>2, <3>1
    <3> QED
      BY <2>2, <2>4, <2>5, <3>1, <3>2, <3>3
  <2>6. CASE jobs' = jobs /\ refused' = refused \cup Elems(a)
    <3>1. \A d \in Clients : pc'[d] = "push" =>
            /\ \A e \in Clients : arg'[d] \notin Elems(rest'[e])
            /\ \A j \in jobs' : arg'[d] \notin Elems(j.tasks)
            /\ arg'[d] \notin Elems(list') \cup refused'
      BY <1>1, <1>2, <2>2, <2>4, <2>6 DEF PlaceType
    <3> QED
      BY <2>2, <2>4, <2>6, <3>1
  <2> QED
    BY <2>1, <2>5, <2>6 DEF Cuts
<1>7. ASSUME NEW j \in jobs, LoaderReturns(j) \/ JobSweep(j) PROVE ApartInv'
  <2>1. UNCHANGED <<list, rest, refused>>
    BY <1>7, JobEffect
  <2>2. CASE Ends(j)
    BY <1>1, <1>2, <2>1, <2>2 DEF Ends, PlaceType
  <2>3. ASSUME NEW i \in [tasks : Seq(Nat), swept : Int], GoesOn(j, i) PROVE ApartInv'
    <3>1. \A k \in jobs' : k \in jobs \ {j} \/ (k = i /\ k.tasks = j.tasks)
      BY <2>3 DEF GoesOn
    <3>2. \A d \in Clients : pc'[d] = "push" =>
            /\ \A e \in Clients : arg'[d] \notin Elems(rest'[e])
            /\ \A k \in jobs' : arg'[d] \notin Elems(k.tasks)
            /\ arg'[d] \notin Elems(list') \cup refused'
      BY <1>1, <1>2, <2>1, <3>1 DEF PlaceType
    <3>3. \A k, l \in jobs' : k # l => Elems(k.tasks) \cap Elems(l.tasks) = {}
      BY <3>1
    <3> QED
      BY <2>1, <3>1, <3>2, <3>3
  <2> QED
    BY <1>7, <2>2, <2>3, JobEffect
<1> QED
  BY <1>3, <1>4, <1>5, <1>6, <1>7, PlacesMove

\* The sweep goes forward and nothing that was completed is undone.
LEMMA SweptStep ==
  ASSUME Types, BatchBound, SweptInv, [Next]_vars
  PROVE  SweptInv' /\ completed \subseteq completed'
<1> USE DEF SweptInv
<1>1. completed \subseteq completed'
  BY DEF Next, Call, ClientStep, JobStep, LateStep, Done, vars, taskVars, Load, Clear, Prime,
     Dispatch, ClearAll, Enqueue, EnqueuePush, DispatchDetach, DispatchBatch, DispatchReturn,
     RunReturns, ClearNext, LoaderReturns, JobSweep, LoaderCompletes, SetCompleted
<1>2. CASE UNCHANGED <<list, rest, jobs, refused>>
  BY <1>1, <1>2
<1>3. ASSUME NEW c \in Clients, EnqueuePush(c) \/ DispatchDetach(c) PROVE SweptInv'
  BY <1>1, <1>3, QueueEffect
<1>4. ASSUME NEW c \in Clients, DispatchBatch(c) PROVE SweptInv'
  <2>1. PICK a, b \in Seq(Nat) : Cuts(c, a, b)
    BY <1>4, BatchEffect
  <2>2. \A j \in jobs' : j \in jobs \/ j.swept = -1
    BY <2>1 DEF Cuts
  <2> QED
    BY <1>1, <2>2
<1>5. ASSUME NEW j \in jobs, LoaderReturns(j) \/ JobSweep(j) PROVE SweptInv'
  <2>1. j.swept \in Int /\ (j.swept + 1 > 0 => j.tasks[j.swept + 1] \in completed')
    BY <1>5, JobEffect DEF Types, PlaceType
  <2>2. CASE Ends(j)
    BY <1>1, <2>2 DEF Ends
  <2>3. ASSUME NEW i \in [tasks : Seq(Nat), swept : Int], GoesOn(j, i) PROVE SweptInv'
    <3>1. ASSUME NEW n \in 1..i.swept PROVE i.tasks[n] \in completed'
      <4>1. i.tasks = j.tasks /\ n \in Int /\ 1 <= n /\ n <= j.swept + 1 /\ j.swept \in Int
        BY <2>1, <2>3 DEF GoesOn
      <4>2. CASE n = j.swept + 1
        BY <2>1, <4>1, <4>2
      <4>3. CASE n # j.swept + 1
        <5>1. n \in 1..j.swept
          BY <4>1, <4>3
        <5> QED
          BY <1>1, <4>1, <5>1
      <4> QED
        BY <4>2, <4>3
    <3> QED
      BY <1>1, <2>3, <3>1 DEF GoesOn
  <2> QED
    BY <1>5, <2>2, <2>3, JobEffect
<1> QED
  BY <1>1, <1>2, <1>3, <1>4, <1>5, PlacesMove

-----------------------------------------------------------------------------
(* Every step keeps the cache, and forgets no task *)

\* A key in the cache is not given another task, and what leaves the cache was cleared.
LEMMA CacheStep ==
  ASSUME Types, CacheInv, [Next]_vars
  PROVE  CacheInv'
<1> USE DEF CacheInv
<1>0. /\ key \in Seq(Keys) /\ Len(key) \in Nat /\ cache \in [Keys -> 0..Len(key)]
      /\ \A t \in Tasks : key[t] \in Keys /\ t # Len(key) + 1
  BY DEF Types, KeyType, Tasks
<1> DEFINE G == CacheInv'
<1>1. ASSUME NEW c \in Clients, NEW k \in Keys, Load(c, k) PROVE G
  BY <1>1 DEF Load, Hold, See, Goto, cacheVars, queueVars, taskVars, jobVars, Tasks
<1>2. ASSUME NEW c \in Clients, NEW k \in Keys, Clear(c, k) PROVE G
  BY <1>2, <1>0 DEF Clear, taskVars, Tasks
<1>3. ASSUME NEW c \in Clients, NEW k \in Keys, Prime(c, k) PROVE G
  <2>1. /\ config' = config /\ cleared' = cleared /\ cache[k] = 0 /\ config.cache
        /\ cache' = [cache EXCEPT ![k] = Len(key) + 1] /\ NewTask(k, seen[c])
    BY <1>3 DEF Prime
  <2>2. /\ Tasks' = Tasks \cup {Len(key) + 1}
        /\ key'[Len(key) + 1] = k /\ \A t \in Tasks : key'[t] = key[t]
    BY <1>0, <2>1, NewTaskProps
  <2> QED
    BY <1>0, <2>1, <2>2 DEF Tasks
<1>4. ASSUME NEW c \in Clients, Dispatch(c) PROVE G
  BY <1>4 DEF Dispatch, Goto, cacheVars, queueVars, taskVars, jobVars, Tasks
<1>5. ASSUME NEW c \in Clients, ClearAll(c) PROVE G
  BY <1>5 DEF ClearAll, Goto, cacheVars, queueVars, taskVars, jobVars, Tasks
<1>6. ASSUME NEW c \in Clients, Enqueue(c) PROVE G
  <2>1. config' = config /\ cleared' = cleared /\ arg[c] \in Keys
    BY <1>6 DEF Enqueue, taskVars, Types, ClientType
  <2>2. CASE config.cache /\ cache[arg[c]] # 0
    <3>1. UNCHANGED <<key, cache>>
      BY <1>6, <2>2 DEF Enqueue, taskVars
    <3> QED
      BY <2>1, <3>1 DEF Tasks
  <2>3. CASE config.cache /\ cache[arg[c]] = 0
    <3>1. cache' = [cache EXCEPT ![arg[c]] = Len(key) + 1] /\ NewTask(arg[c], queue)
      BY <1>6, <2>3 DEF Enqueue
    <3>2. /\ Tasks' = Tasks \cup {Len(key) + 1}
          /\ key'[Len(key) + 1] = arg[c] /\ \A t \in Tasks : key'[t] = key[t]
      BY <1>0, <2>1, <3>1, NewTaskProps
    <3> QED
      BY <1>0, <2>1, <2>3, <3>1, <3>2 DEF Tasks
  <2>4. CASE ~config.cache
    BY <2>1, <2>4
  <2> QED
    BY <2>2, <2>3, <2>4
<1>7. ASSUME NEW c \in Clients, EnqueuePush(c) PROVE G
  BY <1>7 DEF EnqueuePush, Hold, Goto, cacheVars, taskVars, jobVars, Tasks
<1>8. ASSUME NEW c \in Clients, DispatchDetach(c) PROVE G
  BY <1>8 DEF DispatchDetach, See, Goto, cacheVars, taskVars, Tasks
<1>9. ASSUME NEW c \in Clients, DispatchBatch(c) PROVE G
  BY <1>9 DEF DispatchBatch, Goto, cacheVars, queueVars, taskVars, Tasks
<1>10. ASSUME NEW c \in Clients, DispatchReturn(c) PROVE G
  BY <1>10 DEF DispatchReturn, Goto, cacheVars, queueVars, taskVars, jobVars,
     clientVars, Tasks
<1>11. ASSUME NEW c \in Clients, RunReturns(c) PROVE G
  BY <1>11 DEF RunReturns, Goto, cacheVars, queueVars, taskVars, jobVars, Tasks
<1>12. ASSUME NEW c \in Clients, ClearNext(c) PROVE G
  <2>1. arg[c] \subseteq Keys /\ UNCHANGED <<config, key>>
    BY <1>12 DEF ClearNext, Types, ClientType, taskVars
  <2>2. PICK k \in arg[c] : cache' = [cache EXCEPT ![k] = 0] /\ cleared' = cleared \cup {k}
    BY <1>12 DEF ClearNext
  <2> QED
    BY <1>0, <2>1, <2>2 DEF Tasks
<1>13. ASSUME NEW j \in jobs, LoaderReturns(j) PROVE G
  BY <1>13 DEF LoaderReturns, cacheVars, queueVars, taskVars, clientVars, Tasks
<1>14. ASSUME NEW j \in jobs, JobSweep(j) PROVE G
  BY <1>14 DEF JobSweep, SetCompleted, cacheVars, queueVars, clientVars, Tasks
<1>15. ASSUME NEW j \in jobs, LoaderCompletes(j) PROVE G
  BY <1>15 DEF LoaderCompletes, SetCompleted, cacheVars, queueVars, jobVars,
     clientVars, Tasks
<1>16. CASE UNCHANGED vars
  BY <1>16 DEF vars, cacheVars, queueVars, taskVars, jobVars, clientVars, Tasks
<1> QED
  BY <1>1, <1>2, <1>3, <1>4, <1>5, <1>6, <1>7, <1>8, <1>9, <1>10, <1>11, <1>12,
     <1>13, <1>14, <1>15, <1>16 DEF Next, Call, ClientStep, JobStep, LateStep, Done

\* A task is in one of its places.
Placed(t) ==
  \/ \E c \in Clients : pc[c] = "push" /\ arg[c] = t
  \/ t \in Elems(list)
  \/ \E c \in Clients : t \in Elems(rest[c])
  \/ \E j \in jobs : t \in Elems(j.tasks)
  \/ t \in refused

\* That is what NotForgotten says.
LEMMA PlacedProps == NotForgotten <=> \A t \in Tasks \ completed : Placed(t)
  BY DEF NotForgotten, Placed, Pushing, Detached, Batched

\* A task being pushed is there until it is pushed.
LEMMA PushStays ==
  ASSUME Types, [Next]_vars, NEW d \in Clients, pc[d] = "push"
  PROVE  (pc'[d] = "push" /\ arg'[d] = arg[d]) \/ EnqueuePush(d)
<1>0. pc \in [Clients -> PCs] /\ DOMAIN arg = Clients
  BY DEF Types, ClientType
<1> DEFINE G == (pc'[d] = "push" /\ arg'[d] = arg[d]) \/ EnqueuePush(d)
<1>1. ASSUME NEW c \in Clients, NEW k \in Keys, Load(c, k) PROVE G
  BY <1>1, <1>0 DEF Load, Hold, See, Goto, cacheVars, queueVars, taskVars, jobVars
<1>2. ASSUME NEW c \in Clients, NEW k \in Keys, Clear(c, k) PROVE G
  BY <1>2, <1>0 DEF Clear, queueVars, taskVars, jobVars, clientVars
<1>3. ASSUME NEW c \in Clients, NEW k \in Keys, Prime(c, k) PROVE G
  BY <1>3, <1>0 DEF Prime, NewTask, SetCompleted, queueVars, jobVars, clientVars
<1>4. ASSUME NEW c \in Clients, Dispatch(c) PROVE G
  BY <1>4, <1>0 DEF Dispatch, Goto, cacheVars, queueVars, taskVars, jobVars
<1>5. ASSUME NEW c \in Clients, ClearAll(c) PROVE G
  BY <1>5, <1>0 DEF ClearAll, Goto, cacheVars, queueVars, taskVars, jobVars
<1>6. ASSUME NEW c \in Clients, Enqueue(c) PROVE G
  BY <1>6, <1>0 DEF Enqueue, Hold, See, Goto, NewTask, taskVars, jobVars
<1>7. ASSUME NEW c \in Clients, EnqueuePush(c) PROVE G
  BY <1>7, <1>0 DEF EnqueuePush, Hold, Goto, cacheVars, taskVars, jobVars
<1>8. ASSUME NEW c \in Clients, DispatchDetach(c) PROVE G
  BY <1>8, <1>0 DEF DispatchDetach, See, Goto, cacheVars, taskVars
<1>9. ASSUME NEW c \in Clients, DispatchBatch(c) PROVE G
  BY <1>9, <1>0 DEF DispatchBatch, Goto, cacheVars, queueVars, taskVars
<1>10. ASSUME NEW c \in Clients, DispatchReturn(c) PROVE G
  BY <1>10, <1>0 DEF DispatchReturn, Goto, cacheVars, queueVars, taskVars, jobVars,
     clientVars
<1>11. ASSUME NEW c \in Clients, RunReturns(c) PROVE G
  BY <1>11, <1>0 DEF RunReturns, Goto, cacheVars, queueVars, taskVars, jobVars
<1>12. ASSUME NEW c \in Clients, ClearNext(c) PROVE G
  BY <1>12, <1>0 DEF ClearNext, Goto, queueVars, taskVars, jobVars
<1>13. ASSUME NEW j \in jobs, LoaderReturns(j) PROVE G
  BY <1>13, <1>0 DEF LoaderReturns, cacheVars, queueVars, taskVars, clientVars
<1>14. ASSUME NEW j \in jobs, JobSweep(j) PROVE G
  BY <1>14, <1>0 DEF JobSweep, SetCompleted, cacheVars, queueVars, clientVars
<1>15. ASSUME NEW j \in jobs, LoaderCompletes(j) PROVE G
  BY <1>15, <1>0 DEF LoaderCompletes, SetCompleted, cacheVars, queueVars, jobVars,
     clientVars
<1>16. CASE UNCHANGED vars
  BY <1>16, <1>0 DEF vars, cacheVars, queueVars, taskVars, jobVars, clientVars
<1> QED
  BY <1>1, <1>2, <1>3, <1>4, <1>5, <1>6, <1>7, <1>8, <1>9, <1>10, <1>11, <1>12,
     <1>13, <1>14, <1>15, <1>16 DEF Next, Call, ClientStep, JobStep, LateStep, Done

\* A new task is about to be pushed, or complete.
LEMMA BornPlaced ==
  ASSUME Types, [Next]_vars, NEW t \in Tasks', t \notin Tasks
  PROVE  (\E c \in Clients : pc'[c] = "push" /\ arg'[c] = t) \/ t \in completed'
<1>0. pc \in [Clients -> PCs] /\ DOMAIN arg = Clients /\ key \in Seq(Keys)
  BY DEF Types, ClientType, KeyType
<1> DEFINE G == (\E c \in Clients : pc'[c] = "push" /\ arg'[c] = t) \/ t \in completed'
<1>1. ASSUME NEW c \in Clients, NEW k \in Keys, Load(c, k) PROVE G
  BY <1>1 DEF Load, Hold, See, Goto, cacheVars, queueVars, taskVars, jobVars, Tasks
<1>2. ASSUME NEW c \in Clients, NEW k \in Keys, Clear(c, k) PROVE G
  BY <1>2 DEF Clear, queueVars, taskVars, jobVars, clientVars, Tasks
<1>3. ASSUME NEW c \in Clients, NEW k \in Keys, Prime(c, k) PROVE G
  <2>1. Tasks' = Tasks \cup {Len(key) + 1}
    BY <1>3, <1>0, NewTaskProps DEF Prime
  <2> QED
    BY <1>3, <2>1 DEF Prime, SetCompleted
<1>4. ASSUME NEW c \in Clients, Dispatch(c) PROVE G
  BY <1>4 DEF Dispatch, Goto, cacheVars, queueVars, taskVars, jobVars, Tasks
<1>5. ASSUME NEW c \in Clients, ClearAll(c) PROVE G
  BY <1>5 DEF ClearAll, Goto, cacheVars, queueVars, taskVars, jobVars, Tasks
<1>6. ASSUME NEW c \in Clients, Enqueue(c) PROVE G
  <2>1. CASE config.cache /\ cache[arg[c]] # 0
    BY <1>6, <2>1 DEF Enqueue, taskVars, Tasks
  <2>2. CASE ~(config.cache /\ cache[arg[c]] # 0)
    <3>1. /\ NewTask(arg[c], queue) /\ arg[c] \in Keys
          /\ arg' = [arg EXCEPT ![c] = Len(key) + 1] /\ pc' = [pc EXCEPT ![c] = "push"]
      BY <1>6, <2>2 DEF Enqueue, Goto, Types, ClientType
    <3>2. Tasks' = Tasks \cup {Len(key) + 1}
      BY <1>0, <3>1, NewTaskProps
    <3> QED
      BY <1>0, <3>1, <3>2
  <2> QED
    BY <2>1, <2>2
<1>7. ASSUME NEW c \in Clients, EnqueuePush(c) PROVE G
  BY <1>7 DEF EnqueuePush, Hold, Goto, cacheVars, taskVars, jobVars, Tasks
<1>8. ASSUME NEW c \in Clients, DispatchDetach(c) PROVE G
  BY <1>8 DEF DispatchDetach, See, Goto, cacheVars, taskVars, Tasks
<1>9. ASSUME NEW c \in Clients, DispatchBatch(c) PROVE G
  BY <1>9 DEF DispatchBatch, Goto, cacheVars, queueVars, taskVars, Tasks
<1>10. ASSUME NEW c \in Clients, DispatchReturn(c) PROVE G
  BY <1>10 DEF DispatchReturn, Goto, cacheVars, queueVars, taskVars, jobVars,
     clientVars, Tasks
<1>11. ASSUME NEW c \in Clients, RunReturns(c) PROVE G
  BY <1>11 DEF RunReturns, Goto, cacheVars, queueVars, taskVars, jobVars, Tasks
<1>12. ASSUME NEW c \in Clients, ClearNext(c) PROVE G
  BY <1>12 DEF ClearNext, Goto, queueVars, taskVars, jobVars, Tasks
<1>13. ASSUME NEW j \in jobs, LoaderReturns(j) PROVE G
  BY <1>13 DEF LoaderReturns, cacheVars, queueVars, taskVars, clientVars, Tasks
<1>14. ASSUME NEW j \in jobs, JobSweep(j) PROVE G
  BY <1>14 DEF JobSweep, SetCompleted, cacheVars, queueVars, clientVars, Tasks
<1>15. ASSUME NEW j \in jobs, LoaderCompletes(j) PROVE G
  BY <1>15 DEF LoaderCompletes, SetCompleted, cacheVars, queueVars, jobVars,
     clientVars, Tasks
<1>16. CASE UNCHANGED vars
  BY <1>16 DEF vars, cacheVars, queueVars, taskVars, jobVars, clientVars, Tasks
<1> QED
  BY <1>1, <1>2, <1>3, <1>4, <1>5, <1>6, <1>7, <1>8, <1>9, <1>10, <1>11, <1>12,
     <1>13, <1>14, <1>15, <1>16 DEF Next, Call, ClientStep, JobStep, LateStep, Done

\* A task leaves a place for the next one, and the last one when it is completed.
LEMMA ForgottenStep ==
  ASSUME Types, BatchBound, RestInv, SweptInv, NotForgotten, [Next]_vars
  PROVE  NotForgotten'
<1>1. ASSUME NEW t \in Tasks', t \notin completed' PROVE Placed(t)'
  <2>1. CASE t \notin Tasks
    BY <1>1, <2>1, BornPlaced DEF Placed
  <2>2. CASE t \in Tasks
    <3>1. t \notin completed /\ Placed(t) /\ PlaceType
      BY <1>1, <2>2, SweptStep, PlacedProps DEF Types
    <3>2. ASSUME NEW d \in Clients, pc[d] = "push", arg[d] = t
          PROVE  (\E c \in Clients : pc'[c] = "push" /\ arg'[c] = t) \/ t \in Elems(list')
      <4>1. CASE EnqueuePush(d)
        BY <3>1, <3>2, <4>1, QueueEffect, AppendProps DEF PlaceType
      <4> QED
        BY <3>2, <4>1, PushStays
    <3>3. CASE UNCHANGED <<list, rest, jobs, refused>>
      BY <3>1, <3>2, <3>3 DEF Placed
    <3>4. ASSUME NEW c \in Clients, EnqueuePush(c) PROVE Placed(t)'
      <4>1. arg[c] \in Nat /\ list' = Append(list, arg[c]) /\ UNCHANGED <<rest, jobs, refused>>
        BY <3>4, QueueEffect
      <4>2. Elems(list) \subseteq Elems(list')
        BY <3>1, <4>1, AppendProps DEF PlaceType
      <4> QED
        BY <3>1, <3>2, <4>1, <4>2 DEF Placed
    <3>5. ASSUME NEW c \in Clients, DispatchDetach(c) PROVE Placed(t)'
      <4>1. CASE UNCHANGED <<list, rest>>
        BY <3>1, <3>2, <3>5, <4>1, QueueEffect DEF Placed
      <4>2. CASE rest' = [rest EXCEPT ![c] = list] /\ list' = << >>
        <5>1. UNCHANGED <<jobs, refused>> /\ pc[c] = "detach"
          BY <3>5, QueueEffect
        <5>2. Elems(rest[c]) = {} /\ Elems(list') = {}
          BY <4>2, <5>1, EmptyProps DEF RestInv
        <5>3. \A d \in Clients : rest'[d] = IF d = c THEN list ELSE rest[d]
          BY <3>1, <4>2 DEF PlaceType
        <5> QED
          BY <3>1, <3>2, <5>1, <5>2, <5>3 DEF Placed
      <4> QED
        BY <3>5, <4>1, <4>2, QueueEffect
    <3>6. ASSUME NEW c \in Clients, DispatchBatch(c) PROVE Placed(t)'
      <4>1. PICK a, b \in Seq(Nat) : Cuts(c, a, b)
        BY <3>6, BatchEffect
      <4>2. /\ list' = list /\ Elems(a) \cup Elems(b) = Elems(rest[c])
            /\ \A d \in Clients : rest'[d] = IF d = c THEN b ELSE rest[d]
        BY <3>1, <4>1 DEF Cuts, PlaceType
      <4>3. /\ jobs \subseteq jobs' /\ refused \subseteq refused'
            /\ (\E j \in jobs' : j.tasks = a) \/ Elems(a) \subseteq refused'
        <5>1. CASE jobs' = jobs \cup {[tasks |-> a, swept |-> -1]} /\ refused' = refused
          <6>1. [tasks |-> a, swept |-> -1].tasks = a
            OBVIOUS
          <6> QED
            BY <5>1, <6>1
        <5>2. CASE jobs' = jobs /\ refused' = refused \cup Elems(a)
          BY <5>2
        <5> QED
          BY <4>1, <5>1, <5>2 DEF Cuts
      <4> QED
        BY <3>1, <3>2, <4>2, <4>3 DEF Placed
    <3>7. ASSUME NEW j \in jobs, LoaderReturns(j) \/ JobSweep(j) PROVE Placed(t)'
      <4>1. UNCHANGED <<list, rest, refused>>
        BY <3>7, JobEffect
      <4>2. CASE Ends(j)
        <5>1. /\ j.swept \in Int /\ Len(j.tasks) \in Nat /\ j.swept + 1 = Len(j.tasks)
              /\ completed \subseteq completed'
              /\ j.swept + 1 > 0 => j.tasks[j.swept + 1] \in completed'
          BY <3>1, <3>7, <4>2, JobEffect DEF PlaceType, Ends
        <5>2. \A i \in 1..Len(j.tasks) : i \in 1..j.swept \/ i = j.swept + 1
          BY <5>1
        <5>3. Elems(j.tasks) \subseteq completed'
          BY <5>1, <5>2 DEF SweptInv, Elems
        <5> QED
          BY <1>1, <3>1, <3>2, <4>1, <4>2, <5>3 DEF Placed, Ends
      <4>3. ASSUME NEW i \in [tasks : Seq(Nat), swept : Int], GoesOn(j, i) PROVE Placed(t)'
        BY <3>1, <3>2, <4>1, <4>3 DEF Placed, GoesOn
      <4> QED
        BY <3>7, <4>2, <4>3, JobEffect
    <3> QED
      BY <3>3, <3>4, <3>5, <3>6, <3>7, PlacesMove
  <2> QED
    BY <2>1, <2>2
<1>2. (NotForgotten <=> \A t \in Tasks \ completed : Placed(t))'
  BY PlacedProps, PTL
<1> QED
  BY <1>1, <1>2

-----------------------------------------------------------------------------
(* The bound on the tasks created *)

\* Who starts or stops being about to create a task changes the number of those by one.
LEMMA EnqueueingProps ==
  ASSUME Types, NEW c \in Clients, NEW l, pc' = [pc EXCEPT ![c] = l]
  PROVE  /\ Cardinality(Enqueueing) \in Nat /\ IsFiniteSet(Enqueueing)
         /\ pc[c] # "enqueue" /\ l # "enqueue" => Enqueueing' = Enqueueing
         /\ pc[c] # "enqueue" /\ l = "enqueue" =>
              Cardinality(Enqueueing') = Cardinality(Enqueueing) + 1
         /\ pc[c] = "enqueue" /\ l # "enqueue" =>
              Cardinality(Enqueueing') = Cardinality(Enqueueing) - 1
<1>1. IsFiniteSet(Enqueueing)
  BY FS_Subset, ConfigAssumption DEF Enqueueing
<1>2. \A d \in Clients : pc'[d] = IF d = c THEN l ELSE pc[d]
  BY DEF Types, ClientType
<1>3. pc[c] # "enqueue" /\ l # "enqueue" => Enqueueing' = Enqueueing
  BY <1>2 DEF Enqueueing
<1>4. pc[c] # "enqueue" /\ l = "enqueue" => Enqueueing' = Enqueueing \cup {c} /\ c \notin Enqueueing
  BY <1>2 DEF Enqueueing
<1>5. pc[c] = "enqueue" /\ l # "enqueue" => Enqueueing' = Enqueueing \ {c} /\ c \in Enqueueing
  BY <1>2 DEF Enqueueing
<1>6. Cardinality(Enqueueing) \in Nat
  BY <1>1, FS_CardinalityType
<1>7. c \notin Enqueueing => Cardinality(Enqueueing \cup {c}) = Cardinality(Enqueueing) + 1
  BY <1>1, FS_AddElement
<1>8. c \in Enqueueing => Cardinality(Enqueueing \ {c}) = Cardinality(Enqueueing) - 1
  BY <1>1, FS_RemoveElement
<1> QED
  BY <1>1, <1>3, <1>4, <1>5, <1>6, <1>7, <1>8

\* Room keeps a place for everyone that is about to create a task.
LEMMA RoomStep ==
  ASSUME Types, RoomInv, [Next]_vars
  PROVE  RoomInv'
<1> DEFINE n == Cardinality(Enqueueing)
           G == Len(key') + Cardinality(Enqueueing') <= MaxTasks
<1>0. /\ Len(key) \in Nat /\ MaxTasks \in Nat /\ n \in Nat /\ Len(key) + n <= MaxTasks
  <2>1. IsFiniteSet(Enqueueing)
    BY FS_Subset, ConfigAssumption DEF Enqueueing
  <2>2. n \in Nat
    BY <2>1, FS_CardinalityType
  <2> QED
    BY <2>2, ConfigAssumption DEF Types, KeyType, RoomInv
<1>1. ASSUME UNCHANGED <<key, pc>> PROVE G
  BY <1>0, <1>1 DEF Enqueueing
<1>2. ASSUME NEW c \in Clients, NEW l, pc' = [pc EXCEPT ![c] = l], key' = key,
             pc[c] # "enqueue", l # "enqueue"
      PROVE  G
  BY <1>0, <1>2, EnqueueingProps
<1>3. ASSUME NEW c \in Clients, NEW k \in Keys, Load(c, k) \/ Clear(c, k) \/ Prime(c, k) PROVE G
  <2>1. CASE pc' = pc /\ key' = key
    BY <1>1, <2>1
  <2>2. CASE Room /\ pc' = [pc EXCEPT ![c] = "enqueue"] /\ key' = key /\ pc[c] = "idle"
    <3>1. Len(key) + n < MaxTasks
      BY <2>2 DEF Room, Enqueueing
    <3>2. Cardinality(Enqueueing') = n + 1
      BY <2>2, EnqueueingProps
    <3> QED
      BY <1>0, <2>2, <3>1, <3>2
  <2>3. CASE Prime(c, k)
    <3>1. Len(key) + n < MaxTasks /\ Enqueueing' = Enqueueing
      BY <2>3 DEF Prime, Room, Enqueueing
    <3>2. Len(key') = Len(key) + 1
      BY <2>3, NewTaskProps DEF Prime, Types, KeyType
    <3> QED
      BY <1>0, <3>1, <3>2
  <2> QED
    BY <1>3, <2>1, <2>2, <2>3 DEF Load, Clear, Goto, taskVars
<1>4. ASSUME NEW c \in Clients, Enqueue(c) PROVE G
  <2>1. pc[c] = "enqueue" /\ \E l \in {"idle", "push"} : pc' = [pc EXCEPT ![c] = l]
    BY <1>4 DEF Enqueue, Goto
  <2>2. Cardinality(Enqueueing') = n - 1
    BY <2>1, EnqueueingProps
  <2>3. CASE config.cache /\ cache[arg[c]] # 0
    <3>1. key' = key
      BY <1>4, <2>3 DEF Enqueue, taskVars
    <3> QED
      BY <1>0, <2>2, <3>1
  <2>4. CASE ~(config.cache /\ cache[arg[c]] # 0)
    <3>1. Len(key') = Len(key) + 1
      BY <1>4, <2>4, NewTaskProps DEF Enqueue, Types, KeyType, ClientType
    <3> QED
      BY <1>0, <2>2, <3>1
  <2> QED
    BY <2>3, <2>4
<1>5. ASSUME NEW c \in Clients,
             \/ Dispatch(c) \/ ClearAll(c) \/ EnqueuePush(c) \/ DispatchDetach(c)
             \/ DispatchBatch(c) \/ DispatchReturn(c) \/ RunReturns(c) \/ ClearNext(c)
      PROVE  G
  <2>1. key' = key /\ pc[c] # "enqueue"
    BY <1>5 DEF Dispatch, ClearAll, EnqueuePush, DispatchDetach, DispatchBatch, DispatchReturn,
       RunReturns, ClearNext, taskVars
  <2>2. pc' = pc \/ \E l : l # "enqueue" /\ pc' = [pc EXCEPT ![c] = l]
    BY <1>5 DEF Dispatch, ClearAll, EnqueuePush, DispatchDetach, DispatchBatch, DispatchReturn,
       RunReturns, ClearNext, Goto
  <2> QED
    BY <1>1, <1>2, <2>1, <2>2
<1>6. ASSUME NEW j \in jobs, LoaderReturns(j) \/ JobSweep(j) \/ LoaderCompletes(j) PROVE G
  BY <1>1, <1>6 DEF LoaderReturns, JobSweep, LoaderCompletes, taskVars
<1>7. ASSUME UNCHANGED vars PROVE G
  BY <1>1, <1>7 DEF vars, taskVars
<1>8. calls' \in 0..MaxCalls
  BY ConfigAssumption DEF RoomInv, Next, Call, ClientStep, JobStep, LateStep, Done, vars
<1> QED
  BY <1>3, <1>4, <1>5, <1>6, <1>7, <1>8
     DEF RoomInv, Next, Call, ClientStep, JobStep, LateStep, Done

-----------------------------------------------------------------------------
(* The theorems *)

\* The inductive invariant holds initially.
LEMMA IInvInit == Init => IInv
<1> SUFFICES ASSUME Init PROVE IInv
  OBVIOUS
<1> USE ConfigAssumption
<1>0. Len(key) = 0 /\ Tasks = {} /\ key \in Seq(Keys)
  BY DEF Init, Tasks
<1>1. KeyType
  BY <1>0 DEF Init, KeyType
<1>2. PlaceType
  BY <1>0, EmptyProps DEF Init, PlaceType
<1>3. ClientType
  BY <1>0 DEF Init, ClientType, PCs
<1>4. SeenType
  BY <1>0 DEF Init, SeenType
<1>5. RoomInv
  <2>1. Enqueueing = {}
    BY DEF Init, Enqueueing
  <2>2. Cardinality(Enqueueing) = 0
    BY <2>1, FS_EmptySet
  <2> QED
    BY <1>0, <2>2 DEF Init, RoomInv
<1>6. OnceInv
  BY EmptyProps DEF Init, OnceInv
<1>7. ApartInv
  BY EmptyProps DEF Init, ApartInv
<1>8. RestInv /\ SweptInv /\ BatchBound /\ CacheInv /\ NotForgotten
  BY <1>0 DEF Init, RestInv, SweptInv, BatchBound, CacheInv, NotForgotten
<1> QED
  BY <1>1, <1>2, <1>3, <1>4, <1>5, <1>6, <1>7, <1>8 DEF IInv, Types

\* And it is kept by every step.
LEMMA IInvariance == Spec => []IInv
<1>1. IInv /\ [Next]_vars => IInv'
  BY TypesStep, RoomStep, OnceStep, ApartStep, RestStep, SweptStep, BoundStep, CacheStep,
     ForgottenStep DEF IInv
<1> QED
  BY <1>1, IInvInit, PTL DEF Spec

\* The variables of the data loader have their types, and the bound on the tasks is kept.
THEOREM TypeCorrect == Spec => []TypeOK
<1>1. IInv => TypeOK
  <2> SUFFICES ASSUME IInv PROVE TypeOK
    OBVIOUS
  <2> USE DEF IInv, Types
  <2>1. list \in Seq(Tasks)
    BY SeqProps DEF PlaceType
  <2>2. rest \in [Clients -> Seq(Tasks)]
    <3>1. \A c \in Clients : rest[c] \in Seq(Tasks)
      BY SeqProps DEF PlaceType
    <3> QED
      BY <3>1 DEF PlaceType
  <2>3. \A j \in jobs : j.tasks \in Seq(Tasks) /\ j.swept \in -1..(Len(j.tasks) - 1)
    BY SeqProps DEF PlaceType
  <2>4. born \in Seq(0..queue) /\ seen \in [Clients -> 0..queue] /\ queue \in Nat
    <3>1. Elems(born) \subseteq 0..queue
      BY DEF SeenType, Elems, Tasks
    <3>2. born \in Seq(0..queue)
      BY <3>1, SeqProps DEF SeenType
    <3> QED
      BY <3>2 DEF SeenType
  <2>5. Len(key) <= MaxTasks /\ calls \in 0..MaxCalls
    <3>1. IsFiniteSet(Enqueueing)
      BY FS_Subset, ConfigAssumption DEF Enqueueing
    <3>2. Cardinality(Enqueueing) \in Nat
      BY <3>1, FS_CardinalityType
    <3> QED
      BY <3>2, ConfigAssumption DEF RoomInv, KeyType
  <2> QED
    BY <2>1, <2>2, <2>3, <2>4, <2>5 DEF TypeOK, KeyType, PlaceType, ClientType, PCs
<1> QED
  BY <1>1, IInvariance, PTL

\* Enqueue, Dispatch and the cutting into batches neither repeat a task nor leave it in two
\* places, however the goroutines interleave.
THEOREM OnePlaceCorrect == Spec => []OnePlace
<1>1. IInv => OnePlace
  <2> SUFFICES ASSUME IInv, NEW t \in Tasks PROVE OnePlace!(t)
    BY DEF OnePlace
  <2> USE DEF IInv
  <2>0. PlaceType /\ ClientType
    BY DEF Types
  <2>1. \A c, d \in Pushing(t) : c = d
    BY <2>0 DEF Pushing, ClientType
  <2>2. \A c, d \in Detached(t) : c = d
    BY DEF Detached, ApartInv
  <2>3. \A i, j \in Batched(t) : i = j
    BY DEF Batched, ApartInv
  <2>4. Cardinality(Pushing(t)) = IF Pushing(t) = {} THEN 0 ELSE 1
    BY <2>1, AtMostOne
  <2>5. Cardinality(Detached(t)) = IF Detached(t) = {} THEN 0 ELSE 1
    BY <2>2, AtMostOne
  <2>6. Cardinality(Batched(t)) = IF Batched(t) = {} THEN 0 ELSE 1
    BY <2>3, AtMostOne
  <2>7. Cardinality(refused \cap {t}) = IF t \in refused THEN 1 ELSE 0
    <3>1. Cardinality(refused \cap {t}) = IF refused \cap {t} = {} THEN 0 ELSE 1
      BY AtMostOne
    <3> QED
      BY <3>1
  <2>8. Count(list, t) = IF t \in Elems(list) THEN 1 ELSE 0
    BY <2>0, CountProps DEF PlaceType, OnceInv
  <2>9. /\ Pushing(t) # {} => t \notin Elems(list) /\ t \notin refused /\ Detached(t) = {} /\ Batched(t) = {}
        /\ t \in Elems(list) => t \notin refused /\ Detached(t) = {} /\ Batched(t) = {}
        /\ Detached(t) # {} => t \notin refused /\ Batched(t) = {}
        /\ Batched(t) # {} => t \notin refused
    BY DEF ApartInv, Pushing, Detached, Batched
  <2>10. \A c \in Clients : Count(rest[c], t) <= 1
    BY <2>0, CountProps DEF PlaceType, OnceInv
  <2>11. \A j \in jobs : Count(j.tasks, t) <= 1
    BY <2>0, CountProps DEF PlaceType, OnceInv
  <2> QED
    BY <2>4, <2>5, <2>6, <2>7, <2>8, <2>9, <2>10, <2>11
<1> QED
  BY <1>1, IInvariance, PTL

\* An incomplete task is always on its way, or was refused by the Runner: no interleaving of
\* Load, Dispatch and the jobs forgets it.
THEOREM NotForgottenCorrect == Spec => []NotForgotten
<1>1. IInv => NotForgotten
  BY DEF IInv
<1> QED
  BY <1>1, IInvariance, PTL

\* With the cache on, all loads of a key that nobody cleared share one task.
THEOREM CoalescedCorrect == Spec => []Coalesced
<1>1. IInv => Coalesced
  BY DEF IInv, CacheInv, Coalesced
<1> QED
  BY <1>1, IInvariance, PTL

\* No batch is empty or longer than MaxBatchSize.
THEOREM BatchBoundCorrect == Spec => []BatchBound
<1>1. IInv => BatchBound
  BY DEF IInv
<1> QED
  BY <1>1, IInvariance, PTL
=============================================================================
