------------------------- MODULE TypeCreatorProofs -------------------------
(***************************************************************************)
(* What holds of graphql/type_creator.go for every set of goroutines and   *)
(* every set of definitions, however they refer to each other and wherever *)
(* their creation fails.                                                   *)
(***************************************************************************)
EXTENDS TypeCreator, SequenceTheorems, TLAPS

(***************************************************************************)
(* The inductive invariant.  Its parts take the graph rf of references and *)
(* the map cr of created types as parameters, so that the lemmas about     *)
(* them speak of any graph and any map.                                    *)
(***************************************************************************)
Entry == [by : Goroutines, done : BOOLEAN, err : BOOLEAN]
Created == [Defs -> Entry \cup {None}]
Refs == [Defs -> SUBSET Defs]

ReachOf(rf, d) ==
  {e \in Defs : \A S \in SUBSET Defs : rf[d] \subseteq S /\ (\A x \in S : rf[x] \subseteq S) => e \in S}
Cycleless(rf) == \A d \in Defs : d \notin ReachOf(rf, d)

\* The creation of d has succeeded, and its channel is closed.
Ready(cr, d) == cr[d] # None /\ cr[d].done /\ ~cr[d].err

\* A call of newTypeImplInternal that finalizes has stored its entry and not closed its channel,
\* and what it has resolved is ready if the definitions form no cycle.
GoodFrame(rf, cr, g, f) ==
  /\ f.stage = "finalizing" => cr[f.def] # None /\ cr[f.def].by = g /\ ~cr[f.def].done
  /\ f.stage = "new" => f.left = rf[f.def]
  /\ f.left \subseteq rf[f.def]
  /\ Cycleless(rf) /\ f.stage = "finalizing" /\ ~f.failed => \A e \in rf[f.def] \ f.left : Ready(cr, e)

\* It waits for a reference to be resolved, and has met no error.
Resolving(f) == f.stage = "finalizing" /\ ~f.failed

\* The calls s of g: all but the last one are resolving, and the last one too if g waits; a call is
\* for a definition that the calls under it refer to, none of which finalizes the same one.
GoodStack(rf, cr, g, s, waiting) ==
  /\ \A i \in 1..Len(s) : GoodFrame(rf, cr, g, s[i])
  /\ \A i \in 1..Len(s) : i < Len(s) \/ waiting => Resolving(s[i])
  /\ \A i, j \in 1..Len(s) : i < j =>
       /\ s[j].def \in ReachOf(rf, s[i].def)
       /\ s[j].stage = "finalizing" => s[i].def # s[j].def

Stacks == \A g \in Goroutines : GoodStack(refs, created, g, stack[g], waits[g] # None)

\* What is waited for is in createdTypes, and an error is stored when the channel is closed.
Entries == /\ \A g \in Goroutines : waits[g] # None => created[waits[g]] # None
           /\ \A d \in Defs : created[d] # None /\ created[d].err => created[d].done

\* A field holds the instance in createdTypes, and only the stored instance of a type has fields.
Fields == \A d, e \in Defs, g \in Goroutines : fields[d][g][e] # None =>
            /\ created[e] # None /\ fields[d][g][e] = created[e].by
            /\ created[d] # None /\ created[d].by = g

\* What a ready type refers to is ready, if the definitions form no cycle.
ReadyClosed ==
  Cycleless(refs) => \A d \in Defs : Ready(created, d) => \A e \in refs[d] : Ready(created, e)

IInv == TypeOK /\ Entries /\ Stacks /\ Fields /\ ReadyClosed

(***************************************************************************)
(* Graphs                                                                  *)
(***************************************************************************)
\* A definition reaches what it refers to, and what those refer to that it reaches.
LEMMA ReachProps ==
  ASSUME NEW rf \in Refs, NEW d \in Defs
  PROVE  /\ rf[d] \subseteq ReachOf(rf, d)
         /\ \A e \in ReachOf(rf, d) : rf[e] \subseteq ReachOf(rf, d)
BY DEF Refs, ReachOf

\* A set that holds the references of d and of its members holds what d reaches.
LEMMA ReachLeast ==
  ASSUME NEW rf \in Refs, NEW d \in Defs, NEW S \in SUBSET Defs, rf[d] \subseteq S,
         \A x \in S : rf[x] \subseteq S
  PROVE  ReachOf(rf, d) \subseteq S
BY DEF Refs, ReachOf

\* The operators of the specification are the ones of the invariant, at refs.
LEMMA ReachSame == /\ \A d : Reach(d) = ReachOf(refs, d)
                   /\ Acyclic <=> Cycleless(refs)
BY DEF Reach, Closed, Acyclic, ReachOf, Cycleless

(***************************************************************************)
(* Stacks of calls                                                         *)
(***************************************************************************)
\* What a call on a stack is made of.
LEMMA FrameType ==
  ASSUME NEW s \in Seq(Frame), NEW i \in 1..Len(s)
  PROVE  /\ s[i] \in Frame /\ s[i].def \in Defs /\ s[i].left \subseteq Defs
         /\ s[i].failed \in BOOLEAN /\ s[i].stage \in {"new", "finalizing"}
<1>1. s[i] \in Frame
  OBVIOUS
<1> QED BY <1>1 DEF Frame

\* A call is pushed.
LEMMA AppendProps ==
  ASSUME NEW s \in Seq(Frame), NEW f \in Frame
  PROVE  /\ Append(s, f) \in Seq(Frame)
         /\ Len(Append(s, f)) = Len(s) + 1
         /\ \A i \in 1..Len(s) : Append(s, f)[i] = s[i]
         /\ Append(s, f)[Len(s) + 1] = f
OBVIOUS

\* A call returns.
LEMMA PopProps ==
  ASSUME NEW s \in Seq(Frame), s # <<>>
  PROVE  /\ SubSeq(s, 1, Len(s) - 1) \in Seq(Frame)
         /\ Len(SubSeq(s, 1, Len(s) - 1)) = Len(s) - 1
         /\ \A i \in 1..(Len(s) - 1) : SubSeq(s, 1, Len(s) - 1)[i] = s[i]
<1> DEFINE n == Len(s) - 1
           r == [i \in 1..n |-> s[i]]
<1>1. n \in Nat /\ r \in [1..n -> Frame]
  OBVIOUS
<1>2. SubSeq(s, 1, Len(s) - 1) = r
  OBVIOUS
<1>3. r \in Seq(Frame) /\ \A i \in 1..n : r[i] = s[i]
  BY <1>1
<1>4. Len(r) = n
  BY <1>1, <1>3
<1> QED BY <1>2, <1>3, <1>4, Zenon

\* The record of a call whose reference is resolved.
Answered(f, d, failed) == [[f EXCEPT !.left = @ \ {d}] EXCEPT !.failed = failed]

\* It differs in the references left and in having failed.
LEMMA FrameReceived ==
  ASSUME NEW f \in Frame, NEW d, NEW failed \in BOOLEAN
  PROVE  LET r == Answered(f, d, failed)
         IN  /\ r \in Frame /\ r.def = f.def /\ r.stage = f.stage
             /\ r.left = f.left \ {d} /\ r.failed = failed
<1> DEFINE L == f.left \ {d}
           one == [f EXCEPT !.left = L]
           r == [one EXCEPT !.failed = failed]
<1>1. L \in SUBSET Defs
  BY DEF Frame
<1> HIDE DEF L
<1>2. one \in Frame /\ one.def = f.def /\ one.stage = f.stage /\ one.left = L
  BY <1>1 DEF Frame
<1> HIDE DEF one
<1>3. r \in Frame /\ r.def = one.def /\ r.stage = one.stage /\ r.left = one.left /\ r.failed = failed
  BY <1>2 DEF Frame
<1> HIDE DEF r
<1>4. r \in Frame /\ r.def = f.def /\ r.stage = f.stage /\ r.left = L /\ r.failed = failed
  BY <1>2, <1>3
<1> QED BY <1>4 DEF r, one, L, Answered

\* A reference that is resolved leaves the other calls, and the rest of the last one, as they are.
LEMMA ReceivedProps ==
  ASSUME NEW s \in Seq(Frame), s # <<>>, NEW d, NEW failed \in BOOLEAN
  PROVE  LET t == Received(s, d, failed)
         IN  /\ t \in Seq(Frame) /\ Len(t) = Len(s)
             /\ \A i \in 1..Len(s) : i # Len(s) => t[i] = s[i]
             /\ t[Len(s)].def = s[Len(s)].def /\ t[Len(s)].stage = s[Len(s)].stage
             /\ t[Len(s)].left = s[Len(s)].left \ {d} /\ t[Len(s)].failed = failed
<1> DEFINE n == Len(s)
           f == Answered(s[n], d, failed)
           t == Received(s, d, failed)
<1>1. n \in Nat \ {0} /\ n \in 1..n /\ s[n] \in Frame
  OBVIOUS
<1>2. /\ f \in Frame /\ f.def = s[n].def /\ f.stage = s[n].stage
      /\ f.left = s[n].left \ {d} /\ f.failed = failed
  BY <1>1, FrameReceived
<1>3. t = [s EXCEPT ![n] = f]
  <2> DEFINE one == [s[n] EXCEPT !.left = @ \ {d}]
             u == [s EXCEPT ![n] = one]
  <2>1. t = [u EXCEPT ![n] = [u[n] EXCEPT !.failed = failed]] /\ f = [one EXCEPT !.failed = failed]
    BY DEF Received, Answered
  <2> HIDE DEF one, f, t
  <2>2. DOMAIN s = 1..n /\ u[n] = one
    BY <1>1
  <2> QED BY <1>1, <2>1, <2>2
<1> HIDE DEF f, t
<1>4. t \in Seq(Frame) /\ Len(t) = n /\ \A j \in 1..n : t[j] = IF j = n THEN f ELSE s[j]
  BY <1>1, <1>2, <1>3, ExceptSeq
<1>5. t[n] = f
  BY <1>1, <1>4
<1> QED BY <1>2, <1>4, <1>5 DEF t

(***************************************************************************)
(* What each operation does to a stack of calls that is as it should be    *)
(***************************************************************************)
\* Entries that others store or complete are none of the calls' business.
LEMMA StackEvolves ==
  ASSUME NEW rf \in Refs, NEW cr \in Created, NEW new \in Created, NEW g, NEW s \in Seq(Frame), NEW w,
         GoodStack(rf, cr, g, s, w),
         \A i \in 1..Len(s) : s[i].stage = "finalizing" => new[s[i].def] = cr[s[i].def],
         \A e \in Defs : Ready(cr, e) => Ready(new, e)
  PROVE  GoodStack(rf, new, g, s, w)
<1>1. ASSUME NEW i \in 1..Len(s) PROVE GoodFrame(rf, new, g, s[i])
  <2>1. GoodFrame(rf, cr, g, s[i]) /\ s[i] \in Frame /\ rf[s[i].def] \subseteq Defs
    BY FrameType DEF GoodStack, Refs
  <2> HIDE DEF Ready
  <2> QED BY <2>1 DEF GoodFrame
<1> QED BY <1>1 DEF GoodStack

\* A call for a reference that the last call is resolving is pushed.
LEMMA StackPush ==
  ASSUME NEW rf \in Refs, NEW cr \in Created, NEW g, NEW s \in Seq(Frame), NEW d \in Defs,
         GoodStack(rf, cr, g, s, FALSE), NEW f \in Frame,
         f.def = d, f.stage = "new", f.left = rf[d],
         s # <<>> => Resolving(s[Len(s)]) /\ d \in s[Len(s)].left
  PROVE  GoodStack(rf, cr, g, Append(s, f), FALSE)
<1> DEFINE n == Len(s)
           t == Append(s, f)
<1>1. n \in Nat /\ Len(t) = n + 1 /\ t[n + 1] = f /\ \A i \in 1..n : t[i] = s[i] /\ i \in 1..Len(s)
  BY AppendProps
<1> HIDE DEF t
<1>2. \A i \in 1..Len(t) : i = n + 1 \/ (i \in 1..n /\ t[i] = s[i])
  BY <1>1
<1>3. GoodFrame(rf, cr, g, f)
  BY DEF GoodFrame
<1>4. \A i \in 1..Len(t) : GoodFrame(rf, cr, g, t[i])
  BY <1>1, <1>2, <1>3 DEF GoodStack
<1>5. \A i \in 1..Len(t) : i < Len(t) => Resolving(t[i])
  BY <1>1, <1>2 DEF GoodStack
<1>6. ASSUME NEW i \in 1..Len(t), NEW j \in 1..Len(t), i < j
      PROVE  /\ t[j].def \in ReachOf(rf, t[i].def)
             /\ t[j].stage = "finalizing" => t[i].def # t[j].def
  <2>1. CASE j \in 1..n
    BY <1>1, <1>6, <2>1 DEF GoodStack
  <2>2. CASE j = n + 1
    <3>1. i \in 1..n /\ n \in 1..n /\ t[i] = s[i] /\ t[j] = f /\ s[i] \in Frame /\ s[n] \in Frame /\ s # <<>>
      BY <1>1, <1>6, <2>2
    <3>2. d \in rf[s[n].def] /\ s[i].def \in Defs /\ s[n].def \in Defs
      BY <3>1 DEF GoodStack, GoodFrame, Frame
    <3>3. s[n].def = s[i].def \/ s[n].def \in ReachOf(rf, s[i].def)
      BY <3>1 DEF GoodStack
    <3>4. d \in ReachOf(rf, s[i].def)
      BY <3>2, <3>3, ReachProps
    <3> QED BY <3>1, <3>4
  <2> QED BY <1>2, <2>1, <2>2
<1> QED BY <1>4, <1>5, <1>6 DEF GoodStack, t

\* The last call returns, and the one under it goes on waiting for its answer.
LEMMA StackPop ==
  ASSUME NEW rf \in Refs, NEW cr \in Created, NEW g, NEW s \in Seq(Frame), s # <<>>, NEW w,
         GoodStack(rf, cr, g, s, w)
  PROVE  GoodStack(rf, cr, g, SubSeq(s, 1, Len(s) - 1), TRUE)
<1> DEFINE n == Len(s)
           t == SubSeq(s, 1, n - 1)
<1>1. n \in Nat \ {0} /\ Len(t) = n - 1 /\ \A i \in 1..(n - 1) : t[i] = s[i]
  BY PopProps
<1> HIDE DEF t
<1>2. \A i \in 1..Len(t) : i \in 1..n /\ i < n /\ t[i] = s[i]
  BY <1>1
<1> QED BY <1>2 DEF GoodStack, t

\* The last call begins to wait for the channel of a reference.
LEMMA StackWaits ==
  ASSUME NEW rf, NEW cr, NEW g, NEW s \in Seq(Frame), GoodStack(rf, cr, g, s, FALSE),
         s # <<>> => Resolving(s[Len(s)])
  PROVE  GoodStack(rf, cr, g, s, TRUE)
<1>1. \A i \in 1..Len(s) : i < Len(s) \/ (i = Len(s) /\ s # <<>>)
  OBVIOUS
<1> QED BY <1>1 DEF GoodStack

\* The last call gets the answer for d: an error, or an instance that is ready unless there are cycles.
LEMMA StackReceives ==
  ASSUME NEW rf \in Refs, NEW cr \in Created, NEW g, NEW s \in Seq(Frame), s # <<>>, NEW d,
         GoodStack(rf, cr, g, s, TRUE), NEW failed \in BOOLEAN,
         Cycleless(rf) /\ ~failed => Ready(cr, d)
  PROVE  GoodStack(rf, cr, g, Received(s, d, failed), FALSE)
<1> DEFINE n == Len(s)
           t == Received(s, d, failed)
<1>1. /\ n \in Nat \ {0} /\ n \in 1..n /\ Len(t) = n
      /\ \A i \in 1..n : i # n => t[i] = s[i]
      /\ t[n].def = s[n].def /\ t[n].stage = s[n].stage
      /\ t[n].left = s[n].left \ {d} /\ t[n].failed = failed
  BY ReceivedProps
<1> HIDE DEF t
<1>2. \A i \in 1..n : t[i].def = s[i].def /\ t[i].stage = s[i].stage
  BY <1>1
<1>3. GoodFrame(rf, cr, g, t[n])
  <2>1. GoodFrame(rf, cr, g, s[n]) /\ Resolving(s[n])
    BY <1>1 DEF GoodStack
  <2> HIDE DEF Ready, Cycleless
  <2> QED BY <1>1, <2>1 DEF GoodFrame, Resolving
<1>4. \A i \in 1..Len(t) : GoodFrame(rf, cr, g, t[i])
  BY <1>1, <1>3 DEF GoodStack
<1>5. \A i \in 1..Len(t) : i < Len(t) => Resolving(t[i])
  BY <1>1 DEF GoodStack
<1>6. \A i, j \in 1..Len(t) : i < j =>
        /\ t[j].def \in ReachOf(rf, t[i].def)
        /\ t[j].stage = "finalizing" => t[i].def # t[j].def
  BY <1>1, <1>2 DEF GoodStack
<1> QED BY <1>4, <1>5, <1>6 DEF GoodStack, t

\* The last call stores the entry of its definition and begins to finalize it.
LEMMA StackStores ==
  ASSUME NEW rf \in Refs, NEW cr \in Created, NEW new \in Created, NEW g, NEW s \in Seq(Frame), s # <<>>,
         NEW t \in Seq(Frame), GoodStack(rf, cr, g, s, FALSE), s[Len(s)].stage = "new",
         cr[s[Len(s)].def] = None, new[s[Len(s)].def] # None,
         new[s[Len(s)].def].by = g, ~new[s[Len(s)].def].done,
         \A d \in Defs : d # s[Len(s)].def => new[d] = cr[d],
         Len(t) = Len(s), \A i \in 1..Len(s) : i # Len(s) => t[i] = s[i],
         t[Len(s)].def = s[Len(s)].def, t[Len(s)].stage = "finalizing",
         t[Len(s)].left = s[Len(s)].left, t[Len(s)].failed = s[Len(s)].failed
  PROVE  GoodStack(rf, new, g, t, FALSE)
<1> DEFINE n == Len(s)
<1>1. n \in Nat \ {0} /\ n \in 1..n /\ s[n] \in Frame /\ s[n].def \in Defs
  <2>1. n \in Nat \ {0} /\ n \in 1..n
    OBVIOUS
  <2> QED BY <2>1, FrameType
<1>2. GoodStack(rf, new, g, s, FALSE)
  <2>1. ASSUME NEW i \in 1..Len(s), s[i].stage = "finalizing" PROVE new[s[i].def] = cr[s[i].def]
    <3>1. cr[s[i].def] # None /\ s[i].def \in Defs
      BY <2>1, FrameType DEF GoodStack, GoodFrame
    <3> QED BY <3>1
  <2>2. \A e \in Defs : Ready(cr, e) => Ready(new, e)
    BY DEF Ready
  <2> QED BY <2>1, <2>2, StackEvolves
<1>3. GoodFrame(rf, new, g, t[n])
  <2>1. s[n].left = rf[s[n].def]
    BY <1>1 DEF GoodStack, GoodFrame
  <2> QED BY <1>1, <2>1 DEF GoodFrame
<1>4. \A i \in 1..Len(t) : GoodFrame(rf, new, g, t[i])
  BY <1>1, <1>2, <1>3 DEF GoodStack
<1>5. \A i \in 1..Len(t) : i < Len(t) => Resolving(t[i])
  BY <1>1, <1>2 DEF GoodStack
<1>6. ASSUME NEW i \in 1..Len(t), NEW j \in 1..Len(t), i < j
      PROVE  /\ t[j].def \in ReachOf(rf, t[i].def)
             /\ t[j].stage = "finalizing" => t[i].def # t[j].def
  <2>1. i # n /\ t[i] = s[i] /\ i \in 1..n /\ j \in 1..n /\ t[j].def = s[j].def /\ i < n
    BY <1>1, <1>6
  <2>2. t[j].def \in ReachOf(rf, t[i].def)
    BY <1>6, <1>2, <2>1 DEF GoodStack
  <2>3. CASE j # n
    BY <1>6, <1>2, <2>1, <2>2, <2>3 DEF GoodStack
  <2>4. CASE j = n
    <3>1. cr[s[i].def] # None
      BY <2>1 DEF GoodStack, GoodFrame, Resolving
    <3> QED BY <2>1, <2>2, <2>4, <3>1
  <2> QED BY <2>3, <2>4
<1> QED BY <1>4, <1>5, <1>6 DEF GoodStack

(***************************************************************************)
(* Steps                                                                   *)
(***************************************************************************)
\* What g does to createdTypes: it stores entries and completes its own, once.
Evolves(g, new) ==
  /\ new \in Created
  /\ \A e \in Defs : created[e] # None => new[e] # None /\ new[e].by = created[e].by
  /\ \A e \in Defs : created[e] # None /\ (created[e].by # g \/ created[e].done) => new[e] = created[e]

\* The stacks of the other goroutines stay as they should be.
LEMMA OtherStacks ==
  ASSUME IInv, NEW g \in Goroutines, NEW new, Evolves(g, new), NEW h \in Goroutines, h # g
  PROVE  GoodStack(refs, new, h, stack[h], waits[h] # None)
<1>1. /\ refs \in Refs /\ created \in Created /\ new \in Created /\ stack[h] \in Seq(Frame)
      /\ GoodStack(refs, created, h, stack[h], waits[h] # None)
  BY ConstantsAssumption DEF IInv, TypeOK, Stacks, Refs, Created, Entry, Evolves
<1>2. ASSUME NEW i \in 1..Len(stack[h]), stack[h][i].stage = "finalizing"
      PROVE  new[stack[h][i].def] = created[stack[h][i].def]
  BY <1>1, <1>2, FrameType DEF GoodStack, GoodFrame, Evolves
<1>3. \A e \in Defs : Ready(created, e) => Ready(new, e)
  BY DEF Ready, Evolves
<1> QED BY <1>1, <1>2, <1>3, StackEvolves

\* What is delivered to a call or to the caller of newTypeImpl keeps the types.
LEMMA DeliverTypes ==
  ASSUME TypeOK, NEW g \in Goroutines, NEW callers \in Seq(Frame), NEW d \in Defs,
         NEW inst \in Goroutines \cup {"error"}, Deliver(g, callers, d, inst)
  PROVE  /\ result' \in [Goroutines -> Goroutines \cup {None, "error"}]
         /\ stack' \in [Goroutines -> Seq(Frame)]
         /\ fields' \in [Defs -> [Goroutines -> [Defs -> Goroutines \cup {None}]]]
         /\ stack'[g] = IF callers = <<>> THEN <<>> ELSE Received(callers, d, inst = "error")
         /\ \A h \in Goroutines : h # g => stack'[h] = stack[h]
<1>1. CASE callers = <<>>
  BY <1>1 DEF Deliver, TypeOK
<1>2. CASE callers # <<>>
  <2> DEFINE n == Len(callers)
  <2>1. Received(callers, d, inst = "error") \in Seq(Frame) /\ (inst = "error") \in BOOLEAN
    BY <1>2, ReceivedProps
  <2>2. n \in 1..n
    BY <1>2
  <2>3. callers[n].def \in Defs
    BY <2>2, FrameType
  <2>4. /\ result' = result
        /\ stack' = [stack EXCEPT ![g] = Received(callers, d, inst = "error")]
        /\ fields' = IF inst = "error" THEN fields ELSE [fields EXCEPT ![callers[n].def][g][d] = inst]
    BY <1>2 DEF Deliver
  <2> HIDE DEF n
  <2>5. fields' \in [Defs -> [Goroutines -> [Defs -> Goroutines \cup {None}]]]
    BY <2>3, <2>4 DEF TypeOK
  <2> QED BY <1>2, <2>1, <2>4, <2>5 DEF TypeOK
<1> QED BY <1>1, <1>2

\* Its stack stays as it should be if what is delivered is ready, and so do the others.
LEMMA DeliverStacks ==
  ASSUME IInv, NEW g \in Goroutines, NEW callers \in Seq(Frame), NEW d \in Defs,
         NEW inst \in Goroutines \cup {"error"}, Deliver(g, callers, d, inst),
         Evolves(g, created'), refs' = refs, waits' = [waits EXCEPT ![g] = None],
         GoodStack(refs, created', g, callers, TRUE),
         Cycleless(refs) /\ inst # "error" => Ready(created', d)
  PROVE  Stacks'
<1> SUFFICES ASSUME NEW h \in Goroutines
             PROVE  GoodStack(refs, created', h, stack'[h], waits'[h] # None)
  BY DEF Stacks
<1>1. CASE h # g
  <2>1. stack'[h] = stack[h] /\ waits'[h] = waits[h]
    BY <1>1, DeliverTypes DEF IInv, TypeOK
  <2> QED BY <1>1, <2>1, OtherStacks
<1>2. CASE h = g
  <2>1. (waits'[g] # None) = FALSE
    BY DEF IInv, TypeOK
  <2>2. stack'[g] = IF callers = <<>> THEN <<>> ELSE Received(callers, d, inst = "error")
    BY DeliverTypes DEF IInv
  <2>3. CASE callers = <<>>
    BY <1>2, <2>1, <2>2, <2>3 DEF GoodStack
  <2>4. CASE callers # <<>>
    <3> DEFINE failed == inst = "error"
    <3>1. refs \in Refs /\ created' \in Created /\ failed \in BOOLEAN
      BY ConstantsAssumption DEF IInv, TypeOK, Refs, Evolves
    <3>2. Cycleless(refs) /\ ~failed => Ready(created', d)
      OBVIOUS
    <3> HIDE DEF failed
    <3>3. GoodStack(refs, created', g, Received(callers, d, failed), FALSE)
      BY <2>4, <3>1, <3>2, StackReceives
    <3> QED BY <1>2, <2>1, <2>2, <2>4, <3>3 DEF failed
  <2> QED BY <2>3, <2>4
<1> QED BY <1>1, <1>2

\* A field gets the instance in createdTypes if that is what is delivered.
LEMMA DeliverFields ==
  ASSUME IInv, NEW g \in Goroutines, NEW callers \in Seq(Frame), NEW d \in Defs,
         NEW inst \in Goroutines \cup {"error"}, Deliver(g, callers, d, inst),
         Evolves(g, created'), GoodStack(refs, created', g, callers, TRUE),
         inst # "error" => created'[d] # None /\ created'[d].by = inst
  PROVE  Fields'
<1>1. CASE callers = <<>> \/ inst = "error"
  <2>1. fields' = fields
    BY <1>1 DEF Deliver
  <2> QED BY <2>1 DEF IInv, Fields, Evolves
<1>2. CASE callers # <<>> /\ inst # "error"
  <2> DEFINE n == Len(callers)
             c == callers[n].def
  <2>1. n \in 1..n
    BY <1>2
  <2>2. c \in Defs /\ created'[c] # None /\ created'[c].by = g
    BY <2>1, FrameType DEF GoodStack, GoodFrame, Resolving
  <2>3. fields' = [fields EXCEPT ![c][g][d] = inst]
    BY <1>2 DEF Deliver
  <2> HIDE DEF n, c
  <2>4. \A x, y \in Defs, h \in Goroutines :
          fields'[x][h][y] = IF x = c /\ h = g /\ y = d THEN inst ELSE fields[x][h][y]
    BY <2>2, <2>3 DEF IInv, TypeOK
  <2> QED BY <1>2, <2>2, <2>4 DEF IInv, Fields, Evolves
<1> QED BY <1>1, <1>2

\* Nothing changes what is ready, and what becomes ready refers to what is ready.
LEMMA ReadyKept ==
  ASSUME IInv, NEW g \in Goroutines, Evolves(g, created'), refs' = refs,
         ASSUME NEW d \in Defs, Cycleless(refs), Ready(created', d), ~Ready(created, d)
         PROVE  \A e \in refs[d] : Ready(created', e)
  PROVE  ReadyClosed'
<1>1. \A e \in Defs : Ready(created, e) => Ready(created', e)
  BY DEF Ready, Evolves
<1>2. \A d \in Defs : refs[d] \subseteq Defs
  BY ConstantsAssumption DEF IInv, TypeOK
<1> SUFFICES ASSUME Cycleless(refs), NEW d \in Defs, Ready(created', d), NEW e \in refs[d]
             PROVE  Ready(created', e)
  BY DEF ReadyClosed
<1>3. CASE Ready(created, d)
  BY <1>1, <1>2, <1>3 DEF IInv, ReadyClosed
<1>4. CASE ~Ready(created, d)
  BY <1>4
<1> QED BY <1>3, <1>4

\* An entry is not the lack of one.
LEMMA NoneEntry == None \notin Entry
  BY ConstantsAssumption DEF Entry

\* A step that leaves createdTypes alone is one that evolves it.
LEMMA SameEvolves == ASSUME IInv, NEW g, created' = created PROVE Evolves(g, created')
  BY DEF IInv, TypeOK, Evolves, Created, Entry

\* The entries a goroutine may wait for, and when one is an error.
LEMMA EntriesKept ==
  ASSUME IInv, NEW g \in Goroutines, Evolves(g, created'), NEW w \in Defs \cup {None},
         waits' = [waits EXCEPT ![g] = w], w # None => created'[w] # None,
         \A d \in Defs : created'[d] # None /\ created'[d].err => created'[d].done
  PROVE  Entries'
<1>1. \A h \in Goroutines : waits[h] \in Defs \cup {None} /\ waits'[h] = IF h = g THEN w ELSE waits[h]
  BY DEF IInv, TypeOK
<1> QED BY <1>1 DEF IInv, Entries, Evolves

\* The graph of references is one.
LEMMA RefsType == IInv => refs \in Refs /\ created \in Created /\ \A g \in Goroutines : stack[g] \in Seq(Frame)
  BY ConstantsAssumption DEF IInv, TypeOK, Refs, Created, Entry

\* newTypeImpl, and the resolution of a reference that is not being finalized: an entry is waited
\* for, or a creation begins.
LEMMA LookUpStep ==
  ASSUME IInv, NEW g \in Goroutines, NEW d \in Defs, LookUp(g, d), UNCHANGED <<refs, flaw>>,
         asked' \in [Goroutines -> Defs \cup {None}], waits[g] = None, stack[g] # <<>> => Resolving(Top(g)) /\ d \in Top(g).left
  PROVE  IInv'
<1>1. created' = created /\ result' = result /\ fields' = fields /\ Evolves(g, created')
  BY SameEvolves DEF LookUp
<1>2. Fields' /\ ReadyClosed'
  BY <1>1 DEF IInv, Fields, ReadyClosed
<1>3. refs \in Refs /\ created \in Created /\ stack[g] \in Seq(Frame) /\ refs[d] \subseteq Defs
  BY RefsType DEF Refs
<1>4. GoodStack(refs, created, g, stack[g], FALSE)
  BY DEF IInv, Stacks
<1>5. CASE created[d] # None
  <2>1. waits' = [waits EXCEPT ![g] = d] /\ stack' = stack
    BY <1>5 DEF LookUp
  <2>2. TypeOK' /\ d # None
    BY <1>1, <2>1, ConstantsAssumption DEF IInv, TypeOK
  <2>3. Entries'
    BY <1>1, <1>5, <2>1, EntriesKept DEF IInv, Entries
  <2>4. GoodStack(refs, created, g, stack[g], TRUE)
    BY <1>3, <1>4, StackWaits DEF Top
  <2>5. ASSUME NEW h \in Goroutines
        PROVE  GoodStack(refs, created, h, stack[h], waits'[h] # None)
    <3>1. CASE h = g
      <4>1. (waits'[h] # None) = TRUE
        BY <2>1, <2>2, <3>1 DEF IInv, TypeOK
      <4> QED BY <2>4, <3>1, <4>1
    <3>2. CASE h # g
      <4>1. waits'[h] = waits[h]
        BY <2>1, <3>2 DEF IInv, TypeOK
      <4> QED BY <4>1 DEF IInv, Stacks
    <3> QED BY <3>1, <3>2
  <2>6. Stacks'
    BY <1>1, <2>1, <2>5 DEF Stacks
  <2> QED BY <1>2, <2>2, <2>3, <2>6 DEF IInv
<1>6. CASE created[d] = None
  <2> DEFINE f == [def |-> d, stage |-> "new", left |-> refs[d], failed |-> FALSE]
             t == Append(stack[g], f)
  <2>1. waits' = waits /\ stack' = [stack EXCEPT ![g] = t]
    BY <1>6 DEF LookUp
  <2>2. f \in Frame
    BY <1>3 DEF Frame
  <2>3. GoodStack(refs, created, g, t, FALSE)
    BY <1>3, <1>4, <2>2, StackPush DEF Top
  <2>4. t \in Seq(Frame)
    BY <1>3, <2>2, AppendProps
  <2> HIDE DEF t
  <2>5. TypeOK' /\ Entries'
    BY <1>1, <2>1, <2>4 DEF IInv, TypeOK, Entries
  <2>6. ASSUME NEW h \in Goroutines
        PROVE  GoodStack(refs, created, h, stack'[h], waits[h] # None)
    <3>1. CASE h = g
      <4>1. (waits[h] # None) = FALSE /\ stack'[h] = t
        BY <2>1, <3>1 DEF IInv, TypeOK
      <4> QED BY <2>3, <3>1, <4>1
    <3>2. CASE h # g
      <4>1. stack'[h] = stack[h]
        BY <2>1, <3>2 DEF IInv, TypeOK
      <4> QED BY <4>1 DEF IInv, Stacks
    <3> QED BY <3>1, <3>2
  <2>7. Stacks'
    BY <1>1, <2>1, <2>6 DEF Stacks
  <2> QED BY <1>2, <2>5, <2>7 DEF IInv
<1> QED BY <1>5, <1>6

\* What an operation of g that delivers has to show: that the calls that are left are as they
\* should be, that what is delivered is in createdTypes, and that it is ready if it can be.
LEMMA DeliverStep ==
  ASSUME IInv, NEW g \in Goroutines, NEW callers \in Seq(Frame), NEW d \in Defs,
         NEW inst \in Goroutines \cup {"error"}, Deliver(g, callers, d, inst),
         UNCHANGED <<refs, flaw, asked>>, waits' = [waits EXCEPT ![g] = None],
         Evolves(g, created'), GoodStack(refs, created', g, callers, TRUE),
         inst # "error" => created'[d] # None /\ created'[d].by = inst,
         Cycleless(refs) /\ inst # "error" => Ready(created', d),
         \A e \in Defs : created'[e] # None /\ created'[e].err => created'[e].done,
         ASSUME NEW e \in Defs, Cycleless(refs), Ready(created', e), ~Ready(created, e)
         PROVE  \A x \in refs[e] : Ready(created', x)
  PROVE  IInv'
<1>1. TypeOK'
  BY DeliverTypes DEF IInv, TypeOK, Evolves, Created, Entry
<1>2. Entries'
  BY EntriesKept
<1>3. Stacks'
  BY DeliverStacks
<1>4. Fields'
  BY DeliverFields
<1>5. ReadyClosed'
  BY ReadyKept
<1> QED BY <1>1, <1>2, <1>3, <1>4, <1>5 DEF IInv

\* The call on top of a stack, and the ones under it.
LEMMA TopProps ==
  ASSUME IInv, NEW g \in Goroutines, stack[g] # <<>>
  PROVE  /\ Len(stack[g]) \in 1..Len(stack[g])
         /\ Top(g).def \in Defs /\ Top(g).failed \in BOOLEAN
         /\ GoodFrame(refs, created, g, Top(g))
         /\ Below(g) \in Seq(Frame) /\ GoodStack(refs, created, g, Below(g), TRUE)
<1> DEFINE n == Len(stack[g])
<1>1. refs \in Refs /\ created \in Created /\ stack[g] \in Seq(Frame)
  BY RefsType
<1>2. n \in 1..n
  BY <1>1
<1>3. GoodStack(refs, created, g, stack[g], waits[g] # None)
  BY DEF IInv, Stacks
<1>4. Top(g).def \in Defs /\ Top(g).failed \in BOOLEAN
  BY <1>1, <1>2, FrameType DEF Top
<1>5. GoodFrame(refs, created, g, Top(g))
  BY <1>2, <1>3 DEF Top, GoodStack
<1>6. Below(g) \in Seq(Frame)
  BY <1>1, PopProps DEF Below
<1>7. GoodStack(refs, created, g, Below(g), TRUE)
  BY <1>1, <1>3, StackPop DEF Below
<1> QED BY <1>2, <1>4, <1>5, <1>6, <1>7

\* LoadDataAndNew fails.
LEMMA LoadFailsStep == ASSUME IInv, NEW g \in Goroutines, LoadFails(g) PROVE IInv'
<1>1. /\ stack[g] # <<>> /\ created' = created /\ UNCHANGED <<refs, flaw, asked>>
      /\ Deliver(g, Below(g), Top(g).def, "error")
      /\ waits' = [waits EXCEPT ![g] = None]
  BY DEF LoadFails, Running, IInv, TypeOK
<1>2. Evolves(g, created')
  BY <1>1, SameEvolves
<1> QED BY <1>1, <1>2, TopProps, DeliverStep DEF IInv, Entries

\* A goroutine that waits goes on when the channel is closed.
LEMMA WaitStep == ASSUME IInv, NEW g \in Goroutines, Wait(g) PROVE IInv'
<1> DEFINE w == waits[g]
           inst == IF created[w].err THEN "error" ELSE created[w].by
<1>1. /\ created' = created /\ UNCHANGED <<refs, flaw, asked>>
      /\ Deliver(g, stack[g], w, inst) /\ waits' = [waits EXCEPT ![g] = None]
      /\ w # None /\ created[w].done
  BY DEF Wait
<1>2. Evolves(g, created')
  BY <1>1, SameEvolves
<1>3. w \in Defs /\ created[w] \in Entry /\ created[w] # None
  BY <1>1 DEF IInv, TypeOK, Entries, Entry
<1>4. created[w].err \in BOOLEAN /\ created[w].by \in Goroutines
  BY <1>3 DEF Entry
<1>5. stack[g] \in Seq(Frame) /\ GoodStack(refs, created, g, stack[g], TRUE)
  <2>1. (waits[g] # None) = TRUE
    BY <1>1
  <2> QED BY <2>1, RefsType DEF IInv, Stacks
<1>6. /\ inst \in Goroutines \cup {"error"}
      /\ inst # "error" => inst = created[w].by /\ Ready(created, w)
  BY <1>1, <1>3, <1>4 DEF Ready
<1> HIDE DEF w, inst
<1> QED BY <1>1, <1>2, <1>3, <1>5, <1>6, DeliverStep DEF IInv, Entries

\* The typeDefResolver: what is being finalized is delivered as it is, which needs a cycle.
LEMMA ResolveStep == ASSUME IInv, NEW g \in Goroutines, NEW d \in Defs, Resolve(g, d) PROVE IInv'
<1> DEFINE s == stack[g]
           n == Len(s)
<1>1. /\ s # <<>> /\ waits[g] = None /\ Top(g).stage = "finalizing" /\ ~Top(g).failed /\ d \in Top(g).left
      /\ UNCHANGED <<refs, flaw, asked>>
  BY DEF Resolve, Running
<1>2. CASE d \notin Finalizing(g)
  <2>1. LookUp(g, d)
    BY <1>2 DEF Resolve
  <2> QED BY <1>1, <2>1, LookUpStep DEF Resolving, IInv, TypeOK
<1>3. CASE d \in Finalizing(g)
  <2>1. created' = created /\ Deliver(g, s, d, g) /\ waits' = [waits EXCEPT ![g] = None]
    BY <1>1, <1>3 DEF Resolve, IInv, TypeOK
  <2>2. Evolves(g, created')
    BY <2>1, SameEvolves
  <2>3. s \in Seq(Frame) /\ refs \in Refs /\ created \in Created /\ GoodStack(refs, created, g, s, FALSE)
    BY <1>1, RefsType DEF IInv, Stacks
  <2>4. GoodStack(refs, created, g, s, TRUE)
    BY <1>1, <2>3, StackWaits DEF Top, Resolving
  <2>5. PICK i \in 1..n : s[i].def = d
    BY <1>3 DEF Finalizing
  <2>6. created[d] # None /\ created[d].by = g
    BY <2>4, <2>5 DEF GoodStack, GoodFrame, Resolving
  <2>7. ~Cycleless(refs)
    <3>1. n \in 1..n /\ s[n] = Top(g) /\ s[n].def \in Defs
      BY <1>1, TopProps DEF Top
    <3>2. d \in refs[s[n].def]
      BY <1>1, <2>3, <3>1 DEF GoodStack, GoodFrame
    <3>3. s[n].def = d \/ s[n].def \in ReachOf(refs, d)
      BY <2>3, <2>5, <3>1 DEF GoodStack
    <3>4. d \in ReachOf(refs, d)
      BY <2>3, <3>1, <3>2, <3>3, ReachProps
    <3> QED BY <3>4 DEF Cycleless
  <2> HIDE DEF s
  <2> QED BY <1>1, <2>1, <2>2, <2>3, <2>4, <2>6, <2>7, DeliverStep DEF IInv, Entries
<1> QED BY <1>2, <1>3

\* LoadOrStore: who comes second waits for who came first.
LEMMA LoadOrStoreStep == ASSUME IInv, NEW g \in Goroutines, LoadOrStore(g) PROVE IInv'
<1> DEFINE s == stack[g]
           n == Len(s)
           d == Top(g).def
<1>1. /\ s # <<>> /\ waits[g] = None /\ Top(g).stage = "new" /\ result' = result /\ fields' = fields
      /\ UNCHANGED <<refs, flaw, asked>>
  BY DEF LoadOrStore, Running
<1>2. /\ s \in Seq(Frame) /\ refs \in Refs /\ created \in Created /\ GoodStack(refs, created, g, s, FALSE)
      /\ n \in 1..n /\ d \in Defs /\ d # None
  BY <1>1, RefsType, TopProps, ConstantsAssumption DEF IInv, Stacks
<1>3. CASE created[d] # None
  <2>1. created' = created /\ waits' = [waits EXCEPT ![g] = d] /\ stack' = [stack EXCEPT ![g] = Below(g)]
    BY <1>3 DEF LoadOrStore
  <2>2. Below(g) \in Seq(Frame) /\ GoodStack(refs, created, g, Below(g), TRUE)
    BY <1>1, TopProps
  <2> HIDE DEF d
  <2>3. TypeOK' /\ Fields' /\ ReadyClosed'
    BY <1>1, <1>2, <2>1, <2>2 DEF IInv, TypeOK, Fields, ReadyClosed
  <2>4. Evolves(g, created')
    BY <2>1, SameEvolves
  <2>5. Entries'
    BY <1>2, <1>3, <2>1, <2>4, EntriesKept DEF IInv, Entries
  <2>6. ASSUME NEW h \in Goroutines
        PROVE  GoodStack(refs, created, h, stack'[h], waits'[h] # None)
    <3>1. CASE h = g
      <4>1. (waits'[h] # None) = TRUE /\ stack'[h] = Below(g)
        BY <1>2, <2>1, <3>1 DEF IInv, TypeOK
      <4> QED BY <2>2, <3>1, <4>1
    <3>2. CASE h # g
      <4>1. waits'[h] = waits[h] /\ stack'[h] = stack[h]
        BY <2>1, <3>2 DEF IInv, TypeOK
      <4> QED BY <4>1 DEF IInv, Stacks
    <3> QED BY <3>1, <3>2
  <2>7. Stacks'
    BY <1>1, <2>1, <2>6 DEF Stacks
  <2> QED BY <2>3, <2>5, <2>7 DEF IInv
<1>4. CASE created[d] = None
  <2> DEFINE e == [by |-> g, done |-> FALSE, err |-> FALSE]
             f == [s[n] EXCEPT !.stage = "finalizing"]
             t == [s EXCEPT ![n] = f]
  <2>1. waits' = waits /\ created' = [created EXCEPT ![d] = e] /\ stack' = [stack EXCEPT ![g] = t]
    BY <1>2, <1>4 DEF LoadOrStore, Top, IInv, TypeOK
  <2>2. e \in Entry /\ e # None /\ e.by = g /\ ~e.done /\ ~e.err
    <3>1. e \in Entry /\ e.by = g /\ ~e.done /\ ~e.err
      BY DEF Entry
    <3> HIDE DEF e
    <3> QED BY <3>1, NoneEntry
  <2>3. /\ f \in Frame /\ f.stage = "finalizing" /\ f.def = s[n].def /\ f.left = s[n].left
        /\ f.failed = s[n].failed
    <3>1. s[n] \in Frame
      BY <1>2
    <3> HIDE DEF s
    <3> QED BY <3>1 DEF Frame
  <2> HIDE DEF e, f
  <2>4. t \in Seq(Frame) /\ Len(t) = n /\ \A j \in 1..n : t[j] = IF j = n THEN f ELSE s[j]
    BY <1>2, <2>3, ExceptSeq
  <2>5. t[n] = f /\ \A j \in 1..n : j # n => t[j] = s[j]
    BY <1>2, <2>4
  <2> HIDE DEF t
  <2>6. /\ created' \in Created /\ created'[d] = e
        /\ \A x \in Defs : x # d => created'[x] = created[x]
    BY <1>2, <2>1, <2>2 DEF Created
  <2>7. Evolves(g, created')
    BY <1>4, <2>6 DEF Evolves
  <2>8. TypeOK'
    BY <1>1, <2>1, <2>4, <2>6 DEF IInv, TypeOK, Created, Entry
  <2>9. Entries'
    BY <2>1, <2>2, <2>6 DEF IInv, Entries, TypeOK
  <2>10. Fields'
    BY <1>1, <2>7 DEF IInv, Fields, Evolves
  <2>11. ReadyClosed'
    <3>1. \A x \in Defs : Ready(created', x) => Ready(created, x)
      BY <1>2, <2>2, <2>6 DEF Ready
    <3> QED BY <1>1, <2>7, <3>1, ReadyKept
  <2>12. GoodStack(refs, created', g, t, FALSE)
    <3>1. s[n].def = d /\ s[n].stage = "new"
      BY <1>1 DEF Top
    <3> HIDE DEF s, d
    <3> QED BY <1>1, <1>2, <1>4, <2>2, <2>3, <2>4, <2>5, <2>6, <3>1, StackStores
  <2>13. ASSUME NEW h \in Goroutines
         PROVE  GoodStack(refs, created', h, stack'[h], waits[h] # None)
    <3>1. CASE h = g
      <4>1. (waits[h] # None) = FALSE /\ stack'[h] = t
        BY <1>1, <2>1, <3>1 DEF IInv, TypeOK
      <4> QED BY <2>12, <3>1, <4>1
    <3>2. CASE h # g
      <4>1. stack'[h] = stack[h]
        BY <2>1, <3>2 DEF IInv, TypeOK
      <4> QED BY <2>7, <3>2, <4>1, OtherStacks
    <3> QED BY <3>1, <3>2
  <2>14. Stacks'
    BY <1>1, <2>1, <2>13 DEF Stacks
  <2> QED BY <2>8, <2>9, <2>10, <2>11, <2>14 DEF IInv
<1> QED BY <1>3, <1>4

\* Closing the channel of the entry on top of a stack changes that entry alone.
LEMMA CloseEvolves ==
  ASSUME IInv, NEW g \in Goroutines, stack[g] # <<>>, Top(g).stage = "finalizing",
         NEW e \in Entry, e.by = g, created' = [created EXCEPT ![Top(g).def] = e]
  PROVE  /\ Evolves(g, created') /\ created' \in Created /\ created'[Top(g).def] = e /\ e # None
         /\ \A x \in Defs : x # Top(g).def => created'[x] = created[x]
<1> DEFINE d == Top(g).def
<1>1. created \in Created /\ d \in Defs /\ GoodFrame(refs, created, g, Top(g))
  BY RefsType, TopProps
<1>2. created[d] # None /\ created[d].by = g /\ ~created[d].done
  BY <1>1 DEF GoodFrame
<1>3. created' = [created EXCEPT ![d] = e] /\ e # None
  BY NoneEntry
<1> HIDE DEF d
<1>4. /\ created' \in Created /\ created'[d] = e
      /\ \A x \in Defs : x # d => created'[x] = created[x]
  BY <1>1, <1>3 DEF Created
<1>5. Evolves(g, created')
  BY <1>1, <1>2, <1>3, <1>4 DEF Evolves
<1> QED BY <1>3, <1>4, <1>5 DEF d

\* What holds when the call on top of a stack closes the channel of its own entry.
LEMMA CloseStep ==
  ASSUME IInv, NEW g \in Goroutines, stack[g] # <<>>, waits[g] = None, Top(g).stage = "finalizing",
         NEW e \in Entry, e.by = g, e.done, created' = [created EXCEPT ![Top(g).def] = e],
         NEW inst \in {g, "error"}, Deliver(g, Below(g), Top(g).def, inst),
         UNCHANGED <<refs, flaw, asked, waits>>,
         Cycleless(refs) /\ inst # "error" => ~e.err,
         ~e.err => ~Top(g).failed /\ Top(g).left = {}
  PROVE  IInv'
<1> DEFINE s == stack[g]
           n == Len(s)
           d == Top(g).def
           b == Below(g)
<1>1. /\ s \in Seq(Frame) /\ refs \in Refs /\ created \in Created /\ n \in 1..n /\ d \in Defs
      /\ GoodFrame(refs, created, g, Top(g)) /\ b \in Seq(Frame) /\ GoodStack(refs, created, g, b, TRUE)
  BY RefsType, TopProps
<1>2. created[d] # None /\ created[d].by = g /\ ~created[d].done
  BY <1>1 DEF GoodFrame
<1>3. /\ created' \in Created /\ created'[d] = e /\ e # None
      /\ \A x \in Defs : x # d => created'[x] = created[x]
  BY CloseEvolves
<1>4. Evolves(g, created')
  BY CloseEvolves
<1>5. \A x \in Defs : Ready(created, x) => Ready(created', x)
  BY <1>4 DEF Ready, Evolves
<1>6. GoodStack(refs, created', g, b, TRUE)
  <2>1. ASSUME NEW i \in 1..Len(b) PROVE created'[b[i].def] = created[b[i].def]
    <3>1. Len(b) = n - 1 /\ b[i] = s[i] /\ i \in 1..n /\ i < n /\ b[i].def \in Defs
      BY <1>1, PopProps, FrameType DEF Below
    <3>2. s[i].def # s[n].def
      BY <1>1, <3>1 DEF IInv, Stacks, GoodStack, Top
    <3> QED BY <1>3, <3>1, <3>2 DEF Top
  <2> HIDE DEF b
  <2> QED BY <1>1, <1>3, <1>5, <2>1, StackEvolves
<1>7. Cycleless(refs) /\ ~e.err => \A x \in refs[d] : Ready(created', x)
  <2>1. refs[d] \subseteq Defs
    BY <1>1 DEF Refs
  <2> QED BY <1>1, <1>5, <2>1 DEF GoodFrame
<1>8. \A x \in Defs : Ready(created', x) /\ ~Ready(created, x) => x = d /\ ~e.err
  BY <1>1, <1>3 DEF Ready
<1>9. Cycleless(refs) /\ inst # "error" => Ready(created', d)
  BY <1>3 DEF Ready
<1>10. \A x \in Defs : created'[x] # None /\ created'[x].err => created'[x].done
  BY <1>3 DEF IInv, Entries
<1>11. waits' = [waits EXCEPT ![g] = None]
  BY DEF IInv, TypeOK
<1> HIDE DEF b, d
<1>12. Deliver(g, b, d, inst) /\ (inst # "error" => created'[d] # None /\ created'[d].by = inst)
  BY <1>3 DEF b, d
<1> QED BY <1>1, <1>4, <1>6, <1>7, <1>8, <1>9, <1>10, <1>11, <1>12, DeliverStep

\* The type is complete.
LEMMA CompleteStep == ASSUME IInv, NEW g \in Goroutines, Complete(g) PROVE IInv'
<1> DEFINE d == Top(g).def
           e == [created[d] EXCEPT !.done = TRUE]
<1>1. /\ stack[g] # <<>> /\ waits[g] = None /\ Top(g).stage = "finalizing"
      /\ ~Top(g).failed /\ Top(g).left = {}
      /\ created' = [created EXCEPT ![d] = e] /\ Deliver(g, Below(g), d, g)
      /\ UNCHANGED <<refs, flaw, asked, waits>>
  BY DEF Complete, Running
<1>2. d \in Defs /\ created[d] # None /\ created[d].by = g /\ ~created[d].done
  BY <1>1, TopProps DEF GoodFrame
<1>3. created[d] \in Entry /\ ~created[d].err
  BY <1>2, RefsType DEF Created, IInv, Entries
<1>4. e \in Entry /\ e.by = created[d].by /\ e.done /\ e.err = created[d].err
  <2> DEFINE c == created[d]
  <2> HIDE DEF c
  <2>1. c \in Entry
    BY <1>3 DEF c
  <2>2. LET k == [c EXCEPT !.done = TRUE] IN k \in Entry /\ k.by = c.by /\ k.done /\ k.err = c.err
    BY <2>1 DEF Entry
  <2> QED BY <2>2 DEF c
<1> HIDE DEF e
<1> QED BY <1>1, <1>2, <1>3, <1>4, CloseStep

\* The finalization of the type, or of what it refers to, has failed.
LEMMA CompleteWithErrorStep == ASSUME IInv, NEW g \in Goroutines, CompleteWithError(g) PROVE IInv'
<1> DEFINE d == Top(g).def
           e == [created[d] EXCEPT !.done = TRUE, !.err = TRUE]
<1>1. /\ stack[g] # <<>> /\ waits[g] = None /\ Top(g).stage = "finalizing"
      /\ created' = [created EXCEPT ![d] = e] /\ Deliver(g, Below(g), d, "error")
      /\ UNCHANGED <<refs, flaw, asked, waits>>
  BY DEF CompleteWithError, Running
<1>2. d \in Defs /\ created[d] # None /\ created[d].by = g
  BY <1>1, TopProps DEF GoodFrame
<1>3. created[d] \in Entry
  BY <1>2, RefsType DEF Created
<1>4. e \in Entry /\ e.by = created[d].by /\ e.done /\ e.err
  <2> DEFINE c == created[d]
  <2> HIDE DEF c
  <2>1. c \in Entry
    BY <1>3 DEF c
  <2>2. LET k == [c EXCEPT !.done = TRUE, !.err = TRUE] IN k \in Entry /\ k.by = c.by /\ k.done /\ k.err
    BY <2>1 DEF Entry
  <2> QED BY <2>2 DEF c
<1> HIDE DEF e
<1> QED BY <1>1, <1>2, <1>3, <1>4, CloseStep

(***************************************************************************)
(* What the caller of newTypeImpl gets.  The first call on the stack of a  *)
(* goroutine is for the definition it asked for; with no call on its stack *)
(* it waits for that definition; and what it got is the stored instance.   *)
(***************************************************************************)
AsksOf(g) ==
  /\ stack[g] # <<>> => stack[g][1].def = asked[g]
  /\ stack[g] = <<>> /\ waits[g] # None => waits[g] = asked[g]
  /\ result[g] \notin {None, "error"} =>
       asked[g] \in Defs /\ Ready(created, asked[g]) /\ result[g] = created[asked[g]].by

Asks == \A g \in Goroutines : AsksOf(g)

\* What a goroutine got stays the instance of the definition.
LEMMA ResultKept ==
  ASSUME IInv, Asks, NEW g \in Goroutines, Evolves(g, created'), NEW h \in Goroutines,
         result'[h] = result[h], asked'[h] = asked[h]
  PROVE  result'[h] \notin {None, "error"} =>
           asked'[h] \in Defs /\ Ready(created', asked'[h]) /\ result'[h] = created'[asked'[h]].by
BY DEF Asks, AsksOf, Ready, Evolves

\* It is enough to look at the goroutine that takes the step.
LEMMA AsksFrom ==
  ASSUME IInv, Asks, NEW g \in Goroutines, Evolves(g, created'), AsksOf(g)',
         \A h \in Goroutines : h # g => /\ stack'[h] = stack[h] /\ waits'[h] = waits[h]
                                       /\ result'[h] = result[h] /\ asked'[h] = asked[h]
  PROVE  Asks'
<1> SUFFICES ASSUME NEW h \in Goroutines, h # g PROVE AsksOf(h)'
  BY DEF Asks
<1>1. result'[h] \notin {None, "error"} =>
        asked'[h] \in Defs /\ Ready(created', asked'[h]) /\ result'[h] = created'[asked'[h]].by
  BY ResultKept
<1> QED BY <1>1 DEF Asks, AsksOf, Ready

\* The first call stays when the last one returns; when it was the only one, it was for what was
\* asked.
LEMMA BelowAsks ==
  ASSUME IInv, Asks, NEW g \in Goroutines, stack[g] # <<>>
  PROVE  /\ Below(g) \in Seq(Frame)
         /\ Below(g) # <<>> => Below(g)[1].def = asked[g]
         /\ Below(g) = <<>> => Top(g).def = asked[g]
<1> DEFINE s == stack[g]
<1>1. s \in Seq(Frame) /\ s # <<>> /\ Len(s) \in Nat \ {0} /\ s[1].def = asked[g]
  BY RefsType DEF Asks, AsksOf
<1>2. /\ Below(g) \in Seq(Frame) /\ Len(Below(g)) = Len(s) - 1
      /\ \A i \in 1..(Len(s) - 1) : Below(g)[i] = s[i]
  BY <1>1, PopProps DEF Below
<1>3. CASE Below(g) = <<>>
  <2>1. Len(s) = 1
    BY <1>1, <1>2, <1>3
  <2> QED BY <1>1, <1>2, <1>3, <2>1 DEF Top
<1>4. CASE Below(g) # <<>>
  <2>1. 1 \in 1..(Len(s) - 1)
    BY <1>1, <1>2, <1>4
  <2> QED BY <1>1, <1>2, <1>4, <2>1
<1> QED BY <1>3, <1>4

\* What is delivered to the caller of newTypeImpl is the instance of what it asked for.
LEMMA AsksDeliver ==
  ASSUME IInv, Asks, NEW g \in Goroutines, NEW callers \in Seq(Frame), NEW d \in Defs,
         NEW inst \in Goroutines \cup {"error"}, Deliver(g, callers, d, inst), asked' = asked,
         waits' = [waits EXCEPT ![g] = None], Evolves(g, created'),
         callers # <<>> => callers[1].def = asked[g],
         callers = <<>> => d = asked[g],
         callers = <<>> /\ inst # "error" => Ready(created', d) /\ created'[d].by = inst
  PROVE  Asks'
<1>1. /\ stack'[g] = IF callers = <<>> THEN <<>> ELSE Received(callers, d, inst = "error")
      /\ \A h \in Goroutines : h # g => stack'[h] = stack[h]
  BY DeliverTypes DEF IInv
<1>2. \A h \in Goroutines : waits'[h] = IF h = g THEN None ELSE waits[h]
  BY DEF IInv, TypeOK
<1>3. \A h \in Goroutines : result'[h] = IF h = g /\ callers = <<>> THEN inst ELSE result[h]
  BY DEF Deliver, IInv, TypeOK
<1>4. stack'[g] # <<>> => stack'[g][1].def = asked[g]
  <2> SUFFICES ASSUME callers # <<>> PROVE Received(callers, d, inst = "error")[1].def = asked[g]
    BY <1>1
  <2> DEFINE failed == inst = "error"
             t == Received(callers, d, failed)
  <2>1. failed \in BOOLEAN
    OBVIOUS
  <2> HIDE DEF failed
  <2>2. /\ \A i \in 1..Len(callers) : i # Len(callers) => t[i] = callers[i]
        /\ t[Len(callers)].def = callers[Len(callers)].def
    BY <2>1, ReceivedProps
  <2>3. 1 \in 1..Len(callers)
    OBVIOUS
  <2>4. t[1].def = callers[1].def
    BY <2>2, <2>3
  <2> QED BY <2>4 DEF failed
<1>5. result'[g] \notin {None, "error"} =>
        asked'[g] \in Defs /\ Ready(created', asked'[g]) /\ result'[g] = created'[asked'[g]].by
  <2>1. CASE callers = <<>>
    BY <1>3, <2>1
  <2>2. CASE callers # <<>>
    <3>1. result'[g] = result[g]
      BY <1>3, <2>2
    <3> QED BY <3>1, ResultKept
  <2> QED BY <2>1, <2>2
<1>6. AsksOf(g)'
  BY <1>2, <1>4, <1>5 DEF AsksOf, Ready
<1> QED BY <1>1, <1>2, <1>3, <1>6, AsksFrom

\* newTypeImpl, and a reference that is looked up.
LEMMA AsksLookUp ==
  ASSUME IInv, Asks, NEW g \in Goroutines, NEW d \in Defs, LookUp(g, d), waits[g] = None,
         \A h \in Goroutines : h # g => asked'[h] = asked[h],
         stack[g] # <<>> => asked'[g] = asked[g],
         stack[g] = <<>> => asked'[g] = d /\ result[g] = None
  PROVE  Asks'
<1>1. created' = created /\ result' = result /\ Evolves(g, created')
  BY SameEvolves DEF LookUp
<1>2. result'[g] \notin {None, "error"} =>
        asked'[g] \in Defs /\ Ready(created', asked'[g]) /\ result'[g] = created'[asked'[g]].by
  <2>1. CASE stack[g] = <<>>
    BY <1>1, <2>1
  <2>2. CASE stack[g] # <<>>
    BY <1>1, <2>2, ResultKept
  <2> QED BY <2>1, <2>2
<1>3. CASE created[d] # None
  <2>1. stack' = stack /\ \A h \in Goroutines : waits'[h] = IF h = g THEN d ELSE waits[h]
    BY <1>3 DEF LookUp, IInv, TypeOK
  <2>2. AsksOf(g)'
    BY <1>2, <2>1 DEF Asks, AsksOf, Ready
  <2> QED BY <1>1, <2>1, <2>2, AsksFrom
<1>4. CASE created[d] = None
  <2> DEFINE f == [def |-> d, stage |-> "new", left |-> refs[d], failed |-> FALSE]
             t == Append(stack[g], f)
  <2>1. waits' = waits /\ \A h \in Goroutines : stack'[h] = IF h = g THEN t ELSE stack[h]
    BY <1>4 DEF LookUp, IInv, TypeOK
  <2>2. f \in Frame /\ f.def = d /\ stack[g] \in Seq(Frame)
    BY RefsType DEF Frame, Refs
  <2> HIDE DEF f
  <2>3. /\ Len(t) = Len(stack[g]) + 1 /\ t[Len(stack[g]) + 1] = f /\ t # <<>>
        /\ \A i \in 1..Len(stack[g]) : t[i] = stack[g][i]
    BY <2>2, AppendProps
  <2> HIDE DEF t
  <2>4. t[1].def = asked'[g]
    <3>1. CASE stack[g] = <<>>
      BY <2>2, <2>3, <3>1
    <3>2. CASE stack[g] # <<>>
      <4>1. 1 \in 1..Len(stack[g])
        BY <2>2, <3>2
      <4> QED BY <2>3, <3>2, <4>1 DEF Asks, AsksOf
    <3> QED BY <3>1, <3>2
  <2>5. AsksOf(g)'
    BY <1>2, <2>1, <2>3, <2>4 DEF AsksOf, Ready
  <2> QED BY <1>1, <2>1, <2>5, AsksFrom
<1> QED BY <1>3, <1>4

\* LoadOrStore: who comes second waits for the definition that its call was for.
LEMMA AsksLoadOrStore == ASSUME IInv, Asks, NEW g \in Goroutines, LoadOrStore(g) PROVE Asks'
<1> DEFINE s == stack[g]
           n == Len(s)
           d == Top(g).def
<1>1. s # <<>> /\ waits[g] = None /\ result' = result /\ asked' = asked
  BY DEF LoadOrStore, Running
<1>2. s \in Seq(Frame) /\ created \in Created /\ n \in 1..n /\ 1 \in 1..n /\ d \in Defs
  <2>1. s \in Seq(Frame) /\ created \in Created /\ d \in Defs
    BY <1>1, RefsType, TopProps
  <2>2. n \in 1..n /\ 1 \in 1..n
    BY <1>1, <2>1
  <2> QED BY <2>1, <2>2
<1>3. CASE created[d] # None
  <2>1. created' = created /\ Evolves(g, created')
    BY <1>3, SameEvolves DEF LoadOrStore
  <2>2. /\ \A h \in Goroutines : waits'[h] = IF h = g THEN d ELSE waits[h]
        /\ \A h \in Goroutines : stack'[h] = IF h = g THEN Below(g) ELSE stack[h]
    BY <1>3 DEF LoadOrStore, IInv, TypeOK
  <2>3. AsksOf(g)'
    <3> HIDE DEF d
    <3> QED BY <1>1, <2>1, <2>2, BelowAsks, ResultKept DEF AsksOf, Ready, d
  <2> QED BY <1>1, <2>1, <2>2, <2>3, AsksFrom
<1>4. CASE created[d] = None
  <2> DEFINE e == [by |-> g, done |-> FALSE, err |-> FALSE]
             t == [s EXCEPT ![n].stage = "finalizing"]
  <2>1. /\ waits' = waits /\ created' = [created EXCEPT ![d] = e]
        /\ \A h \in Goroutines : stack'[h] = IF h = g THEN t ELSE stack[h]
    BY <1>2, <1>4 DEF LoadOrStore, IInv, TypeOK
  <2>2. e \in Entry
    BY DEF Entry
  <2> HIDE DEF e, d
  <2>3. Evolves(g, created')
    BY <1>2, <1>4, <2>1, <2>2 DEF Evolves, Created
  <2>4. t # <<>> /\ t[1].def = s[1].def
    <3>1. t[1] = IF n = 1 THEN [s[1] EXCEPT !.stage = "finalizing"] ELSE s[1]
      BY <1>2
    <3>2. s[1] \in Frame
      BY <1>2
    <3>3. [s[1] EXCEPT !.stage = "finalizing"].def = s[1].def
      BY <3>2 DEF Frame
    <3> QED BY <1>2, <3>1, <3>3
  <2> HIDE DEF t
  <2>5. AsksOf(g)'
    BY <1>1, <2>1, <2>3, <2>4, ResultKept DEF Asks, AsksOf, Ready
  <2> QED BY <1>1, <2>1, <2>3, <2>5, AsksFrom
<1> QED BY <1>3, <1>4

\* The channel of the entry on top is closed, with an error or without.
LEMMA AsksClose ==
  ASSUME IInv, Asks, NEW g \in Goroutines, stack[g] # <<>>, waits[g] = None, Top(g).stage = "finalizing",
         NEW e \in Entry, e.by = g, e.done, created' = [created EXCEPT ![Top(g).def] = e],
         NEW inst \in {g, "error"}, Deliver(g, Below(g), Top(g).def, inst), inst # "error" => ~e.err,
         UNCHANGED <<asked, waits>>
  PROVE  Asks'
<1>1. Evolves(g, created') /\ created'[Top(g).def] = e /\ e # None /\ Top(g).def \in Defs
  BY CloseEvolves, TopProps
<1>2. waits' = [waits EXCEPT ![g] = None]
  BY DEF IInv, TypeOK
<1>3. inst # "error" => Ready(created', Top(g).def) /\ created'[Top(g).def].by = inst
  BY <1>1 DEF Ready
<1> QED BY <1>1, <1>2, <1>3, BelowAsks, AsksDeliver

\* Whatever a goroutine does.
LEMMA AsksStep == IInv /\ Asks /\ [Next]_vars => Asks'
<1> SUFFICES ASSUME IInv, Asks, [Next]_vars PROVE Asks'
  OBVIOUS
<1>1. ASSUME NEW g \in Goroutines, NEW d \in Defs, NewType(g, d) PROVE Asks'
  <2>1. \A h \in Goroutines : asked'[h] = IF h = g THEN d ELSE asked[h]
    BY <1>1 DEF NewType, IInv, TypeOK
  <2> QED BY <1>1, <2>1, AsksLookUp DEF NewType, Idle
<1>2. ASSUME NEW g \in Goroutines, LoadFails(g) PROVE Asks'
  <2>1. /\ stack[g] # <<>> /\ created' = created /\ asked' = asked
        /\ Deliver(g, Below(g), Top(g).def, "error") /\ waits' = [waits EXCEPT ![g] = None]
    BY <1>2 DEF LoadFails, Running, IInv, TypeOK
  <2> QED BY <2>1, SameEvolves, BelowAsks, TopProps, AsksDeliver
<1>3. ASSUME NEW g \in Goroutines, Wait(g) PROVE Asks'
  <2> DEFINE w == waits[g]
             inst == IF created[w].err THEN "error" ELSE created[w].by
  <2>1. /\ created' = created /\ asked' = asked /\ Deliver(g, stack[g], w, inst)
        /\ waits' = [waits EXCEPT ![g] = None] /\ w # None /\ created[w].done
    BY <1>3 DEF Wait
  <2>2. w \in Defs /\ created[w] \in Entry /\ created[w] # None /\ stack[g] \in Seq(Frame)
    BY <2>1 DEF IInv, TypeOK, Entries, Entry
  <2>3. /\ inst \in Goroutines \cup {"error"}
        /\ inst # "error" => Ready(created', w) /\ created'[w].by = inst
    BY <2>1, <2>2 DEF Ready, Entry
  <2>4. /\ stack[g] # <<>> => stack[g][1].def = asked[g]
        /\ stack[g] = <<>> => w = asked[g]
    BY <2>1 DEF Asks, AsksOf
  <2> HIDE DEF w, inst
  <2> QED BY <2>1, <2>2, <2>3, <2>4, SameEvolves, AsksDeliver
<1>4. ASSUME NEW g \in Goroutines, NEW d \in Defs, Resolve(g, d) PROVE Asks'
  <2>1. stack[g] # <<>> /\ waits[g] = None /\ asked' = asked
    BY <1>4 DEF Resolve, Running
  <2>2. CASE d \notin Finalizing(g)
    <3>1. LookUp(g, d)
      BY <1>4, <2>2 DEF Resolve
    <3> QED BY <2>1, <3>1, AsksLookUp
  <2>3. CASE d \in Finalizing(g)
    <3>1. created' = created /\ Deliver(g, stack[g], d, g) /\ waits' = [waits EXCEPT ![g] = None]
      BY <1>4, <2>1, <2>3 DEF Resolve, IInv, TypeOK
    <3>2. stack[g] \in Seq(Frame) /\ stack[g][1].def = asked[g]
      BY <2>1, RefsType DEF Asks, AsksOf
    <3> QED BY <2>1, <3>1, <3>2, SameEvolves, AsksDeliver
  <2> QED BY <2>2, <2>3
<1>5. ASSUME NEW g \in Goroutines, Complete(g) PROVE Asks'
  <2> DEFINE c == created[Top(g).def]
             e == [c EXCEPT !.done = TRUE]
  <2>1. /\ stack[g] # <<>> /\ waits[g] = None /\ Top(g).stage = "finalizing"
        /\ created' = [created EXCEPT ![Top(g).def] = e] /\ Deliver(g, Below(g), Top(g).def, g)
        /\ UNCHANGED <<asked, waits>>
    BY <1>5 DEF Complete, Running
  <2>2. c \in Entry /\ c.by = g /\ ~c.err
    <3>1. Top(g).def \in Defs /\ c # None /\ c.by = g /\ ~c.done
      BY <2>1, TopProps DEF GoodFrame
    <3> QED BY <3>1, RefsType DEF Created, IInv, Entries
  <2> HIDE DEF c
  <2>3. e \in Entry /\ e.by = c.by /\ e.done /\ e.err = c.err
    BY <2>2 DEF Entry
  <2> HIDE DEF e
  <2> QED BY <2>1, <2>2, <2>3, AsksClose
<1>6. ASSUME NEW g \in Goroutines, CompleteWithError(g) PROVE Asks'
  <2> DEFINE c == created[Top(g).def]
             e == [c EXCEPT !.done = TRUE, !.err = TRUE]
  <2>1. /\ stack[g] # <<>> /\ waits[g] = None /\ Top(g).stage = "finalizing"
        /\ created' = [created EXCEPT ![Top(g).def] = e] /\ Deliver(g, Below(g), Top(g).def, "error")
        /\ UNCHANGED <<asked, waits>>
    BY <1>6 DEF CompleteWithError, Running
  <2>2. c \in Entry /\ c.by = g
    <3>1. Top(g).def \in Defs /\ c # None /\ c.by = g
      BY <2>1, TopProps DEF GoodFrame
    <3> QED BY <3>1, RefsType DEF Created
  <2> HIDE DEF c
  <2>3. e \in Entry /\ e.by = c.by /\ e.done
    BY <2>2 DEF Entry
  <2> HIDE DEF e
  <2> QED BY <2>1, <2>2, <2>3, AsksClose
<1>7. CASE UNCHANGED vars
  BY <1>7 DEF vars, Asks, AsksOf, Ready
<1> QED BY <1>1, <1>2, <1>3, <1>4, <1>5, <1>6, <1>7, AsksLoadOrStore DEF Next, Step

(***************************************************************************)
(* Theorems                                                                *)
(***************************************************************************)
\* Before any type is asked for.
LEMMA IInvInit == Init => IInv
<1> SUFFICES ASSUME Init PROVE IInv
  OBVIOUS
<1>1. TypeOK
  BY ConstantsAssumption DEF Init, TypeOK
<1>2. Entries /\ Fields /\ ReadyClosed
  BY ConstantsAssumption DEF Init, Entries, Fields, ReadyClosed, Ready
<1>3. Stacks
  BY DEF Init, Stacks, GoodStack
<1> QED BY <1>1, <1>2, <1>3 DEF IInv

\* Whatever a goroutine does.
LEMMA IInvStep == IInv /\ [Next]_vars => IInv'
<1> SUFFICES ASSUME IInv, [Next]_vars PROVE IInv'
  OBVIOUS
<1>1. ASSUME NEW g \in Goroutines, NEW d \in Defs, NewType(g, d) PROVE IInv'
  <2>1. asked' \in [Goroutines -> Defs \cup {None}]
    BY <1>1 DEF NewType, IInv, TypeOK
  <2> QED BY <1>1, <2>1, LookUpStep DEF NewType, Idle
<1>2. CASE UNCHANGED vars
  BY <1>2 DEF vars, IInv, TypeOK, Entries, Stacks, Fields, ReadyClosed
<1> QED BY <1>1, <1>2, LoadFailsStep, LoadOrStoreStep, WaitStep, CompleteStep, CompleteWithErrorStep,
           ResolveStep DEF Next, Step

\* The invariant holds of every state of every behavior.
LEMMA Invariance == Spec => []IInv
  BY IInvInit, IInvStep, PTL DEF Spec

\* createdTypes, the calls and the fields are of the shapes that TypeOK says, whatever newTypeImpl
\* and the resolvers are called for.
THEOREM TypeCorrect == Spec => []TypeOK
<1>1. IInv => TypeOK
  BY DEF IInv
<1> QED BY <1>1, Invariance, PTL

\* Callers get what they asked for, in every state of every behavior.
LEMMA AsksInvariance == Spec => []Asks
<1>1. Init => Asks
  BY DEF Init, Asks, AsksOf
<1> QED BY <1>1, AsksStep, Invariance, PTL DEF Spec

\* newTypeImpl: every caller that gets an instance, and every field of every type, gets the one
\* stored instance of the definition it asked for or refers to, for any number of goroutines and
\* any graph of definitions, with cycles and failures.
THEOREM OneInstanceCorrect == Spec => []OneInstance
<1>1. IInv /\ Asks => OneInstance
  <2> SUFFICES ASSUME IInv, Asks PROVE OneInstance
    OBVIOUS
  <2>1. ASSUME NEW d \in Defs, NEW h \in Goroutines, fields[d][h] # [e \in Defs |-> None]
        PROVE  created[d] # None /\ created[d].by = h
    <3>1. \E e \in Defs : fields[d][h][e] # None
      BY <2>1 DEF IInv, TypeOK
    <3> QED BY <3>1 DEF IInv, Fields
  <2>2. \A g \in Goroutines : result[g] \notin {None, "error"} =>
          Ready(created, asked[g]) /\ result[g] = created[asked[g]].by
    BY DEF Asks, AsksOf
  <2> QED BY <2>1, <2>2 DEF OneInstance, IInv, Fields, Ready
<1> QED BY <1>1, Invariance, AsksInvariance, PTL

\* Finalize and complete: if the definitions form no cycle, a type whose channel is closed without an
\* error refers, directly or not, only to types that are complete, for any graph of any size.
THEOREM CompleteCorrect == Spec => []CompleteUnlessCyclic
<1>1. IInv => CompleteUnlessCyclic
  <2> SUFFICES ASSUME IInv, Cycleless(refs), NEW d \in Defs, Ready(created, d)
               PROVE  \A e \in ReachOf(refs, d) : Ready(created, e)
    BY ReachSame DEF CompleteUnlessCyclic, Ready
  <2> DEFINE S == {e \in Defs : Ready(created, e)}
  <2>1. refs \in Refs /\ \A x \in Defs : refs[x] \subseteq Defs
    BY RefsType DEF Refs
  <2>2. refs[d] \subseteq S /\ \A x \in S : refs[x] \subseteq S
    BY <2>1 DEF IInv, ReadyClosed
  <2>3. ReachOf(refs, d) \subseteq S
    BY <2>1, <2>2, ReachLeast
  <2> QED BY <2>3
<1> QED BY <1>1, Invariance, PTL
=============================================================================
