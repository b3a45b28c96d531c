-------------------------- MODULE ExecutionProofs --------------------------
(***************************************************************************)
(* Proofs about the execution of an operation, for every tree of result     *)
(* nodes, every choice of non-null positions and every interleaving of the  *)
(* goroutine with the completion of futures: the types, Referenced,         *)
(* SerialFields, PanicsAfterError and NullsExplained.                       *)
(*                                                                         *)
(* In order: the tree; the invariant; pushing, dropping and replacing       *)
(* frames; completing a node; the calls that lead to that; the steps of     *)
(* the specification; the theorems.                                        *)
(***************************************************************************)
EXTENDS Execution, FiniteSetTheorems, SequenceTheorems, TLAPS

(***************************************************************************)
(* The tree.  Parent, Anc, Owner and the walk of propagateExecutionError    *)
(* are defined by recursion towards the root.  That such functions exist    *)
(* is shown by giving them without recursion: Above(n) is the least set     *)
(* with the parent of n that is closed under Parent.                        *)
(***************************************************************************)
Above(n) ==
  {a \in Nodes : \A S \in SUBSET Nodes :
     (n # Root => Parent[n] \in S) /\ (\A m \in S \ {Root} : Parent[m] \in S) => a \in S}

\* A child has the parent it is a child of, and every node but the root is a child.
LEMMA KidFacts ==
  ASSUME NEW p \in Nodes, NEW i \in DOMAIN Kids[p]
  PROVE  Kids[p][i] \in Nodes /\ Kids[p][i] # Root /\ Parent[Kids[p][i]] = p
<1>1. Kids[p] \in Seq(Nodes \ {Root})
  BY TreeAssumption
<1>2. Kids[p][i] \in Nodes \ {Root}
  BY <1>1
<1> DEFINE k == Kids[p][i]
<1>3. \A q \in Nodes : (\E j \in DOMAIN Kids[q] : Kids[q][j] = k) <=> q = p
  BY NestingAssumption
<1>4. (CHOOSE q \in Nodes : \E j \in DOMAIN Kids[q] : Kids[q][j] = k) = p
  BY <1>3, Zenon
<1> QED
  BY <1>2, <1>4 DEF Parent

\* The other way round: a node but the root is a child of its parent.
LEMMA ParentFacts ==
  ASSUME NEW n \in Nodes \ {Root}
  PROVE  Parent[n] \in Nodes /\ \E i \in DOMAIN Kids[Parent[n]] : Kids[Parent[n]][i] = n
<1> DEFINE S == {Root} \cup {m \in Nodes : \E p \in Nodes : \E i \in DOMAIN Kids[p] : Kids[p][i] = m}
<1>1. S \in SUBSET Nodes /\ Root \in S
  BY TreeAssumption
<1>2. \A p \in S : \A i \in DOMAIN Kids[p] : Kids[p][i] \in S
  BY KidFacts, <1>1
<1>3. S = Nodes
  BY <1>1, <1>2, NestingAssumption, Zenon
<1>4. PICK p \in Nodes : \E i \in DOMAIN Kids[p] : Kids[p][i] = n
  BY <1>3
<1>5. PICK i \in DOMAIN Kids[p] : Kids[p][i] = n
  BY <1>4
<1> QED
  BY <1>5, KidFacts

\* Nothing is above the root.
LEMMA AboveRoot == Above(Root) = {}
<1>1. \A m \in {} \ {Root} : Parent[m] \in {}
  OBVIOUS
<1>2. SUFFICES ASSUME NEW a \in Above(Root) PROVE FALSE
  OBVIOUS
<1> QED
  BY <1>1, <1>2, Zenon DEF Above

\* What is above a node: its parent, and what is above that.
LEMMA AboveStep ==
  ASSUME NEW n \in Nodes \ {Root}
  PROVE  Above(n) = {Parent[n]} \cup Above(Parent[n])
<1> DEFINE p == Parent[n]
<1>0. p \in Nodes
  BY ParentFacts
<1>1. ASSUME NEW a \in {p} \cup Above(p) PROVE a \in Above(n)
  <2>0. a \in Nodes
    BY <1>0, <1>1 DEF Above
  <2>1. SUFFICES ASSUME NEW S \in SUBSET Nodes, p \in S, \A m \in S \ {Root} : Parent[m] \in S
                 PROVE  a \in S
    BY <2>0 DEF Above
  <2>2. p # Root => Parent[p] \in S
    BY <2>1
  <2> QED
    BY <1>1, <2>1, <2>2 DEF Above
<1>2. ASSUME NEW a \in Above(n) PROVE a \in {p} \cup Above(p)
  <2> DEFINE S == {p} \cup Above(p)
  <2>1. S \in SUBSET Nodes
    BY <1>0 DEF Above
  <2>2. ASSUME NEW m \in S \ {Root} PROVE Parent[m] \in S
    <3>0. Parent[m] \in Nodes
      BY <2>1, ParentFacts
    <3>1. CASE m = p
      <4>1. p # Root
        BY <3>1
      <4> QED
        BY <3>0, <3>1, <4>1 DEF Above
    <3>2. CASE m \in Above(p)
      <4> QED
        BY <3>0, <3>2 DEF Above
    <3> QED
      BY <3>1, <3>2
  <2> QED
    BY <1>2, <2>1, <2>2 DEF Above
<1> QED
  BY <1>1, <1>2

\* The ancestors of a node: its parent and its parent's ancestors.
LEMMA AncDef == Anc = [n \in Nodes |-> IF n = Root THEN {} ELSE {Parent[n]} \cup Anc[Parent[n]]]
<1> DEFINE f == [n \in Nodes |-> Above(n)]
           Fix(g) == g = [n \in Nodes |-> IF n = Root THEN {} ELSE {Parent[n]} \cup g[Parent[n]]]
<1>1. Fix(f)
  <2>1. ASSUME NEW n \in Nodes
        PROVE  f[n] = IF n = Root THEN {} ELSE {Parent[n]} \cup f[Parent[n]]
    BY AboveRoot, AboveStep, ParentFacts
  <2> QED
    BY <2>1
<1>2. Anc = CHOOSE g : Fix(g)
  BY DEF Anc
<1> HIDE DEF f, Fix
<1>3. Fix(Anc)
  BY <1>1, <1>2
<1> QED
  BY <1>3 DEF Fix

\* The two cases of Anc
LEMMA AncStep ==
  /\ Anc[Root] = {}
  /\ \A n \in Nodes \ {Root} : Anc[n] = {Parent[n]} \cup Anc[Parent[n]]
BY AncDef, TreeAssumption

\* Induction over the tree.
LEMMA FromRoot ==
  ASSUME NEW S \in SUBSET Nodes, Root \in S,
         \A n \in Nodes \ {Root} : Parent[n] \in S => n \in S
  PROVE  S = Nodes
<1>1. ASSUME NEW p \in S, NEW i \in DOMAIN Kids[p] PROVE Kids[p][i] \in S
  <2>1. p \in Nodes
    OBVIOUS
  <2>2. Kids[p][i] \in Nodes \ {Root} /\ Parent[Kids[p][i]] = p
    BY <2>1, KidFacts
  <2> QED
    BY <2>2
<1> QED
  BY <1>1, NestingAssumption, Zenon

\* Ancestors are nodes.
LEMMA AncInNodes == \A n \in Nodes : Anc[n] \subseteq Nodes
<1> DEFINE S == {n \in Nodes : Anc[n] \subseteq Nodes}
<1>1. Root \in S
  BY AncStep, TreeAssumption
<1>2. \A n \in Nodes \ {Root} : Parent[n] \in S => n \in S
  BY AncStep, ParentFacts
<1>3. S = Nodes
  <2> HIDE DEF S
  <2>1. S \in SUBSET Nodes
    BY DEF S
  <2> QED
    BY <1>1, <1>2, <2>1, FromRoot
<1> QED
  BY <1>3

\* An ancestor of an ancestor is an ancestor.
LEMMA AncTransitive ==
  ASSUME NEW n \in Nodes, NEW b \in Anc[n], NEW a \in Anc[b]
  PROVE  a \in Anc[n]
<1> DEFINE S == {m \in Nodes : \A x \in Anc[m] : Anc[x] \subseteq Anc[m]}
<1>1. Root \in S
  BY AncStep, TreeAssumption
<1>2. ASSUME NEW m \in Nodes \ {Root}, Parent[m] \in S PROVE m \in S
  <2>1. Anc[m] = {Parent[m]} \cup Anc[Parent[m]]
    BY AncStep
  <2>2. \A x \in Anc[Parent[m]] : Anc[x] \subseteq Anc[Parent[m]]
    BY <1>2
  <2> QED
    BY <2>1, <2>2
<1>3. S = Nodes
  <2> HIDE DEF S
  <2>1. S \in SUBSET Nodes
    BY DEF S
  <2> QED
    BY <1>1, <1>2, <2>1, FromRoot
<1> QED
  BY <1>3

\* No node is its own ancestor: the tree has no cycle.
LEMMA AncIrreflexive == \A n \in Nodes : n \notin Anc[n]
<1> DEFINE S == {n \in Nodes : n \notin Anc[n]}
<1>1. Root \in S
  BY AncStep, TreeAssumption
<1>2. ASSUME NEW n \in Nodes \ {Root}, Parent[n] \in S PROVE n \in S
  <2>1. SUFFICES ASSUME n \in Anc[n] PROVE FALSE
    OBVIOUS
  <2>2. Anc[n] = {Parent[n]} \cup Anc[Parent[n]] /\ Parent[n] \in Nodes /\ Parent[n] \notin Anc[Parent[n]]
    BY <1>2, AncStep
  <2>3. n \in Anc[Parent[n]]
    BY <2>1, <2>2
  <2>4. Parent[n] \in Anc[n]
    BY <2>2
  <2> QED
    BY <2>2, <2>3, <2>4, AncTransitive
<1>3. S = Nodes
  <2> HIDE DEF S
  <2>1. S \in SUBSET Nodes
    BY DEF S
  <2> QED
    BY <1>1, <1>2, <2>1, FromRoot
<1> QED
  BY <1>3

-----------------------------------------------------------------------------
(* The owner of a node *)

\* The candidates for the owner of n: fields above which n hangs by elements only.
Owners(n) ==
  {f \in Anc[n] \cup {n} : /\ ~IsElement(f)
                           /\ \A m \in (Anc[n] \cup {n}) \ (Anc[f] \cup {f}) : IsElement(m)}

\* A field is completed by its own task.
LEMMA OwnersOfField ==
  ASSUME NEW n \in Nodes, ~IsElement(n)
  PROVE  Owners(n) = {n}
<1>1. n \in Owners(n)
  BY DEF Owners
<1>2. ASSUME NEW f \in Owners(n), f # n PROVE FALSE
  <2>1. f \in Anc[n] /\ f \in Nodes
    BY <1>2, AncInNodes DEF Owners
  <2>2. n \in Anc[f]
    BY <1>2 DEF Owners
  <2> QED
    BY <2>1, <2>2, AncTransitive, AncIrreflexive
<1> QED
  BY <1>1, <1>2

\* An element is completed by the task that completes its list.
LEMMA OwnersOfElement ==
  ASSUME NEW n \in Nodes, IsElement(n)
  PROVE  Owners(n) = Owners(Parent[n])
<1>1. n # Root /\ Parent[n] \in Nodes /\ Anc[n] = {Parent[n]} \cup Anc[Parent[n]]
  BY AncStep, ParentFacts DEF IsElement
<1>2. ASSUME NEW f \in Owners(n) PROVE f \in Owners(Parent[n])
  <2>1. f # n
    BY <1>2 DEF Owners
  <2> QED
    BY <1>1, <1>2, <2>1 DEF Owners
<1>3. ASSUME NEW f \in Owners(Parent[n]) PROVE f \in Owners(n)
  BY <1>1, <1>3 DEF Owners
<1> QED
  BY <1>2, <1>3

\* The owner of a field is itself, that of an element is the owner of its list.
LEMMA OwnerDef == Owner = [n \in Nodes |-> IF IsElement(n) THEN Owner[Parent[n]] ELSE n]
<1> DEFINE f == [n \in Nodes |-> CHOOSE x \in Owners(n) : TRUE]
           Fix(g) == g = [n \in Nodes |-> IF IsElement(n) THEN g[Parent[n]] ELSE n]
<1>1. Fix(f)
  <2>1. ASSUME NEW n \in Nodes
        PROVE  f[n] = IF IsElement(n) THEN f[Parent[n]] ELSE n
    <3>1. CASE IsElement(n)
      <4>1. Parent[n] \in Nodes
        BY <3>1, ParentFacts DEF IsElement
      <4>2. Owners(n) = Owners(Parent[n])
        BY <3>1, OwnersOfElement
      <4> QED
        BY <3>1, <4>1, <4>2
    <3>2. CASE ~IsElement(n)
      <4>1. Owners(n) = {n}
        BY <3>2, OwnersOfField
      <4> QED
        BY <3>2, <4>1
    <3> QED
      BY <3>1, <3>2
  <2> QED
    BY <2>1
<1>2. Owner = CHOOSE g : Fix(g)
  BY DEF Owner
<1> HIDE DEF f, Fix
<1>3. Fix(Owner)
  BY <1>1, <1>2
<1> QED
  BY <1>3 DEF Fix

\* The owner of a node is a field at or above it.
LEMMA OwnerFacts ==
  ASSUME NEW n \in Nodes
  PROVE  /\ Owner[n] \in Nodes /\ ~IsElement(Owner[n])
         /\ Owner[n] = n \/ Owner[n] \in Anc[n]
         /\ ~IsElement(n) => Owner[n] = n
         /\ IsElement(n) => Owner[n] = Owner[Parent[n]]
<1> DEFINE Good(m) == Owner[m] \in Nodes /\ ~IsElement(Owner[m]) /\ (Owner[m] = m \/ Owner[m] \in Anc[m])
           S == {m \in Nodes : Good(m)}
<1>0. \A m \in Nodes : Owner[m] = IF IsElement(m) THEN Owner[Parent[m]] ELSE m
  BY OwnerDef
<1>1. Root \in S
  BY <1>0, TreeAssumption DEF IsElement
<1>2. ASSUME NEW m \in Nodes \ {Root}, Parent[m] \in S PROVE m \in S
  <2>1. Anc[m] = {Parent[m]} \cup Anc[Parent[m]]
    BY AncStep
  <2>2. CASE IsElement(m)
    BY <1>0, <1>2, <2>1, <2>2
  <2>3. CASE ~IsElement(m)
    BY <1>0, <2>3
  <2> QED
    BY <2>2, <2>3
<1>3. S = Nodes
  <2> HIDE DEF S
  <2>1. S \in SUBSET Nodes
    BY DEF S
  <2> QED
    BY <1>1, <1>2, <2>1, FromRoot
<1> QED
  BY <1>0, <1>3

-----------------------------------------------------------------------------
(* Propagation *)

\* The ancestors of n that are reached through nodes which reject null.
Reached(n) ==
  {a \in Anc[n] : \A b \in ({n} \cup Anc[n]) \ ({a} \cup Anc[a]) : ShouldRejectNull(b)}

\* The walk of propagateExecutionError, one step up
LEMMA ReachedStep ==
  ASSUME NEW n \in Nodes
  PROVE  Reached(n) = IF ShouldRejectNull(n) THEN {Parent[n]} \cup Reached(Parent[n]) ELSE {}
<1>1. CASE ~ShouldRejectNull(n)
  <2>1. ASSUME NEW a \in Reached(n) PROVE FALSE
    <3>1. a \in Anc[n] /\ a \in Nodes /\ a # n
      BY AncInNodes, AncIrreflexive DEF Reached
    <3>2. n \in Anc[a]
      BY <1>1, <2>1, <3>1 DEF Reached
    <3> QED
      BY <3>1, <3>2, AncTransitive, AncIrreflexive
  <2> QED
    BY <1>1, <2>1
<1>2. CASE ShouldRejectNull(n)
  <2>1. n # Root /\ Parent[n] \in Nodes /\ Anc[n] = {Parent[n]} \cup Anc[Parent[n]]
    BY <1>2, AncStep, ParentFacts DEF ShouldRejectNull
  <2>2. ASSUME NEW a \in Reached(n), a # Parent[n] PROVE a \in Reached(Parent[n])
    BY <2>1, <2>2 DEF Reached
  <2>3. Parent[n] \in Reached(n)
    BY <1>2, <2>1 DEF Reached
  <2>4. ASSUME NEW a \in Reached(Parent[n]) PROVE a \in Reached(n)
    BY <1>2, <2>1, <2>4 DEF Reached
  <2> QED
    BY <1>2, <2>2, <2>3, <2>4
<1> QED
  BY <1>1, <1>2

\* propagateExecutionError visits ancestors only.
LEMMA PropagatedAbove ==
  ASSUME NEW n \in Nodes
  PROVE  Propagated(n) \subseteq Anc[n]
<1> DEFINE f == [m \in Nodes |-> Reached(m)]
           Fix(g) == g = [m \in Nodes |-> IF ShouldRejectNull(m) THEN {Parent[m]} \cup g[Parent[m]] ELSE {}]
           up == CHOOSE g : Fix(g)
<1>1. Fix(f)
  <2>1. ASSUME NEW m \in Nodes
        PROVE  f[m] = IF ShouldRejectNull(m) THEN {Parent[m]} \cup f[Parent[m]] ELSE {}
    BY ReachedStep, ParentFacts DEF ShouldRejectNull
  <2> QED
    BY <2>1
<1>2. Propagated(n) = up[n]
  BY DEF Propagated
<1> HIDE DEF f, Fix
<1>3. Fix(up)
  BY <1>1
<1> HIDE DEF up
<1> DEFINE S == {m \in Nodes : up[m] \subseteq Anc[m]}
<1>4. \A m \in Nodes : up[m] = IF ShouldRejectNull(m) THEN {Parent[m]} \cup up[Parent[m]] ELSE {}
  BY <1>3 DEF Fix
<1>5. Root \in S
  BY <1>4, TreeAssumption DEF ShouldRejectNull
<1>6. ASSUME NEW m \in Nodes \ {Root}, Parent[m] \in S PROVE m \in S
  <2>1. Anc[m] = {Parent[m]} \cup Anc[Parent[m]] /\ up[Parent[m]] \subseteq Anc[Parent[m]]
    BY <1>6, AncStep
  <2>2. CASE ShouldRejectNull(m)
    BY <1>4, <2>1, <2>2
  <2>3. CASE ~ShouldRejectNull(m)
    BY <1>4, <2>3
  <2> QED
    BY <2>2, <2>3
<1>7. S = Nodes
  <2> HIDE DEF S
  <2>1. S \in SUBSET Nodes
    BY DEF S
  <2> QED
    BY <1>5, <1>6, <2>1, FromRoot
<1> QED
  BY <1>2, <1>7

-----------------------------------------------------------------------------
(* Order in the tree *)

\* Neither of the two is at or below the other.
Incomparable(x, y) == ~Below(x, y) /\ ~Below(y, x)

\* Below is transitive.
LEMMA BelowTransitive ==
  ASSUME NEW x \in Nodes, NEW y \in Nodes, NEW z \in Nodes, Below(x, y), Below(y, z)
  PROVE  Below(x, z)
BY AncTransitive DEF Below

\* What is at or above n is not at or below a node incomparable with n.
LEMMA Elsewhere ==
  ASSUME NEW n \in Nodes, NEW w \in Nodes, Incomparable(n, w), NEW x \in {n} \cup Anc[n]
  PROVE  x # w /\ ~Below(x, w)
<1>1. x \in Nodes /\ Below(n, x)
  BY AncInNodes DEF Below
<1>2. ~Below(x, w)
  BY <1>1, BelowTransitive DEF Incomparable
<1> QED
  BY <1>2 DEF Below

\* A child hangs below its parent, and its siblings elsewhere.
LEMMA Siblings ==
  ASSUME NEW p \in Nodes, NEW i \in DOMAIN Kids[p], NEW j \in DOMAIN Kids[p], i # j
  PROVE  Incomparable(Kids[p][i], Kids[p][j])
<1> DEFINE x == Kids[p][i]
           y == Kids[p][j]
<1>1. x \in Nodes \ {Root} /\ y \in Nodes \ {Root} /\ Parent[x] = p /\ Parent[y] = p
  BY KidFacts
<1>2. x # y
  BY NestingAssumption
<1>3. Anc[x] = {p} \cup Anc[p] /\ Anc[y] = {p} \cup Anc[p]
  BY <1>1, AncStep
<1>4. x \notin Anc[x] /\ y \notin Anc[y]
  BY <1>1, AncIrreflexive
<1> QED
  BY <1>2, <1>3, <1>4 DEF Incomparable, Below

\* What is incomparable with a node is so with its children.
LEMMA KidIncomparable ==
  ASSUME NEW p \in Nodes, NEW j \in DOMAIN Kids[p], NEW w \in Nodes, Incomparable(p, w)
  PROVE  Incomparable(Kids[p][j], w)
<1> DEFINE x == Kids[p][j]
<1>1. x \in Nodes \ {Root} /\ Parent[x] = p
  BY KidFacts
<1>2. Anc[x] = {p} \cup Anc[p]
  BY <1>1, AncStep
<1>3. ~Below(x, w)
  <2>1. x # w
    BY <1>2 DEF Incomparable, Below
  <2> QED
    BY <1>2, <2>1 DEF Incomparable, Below
<1>4. ~Below(w, x)
  BY <1>1, <1>2, BelowTransitive DEF Incomparable, Below
<1> QED
  BY <1>3, <1>4 DEF Incomparable

LEMMA IncomparableSymmetric ==
  ASSUME NEW x, NEW y, Incomparable(x, y) PROVE Incomparable(y, x)
BY DEF Incomparable

\* The ancestors of a child
LEMMA AncOfKid ==
  ASSUME NEW p \in Nodes, NEW j \in DOMAIN Kids[p]
  PROVE  Anc[Kids[p][j]] = {p} \cup Anc[p]
BY KidFacts, AncStep

-----------------------------------------------------------------------------
(***************************************************************************)
(* The invariant.  It is about the frames of the stack: which nodes they    *)
(* have still to complete, and what is known of those.  Its parts take the  *)
(* stack s and the values kd, as, rf, er, nl of kind, asy, refs, errs and   *)
(* nulls as parameters.  Beside the calls of the model there is the frame   *)
(* InHand(n), which is never on the stack: it stands for the node whose     *)
(* value a step has just got and completes.                                *)
(***************************************************************************)
Frames ==
  [op : {"execute", "fields", "run", "hand", "queue", "elements", "release", "poll", "publish",
         "value", "yield", "tryDispatch", "dispatch", "drain"},
   n : Nodes, i : Nat \ {0}, queue : Seq(Nodes)]

\* The frame of the node in hand
InHand(n) == Call("hand", n)

\* Frame f has still to complete node m.
Waits(f, m) ==
  \/ f.op \in {"execute", "run", "value", "hand"} /\ m = f.n
  \/ f.op \in {"fields", "elements"} /\ \E j \in DOMAIN Kids[f.n] : j >= f.i /\ m = Kids[f.n][j]
  \/ f.op = "queue" /\ \E j \in DOMAIN f.queue : m = f.queue[j]

\* All that f completes is at or below such an m.
Covers(f, m) ==
  \/ f.op \in {"execute", "run", "value", "hand", "fields", "elements"} /\ m = f.n
  \/ f.op = "queue" /\ \E j \in DOMAIN f.queue : m = f.queue[j]

\* handleNodeError may be called for m.
MayFail(f, m) == Waits(f, m) \/ (f.op = "elements" /\ m = f.n)

\* What a frame says about its node by itself
FrameOK(f) ==
  /\ f.op = "execute" => f.n = Root
  /\ f.op = "fields" => Shape[f.n] = "object"
  /\ f.op = "elements" =>
       Shape[f.n] = "list" /\ \A j \in DOMAIN Kids[f.n] : Shape[Kids[f.n][j]] # "list"
  /\ f.op \in {"run", "release"} => ~IsElement(f.n)
  /\ f.op \in {"run", "value"} => f.n # Root
  /\ f.op = "value" /\ IsElement(f.n) => Shape[f.n] # "list"
  /\ f.op = "queue" =>
       \A i, j \in DOMAIN f.queue :
         /\ IsElement(f.queue[j]) /\ Owner[f.queue[j]] = Owner[f.n]
         /\ i # j => Incomparable(f.queue[i], f.queue[j])

\* The frames of a stack
Frs(s) == {s[k] : k \in DOMAIN s}

\* g is under f: what f completes has nothing to do with what g has still to complete.
Apart(f, g) ==
  /\ \A x, w \in Nodes : Covers(f, x) /\ Waits(g, w) => Incomparable(x, w)
  /\ f.op = "elements" /\ g.op = "elements" => f.n \notin Anc[g.n]
Ordered(s) == \A k, l \in DOMAIN s : k < l => Apart(s[k], s[l])

\* A loop over elements runs inside a call that releases the owner's task.
Releases(g, t) == g.op = "release" /\ g.n = t
Held(s) ==
  \A k \in DOMAIN s : s[k].op \in {"queue", "elements"} =>
    \E l \in DOMAIN s : k < l /\ Releases(s[l], Owner[s[k].n])

\* The frames that hold a reference to the task of field t.
Holds(f, t) ==
  \/ f.op \in {"run", "release"} /\ f.n = t
  \/ f.op = "value" /\ Owner[f.n] = t
Holders(s, t) == {Len(s) - k : k \in {k \in DOMAIN s : Holds(s[k], t)}}
Count(s, t) == Cardinality(Holders(s, t))

\* Nothing below w has been touched.
Untouched(w, kd, as, rf) ==
  \A m \in Nodes : w \in Anc[m] => kd[m] = "none" /\ as[m] = "none" /\ rf[m] = 0
Fresh(f, kd, as, rf) ==
  /\ \A w \in Nodes : Waits(f, w) =>
       /\ kd[w] = "none" /\ Untouched(w, kd, as, rf)
       /\ f.op \notin {"value", "hand"} => as[w] = "none"
       /\ f.op \in {"fields", "elements", "queue"} => rf[w] = 0
  /\ f.op = "elements" => kd[f.n] # "none"

\* What is above x has been completed, and is nil only if an error below it was reported.
Explained(x, kd, er) ==
  \A a \in Anc[x] : kd[a] # "none" /\ (kd[a] = "nil" => \E e \in er : a \in Anc[e])

\* Node n is being completed by f;  it has started;  it is not complete yet.
Runs(f, n) == f.op \in {"run", "hand", "value"} /\ f.n = n
Started(F, kd, as, n) == kd[n] # "none" \/ as[n] # "none" \/ (\E f \in F : Runs(f, n))
Pending(F, as, w) == as[w] = "live" \/ (\E f \in F : Waits(f, w))

\* When a field has started, nothing below an earlier field of the object is pending.
Serial(F, kd, as) ==
  \A p \in Nodes : Shape[p] = "object" =>
    \A i, j \in DOMAIN Kids[p] : i < j /\ Started(F, kd, as, Kids[p][j]) =>
      \A w \in Nodes : Pending(F, as, w) => ~Below(w, Kids[p][i])

\* A node whose future is awaited.
Alive(F, n, kd, as, rf, er) ==
  /\ n # Root /\ (IsElement(n) => Shape[n] # "list")
  /\ kd[n] = "none" /\ Untouched(n, kd, as, rf) /\ Explained(n, kd, er)
  /\ \A f \in F, w \in Nodes : Waits(f, w) => Incomparable(n, w)

\* A task has a reference for each frame that holds it, and one more for an awaited future.
Counted(s, as, rf) ==
  \A t \in Nodes :
    /\ rf[t] >= Count(s, t)
    /\ \A n \in Nodes : as[n] = "live" /\ Owner[n] = t => rf[t] > Count(s, t)

\* The part of the invariant about the stack
Sound(s, kd, as, rf, er) ==
  /\ s \in Seq(Frames) /\ Ordered(s) /\ Held(s)
  /\ \A f \in Frs(s) : FrameOK(f) /\ Fresh(f, kd, as, rf)
  /\ \A f \in Frs(s), x \in Nodes : MayFail(f, x) => Explained(x, kd, er)
  /\ Serial(Frs(s), kd, as)
  /\ \A n \in Nodes : as[n] = "live" => Alive(Frs(s), n, kd, as, rf, er)
  /\ Counted(s, as, rf)

\* What is visible and not there yet is pending, and what is nil is explained.
Shown(n, kd) == \A a \in Anc[n] : kd[a] \notin {"none", "nil"}
Accounted(s, kd, as, er, nl) ==
  \A n \in Nodes : Shown(n, kd) =>
    /\ kd[n] = "none" => Pending(Frs(s), as, n) \/ n \in er
    /\ kd[n] = "nil" => n \in nl \/ \E e \in er : Below(e, n)

\* At most one future is awaited, by the innermost calls, with a Dispatch around them that does
\* not return before it is there.
Deep(s) == \A f \in Frs(s) : f.op \in {"fields", "queue", "elements", "release", "drain"}
Polls == {"poll", "publish", "yield"}
Awaiting(s, as, yt) ==
  /\ s # << >> => Deep(Tail(s))
  /\ \A n \in Nodes : as[n] = "live" =>
       /\ s # << >>
       /\ \/ s[1].op \in Polls /\ s[1].n = n
          \/ s[1].op \in {"tryDispatch", "dispatch", "drain"} /\ yt[n] # "none"
       /\ \A m \in Nodes : as[m] = "live" => m = n
  /\ s # << >> /\ s[1].op \in Polls \cup {"tryDispatch"} => as[s[1].n] = "live"
  /\ s # << >> /\ s[1].op \in Polls \cup {"tryDispatch", "dispatch"} =>
       Tail(s) # << >> /\ Tail(s)[1].op = "drain"
  /\ s # << >> => s[1].op # "hand" /\ (s[1].op = "execute" => Tail(s) = << >>)

\* The inductive invariant
IInv ==
  /\ TypeOK
  /\ Sound(stack, kind, asy, refs, errs)
  /\ Accounted(stack, kind, asy, errs, nulls)
  /\ Awaiting(stack, asy, yieldTasks)
  /\ outcome = "returned" => stack = << >>
  /\ PanicsAfterError

-----------------------------------------------------------------------------
(* Pushing and popping a frame *)

\* A stack with a frame pushed on it
LEMMA PushSeq ==
  ASSUME NEW s \in Seq(Frames), NEW x \in Frames
  PROVE  /\ <<x>> \o s \in Seq(Frames) /\ <<x>> \o s # << >>
         /\ Len(<<x>> \o s) = Len(s) + 1
         /\ (<<x>> \o s)[1] = x /\ Tail(<<x>> \o s) = s
         /\ \A k \in 1..Len(s) : (<<x>> \o s)[k + 1] = s[k]
         /\ Frs(<<x>> \o s) = {x} \cup Frs(s)
<1> DEFINE u == <<x>> \o s
<1>1. u \in Seq(Frames) /\ u # << >> /\ Len(u) = Len(s) + 1 /\ u[1] = x
  OBVIOUS
<1>2. \A k \in 1..Len(s) : u[k + 1] = s[k]
  OBVIOUS
<1>3. Tail(u) = s
  <2>1. Tail(u) \in Seq(Frames) /\ Len(Tail(u)) = Len(s)
    BY <1>1
  <2>2. \A k \in 1..Len(s) : Tail(u)[k] = s[k]
    BY <1>1, <1>2
  <2> QED
    BY <2>1, <2>2, SeqEqual
<1>4. Frs(u) = {x} \cup Frs(s)
  <2>1. DOMAIN u = 1..(Len(s) + 1) /\ DOMAIN s = 1..Len(s) /\ Len(s) \in Nat
    BY <1>1
  <2>2. ASSUME NEW k \in DOMAIN u PROVE u[k] \in {x} \cup Frs(s)
    <3>1. CASE k = 1
      BY <1>1, <3>1
    <3>2. CASE k # 1
      <4>1. k - 1 \in 1..Len(s) /\ k = (k - 1) + 1
        BY <2>1, <3>2
      <4>2. u[k] = s[k - 1]
        BY <1>2, <4>1
      <4> QED
        BY <2>1, <4>1, <4>2 DEF Frs
    <3> QED
      BY <3>1, <3>2
  <2>3. ASSUME NEW k \in DOMAIN s PROVE s[k] \in Frs(u)
    <3>1. k + 1 \in DOMAIN u /\ u[k + 1] = s[k]
      BY <1>2, <2>1
    <3> QED
      BY <3>1 DEF Frs
  <2>4. x \in Frs(u)
    BY <1>1, <2>1 DEF Frs
  <2> QED
    BY <2>2, <2>3, <2>4 DEF Frs
<1> QED
  BY <1>1, <1>2, <1>3, <1>4

\* The fields of a frame on the stack have their types.
LEMMA FrameTypes ==
  ASSUME NEW s \in Seq(Frames), NEW f \in Frs(s)
  PROVE  f \in Frames /\ f.n \in Nodes /\ f.i \in Nat \ {0} /\ f.queue \in Seq(Nodes)
<1>1. PICK k \in DOMAIN s : f = s[k]
  BY DEF Frs
<1>2. f \in Frames
  BY <1>1
<1> QED
  BY <1>2 DEF Frames

\* A stack that is not empty is its top pushed on the rest.
LEMMA PopSeq ==
  ASSUME NEW s \in Seq(Frames), s # << >>
  PROVE  s[1] \in Frames /\ Tail(s) \in Seq(Frames) /\ s = <<s[1]>> \o Tail(s)
<1>1. s[1] \in Frames /\ Tail(s) \in Seq(Frames) /\ Len(s) \in Nat \ {0} /\ Len(Tail(s)) = Len(s) - 1
  OBVIOUS
<1> DEFINE u == <<s[1]>> \o Tail(s)
<1>2. u \in Seq(Frames) /\ Len(u) = Len(s)
  BY <1>1
<1>3. \A k \in 1..Len(s) : u[k] = s[k]
  BY <1>1
<1> QED
  BY <1>1, <1>2, <1>3, SeqEqual

\* A frame apart from all below it may be pushed on an ordered stack.
LEMMA PushOrdered ==
  ASSUME NEW s \in Seq(Frames), NEW x \in Frames
  PROVE  Ordered(<<x>> \o s) <=> Ordered(s) /\ \A g \in Frs(s) : Apart(x, g)
<1> DEFINE u == <<x>> \o s
<1>1. /\ u \in Seq(Frames) /\ Len(u) = Len(s) + 1 /\ u[1] = x /\ Len(s) \in Nat
      /\ \A k \in 1..Len(s) : u[k + 1] = s[k]
      /\ DOMAIN u = 1..(Len(s) + 1) /\ DOMAIN s = 1..Len(s)
  BY PushSeq
<1> HIDE DEF u
<1>2. ASSUME Ordered(u) PROVE Ordered(s) /\ \A g \in Frs(s) : Apart(x, g)
  <2>1. ASSUME NEW k \in DOMAIN s, NEW l \in DOMAIN s, k < l PROVE Apart(s[k], s[l])
    <3>1. k + 1 \in DOMAIN u /\ l + 1 \in DOMAIN u /\ k + 1 < l + 1
      BY <1>1, <2>1
    <3>2. Apart(u[k + 1], u[l + 1])
      BY <1>2, <3>1 DEF Ordered
    <3> QED
      BY <1>1, <3>2
  <2>2. ASSUME NEW l \in DOMAIN s PROVE Apart(x, s[l])
    <3>1. 1 \in DOMAIN u /\ l + 1 \in DOMAIN u /\ 1 < l + 1
      BY <1>1
    <3>2. Apart(u[1], u[l + 1])
      BY <1>2, <3>1 DEF Ordered
    <3> QED
      BY <1>1, <3>2
  <2> QED
    BY <2>1, <2>2 DEF Ordered, Frs
<1>3. ASSUME Ordered(s), \A g \in Frs(s) : Apart(x, g) PROVE Ordered(u)
  <2>1. SUFFICES ASSUME NEW k \in DOMAIN u, NEW l \in DOMAIN u, k < l PROVE Apart(u[k], u[l])
    BY DEF Ordered
  <2>2. l - 1 \in DOMAIN s /\ u[l] = s[l - 1]
    <3>1. l - 1 \in 1..Len(s) /\ l = (l - 1) + 1
      BY <1>1, <2>1
    <3> QED
      BY <1>1, <3>1
  <2>3. CASE k = 1
    BY <1>1, <1>3, <2>2, <2>3 DEF Frs
  <2>4. CASE k # 1
    <3>1. k - 1 \in 1..Len(s) /\ k = (k - 1) + 1 /\ k - 1 < l - 1
      BY <1>1, <2>1, <2>4
    <3>2. u[k] = s[k - 1]
      BY <1>1, <3>1
    <3> QED
      BY <1>1, <1>3, <2>2, <3>1, <3>2 DEF Ordered
  <2> QED
    BY <2>3, <2>4
<1> QED
  BY <1>2, <1>3 DEF u

\* A loop over elements may be pushed where the release of the task is below.
LEMMA PushHeld ==
  ASSUME NEW s \in Seq(Frames), NEW x \in Frames
  PROVE  Held(<<x>> \o s) <=>
           Held(s) /\ (x.op \in {"queue", "elements"} => \E g \in Frs(s) : Releases(g, Owner[x.n]))
<1> DEFINE u == <<x>> \o s
<1>1. /\ u \in Seq(Frames) /\ Len(u) = Len(s) + 1 /\ u[1] = x /\ Len(s) \in Nat
      /\ \A k \in 1..Len(s) : u[k + 1] = s[k]
      /\ DOMAIN u = 1..(Len(s) + 1) /\ DOMAIN s = 1..Len(s)
  BY PushSeq
<1> HIDE DEF u
<1>2. ASSUME Held(u)
      PROVE  Held(s) /\ (x.op \in {"queue", "elements"} => \E g \in Frs(s) : Releases(g, Owner[x.n]))
  <2>1. ASSUME NEW k \in DOMAIN s, s[k].op \in {"queue", "elements"}
        PROVE  \E l \in DOMAIN s : k < l /\ Releases(s[l], Owner[s[k].n])
    <3>1. k + 1 \in DOMAIN u /\ u[k + 1] = s[k]
      BY <1>1
    <3>2. PICK l \in DOMAIN u : k + 1 < l /\ Releases(u[l], Owner[s[k].n])
      BY <1>2, <2>1, <3>1 DEF Held
    <3>3. l - 1 \in 1..Len(s) /\ l = (l - 1) + 1 /\ k < l - 1
      BY <1>1, <3>2
    <3>4. u[l] = s[l - 1]
      BY <1>1, <3>3
    <3> QED
      BY <1>1, <3>2, <3>3, <3>4
  <2>2. ASSUME x.op \in {"queue", "elements"} PROVE \E g \in Frs(s) : Releases(g, Owner[x.n])
    <3>1. PICK l \in DOMAIN u : 1 < l /\ Releases(u[l], Owner[x.n])
      BY <1>1, <1>2, <2>2 DEF Held
    <3>2. l - 1 \in 1..Len(s) /\ l = (l - 1) + 1
      BY <1>1, <3>1
    <3>3. u[l] = s[l - 1]
      BY <1>1, <3>2
    <3> QED
      BY <1>1, <3>1, <3>2, <3>3 DEF Frs
  <2> QED
    BY <2>1, <2>2 DEF Held
<1>3. ASSUME Held(s), x.op \in {"queue", "elements"} => \E g \in Frs(s) : Releases(g, Owner[x.n])
      PROVE  Held(u)
  <2>1. SUFFICES ASSUME NEW k \in DOMAIN u, u[k].op \in {"queue", "elements"}
                 PROVE  \E l \in DOMAIN u : k < l /\ Releases(u[l], Owner[u[k].n])
    BY DEF Held
  <2>2. CASE k = 1
    <3>1. PICK l \in DOMAIN s : Releases(s[l], Owner[x.n])
      BY <1>1, <1>3, <2>1, <2>2 DEF Frs
    <3>2. l + 1 \in DOMAIN u /\ u[l + 1] = s[l] /\ 1 < l + 1
      BY <1>1
    <3> QED
      BY <1>1, <2>2, <3>1, <3>2
  <2>3. CASE k # 1
    <3>1. k - 1 \in 1..Len(s) /\ k = (k - 1) + 1
      BY <1>1, <2>3
    <3>2. u[k] = s[k - 1]
      BY <1>1, <3>1
    <3>3. PICK l \in DOMAIN s : k - 1 < l /\ Releases(s[l], Owner[s[k - 1].n])
      BY <1>1, <1>3, <2>1, <3>1, <3>2 DEF Held
    <3>4. l + 1 \in DOMAIN u /\ u[l + 1] = s[l] /\ k < l + 1
      BY <1>1, <3>1, <3>3
    <3> QED
      BY <3>2, <3>3, <3>4
  <2> QED
    BY <2>2, <2>3
<1> QED
  BY <1>2, <1>3 DEF u

\* The holders of a task can be counted.
LEMMA HoldersFinite ==
  ASSUME NEW s \in Seq(Frames), NEW t
  PROVE  IsFiniteSet(Holders(s, t)) /\ Count(s, t) \in Nat /\ \A h \in Holders(s, t) : h < Len(s)
<1>1. Len(s) \in Nat /\ DOMAIN s = 1..Len(s)
  OBVIOUS
<1>2. Holders(s, t) \subseteq 0..Len(s)
  BY <1>1 DEF Holders
<1>3. IsFiniteSet(0..Len(s))
  BY <1>1, FS_Interval
<1>4. IsFiniteSet(Holders(s, t))
  BY <1>2, <1>3, FS_Subset
<1>5. Count(s, t) \in Nat
  BY <1>4, FS_CardinalityType DEF Count
<1>6. \A h \in Holders(s, t) : h < Len(s)
  BY <1>1 DEF Holders
<1> QED
  BY <1>4, <1>5, <1>6

\* A frame pushed on the stack counts for the tasks it holds.  Holders are numbered from the
\* bottom, so the others keep their numbers.
LEMMA PushCount ==
  ASSUME NEW s \in Seq(Frames), NEW x \in Frames, NEW t
  PROVE  Count(<<x>> \o s, t) = IF Holds(x, t) THEN Count(s, t) + 1 ELSE Count(s, t)
<1> DEFINE u == <<x>> \o s
<1>1. /\ u \in Seq(Frames) /\ Len(u) = Len(s) + 1 /\ u[1] = x /\ Len(s) \in Nat
      /\ \A k \in 1..Len(s) : u[k + 1] = s[k]
      /\ DOMAIN u = 1..(Len(s) + 1) /\ DOMAIN s = 1..Len(s)
  BY PushSeq
<1> HIDE DEF u
<1>2. ASSUME NEW h \in Holders(s, t) PROVE h \in Holders(u, t)
  <2>1. PICK k \in DOMAIN s : Holds(s[k], t) /\ h = Len(s) - k
    BY DEF Holders
  <2>2. k + 1 \in DOMAIN u /\ Holds(u[k + 1], t) /\ h = Len(u) - (k + 1)
    BY <1>1, <2>1
  <2> QED
    BY <2>2 DEF Holders
<1>3. ASSUME NEW h \in Holders(u, t) PROVE h \in Holders(s, t) \/ (h = Len(s) /\ Holds(x, t))
  <2>1. PICK k \in DOMAIN u : Holds(u[k], t) /\ h = Len(u) - k
    BY DEF Holders
  <2>2. CASE k = 1
    BY <1>1, <2>1, <2>2
  <2>3. CASE k # 1
    <3>1. k - 1 \in 1..Len(s) /\ k = (k - 1) + 1 /\ h = Len(s) - (k - 1)
      BY <1>1, <2>1, <2>3
    <3>2. u[k] = s[k - 1]
      BY <1>1, <3>1
    <3> QED
      BY <1>1, <2>1, <3>1, <3>2 DEF Holders
  <2> QED
    BY <2>2, <2>3
<1>4. CASE Holds(x, t)
  <2>1. Len(s) \in Holders(u, t)
    <3>1. 1 \in DOMAIN u /\ Holds(u[1], t) /\ Len(s) = Len(u) - 1
      BY <1>1, <1>4
    <3> QED
      BY <3>1 DEF Holders
  <2>2. Holders(u, t) = Holders(s, t) \cup {Len(s)}
    BY <1>2, <1>3, <2>1
  <2>3. Len(s) \notin Holders(s, t)
    BY <1>1, HoldersFinite
  <2>4. Cardinality(Holders(u, t)) = Cardinality(Holders(s, t)) + 1
    BY <2>2, <2>3, HoldersFinite, FS_AddElement
  <2> QED
    BY <1>4, <2>4 DEF Count, u
<1>5. CASE ~Holds(x, t)
  <2>1. Holders(u, t) = Holders(s, t)
    BY <1>2, <1>3, <1>5
  <2> QED
    BY <1>5, <2>1 DEF Count, u
<1> QED
  BY <1>4, <1>5

\* A frame that holds a reference is counted.
LEMMA CountPositive ==
  ASSUME NEW s \in Seq(Frames), NEW t, NEW f \in Frs(s), Holds(f, t)
  PROVE  Count(s, t) > 0
<1>1. PICK k \in DOMAIN s : f = s[k]
  BY DEF Frs
<1>2. Len(s) - k \in Holders(s, t)
  BY <1>1 DEF Holders
<1>3. Cardinality(Holders(s, t)) # 0
  BY <1>2, HoldersFinite, FS_EmptySet
<1> QED
  BY <1>3, HoldersFinite DEF Count

\* What a frame must satisfy to be pushed on the stack s.
Fits(x, s, kd, as, rf, er) ==
  /\ x \in Frames /\ FrameOK(x) /\ Fresh(x, kd, as, rf)
  /\ \A y \in Nodes : MayFail(x, y) => Explained(y, kd, er)
  /\ \A g \in Frs(s) : Apart(x, g)
  /\ x.op \in {"queue", "elements"} => \E g \in Frs(s) : Releases(g, Owner[x.n])
  /\ Serial({x} \cup Frs(s), kd, as)
  /\ \A n, w \in Nodes : as[n] = "live" /\ Waits(x, w) => Incomparable(n, w)
  /\ \A t \in Nodes : Holds(x, t) =>
       /\ rf[t] >= Count(s, t) + 1
       /\ \A n \in Nodes : as[n] = "live" /\ Owner[n] = t => rf[t] > Count(s, t) + 1

\* A frame that fits may be pushed,
LEMMA SoundPush ==
  ASSUME NEW kd, NEW as, NEW rf \in [Nodes -> Nat], NEW er, NEW s, NEW x,
         Sound(s, kd, as, rf, er), Fits(x, s, kd, as, rf, er)
  PROVE  Sound(<<x>> \o s, kd, as, rf, er)
<1> DEFINE u == <<x>> \o s
<1>0. s \in Seq(Frames) /\ x \in Frames
  BY DEF Sound, Fits
<1>1. u \in Seq(Frames) /\ Frs(u) = {x} \cup Frs(s)
  BY <1>0, PushSeq
<1>2. Ordered(u)
  BY <1>0, PushOrdered DEF Sound, Fits
<1>3. Held(u)
  BY <1>0, PushHeld DEF Sound, Fits
<1>4. \A f \in Frs(u) : FrameOK(f) /\ Fresh(f, kd, as, rf)
  BY <1>1 DEF Sound, Fits
<1>5. \A f \in Frs(u), y \in Nodes : MayFail(f, y) => Explained(y, kd, er)
  BY <1>1 DEF Sound, Fits
<1>6. Serial(Frs(u), kd, as)
  BY <1>1 DEF Fits
<1>7. \A n \in Nodes : as[n] = "live" => Alive(Frs(u), n, kd, as, rf, er)
  BY <1>1 DEF Sound, Fits, Alive
<1>8. Counted(u, as, rf)
  <2>1. SUFFICES ASSUME NEW t \in Nodes
                 PROVE  /\ rf[t] >= Count(u, t)
                        /\ \A n \in Nodes : as[n] = "live" /\ Owner[n] = t => rf[t] > Count(u, t)
    BY DEF Counted
  <2>2. Count(u, t) = IF Holds(x, t) THEN Count(s, t) + 1 ELSE Count(s, t)
    BY <1>0, PushCount
  <2> HIDE DEF u
  <2> QED
    BY <2>2 DEF Sound, Counted, Fits
<1> HIDE DEF u
<1>9. Sound(u, kd, as, rf, er)
  BY <1>1, <1>2, <1>3, <1>4, <1>5, <1>6, <1>7, <1>8 DEF Sound
<1> QED
  BY <1>9 DEF u

LEMMA SerialPart ==
  ASSUME NEW kd, NEW as, NEW F, NEW G, G \subseteq F, Serial(F, kd, as)
  PROVE  Serial(G, kd, as)
BY DEF Serial, Started, Pending

\* and what is on the stack fits on what is below it.
LEMMA SoundPop ==
  ASSUME NEW kd, NEW as, NEW rf \in [Nodes -> Nat], NEW er, NEW s \in Seq(Frames), NEW x \in Frames,
         Sound(<<x>> \o s, kd, as, rf, er)
  PROVE  Sound(s, kd, as, rf, er) /\ Fits(x, s, kd, as, rf, er)
<1> DEFINE u == <<x>> \o s
<1>1. u \in Seq(Frames) /\ Frs(u) = {x} \cup Frs(s)
  BY PushSeq
<1>2. Ordered(s) /\ \A g \in Frs(s) : Apart(x, g)
  BY PushOrdered DEF Sound
<1>3. Held(s) /\ (x.op \in {"queue", "elements"} => \E g \in Frs(s) : Releases(g, Owner[x.n]))
  BY PushHeld DEF Sound
<1>4. \A t \in Nodes : Count(u, t) = IF Holds(x, t) THEN Count(s, t) + 1 ELSE Count(s, t)
  BY PushCount
<1>5. \A t \in Nodes : Count(s, t) \in Nat
  BY HoldersFinite
<1>6. Sound(u, kd, as, rf, er)
  OBVIOUS
<1> HIDE DEF u
<1>7. Serial({x} \cup Frs(s), kd, as)
  BY <1>1, <1>6 DEF Sound
<1>8. Serial(Frs(s), kd, as)
  BY <1>7, SerialPart
<1>9. Counted(s, as, rf)
  <2>1. SUFFICES ASSUME NEW t \in Nodes
                 PROVE  /\ rf[t] >= Count(s, t)
                        /\ \A n \in Nodes : as[n] = "live" /\ Owner[n] = t => rf[t] > Count(s, t)
    BY DEF Counted
  <2>2. Count(u, t) \in Nat /\ Count(s, t) \in Nat /\ Count(u, t) >= Count(s, t) /\ rf[t] \in Nat
    BY <1>4, <1>5
  <2>3. rf[t] >= Count(u, t)
    BY <1>6 DEF Sound, Counted
  <2>4. ASSUME NEW n \in Nodes, as[n] = "live", Owner[n] = t PROVE rf[t] > Count(u, t)
    BY <1>6, <2>4 DEF Sound, Counted
  <2>5. rf[t] >= Count(s, t)
    BY <2>2, <2>3
  <2>6. ASSUME NEW n \in Nodes, as[n] = "live", Owner[n] = t PROVE rf[t] > Count(s, t)
    <3>1. rf[t] > Count(u, t)
      BY <2>4, <2>6
    <3> QED
      BY <2>2, <3>1
  <2> QED
    BY <2>5, <2>6
<1>10. \A n \in Nodes : as[n] = "live" => Alive(Frs(s), n, kd, as, rf, er)
  BY <1>1, <1>6 DEF Sound, Alive
<1>11. Sound(s, kd, as, rf, er)
  <2>1. \A f \in Frs(s) : FrameOK(f) /\ Fresh(f, kd, as, rf)
    BY <1>1, <1>6 DEF Sound
  <2>2. \A f \in Frs(s), y \in Nodes : MayFail(f, y) => Explained(y, kd, er)
    BY <1>1, <1>6 DEF Sound
  <2> QED
    BY <1>2, <1>3, <1>8, <1>9, <1>10, <2>1, <2>2 DEF Sound
<1>12. Fits(x, s, kd, as, rf, er)
  <2>1. FrameOK(x) /\ Fresh(x, kd, as, rf)
    BY <1>1, <1>6 DEF Sound
  <2>2. \A y \in Nodes : MayFail(x, y) => Explained(y, kd, er)
    BY <1>1, <1>6 DEF Sound
  <2>3. \A n, w \in Nodes : as[n] = "live" /\ Waits(x, w) => Incomparable(n, w)
    BY <1>1, <1>6 DEF Sound, Alive
  <2>4. \A t \in Nodes : Holds(x, t) =>
          /\ rf[t] >= Count(s, t) + 1
          /\ \A n \in Nodes : as[n] = "live" /\ Owner[n] = t => rf[t] > Count(s, t) + 1
    <3>1. SUFFICES ASSUME NEW t \in Nodes, Holds(x, t)
                   PROVE  /\ rf[t] >= Count(u, t)
                          /\ \A n \in Nodes : as[n] = "live" /\ Owner[n] = t => rf[t] > Count(u, t)
      BY <1>4
    <3> QED
      BY <1>6 DEF Sound, Counted
  <2> QED
    BY <1>2, <1>3, <1>7, <2>1, <2>2, <2>3, <2>4 DEF Fits
<1> QED
  BY <1>11, <1>12

-----------------------------------------------------------------------------
(* Completing the node in hand *)

\* The kinds of a node;  no future is awaited.
Kinds == {"none", "nil", "leaf", "object", "list"}
NoneLive(as) == \A m \in Nodes : as[m] # "live"

\* What is known when n is in hand and s is what remains.
LEMMA HandFacts ==
  ASSUME NEW kd, NEW as, NEW rf \in [Nodes -> Nat], NEW er, NEW n \in Nodes, NEW s \in Seq(Frames),
         Sound(<<InHand(n)>> \o s, kd, as, rf, er)
  PROVE  /\ Sound(s, kd, as, rf, er)
         /\ kd[n] = "none" /\ Untouched(n, kd, as, rf) /\ Explained(n, kd, er)
         /\ \A g \in Frs(s), w \in Nodes : Waits(g, w) => Incomparable(n, w)
         /\ Serial({InHand(n)} \cup Frs(s), kd, as)
         /\ \A g \in Frs(s) : g.op = "elements" => n \notin Anc[g.n]
<1> DEFINE h == InHand(n)
<1>1. h \in Frames /\ h.op = "hand" /\ h.n = n
  BY DEF InHand, Call, Frames
<1>2. Sound(s, kd, as, rf, er) /\ Fits(h, s, kd, as, rf, er)
  BY <1>1, SoundPop
<1>3. Waits(h, n) /\ Covers(h, n) /\ MayFail(h, n)
  BY <1>1 DEF Waits, Covers, MayFail
<1> HIDE DEF h
<1>4. kd[n] = "none" /\ Untouched(n, kd, as, rf)
  BY <1>2, <1>3 DEF Fits, Fresh
<1>5. Explained(n, kd, er)
  BY <1>2, <1>3 DEF Fits
<1>6. \A g \in Frs(s), w \in Nodes : Waits(g, w) => Incomparable(n, w)
  BY <1>2, <1>3 DEF Fits, Apart
<1>7. Serial({h} \cup Frs(s), kd, as)
  BY <1>2 DEF Fits
<1>8. ASSUME NEW g \in Frs(s), g.op = "elements", n \in Anc[g.n] PROVE FALSE
  <2>1. kd[g.n] # "none"
    BY <1>2, <1>8 DEF Sound, Fresh
  <2>2. g.n \in Nodes
    BY FrameTypes
  <2> QED
    BY <1>4, <1>8, <2>1, <2>2 DEF Untouched
<1> QED
  BY <1>2, <1>4, <1>5, <1>6, <1>7, <1>8 DEF h

\* A step that completes n may change n and its ancestors, and makes an ancestor nil only when an
\* error of n is reported.  The rest of the stack does not notice.
Touches(n, kd, as, rf, er, kd2, as2, rf2, er2) ==
  /\ er \subseteq er2
  /\ \A m \in Nodes : m \notin {n} \cup Anc[n] => kd2[m] = kd[m]
  /\ \A m \in Anc[n] : kd2[m] = kd[m] \/ (kd2[m] = "nil" /\ n \in er2)
  /\ \A m \in Nodes : m # n => as2[m] = as[m]
  /\ \A m \in Nodes : m # Owner[n] => rf2[m] = rf[m]
  /\ rf2[Owner[n]] >= rf[Owner[n]]
  /\ as2[n] = "live" => /\ rf2[Owner[n]] > rf[Owner[n]]
                        /\ kd2[n] = "none" /\ n # Root
                        /\ IsElement(n) => Shape[n] # "list"

\* What was explained above a node elsewhere is explained after the step.
LEMMA ExplainedAfter ==
  ASSUME NEW kd, NEW as, NEW rf, NEW er, NEW kd2, NEW as2, NEW rf2, NEW er2,
         NEW n \in Nodes, NEW y \in Nodes, n \notin Anc[y],
         Touches(n, kd, as, rf, er, kd2, as2, rf2, er2), Explained(y, kd, er)
  PROVE  Explained(y, kd2, er2)
<1>1. SUFFICES ASSUME NEW a \in Anc[y]
               PROVE  kd2[a] # "none" /\ (kd2[a] = "nil" => \E e \in er2 : a \in Anc[e])
  BY DEF Explained
<1>2. a \in Nodes /\ a # n /\ er \subseteq er2
  BY AncInNodes DEF Touches
<1>3. kd[a] # "none" /\ (kd[a] = "nil" => \E e \in er : a \in Anc[e])
  BY DEF Explained
<1>4. CASE kd2[a] = kd[a]
  BY <1>2, <1>3, <1>4
<1>5. CASE kd2[a] # kd[a]
  <2>1. a \in Anc[n] /\ kd2[a] = "nil" /\ n \in er2
    BY <1>2, <1>5 DEF Touches
  <2> QED
    BY <2>1
<1> QED
  BY <1>4, <1>5

\* The rest of the stack is sound after the step that completes the node in hand.
LEMMA SoundAfter ==
  ASSUME NEW kd, NEW as, NEW rf \in [Nodes -> Nat], NEW er,
         NEW kd2, NEW as2, NEW rf2 \in [Nodes -> Nat], NEW er2,
         NEW n \in Nodes, NEW s \in Seq(Frames),
         Sound(<<InHand(n)>> \o s, kd, as, rf, er), NoneLive(as),
         Touches(n, kd, as, rf, er, kd2, as2, rf2, er2)
  PROVE  Sound(s, kd2, as2, rf2, er2)
<1>0. /\ Sound(s, kd, as, rf, er)
      /\ kd[n] = "none" /\ Untouched(n, kd, as, rf) /\ Explained(n, kd, er)
      /\ \A g \in Frs(s), w \in Nodes : Waits(g, w) => Incomparable(n, w)
      /\ Serial({InHand(n)} \cup Frs(s), kd, as)
      /\ \A g \in Frs(s) : g.op = "elements" => n \notin Anc[g.n]
  BY HandFacts
<1>1. Owner[n] \in Nodes /\ Owner[n] \in {n} \cup Anc[n]
  BY OwnerFacts
<1>2. \A f \in Frs(s) : f \in Frames /\ f.n \in Nodes
  BY FrameTypes
<1>3. ASSUME NEW w \in Nodes, Incomparable(n, w), NEW m \in Nodes, Below(m, w)
      PROVE  kd2[m] = kd[m] /\ as2[m] = as[m] /\ rf2[m] = rf[m]
  <2>1. m \notin {n} \cup Anc[n]
    BY <1>3, Elsewhere
  <2> QED
    BY <1>1, <2>1 DEF Touches
<1>4. ASSUME NEW f \in Frs(s) PROVE Fresh(f, kd2, as2, rf2)
  <2>0. Fresh(f, kd, as, rf)
    BY <1>0 DEF Sound
  <2>1. ASSUME NEW w \in Nodes, Waits(f, w)
        PROVE  /\ kd2[w] = "none" /\ Untouched(w, kd2, as2, rf2)
               /\ f.op \notin {"value", "hand"} => as2[w] = "none"
               /\ f.op \in {"fields", "elements", "queue"} => rf2[w] = 0
    <3>1. Incomparable(n, w)
      BY <1>0, <2>1
    <3>2. kd2[w] = kd[w] /\ as2[w] = as[w] /\ rf2[w] = rf[w]
      BY <1>3, <3>1 DEF Below
    <3>3. \A m \in Nodes : w \in Anc[m] => kd2[m] = kd[m] /\ as2[m] = as[m] /\ rf2[m] = rf[m]
      BY <1>3, <3>1 DEF Below
    <3>4. /\ kd[w] = "none" /\ Untouched(w, kd, as, rf)
          /\ f.op \notin {"value", "hand"} => as[w] = "none"
          /\ f.op \in {"fields", "elements", "queue"} => rf[w] = 0
      BY <2>0, <2>1 DEF Fresh
    <3>5. Untouched(w, kd2, as2, rf2)
      BY <3>3, <3>4 DEF Untouched
    <3> QED
      BY <3>2, <3>4, <3>5
  <2>2. ASSUME f.op = "elements" PROVE kd2[f.n] # "none"
    <3>1. kd[f.n] # "none"
      BY <2>0, <2>2 DEF Fresh
    <3> QED
      BY <1>0, <1>2, <3>1 DEF Touches
  <2> QED
    BY <2>1, <2>2 DEF Fresh
<1>5. ASSUME NEW f \in Frs(s), NEW y \in Nodes, MayFail(f, y) PROVE Explained(y, kd2, er2)
  <2>1. Explained(y, kd, er)
    BY <1>0, <1>5 DEF Sound
  <2>2. n \notin Anc[y]
    BY <1>0, <1>5 DEF MayFail, Incomparable, Below
  <2> QED
    BY <2>1, <2>2, ExplainedAfter
<1>6. Serial(Frs(s), kd2, as2)
  <2> DEFINE F == {InHand(n)} \cup Frs(s)
  <2>0. Runs(InHand(n), n) /\ Waits(InHand(n), n)
    BY DEF InHand, Call, Runs, Waits
  <2>1. ASSUME NEW m \in Nodes, Started(Frs(s), kd2, as2, m) PROVE Started(F, kd, as, m)
    <3>1. CASE m = n
      BY <2>0, <3>1 DEF Started
    <3>2. CASE m # n /\ m \in Anc[n]
      BY <1>0, <3>2 DEF Started, Explained
    <3>3. CASE m # n /\ m \notin Anc[n]
      <4>1. kd2[m] = kd[m] /\ as2[m] = as[m]
        BY <3>3 DEF Touches
      <4> QED
        BY <2>1, <4>1 DEF Started
    <3> QED
      BY <3>1, <3>2, <3>3
  <2>2. ASSUME NEW w \in Nodes, Pending(Frs(s), as2, w) PROVE Pending(F, as, w)
    <3>1. CASE as2[w] = "live"
      <4>1. w = n
        BY <3>1 DEF Touches, NoneLive
      <4> QED
        BY <2>0, <4>1 DEF Pending
    <3>2. CASE as2[w] # "live"
      BY <2>2, <3>2 DEF Pending
    <3> QED
      BY <3>1, <3>2
  <2>3. Serial(F, kd, as)
    BY <1>0
  <2> HIDE DEF F
  <2>4. SUFFICES ASSUME NEW p \in Nodes, Shape[p] = "object", NEW i \in DOMAIN Kids[p],
                        NEW j \in DOMAIN Kids[p], i < j, Started(Frs(s), kd2, as2, Kids[p][j]),
                        NEW w \in Nodes, Pending(Frs(s), as2, w)
                 PROVE  ~Below(w, Kids[p][i])
    BY DEF Serial
  <2>5. Kids[p][j] \in Nodes
    BY KidFacts
  <2>6. Started(F, kd, as, Kids[p][j]) /\ Pending(F, as, w)
    BY <2>1, <2>2, <2>4, <2>5
  <2> QED
    BY <2>3, <2>4, <2>6 DEF Serial
<1>7. ASSUME NEW m \in Nodes, as2[m] = "live" PROVE Alive(Frs(s), m, kd2, as2, rf2, er2)
  <2>1. m = n
    BY <1>7 DEF Touches, NoneLive
  <2>2. Untouched(n, kd2, as2, rf2)
    <3>1. SUFFICES ASSUME NEW x \in Nodes, n \in Anc[x]
                   PROVE  kd2[x] = "none" /\ as2[x] = "none" /\ rf2[x] = 0
      BY DEF Untouched
    <3>2. x # n /\ x \notin Anc[n]
      BY <3>1, AncIrreflexive, AncTransitive
    <3>3. kd2[x] = kd[x] /\ as2[x] = as[x] /\ rf2[x] = rf[x]
      BY <1>1, <3>2 DEF Touches
    <3> QED
      BY <1>0, <3>1, <3>3 DEF Untouched
  <2>3. Explained(n, kd2, er2)
    BY <1>0, AncIrreflexive, ExplainedAfter
  <2>4. n # Root /\ (IsElement(n) => Shape[n] # "list") /\ kd2[n] = "none"
    BY <1>7, <2>1 DEF Touches
  <2> QED
    BY <1>0, <2>1, <2>2, <2>3, <2>4 DEF Alive
<1>8. Counted(s, as2, rf2)
  <2>1. SUFFICES ASSUME NEW t \in Nodes
                 PROVE  /\ rf2[t] >= Count(s, t)
                        /\ \A m \in Nodes : as2[m] = "live" /\ Owner[m] = t => rf2[t] > Count(s, t)
    BY DEF Counted
  <2>2. Count(s, t) \in Nat /\ rf[t] \in Nat /\ rf2[t] \in Nat
    BY HoldersFinite
  <2>3. rf[t] >= Count(s, t)
    BY <1>0 DEF Sound, Counted
  <2>4. rf2[t] >= rf[t]
    BY <2>2 DEF Touches
  <2>5. rf2[t] >= Count(s, t)
    BY <2>2, <2>3, <2>4
  <2>6. ASSUME NEW m \in Nodes, as2[m] = "live", Owner[m] = t PROVE rf2[t] > Count(s, t)
    <3>1. m = n
      BY <2>6 DEF Touches, NoneLive
    <3>2. rf2[t] > rf[t]
      BY <2>6, <3>1 DEF Touches
    <3> QED
      BY <2>2, <2>3, <3>2
  <2> QED
    BY <2>5, <2>6
<1>9. \A f \in Frs(s) : FrameOK(f)
  BY <1>0 DEF Sound
<1>10. s \in Seq(Frames) /\ Ordered(s) /\ Held(s)
  BY <1>0 DEF Sound
<1> QED
  BY <1>4, <1>5, <1>6, <1>7, <1>8, <1>9, <1>10 DEF Sound

-----------------------------------------------------------------------------
(* Replacing a frame by one that does less *)

\* Frame y completes no more than x and needs no more.
Less(y, x) ==
  /\ y \in Frames /\ FrameOK(y)
  /\ \A w \in Nodes : (Waits(y, w) => Waits(x, w)) /\ (Covers(y, w) => Covers(x, w))
  /\ y.op = "elements" => x.op = "elements" /\ y.n = x.n
  /\ y.op \in {"queue", "elements"} => x.op \in {"queue", "elements"} /\ Owner[y.n] = Owner[x.n]
  /\ y.op \notin {"value", "hand"} => x.op \notin {"value", "hand"} \/ (\A w \in Nodes : ~Waits(y, w))
  /\ y.op \in {"fields", "elements", "queue"} => x.op \in {"fields", "elements", "queue"}
  /\ \A m \in Nodes : Runs(y, m) => Runs(x, m) \/ IsElement(m) \/ m = Root
  /\ \A t \in Nodes : Holds(y, t) => Holds(x, t)

\* Fields of objects are neither elements nor the root.
LEMMA SerialLess ==
  ASSUME NEW kd, NEW as, NEW F, NEW G, Serial(F, kd, as),
         \A m \in Nodes : (\E g \in G : Runs(g, m)) => (\E f \in F : Runs(f, m)) \/ IsElement(m) \/ m = Root,
         \A w \in Nodes : (\E g \in G : Waits(g, w)) => (\E f \in F : Waits(f, w))
  PROVE  Serial(G, kd, as)
<1>1. SUFFICES ASSUME NEW p \in Nodes, Shape[p] = "object", NEW i \in DOMAIN Kids[p],
                      NEW j \in DOMAIN Kids[p], i < j, Started(G, kd, as, Kids[p][j]),
                      NEW w \in Nodes, Pending(G, as, w)
               PROVE  ~Below(w, Kids[p][i])
  BY DEF Serial
<1>2. Kids[p][j] \in Nodes /\ Kids[p][j] # Root /\ Parent[Kids[p][j]] = p
  BY KidFacts
<1>3. ~IsElement(Kids[p][j])
  BY <1>1, <1>2 DEF IsElement
<1>4. Started(F, kd, as, Kids[p][j])
  BY <1>1, <1>2, <1>3 DEF Started
<1>5. Pending(F, as, w)
  BY <1>1 DEF Pending
<1> QED
  BY <1>1, <1>4, <1>5 DEF Serial

\* A frame that does less fits where the other does.
LEMMA FitsLess ==
  ASSUME NEW kd, NEW as, NEW rf, NEW er, NEW s \in Seq(Frames), NEW x, NEW y,
         Fits(x, s, kd, as, rf, er), Less(y, x)
  PROVE  Fits(y, s, kd, as, rf, er)
<1>1. Fresh(y, kd, as, rf)
  BY DEF Fits, Less, Fresh
<1>2. \A z \in Nodes : MayFail(y, z) => Explained(z, kd, er)
  BY DEF Fits, Less, MayFail
<1>3. \A g \in Frs(s) : Apart(y, g)
  BY DEF Fits, Less, Apart
<1>4. y.op \in {"queue", "elements"} => \E g \in Frs(s) : Releases(g, Owner[y.n])
  BY DEF Fits, Less
<1>5. Serial({y} \cup Frs(s), kd, as)
  <2>1. Serial({x} \cup Frs(s), kd, as)
    BY DEF Fits
  <2>2. ASSUME NEW m \in Nodes, \E g \in {y} \cup Frs(s) : Runs(g, m)
        PROVE  (\E f \in {x} \cup Frs(s) : Runs(f, m)) \/ IsElement(m) \/ m = Root
    BY <2>2 DEF Less
  <2>3. ASSUME NEW w \in Nodes, \E g \in {y} \cup Frs(s) : Waits(g, w)
        PROVE  \E f \in {x} \cup Frs(s) : Waits(f, w)
    BY <2>3 DEF Less
  <2> QED
    BY <2>1, <2>2, <2>3, SerialLess
<1>6. \A n, w \in Nodes : as[n] = "live" /\ Waits(y, w) => Incomparable(n, w)
  BY DEF Fits, Less
<1>7. \A t \in Nodes : Holds(y, t) =>
        /\ rf[t] >= Count(s, t) + 1
        /\ \A n \in Nodes : as[n] = "live" /\ Owner[n] = t => rf[t] > Count(s, t) + 1
  BY DEF Fits, Less
<1> QED
  BY <1>1, <1>2, <1>3, <1>4, <1>5, <1>6, <1>7 DEF Fits, Less

\* A frame is split in two.
LEMMA SoundSplit ==
  ASSUME NEW kd, NEW as, NEW rf \in [Nodes -> Nat], NEW er, NEW s \in Seq(Frames),
         NEW x \in Frames, NEW y, NEW z, Sound(<<x>> \o s, kd, as, rf, er),
         Less(y, x), Less(z, x), Apart(y, z), \A t \in Nodes : ~Holds(y, t),
         y.op \notin {"queue", "elements"}
  PROVE  Sound(<<y>> \o (<<z>> \o s), kd, as, rf, er) /\ <<z>> \o s \in Seq(Frames)
<1>1. Sound(s, kd, as, rf, er) /\ Fits(x, s, kd, as, rf, er)
  BY SoundPop
<1>2. Fits(y, s, kd, as, rf, er) /\ Fits(z, s, kd, as, rf, er)
  BY <1>1, FitsLess
<1>3. y \in Frames /\ z \in Frames
  BY DEF Less
<1> DEFINE u == <<z>> \o s
<1>4. Sound(u, kd, as, rf, er)
  BY <1>1, <1>2, SoundPush
<1>5. u \in Seq(Frames) /\ Frs(u) = {z} \cup Frs(s)
  BY <1>3, PushSeq
<1> HIDE DEF u
<1>6. Fits(y, u, kd, as, rf, er)
  <2>1. \A g \in Frs(u) : Apart(y, g)
    BY <1>2, <1>5 DEF Fits
  <2>2. Serial({y} \cup Frs(u), kd, as)
    <3>1. Serial({x} \cup Frs(s), kd, as)
      BY <1>1 DEF Fits
    <3>2. ASSUME NEW m \in Nodes, \E g \in {y} \cup Frs(u) : Runs(g, m)
          PROVE  (\E f \in {x} \cup Frs(s) : Runs(f, m)) \/ IsElement(m) \/ m = Root
      BY <1>5, <3>2 DEF Less
    <3>3. ASSUME NEW w \in Nodes, \E g \in {y} \cup Frs(u) : Waits(g, w)
          PROVE  \E f \in {x} \cup Frs(s) : Waits(f, w)
      BY <1>5, <3>3 DEF Less
    <3> QED
      BY <3>1, <3>2, <3>3, SerialLess
  <2> QED
    BY <1>2, <2>1, <2>2 DEF Fits
<1> QED
  BY <1>4, <1>5, <1>6, SoundPush DEF u

\* Visible nodes that are not there are still accounted for.
LEMMA AccountedLess ==
  ASSUME NEW kd, NEW as, NEW as2, NEW er, NEW nl, NEW s, NEW u,
         Accounted(s, kd, as, er, nl),
         \A w \in Nodes : Shown(w, kd) /\ Pending(Frs(s), as, w) => Pending(Frs(u), as2, w)
  PROVE  Accounted(u, kd, as2, er, nl)
BY DEF Accounted

\* What is visible is accounted for after the step, if the node and its children are.
LEMMA AccountedAfter ==
  ASSUME NEW kd, NEW as, NEW rf \in [Nodes -> Nat], NEW er, NEW nl,
         NEW kd2, NEW as2, NEW rf2, NEW er2, NEW nl2,
         NEW n \in Nodes, NEW s \in Seq(Frames), NEW u,
         Sound(<<InHand(n)>> \o s, kd, as, rf, er), NoneLive(as),
         Accounted(<<InHand(n)>> \o s, kd, as, er, nl),
         Touches(n, kd, as, rf, er, kd2, as2, rf2, er2), nl \subseteq nl2,
         \A g \in Frs(s), w \in Nodes : Waits(g, w) => Pending(Frs(u), as2, w),
         kd2[n] = "none" => Pending(Frs(u), as2, n),
         kd2[n] = "nil" /\ Shown(n, kd2) => n \in nl2 \/ n \in er2,
         kd2[n] \notin {"none", "nil"} => \A j \in DOMAIN Kids[n] : Pending(Frs(u), as2, Kids[n][j])
  PROVE  Accounted(u, kd2, as2, er2, nl2)
<1>0. kd[n] = "none" /\ Untouched(n, kd, as, rf)
  BY HandFacts
<1>1. InHand(n) \in Frames
  BY DEF InHand, Call, Frames
<1>2. Frs(<<InHand(n)>> \o s) = {InHand(n)} \cup Frs(s)
  BY <1>1, PushSeq
<1>3. SUFFICES ASSUME NEW m \in Nodes, Shown(m, kd2)
               PROVE  /\ kd2[m] = "none" => Pending(Frs(u), as2, m) \/ m \in er2
                      /\ kd2[m] = "nil" => m \in nl2 \/ \E e \in er2 : Below(e, m)
  BY DEF Accounted
<1>4. CASE m = n
  BY <1>3, <1>4 DEF Below
<1>5. CASE n \in Anc[m]
  <2>1. m # n /\ m \notin Anc[n] /\ m # Root
    BY <1>5, AncIrreflexive, AncTransitive, AncStep
  <2>2. kd2[m] = "none"
    BY <1>0, <1>5, <2>1 DEF Touches, Untouched
  <2>3. Parent[m] \in Nodes /\ Anc[m] = {Parent[m]} \cup Anc[Parent[m]]
    BY <2>1, ParentFacts, AncStep
  <2>4. Parent[m] = n
    <3>1. SUFFICES ASSUME Parent[m] # n PROVE FALSE
      OBVIOUS
    <3>2. n \in Anc[Parent[m]]
      BY <1>5, <2>3, <3>1
    <3>3. Parent[m] \notin Anc[n]
      BY <2>3, <3>2, AncIrreflexive, AncTransitive
    <3>4. kd2[Parent[m]] = "none"
      BY <1>0, <2>3, <3>1, <3>2, <3>3 DEF Touches, Untouched
    <3> QED
      BY <1>3, <2>3, <3>4 DEF Shown
  <2>5. kd2[n] \notin {"none", "nil"}
    BY <1>3, <1>5 DEF Shown
  <2>6. \E j \in DOMAIN Kids[n] : Kids[n][j] = m
    BY <2>1, <2>4, ParentFacts
  <2>7. Pending(Frs(u), as2, m)
    BY <2>5, <2>6
  <2> QED
    BY <2>2, <2>7
<1>6. CASE m # n /\ n \notin Anc[m]
  <2>1. Shown(m, kd)
    <3>1. SUFFICES ASSUME NEW a \in Anc[m] PROVE kd[a] \notin {"none", "nil"}
      BY DEF Shown
    <3>2. a \in Nodes /\ a # n /\ kd2[a] \notin {"none", "nil"}
      BY <1>3, <1>6, AncInNodes DEF Shown
    <3> QED
      BY <3>2 DEF Touches
  <2>2. /\ kd[m] = "none" => Pending({InHand(n)} \cup Frs(s), as, m) \/ m \in er
        /\ kd[m] = "nil" => m \in nl \/ \E e \in er : Below(e, m)
    BY <1>2, <2>1 DEF Accounted
  <2>3. ~Waits(InHand(n), m)
    BY <1>6 DEF Waits, InHand, Call
  <2>4. Pending({InHand(n)} \cup Frs(s), as, m) => Pending(Frs(u), as2, m)
    BY <2>3 DEF Pending, NoneLive
  <2>5. er \subseteq er2 /\ nl \subseteq nl2
    BY DEF Touches
  <2>6. CASE kd2[m] = kd[m]
    BY <2>2, <2>4, <2>5, <2>6
  <2>7. CASE kd2[m] # kd[m]
    <3>1. m \in Anc[n] /\ kd2[m] = "nil" /\ n \in er2
      BY <1>6, <2>7 DEF Touches
    <3> QED
      BY <3>1 DEF Below
  <2> QED
    BY <2>6, <2>7
<1> QED
  BY <1>4, <1>5, <1>6

-----------------------------------------------------------------------------
(* The children of the node in hand *)

\* The children of n become pending when n is completed.
LEMMA SerialKids ==
  ASSUME NEW kd, NEW as, NEW rf \in [Nodes -> Nat], NEW er, NEW k, NEW F,
         NEW n \in Nodes, NEW s \in Seq(Frames),
         Sound(<<InHand(n)>> \o s, kd, as, rf, er), NoneLive(as), kd \in [Nodes -> Kinds],
         \A m \in Nodes : (\E f \in F : Runs(f, m)) => \E g \in Frs(s) : Runs(g, m),
         \A w \in Nodes : (\E f \in F : Waits(f, w)) =>
           (\E g \in Frs(s) : Waits(g, w)) \/ (\E j \in DOMAIN Kids[n] : w = Kids[n][j])
  PROVE  Serial(F, [kd EXCEPT ![n] = k], as)
<1> DEFINE h == InHand(n)
           kd2 == [kd EXCEPT ![n] = k]
<1>0. /\ Untouched(n, kd, as, rf)
      /\ \A g \in Frs(s), w \in Nodes : Waits(g, w) => Incomparable(n, w)
      /\ Serial({h} \cup Frs(s), kd, as)
  BY HandFacts
<1>1. Runs(h, n) /\ Waits(h, n)
  BY DEF InHand, Call, Runs, Waits
<1>2. \A m \in Nodes : m # n => kd2[m] = kd[m]
  OBVIOUS
<1> HIDE DEF h, kd2
<1>3. ASSUME NEW m \in Nodes, Started(F, kd2, as, m) PROVE Started({h} \cup Frs(s), kd, as, m)
  <2>1. CASE m = n
    BY <1>1, <2>1 DEF Started
  <2>2. CASE m # n
    BY <1>2, <1>3, <2>2 DEF Started
  <2> QED
    BY <2>1, <2>2
<1>4. SUFFICES ASSUME NEW p \in Nodes, Shape[p] = "object", NEW i \in DOMAIN Kids[p],
                      NEW j \in DOMAIN Kids[p], i < j, Started(F, kd2, as, Kids[p][j]),
                      NEW w \in Nodes, Pending(F, as, w)
               PROVE  ~Below(w, Kids[p][i])
  BY DEF Serial, kd2
<1>5. Kids[p][j] \in Nodes /\ Kids[p][i] \in Nodes /\ Parent[Kids[p][i]] = p
  BY KidFacts
<1>6. Started({h} \cup Frs(s), kd, as, Kids[p][j])
  BY <1>3, <1>4, <1>5
<1>7. \A y \in Nodes : Pending({h} \cup Frs(s), as, y) => ~Below(y, Kids[p][i])
  BY <1>0, <1>4, <1>6 DEF Serial
<1>8. CASE \E g \in Frs(s) : Waits(g, w)
  BY <1>7, <1>8 DEF Pending
<1>9. CASE \E l \in DOMAIN Kids[n] : w = Kids[n][l]
  <2>1. PICK l \in DOMAIN Kids[n] : w = Kids[n][l]
    BY <1>9
  <2>2. Parent[w] = n /\ Anc[w] = {n} \cup Anc[n]
    BY <2>1, KidFacts, AncOfKid
  <2>3. SUFFICES ASSUME Below(w, Kids[p][i]) PROVE FALSE
    OBVIOUS
  <2>4. CASE w = Kids[p][i]
    <3>1. p = n
      BY <1>5, <2>2, <2>4
    <3> DEFINE y == Kids[n][j]
    <3>2. n \in Anc[y] /\ y \in Nodes /\ y # n
      BY <1>5, <3>1, AncOfKid, AncIrreflexive
    <3>3. kd2[y] = "none" /\ as[y] = "none"
      BY <1>0, <1>2, <3>2 DEF Untouched
    <3>4. ~\E f \in F : Runs(f, y)
      <4>1. SUFFICES ASSUME NEW g \in Frs(s), Runs(g, y) PROVE FALSE
        BY <3>2
      <4>2. Waits(g, y)
        BY <4>1 DEF Runs, Waits
      <4> QED
        BY <1>0, <3>2, <4>2 DEF Incomparable, Below
    <3> QED
      BY <1>4, <3>1, <3>3, <3>4 DEF Started
  <2>5. CASE Kids[p][i] \in Anc[w]
    <3>1. Below(n, Kids[p][i])
      BY <2>2, <2>5 DEF Below
    <3> QED
      BY <1>1, <1>7, <3>1 DEF Pending
  <2> QED
    BY <2>3, <2>4, <2>5 DEF Below
<1> QED
  BY <1>4, <1>8, <1>9 DEF Pending, NoneLive

\* Setting the kind of the node in hand touches nothing else.
LEMMA TouchesKind ==
  ASSUME NEW kd \in [Nodes -> Kinds], NEW as, NEW rf \in [Nodes -> Nat], NEW er, NEW k, NEW n \in Nodes,
         NoneLive(as)
  PROVE  Touches(n, kd, as, rf, er, [kd EXCEPT ![n] = k], as, rf, er)
<1> DEFINE kd2 == [kd EXCEPT ![n] = k]
<1>1. \A m \in Nodes : m # n => kd2[m] = kd[m]
  OBVIOUS
<1>2. \A m \in Anc[n] : m \in Nodes /\ m # n
  BY AncInNodes, AncIrreflexive
<1>3. rf[Owner[n]] \in Nat /\ rf[Owner[n]] >= rf[Owner[n]]
  BY OwnerFacts
<1> HIDE DEF kd2
<1>4. Touches(n, kd, as, rf, er, kd2, as, rf, er)
  BY <1>1, <1>2, <1>3 DEF Touches, NoneLive
<1> QED
  BY <1>4 DEF kd2

\* What is known of a child of n when n has got its kind.
LEMMA KidAfter ==
  ASSUME NEW kd, NEW as, NEW rf, NEW er, NEW kd2,
         NEW n \in Nodes, NEW j \in DOMAIN Kids[n],
         Untouched(n, kd, as, rf), Explained(n, kd, er),
         Touches(n, kd, as, rf, er, kd2, as, rf, er), kd2[n] \notin {"none", "nil"}
  PROVE  /\ kd2[Kids[n][j]] = "none" /\ as[Kids[n][j]] = "none" /\ rf[Kids[n][j]] = 0
         /\ Untouched(Kids[n][j], kd2, as, rf) /\ Explained(Kids[n][j], kd2, er)
<1> DEFINE y == Kids[n][j]
<1>1. y \in Nodes /\ Anc[y] = {n} \cup Anc[n] /\ y # n
  BY KidFacts, AncOfKid, AncIrreflexive
<1> HIDE DEF y
<1>2. ASSUME NEW m \in Nodes, n \in Anc[m] PROVE kd2[m] = kd[m]
  <2>1. m # n /\ m \notin Anc[n]
    BY <1>2, AncTransitive, AncIrreflexive
  <2> QED
    BY <2>1 DEF Touches
<1>3. kd2[y] = "none" /\ as[y] = "none" /\ rf[y] = 0
  BY <1>1, <1>2 DEF Untouched
<1>4. Untouched(y, kd2, as, rf)
  <2>1. SUFFICES ASSUME NEW m \in Nodes, y \in Anc[m]
                 PROVE  kd2[m] = "none" /\ as[m] = "none" /\ rf[m] = 0
    BY DEF Untouched
  <2>2. n \in Anc[m]
    BY <1>1, <2>1, AncTransitive
  <2> QED
    BY <1>2, <2>2 DEF Untouched
<1>5. Explained(y, kd2, er)
  <2>1. Explained(n, kd2, er)
    BY AncIrreflexive, ExplainedAfter
  <2> QED
    BY <1>1, <2>1 DEF Explained
<1> QED
  BY <1>3, <1>4, <1>5 DEF y

\* dispatchTasksForObject and the loop over elements start.
LEMMA StartLoop ==
  ASSUME NEW kd \in [Nodes -> Kinds], NEW as, NEW rf \in [Nodes -> Nat], NEW er, NEW nl,
         NEW k \in Kinds \ {"none", "nil"}, NEW n \in Nodes, NEW s \in Seq(Frames),
         NEW op \in {"fields", "elements"},
         Sound(<<InHand(n)>> \o s, kd, as, rf, er), NoneLive(as),
         Accounted(<<InHand(n)>> \o s, kd, as, er, nl),
         FrameOK(Call(op, n)),
         op = "elements" => \E g \in Frs(s) : Releases(g, Owner[n])
  PROVE  /\ Sound(<<Call(op, n)>> \o s, [kd EXCEPT ![n] = k], as, rf, er)
         /\ Accounted(<<Call(op, n)>> \o s, [kd EXCEPT ![n] = k], as, er, nl)
<1> DEFINE x == Call(op, n)
<1>0. PICK kd2 \in [Nodes -> Kinds] : kd2 = [kd EXCEPT ![n] = k]
  OBVIOUS
<1>1. /\ Untouched(n, kd, as, rf) /\ Explained(n, kd, er)
      /\ \A g \in Frs(s), w \in Nodes : Waits(g, w) => Incomparable(n, w)
      /\ \A g \in Frs(s) : g.op = "elements" => n \notin Anc[g.n]
  BY HandFacts
<1>2. Touches(n, kd, as, rf, er, kd2, as, rf, er)
  BY <1>0, TouchesKind
<1>3. Sound(s, kd2, as, rf, er)
  BY <1>2, SoundAfter
<1>4. x \in Frames /\ x.op = op /\ x.n = n /\ x.i = 1
  BY DEF Call, Frames
<1>5. FrameOK(x)
  OBVIOUS
<1> HIDE DEF x
<1>6. \A w \in Nodes : Waits(x, w) <=> \E j \in DOMAIN Kids[n] : w = Kids[n][j]
  <2>1. \A j \in DOMAIN Kids[n] : j >= 1
    BY TreeAssumption
  <2> QED
    BY <1>4, <2>1 DEF Waits
<1>7. \A w \in Nodes : (Covers(x, w) <=> w = n) /\ ~Runs(x, w) /\ ~Holds(x, w)
  BY <1>4 DEF Covers, Runs, Holds
<1>8. Fits(x, s, kd2, as, rf, er)
  <2>0. ASSUME NEW w \in Nodes, Waits(x, w)
        PROVE  /\ kd2[w] = "none" /\ as[w] = "none" /\ rf[w] = 0
               /\ Untouched(w, kd2, as, rf) /\ Explained(w, kd2, er)
    <3>1. PICK j \in DOMAIN Kids[n] : w = Kids[n][j]
      BY <1>6, <2>0
    <3>2. /\ kd2[Kids[n][j]] = "none" /\ as[Kids[n][j]] = "none" /\ rf[Kids[n][j]] = 0
          /\ Untouched(Kids[n][j], kd2, as, rf) /\ Explained(Kids[n][j], kd2, er)
      <4>1. kd2[n] \notin {"none", "nil"}
        BY <1>0
      <4> QED
        BY <1>1, <1>2, <4>1, KidAfter
    <3> QED
      BY <3>1, <3>2
  <2>1. Fresh(x, kd2, as, rf)
    <3>1. kd2[x.n] # "none"
      BY <1>0, <1>4
    <3> QED
      BY <2>0, <3>1 DEF Fresh
  <2>2. ASSUME NEW y \in Nodes, MayFail(x, y) PROVE Explained(y, kd2, er)
    <3>1. CASE Waits(x, y)
      BY <2>0, <3>1
    <3>2. CASE y = n
      BY <1>1, <1>2, <3>2, AncIrreflexive, ExplainedAfter
    <3> QED
      BY <1>4, <2>2, <3>1, <3>2 DEF MayFail
  <2>3. \A g \in Frs(s) : Apart(x, g)
    BY <1>1, <1>4, <1>7 DEF Apart
  <2>4. Serial({x} \cup Frs(s), kd2, as)
    <3>1. \A m \in Nodes : (\E f \in {x} \cup Frs(s) : Runs(f, m)) => \E g \in Frs(s) : Runs(g, m)
      BY <1>7
    <3>2. \A w \in Nodes : (\E f \in {x} \cup Frs(s) : Waits(f, w)) =>
            (\E g \in Frs(s) : Waits(g, w)) \/ (\E j \in DOMAIN Kids[n] : w = Kids[n][j])
      BY <1>6
    <3> QED
      BY <1>0, <3>1, <3>2, SerialKids
  <2> QED
    BY <1>4, <1>5, <1>7, <2>1, <2>2, <2>3, <2>4 DEF Fits, NoneLive
<1>9. Sound(<<x>> \o s, kd2, as, rf, er)
  BY <1>3, <1>8, SoundPush
<1>10. Accounted(<<x>> \o s, kd2, as, er, nl)
  <2> DEFINE u == <<x>> \o s
  <2>1. Frs(u) = {x} \cup Frs(s)
    BY <1>4, PushSeq
  <2> HIDE DEF u
  <2>2. \A g \in Frs(s), w \in Nodes : Waits(g, w) => Pending(Frs(u), as, w)
    BY <2>1 DEF Pending
  <2>3. \A j \in DOMAIN Kids[n] : Pending(Frs(u), as, Kids[n][j])
    BY <1>6, <2>1, KidFacts DEF Pending
  <2>4. kd2[n] = k
    BY <1>0
  <2>5. Accounted(u, kd2, as, er, nl)
    BY <1>2, <2>2, <2>3, <2>4, AccountedAfter
  <2> QED
    BY <2>5 DEF u
<1> QED
  BY <1>0, <1>9, <1>10 DEF x

\* The frame of completeWrappingValue with its queue
LEMMA QueueCall ==
  ASSUME NEW n \in Nodes, NEW q \in Seq(Nodes)
  PROVE  LET f == CallQueue(n, q)
         IN  /\ f \in Frames /\ f.op = "queue" /\ f.n = n /\ f.queue = q
             /\ \A w \in Nodes : /\ Waits(f, w) <=> \E j \in DOMAIN q : w = q[j]
                                 /\ Covers(f, w) <=> \E j \in DOMAIN q : w = q[j]
                                 /\ ~Runs(f, w) /\ ~Holds(f, w)
                                 /\ MayFail(f, w) <=> Waits(f, w)
<1> DEFINE f == CallQueue(n, q)
<1>1. f \in Frames /\ f.op = "queue" /\ f.n = n /\ f.queue = q
  BY DEF CallQueue, Call, Frames
<1> HIDE DEF f
<1>2. \A w \in Nodes : /\ Waits(f, w) <=> \E j \in DOMAIN q : w = q[j]
                       /\ Covers(f, w) <=> \E j \in DOMAIN q : w = q[j]
                       /\ ~Runs(f, w) /\ ~Holds(f, w)
  BY <1>1 DEF Waits, Covers, Runs, Holds
<1>3. \A w \in Nodes : MayFail(f, w) <=> Waits(f, w)
  BY <1>1 DEF MayFail
<1> QED
  BY <1>1, <1>2, <1>3 DEF f

\* The elements of the list n are queued.
LEMMA StartQueue ==
  ASSUME NEW kd \in [Nodes -> Kinds], NEW as, NEW rf \in [Nodes -> Nat], NEW er, NEW nl,
         NEW n \in Nodes, NEW q \in Seq(Nodes), NEW s \in Seq(Frames), Shape[n] = "list",
         Sound(<<InHand(n)>> \o (<<CallQueue(n, q)>> \o s), kd, as, rf, er), NoneLive(as),
         Accounted(<<InHand(n)>> \o (<<CallQueue(n, q)>> \o s), kd, as, er, nl)
  PROVE  /\ Sound(<<CallQueue(n, q \o Kids[n])>> \o s, [kd EXCEPT ![n] = "list"], as, rf, er)
         /\ Accounted(<<CallQueue(n, q \o Kids[n])>> \o s, [kd EXCEPT ![n] = "list"], as, er, nl)
<1> DEFINE y == CallQueue(n, q)
           x == CallQueue(n, q \o Kids[n])
           u == <<y>> \o s
<1>0. PICK kd2 \in [Nodes -> Kinds] : kd2 = [kd EXCEPT ![n] = "list"]
  BY DEF Kinds
<1>1. Kids[n] \in Seq(Nodes) /\ q \o Kids[n] \in Seq(Nodes)
  <2>1. Kids[n] \in Seq(Nodes \ {Root})
    BY TreeAssumption
  <2>2. Kids[n] \in Seq(Nodes)
    BY <2>1
  <2> QED
    BY <2>2
<1>2. /\ y \in Frames /\ y.op = "queue" /\ y.n = n /\ y.queue = q
      /\ \A w \in Nodes : /\ Waits(y, w) <=> \E j \in DOMAIN q : w = q[j]
                          /\ ~Runs(y, w)
                          /\ MayFail(y, w) <=> Waits(y, w)
  BY QueueCall
<1>3. /\ x \in Frames /\ x.op = "queue" /\ x.n = n /\ x.queue = q \o Kids[n]
      /\ \A w \in Nodes : /\ Waits(x, w) <=> \E j \in DOMAIN (q \o Kids[n]) : w = (q \o Kids[n])[j]
                          /\ Covers(x, w) <=> Waits(x, w)
                          /\ ~Runs(x, w) /\ ~Holds(x, w)
                          /\ MayFail(x, w) <=> Waits(x, w)
  <2>1. PICK r \in Seq(Nodes) : r = q \o Kids[n]
    BY <1>1
  <2>2. x = CallQueue(n, r)
    BY <2>1
  <2> HIDE DEF x
  <2>3. /\ x \in Frames /\ x.op = "queue" /\ x.n = n /\ x.queue = r
        /\ \A w \in Nodes : /\ Waits(x, w) <=> \E j \in DOMAIN r : w = r[j]
                            /\ Covers(x, w) <=> Waits(x, w)
                            /\ ~Runs(x, w) /\ ~Holds(x, w)
                            /\ MayFail(x, w) <=> Waits(x, w)
    BY <2>2, QueueCall
  <2> QED
    BY <2>1, <2>3
<1>4. u \in Seq(Frames) /\ Frs(u) = {y} \cup Frs(s)
  BY <1>2, PushSeq
<1>5. Sound(<<InHand(n)>> \o u, kd, as, rf, er) /\ Accounted(<<InHand(n)>> \o u, kd, as, er, nl)
  OBVIOUS
<1>5a. <<y>> \o s = u
  OBVIOUS
<1> HIDE DEF x, y, u
<1>6. /\ Untouched(n, kd, as, rf) /\ Explained(n, kd, er)
      /\ \A g \in Frs(u), w \in Nodes : Waits(g, w) => Incomparable(n, w)
  BY <1>4, <1>5, HandFacts
<1>7. Touches(n, kd, as, rf, er, kd2, as, rf, er)
  BY <1>0, TouchesKind
<1>8. Sound(u, kd2, as, rf, er)
  BY <1>4, <1>5, <1>7, SoundAfter
<1>9. Sound(s, kd2, as, rf, er) /\ Fits(y, s, kd2, as, rf, er)
  BY <1>2, <1>5a, <1>8, SoundPop
<1>10. ASSUME NEW j \in DOMAIN (q \o Kids[n])
       PROVE  \/ j \in DOMAIN q /\ (q \o Kids[n])[j] = q[j]
              \/ /\ j \notin DOMAIN q /\ j - Len(q) \in DOMAIN Kids[n]
                 /\ (q \o Kids[n])[j] = Kids[n][j - Len(q)]
  BY <1>1
<1>11. \A w \in Nodes : Waits(x, w) <=> Waits(y, w) \/ \E j \in DOMAIN Kids[n] : w = Kids[n][j]
  <2>1. ASSUME NEW j \in DOMAIN q PROVE j \in DOMAIN (q \o Kids[n]) /\ (q \o Kids[n])[j] = q[j]
    BY <1>1
  <2>2. ASSUME NEW j \in DOMAIN Kids[n]
        PROVE  Len(q) + j \in DOMAIN (q \o Kids[n]) /\ (q \o Kids[n])[Len(q) + j] = Kids[n][j]
    BY <1>1
  <2>3. ASSUME NEW w \in Nodes, Waits(x, w) PROVE Waits(y, w) \/ \E j \in DOMAIN Kids[n] : w = Kids[n][j]
    <3>1. PICK j \in DOMAIN (q \o Kids[n]) : w = (q \o Kids[n])[j]
      BY <1>3, <2>3
    <3> QED
      BY <1>2, <1>10, <3>1
  <2>4. ASSUME NEW w \in Nodes, Waits(y, w) PROVE Waits(x, w)
    <3>1. PICK j \in DOMAIN q : w = q[j]
      BY <1>2, <2>4
    <3> QED
      BY <1>3, <2>1, <3>1
  <2>5. ASSUME NEW w \in Nodes, NEW j \in DOMAIN Kids[n], w = Kids[n][j] PROVE Waits(x, w)
    BY <1>3, <2>2, <2>5
  <2> QED
    BY <2>3, <2>4, <2>5
<1>12. \A w \in Nodes : Waits(y, w) => Incomparable(n, w)
  BY <1>4, <1>6
<1>13. FrameOK(x)
  <2>0. FrameOK(y)
    BY <1>9 DEF Fits
  <2>1. ASSUME NEW j \in DOMAIN Kids[n]
        PROVE  IsElement(Kids[n][j]) /\ Owner[Kids[n][j]] = Owner[n]
    <3>1. Kids[n][j] \in Nodes /\ Kids[n][j] # Root /\ Parent[Kids[n][j]] = n
      BY KidFacts
    <3>2. IsElement(Kids[n][j])
      BY <3>1 DEF IsElement
    <3> QED
      BY <3>1, <3>2, OwnerFacts
  <2>2. ASSUME NEW j \in DOMAIN q PROVE IsElement(q[j]) /\ Owner[q[j]] = Owner[n]
    BY <1>2, <2>0 DEF FrameOK
  <2>3. ASSUME NEW i \in DOMAIN q, NEW j \in DOMAIN q, i # j PROVE Incomparable(q[i], q[j])
    BY <1>2, <2>0, <2>3 DEF FrameOK
  <2>4. ASSUME NEW i \in DOMAIN q, NEW j \in DOMAIN Kids[n]
        PROVE  Incomparable(q[i], Kids[n][j]) /\ Incomparable(Kids[n][j], q[i])
    <3>1. q[i] \in Nodes
      OBVIOUS
    <3>2. Incomparable(n, q[i])
      BY <1>2, <1>12, <3>1
    <3> QED
      BY <3>1, <3>2, KidIncomparable, IncomparableSymmetric
  <2> DEFINE r == q \o Kids[n]
  <2>5. ASSUME NEW j \in DOMAIN r PROVE IsElement(r[j]) /\ Owner[r[j]] = Owner[n]
    BY <1>10, <2>1, <2>2
  <2>6. ASSUME NEW i \in DOMAIN r, NEW j \in DOMAIN r, i # j PROVE Incomparable(r[i], r[j])
    <3>0. i \in Nat /\ j \in Nat /\ Len(q) \in Nat
      BY <1>1
    <3>1. CASE i \in DOMAIN q /\ j \in DOMAIN q
      BY <1>10, <2>3, <2>6, <3>1
    <3>2. CASE i \in DOMAIN q /\ j \notin DOMAIN q
      BY <1>10, <2>4, <3>2
    <3>3. CASE i \notin DOMAIN q /\ j \in DOMAIN q
      BY <1>10, <2>4, <3>3
    <3>4. CASE i \notin DOMAIN q /\ j \notin DOMAIN q
      <4>1. i - Len(q) # j - Len(q)
        BY <2>6, <3>0
      <4>2. i - Len(q) \in DOMAIN Kids[n] /\ r[i] = Kids[n][i - Len(q)]
        BY <1>10, <3>4
      <4>3. j - Len(q) \in DOMAIN Kids[n] /\ r[j] = Kids[n][j - Len(q)]
        BY <1>10, <3>4
      <4>4. Incomparable(Kids[n][i - Len(q)], Kids[n][j - Len(q)])
        BY <4>1, <4>2, <4>3, Siblings
      <4> QED
        BY <4>2, <4>3, <4>4
    <3> QED
      BY <3>1, <3>2, <3>3, <3>4
  <2> QED
    BY <1>3, <2>5, <2>6 DEF FrameOK
<1>14. Fits(x, s, kd2, as, rf, er)
  <2>0. ASSUME NEW w \in Nodes, Waits(x, w)
        PROVE  /\ kd2[w] = "none" /\ as[w] = "none" /\ rf[w] = 0
               /\ Untouched(w, kd2, as, rf) /\ Explained(w, kd2, er)
    <3>1. CASE Waits(y, w)
      BY <1>2, <1>9, <3>1 DEF Fits, Fresh
    <3>2. CASE \E j \in DOMAIN Kids[n] : w = Kids[n][j]
      <4>1. PICK j \in DOMAIN Kids[n] : w = Kids[n][j]
        BY <3>2
      <4>2. kd2[n] \notin {"none", "nil"}
        BY <1>0
      <4>3. /\ kd2[Kids[n][j]] = "none" /\ as[Kids[n][j]] = "none" /\ rf[Kids[n][j]] = 0
            /\ Untouched(Kids[n][j], kd2, as, rf) /\ Explained(Kids[n][j], kd2, er)
        BY <1>6, <1>7, <4>2, KidAfter
      <4> QED
        BY <4>1, <4>3
    <3> QED
      BY <1>11, <2>0, <3>1, <3>2
  <2>1. Fresh(x, kd2, as, rf)
    BY <1>3, <2>0 DEF Fresh
  <2>2. \A w \in Nodes : MayFail(x, w) => Explained(w, kd2, er)
    BY <1>3, <2>0
  <2>3. ASSUME NEW g \in Frs(s) PROVE Apart(x, g)
    <3>1. SUFFICES ASSUME NEW v \in Nodes, NEW w \in Nodes, Waits(x, v), Waits(g, w)
                   PROVE  Incomparable(v, w)
      BY <1>3 DEF Apart
    <3>2. CASE Waits(y, v)
      <4>1. Covers(y, v)
        BY <1>2, <3>2 DEF Covers
      <4> QED
        BY <1>9, <3>1, <4>1 DEF Fits, Apart
    <3>3. CASE \E j \in DOMAIN Kids[n] : v = Kids[n][j]
      <4>1. Incomparable(n, w)
        BY <1>4, <1>6, <3>1
      <4> QED
        BY <3>3, <4>1, KidIncomparable
    <3> QED
      BY <1>11, <3>1, <3>2, <3>3
  <2>4. \E g \in Frs(s) : Releases(g, Owner[x.n])
    BY <1>2, <1>3, <1>9 DEF Fits
  <2>5. Serial({x} \cup Frs(s), kd2, as)
    <3>1. \A m \in Nodes : (\E f \in {x} \cup Frs(s) : Runs(f, m)) => \E g \in Frs(u) : Runs(g, m)
      BY <1>3, <1>4
    <3>2. \A w \in Nodes : (\E f \in {x} \cup Frs(s) : Waits(f, w)) =>
            (\E g \in Frs(u) : Waits(g, w)) \/ (\E j \in DOMAIN Kids[n] : w = Kids[n][j])
      BY <1>4, <1>11
    <3> QED
      BY <1>0, <1>4, <1>5, <3>1, <3>2, SerialKids
  <2> QED
    BY <1>3, <1>13, <2>1, <2>2, <2>3, <2>4, <2>5 DEF Fits, NoneLive
<1>15. Sound(<<x>> \o s, kd2, as, rf, er)
  BY <1>9, <1>14, SoundPush
<1>16. Accounted(<<x>> \o s, kd2, as, er, nl)
  <2> DEFINE v == <<x>> \o s
  <2>1. Frs(v) = {x} \cup Frs(s)
    BY <1>3, PushSeq
  <2> HIDE DEF v
  <2>2. \A g \in Frs(u), w \in Nodes : Waits(g, w) => Pending(Frs(v), as, w)
    BY <1>4, <1>11, <2>1 DEF Pending
  <2>3. \A j \in DOMAIN Kids[n] : Pending(Frs(v), as, Kids[n][j])
    BY <1>11, <2>1, KidFacts DEF Pending
  <2>4. kd2[n] = "list"
    BY <1>0
  <2>5. Accounted(v, kd2, as, er, nl)
    BY <1>4, <1>5, <1>7, <2>2, <2>3, <2>4, AccountedAfter
  <2> QED
    BY <2>5 DEF v
<1> QED
  BY <1>0, <1>15, <1>16 DEF x

-----------------------------------------------------------------------------
(* What is accounted for, when frames come and go *)

\* A frame more does no harm.
LEMMA AccountedPush ==
  ASSUME NEW kd, NEW as, NEW er, NEW nl, NEW s \in Seq(Frames), NEW x \in Frames,
         Accounted(s, kd, as, er, nl)
  PROVE  Accounted(<<x>> \o s, kd, as, er, nl)
<1> DEFINE u == <<x>> \o s
<1>1. Frs(u) = {x} \cup Frs(s)
  BY PushSeq
<1> HIDE DEF u
<1>2. \A w \in Nodes : Shown(w, kd) /\ Pending(Frs(s), as, w) => Pending(Frs(u), as, w)
  BY <1>1 DEF Pending
<1>3. Accounted(u, kd, as, er, nl)
  BY <1>2, AccountedLess
<1> QED
  BY <1>3 DEF u

\* A frame that completes nothing visible may go.
LEMMA AccountedDrop ==
  ASSUME NEW kd, NEW as, NEW er, NEW nl, NEW s \in Seq(Frames), NEW x \in Frames,
         Accounted(<<x>> \o s, kd, as, er, nl), \A w \in Nodes : Waits(x, w) => ~Shown(w, kd)
  PROVE  Accounted(s, kd, as, er, nl)
<1> DEFINE u == <<x>> \o s
<1>1. Frs(u) = {x} \cup Frs(s)
  BY PushSeq
<1>2. Accounted(u, kd, as, er, nl)
  OBVIOUS
<1> HIDE DEF u
<1>3. \A w \in Nodes : Shown(w, kd) /\ Pending(Frs(u), as, w) => Pending(Frs(s), as, w)
  BY <1>1 DEF Pending
<1> QED
  BY <1>2, <1>3, AccountedLess

\* A frame may be replaced by one that completes as much,
LEMMA AccountedReplace ==
  ASSUME NEW kd, NEW as, NEW er, NEW nl, NEW s \in Seq(Frames), NEW x \in Frames, NEW y \in Frames,
         Accounted(<<x>> \o s, kd, as, er, nl), \A w \in Nodes : Waits(x, w) => Waits(y, w)
  PROVE  Accounted(<<y>> \o s, kd, as, er, nl)
<1> DEFINE u == <<x>> \o s
           v == <<y>> \o s
<1>1. Frs(u) = {x} \cup Frs(s) /\ Frs(v) = {y} \cup Frs(s)
  BY PushSeq
<1>2. Accounted(u, kd, as, er, nl)
  OBVIOUS
<1> HIDE DEF u, v
<1>3. \A w \in Nodes : Shown(w, kd) /\ Pending(Frs(u), as, w) => Pending(Frs(v), as, w)
  BY <1>1 DEF Pending
<1>4. Accounted(v, kd, as, er, nl)
  BY <1>2, <1>3, AccountedLess
<1> QED
  BY <1>4 DEF v

\* or by two that do so together.
LEMMA AccountedSplit ==
  ASSUME NEW kd, NEW as, NEW er, NEW nl, NEW s \in Seq(Frames), NEW x \in Frames, NEW y \in Frames,
         NEW z \in Frames,
         Accounted(<<x>> \o s, kd, as, er, nl), \A w \in Nodes : Waits(x, w) => Waits(y, w) \/ Waits(z, w)
  PROVE  Accounted(<<y>> \o (<<z>> \o s), kd, as, er, nl)
<1> DEFINE u == <<x>> \o s
           t == <<z>> \o s
           v == <<y>> \o t
<1>1. Frs(u) = {x} \cup Frs(s) /\ Frs(t) = {z} \cup Frs(s) /\ t \in Seq(Frames)
  BY PushSeq
<1> HIDE DEF t
<1>2. Frs(v) = {y} \cup Frs(t)
  BY <1>1, PushSeq
<1>3. Accounted(u, kd, as, er, nl)
  OBVIOUS
<1> HIDE DEF u, v
<1>4. \A w \in Nodes : Shown(w, kd) /\ Pending(Frs(u), as, w) => Pending(Frs(v), as, w)
  BY <1>1, <1>2 DEF Pending
<1>5. Accounted(v, kd, as, er, nl)
  BY <1>3, <1>4, AccountedLess
<1> QED
  BY <1>5 DEF t, v

-----------------------------------------------------------------------------
(* Taking a node in hand *)

\* What the invariant says of the stack and the tree
Good(s, kd, as, rf, er, nl) == Sound(s, kd, as, rf, er) /\ Accounted(s, kd, as, er, nl)

\* The frame of the node in hand
LEMMA HandCall ==
  ASSUME NEW n \in Nodes
  PROVE  /\ InHand(n) \in Frames /\ InHand(n).op = "hand" /\ InHand(n).n = n /\ FrameOK(InHand(n))
         /\ \A w \in Nodes : /\ Waits(InHand(n), w) <=> w = n
                             /\ Covers(InHand(n), w) <=> w = n
                             /\ Runs(InHand(n), w) <=> w = n
                             /\ ~Holds(InHand(n), w)
<1> DEFINE h == InHand(n)
<1>1. h \in Frames /\ h.op = "hand" /\ h.n = n
  BY DEF InHand, Call, Frames
<1> HIDE DEF h
<1>2. FrameOK(h)
  BY <1>1 DEF FrameOK
<1>3. \A w \in Nodes : /\ Waits(h, w) <=> w = n
                       /\ Covers(h, w) <=> w = n
                       /\ Runs(h, w) <=> w = n
                       /\ ~Holds(h, w)
  BY <1>1 DEF Waits, Covers, Runs, Holds
<1> QED
  BY <1>1, <1>2, <1>3 DEF h

\* The frame that releases a task
LEMMA ReleaseCall ==
  ASSUME NEW n \in Nodes, ~IsElement(n)
  PROVE  LET f == Call("release", n)
         IN  /\ f \in Frames /\ f.op = "release" /\ f.n = n /\ FrameOK(f)
             /\ \A w \in Nodes : /\ ~Waits(f, w) /\ ~Covers(f, w) /\ ~Runs(f, w)
                                 /\ Holds(f, w) <=> w = n
<1> DEFINE f == Call("release", n)
<1>1. f \in Frames /\ f.op = "release" /\ f.n = n
  BY DEF Call, Frames
<1> HIDE DEF f
<1>2. FrameOK(f)
  BY <1>1 DEF FrameOK
<1>3. \A w \in Nodes : /\ ~Waits(f, w) /\ ~Covers(f, w) /\ ~Runs(f, w)
                       /\ Holds(f, w) <=> w = n
  BY <1>1 DEF Waits, Covers, Runs, Holds
<1> QED
  BY <1>1, <1>2, <1>3 DEF f

\* ExecuteNodeTask.run, and AsyncValueTask.run with a value: the node is in hand, and what remains
\* begins with the release of its task.
LEMMA HandRun ==
  ASSUME NEW kd, NEW as, NEW rf \in [Nodes -> Nat], NEW er, NEW nl, NEW s \in Seq(Frames),
         NEW x \in Frames, x.op \in {"run", "value"}, Good(<<x>> \o s, kd, as, rf, er, nl)
  PROVE  LET r == <<Call("release", Owner[x.n])>> \o s
         IN  /\ r \in Seq(Frames) /\ Good(<<InHand(x.n)>> \o r, kd, as, rf, er, nl)
             /\ \E g \in Frs(r) : Releases(g, Owner[x.n])
<1> DEFINE y == InHand(x.n)
           z == Call("release", Owner[x.n])
<1>0. x.n \in Nodes /\ Owner[x.n] \in Nodes /\ ~IsElement(Owner[x.n])
  BY OwnerFacts DEF Frames
<1>1. /\ y \in Frames /\ y.op = "hand" /\ y.n = x.n /\ FrameOK(y)
      /\ \A w \in Nodes : /\ Waits(y, w) <=> w = x.n
                          /\ Covers(y, w) <=> w = x.n
                          /\ Runs(y, w) <=> w = x.n
                          /\ ~Holds(y, w)
  BY <1>0, HandCall
<1>2. /\ z \in Frames /\ z.op = "release" /\ z.n = Owner[x.n] /\ FrameOK(z)
      /\ \A w \in Nodes : /\ ~Waits(z, w) /\ ~Covers(z, w) /\ ~Runs(z, w)
                          /\ Holds(z, w) <=> w = Owner[x.n]
  BY <1>0, ReleaseCall
<1>3. Sound(<<x>> \o s, kd, as, rf, er) /\ Accounted(<<x>> \o s, kd, as, er, nl)
  BY DEF Good
<1>4. FrameOK(x)
  BY <1>3, SoundPop DEF Fits
<1>5. x.op = "run" => Owner[x.n] = x.n
  BY <1>0, <1>4, OwnerFacts DEF FrameOK
<1>6. \A w \in Nodes : /\ Waits(x, w) <=> w = x.n
                       /\ Covers(x, w) <=> w = x.n
                       /\ Runs(x, w) <=> w = x.n
                       /\ Holds(x, w) <=> w = Owner[x.n]
  BY <1>5 DEF Waits, Covers, Runs, Holds
<1> HIDE DEF y, z
<1>7. Less(y, x)
  BY <1>1, <1>6 DEF Less
<1>8. Less(z, x)
  BY <1>2, <1>6 DEF Less
<1>9. Apart(y, z)
  BY <1>1, <1>2 DEF Apart
<1> DEFINE r == <<z>> \o s
<1>10. Sound(<<y>> \o r, kd, as, rf, er) /\ r \in Seq(Frames)
  BY <1>1, <1>3, <1>7, <1>8, <1>9, SoundSplit
<1>11. Accounted(<<y>> \o r, kd, as, er, nl)
  BY <1>1, <1>2, <1>3, <1>6, AccountedSplit
<1>12. \E g \in Frs(r) : Releases(g, Owner[x.n])
  BY <1>2, PushSeq DEF Releases
<1> QED
  BY <1>10, <1>11, <1>12 DEF y, z, Good

\* Poll's own error path: nothing is released.
LEMMA HandValue ==
  ASSUME NEW kd, NEW as, NEW rf \in [Nodes -> Nat], NEW er, NEW nl, NEW s \in Seq(Frames),
         NEW x \in Frames, x.op \in {"value", "execute"}, Good(<<x>> \o s, kd, as, rf, er, nl)
  PROVE  Good(<<InHand(x.n)>> \o s, kd, as, rf, er, nl)
<1> DEFINE y == InHand(x.n)
<1>0. x.n \in Nodes
  BY DEF Frames
<1>1. /\ y \in Frames /\ y.op = "hand" /\ y.n = x.n /\ FrameOK(y)
      /\ \A w \in Nodes : /\ Waits(y, w) <=> w = x.n
                          /\ Covers(y, w) <=> w = x.n
                          /\ Runs(y, w) <=> w = x.n
                          /\ ~Holds(y, w)
  BY <1>0, HandCall
<1>3. Sound(<<x>> \o s, kd, as, rf, er) /\ Accounted(<<x>> \o s, kd, as, er, nl)
  BY DEF Good
<1>4. Fits(x, s, kd, as, rf, er) /\ Sound(s, kd, as, rf, er)
  BY <1>3, SoundPop
<1>5. x.op = "execute" => x.n = Root
  BY <1>4 DEF Fits, FrameOK
<1>6. \A w \in Nodes : /\ Waits(x, w) <=> w = x.n
                       /\ Covers(x, w) <=> w = x.n
                       /\ x.op = "value" => (Runs(x, w) <=> w = x.n)
  BY DEF Waits, Covers, Runs
<1> HIDE DEF y
<1>7. Less(y, x)
  BY <1>1, <1>5, <1>6 DEF Less
<1>8. Sound(<<y>> \o s, kd, as, rf, er)
  BY <1>4, <1>7, FitsLess, SoundPush
<1>9. Accounted(<<y>> \o s, kd, as, er, nl)
  BY <1>1, <1>3, <1>6, AccountedReplace
<1> QED
  BY <1>8, <1>9 DEF y, Good

\* The loop of completeWrappingValue takes the next node from its queue.
LEMMA HandQueue ==
  ASSUME NEW kd, NEW as, NEW rf \in [Nodes -> Nat], NEW er, NEW nl, NEW s \in Seq(Frames),
         NEW x \in Frames, x.op = "queue", x.queue # << >>, Good(<<x>> \o s, kd, as, rf, er, nl)
  PROVE  LET n == Head(x.queue)
             r == <<CallQueue(n, Tail(x.queue))>> \o s
         IN  /\ n \in Nodes /\ Tail(x.queue) \in Seq(Nodes) /\ IsElement(n)
             /\ r \in Seq(Frames) /\ Good(<<InHand(n)>> \o r, kd, as, rf, er, nl)
             /\ \E g \in Frs(s) : Releases(g, Owner[n])
<1>0. x.n \in Nodes /\ x.queue \in Seq(Nodes)
  BY DEF Frames
<1>0a. PICK q0 \in Seq(Nodes) : q0 = x.queue
  BY <1>0
<1>0b. q0 # << >> /\ Len(q0) \in Nat \ {0} /\ Head(q0) \in Nodes /\ Tail(q0) \in Seq(Nodes)
  BY <1>0a
<1>1. PICK q \in Seq(Nodes) : q = Tail(q0)
  BY <1>0b
<1>1a. q = Tail(x.queue)
  BY <1>0a, <1>1
<1>2. PICK n \in Nodes : n = Head(q0)
  BY <1>0b
<1>2z. n = Head(x.queue)
  BY <1>0a, <1>2
<1>2a. x.queue[1] = n /\ 1 \in DOMAIN x.queue
  <2>1. q0[1] = n /\ 1 \in DOMAIN q0
    BY <1>0b, <1>2
  <2> QED
    BY <1>0a, <2>1
<1>2b. \A j \in DOMAIN q : j + 1 \in DOMAIN x.queue /\ j + 1 # 1 /\ x.queue[j + 1] = q[j]
  <2>1. \A j \in DOMAIN q : j + 1 \in DOMAIN q0 /\ j + 1 # 1 /\ q0[j + 1] = q[j]
    BY <1>0b, <1>1
  <2> QED
    BY <1>0a, <2>1
<1>2c. \A j \in DOMAIN x.queue : j = 1 \/ (j - 1 \in DOMAIN q /\ x.queue[j] = q[j - 1])
  <2>1. \A j \in DOMAIN q0 : j = 1 \/ (j - 1 \in DOMAIN q /\ q0[j] = q[j - 1])
    BY <1>0b, <1>1
  <2> QED
    BY <1>0a, <2>1
<1> DEFINE y == InHand(n)
           z == CallQueue(n, q)
<1>3. /\ y \in Frames /\ y.op = "hand" /\ y.n = n /\ FrameOK(y)
      /\ \A w \in Nodes : /\ Waits(y, w) <=> w = n
                          /\ Covers(y, w) <=> w = n
                          /\ Runs(y, w) <=> w = n
                          /\ ~Holds(y, w)
  BY HandCall
<1>4. /\ z \in Frames /\ z.op = "queue" /\ z.n = n /\ z.queue = q
      /\ \A w \in Nodes : /\ Waits(z, w) <=> \E j \in DOMAIN q : w = q[j]
                          /\ Covers(z, w) <=> \E j \in DOMAIN q : w = q[j]
                          /\ ~Runs(z, w) /\ ~Holds(z, w)
  BY QueueCall
<1>5. Sound(<<x>> \o s, kd, as, rf, er) /\ Accounted(<<x>> \o s, kd, as, er, nl)
  BY DEF Good
<1>6. Fits(x, s, kd, as, rf, er)
  BY <1>5, SoundPop
<1>7. \A i, j \in DOMAIN x.queue :
        /\ IsElement(x.queue[j]) /\ Owner[x.queue[j]] = Owner[x.n]
        /\ i # j => Incomparable(x.queue[i], x.queue[j])
  BY <1>6 DEF Fits, FrameOK
<1>8. IsElement(n) /\ Owner[n] = Owner[x.n]
  BY <1>2a, <1>7
<1>9. \A w \in Nodes : /\ Waits(x, w) <=> \E j \in DOMAIN x.queue : w = x.queue[j]
                       /\ Covers(x, w) <=> \E j \in DOMAIN x.queue : w = x.queue[j]
  BY DEF Waits, Covers
<1>10. \A j \in DOMAIN q : j \in Nat
  OBVIOUS
<1> HIDE DEF y, z
<1>11. Less(y, x)
  <2>1. Waits(x, n) /\ Covers(x, n)
    BY <1>2a, <1>9
  <2> QED
    BY <1>3, <1>8, <2>1 DEF Less
<1>12. Less(z, x)
  <2>1. FrameOK(z)
    <3>1. ASSUME NEW j \in DOMAIN q PROVE IsElement(q[j]) /\ Owner[q[j]] = Owner[n]
      BY <1>2b, <1>7, <1>8
    <3>2. ASSUME NEW i \in DOMAIN q, NEW j \in DOMAIN q, i # j PROVE Incomparable(q[i], q[j])
      <4>1. i + 1 # j + 1
        BY <1>10, <3>2
      <4>2. Incomparable(x.queue[i + 1], x.queue[j + 1])
        BY <1>2b, <1>7, <4>1
      <4> QED
        BY <1>2b, <4>2
    <3> QED
      BY <1>4, <3>1, <3>2 DEF FrameOK
  <2>2. ASSUME NEW w \in Nodes, \E j \in DOMAIN q : w = q[j]
        PROVE  \E j \in DOMAIN x.queue : w = x.queue[j]
    BY <1>2b, <2>2
  <2> QED
    BY <1>4, <1>8, <1>9, <2>1, <2>2 DEF Less
<1>13. Apart(y, z)
  <2>1. ASSUME NEW j \in DOMAIN q PROVE Incomparable(n, q[j])
    <3>1. Incomparable(x.queue[1], x.queue[j + 1])
      BY <1>2a, <1>2b, <1>7
    <3> QED
      BY <1>2a, <1>2b, <3>1
  <2> QED
    BY <1>3, <1>4, <2>1 DEF Apart
<1> DEFINE r == <<z>> \o s
<1>14. Sound(<<y>> \o r, kd, as, rf, er) /\ r \in Seq(Frames)
  BY <1>3, <1>5, <1>11, <1>12, <1>13, SoundSplit
<1>15. Accounted(<<y>> \o r, kd, as, er, nl)
  <2>1. ASSUME NEW w \in Nodes, Waits(x, w) PROVE Waits(y, w) \/ Waits(z, w)
    <3>1. PICK j \in DOMAIN x.queue : w = x.queue[j]
      BY <1>9, <2>1
    <3> QED
      BY <1>2a, <1>2c, <1>3, <1>4, <3>1
  <2> QED
    BY <1>3, <1>4, <1>5, <2>1, AccountedSplit
<1>16. \E g \in Frs(s) : Releases(g, Owner[n])
  BY <1>6, <1>8 DEF Fits
<1>17. Good(<<y>> \o r, kd, as, rf, er, nl)
  BY <1>14, <1>15 DEF Good
<1> QED
  BY <1>1a, <1>2z, <1>8, <1>14, <1>16, <1>17 DEF y, z

\* A loop in its i-th round
LEMMA LoopCall ==
  ASSUME NEW op \in {"fields", "elements"}, NEW n \in Nodes, NEW i \in Nat \ {0}
  PROVE  /\ CallAt(op, n, i) \in Frames /\ CallAt(op, n, i).op = op
         /\ CallAt(op, n, i).n = n /\ CallAt(op, n, i).i = i
<1>1. CallAt(op, n, i) = [op |-> op, n |-> n, i |-> i, queue |-> << >>]
  BY DEF CallAt, Call
<1> QED
  BY <1>1 DEF Frames

\* The loop over elements takes the next one.
LEMMA HandElement ==
  ASSUME NEW kd, NEW as, NEW rf \in [Nodes -> Nat], NEW er, NEW nl, NEW s \in Seq(Frames),
         NEW x \in Frames, x.op = "elements", x.i <= Len(Kids[x.n]), Good(<<x>> \o s, kd, as, rf, er, nl)
  PROVE  LET n == Kids[x.n][x.i]
             r == <<CallAt("elements", x.n, x.i + 1)>> \o s
         IN  /\ n \in Nodes /\ IsElement(n) /\ Shape[n] # "list" /\ Parent[n] = x.n
             /\ r \in Seq(Frames) /\ Good(<<InHand(n)>> \o r, kd, as, rf, er, nl)
<1>0. x.n \in Nodes /\ x.i \in Nat \ {0}
  BY DEF Frames
<1>1. Kids[x.n] \in Seq(Nodes \ {Root})
  BY <1>0, TreeAssumption
<1>2. x.i \in DOMAIN Kids[x.n] /\ \A j \in DOMAIN Kids[x.n] : j \in Nat
  BY <1>0, <1>1
<1>3. PICK n \in Nodes : n = Kids[x.n][x.i]
  BY <1>0, <1>2, KidFacts
<1>4. n # Root /\ Parent[n] = x.n
  BY <1>0, <1>2, <1>3, KidFacts
<1> DEFINE y == InHand(n)
           z == CallAt("elements", x.n, x.i + 1)
<1>5. /\ y \in Frames /\ y.op = "hand" /\ y.n = n /\ FrameOK(y)
      /\ \A w \in Nodes : /\ Waits(y, w) <=> w = n
                          /\ Covers(y, w) <=> w = n
                          /\ Runs(y, w) <=> w = n
                          /\ ~Holds(y, w)
  BY HandCall
<1>6. z \in Frames /\ z.op = "elements" /\ z.n = x.n /\ z.i = x.i + 1
  <2>1. PICK i \in Nat \ {0} : i = x.i + 1
    BY <1>0
  <2>2. z = CallAt("elements", x.n, i)
    BY <2>1
  <2> HIDE DEF z
  <2> QED
    BY <1>0, <2>1, <2>2, LoopCall
<1>7. Sound(<<x>> \o s, kd, as, rf, er) /\ Accounted(<<x>> \o s, kd, as, er, nl)
  BY DEF Good
<1>8. Fits(x, s, kd, as, rf, er)
  BY <1>7, SoundPop
<1>9. Shape[x.n] = "list" /\ \A j \in DOMAIN Kids[x.n] : Shape[Kids[x.n][j]] # "list"
  BY <1>8 DEF Fits, FrameOK
<1>10. IsElement(n) /\ Shape[n] # "list"
  BY <1>2, <1>3, <1>4, <1>9 DEF IsElement
<1> HIDE DEF y, z
<1>11. \A w \in Nodes :
         /\ Waits(x, w) <=> \E j \in DOMAIN Kids[x.n] : j >= x.i /\ w = Kids[x.n][j]
         /\ Waits(z, w) <=> \E j \in DOMAIN Kids[x.n] : j >= x.i + 1 /\ w = Kids[x.n][j]
         /\ Covers(z, w) <=> w = x.n
         /\ Covers(x, w) <=> w = x.n
         /\ ~Runs(z, w) /\ ~Holds(z, w)
  BY <1>6 DEF Waits, Covers, Runs, Holds
<1>12. FrameOK(z)
  BY <1>6, <1>9 DEF FrameOK
<1>13. Less(z, x)
  <2>1. \A w \in Nodes : Waits(z, w) => Waits(x, w)
    BY <1>0, <1>2, <1>11
  <2> QED
    BY <1>6, <1>11, <1>12, <2>1 DEF Less
<1>14. Sound(s, kd, as, rf, er) /\ Fits(z, s, kd, as, rf, er)
  BY <1>7, <1>8, <1>13, SoundPop, FitsLess
<1>15. PICK r \in Seq(Frames) : r = <<z>> \o s
  BY <1>6, PushSeq
<1>16. Sound(r, kd, as, rf, er) /\ Frs(r) = {z} \cup Frs(s)
  BY <1>6, <1>14, <1>15, SoundPush, PushSeq
<1>17. Fits(y, r, kd, as, rf, er)
  <2>1. Waits(x, n)
    BY <1>0, <1>2, <1>3, <1>11
  <2>2. Fresh(y, kd, as, rf)
    BY <1>5, <1>8, <2>1 DEF Fits, Fresh
  <2>3. \A w \in Nodes : MayFail(y, w) => Explained(w, kd, er)
    BY <1>5, <1>8, <2>1 DEF Fits, MayFail
  <2>4. ASSUME NEW g \in Frs(r) PROVE Apart(y, g)
    <3>1. SUFFICES ASSUME NEW w \in Nodes, Waits(g, w) PROVE Incomparable(n, w)
      BY <1>5 DEF Apart
    <3>2. CASE g = z
      <4>1. PICK j \in DOMAIN Kids[x.n] : j >= x.i + 1 /\ w = Kids[x.n][j]
        BY <1>11, <3>1, <3>2
      <4>2. j # x.i
        BY <1>0, <1>2, <4>1
      <4> QED
        BY <1>0, <1>2, <1>3, <4>1, <4>2, Siblings
    <3>3. CASE g \in Frs(s)
      <4>1. Incomparable(x.n, w)
        BY <1>0, <1>8, <1>11, <3>1, <3>3 DEF Fits, Apart
      <4> QED
        BY <1>0, <1>2, <1>3, <4>1, KidIncomparable
    <3> QED
      BY <1>16, <3>2, <3>3
  <2>5. Serial({y} \cup Frs(r), kd, as)
    <3>1. Serial({x} \cup Frs(s), kd, as)
      BY <1>8 DEF Fits
    <3>2. \A m \in Nodes : (\E g \in {y} \cup Frs(r) : Runs(g, m)) =>
            (\E f \in {x} \cup Frs(s) : Runs(f, m)) \/ IsElement(m) \/ m = Root
      BY <1>5, <1>10, <1>11, <1>16
    <3>3. \A w \in Nodes : (\E g \in {y} \cup Frs(r) : Waits(g, w)) => \E f \in {x} \cup Frs(s) : Waits(f, w)
      BY <1>5, <1>13, <1>16, <2>1 DEF Less
    <3> QED
      BY <3>1, <3>2, <3>3, SerialLess
  <2>6. \A m, w \in Nodes : as[m] = "live" /\ Waits(y, w) => Incomparable(m, w)
    BY <1>5, <1>8, <2>1 DEF Fits
  <2> QED
    BY <1>5, <2>2, <2>3, <2>4, <2>5, <2>6 DEF Fits
<1>18. Sound(<<y>> \o r, kd, as, rf, er)
  BY <1>16, <1>17, SoundPush
<1>19. Accounted(<<y>> \o r, kd, as, er, nl)
  <2>1. ASSUME NEW w \in Nodes, Waits(x, w) PROVE Waits(y, w) \/ Waits(z, w)
    <3>1. PICK j \in DOMAIN Kids[x.n] : j >= x.i /\ w = Kids[x.n][j]
      BY <1>11, <2>1
    <3>2. j = x.i \/ j >= x.i + 1
      BY <1>0, <1>2, <3>1
    <3> QED
      BY <1>3, <1>5, <1>11, <3>1, <3>2
  <2> QED
    BY <1>5, <1>6, <1>7, <1>15, <2>1, AccountedSplit
<1>20. Good(<<y>> \o r, kd, as, rf, er, nl)
  BY <1>18, <1>19 DEF Good
<1> QED
  BY <1>3, <1>4, <1>10, <1>15, <1>20 DEF y, z

-----------------------------------------------------------------------------
(* Frames that complete nothing *)

\* z has nothing to complete and holds no task.
Inert(z) ==
  /\ z \in Frames /\ FrameOK(z) /\ z.op # "elements"
  /\ \A w \in Nodes : ~Waits(z, w) /\ ~Covers(z, w) /\ ~Runs(z, w) /\ ~Holds(z, w)

\* The calls of AsyncValueTask.run and Dispatch
LEMMA InertCall ==
  ASSUME NEW op \in {"poll", "publish", "yield", "tryDispatch", "dispatch", "drain"}, NEW n \in Nodes
  PROVE  Inert(Call(op, n)) /\ Call(op, n).op = op /\ Call(op, n).n = n
<1> DEFINE z == Call(op, n)
<1>1. z \in Frames /\ z.op = op /\ z.n = n
  BY DEF Call, Frames
<1> HIDE DEF z
<1>2. FrameOK(z)
  BY <1>1 DEF FrameOK
<1>3. \A w \in Nodes : ~Waits(z, w) /\ ~Covers(z, w) /\ ~Runs(z, w) /\ ~Holds(z, w)
  BY <1>1 DEF Waits, Covers, Runs, Holds
<1>4. Inert(z)
  BY <1>1, <1>2, <1>3 DEF Inert
<1> QED
  BY <1>1, <1>4 DEF z

\* A queue that is empty
LEMMA InertQueue ==
  ASSUME NEW n \in Nodes
  PROVE  /\ Inert(CallQueue(n, << >>))
         /\ CallQueue(n, << >>).op = "queue" /\ CallQueue(n, << >>).n = n
<1> DEFINE z == CallQueue(n, << >>)
<1>0. << >> \in Seq(Nodes)
  OBVIOUS
<1>1. PICK q \in Seq(Nodes) : q = << >>
  BY <1>0
<1>2. z = CallQueue(n, q)
  BY <1>1
<1> HIDE DEF z
<1>3. /\ z \in Frames /\ z.op = "queue" /\ z.n = n /\ z.queue = q
      /\ \A w \in Nodes : /\ Waits(z, w) <=> \E j \in DOMAIN q : w = q[j]
                          /\ Covers(z, w) <=> \E j \in DOMAIN q : w = q[j]
                          /\ ~Runs(z, w) /\ ~Holds(z, w)
  BY <1>2, QueueCall
<1>4. DOMAIN q = {}
  BY <1>1
<1>5. FrameOK(z)
  BY <1>3, <1>4 DEF FrameOK
<1>6. Inert(z)
  BY <1>3, <1>4, <1>5 DEF Inert
<1> QED
  BY <1>3, <1>6 DEF z

\* An inert frame fits everywhere.
LEMMA InertFits ==
  ASSUME NEW kd, NEW as, NEW rf, NEW er, NEW s, NEW z,
         Sound(s, kd, as, rf, er), Inert(z),
         z.op = "queue" => \E g \in Frs(s) : Releases(g, Owner[z.n])
  PROVE  Fits(z, s, kd, as, rf, er)
<1>1. Serial({z} \cup Frs(s), kd, as)
  <2>1. Serial(Frs(s), kd, as)
    BY DEF Sound
  <2>2. \A m \in Nodes : (\E g \in {z} \cup Frs(s) : Runs(g, m)) =>
          (\E f \in Frs(s) : Runs(f, m)) \/ IsElement(m) \/ m = Root
    BY DEF Inert
  <2>3. \A w \in Nodes : (\E g \in {z} \cup Frs(s) : Waits(g, w)) => \E f \in Frs(s) : Waits(f, w)
    BY DEF Inert
  <2> QED
    BY <2>1, <2>2, <2>3, SerialLess
<1>2. Fresh(z, kd, as, rf)
  BY DEF Inert, Fresh
<1>3. \A y \in Nodes : ~MayFail(z, y)
  BY DEF Inert, MayFail
<1>4. \A g \in Frs(s) : Apart(z, g)
  BY DEF Inert, Apart
<1> QED
  BY <1>1, <1>2, <1>3, <1>4 DEF Fits, Inert

\* So it may be pushed.
LEMMA InertPush ==
  ASSUME NEW kd, NEW as, NEW rf \in [Nodes -> Nat], NEW er, NEW nl, NEW s \in Seq(Frames), NEW z,
         Good(s, kd, as, rf, er, nl), Inert(z),
         z.op = "queue" => \E g \in Frs(s) : Releases(g, Owner[z.n])
  PROVE  Good(<<z>> \o s, kd, as, rf, er, nl)
<1>1. Sound(s, kd, as, rf, er) /\ Accounted(s, kd, as, er, nl) /\ z \in Frames
  BY DEF Good, Inert
<1>2. Sound(<<z>> \o s, kd, as, rf, er)
  BY <1>1, InertFits, SoundPush
<1>3. Accounted(<<z>> \o s, kd, as, er, nl)
  BY <1>1, AccountedPush
<1> QED
  BY <1>2, <1>3 DEF Good

\* A frame whose nodes are invisible, or that has none left, may go.
LEMMA GoodDrop ==
  ASSUME NEW kd, NEW as, NEW rf \in [Nodes -> Nat], NEW er, NEW nl, NEW s \in Seq(Frames),
         NEW x \in Frames, Good(<<x>> \o s, kd, as, rf, er, nl),
         \A w \in Nodes : Waits(x, w) => ~Shown(w, kd)
  PROVE  Good(s, kd, as, rf, er, nl)
<1>1. Sound(<<x>> \o s, kd, as, rf, er) /\ Accounted(<<x>> \o s, kd, as, er, nl)
  BY DEF Good
<1> QED
  BY <1>1, SoundPop, AccountedDrop DEF Good

\* completeWrappingValue: the queue is made for the node in hand.
LEMMA HandWrapped ==
  ASSUME NEW kd, NEW as, NEW rf \in [Nodes -> Nat], NEW er, NEW nl, NEW s \in Seq(Frames),
         NEW n \in Nodes, Good(<<InHand(n)>> \o s, kd, as, rf, er, nl),
         \E g \in Frs(s) : Releases(g, Owner[n])
  PROVE  LET r == <<CallQueue(n, << >>)>> \o s
         IN  r \in Seq(Frames) /\ Good(<<InHand(n)>> \o r, kd, as, rf, er, nl)
<1> DEFINE y == InHand(n)
           z == CallQueue(n, << >>)
<1>1. /\ y \in Frames /\ y.op = "hand" /\ y.n = n /\ FrameOK(y)
      /\ \A w \in Nodes : ~Holds(y, w)
  BY HandCall
<1>2. Inert(z) /\ z.op = "queue" /\ z.n = n
  BY InertQueue
<1>3. Sound(<<y>> \o s, kd, as, rf, er) /\ Accounted(<<y>> \o s, kd, as, er, nl)
  BY DEF Good
<1> HIDE DEF y, z
<1>4. Sound(s, kd, as, rf, er) /\ Fits(y, s, kd, as, rf, er)
  BY <1>1, <1>3, SoundPop
<1>5. PICK r \in Seq(Frames) : r = <<z>> \o s
  BY <1>2, PushSeq DEF Inert
<1>6. Frs(r) = {z} \cup Frs(s)
  BY <1>2, <1>5, PushSeq DEF Inert
<1>7. Sound(r, kd, as, rf, er)
  BY <1>2, <1>4, <1>5, InertFits, SoundPush
<1>8. Fits(y, r, kd, as, rf, er)
  <2>1. \A g \in Frs(r) : Apart(y, g)
    BY <1>1, <1>2, <1>4, <1>6 DEF Fits, Apart, Inert
  <2>2. Serial({y} \cup Frs(r), kd, as)
    <3>1. Serial({y} \cup Frs(s), kd, as)
      BY <1>4 DEF Fits
    <3>2. \A m \in Nodes : (\E g \in {y} \cup Frs(r) : Runs(g, m)) =>
            (\E f \in {y} \cup Frs(s) : Runs(f, m)) \/ IsElement(m) \/ m = Root
      BY <1>2, <1>6 DEF Inert
    <3>3. \A w \in Nodes : (\E g \in {y} \cup Frs(r) : Waits(g, w)) => \E f \in {y} \cup Frs(s) : Waits(f, w)
      BY <1>2, <1>6 DEF Inert
    <3> QED
      BY <3>1, <3>2, <3>3, SerialLess
  <2> QED
    BY <1>1, <1>4, <2>1, <2>2 DEF Fits
<1>9. Sound(<<y>> \o r, kd, as, rf, er)
  BY <1>7, <1>8, SoundPush
<1>10. Accounted(<<y>> \o r, kd, as, er, nl)
  BY <1>1, <1>2, <1>3, <1>5, AccountedSplit DEF Inert
<1> QED
  BY <1>5, <1>9, <1>10 DEF y, z, Good

-----------------------------------------------------------------------------
(* Starting a field, and releasing its task *)

\* ExecuteNodeTask.release gives back the one reference its frame stands for.
LEMMA FrameReleased ==
  ASSUME NEW kd, NEW as, NEW rf \in [Nodes -> Nat], NEW er, NEW nl, NEW s \in Seq(Frames),
         NEW x \in Frames, x.op = "release", Good(<<x>> \o s, kd, as, rf, er, nl), NoneLive(as)
  PROVE  /\ [rf EXCEPT ![x.n] = @ - 1] \in [Nodes -> Nat]
         /\ Good(s, kd, as, [rf EXCEPT ![x.n] = @ - 1], er, nl)
<1>0. x.n \in Nodes
  BY DEF Frames
<1>1. Sound(<<x>> \o s, kd, as, rf, er) /\ Accounted(<<x>> \o s, kd, as, er, nl)
  BY DEF Good
<1>2. Sound(s, kd, as, rf, er) /\ Fits(x, s, kd, as, rf, er)
  BY <1>1, SoundPop
<1>3. Holds(x, x.n) /\ \A w \in Nodes : ~Waits(x, w)
  BY DEF Holds, Waits
<1>4. Count(s, x.n) \in Nat /\ rf[x.n] >= Count(s, x.n) + 1
  BY <1>0, <1>2, <1>3, HoldersFinite DEF Fits
<1>5. [rf EXCEPT ![x.n] = @ - 1] \in [Nodes -> Nat]
  BY <1>0, <1>4
<1>6. PICK rf2 \in [Nodes -> Nat] : rf2 = [rf EXCEPT ![x.n] = @ - 1]
  BY <1>5
<1>7. /\ rf2[x.n] = rf[x.n] - 1 /\ rf[x.n] > 0
      /\ \A m \in Nodes : m # x.n => rf2[m] = rf[m]
  BY <1>0, <1>4, <1>6
<1>8. \A m \in Nodes : rf[m] = 0 => rf2[m] = 0
  BY <1>7
<1>9. \A w \in Nodes : Untouched(w, kd, as, rf) => Untouched(w, kd, as, rf2)
  BY <1>8 DEF Untouched
<1>10. \A f \in Frs(s) : Fresh(f, kd, as, rf2)
  <2>1. SUFFICES ASSUME NEW f \in Frs(s) PROVE Fresh(f, kd, as, rf2)
    OBVIOUS
  <2>2. Fresh(f, kd, as, rf)
    BY <1>2 DEF Sound
  <2> QED
    BY <1>8, <1>9, <2>2 DEF Fresh
<1>11. Counted(s, as, rf2)
  <2>1. SUFFICES ASSUME NEW t \in Nodes PROVE rf2[t] >= Count(s, t)
    BY DEF Counted, NoneLive
  <2>2. rf[t] >= Count(s, t)
    BY <1>2 DEF Sound, Counted
  <2>3. CASE t = x.n
    BY <1>4, <1>7, <2>3
  <2>4. CASE t # x.n
    BY <1>7, <2>2, <2>4
  <2> QED
    BY <2>3, <2>4
<1>12. Sound(s, kd, as, rf2, er)
  BY <1>2, <1>10, <1>11 DEF Sound, NoneLive
<1>13. Accounted(s, kd, as, er, nl)
  BY <1>1, <1>3, AccountedDrop
<1> QED
  BY <1>5, <1>6, <1>12, <1>13 DEF Good

\* dispatchTasksForObject makes the task of the next field and runs it.
LEMMA FieldStarted ==
  ASSUME NEW kd, NEW as, NEW rf \in [Nodes -> Nat], NEW er, NEW nl, NEW s \in Seq(Frames),
         NEW x \in Frames, x.op = "fields", x.i <= Len(Kids[x.n]),
         Good(<<x>> \o s, kd, as, rf, er, nl), NoneLive(as)
  PROVE  LET k == Kids[x.n][x.i]
             r == <<CallAt("fields", x.n, x.i + 1)>> \o s
             d == <<Call("drain", Root)>> \o r
         IN  /\ k \in Nodes /\ r \in Seq(Frames) /\ d \in Seq(Frames)
             /\ Good(<<Call("run", k)>> \o d, kd, as, [rf EXCEPT ![k] = 1], er, nl)
<1>0. x.n \in Nodes /\ x.i \in Nat \ {0}
  BY DEF Frames
<1>1. Kids[x.n] \in Seq(Nodes \ {Root})
  BY <1>0, TreeAssumption
<1>2. x.i \in DOMAIN Kids[x.n] /\ \A j \in DOMAIN Kids[x.n] : j \in Nat
  BY <1>0, <1>1
<1>3. PICK k \in Nodes : k = Kids[x.n][x.i]
  BY <1>0, <1>2, KidFacts
<1>4. k # Root /\ Parent[k] = x.n
  BY <1>0, <1>2, <1>3, KidFacts
<1>5. PICK z \in Frames : z = CallAt("fields", x.n, x.i + 1)
  <2>1. PICK i \in Nat \ {0} : i = x.i + 1
    BY <1>0
  <2> QED
    BY <1>0, <2>1, LoopCall
<1>6. z.op = "fields" /\ z.n = x.n /\ z.i = x.i + 1
  <2>1. PICK i \in Nat \ {0} : i = x.i + 1
    BY <1>0
  <2> QED
    BY <1>0, <1>5, <2>1, LoopCall
<1>7. Sound(<<x>> \o s, kd, as, rf, er) /\ Accounted(<<x>> \o s, kd, as, er, nl)
  BY DEF Good
<1>8. Sound(s, kd, as, rf, er) /\ Fits(x, s, kd, as, rf, er)
  BY <1>7, SoundPop
<1>9. Shape[x.n] = "object"
  BY <1>8 DEF Fits, FrameOK
<1>10. ~IsElement(k) /\ Owner[k] = k
  BY <1>4, <1>9, OwnerFacts DEF IsElement
<1>11. \A w \in Nodes :
         /\ Waits(x, w) <=> \E j \in DOMAIN Kids[x.n] : j >= x.i /\ w = Kids[x.n][j]
         /\ Waits(z, w) <=> \E j \in DOMAIN Kids[x.n] : j >= x.i + 1 /\ w = Kids[x.n][j]
         /\ Covers(z, w) <=> w = x.n
         /\ Covers(x, w) <=> w = x.n
         /\ ~Runs(z, w) /\ ~Holds(z, w)
  BY <1>6 DEF Waits, Covers, Runs, Holds
<1>12. Less(z, x)
  <2>1. FrameOK(z)
    BY <1>6, <1>9 DEF FrameOK
  <2>2. \A w \in Nodes : Waits(z, w) => Waits(x, w)
    BY <1>0, <1>2, <1>11
  <2> QED
    BY <1>6, <1>11, <2>1, <2>2 DEF Less
<1>13. Waits(x, k)
  BY <1>0, <1>2, <1>3, <1>11
<1>14. kd[k] = "none" /\ as[k] = "none" /\ rf[k] = 0 /\ Untouched(k, kd, as, rf) /\ Explained(k, kd, er)
  <2>1. Fresh(x, kd, as, rf) /\ MayFail(x, k)
    BY <1>8, <1>13 DEF Fits, MayFail
  <2> QED
    BY <1>8, <1>13, <2>1 DEF Fits, Fresh
<1>15. PICK r \in Seq(Frames) : r = <<z>> \o s
  BY PushSeq
<1>16. Frs(r) = {z} \cup Frs(s)
  BY <1>15, PushSeq
<1>17. Sound(r, kd, as, rf, er)
  BY <1>8, <1>12, <1>15, FitsLess, SoundPush
<1>18. ASSUME NEW g \in Frs(r), NEW w \in Nodes, Waits(g, w) PROVE Incomparable(k, w)
  <2>1. CASE g = z
    <3>1. PICK j \in DOMAIN Kids[x.n] : j >= x.i + 1 /\ w = Kids[x.n][j]
      BY <1>11, <1>18, <2>1
    <3>2. j # x.i
      BY <1>0, <1>2, <3>1
    <3> QED
      BY <1>0, <1>2, <1>3, <3>1, <3>2, Siblings
  <2>2. CASE g \in Frs(s)
    <3>1. Incomparable(x.n, w)
      BY <1>0, <1>8, <1>11, <1>18, <2>2 DEF Fits, Apart
    <3> QED
      BY <1>0, <1>2, <1>3, <3>1, KidIncomparable
  <2> QED
    BY <1>16, <1>18, <2>1, <2>2
\* Whatever frame runs k, it is the only one below the object that has started since.
<1>19. ASSUME NEW F, \A f \in F : f \in Frs(r) \/ (\A m \in Nodes : (Waits(f, m) \/ Runs(f, m)) => m = k)
       PROVE  Serial(F, kd, as)
  <2>1. SUFFICES ASSUME NEW p \in Nodes, Shape[p] = "object", NEW i \in DOMAIN Kids[p],
                        NEW j \in DOMAIN Kids[p], i < j, Started(F, kd, as, Kids[p][j]),
                        NEW w \in Nodes, Pending(F, as, w)
                 PROVE  ~Below(w, Kids[p][i])
    BY DEF Serial
  <2>2. Kids[p][j] \in Nodes /\ Kids[p][i] \in Nodes
    BY KidFacts
  <2>3. \E f \in F : Waits(f, w)
    BY <2>1 DEF Pending, NoneLive
  <2>4. Waits(x, w) \/ \E g \in Frs(s) : Waits(g, w)
    BY <1>12, <1>13, <1>16, <1>19, <2>3 DEF Less
  <2>5. CASE Kids[p][j] = k
    <3>1. p = x.n /\ j = x.i
      BY <1>0, <1>2, <1>3, <2>5, NestingAssumption
    <3>2. CASE Waits(x, w)
      <4>1. PICK l \in DOMAIN Kids[x.n] : l >= x.i /\ w = Kids[x.n][l]
        BY <1>11, <3>2
      <4>2. l # i
        BY <1>0, <1>2, <2>1, <3>1, <4>1
      <4>3. Incomparable(Kids[x.n][l], Kids[x.n][i])
        BY <1>0, <3>1, <4>2, Siblings
      <4> QED
        BY <3>1, <4>1, <4>3 DEF Incomparable
    <3>3. CASE \E g \in Frs(s) : Waits(g, w)
      <4>1. Incomparable(x.n, w)
        BY <1>0, <1>8, <1>11, <3>3 DEF Fits, Apart
      <4>2. Incomparable(Kids[x.n][i], w)
        BY <1>0, <3>1, <4>1, KidIncomparable
      <4> QED
        BY <3>1, <4>2 DEF Incomparable
    <3> QED
      BY <2>4, <3>2, <3>3
  <2>6. CASE Kids[p][j] # k
    <3>1. Started({x} \cup Frs(s), kd, as, Kids[p][j])
      BY <1>11, <1>16, <1>19, <2>1, <2>2, <2>6 DEF Started
    <3>2. Pending({x} \cup Frs(s), as, w)
      BY <2>4 DEF Pending
    <3>3. Serial({x} \cup Frs(s), kd, as)
      BY <1>8 DEF Fits
    <3> QED
      BY <2>1, <3>1, <3>2, <3>3 DEF Serial
  <2> QED
    BY <2>5, <2>6
<1> DEFINE h == InHand(k)
<1>20. /\ h \in Frames /\ h.op = "hand" /\ h.n = k /\ FrameOK(h)
       /\ \A w \in Nodes : /\ Waits(h, w) <=> w = k
                           /\ Covers(h, w) <=> w = k
                           /\ Runs(h, w) <=> w = k
                           /\ ~Holds(h, w)
  BY HandCall
<1> HIDE DEF h
<1>21. Fits(h, r, kd, as, rf, er)
  <2>1. Fresh(h, kd, as, rf)
    BY <1>14, <1>20 DEF Fresh
  <2>2. \A w \in Nodes : MayFail(h, w) => Explained(w, kd, er)
    BY <1>14, <1>20 DEF MayFail
  <2>3. \A g \in Frs(r) : Apart(h, g)
    BY <1>18, <1>20 DEF Apart
  <2>4. Serial({h} \cup Frs(r), kd, as)
    BY <1>19, <1>20
  <2> QED
    BY <1>20, <2>1, <2>2, <2>3, <2>4 DEF Fits, NoneLive
<1>22. Sound(<<h>> \o r, kd, as, rf, er)
  BY <1>17, <1>21, SoundPush
<1>23. PICK rf2 \in [Nodes -> Nat] : rf2 = [rf EXCEPT ![k] = 1]
  OBVIOUS
<1>24. Touches(k, kd, as, rf, er, kd, as, rf2, er)
  <2>1. rf2[k] = 1 /\ \A m \in Nodes : m # k => rf2[m] = rf[m]
    BY <1>23
  <2> QED
    BY <1>10, <1>14, <2>1 DEF Touches, NoneLive
<1>25. Sound(r, kd, as, rf2, er)
  BY <1>22, <1>24, SoundAfter DEF h
<1>26. Inert(Call("drain", Root)) /\ Call("drain", Root).op = "drain"
  BY InertCall, TreeAssumption
<1>27. PICK c \in Frames : c = Call("drain", Root)
  BY <1>26 DEF Inert
<1>28. PICK d \in Seq(Frames) : d = <<c>> \o r
  BY PushSeq
<1>29. Frs(d) = {c} \cup Frs(r)
  BY <1>28, PushSeq
<1>30. Sound(d, kd, as, rf2, er)
  BY <1>25, <1>26, <1>27, <1>28, InertFits, SoundPush
<1>31. PICK y \in Frames : y = Call("run", k)
  <2>1. Call("run", k) \in Frames
    BY DEF Call, Frames
  <2> QED
    BY <2>1
<1>32. y.op = "run" /\ y.n = k
  BY <1>31 DEF Call
<1>33. \A w \in Nodes : /\ Waits(y, w) <=> w = k
                        /\ Covers(y, w) <=> w = k
                        /\ Runs(y, w) <=> w = k
                        /\ Holds(y, w) <=> w = k
  BY <1>32 DEF Waits, Covers, Runs, Holds
<1>34. Fits(y, d, kd, as, rf2, er)
  <2>1. FrameOK(y)
    BY <1>4, <1>10, <1>32 DEF FrameOK
  <2>2. Fresh(y, kd, as, rf2)
    <3>1. Untouched(k, kd, as, rf2)
      <4>1. SUFFICES ASSUME NEW m \in Nodes, k \in Anc[m]
                     PROVE  kd[m] = "none" /\ as[m] = "none" /\ rf2[m] = 0
        BY DEF Untouched
      <4>2. m # k
        BY <4>1, AncIrreflexive
      <4> QED
        BY <1>14, <1>23, <4>1, <4>2 DEF Untouched
    <3> QED
      BY <1>14, <1>32, <1>33, <3>1 DEF Fresh
  <2>3. \A w \in Nodes : MayFail(y, w) => Explained(w, kd, er)
    BY <1>14, <1>32, <1>33 DEF MayFail
  <2>4. \A g \in Frs(d) : Apart(y, g)
    <3>1. \A g \in Frs(r) : Apart(y, g)
      BY <1>18, <1>32, <1>33 DEF Apart
    <3>2. Apart(y, c)
      BY <1>26, <1>27, <1>32 DEF Apart, Inert
    <3> QED
      BY <1>29, <3>1, <3>2
  <2>5. Serial({y} \cup Frs(d), kd, as)
    <3>1. \A m \in Nodes : ~Waits(c, m) /\ ~Runs(c, m)
      BY <1>26, <1>27 DEF Inert
    <3> QED
      BY <1>19, <1>29, <1>33, <3>1
  <2>6. rf2[k] >= Count(d, k) + 1
    <3>1. Count(d, k) = Count(r, k)
      BY <1>26, <1>27, <1>28, PushCount DEF Inert
    <3>2. rf[k] >= Count(r, k) /\ Count(r, k) \in Nat
      BY <1>17, HoldersFinite DEF Sound, Counted
    <3>3. Count(r, k) = 0
      BY <1>14, <3>2
    <3> QED
      BY <1>23, <3>1, <3>3
  <2> QED
    BY <1>32, <1>33, <2>1, <2>2, <2>3, <2>4, <2>5, <2>6 DEF Fits, NoneLive
<1>35. Sound(<<y>> \o d, kd, as, rf2, er)
  BY <1>30, <1>34, SoundPush
<1>36. Accounted(<<y>> \o d, kd, as, er, nl)
  <2> DEFINE u == <<x>> \o s
             v == <<y>> \o d
  <2>1. Frs(u) = {x} \cup Frs(s) /\ Frs(v) = {y} \cup Frs(d)
    BY PushSeq
  <2>2. Accounted(u, kd, as, er, nl)
    BY <1>7
  <2> HIDE DEF u, v
  <2>3. ASSUME NEW w \in Nodes, Waits(x, w) PROVE Waits(y, w) \/ Waits(z, w)
    <3>1. PICK j \in DOMAIN Kids[x.n] : j >= x.i /\ w = Kids[x.n][j]
      BY <1>11, <2>3
    <3>2. j = x.i \/ j >= x.i + 1
      BY <1>0, <1>2, <3>1
    <3> QED
      BY <1>3, <1>11, <1>33, <3>1, <3>2
  <2>4. \A w \in Nodes : Shown(w, kd) /\ Pending(Frs(u), as, w) => Pending(Frs(v), as, w)
    BY <1>16, <1>29, <2>1, <2>3 DEF Pending
  <2>5. Accounted(v, kd, as, er, nl)
    BY <2>2, <2>4, AccountedLess
  <2> QED
    BY <2>5 DEF v
<1> QED
  BY <1>3, <1>5, <1>15, <1>23, <1>27, <1>28, <1>31, <1>35, <1>36 DEF Good

-----------------------------------------------------------------------------
(***************************************************************************)
(* What the operators that complete a node do to the invariant.  A step     *)
(* panics and leaves everything else as it is, or it completes the node.    *)
(***************************************************************************)
Typed(kd, er, nl, fl, rf, as, tc, ft, sg, pd) ==
  /\ kd \in [Nodes -> Kinds] /\ er \subseteq Nodes /\ nl \subseteq Nodes /\ fl \in Nat
  /\ rf \in [Nodes -> Nat] /\ as \in [Nodes -> {"none", "live", "over"}]
  /\ tc \in [Nodes -> 0..cycle]
  /\ ft \in [Nodes -> {"none", "queued", "flying", "done"}]
  /\ sg \in [Nodes -> {1, 2}] /\ pd \in BOOLEAN

\* What a step leaves as it is when it panics
Kept == UNCHANGED <<kind, errs, nulls, fails, refs, asy, taskCycle, fut, stage, pending>>

\* ResultNode.Path panicked, after an earlier error.
Panicked ==
  /\ outcome' = "panic" /\ stack' = stack /\ Kept
  /\ \E e \in errs : \E a \in Anc[e] \ {Root} : IsNil(a)

\* The step is done, and what the invariant says holds.
Completed ==
  /\ outcome' = outcome
  /\ Typed(kind', errs', nulls', fails', refs', asy', taskCycle', fut', stage', pending')
  /\ Good(stack', kind', asy', refs', errs', nulls')
  /\ Awaiting(stack', asy', yieldTasks)

\* The state has the types of TypeOK.
LEMMA StateTyped ==
  ASSUME TypeOK
  PROVE  Typed(kind, errs, nulls, fails, refs, asy, taskCycle, fut, stage, pending)
BY DEF TypeOK, Typed, Kinds

\* Two frames pushed at once
LEMMA PairSeq ==
  ASSUME NEW a \in Frames, NEW b \in Frames, NEW s \in Seq(Frames)
  PROVE  <<a, b>> \o s = <<a>> \o (<<b>> \o s)
<1> DEFINE p == <<a, b>>
           q == <<a>> \o <<b>>
<1>1. <<a>> \in Seq(Frames) /\ <<b>> \in Seq(Frames)
  OBVIOUS
<1>2. p \in Seq(Frames) /\ Len(p) = 2 /\ p[1] = a /\ p[2] = b
  OBVIOUS
<1>3. q \in Seq(Frames) /\ Len(q) = 2 /\ q[1] = a /\ q[2] = b
  OBVIOUS
<1>4. q \o s = <<a>> \o (<<b>> \o s)
  BY <1>1, ConcatAssociative
<1> HIDE DEF p, q
<1>5. \A k \in 1..Len(p) : p[k] = q[k]
  BY <1>2, <1>3
<1>6. p = q
  BY <1>2, <1>3, <1>5, SeqEqual
<1> QED
  BY <1>4, <1>6 DEF p

\* Three frames pushed at once
LEMMA TripleSeq ==
  ASSUME NEW a \in Frames, NEW b \in Frames, NEW c \in Frames, NEW s \in Seq(Frames)
  PROVE  <<a, b, c>> \o s = <<a>> \o (<<b>> \o (<<c>> \o s))
<1> DEFINE p == <<a, b, c>>
           q == <<a, b>> \o <<c>>
<1>1. <<a, b>> \in Seq(Frames) /\ <<c>> \in Seq(Frames) /\ <<c>> \o s \in Seq(Frames)
  OBVIOUS
<1>2. p \in Seq(Frames) /\ Len(p) = 3 /\ p[1] = a /\ p[2] = b /\ p[3] = c
  OBVIOUS
<1>3. q \in Seq(Frames) /\ Len(q) = 3 /\ q[1] = a /\ q[2] = b /\ q[3] = c
  OBVIOUS
<1>4. q \o s = <<a, b>> \o (<<c>> \o s)
  BY <1>1, ConcatAssociative
<1>5. <<a, b>> \o (<<c>> \o s) = <<a>> \o (<<b>> \o (<<c>> \o s))
  BY <1>1, PairSeq
<1> HIDE DEF p, q
<1>6. \A k \in 1..Len(p) : p[k] = q[k]
  BY <1>2, <1>3
<1>7. p = q
  BY <1>2, <1>3, <1>6, SeqEqual
<1> QED
  BY <1>4, <1>5, <1>7 DEF p

\* A call that may be below others is pushed.
LEMMA DeepPush ==
  ASSUME NEW z \in Frames, NEW s \in Seq(Frames), Deep(s),
         z.op \in {"fields", "queue", "elements", "release", "drain"}
  PROVE  Deep(<<z>> \o s)
BY PushSeq DEF Deep

\* A part of a deep stack is deep.
LEMMA DeepTail ==
  ASSUME NEW s \in Seq(Frames), s # << >>, Deep(s)
  PROVE  Deep(Tail(s))
<1>1. \A k \in DOMAIN Tail(s) : k + 1 \in DOMAIN s /\ Tail(s)[k] = s[k + 1]
  OBVIOUS
<1> QED
  BY <1>1 DEF Deep, Frs

\* When no future is awaited, the frames below the innermost call are all that Awaiting is about.
LEMMA QuietAwaiting ==
  ASSUME NEW s \in Seq(Frames), NEW as, NEW yt, NoneLive(as), Deep(s)
  PROVE  Awaiting(s, as, yt)
<1>1. s # << >> => Deep(Tail(s))
  BY DeepTail
<1>2. s # << >> => s[1] \in Frs(s)
  BY DEF Frs
<1>3. s # << >> => s[1].op \notin Polls \cup {"tryDispatch", "dispatch", "execute", "hand"}
  BY <1>2 DEF Deep, Polls
<1> QED
  BY <1>1, <1>3 DEF Awaiting, NoneLive

\* A node that is complete, and has no children to complete
LEMMA HandDone ==
  ASSUME NEW kd, NEW as, NEW rf \in [Nodes -> Nat], NEW er, NEW nl, NEW kd2, NEW er2, NEW nl2,
         NEW n \in Nodes, NEW s \in Seq(Frames),
         Good(<<InHand(n)>> \o s, kd, as, rf, er, nl), NoneLive(as),
         Touches(n, kd, as, rf, er, kd2, as, rf, er2), nl \subseteq nl2, kd2[n] # "none",
         kd2[n] = "nil" /\ Shown(n, kd2) => n \in nl2 \/ n \in er2,
         kd2[n] # "nil" => Kids[n] = << >>
  PROVE  Good(s, kd2, as, rf, er2, nl2)
<1>1. Sound(<<InHand(n)>> \o s, kd, as, rf, er) /\ Accounted(<<InHand(n)>> \o s, kd, as, er, nl)
  BY DEF Good
<1>2. Sound(s, kd2, as, rf, er2)
  BY <1>1, SoundAfter
<1>3. \A g \in Frs(s), w \in Nodes : Waits(g, w) => Pending(Frs(s), as, w)
  BY DEF Pending
<1>4. kd2[n] \notin {"none", "nil"} => \A j \in DOMAIN Kids[n] : Pending(Frs(s), as, Kids[n][j])
  OBVIOUS
<1>5. Accounted(s, kd2, as, er2, nl2)
  BY <1>1, <1>3, <1>4, AccountedAfter
<1> QED
  BY <1>2, <1>5 DEF Good

\* SetKind for a leaf
LEMMA HandLeaf ==
  ASSUME TypeOK, NoneLive(asy), NEW n \in Nodes, NEW s \in Seq(Frames), Deep(s),
         Good(<<InHand(n)>> \o s, kind, asy, refs, errs, nulls),
         Shape[n] = "leaf", SetKind(n, "leaf", s), nulls' = nulls, NotAwait
  PROVE  Completed
<1>1. Typed(kind, errs, nulls, fails, refs, asy, taskCycle, fut, stage, pending)
  BY StateTyped
<1>2. PICK kd2 \in [Nodes -> Kinds] : kd2 = [kind EXCEPT ![n] = "leaf"]
  BY <1>1 DEF Typed, Kinds
<1>3. Touches(n, kind, asy, refs, errs, kd2, asy, refs, errs)
  BY <1>1, <1>2, TouchesKind DEF Typed
<1>4. kd2[n] = "leaf" /\ Kids[n] = << >>
  BY <1>2, TreeAssumption
<1>5. Good(s, kd2, asy, refs, errs, nulls)
  BY <1>1, <1>3, <1>4, HandDone DEF Typed
<1>6. /\ kind' = kd2 /\ stack' = s /\ outcome' = outcome
      /\ UNCHANGED <<errs, nulls, fails, refs, asy, taskCycle, fut, stage, pending>>
  BY <1>2 DEF SetKind, NotAwait, taskVars
<1>7. Awaiting(s, asy, yieldTasks)
  BY QuietAwaiting
<1> QED
  BY <1>1, <1>5, <1>6, <1>7 DEF Completed, Typed

\* SetNil: the value came back as nil.
LEMMA HandNil ==
  ASSUME TypeOK, NoneLive(asy), NEW n \in Nodes, NEW s \in Seq(Frames), Deep(s),
         Good(<<InHand(n)>> \o s, kind, asy, refs, errs, nulls), SetNil(n, s), NotAwait
  PROVE  Completed
<1>1. Typed(kind, errs, nulls, fails, refs, asy, taskCycle, fut, stage, pending)
  BY StateTyped
<1>2. PICK kd2 \in [Nodes -> Kinds] : kd2 = [kind EXCEPT ![n] = "nil"]
  BY <1>1 DEF Typed, Kinds
<1>3. Touches(n, kind, asy, refs, errs, kd2, asy, refs, errs)
  BY <1>1, <1>2, TouchesKind DEF Typed
<1>4. PICK nl2 \in SUBSET Nodes : nl2 = nulls \cup {n}
  BY <1>1 DEF Typed
<1>5. kd2[n] = "nil"
  BY <1>2
<1>6. Good(s, kd2, asy, refs, errs, nl2)
  BY <1>1, <1>3, <1>4, <1>5, HandDone DEF Typed
<1>7. /\ kind' = kd2 /\ nulls' = nl2 /\ stack' = s /\ outcome' = outcome
      /\ UNCHANGED <<errs, fails, refs, asy, taskCycle, fut, stage, pending>>
  BY <1>2, <1>4 DEF SetNil, SetKind, NotAwait, taskVars
<1>8. Awaiting(s, asy, yieldTasks)
  BY QuietAwaiting
<1> QED
  BY <1>1, <1>4, <1>6, <1>7, <1>8 DEF Completed, Typed

\* The path of an error panics only where an earlier error was propagated to.
LEMMA PathExplained ==
  ASSUME NEW n \in Nodes, Explained(n, kind, errs), PathPanics(n)
  PROVE  \E e \in errs : \E a \in Anc[e] \ {Root} : IsNil(a)
<1>1. PICK a \in Anc[n] \ {Root} : IsNil(a)
  BY DEF PathPanics
<1>2. PICK e \in errs : a \in Anc[e]
  BY <1>1 DEF Explained, IsNil
<1> QED
  BY <1>1, <1>2

\* handleNodeError makes the node nil, and ancestors only if it reports the error.
LEMMA NilledFacts ==
  ASSUME TypeOK, NEW n \in Nodes \ {Root}
  PROVE  /\ n \in Nilled(n) /\ Nilled(n) \subseteq {n} \cup Anc[n]
         /\ Parent[n] \in Nodes /\ Parent[n] \in Anc[n]
         /\ IsNil(Parent[n]) => Nilled(n) = {n}
<1>1. Parent[n] \in Nodes /\ Anc[n] = {Parent[n]} \cup Anc[Parent[n]]
  BY ParentFacts, AncStep
<1>2. Propagated(Parent[n]) \subseteq Anc[Parent[n]]
  BY <1>1, PropagatedAbove
<1> QED
  BY <1>1, <1>2 DEF Nilled

\* handleNodeError for the node in hand
LEMMA HandFail ==
  ASSUME TypeOK, NoneLive(asy), NEW n \in Nodes \ {Root}, NEW s \in Seq(Frames), Deep(s),
         Good(<<InHand(n)>> \o s, kind, asy, refs, errs, nulls),
         Fail(n, s), nulls' = nulls, NotAwait
  PROVE  Panicked \/ Completed
<1>1. Typed(kind, errs, nulls, fails, refs, asy, taskCycle, fut, stage, pending)
  BY StateTyped
<1>2. Sound(<<InHand(n)>> \o s, kind, asy, refs, errs)
  BY DEF Good
<1>3. Explained(n, kind, errs) /\ kind[n] = "none"
  BY <1>1, <1>2, HandFacts DEF Typed
<1>4. CASE PathPanics(n)
  <2>1. \E e \in errs : \E a \in Anc[e] \ {Root} : IsNil(a)
    BY <1>3, <1>4, PathExplained
  <2> QED
    BY <1>4, <2>1 DEF Fail, Panicked, Kept, NotAwait, taskVars
<1>5. CASE ~PathPanics(n)
  <2>1. /\ n \in Nilled(n) /\ Nilled(n) \subseteq {n} \cup Anc[n]
        /\ Parent[n] \in Nodes /\ Parent[n] \in Anc[n]
        /\ IsNil(Parent[n]) => Nilled(n) = {n}
    BY NilledFacts
  <2>2. PICK kd2 \in [Nodes -> Kinds] :
          kd2 = [m \in Nodes |-> IF m \in Nilled(n) THEN "nil" ELSE kind[m]]
    BY <1>1 DEF Typed, Kinds
  <2>3. PICK er2 \in SUBSET Nodes : er2 = IF IsNil(Parent[n]) THEN errs ELSE errs \cup {n}
    BY <1>1 DEF Typed
  <2>4. \A m \in Nodes : kd2[m] = IF m \in Nilled(n) THEN "nil" ELSE kind[m]
    BY <2>2
  <2>5. n \notin Anc[n] /\ Anc[n] \subseteq Nodes
    BY AncIrreflexive, AncInNodes
  <2>6. Owner[n] \in Nodes
    BY OwnerFacts
  <2>7. Touches(n, kind, asy, refs, errs, kd2, asy, refs, er2)
    <3>1. \A m \in Nodes : m \notin {n} \cup Anc[n] => kd2[m] = kind[m]
      BY <2>1, <2>4
    <3>2. \A m \in Anc[n] : kd2[m] = kind[m] \/ (kd2[m] = "nil" /\ n \in er2)
      BY <2>1, <2>3, <2>4, <2>5
    <3>3. refs[Owner[n]] >= refs[Owner[n]]
      BY <1>1, <2>6 DEF Typed
    <3> QED
      BY <2>3, <3>1, <3>2, <3>3 DEF Touches, NoneLive
  <2>8. kd2[n] = "nil"
    BY <2>1, <2>4
  <2>9. Shown(n, kd2) => n \in er2
    BY <2>1, <2>3, <2>4 DEF Shown, IsNil
  <2>10. Good(s, kd2, asy, refs, er2, nulls)
    BY <1>1, <2>7, <2>8, <2>9, HandDone DEF Typed
  <2>11. /\ kind' = kd2 /\ errs' = er2 /\ fails' = fails + 1 /\ stack' = s /\ outcome' = outcome
         /\ UNCHANGED <<nulls, refs, asy, taskCycle, fut, stage, pending>>
    BY <1>5, <2>2, <2>3 DEF Fail, AppendError, NotAwait, taskVars
  <2>12. Awaiting(s, asy, yieldTasks)
    BY QuietAwaiting
  <2>13. fails' \in Nat
    BY <1>1, <2>11 DEF Typed
  <2> QED
    BY <1>1, <2>10, <2>11, <2>12, <2>13 DEF Completed, Typed
<1> QED
  BY <1>4, <1>5

\* A future: an AsyncValueTask is dispatched that retains the node's task.
LEMMA HandAwait ==
  ASSUME TypeOK, NoneLive(asy), NEW n \in Nodes \ {Root}, NEW s \in Seq(Frames), Deep(s),
         IsElement(n) => Shape[n] # "list",
         Good(<<InHand(n)>> \o s, kind, asy, refs, errs, nulls), Await(n, s)
  PROVE  Completed
<1>1. Typed(kind, errs, nulls, fails, refs, asy, taskCycle, fut, stage, pending)
  BY StateTyped
<1>2. Sound(<<InHand(n)>> \o s, kind, asy, refs, errs)
      /\ Accounted(<<InHand(n)>> \o s, kind, asy, errs, nulls)
  BY DEF Good
<1>3. kind[n] = "none"
  BY <1>1, <1>2, HandFacts DEF Typed
<1>4. Owner[n] \in Nodes /\ n \in Nodes /\ n # Root
  BY OwnerFacts
<1>5. PICK as2 \in [Nodes -> {"none", "live", "over"}] : as2 = [asy EXCEPT ![n] = "live"]
  BY <1>1 DEF Typed
<1>6. PICK rf2 \in [Nodes -> Nat] : rf2 = [refs EXCEPT ![Owner[n]] = @ + 1]
  <2>1. refs \in [Nodes -> Nat] /\ refs[Owner[n]] + 1 \in Nat
    BY <1>1, <1>4 DEF Typed
  <2>2. [refs EXCEPT ![Owner[n]] = @ + 1] \in [Nodes -> Nat]
    BY <2>1
  <2> QED
    BY <2>2
<1>7. /\ as2[n] = "live" /\ \A m \in Nodes : m # n => as2[m] = asy[m]
      /\ rf2[Owner[n]] = refs[Owner[n]] + 1 /\ refs[Owner[n]] \in Nat
      /\ \A m \in Nodes : m # Owner[n] => rf2[m] = refs[m]
  BY <1>1, <1>4, <1>5, <1>6 DEF Typed
<1>8. Touches(n, kind, asy, refs, errs, kind, as2, rf2, errs)
  <2>1. rf2[Owner[n]] >= refs[Owner[n]] /\ rf2[Owner[n]] > refs[Owner[n]]
    BY <1>7
  <2> QED
    BY <1>3, <1>4, <1>7, <2>1 DEF Touches
<1>9. Sound(s, kind, as2, rf2, errs)
  BY <1>1, <1>2, <1>8, SoundAfter DEF Typed
<1>10. Accounted(s, kind, as2, errs, nulls)
  <2>1. \A g \in Frs(s), w \in Nodes : Waits(g, w) => Pending(Frs(s), as2, w)
    BY DEF Pending
  <2>2. Pending(Frs(s), as2, n)
    BY <1>7 DEF Pending
  <2> QED
    BY <1>1, <1>2, <1>3, <1>8, <2>1, <2>2, AccountedAfter DEF Typed
<1>11. Root \in Nodes
  BY TreeAssumption
<1>12. PICK c \in Frames : c = Call("drain", Root) /\ Inert(c) /\ c.op = "drain"
  BY <1>11, InertCall DEF Inert
<1>13. PICK b \in Frames : b = Call("poll", n) /\ Inert(b) /\ b.op = "poll" /\ b.n = n
  BY <1>4, InertCall DEF Inert
<1>14. PICK d \in Seq(Frames) : d = <<c>> \o s
  BY PushSeq
<1>15. Good(d, kind, as2, rf2, errs, nulls)
  BY <1>9, <1>10, <1>12, <1>14, InertPush DEF Good
<1>16. PICK u \in Seq(Frames) : u = <<b>> \o d
  BY PushSeq
<1>17. Good(u, kind, as2, rf2, errs, nulls)
  BY <1>13, <1>15, <1>16, InertPush
<1>18. d # << >> /\ d[1] = c /\ u # << >> /\ u[1] = b /\ Tail(u) = d
  BY <1>14, <1>16, PushSeq
<1>19. Deep(d)
  BY <1>12, <1>14, DeepPush
<1>20. Awaiting(u, as2, yieldTasks)
  BY <1>7, <1>12, <1>13, <1>18, <1>19 DEF Awaiting, NoneLive, Polls
<1>21. stack' = u
  BY <1>12, <1>13, <1>14, <1>16, PairSeq DEF Await
<1>22. PICK p \in {"queued", "flying", "done"} : Load(n, p)
  BY DEF Await
<1>23. fut' \in [Nodes -> {"none", "queued", "flying", "done"}] /\ pending' \in BOOLEAN
  BY <1>1, <1>22 DEF Load, Typed
<1>24. taskCycle' \in [Nodes -> 0..cycle] /\ stage' \in [Nodes -> {1, 2}]
  <2>1. cycle \in 0..cycle
    BY DEF TypeOK
  <2> QED
    BY <1>1, <2>1 DEF Await, Typed
<1>25. /\ asy' = as2 /\ refs' = rf2 /\ outcome' = outcome
       /\ UNCHANGED <<kind, errs, nulls, fails>>
  BY <1>5, <1>6 DEF Await
<1> QED
  BY <1>1, <1>17, <1>20, <1>21, <1>23, <1>24, <1>25 DEF Completed, Typed

\* dispatchTasksForObject
LEMMA HandObject ==
  ASSUME TypeOK, NoneLive(asy), NEW n \in Nodes, NEW s \in Seq(Frames), Deep(s),
         Good(<<InHand(n)>> \o s, kind, asy, refs, errs, nulls),
         Shape[n] = "object", StartObject(n, s), nulls' = nulls, NotAwait
  PROVE  Completed
<1>1. Typed(kind, errs, nulls, fails, refs, asy, taskCycle, fut, stage, pending)
  BY StateTyped
<1>2. Sound(<<InHand(n)>> \o s, kind, asy, refs, errs)
      /\ Accounted(<<InHand(n)>> \o s, kind, asy, errs, nulls)
  BY DEF Good
<1>3. PICK z \in Frames : z = Call("fields", n) /\ z.op = "fields" /\ z.n = n
  <2>1. Call("fields", n) \in Frames /\ Call("fields", n).op = "fields" /\ Call("fields", n).n = n
    BY DEF Call, Frames
  <2> QED
    BY <2>1
<1>4. FrameOK(z)
  BY <1>3 DEF FrameOK
<1>5. /\ Sound(<<z>> \o s, [kind EXCEPT ![n] = "object"], asy, refs, errs)
      /\ Accounted(<<z>> \o s, [kind EXCEPT ![n] = "object"], asy, errs, nulls)
  BY <1>1, <1>2, <1>3, <1>4, StartLoop DEF Typed, Kinds
<1>6. PICK u \in Seq(Frames) : u = <<z>> \o s
  BY PushSeq
<1>7. Awaiting(u, asy, yieldTasks)
  BY <1>3, <1>6, DeepPush, QuietAwaiting
<1>8. /\ kind' = [kind EXCEPT ![n] = "object"] /\ stack' = u /\ outcome' = outcome
      /\ UNCHANGED <<errs, nulls, fails, refs, asy, taskCycle, fut, stage, pending>>
  BY <1>3, <1>6 DEF StartObject, SetKind, NotAwait, taskVars
<1>9. Good(u, kind', asy, refs, errs, nulls)
  BY <1>5, <1>6, <1>8 DEF Good
<1>10. kind' \in [Nodes -> Kinds]
  BY <1>1, <1>8 DEF Typed, Kinds
<1> QED
  BY <1>1, <1>7, <1>8, <1>9, <1>10 DEF Completed, Typed

\* handleNodeError for a list, in the loop over its elements: the list was complete, and the
\* elements that are left out are not visible any more.
LEMMA ListFail ==
  ASSUME TypeOK, NoneLive(asy), NEW x \in Frames, x.op = "elements", NEW s \in Seq(Frames), Deep(s),
         Good(<<x>> \o s, kind, asy, refs, errs, nulls),
         Fail(x.n, s), nulls' = nulls, NotAwait
  PROVE  Panicked \/ Completed
<1>1. Typed(kind, errs, nulls, fails, refs, asy, taskCycle, fut, stage, pending)
  BY StateTyped
<1>2. PICK l \in Nodes : l = x.n
  BY DEF Frames
<1>3. Sound(<<x>> \o s, kind, asy, refs, errs) /\ Accounted(<<x>> \o s, kind, asy, errs, nulls)
  BY DEF Good
<1>4. Sound(s, kind, asy, refs, errs) /\ Fits(x, s, kind, asy, refs, errs)
  BY <1>1, <1>3, SoundPop DEF Typed
<1>5. l # Root /\ kind[l] # "none" /\ Explained(l, kind, errs)
  BY <1>2, <1>4, TreeAssumption DEF Fits, FrameOK, Fresh, MayFail
<1>6. \A g \in Frs(s) : (\A w \in Nodes : Waits(g, w) => Incomparable(l, w))
                        /\ (g.op = "elements" => l \notin Anc[g.n])
  BY <1>2, <1>4 DEF Fits, Apart, Covers
<1>7. \A w \in Nodes : Waits(x, w) => l \in Anc[w]
  <2>1. \A j \in DOMAIN Kids[l] : l \in Anc[Kids[l][j]]
    BY AncOfKid
  <2> QED
    BY <1>2, <2>1 DEF Waits
<1>8. CASE PathPanics(l)
  <2>1. \E e \in errs : \E a \in Anc[e] \ {Root} : IsNil(a)
    BY <1>5, <1>8, PathExplained
  <2> QED
    BY <1>2, <1>8, <2>1 DEF Fail, Panicked, Kept, NotAwait, taskVars
<1>9. CASE ~PathPanics(l)
  <2>1. /\ l \in Nilled(l) /\ Nilled(l) \subseteq {l} \cup Anc[l]
        /\ Parent[l] \in Nodes /\ Parent[l] \in Anc[l]
        /\ IsNil(Parent[l]) => Nilled(l) = {l}
    BY <1>5, NilledFacts
  <2>2. PICK kd2 \in [Nodes -> Kinds] :
          kd2 = [m \in Nodes |-> IF m \in Nilled(l) THEN "nil" ELSE kind[m]]
    BY <1>1 DEF Typed, Kinds
  <2>3. PICK er2 \in SUBSET Nodes : er2 = IF IsNil(Parent[l]) THEN errs ELSE errs \cup {l}
    BY <1>1 DEF Typed
  <2>4. \A m \in Nodes : kd2[m] = IF m \in Nilled(l) THEN "nil" ELSE kind[m]
    BY <2>2
  <2>5. l \notin Anc[l] /\ Anc[l] \subseteq Nodes
    BY AncIrreflexive, AncInNodes
  <2>6. errs \subseteq er2 /\ (Nilled(l) # {l} => l \in er2)
    BY <2>1, <2>3
  <2>7. \A m \in Nodes : kd2[m] = "none" <=> kind[m] = "none"
    <3>1. \A m \in Nilled(l) : kind[m] # "none"
      BY <1>5, <2>1 DEF Explained
    <3> QED
      BY <2>4, <3>1
  <2>8. ASSUME NEW y \in Nodes, l \notin Anc[y], Explained(y, kind, errs)
        PROVE  Explained(y, kd2, er2)
    <3>1. SUFFICES ASSUME NEW a \in Anc[y]
                   PROVE  kd2[a] # "none" /\ (kd2[a] = "nil" => \E e \in er2 : a \in Anc[e])
      BY DEF Explained
    <3>2. a \in Nodes /\ a # l
      BY <2>8, AncInNodes
    <3>3. kind[a] # "none" /\ (kind[a] = "nil" => \E e \in errs : a \in Anc[e])
      BY <2>8 DEF Explained
    <3>4. CASE a \in Nilled(l)
      BY <2>1, <2>6, <2>7, <3>2, <3>3, <3>4
    <3>5. CASE a \notin Nilled(l)
      BY <2>4, <2>6, <3>2, <3>3, <3>5
    <3> QED
      BY <3>4, <3>5
  <2>9. Sound(s, kd2, asy, refs, er2)
    <3>0. \A f \in Frs(s) : f.n \in Nodes
      BY FrameTypes
    <3>1. \A f \in Frs(s) : FrameOK(f) /\ Fresh(f, kd2, asy, refs)
      <4>1. \A w \in Nodes : Untouched(w, kind, asy, refs) => Untouched(w, kd2, asy, refs)
        BY <2>7 DEF Untouched
      <4>2. SUFFICES ASSUME NEW f \in Frs(s) PROVE Fresh(f, kd2, asy, refs)
        BY <1>4 DEF Sound
      <4>3. Fresh(f, kind, asy, refs)
        BY <1>4 DEF Sound
      <4> QED
        BY <2>7, <3>0, <4>1, <4>3 DEF Fresh
    <3>2. \A f \in Frs(s), y \in Nodes : MayFail(f, y) => Explained(y, kd2, er2)
      <4>1. SUFFICES ASSUME NEW f \in Frs(s), NEW y \in Nodes, MayFail(f, y)
                     PROVE  Explained(y, kd2, er2)
        OBVIOUS
      <4>2. Explained(y, kind, errs)
        BY <1>4, <4>1 DEF Sound
      <4>3. l \notin Anc[y]
        BY <1>6, <4>1 DEF MayFail, Incomparable, Below
      <4> QED
        BY <2>8, <4>2, <4>3
    <3>3. Serial(Frs(s), kd2, asy)
      <4>1. \A p \in Nodes : \A j \in DOMAIN Kids[p] :
              Started(Frs(s), kd2, asy, Kids[p][j]) => Started(Frs(s), kind, asy, Kids[p][j])
        BY <2>7, KidFacts DEF Started
      <4>2. Serial(Frs(s), kind, asy)
        BY <1>4 DEF Sound
      <4> QED
        BY <4>1, <4>2 DEF Serial
    <3> QED
      BY <1>4, <3>1, <3>2, <3>3 DEF Sound, NoneLive
  <2>10. Accounted(s, kd2, asy, er2, nulls)
    <3>1. SUFFICES ASSUME NEW n \in Nodes, Shown(n, kd2)
                   PROVE  /\ kd2[n] = "none" => Pending(Frs(s), asy, n) \/ n \in er2
                          /\ kd2[n] = "nil" => n \in nulls \/ \E e \in er2 : Below(e, n)
      BY DEF Accounted
    <3>2. Anc[n] \subseteq Nodes
      BY AncInNodes
    <3>3. Shown(n, kind)
      BY <2>4, <3>1, <3>2 DEF Shown
    <3>4. /\ kind[n] = "none" => Pending(Frs(<<x>> \o s), asy, n) \/ n \in errs
          /\ kind[n] = "nil" => n \in nulls \/ \E e \in errs : Below(e, n)
      BY <1>3, <3>3 DEF Accounted
    <3>5. Frs(<<x>> \o s) = {x} \cup Frs(s)
      BY PushSeq
    <3>6. ~Waits(x, n)
      BY <1>7, <2>1, <2>4, <3>1 DEF Shown
    <3>7. kd2[n] = "none" => Pending(Frs(s), asy, n) \/ n \in er2
      BY <2>6, <2>7, <3>4, <3>5, <3>6 DEF Pending
    <3>8. ASSUME kd2[n] = "nil", kind[n] # "nil" PROVE \E e \in er2 : Below(e, n)
      <4>1. n \in Nilled(l)
        BY <2>4, <3>8
      <4>2. ~IsNil(Parent[l])
        BY <2>1, <2>4, <3>1, <3>2, <4>1 DEF IsNil, Shown
      <4>3. l \in er2
        BY <2>3, <4>2
      <4> QED
        BY <2>1, <4>1, <4>3 DEF Below
    <3> QED
      BY <2>6, <3>4, <3>7, <3>8
  <2>11. /\ kind' = kd2 /\ errs' = er2 /\ fails' = fails + 1 /\ stack' = s /\ outcome' = outcome
         /\ UNCHANGED <<nulls, refs, asy, taskCycle, fut, stage, pending>>
    BY <1>2, <1>9, <2>2, <2>3 DEF Fail, AppendError, NotAwait, taskVars
  <2>12. Awaiting(s, asy, yieldTasks)
    BY QuietAwaiting
  <2>13. fails' \in Nat
    BY <1>1, <2>11 DEF Typed
  <2> QED
    BY <1>1, <2>9, <2>10, <2>11, <2>12, <2>13 DEF Completed, Typed, Good
<1> QED
  BY <1>8, <1>9

\* completeNonWrappingValue
LEMMA NonWrappingCompletes ==
  ASSUME TypeOK, NoneLive(asy), NEW n \in Nodes \ {Root}, NEW v, NEW s \in Seq(Frames), Deep(s),
         Shape[n] # "list",
         Good(<<InHand(n)>> \o s, kind, asy, refs, errs, nulls), CompleteNonWrapping(n, v, s)
  PROVE  Panicked \/ Completed
<1>1. CASE v = "future" /\ Await(n, s)
  BY <1>1, HandAwait
<1>2. CASE NotAwait /\ v \in {"error", "bad"} /\ Fail(n, s) /\ UNCHANGED nulls
  BY <1>2, HandFail
<1>3. CASE NotAwait /\ v = "nil" /\ SetNil(n, s)
  BY <1>3, HandNil
<1>4. CASE NotAwait /\ Shape[n] = "leaf" /\ SetKind(n, "leaf", s) /\ UNCHANGED nulls
  BY <1>4, HandLeaf
<1>5. CASE NotAwait /\ Shape[n] # "leaf" /\ StartObject(n, s) /\ UNCHANGED nulls
  BY <1>5, HandObject, TreeAssumption
<1> QED
  BY <1>1, <1>2, <1>3, <1>4, <1>5 DEF CompleteNonWrapping

\* A round of completeWrappingValue's loop
LEMMA QueuedCompletes ==
  ASSUME TypeOK, NoneLive(asy), NEW n \in Nodes \ {Root}, NEW v, NEW q \in Seq(Nodes),
         NEW s \in Seq(Frames), Deep(s), \E g \in Frs(s) : Releases(g, Owner[n]),
         Good(<<InHand(n)>> \o (<<CallQueue(n, q)>> \o s), kind, asy, refs, errs, nulls),
         CompleteQueued(n, v, q, s)
  PROVE  Panicked \/ Completed
<1>1. Typed(kind, errs, nulls, fails, refs, asy, taskCycle, fut, stage, pending)
  BY StateTyped
<1>2. PICK c \in Frames : c = CallQueue(n, q) /\ c.op = "queue"
  BY QueueCall
<1>3. PICK more \in Seq(Frames) : more = <<c>> \o s
  BY PushSeq
<1>4. Frs(more) = {c} \cup Frs(s)
  BY <1>3, PushSeq
<1>5. Deep(more)
  BY <1>2, <1>3, DeepPush
<1>6. Good(<<InHand(n)>> \o more, kind, asy, refs, errs, nulls)
  BY <1>2, <1>3
<1>7. Sound(<<InHand(n)>> \o more, kind, asy, refs, errs)
      /\ Accounted(<<InHand(n)>> \o more, kind, asy, errs, nulls)
  BY <1>6 DEF Good
<1> DEFINE wrapped == \E i \in DOMAIN Kids[n] : Wrapping(Kids[n][i])
<1>8. CASE IsNil(Parent[n]) /\ NotAwait /\ stack' = more /\ UNCHANGED <<treeVars, outcome>>
  <2>1. Parent[n] \in Anc[n]
    BY AncStep
  <2>2. ~Shown(n, kind)
    BY <1>8, <2>1 DEF Shown, IsNil
  <2>3. PICK h \in Frames : h = InHand(n) /\ \A w \in Nodes : Waits(h, w) <=> w = n
    BY HandCall
  <2>4. Good(more, kind, asy, refs, errs, nulls)
    BY <1>1, <1>6, <2>2, <2>3, GoodDrop DEF Typed
  <2>5. Awaiting(more, asy, yieldTasks)
    BY <1>5, QuietAwaiting
  <2>6. stack' = more /\ outcome' = outcome /\ Kept
    BY <1>8 DEF Kept, NotAwait, taskVars, treeVars
  <2> QED
    BY <1>1, <2>4, <2>5, <2>6 DEF Completed, Kept, Typed
<1>9. CASE Fail(n, more) /\ UNCHANGED nulls /\ NotAwait
  BY <1>5, <1>6, <1>9, HandFail
<1>10. CASE SetNil(n, more) /\ NotAwait
  BY <1>5, <1>6, <1>10, HandNil
<1>11. CASE Shape[n] # "list" /\ CompleteNonWrapping(n, v, more)
  BY <1>5, <1>6, <1>11, NonWrappingCompletes
<1>12. CASE /\ Shape[n] = "list" /\ NotAwait /\ UNCHANGED nulls
            /\ SetKind(n, "list", <<CallQueue(n, q \o Kids[n])>> \o s)
  <2>1. /\ Sound(<<CallQueue(n, q \o Kids[n])>> \o s, [kind EXCEPT ![n] = "list"], asy, refs, errs)
        /\ Accounted(<<CallQueue(n, q \o Kids[n])>> \o s, [kind EXCEPT ![n] = "list"], asy, errs, nulls)
    BY <1>1, <1>2, <1>3, <1>7, <1>12, StartQueue DEF Typed
  <2>2. Kids[n] \in Seq(Nodes)
    BY TreeAssumption
  <2>3. PICK p \in Seq(Nodes) : p = q \o Kids[n]
    <3>1. q \o Kids[n] \in Seq(Nodes)
      BY <2>2
    <3> QED
      BY <3>1
  <2>4. PICK z \in Frames : z = CallQueue(n, p) /\ z.op = "queue"
    BY QueueCall
  <2>5. PICK u \in Seq(Frames) : u = <<z>> \o s
    BY PushSeq
  <2>6. Awaiting(u, asy, yieldTasks)
    BY <2>4, <2>5, DeepPush, QuietAwaiting
  <2>7. /\ kind' = [kind EXCEPT ![n] = "list"] /\ stack' = u /\ outcome' = outcome
        /\ UNCHANGED <<errs, nulls, fails, refs, asy, taskCycle, fut, stage, pending>>
    BY <1>12, <2>3, <2>4, <2>5 DEF SetKind, NotAwait, taskVars
  <2>8. Good(u, kind', asy, refs, errs, nulls)
    BY <2>1, <2>3, <2>4, <2>5, <2>7 DEF Good
  <2>9. kind' \in [Nodes -> Kinds]
    BY <1>1, <2>7 DEF Typed, Kinds
  <2> QED
    BY <1>1, <2>6, <2>7, <2>8, <2>9 DEF Completed, Typed
<1>13. CASE /\ Shape[n] = "list" /\ NotAwait /\ UNCHANGED nulls /\ ~wrapped
            /\ SetKind(n, "list", <<Call("elements", n)>> \o more)
  <2>1. PICK z \in Frames : z = Call("elements", n) /\ z.op = "elements" /\ z.n = n
    <3>1. Call("elements", n) \in Frames /\ Call("elements", n).op = "elements" /\ Call("elements", n).n = n
      BY DEF Call, Frames
    <3> QED
      BY <3>1
  <2>2. FrameOK(z)
    BY <1>13, <2>1 DEF FrameOK, Wrapping
  <2>3. /\ Sound(<<z>> \o more, [kind EXCEPT ![n] = "list"], asy, refs, errs)
        /\ Accounted(<<z>> \o more, [kind EXCEPT ![n] = "list"], asy, errs, nulls)
    BY <1>1, <1>4, <1>7, <2>1, <2>2, StartLoop DEF Typed, Kinds
  <2>4. PICK u \in Seq(Frames) : u = <<z>> \o more
    BY PushSeq
  <2>5. Awaiting(u, asy, yieldTasks)
    BY <1>5, <2>1, <2>4, DeepPush, QuietAwaiting
  <2>6. /\ kind' = [kind EXCEPT ![n] = "list"] /\ stack' = u /\ outcome' = outcome
        /\ UNCHANGED <<errs, nulls, fails, refs, asy, taskCycle, fut, stage, pending>>
    BY <1>13, <2>1, <2>4 DEF SetKind, NotAwait, taskVars
  <2>7. Good(u, kind', asy, refs, errs, nulls)
    BY <2>3, <2>4, <2>6 DEF Good
  <2>8. kind' \in [Nodes -> Kinds]
    BY <1>1, <2>6 DEF Typed, Kinds
  <2> QED
    BY <1>1, <2>5, <2>6, <2>7, <2>8 DEF Completed, Typed
<1> QED
  BY <1>2, <1>3, <1>8, <1>9, <1>10, <1>11, <1>12, <1>13 DEF CompleteQueued

\* completeValue for a field
LEMMA ValueCompletes ==
  ASSUME TypeOK, NoneLive(asy), NEW n \in Nodes \ {Root}, ~IsElement(n), NEW v,
         NEW s \in Seq(Frames), Deep(s), \E g \in Frs(s) : Releases(g, Owner[n]),
         Good(<<InHand(n)>> \o s, kind, asy, refs, errs, nulls), CompleteValue(n, v, s)
  PROVE  Panicked \/ Completed
<1>1. CASE ~Wrapping(n) /\ CompleteNonWrapping(n, v, s)
  BY <1>1, NonWrappingCompletes DEF Wrapping
<1>2. CASE Fail(n, s) /\ UNCHANGED nulls /\ NotAwait
  BY <1>2, HandFail
<1>3. CASE Await(n, s)
  BY <1>3, HandAwait
<1>4. CASE CompleteQueued(n, v, << >>, s)
  <2>1. refs \in [Nodes -> Nat]
    BY DEF TypeOK
  <2>2. Good(<<InHand(n)>> \o (<<CallQueue(n, << >>)>> \o s), kind, asy, refs, errs, nulls)
    BY <2>1, HandWrapped
  <2>3. << >> \in Seq(Nodes)
    OBVIOUS
  <2> QED
    BY <1>4, <2>2, <2>3, QueuedCompletes
<1> QED
  BY <1>1, <1>2, <1>3, <1>4 DEF CompleteValue

-----------------------------------------------------------------------------
(* The steps *)

\* The same with a call on top that does not await a future
LEMMA TopAwaiting ==
  ASSUME NEW z \in Frames, NEW s \in Seq(Frames), NEW as, NEW yt, NoneLive(as), Deep(s),
         z.op \notin Polls \cup {"tryDispatch", "dispatch", "execute", "hand"}
  PROVE  Awaiting(<<z>> \o s, as, yt)
<1>1. <<z>> \o s # << >> /\ (<<z>> \o s)[1] = z /\ Tail(<<z>> \o s) = s
  BY PushSeq
<1> QED
  BY <1>1 DEF Awaiting, NoneLive

\* What a step of the goroutine finds.
LEMMA StackFacts ==
  ASSUME IInv, stack # << >>
  PROVE  /\ Top \in Frames /\ Rest \in Seq(Frames) /\ stack = <<Top>> \o Rest
         /\ Good(<<Top>> \o Rest, kind, asy, refs, errs, nulls) /\ Deep(Rest)
         /\ Top.op \notin Polls \cup {"tryDispatch", "dispatch", "drain"} => NoneLive(asy)
<1>1. stack \in Seq(Frames)
  BY DEF IInv, Sound
<1>2. Top \in Frames /\ Rest \in Seq(Frames) /\ stack = <<Top>> \o Rest
  BY <1>1, PopSeq DEF Top, Rest
<1>3. Good(<<Top>> \o Rest, kind, asy, refs, errs, nulls)
  BY <1>2 DEF IInv, Good
<1>4. Deep(Rest)
  BY DEF IInv, Awaiting, Rest
<1>5. Top.op \notin Polls \cup {"tryDispatch", "dispatch", "drain"} => NoneLive(asy)
  BY DEF IInv, Awaiting, NoneLive, Top
<1> QED
  BY <1>2, <1>3, <1>4, <1>5

\* The invariant while the execution is running
LEMMA Settled ==
  ASSUME TypeOK', Good(stack', kind', asy', refs', errs', nulls'),
         Awaiting(stack', asy', yieldTasks'), outcome' = "running"
  PROVE  IInv'
BY DEF IInv, PanicsAfterError, Good

\* A step that panics or completes a node keeps the invariant.
LEMMA CompletionSettles ==
  ASSUME IInv, outcome = "running", Panicked \/ Completed,
         UNCHANGED <<nonNull, waker, wakes, yieldVars>>
  PROVE  IInv'
<1>1. TypeOK /\ UNCHANGED <<nonNull, waker, wakes, yieldTasks, blocked, cycle>>
  BY DEF IInv, yieldVars
<1>2. CASE Completed
  <2>1. TypeOK'
    BY <1>1, <1>2 DEF Completed, Typed, TypeOK, Kinds
  <2> QED
    BY <1>1, <1>2, <2>1, Settled DEF Completed
<1>3. CASE Panicked
  <2>1. TypeOK'
    BY <1>1, <1>3 DEF Panicked, Kept, TypeOK
  <2>2. PanicsAfterError'
    BY <1>3 DEF Panicked, Kept, PanicsAfterError, IsNil
  <2> QED
    BY <1>1, <1>3, <2>1, <2>2 DEF Panicked, Kept, IInv
<1> QED
  BY <1>2, <1>3

\* ExecuteNodeTask.run completes the field with its release below it.
LEMMA RunNodeStep == ASSUME IInv, RunNode PROVE IInv'
<1>1. outcome = "running" /\ stack # << >> /\ Top.op = "run" /\ TypeOK
  BY DEF RunNode, At, IInv
<1>2. PICK x \in Frames : x = Top
  BY <1>1, StackFacts
<1>3. PICK s \in Seq(Frames) : s = Rest
  BY <1>1, StackFacts
<1>4. Good(<<x>> \o s, kind, asy, refs, errs, nulls) /\ Deep(s) /\ NoneLive(asy)
  BY <1>1, <1>2, <1>3, StackFacts DEF Polls
<1>5. refs \in [Nodes -> Nat]
  BY <1>1 DEF TypeOK
<1>6. Fits(x, s, kind, asy, refs, errs)
  BY <1>4, <1>5, SoundPop DEF Good
<1>7. PICK n \in Nodes \ {Root} : n = x.n /\ ~IsElement(n) /\ Owner[n] = n
  <2>1. x.n \in Nodes /\ x.n # Root /\ ~IsElement(x.n)
    BY <1>1, <1>2, <1>6 DEF Fits, FrameOK, Frames
  <2> QED
    BY <2>1, OwnerFacts
<1>8. PICK r \in Seq(Frames) : r = <<Call("release", n)>> \o s
  BY <1>1, <1>2, <1>4, <1>5, <1>7, HandRun
<1>9. Good(<<InHand(n)>> \o r, kind, asy, refs, errs, nulls) /\ \E g \in Frs(r) : Releases(g, Owner[n])
  BY <1>1, <1>2, <1>4, <1>5, <1>7, <1>8, HandRun
<1>10. Deep(r)
  BY <1>4, <1>7, <1>8, ReleaseCall, DeepPush
<1>11. PICK v : CompleteValue(n, v, r)
  BY <1>2, <1>3, <1>7, <1>8 DEF RunNode
<1>12. Panicked \/ Completed
  BY <1>1, <1>4, <1>7, <1>9, <1>10, <1>11, ValueCompletes
<1> QED
  BY <1>1, <1>12, CompletionSettles DEF RunNode

\* completeWrappingValue takes a node from its queue, or is done with it.
LEMMA QueueStep == ASSUME IInv, Queue PROVE IInv'
<1>1. outcome = "running" /\ stack # << >> /\ Top.op = "queue" /\ TypeOK
  BY DEF Queue, At, IInv
<1>2. PICK x \in Frames : x = Top
  BY <1>1, StackFacts
<1>3. PICK s \in Seq(Frames) : s = Rest
  BY <1>1, StackFacts
<1>4. Good(<<x>> \o s, kind, asy, refs, errs, nulls) /\ Deep(s) /\ NoneLive(asy)
  BY <1>1, <1>2, <1>3, StackFacts DEF Polls
<1>5. refs \in [Nodes -> Nat]
  BY <1>1 DEF TypeOK
<1>6. CASE x.queue = << >>
  <2>1. \A w \in Nodes : ~Waits(x, w)
    BY <1>1, <1>2, <1>6 DEF Waits
  <2>2. Good(s, kind, asy, refs, errs, nulls)
    BY <1>4, <1>5, <2>1, GoodDrop
  <2>3. Awaiting(s, asy, yieldTasks)
    BY <1>4, QuietAwaiting
  <2>4. stack' = s /\ outcome' = outcome /\ Kept
    BY <1>2, <1>3, <1>6 DEF Queue, Kept, NotAwait, taskVars, treeVars
  <2>5. Completed
    BY <1>1, <2>2, <2>3, <2>4, StateTyped DEF Completed, Kept
  <2> QED
    BY <1>1, <2>5, CompletionSettles DEF Queue
<1>7. CASE x.queue # << >>
  <2>1. PICK n \in Nodes \ {Root} : n = Head(x.queue)
    <3>1. Head(x.queue) \in Nodes /\ IsElement(Head(x.queue))
      BY <1>1, <1>2, <1>4, <1>5, <1>7, HandQueue
    <3> QED
      BY <3>1 DEF IsElement
  <2>2. PICK q \in Seq(Nodes) : q = Tail(x.queue)
    BY <1>1, <1>2, <1>4, <1>5, <1>7, HandQueue
  <2>3. /\ Good(<<InHand(n)>> \o (<<CallQueue(n, q)>> \o s), kind, asy, refs, errs, nulls)
        /\ \E g \in Frs(s) : Releases(g, Owner[n])
    BY <1>1, <1>2, <1>4, <1>5, <1>7, <2>1, <2>2, HandQueue
  <2>4. PICK v : CompleteQueued(n, v, q, s)
    BY <1>2, <1>3, <1>7, <2>1, <2>2 DEF Queue
  <2>5. Panicked \/ Completed
    BY <1>1, <1>4, <2>3, <2>4, QueuedCompletes
  <2> QED
    BY <1>1, <2>5, CompletionSettles DEF Queue
<1> QED
  BY <1>6, <1>7

\* The node in hand, and a loop below it that is left: nothing it has to complete is visible.
LEMMA HandSkip ==
  ASSUME NEW kd, NEW as, NEW rf \in [Nodes -> Nat], NEW er, NEW nl, NEW s \in Seq(Frames),
         NEW n \in Nodes, NEW z \in Frames,
         Good(<<InHand(n)>> \o (<<z>> \o s), kd, as, rf, er, nl),
         \A w \in Nodes : Waits(z, w) => ~Shown(w, kd)
  PROVE  Good(<<InHand(n)>> \o s, kd, as, rf, er, nl)
<1>1. PICK h \in Frames : h = InHand(n) /\ h.op = "hand" /\ \A w \in Nodes : ~Holds(h, w)
  BY HandCall
<1>2. PICK r \in Seq(Frames) : r = <<z>> \o s
  BY PushSeq
<1>3. Frs(r) = {z} \cup Frs(s) /\ Frs(<<h>> \o r) = {h} \cup Frs(r) /\ Frs(<<h>> \o s) = {h} \cup Frs(s)
  BY <1>2, PushSeq
<1>4. Sound(<<h>> \o r, kd, as, rf, er) /\ Accounted(<<h>> \o r, kd, as, er, nl)
  BY <1>1, <1>2 DEF Good
<1>5. Sound(r, kd, as, rf, er) /\ Fits(h, r, kd, as, rf, er)
  BY <1>4, SoundPop
<1>6. Sound(s, kd, as, rf, er)
  BY <1>2, <1>5, SoundPop
<1>7. Fits(h, s, kd, as, rf, er)
  <2>1. Serial({h} \cup Frs(r), kd, as)
    BY <1>5 DEF Fits
  <2>2. Serial({h} \cup Frs(s), kd, as)
    BY <1>3, <2>1, SerialLess
  <2> QED
    BY <1>1, <1>3, <1>5, <2>2 DEF Fits
<1>8. Sound(<<h>> \o s, kd, as, rf, er)
  BY <1>6, <1>7, SoundPush
<1>9. \A w \in Nodes : Shown(w, kd) /\ Pending(Frs(<<h>> \o r), as, w) => Pending(Frs(<<h>> \o s), as, w)
  BY <1>3 DEF Pending
<1>10. Accounted(<<h>> \o s, kd, as, er, nl)
  BY <1>4, <1>9, AccountedLess
<1> QED
  BY <1>1, <1>8, <1>10 DEF Good

\* The loop over elements completes one, ends, or fails for the list itself.
LEMMA ElementsStep == ASSUME IInv, Elements PROVE IInv'
<1>1. outcome = "running" /\ stack # << >> /\ Top.op = "elements" /\ TypeOK
  BY DEF Elements, At, IInv
<1>2. PICK x \in Frames : x = Top
  BY <1>1, StackFacts
<1>3. PICK s \in Seq(Frames) : s = Rest
  BY <1>1, StackFacts
<1>4. Good(<<x>> \o s, kind, asy, refs, errs, nulls) /\ Deep(s) /\ NoneLive(asy)
  BY <1>1, <1>2, <1>3, StackFacts DEF Polls
<1>5. refs \in [Nodes -> Nat]
  BY <1>1 DEF TypeOK
<1>6. x.n \in Nodes /\ x.i \in Nat \ {0} /\ Kids[x.n] \in Seq(Nodes \ {Root})
  BY TreeAssumption DEF Frames
<1>7. CASE x.i > Len(Kids[x.n]) /\ stack' = s /\ NotAwait /\ UNCHANGED <<treeVars, outcome>>
  <2>1. \A w \in Nodes : ~Waits(x, w)
    BY <1>1, <1>2, <1>6, <1>7 DEF Waits
  <2>2. Good(s, kind, asy, refs, errs, nulls)
    BY <1>4, <1>5, <2>1, GoodDrop
  <2>3. Awaiting(s, asy, yieldTasks)
    BY <1>4, QuietAwaiting
  <2>4. stack' = s /\ outcome' = outcome /\ Kept
    BY <1>7 DEF Kept, NotAwait, taskVars, treeVars
  <2>5. Completed
    BY <1>1, <2>2, <2>3, <2>4, StateTyped DEF Completed, Kept
  <2> QED
    BY <1>1, <2>5, CompletionSettles DEF Elements
<1>8. CASE Fail(x.n, s) /\ NotAwait /\ UNCHANGED nulls
  <2>1. Panicked \/ Completed
    BY <1>1, <1>2, <1>4, <1>8, ListFail
  <2> QED
    BY <1>1, <2>1, CompletionSettles DEF Elements
<1>9. CASE /\ x.i <= Len(Kids[x.n])
           /\ \E v \in Answer(Kids[x.n][x.i]) :
                CompleteNonWrapping(Kids[x.n][x.i], v,
                  IF v = "bad" /\ IsNil(x.n) THEN s ELSE <<CallAt("elements", x.n, x.i + 1)>> \o s)
  <2>0. x.op = "elements" /\ x.i <= Len(Kids[x.n])
    BY <1>1, <1>2, <1>9
  <2>1. Kids[x.n][x.i] \in Nodes /\ IsElement(Kids[x.n][x.i]) /\ Shape[Kids[x.n][x.i]] # "list"
    <3>1. Kids[x.n][x.i] \in Nodes
      BY <1>4, <1>5, <2>0, HandElement
    <3>2. IsElement(Kids[x.n][x.i])
      BY <1>4, <1>5, <2>0, HandElement
    <3>3. Shape[Kids[x.n][x.i]] # "list"
      <4>1. FrameOK(x)
        BY <1>4, <1>5, SoundPop DEF Good, Fits
      <4>2. x.i \in DOMAIN Kids[x.n]
        BY <1>6, <2>0
      <4> QED
        BY <2>0, <4>1, <4>2 DEF FrameOK
    <3> QED
      BY <3>1, <3>2, <3>3
  <2>2. PICK n \in Nodes \ {Root} : n = Kids[x.n][x.i]
    BY <2>1 DEF IsElement
  <2>3. PICK r \in Seq(Frames) : r = <<CallAt("elements", x.n, x.i + 1)>> \o s
    <3>1. <<CallAt("elements", x.n, x.i + 1)>> \o s \in Seq(Frames)
      BY <1>1, <1>2, <1>4, <1>5, <1>9, HandElement
    <3> QED
      BY <3>1
  <2>4. Good(<<InHand(n)>> \o r, kind, asy, refs, errs, nulls)
    BY <1>1, <1>2, <1>4, <1>5, <1>9, <2>2, <2>3, HandElement
  <2>5. PICK z \in Frames : z = CallAt("elements", x.n, x.i + 1) /\ z.op = "elements" /\ z.n = x.n
    <3>1. PICK i \in Nat \ {0} : i = x.i + 1
      BY <1>6
    <3> QED
      BY <1>6, <3>1, LoopCall
  <2>6. Deep(r)
    BY <1>4, <2>3, <2>5, DeepPush
  <2>7. PICK v : CompleteNonWrapping(n, v, IF v = "bad" /\ IsNil(x.n) THEN s ELSE r)
    BY <1>9, <2>2, <2>3
  <2>8. CASE ~(v = "bad" /\ IsNil(x.n))
    <3>1. CompleteNonWrapping(n, v, r)
      BY <2>7, <2>8
    <3>2. Panicked \/ Completed
      BY <1>1, <1>4, <2>1, <2>2, <2>4, <2>6, <3>1, NonWrappingCompletes
    <3> QED
      BY <1>1, <3>2, CompletionSettles DEF Elements
  <2>9. CASE v = "bad" /\ IsNil(x.n)
    <3>1. CompleteNonWrapping(n, v, s)
      BY <2>7, <2>9
    <3>2. \A w \in Nodes : Waits(z, w) => ~Shown(w, kind)
      <4>1. SUFFICES ASSUME NEW w \in Nodes, Waits(z, w) PROVE ~Shown(w, kind)
        OBVIOUS
      <4>2. PICK j \in DOMAIN Kids[z.n] : w = Kids[z.n][j]
        BY <2>5, <4>1 DEF Waits
      <4>3. z.n \in Nodes
        BY <1>6, <2>5
      <4>4. Anc[Kids[z.n][j]] = {z.n} \cup Anc[z.n]
        BY <4>2, <4>3, AncOfKid
      <4>5. x.n \in Anc[w]
        BY <2>5, <4>2, <4>4
      <4> QED
        BY <2>9, <4>5 DEF Shown, IsNil
    <3>3. Good(<<InHand(n)>> \o s, kind, asy, refs, errs, nulls)
      BY <1>4, <1>5, <2>3, <2>4, <2>5, <3>2, HandSkip
    <3>4. Panicked \/ Completed
      BY <1>1, <1>4, <2>1, <2>2, <3>1, <3>3, NonWrappingCompletes
    <3> QED
      BY <1>1, <3>4, CompletionSettles DEF Elements
  <2> QED
    BY <2>8, <2>9
<1> QED
  BY <1>2, <1>3, <1>7, <1>8, <1>9 DEF Elements

\* The value of a future is completed.
LEMMA ValueStep == ASSUME IInv, Value PROVE IInv'
<1>1. outcome = "running" /\ stack # << >> /\ Top.op = "value" /\ TypeOK
  BY DEF Value, At, IInv
<1>2. PICK x \in Frames : x = Top
  BY <1>1, StackFacts
<1>3. PICK s \in Seq(Frames) : s = Rest
  BY <1>1, StackFacts
<1>4. Good(<<x>> \o s, kind, asy, refs, errs, nulls) /\ Deep(s) /\ NoneLive(asy)
  BY <1>1, <1>2, <1>3, StackFacts DEF Polls
<1>5. refs \in [Nodes -> Nat]
  BY <1>1 DEF TypeOK
<1>6. Fits(x, s, kind, asy, refs, errs)
  BY <1>4, <1>5, SoundPop DEF Good
<1>7. PICK n \in Nodes \ {Root} : n = x.n /\ (IsElement(n) => Shape[n] # "list")
  <2>1. x.n \in Nodes /\ x.n # Root /\ (IsElement(x.n) => Shape[x.n] # "list")
    BY <1>1, <1>2, <1>6 DEF Fits, FrameOK, Frames
  <2> QED
    BY <2>1
<1>8. PICK r \in Seq(Frames) : r = <<Call("release", Owner[n])>> \o s
  BY <1>1, <1>2, <1>4, <1>5, <1>7, HandRun
<1>9. Good(<<InHand(n)>> \o r, kind, asy, refs, errs, nulls) /\ \E g \in Frs(r) : Releases(g, Owner[n])
  BY <1>1, <1>2, <1>4, <1>5, <1>7, <1>8, HandRun
<1>10. Deep(r)
  <2>1. Owner[n] \in Nodes /\ ~IsElement(Owner[n])
    BY OwnerFacts
  <2> QED
    BY <1>4, <1>8, <2>1, ReleaseCall, DeepPush
<1>11. \/ Fail(n, s) /\ NotAwait /\ UNCHANGED nulls
       \/ \E v : IF IsElement(n) THEN CompleteNonWrapping(n, v, r) ELSE CompleteValue(n, v, r)
  BY <1>2, <1>3, <1>7, <1>8 DEF Value
<1>12. CASE Fail(n, s) /\ NotAwait /\ UNCHANGED nulls
  <2>1. Good(<<InHand(n)>> \o s, kind, asy, refs, errs, nulls)
    BY <1>1, <1>2, <1>4, <1>5, <1>7, HandValue
  <2>2. Panicked \/ Completed
    BY <1>1, <1>4, <1>12, <2>1, HandFail
  <2> QED
    BY <1>1, <2>2, CompletionSettles DEF Value
<1>13. ASSUME NEW v, IsElement(n), CompleteNonWrapping(n, v, r) PROVE IInv'
  <2>1. Panicked \/ Completed
    BY <1>1, <1>4, <1>7, <1>9, <1>10, <1>13, NonWrappingCompletes
  <2> QED
    BY <1>1, <2>1, CompletionSettles DEF Value
<1>14. ASSUME NEW v, ~IsElement(n), CompleteValue(n, v, r) PROVE IInv'
  <2>1. Panicked \/ Completed
    BY <1>1, <1>4, <1>9, <1>10, <1>14, ValueCompletes
  <2> QED
    BY <1>1, <2>1, CompletionSettles DEF Value
<1> QED
  BY <1>11, <1>12, <1>13, <1>14

\* The root is above every other node.
LEMMA RootAbove == \A n \in Nodes \ {Root} : Root \in Anc[n]
<1> DEFINE S == {Root} \cup {n \in Nodes : Root \in Anc[n]}
<1>1. S \in SUBSET Nodes /\ Root \in S
  BY TreeAssumption
<1>2. ASSUME NEW n \in Nodes \ {Root}, Parent[n] \in S PROVE n \in S
  <2>1. Anc[n] = {Parent[n]} \cup Anc[Parent[n]]
    BY AncStep
  <2> QED
    BY <1>2, <2>1
<1>3. S = Nodes
  BY <1>1, <1>2, FromRoot
<1> QED
  BY <1>3

\* The root becomes an object or collectFields fails, and nothing else is on the stack.
LEMMA ExecuteStep == ASSUME IInv, Execute PROVE IInv'
<1>1. /\ outcome = "running" /\ stack # << >> /\ Top.op = "execute" /\ TypeOK
      /\ UNCHANGED <<nonNull, nulls, fut, stage, waker, wakes, pending, refs, asy, taskCycle,
                     yieldTasks, blocked, cycle>>
  BY DEF Execute, At, IInv, loadVars, taskVars, yieldVars
<1>2. PICK x \in Frames : x = Top
  BY <1>1, StackFacts
<1>3. PICK s \in Seq(Frames) : s = Rest
  BY <1>1, StackFacts
<1>4. Good(<<x>> \o s, kind, asy, refs, errs, nulls) /\ Deep(s) /\ NoneLive(asy)
  BY <1>1, <1>2, <1>3, StackFacts DEF Polls
<1>5. s = << >>
  BY <1>1, <1>3 DEF IInv, Awaiting, Top, Rest
<1>6. refs \in [Nodes -> Nat] /\ Root \in Nodes
  BY <1>1, TreeAssumption DEF TypeOK
<1>7. x.n = Root
  <2>1. FrameOK(x)
    BY <1>4, <1>6, SoundPop DEF Good, Fits
  <2> QED
    BY <1>1, <1>2, <2>1 DEF FrameOK
<1>8. Good(<<InHand(Root)>> \o s, kind, asy, refs, errs, nulls)
  BY <1>1, <1>2, <1>4, <1>6, <1>7, HandValue
<1>9. CASE StartObject(Root, << >>)
  <2>1. StartObject(Root, s) /\ NotAwait /\ nulls' = nulls
    BY <1>1, <1>5, <1>9 DEF NotAwait, taskVars
  <2>2. Completed
    BY <1>1, <1>4, <1>6, <1>8, <2>1, HandObject, TreeAssumption
  <2> QED
    BY <1>1, <2>2, CompletionSettles DEF yieldVars
<1>10. CASE errs' = {Root} /\ stack' = << >> /\ UNCHANGED <<kind, fails, outcome>>
  <2>1. Sound(s, kind, asy, refs, errs) /\ kind[Root] = "none"
    BY <1>6, <1>8, HandFacts DEF Good
  <2>2. Frs(s) = {}
    BY <1>5 DEF Frs
  <2>3. Sound(s, kind, asy, refs, {Root})
    BY <1>4, <2>1, <2>2 DEF Sound, NoneLive
  <2>4. Accounted(s, kind, asy, {Root}, nulls)
    BY <2>1, RootAbove DEF Accounted, Shown, Below
  <2>5. Awaiting(s, asy, yieldTasks)
    BY <1>4, QuietAwaiting
  <2>6. Typed(kind, {Root}, nulls, fails, refs, asy, taskCycle, fut, stage, pending)
    BY <1>1, <1>6, StateTyped DEF Typed
  <2>7. Completed
    BY <1>1, <1>5, <1>10, <2>3, <2>4, <2>5, <2>6 DEF Completed, Good
  <2> QED
    BY <1>1, <2>7, CompletionSettles DEF yieldVars
<1> QED
  BY <1>9, <1>10 DEF Execute

\* dispatchTasksForObject starts the next field or is done.
LEMMA FieldsStep == ASSUME IInv, Fields PROVE IInv'
<1>1. /\ outcome = "running" /\ stack # << >> /\ Top.op = "fields" /\ TypeOK
      /\ UNCHANGED <<nonNull, kind, errs, nulls, fails, fut, stage, waker, wakes, pending, asy,
                     taskCycle, yieldTasks, blocked, cycle, outcome>>
  BY DEF Fields, At, IInv, loadVars, treeVars, yieldVars
<1>2. PICK x \in Frames : x = Top
  BY <1>1, StackFacts
<1>3. PICK s \in Seq(Frames) : s = Rest
  BY <1>1, StackFacts
<1>4. Good(<<x>> \o s, kind, asy, refs, errs, nulls) /\ Deep(s) /\ NoneLive(asy)
  BY <1>1, <1>2, <1>3, StackFacts DEF Polls
<1>5. refs \in [Nodes -> Nat] /\ Root \in Nodes
  BY <1>1, TreeAssumption DEF TypeOK
<1>6. x.n \in Nodes /\ x.i \in Nat \ {0} /\ Kids[x.n] \in Seq(Nodes \ {Root})
  BY TreeAssumption DEF Frames
<1>7. CASE x.i > Len(Kids[x.n]) /\ stack' = s /\ refs' = refs
  <2>1. \A w \in Nodes : ~Waits(x, w)
    BY <1>1, <1>2, <1>6, <1>7 DEF Waits
  <2>2. Good(s, kind, asy, refs, errs, nulls)
    BY <1>4, <1>5, <2>1, GoodDrop
  <2>3. Awaiting(s, asy, yieldTasks)
    BY <1>4, QuietAwaiting
  <2>4. Completed
    BY <1>1, <1>7, <2>2, <2>3, StateTyped DEF Completed
  <2> QED
    BY <1>1, <2>4, CompletionSettles DEF yieldVars
<1>8. CASE /\ ~(x.i > Len(Kids[x.n]))
           /\ refs' = [refs EXCEPT ![Kids[x.n][x.i]] = 1]
           /\ stack' = <<Call("run", Kids[x.n][x.i]), Call("drain", Root),
                         CallAt("fields", x.n, x.i + 1)>> \o s
  <2>0. x.op = "fields" /\ x.i <= Len(Kids[x.n]) /\ x.i \in DOMAIN Kids[x.n]
    BY <1>1, <1>2, <1>6, <1>8
  <2>1. PICK k \in Nodes : k = Kids[x.n][x.i]
    BY <1>6, <2>0, KidFacts
  <2>2. PICK c \in Frames : c = CallAt("fields", x.n, x.i + 1) /\ c.op = "fields"
    <3>1. PICK i \in Nat \ {0} : i = x.i + 1
      BY <1>6
    <3> QED
      BY <1>6, <3>1, LoopCall
  <2>3. PICK b \in Frames : b = Call("drain", Root) /\ b.op = "drain"
    BY <1>5, InertCall DEF Inert
  <2>4. PICK a \in Frames : a = Call("run", k) /\ a.op = "run"
    <3>1. Call("run", k) \in Frames /\ Call("run", k).op = "run"
      BY DEF Call, Frames
    <3> QED
      BY <3>1
  <2>5. PICK r \in Seq(Frames) : r = <<c>> \o s
    BY PushSeq
  <2>6. PICK d \in Seq(Frames) : d = <<b>> \o r
    BY PushSeq
  <2>7. Good(<<a>> \o d, kind, asy, [refs EXCEPT ![k] = 1], errs, nulls)
    BY <1>4, <1>5, <2>0, <2>1, <2>2, <2>3, <2>4, <2>5, <2>6, FieldStarted
  <2>8. stack' = <<a>> \o d
    <3>1. stack' = <<a, b, c>> \o s
      BY <1>8, <2>1, <2>2, <2>3, <2>4
    <3>2. <<a, b, c>> \o s = <<a>> \o (<<b>> \o (<<c>> \o s))
      BY TripleSeq, Zenon
    <3> QED
      BY <2>5, <2>6, <3>1, <3>2, Zenon
  <2>9. Deep(d)
    BY <1>4, <2>2, <2>3, <2>5, <2>6, DeepPush
  <2>10. Awaiting(<<a>> \o d, asy, yieldTasks)
    BY <1>4, <2>4, <2>9, TopAwaiting DEF Polls
  <2>11. refs' = [refs EXCEPT ![k] = 1] /\ refs' \in [Nodes -> Nat]
    <3>1. refs' = [refs EXCEPT ![k] = 1]
      BY <1>8, <2>1
    <3>2. [refs EXCEPT ![k] = 1] \in [Nodes -> Nat]
      BY <1>5
    <3> QED
      BY <3>1, <3>2
  <2>12. Typed(kind, errs, nulls, fails, refs', asy, taskCycle, fut, stage, pending)
    BY <1>1, <2>11, StateTyped DEF Typed
  <2>13. Completed
    BY <1>1, <2>7, <2>8, <2>10, <2>11, <2>12 DEF Completed
  <2> QED
    BY <1>1, <2>13, CompletionSettles DEF yieldVars
<1> QED
  BY <1>2, <1>3, <1>7, <1>8 DEF Fields

\* ExecuteNodeTask.release
LEMMA ReleaseStep == ASSUME IInv, Release PROVE IInv'
<1>1. /\ outcome = "running" /\ stack # << >> /\ Top.op = "release" /\ TypeOK
      /\ UNCHANGED <<nonNull, kind, errs, nulls, fails, fut, stage, waker, wakes, pending, asy,
                     taskCycle, yieldTasks, blocked, cycle, outcome>>
  BY DEF Release, At, IInv, loadVars, treeVars, yieldVars
<1>2. PICK x \in Frames : x = Top
  BY <1>1, StackFacts
<1>3. PICK s \in Seq(Frames) : s = Rest
  BY <1>1, StackFacts
<1>4. Good(<<x>> \o s, kind, asy, refs, errs, nulls) /\ Deep(s) /\ NoneLive(asy)
  BY <1>1, <1>2, <1>3, StackFacts DEF Polls
<1>5. refs \in [Nodes -> Nat]
  BY <1>1 DEF TypeOK
<1>6. stack' = s /\ refs' = [refs EXCEPT ![x.n] = @ - 1]
  BY <1>2, <1>3 DEF Release
<1>7. refs' \in [Nodes -> Nat] /\ Good(s, kind, asy, refs', errs, nulls)
  BY <1>1, <1>2, <1>4, <1>5, <1>6, FrameReleased
<1>8. Awaiting(s, asy, yieldTasks)
  BY <1>4, QuietAwaiting
<1>9. Typed(kind, errs, nulls, fails, refs', asy, taskCycle, fut, stage, pending)
  BY <1>1, <1>7, StateTyped DEF Typed
<1>10. Completed
  BY <1>1, <1>6, <1>7, <1>8, <1>9 DEF Completed
<1> QED
  BY <1>1, <1>10, CompletionSettles DEF yieldVars

-----------------------------------------------------------------------------
(* Steps of AsyncValueTask and of Dispatch *)

\* One inert call is replaced by another.
LEMMA InertSwap ==
  ASSUME NEW kd, NEW as, NEW rf \in [Nodes -> Nat], NEW er, NEW nl, NEW s \in Seq(Frames),
         NEW x, NEW z, Good(<<x>> \o s, kd, as, rf, er, nl), Inert(x), Inert(z), z.op # "queue"
  PROVE  Good(<<z>> \o s, kd, as, rf, er, nl) /\ Good(s, kd, as, rf, er, nl)
<1>1. x \in Frames /\ \A w \in Nodes : ~Waits(x, w)
  BY DEF Inert
<1>2. Good(s, kd, as, rf, er, nl)
  BY <1>1, GoodDrop
<1> QED
  BY <1>2, InertPush

\* Calls of AsyncValueTask.run and Dispatch are inert.
LEMMA InertTop ==
  ASSUME NEW x \in Frames, x.op \in Polls \cup {"tryDispatch", "dispatch", "drain"}
  PROVE  Inert(x)
<1>1. FrameOK(x) /\ x.op # "elements"
  BY DEF FrameOK, Polls
<1>2. \A w \in Nodes : ~Waits(x, w) /\ ~Covers(x, w) /\ ~Runs(x, w) /\ ~Holds(x, w)
  BY DEF Waits, Covers, Runs, Holds, Polls
<1> QED
  BY <1>1, <1>2 DEF Inert

\* The future is there: the task that was awaiting it goes on with the value.
LEMMA LiveValue ==
  ASSUME NEW kd, NEW as \in [Nodes -> {"none", "live", "over"}], NEW rf \in [Nodes -> Nat], NEW er, NEW nl,
         NEW s \in Seq(Frames), NEW n \in Nodes, Good(s, kd, as, rf, er, nl),
         as[n] = "live", \A m \in Nodes : as[m] = "live" => m = n
  PROVE  Good(<<Call("value", n)>> \o s, kd, [as EXCEPT ![n] = "over"], rf, er, nl)
<1>1. PICK as2 \in [Nodes -> {"none", "live", "over"}] : as2 = [as EXCEPT ![n] = "over"]
  <2>1. [as EXCEPT ![n] = "over"] \in [Nodes -> {"none", "live", "over"}]
    OBVIOUS
  <2> QED
    BY <2>1
<1>2. as2[n] = "over" /\ \A m \in Nodes : m # n => as2[m] = as[m]
  BY <1>1
<1>3. NoneLive(as2)
  BY <1>2 DEF NoneLive
<1>4. Sound(s, kd, as, rf, er) /\ Accounted(s, kd, as, er, nl)
  BY DEF Good
<1>5. Alive(Frs(s), n, kd, as, rf, er)
  BY <1>4 DEF Sound
<1>6. \A w \in Nodes : Untouched(w, kd, as, rf) => Untouched(w, kd, as2, rf)
  BY <1>2 DEF Untouched
<1>7. \A F : \A m \in Nodes : /\ Started(F, kd, as2, m) => Started(F, kd, as, m)
                              /\ Pending(F, as2, m) => Pending(F, as, m)
  BY <1>2, <1>3 DEF Started, Pending, NoneLive
<1>8. Sound(s, kd, as2, rf, er)
  <2>1. \A f \in Frs(s) : Fresh(f, kd, as2, rf)
    <3>1. SUFFICES ASSUME NEW f \in Frs(s) PROVE Fresh(f, kd, as2, rf)
      OBVIOUS
    <3>2. Fresh(f, kd, as, rf)
      BY <1>4 DEF Sound
    <3> QED
      BY <1>2, <1>6, <3>2 DEF Fresh
  <2>2. Serial(Frs(s), kd, as2)
    <3>1. Serial(Frs(s), kd, as)
      BY <1>4 DEF Sound
    <3>2. \A p \in Nodes : \A j \in DOMAIN Kids[p] : Kids[p][j] \in Nodes
      BY KidFacts
    <3> QED
      BY <1>7, <3>1, <3>2 DEF Serial
  <2>3. Counted(s, as2, rf)
    BY <1>3, <1>4 DEF Sound, Counted, NoneLive
  <2> QED
    BY <1>3, <1>4, <2>1, <2>2, <2>3 DEF Sound, NoneLive
<1>9. PICK z \in Frames : z = Call("value", n) /\ z.op = "value" /\ z.n = n
  <2>1. Call("value", n) \in Frames /\ Call("value", n).op = "value" /\ Call("value", n).n = n
    BY DEF Call, Frames
  <2> QED
    BY <2>1
<1>10. \A w \in Nodes : /\ Waits(z, w) <=> w = n
                        /\ Covers(z, w) <=> w = n
                        /\ MayFail(z, w) <=> w = n
                        /\ Runs(z, w) <=> w = n
                        /\ Holds(z, w) <=> w = Owner[n]
  BY <1>9 DEF Waits, Covers, MayFail, Runs, Holds
<1>11. Fits(z, s, kd, as2, rf, er)
  <2>1. FrameOK(z)
    BY <1>5, <1>9 DEF FrameOK, Alive
  <2>2. Fresh(z, kd, as2, rf)
    BY <1>5, <1>6, <1>9, <1>10 DEF Fresh, Alive
  <2>3. \A y \in Nodes : MayFail(z, y) => Explained(y, kd, er)
    BY <1>5, <1>10 DEF Alive
  <2>4. \A g \in Frs(s) : Apart(z, g)
    BY <1>5, <1>9, <1>10 DEF Apart, Alive
  <2>5. Serial({z} \cup Frs(s), kd, as2)
    <3>1. Serial(Frs(s), kd, as)
      BY <1>4 DEF Sound
    <3>2. \A m \in Nodes : /\ Started({z} \cup Frs(s), kd, as2, m) => Started(Frs(s), kd, as, m)
                           /\ Pending({z} \cup Frs(s), as2, m) => Pending(Frs(s), as, m)
      BY <1>2, <1>3, <1>10 DEF Started, Pending, NoneLive
    <3>3. \A p \in Nodes : \A j \in DOMAIN Kids[p] : Kids[p][j] \in Nodes
      BY KidFacts
    <3> QED
      BY <3>1, <3>2, <3>3 DEF Serial
  <2>6. Owner[n] \in Nodes /\ rf[Owner[n]] >= Count(s, Owner[n]) + 1
    <3>1. Owner[n] \in Nodes
      BY OwnerFacts
    <3>2. Count(s, Owner[n]) \in Nat
      BY <3>1, HoldersFinite
    <3>3. rf[Owner[n]] > Count(s, Owner[n]) /\ rf[Owner[n]] \in Nat
      BY <1>4, <3>1 DEF Sound, Counted
    <3> QED
      BY <3>1, <3>2, <3>3
  <2> QED
    BY <1>3, <1>9, <1>10, <2>1, <2>2, <2>3, <2>4, <2>5, <2>6 DEF Fits, NoneLive
<1>12. Sound(<<z>> \o s, kd, as2, rf, er)
  BY <1>8, <1>11, SoundPush
<1>13. Accounted(<<z>> \o s, kd, as2, er, nl)
  <2>1. Frs(<<z>> \o s) = {z} \cup Frs(s)
    BY PushSeq
  <2>2. \A w \in Nodes : Pending(Frs(s), as, w) => Pending(Frs(<<z>> \o s), as2, w)
    BY <1>10, <2>1 DEF Pending
  <2> QED
    BY <1>4, <2>2, AccountedLess
<1> QED
  BY <1>1, <1>9, <1>12, <1>13 DEF Good

\* Poll finds the value, or a chained future loads again.
LEMMA PollReadyStep == ASSUME IInv, PollReady PROVE IInv'
<1>1. /\ outcome = "running" /\ stack # << >> /\ Top.op = "poll" /\ TypeOK
      /\ UNCHANGED <<nonNull, kind, errs, nulls, fails, wakes, refs, taskCycle, yieldTasks, blocked,
                     cycle, outcome>>
  BY DEF PollReady, At, IInv, treeVars, yieldVars
<1>2. PICK x \in Frames : x = Top
  BY <1>1, StackFacts
<1>3. PICK s \in Seq(Frames) : s = Rest
  BY <1>1, StackFacts
<1>4. Good(<<x>> \o s, kind, asy, refs, errs, nulls) /\ Deep(s)
  BY <1>1, <1>2, <1>3, StackFacts
<1>5. PICK n \in Nodes : n = x.n
  BY DEF Frames
<1>6. asy[n] = "live" /\ \A m \in Nodes : asy[m] = "live" => m = n
  BY <1>1, <1>2, <1>5 DEF IInv, Awaiting, Polls, Top
<1>7. CASE /\ stage' = [stage EXCEPT ![n] = 2] /\ Load(n, "queued") /\ waker' = waker \ {n}
           /\ UNCHANGED <<stack, asy>>
  <2>1. TypeOK'
    BY <1>1, <1>7 DEF TypeOK, Load
  <2> QED
    BY <1>1, <1>7, <2>1, Settled DEF IInv, Good
<1>8. CASE /\ asy' = [asy EXCEPT ![n] = "over"] /\ stack' = <<Call("value", n)>> \o s
           /\ UNCHANGED <<stage, fut, pending, waker>>
  <2>1. TypeOK'
    BY <1>1, <1>8 DEF TypeOK
  <2>2. refs \in [Nodes -> Nat] /\ asy \in [Nodes -> {"none", "live", "over"}]
    BY <1>1 DEF TypeOK
  <2>3. Inert(x) /\ x \in Frames /\ \A w \in Nodes : ~Waits(x, w)
    BY <1>1, <1>2, InertTop DEF Polls, Inert
  <2>4. Good(s, kind, asy, refs, errs, nulls)
    BY <1>4, <2>2, <2>3, GoodDrop
  <2>5. Good(<<Call("value", n)>> \o s, kind, [asy EXCEPT ![n] = "over"], refs, errs, nulls)
    BY <1>6, <2>2, <2>4, LiveValue
  <2>6. NoneLive(asy')
    BY <1>6, <1>8, <2>2 DEF NoneLive
  <2>7. Call("value", n) \in Frames /\ Call("value", n).op = "value"
    BY DEF Call, Frames
  <2>8. Awaiting(stack', asy', yieldTasks)
    BY <1>4, <1>8, <2>6, <2>7, TopAwaiting DEF Polls
  <2>9. Good(stack', kind', asy', refs', errs', nulls')
    BY <1>1, <1>8, <2>5
  <2> QED
    BY <1>1, <2>1, <2>8, <2>9, Settled
<1> QED
  BY <1>2, <1>3, <1>5, <1>7, <1>8 DEF PollReady

\* A step from one call of AsyncValueTask.run to the next, which still awaits the future.
LEMMA AsyncStep ==
  ASSUME IInv, TypeOK', outcome' = "running", stack # << >>, Top.op \in Polls,
         NEW op \in Polls \cup {"tryDispatch"}, stack' = <<Call(op, Top.n)>> \o Rest,
         UNCHANGED <<kind, errs, nulls, refs, asy>>,
         \A m \in Nodes : yieldTasks[m] # "none" => yieldTasks'[m] # "none",
         op = "tryDispatch" => yieldTasks'[Top.n] # "none"
  PROVE  IInv'
<1>1. PICK x \in Frames : x = Top
  BY StackFacts
<1>2. PICK s \in Seq(Frames) : s = Rest
  BY StackFacts
<1>3. Good(<<x>> \o s, kind, asy, refs, errs, nulls) /\ Deep(s) /\ Inert(x)
  BY <1>1, <1>2, StackFacts, InertTop
<1>4. PICK n \in Nodes : n = x.n
  BY DEF Frames
<1>5. PICK z \in Frames : z = Call(op, n) /\ Inert(z) /\ z.op = op /\ z.n = n
  BY InertCall DEF Inert, Polls
<1>6. Good(<<z>> \o s, kind, asy, refs, errs, nulls)
  <2>1. refs \in [Nodes -> Nat] /\ z.op # "queue"
    BY <1>5 DEF IInv, TypeOK, Polls
  <2> QED
    BY <1>3, <1>5, <2>1, InertSwap
<1>7. /\ asy[n] = "live" /\ \A m \in Nodes : asy[m] = "live" => m = n
      /\ s # << >> /\ s[1].op = "drain"
  BY <1>1, <1>2, <1>4 DEF IInv, Awaiting, Polls, Top, Rest
<1>8. stack' = <<z>> \o s
  BY <1>1, <1>2, <1>4, <1>5
<1>9. PICK u \in Seq(Frames) : u = <<z>> \o s
  BY PushSeq
<1>10. u # << >> /\ u[1] = z /\ Tail(u) = s
  BY <1>9, PushSeq
<1>11. Awaiting(u, asy, yieldTasks')
  BY <1>1, <1>3, <1>4, <1>5, <1>7, <1>10 DEF Awaiting, Polls
<1> QED
  BY <1>6, <1>8, <1>9, <1>11, Settled

\* Poll stores the waker.
LEMMA PollStoreStep == ASSUME IInv, PollStore PROVE IInv'
<1>1. /\ outcome' = "running" /\ stack # << >> /\ Top.op \in Polls
      /\ stack' = <<Call("publish", Top.n)>> \o Rest
      /\ UNCHANGED <<nonNull, kind, errs, nulls, fails, fut, stage, wakes, pending, refs, asy, taskCycle,
                     yieldTasks, blocked, cycle>>
  BY DEF PollStore, At, treeVars, taskVars, yieldVars, Polls
<1>2. Top.n \in Nodes
  BY <1>1, StackFacts DEF Frames
<1>3. TypeOK'
  BY <1>1, <1>2 DEF PollStore, IInv, TypeOK
<1> QED
  BY <1>1, <1>3, AsyncStep DEF Polls

\* Poll goes on or starts again.
LEMMA PollPublishStep == ASSUME IInv, PollPublish PROVE IInv'
<1>1. /\ outcome' = "running" /\ stack # << >> /\ Top.op \in Polls
      /\ UNCHANGED <<nonNull, kind, errs, nulls, fails, fut, stage, waker, wakes, pending, refs, asy,
                     taskCycle, yieldTasks, blocked, cycle>>
  BY DEF PollPublish, At, treeVars, loadVars, taskVars, yieldVars, Polls
<1>2. PICK op \in Polls : stack' = <<Call(op, Top.n)>> \o Rest
  <2>1. PICK op \in Polls : op = IF fut[Top.n] = "done" THEN "poll" ELSE "yield"
    BY DEF Polls
  <2> QED
    BY <2>1 DEF PollPublish
<1>3. TypeOK'
  BY <1>1 DEF IInv, TypeOK
<1> QED
  BY <1>1, <1>2, <1>3, AsyncStep DEF Polls

\* Yield registers the task: from now on its Dispatch does not return.
LEMMA YieldStep == ASSUME IInv, Yield PROVE IInv'
<1>1. /\ outcome' = "running" /\ stack # << >> /\ Top.op \in Polls
      /\ stack' = <<Call("tryDispatch", Top.n)>> \o Rest
      /\ yieldTasks' = [yieldTasks EXCEPT ![Top.n] = IF @ = "none" THEN "waiting" ELSE @]
      /\ UNCHANGED <<nonNull, kind, errs, nulls, fails, fut, stage, waker, wakes, pending, refs, asy,
                     taskCycle, blocked, cycle>>
  BY DEF Yield, At, treeVars, loadVars, taskVars, Polls
<1>2. Top.n \in Nodes
  BY <1>1, StackFacts DEF Frames
<1>3. TypeOK'
  BY <1>1, <1>2 DEF IInv, TypeOK
<1>4. yieldTasks \in [Nodes -> {"none", "waiting", "resumed"}]
  BY DEF IInv, TypeOK
<1>5. /\ \A m \in Nodes : yieldTasks[m] # "none" => yieldTasks'[m] # "none"
      /\ yieldTasks'[Top.n] # "none"
  BY <1>1, <1>2, <1>4
<1> QED
  BY <1>1, <1>3, <1>5, AsyncStep

\* Back in the Dispatch around the task, which waits for whatever is awaited
LEMMA BackToDrain ==
  ASSUME IInv, TypeOK', outcome' = "running", stack # << >>, Top.op \in {"tryDispatch", "dispatch"},
         stack' = Rest, UNCHANGED <<kind, errs, nulls, refs, asy, yieldTasks>>
  PROVE  IInv'
<1>1. PICK x \in Frames : x = Top
  BY StackFacts
<1>2. PICK s \in Seq(Frames) : s = Rest
  BY StackFacts
<1>3. Good(<<x>> \o s, kind, asy, refs, errs, nulls) /\ Deep(s) /\ Inert(x)
  BY <1>1, <1>2, StackFacts, InertTop
<1>4. refs \in [Nodes -> Nat]
  BY DEF IInv, TypeOK
<1>5. Good(s, kind, asy, refs, errs, nulls)
  BY <1>3, <1>4, GoodDrop DEF Inert
<1>6. /\ \A n \in Nodes : asy[n] = "live" => yieldTasks[n] # "none"
      /\ \A n, m \in Nodes : asy[n] = "live" /\ asy[m] = "live" => m = n
      /\ s # << >> /\ s[1].op = "drain"
  BY <1>2 DEF IInv, Awaiting, Polls, Top, Rest
<1>7. Deep(Tail(s))
  BY <1>3, <1>6, DeepTail
<1>8. Awaiting(s, asy, yieldTasks)
  BY <1>6, <1>7 DEF Awaiting, Polls
<1> QED
  BY <1>2, <1>5, <1>8, Settled

\* tryDispatchDataLoaders
LEMMA TryDispatchStep == ASSUME IInv, TryDispatch PROVE IInv'
<1>1. /\ outcome' = "running" /\ stack # << >> /\ Top.op = "tryDispatch"
      /\ UNCHANGED <<nonNull, kind, errs, nulls, fails, fut, stage, waker, wakes, pending, refs, asy,
                     taskCycle, yieldTasks, blocked>>
  BY DEF TryDispatch, At, treeVars, loadVars, taskVars
<1>2. CASE stack' = Rest /\ cycle' = cycle
  <2>1. TypeOK'
    BY <1>1, <1>2 DEF IInv, TypeOK
  <2> QED
    BY <1>1, <1>2, <2>1, BackToDrain
<1>3. CASE cycle' = cycle + 1 /\ stack' = <<Call("dispatch", Root)>> \o Rest
  <2>1. TypeOK'
    <3>1. cycle \in Nat /\ taskCycle \in [Nodes -> 0..cycle]
      BY DEF IInv, TypeOK
    <3>2. cycle' \in Nat /\ 0..cycle \subseteq 0..cycle'
      BY <1>3, <3>1
    <3>3. taskCycle' \in [Nodes -> 0..cycle']
      BY <1>1, <3>1, <3>2
    <3> QED
      BY <1>1, <3>2, <3>3 DEF IInv, TypeOK
  <2>2. PICK x \in Frames : x = Top
    BY <1>1, StackFacts
  <2>3. PICK s \in Seq(Frames) : s = Rest
    BY <1>1, StackFacts
  <2>4. Good(<<x>> \o s, kind, asy, refs, errs, nulls) /\ Deep(s) /\ Inert(x)
    BY <1>1, <2>2, <2>3, StackFacts, InertTop
  <2>5. PICK z \in Frames : z = Call("dispatch", Root) /\ Inert(z) /\ z.op = "dispatch"
    BY InertCall, TreeAssumption DEF Inert
  <2>6. refs \in [Nodes -> Nat] /\ z.op # "queue"
    BY <2>5 DEF IInv, TypeOK
  <2>7. Good(<<z>> \o s, kind, asy, refs, errs, nulls)
    BY <2>4, <2>5, <2>6, InertSwap
  <2>8. /\ \A n \in Nodes : asy[n] = "live" => yieldTasks[n] # "none"
        /\ \A n, m \in Nodes : asy[n] = "live" /\ asy[m] = "live" => m = n
        /\ s # << >> /\ s[1].op = "drain"
    BY <1>1, <2>3 DEF IInv, Awaiting, Polls, Top, Rest
  <2>9. PICK u \in Seq(Frames) : u = <<z>> \o s
    BY PushSeq
  <2>10. u # << >> /\ u[1] = z /\ Tail(u) = s
    BY <2>9, PushSeq
  <2>11. Awaiting(u, asy, yieldTasks)
    BY <2>4, <2>5, <2>8, <2>10 DEF Awaiting, Polls
  <2>12. stack' = u
    BY <1>3, <2>3, <2>5, <2>9
  <2> QED
    BY <1>1, <2>1, <2>7, <2>9, <2>11, <2>12, Settled
<1> QED
  BY <1>2, <1>3 DEF TryDispatch

\* dispatchDataLoaders
LEMMA DispatchStep == ASSUME IInv, DispatchLoaders PROVE IInv'
<1>1. /\ outcome' = "running" /\ stack # << >> /\ Top.op = "dispatch" /\ pending' = FALSE
      /\ UNCHANGED <<nonNull, kind, errs, nulls, fails, stage, waker, wakes, refs, asy,
                     taskCycle, yieldTasks, blocked, cycle>>
  BY DEF DispatchLoaders, At, treeVars, taskVars, yieldVars
<1>2. CASE stack' = Rest /\ fut' = fut
  <2>1. TypeOK'
    BY <1>1, <1>2 DEF IInv, TypeOK
  <2> QED
    BY <1>1, <1>2, <2>1, BackToDrain
<1>3. CASE stack' = stack /\ fut' = [n \in Nodes |-> IF fut[n] = "queued" THEN "flying" ELSE fut[n]]
  <2>1. TypeOK'
    BY <1>1, <1>3 DEF IInv, TypeOK
  <2> QED
    BY <1>1, <1>3, <2>1, Settled DEF IInv, Good
<1> QED
  BY <1>2, <1>3 DEF DispatchLoaders

\* Dispatch returns when no task is yielded: then no future is awaited.
LEMMA DrainReturnStep == ASSUME IInv, DrainReturn PROVE IInv'
<1>1. /\ outcome = "running" /\ stack # << >> /\ Top.op = "drain" /\ Yielded = {} /\ stack' = Rest
      /\ outcome' = outcome /\ TypeOK /\ Kept /\ UNCHANGED <<nonNull, waker, wakes, yieldVars>>
  BY DEF DrainReturn, At, IInv, treeVars, loadVars, taskVars, Kept
<1>2. PICK x \in Frames : x = Top
  BY <1>1, StackFacts
<1>3. PICK s \in Seq(Frames) : s = Rest
  BY <1>1, StackFacts
<1>4. Good(<<x>> \o s, kind, asy, refs, errs, nulls) /\ Deep(s) /\ Inert(x)
  BY <1>1, <1>2, <1>3, StackFacts, InertTop
<1>5. refs \in [Nodes -> Nat]
  BY <1>1 DEF TypeOK
<1>6. Good(s, kind, asy, refs, errs, nulls)
  BY <1>4, <1>5, GoodDrop DEF Inert
<1>7. NoneLive(asy)
  BY <1>1 DEF IInv, Awaiting, Polls, Top, Yielded, NoneLive
<1>8. Awaiting(s, asy, yieldTasks)
  BY <1>4, <1>7, QuietAwaiting
<1>9. Completed
  BY <1>1, <1>3, <1>6, <1>8, StateTyped DEF Completed, Kept
<1> QED
  BY <1>1, <1>9, CompletionSettles

\* Dispatch runs a resumed task: it is the one whose future is awaited, or it is over.
LEMMA DrainRunStep == ASSUME IInv, DrainRun PROVE IInv'
<1>1. /\ outcome = "running" /\ stack # << >> /\ Top.op = "drain"
      /\ UNCHANGED <<nonNull, kind, errs, nulls, fails, fut, stage, waker, wakes, pending, refs, asy,
                     taskCycle, blocked, cycle>>
  BY DEF DrainRun, At, treeVars, loadVars, taskVars
<1>2. PICK n \in Nodes : /\ yieldTasks' = [yieldTasks EXCEPT ![n] = "none"]
                         /\ \/ asy[n] = "live" /\ stack' = <<Call("poll", n)>> \o stack /\ outcome' = outcome
                            \/ asy[n] # "live" /\ outcome' = "rerun" /\ stack' = stack
  BY DEF DrainRun, Resumed
<1>3. yieldTasks \in [Nodes -> {"none", "waiting", "resumed"}]
  BY DEF IInv, TypeOK
<1>4. yieldTasks'[n] = "none" /\ \A m \in Nodes : m # n => yieldTasks'[m] = yieldTasks[m]
  BY <1>2, <1>3
<1>5. TypeOK'
  BY <1>1, <1>2 DEF IInv, TypeOK
<1>6. CASE asy[n] = "live" /\ stack' = <<Call("poll", n)>> \o stack /\ outcome' = outcome
  <2>1. PICK u \in Seq(Frames) : u = stack
    BY DEF IInv, Sound
  <2>2. PICK z \in Frames : z = Call("poll", n) /\ Inert(z) /\ z.op = "poll" /\ z.n = n
    BY InertCall DEF Inert
  <2>3. refs \in [Nodes -> Nat]
    BY DEF IInv, TypeOK
  <2>4. Good(u, kind, asy, refs, errs, nulls)
    BY <2>1 DEF IInv, Good
  <2>5. Good(<<z>> \o u, kind, asy, refs, errs, nulls)
    BY <2>2, <2>3, <2>4, InertPush
  <2>6. PICK v \in Seq(Frames) : v = <<z>> \o u
    BY PushSeq
  <2>7. v # << >> /\ v[1] = z /\ Tail(v) = u
    BY <2>6, PushSeq
  <2>8. Deep(u)
    <3>1. Top \in Frames /\ Rest \in Seq(Frames) /\ Deep(Rest) /\ stack = <<Top>> \o Rest
      BY <1>1, StackFacts
    <3> QED
      BY <1>1, <2>1, <3>1, DeepPush
  <2>9. \A m \in Nodes : asy[m] = "live" => m = n
    BY <1>6 DEF IInv, Awaiting
  <2>10. u # << >> /\ u[1].op = "drain"
    BY <1>1, <2>1 DEF Top
  <2>11. Awaiting(v, asy, yieldTasks')
    BY <1>6, <2>2, <2>7, <2>8, <2>9, <2>10 DEF Awaiting, Polls
  <2>12. stack' = v
    BY <1>6, <2>1, <2>2, <2>6
  <2> QED
    BY <1>1, <1>5, <1>6, <2>5, <2>6, <2>11, <2>12, Settled
<1>7. CASE asy[n] # "live" /\ outcome' = "rerun" /\ stack' = stack
  <2>1. \A m \in Nodes : asy[m] = "live" => yieldTasks'[m] = yieldTasks[m]
    BY <1>4, <1>7
  <2>2. Awaiting(stack, asy, yieldTasks)
    BY DEF IInv
  <2>3. Awaiting(stack, asy, yieldTasks')
    BY <2>1, <2>2 DEF Awaiting
  <2> QED
    BY <1>1, <1>5, <1>7, <2>3 DEF IInv, PanicsAfterError
<1> QED
  BY <1>2, <1>6, <1>7

\* The execution returns.
LEMMA ReturnStep == ASSUME IInv, Return PROVE IInv'
<1>1. /\ outcome' = "returned" /\ stack = << >>
      /\ UNCHANGED <<nonNull, stack, kind, errs, nulls, fails, fut, stage, waker, wakes, pending, refs,
                     asy, taskCycle, yieldTasks, blocked, cycle>>
  BY DEF Return, treeVars, loadVars, taskVars, yieldVars
<1>2. TypeOK'
  BY <1>1 DEF IInv, TypeOK
<1> QED
  BY <1>1, <1>2 DEF IInv, PanicsAfterError

\* Steps that touch neither the stack nor the tree, and leave nobody waiting without a yielded task
LEMMA OutsideStep ==
  ASSUME IInv, TypeOK', outcome' = outcome, UNCHANGED <<stack, kind, errs, nulls, refs, asy>>,
         \A m \in Nodes : yieldTasks[m] # "none" => yieldTasks'[m] # "none"
  PROVE  IInv'
<1>1. Awaiting(stack, asy, yieldTasks)
  BY DEF IInv
<1>2. Awaiting(stack, asy, yieldTasks')
  BY <1>1 DEF Awaiting
<1>3. PanicsAfterError'
  BY DEF IInv, PanicsAfterError, IsNil
<1> QED
  BY <1>2, <1>3 DEF IInv

\* Dispatch blocks.
LEMMA DrainWaitStep == ASSUME IInv, DrainWait PROVE IInv'
<1>1. /\ blocked' = TRUE
      /\ UNCHANGED <<nonNull, stack, kind, errs, nulls, fails, fut, stage, waker, wakes, pending, refs,
                     asy, taskCycle, yieldTasks, cycle, outcome>>
  BY DEF DrainWait, treeVars, loadVars, taskVars
<1>2. TypeOK'
  BY <1>1 DEF IInv, TypeOK
<1> QED
  BY <1>1, <1>2, OutsideStep

\* A future is completed by another goroutine.
LEMMA CompleteFutureStep == ASSUME IInv, NEW n \in Nodes, CompleteFuture(n) PROVE IInv'
<1>1. /\ fut' = [fut EXCEPT ![n] = "done"]
      /\ wakes' = IF n \in waker THEN wakes \cup {<<n, stage[n], "resume">>} ELSE wakes
      /\ UNCHANGED <<nonNull, stack, kind, errs, nulls, fails, stage, waker, pending, refs,
                     asy, taskCycle, yieldTasks, blocked, cycle, outcome>>
  BY DEF CompleteFuture, treeVars, taskVars, yieldVars
<1>2. TypeOK'
  BY <1>1 DEF IInv, TypeOK
<1> QED
  BY <1>1, <1>2, OutsideStep

\* A waker marks the task and signals.
LEMMA ResumeStep == ASSUME IInv, NEW w \in wakes, Resume(w) PROVE IInv'
<1>1. UNCHANGED <<nonNull, stack, kind, errs, nulls, fails, fut, stage, waker, pending, refs,
                  asy, taskCycle, cycle, outcome>>
  BY DEF Resume, treeVars, taskVars
<1>2. TypeOK /\ w \in Nodes \X {1, 2} \X {"resume", "signal"}
  BY DEF IInv, TypeOK
<1>3. w[1] \in Nodes /\ w[2] \in {1, 2}
  BY <1>2
<1>4. CASE /\ yieldTasks' = [yieldTasks EXCEPT ![w[1]] = "resumed"]
           /\ wakes' = (wakes \ {w}) \cup {<<w[1], w[2], "signal">>} /\ blocked' = blocked
  <2>1. yieldTasks \in [Nodes -> {"none", "waiting", "resumed"}]
    BY <1>2 DEF TypeOK
  <2>2. \A m \in Nodes : yieldTasks[m] # "none" => yieldTasks'[m] # "none"
    BY <1>3, <1>4, <2>1
  <2>3. yieldTasks' \in [Nodes -> {"none", "waiting", "resumed"}]
    BY <1>3, <1>4, <2>1
  <2>4. wakes' \subseteq Nodes \X {1, 2} \X {"resume", "signal"}
    BY <1>2, <1>3, <1>4 DEF TypeOK
  <2>5. TypeOK'
    BY <1>1, <1>2, <1>4, <2>3, <2>4 DEF TypeOK
  <2> QED
    BY <1>1, <2>2, <2>5, OutsideStep
<1>5. CASE blocked' = FALSE /\ wakes' = wakes \ {w} /\ yieldTasks' = yieldTasks
  <2>1. TypeOK'
    BY <1>1, <1>2, <1>5 DEF TypeOK
  <2> QED
    BY <1>1, <1>5, <2>1, OutsideStep
<1> QED
  BY <1>4, <1>5 DEF Resume

\* Nothing happens.
LEMMA IdleStep == ASSUME IInv, UNCHANGED vars PROVE IInv'
<1>1. UNCHANGED <<nonNull, stack, kind, errs, nulls, fails, fut, stage, waker, wakes, pending, refs,
                  asy, taskCycle, yieldTasks, blocked, cycle, outcome>>
  BY DEF vars, treeVars, loadVars, taskVars, yieldVars
<1>2. TypeOK'
  BY <1>1 DEF IInv, TypeOK
<1> QED
  BY <1>1, <1>2, OutsideStep

-----------------------------------------------------------------------------
(* The theorems *)

\* The invariant holds initially,
LEMMA InitIInv == ASSUME Init PROVE IInv
<1>1. TypeOK
  <2>1. taskCycle \in [Nodes -> 0..cycle]
    <3>1. taskCycle = [n \in Nodes |-> 0] /\ cycle = 0
      BY DEF Init
    <3>2. 0 \in 0..cycle
      BY <3>1
    <3> QED
      BY <3>1, <3>2
  <2>2. wakes \subseteq Nodes \X {1, 2} \X {"resume", "signal"} /\ waker \subseteq Nodes
    BY DEF Init
  <2>3. /\ kind \in [Nodes -> {"none", "nil", "leaf", "object", "list"}]
        /\ asy \in [Nodes -> {"none", "live", "over"}]
        /\ fut \in [Nodes -> {"none", "queued", "flying", "done"}]
        /\ yieldTasks \in [Nodes -> {"none", "waiting", "resumed"}]
    BY DEF Init
  <2>4. refs \in [Nodes -> Nat] /\ stage \in [Nodes -> {1, 2}]
    BY DEF Init
  <2> QED
    BY <2>1, <2>2, <2>3, <2>4 DEF Init, TypeOK
<1>2. PICK x \in Frames : x = Call("execute", Root) /\ x.op = "execute" /\ x.n = Root
  <2>1. /\ Call("execute", Root) \in Frames /\ Call("execute", Root).op = "execute"
        /\ Call("execute", Root).n = Root
    BY TreeAssumption DEF Call, Frames
  <2> QED
    BY <2>1
<1>3. PICK s \in Seq(Frames) : s = << >>
  <2>1. << >> \in Seq(Frames)
    OBVIOUS
  <2> QED
    BY <2>1
<1>4. stack = <<x>> \o s
  <2>1. <<x>> \in Seq(Frames)
    OBVIOUS
  <2>2. <<x>> \o << >> = <<x>>
    BY <2>1, ConcatEmptySeq
  <2> QED
    BY <1>2, <1>3, <2>2 DEF Init
<1>5. Frs(s) = {} /\ DOMAIN s = {}
  BY <1>3 DEF Frs
<1>6. /\ refs \in [Nodes -> Nat] /\ NoneLive(asy)
      /\ \A n \in Nodes : kind[n] = "none" /\ asy[n] = "none" /\ refs[n] = 0
  BY <1>1 DEF Init, TypeOK, NoneLive
<1>7. Sound(s, kind, asy, refs, errs)
  <2>1. Ordered(s) /\ Held(s)
    BY <1>5 DEF Ordered, Held
  <2>2. Serial(Frs(s), kind, asy)
    BY <1>5, <1>6, KidFacts DEF Serial, Started
  <2>3. Counted(s, asy, refs)
    <3>1. \A t : Holders(s, t) = {}
      BY <1>5 DEF Holders
    <3>2. \A t : Count(s, t) = 0
      BY <3>1, FS_EmptySet DEF Count
    <3> QED
      BY <1>6, <3>2 DEF Counted, NoneLive
  <2> QED
    BY <1>5, <1>6, <2>1, <2>2, <2>3 DEF Sound, NoneLive
<1>8. \A w \in Nodes : /\ Waits(x, w) <=> w = Root
                       /\ ~Runs(x, w) /\ ~Holds(x, w)
                       /\ MayFail(x, w) <=> w = Root
  BY <1>2 DEF Waits, Runs, Holds, MayFail
<1>9. Fits(x, s, kind, asy, refs, errs)
  <2>1. FrameOK(x)
    BY <1>2 DEF FrameOK
  <2>2. Fresh(x, kind, asy, refs)
    BY <1>2, <1>6 DEF Fresh, Untouched
  <2>3. \A y \in Nodes : MayFail(x, y) => Explained(y, kind, errs)
    BY <1>8, AncStep DEF Explained
  <2>4. Serial({x} \cup Frs(s), kind, asy)
    BY <1>5, <1>6, <1>8, KidFacts DEF Serial, Started
  <2> QED
    BY <1>2, <1>5, <1>6, <1>8, <2>1, <2>2, <2>3, <2>4 DEF Fits, NoneLive
<1>10. Sound(stack, kind, asy, refs, errs)
  BY <1>4, <1>6, <1>7, <1>9, SoundPush
<1>11. Accounted(stack, kind, asy, errs, nulls)
  <2>1. Frs(stack) = {x} \cup Frs(s)
    BY <1>4, PushSeq
  <2>2. Root \in Nodes
    BY TreeAssumption
  <2>3. \A n \in Nodes : Shown(n, kind) => n = Root
    BY <1>6, <2>2, RootAbove DEF Shown
  <2> QED
    BY <1>6, <1>8, <2>1, <2>3 DEF Accounted, Pending
<1>12. Awaiting(stack, asy, yieldTasks)
  <2>1. stack # << >> /\ stack[1] = x /\ Tail(stack) = s
    BY <1>4, PushSeq
  <2> QED
    BY <1>2, <1>3, <1>5, <1>6, <2>1 DEF Awaiting, NoneLive, Deep, Polls
<1>13. outcome = "running"
  BY DEF Init
<1> QED
  BY <1>1, <1>10, <1>11, <1>12, <1>13 DEF IInv, PanicsAfterError

\* and every step keeps it.
LEMMA NextIInv == ASSUME IInv, [Next]_vars PROVE IInv'
<1>1. CASE Execute
  BY <1>1, ExecuteStep
<1>2. CASE Fields
  BY <1>2, FieldsStep
<1>3. CASE RunNode
  BY <1>3, RunNodeStep
<1>4. CASE Queue
  BY <1>4, QueueStep
<1>5. CASE Elements
  BY <1>5, ElementsStep
<1>6. CASE Release
  BY <1>6, ReleaseStep
<1>7. CASE PollReady
  BY <1>7, PollReadyStep
<1>8. CASE PollStore
  BY <1>8, PollStoreStep
<1>9. CASE PollPublish
  BY <1>9, PollPublishStep
<1>10. CASE Value
  BY <1>10, ValueStep
<1>11. CASE Yield
  BY <1>11, YieldStep
<1>12. CASE TryDispatch
  BY <1>12, TryDispatchStep
<1>13. CASE DispatchLoaders
  BY <1>13, DispatchStep
<1>14. CASE DrainReturn
  BY <1>14, DrainReturnStep
<1>15. CASE DrainRun
  BY <1>15, DrainRunStep
<1>16. CASE DrainWait
  BY <1>16, DrainWaitStep
<1>17. CASE Return
  BY <1>17, ReturnStep
<1>18. CASE \E n \in Nodes : CompleteFuture(n)
  BY <1>18, CompleteFutureStep
<1>19. CASE \E w \in wakes : Resume(w)
  BY <1>19, ResumeStep
<1>20. CASE UNCHANGED vars
  BY <1>20, IdleStep
<1> QED
  BY <1>1, <1>2, <1>3, <1>4, <1>5, <1>6, <1>7, <1>8, <1>9, <1>10, <1>11, <1>12, <1>13, <1>14, <1>15,
     <1>16, <1>17, <1>18, <1>19, <1>20 DEF Next, Goroutine

\* So it holds always.
LEMMA Inductive == Spec => []IInv
BY InitIInv, NextIInv, PTL DEF Spec

\* The variables keep their types; in particular no release makes a reference count negative.
THEOREM TypeCorrect == Spec => []TypeOK
<1>1. IInv => TypeOK
  BY DEF IInv
<1> QED
  BY <1>1, Inductive, PTL

\* While a call on the stack or an awaited future belongs to the task of a field, that task has a
\* reference: execution never uses an ExecuteNodeTask that is in the free list.
THEOREM TasksReferenced == Spec => []Referenced
<1>1. ASSUME IInv PROVE Referenced
  <2>1. PICK s \in Seq(Frames) : s = stack
    BY <1>1 DEF IInv, Sound
  <2>2. Sound(s, kind, asy, refs, errs) /\ refs \in [Nodes -> Nat] /\ Awaiting(s, asy, yieldTasks)
    BY <1>1, <2>1 DEF IInv, TypeOK
  <2>3. ASSUME NEW n \in Nodes, asy[n] = "live" PROVE refs[Owner[n]] > 0
    <3>1. Owner[n] \in Nodes
      BY OwnerFacts
    <3>2. Count(s, Owner[n]) \in Nat /\ refs[Owner[n]] \in Nat
      BY <2>2, <3>1, HoldersFinite
    <3>3. refs[Owner[n]] > Count(s, Owner[n])
      BY <2>2, <2>3, <3>1 DEF Sound, Counted
    <3> QED
      BY <3>2, <3>3
  <2>4. ASSUME NEW t \in Nodes, NEW f \in Frs(s), Holds(f, t) PROVE refs[t] > 0
    <3>1. Count(s, t) > 0
      BY <2>4, CountPositive
    <3>2. Count(s, t) \in Nat /\ refs[t] \in Nat /\ refs[t] >= Count(s, t)
      BY <2>2, HoldersFinite DEF Sound, Counted
    <3> QED
      BY <3>1, <3>2
  <2>5. ASSUME NEW k \in DOMAIN s, s[k].op \notin {"execute", "fields", "drain", "dispatch"}
        PROVE  refs[Owner[s[k].n]] > 0
    <3>1. PICK f \in Frs(s) : f = s[k]
      BY DEF Frs
    <3>2. f \in Frames /\ f.n \in Nodes
      BY FrameTypes
    <3>3. Owner[f.n] \in Nodes /\ FrameOK(f)
      BY <2>2, <3>2, OwnerFacts DEF Sound
    <3>4. CASE f.op \in {"run", "release", "value"}
      <4>1. Holds(f, Owner[f.n])
        BY <3>2, <3>3, <3>4, OwnerFacts DEF FrameOK, Holds
      <4> QED
        BY <2>4, <3>1, <3>3, <4>1
    <3>5. CASE f.op \in {"queue", "elements"}
      <4>1. PICK j \in DOMAIN s : Releases(s[j], Owner[f.n])
        BY <2>2, <3>1, <3>5 DEF Sound, Held
      <4>2. PICK g \in Frs(s) : g = s[j]
        BY DEF Frs
      <4>3. Holds(g, Owner[f.n])
        BY <4>1, <4>2 DEF Releases, Holds
      <4> QED
        BY <2>4, <3>1, <3>3, <4>3
    <3>6. CASE f.op \in Polls \cup {"tryDispatch", "hand"}
      <4>1. k = 1
        <5>1. ASSUME k # 1 PROVE FALSE
          <6>1. k - 1 \in DOMAIN Tail(s) /\ Tail(s)[k - 1] = s[k] /\ s # << >>
            BY <5>1
          <6>2. Deep(Tail(s)) /\ f \in Frs(Tail(s))
            BY <2>2, <3>1, <6>1 DEF Awaiting, Frs
          <6> QED
            BY <3>6, <6>2 DEF Deep, Polls
        <5> QED
          BY <5>1
      <4>2. asy[f.n] = "live"
        BY <2>2, <3>1, <3>6, <4>1 DEF Awaiting
      <4> QED
        BY <2>3, <3>1, <3>2, <4>2
    <3> QED
      BY <2>5, <3>1, <3>2, <3>4, <3>5, <3>6 DEF Frames, Polls
  <2> QED
    BY <2>1, <2>3, <2>5 DEF Referenced
<1> QED
  BY <1>1, Inductive, PTL

\* A field starts only when nothing below an earlier field of the same object waits for a future.
THEOREM FieldsSerial == Spec => []SerialFields
<1>1. ASSUME IInv PROVE SerialFields
  <2>1. Serial(Frs(stack), kind, asy)
    BY <1>1 DEF IInv, Sound
  <2> QED
    BY <2>1 DEF Serial, Started, Pending, SerialFields
<1> QED
  BY <1>1, Inductive, PTL

\* Two futures are never awaited at once: what a request loads for sibling fields or for the
\* elements of a list is not batched.
OneAwaited == \A m, n \in Nodes : asy[m] = "live" /\ asy[n] = "live" => m = n

\* At most one AsyncValueTask is unfinished at any time.
THEOREM OneFutureAwaited == Spec => []OneAwaited
<1>1. IInv => OneAwaited
  BY DEF IInv, Awaiting, OneAwaited
<1> QED
  BY <1>1, Inductive, PTL

\* ResultNode.Path panics only after an error was propagated to a node other than the root.
THEOREM FirstErrorHasPath == Spec => []PanicsAfterError
<1>1. IInv => PanicsAfterError
  BY DEF IInv
<1> QED
  BY <1>1, Inductive, PTL

\* When the execution returns, every null of the response that was not the value of its field has
\* an error at or below it.
THEOREM NullsAccounted == Spec => []NullsExplained
<1>1. ASSUME IInv PROVE NullsExplained
  <2>1. SUFFICES ASSUME outcome = "returned", NEW n \in Nodes, Visible(n), IsNil(n)
                 PROVE  n \in nulls \/ \E e \in errs : Below(e, n)
    BY DEF NullsExplained
  <2>2. stack = << >>
    BY <1>1, <2>1 DEF IInv
  <2>3. Frs(stack) = {} /\ asy[n] # "live"
    BY <1>1, <2>2 DEF IInv, Awaiting, Frs
  <2>4. Shown(n, kind)
    BY <2>1 DEF Visible, IsNil, Shown
  <2>5. /\ kind[n] = "none" => n \in errs
        /\ kind[n] = "nil" => n \in nulls \/ \E e \in errs : Below(e, n)
    BY <1>1, <2>3, <2>4 DEF IInv, Accounted, Pending
  <2> QED
    BY <2>1, <2>5 DEF IsNil, Below
<1> QED
  BY <1>1, Inductive, PTL
=============================================================================
