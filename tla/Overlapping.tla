---------------------------- MODULE Overlapping ----------------------------
(***************************************************************************)
(* The rule OverlappingFieldsCanBeMerged.  Its state in the context:       *)
(*   cache  the collected fields of a selection set, by its parent node;   *)
(*   pairs  for a pair of fragment names compared, whether they were       *)
(*          compared as mutually exclusive;                                *)
(*   found  the conflicts found so far: pairs of field nodes;              *)
(*   depth  how deep findConflict is in itself, cut at MaxDepth.           *)
(* The order of the code's field maps is any order; here it is the order   *)
(* in which the fields were collected.                                     *)
(***************************************************************************)
EXTENDS Document, TLC

CONSTANTS MaxDepth,
          MaxInt32,   \* 2^31 - 1 in the code: the largest int32
          MaxFloat64  \* the largest number that strconv.ParseFloat takes

\* A collected field: FieldNodeAndDef.
Collected(n, parent) == [node |-> n, parent |-> parent, type |-> FieldOf(parent, doc[n].name).type]

\* One selection of the set that is being scanned. An inline fragment's type condition becomes
\* the parent type of the selections behind it too: the loop assigns its own variable.
collectOne(acc, n) ==
  CASE doc[n].kind = "Field" -> [acc EXCEPT !.fields = Append(@, Collected(n, acc.parent))]
    [] doc[n].kind = "Inline" ->
         LET parent == IF doc[n].cond = NoType THEN acc.parent ELSE ResolveType(doc[n].cond)
         IN  [acc EXCEPT !.parent = parent, !.queue = Append(@, <<n, parent>>)]
    [] doc[n].kind = "Spread" ->
         IF Contains(acc.names, doc[n].name) THEN acc
         ELSE [acc EXCEPT !.names = Append(@, doc[n].name)]

\* Inline fragments are taken from the end of the queue.
RECURSIVE collectQueue(_)
collectQueue(acc) ==
  IF acc.queue = <<>> THEN [fields |-> acc.fields, names |-> acc.names]
  ELSE LET task == Last(acc.queue)
       IN  collectQueue(Fold(collectOne,
                                 [acc EXCEPT !.queue = Front(@), !.parent = task[2]],
                                 Selections(task[1])))

Empty == [fields |-> <<>>, names |-> <<>>]

\* The context with the fields of n's selection set in the cache.
collect(ctx, n, parent) ==
  IF Selections(n) = <<>> \/ n \in DOMAIN ctx.cache THEN ctx
  ELSE [ctx EXCEPT !.cache = (n :> collectQueue([queue |-> <<<<n, parent>>>>, parent |-> parent,
                                                 fields |-> <<>>, names |-> <<>>])) @@ @]
fieldsOf(ctx, n) == IF n \in DOMAIN ctx.cache THEN ctx.cache[n] ELSE Empty

\* As if it did not matter how the two were compared before.
HasAny(ctx, a, b, exclusive) == {a, b} \in DOMAIN ctx.pairs

Has(ctx, a, b, exclusive) ==
  {a, b} \in DOMAIN ctx.pairs /\ (exclusive \/ ~ctx.pairs[{a, b}])
Add(ctx, a, b, exclusive) == [ctx EXCEPT !.pairs = ({a, b} :> exclusive) @@ @]

RECURSIVE doTypesConflict(_, _)
doTypesConflict(t1, t2) ==
  CASE KindOf(t1) \in {"List", "NonNull"} ->
         KindOf(t2) # KindOf(t1) \/ doTypesConflict(Tail(t1), Tail(t2))
    [] KindOf(t1) \notin {"List", "NonNull"} /\ KindOf(t2) \in {"List", "NonNull"} -> TRUE
    [] OTHER -> (IsLeafType(t1) \/ IsLeafType(t2)) /\ t1 # t2

\* reflect.TypeOf of a value node.
TypeOf(n) == IF doc[n].kind = "Scalar" THEN doc[n].name ELSE doc[n].kind

\* IntValue.Interface: a literal outside int32 becomes 0.
Int32(val) == <<"int32", IF val \in -MaxInt32 - 1..MaxInt32 THEN val ELSE 0>>

\* FloatValue.Interface: a literal that does not parse becomes NaN.
Float64(val) == IF val \in -MaxFloat64..MaxFloat64 THEN <<"float64", val>> ELSE <<"NaN">>

\* ast.Value's Interface(): the Go value of a node, a pair of its dynamic type and the value. Enums
\* and variables become strings; of the fields of an object that share a name the last one remains.
RECURSIVE Interface(_)
Interface(n) ==
  LET val    == doc[n].val
      fields == Kids(n, {"ObjectField"})
  IN  CASE TypeOf(n) = "Int" -> Int32(val)
        [] TypeOf(n) = "Float" -> Float64(val)
        [] TypeOf(n) = "String" -> <<"string", val>>
        [] TypeOf(n) \in {"Enum", "Variable"} -> <<"string", doc[n].name>>
        [] TypeOf(n) = "Boolean" -> <<"bool", val>>
        [] TypeOf(n) = "Null" -> <<"nil">>
        [] TypeOf(n) = "List" -> <<"slice", [i \in 1..Len(Values(n)) |-> Interface(Values(n)[i])]>>
        [] TypeOf(n) = "Object" ->
             <<"map", [f \in {doc[k].name : k \in ToSet(fields)} |->
                         Interface(Values(Last(Named(fields, f)))[1])]>>

\* NaN is not equal to itself, wherever it stands.
RECURSIVE DeepEqual(_, _)
DeepEqual(v1, v2) ==
  /\ v1 = v2
  /\ v1[1] # "NaN"
  /\ v1[1] \in {"slice", "map"} => \A i \in DOMAIN v1[2] : DeepEqual(v1[2][i], v2[2][i])

\* As if the values of one type were all the same.
sameValueAny(n1, n2) == TypeOf(n1) = TypeOf(n2)

sameValue(n1, n2) == TypeOf(n1) = TypeOf(n2) /\ DeepEqual(Interface(n1), Interface(n2))

\* Each argument is compared with the first one of its name.
sameArguments(n1, n2) ==
  LET args1 == Kids(n1, {"Argument"})
      args2 == Kids(n2, {"Argument"})
  IN  /\ Len(args1) = Len(args2)
      /\ \A i \in 1..Len(args1) :
           LET same == Named(args2, doc[args1[i]].name)
           IN  same # <<>> /\ sameValue(Values(args1[i])[1], Values(same[1])[1])

Conflict(ctx, f1, f2) == [ctx EXCEPT !.found = Append(@, <<f1.node, f2.node>>)]

\* Fields of different object types never apply to one object.
MutuallyExclusive(exclusive, f1, f2) ==
  exclusive \/ (f1.parent # f2.parent /\ KindOf(f1.parent) = "Object" /\ KindOf(f2.parent) = "Object")

RECURSIVE findConflict(_, _, _, _)
RECURSIVE fieldsAndFragment(_, _, _, _)
RECURSIVE betweenFragments(_, _, _, _)

\* collectConflictsBetween: each field of the one set with each of the other under its key.
between(ctx, exclusive, fs1, fs2) ==
  Fold(LAMBDA c, f1 : Fold(LAMBDA c2, f2 : findConflict(c2, exclusive, f1, f2), c,
             SelectSeq(fs2, LAMBDA f2 : ResponseKey(f2.node) = ResponseKey(f1.node))), ctx, fs1)

\* collectConflictsBetweenFieldsAndFragment for each of names; the names compared before are
\* left out.
fieldsAndFragments(ctx, exclusive, fs, names) ==
  [Fold(LAMBDA c, f : fieldsAndFragment(c, exclusive, fs, f), [ctx EXCEPT !.compared = {}], names)
     EXCEPT !.compared = ctx.compared]

\* The fields with the fragment f, once ctx holds the fields of f; then with what f spreads.
fieldsAndCollected(ctx, exclusive, fs, f) ==
  LET set2 == fieldsOf(ctx, f)
  IN  IF fs = set2.fields THEN ctx
      ELSE Fold(LAMBDA c, g : fieldsAndFragment(c, exclusive, fs, g),
                between(ctx, exclusive, fs, set2.fields), set2.names)

fieldsAndFragment(ctx, exclusive, fs, name) ==
  LET f == FragmentInfo(name)
      c == [ctx EXCEPT !.compared = @ \cup {name}]
  IN  CASE name \in ctx.compared -> ctx
        [] name \notin ctx.compared /\ f = 0 -> c
        [] OTHER -> fieldsAndCollected(collect(c, f, ResolveType(doc[f].cond)), exclusive, fs, f)

\* The fragments a and b, once ctx holds their fields; then each with what the other spreads.
betweenCollected(ctx, exclusive, a, b) ==
  LET set1 == fieldsOf(ctx, FragmentInfo(a))
      set2 == fieldsOf(ctx, FragmentInfo(b))
      c1   == between(ctx, exclusive, set1.fields, set2.fields)
      c2   == Fold(LAMBDA d, g : betweenFragments(d, exclusive, a, g), c1, set2.names)
  IN  Fold(LAMBDA d, g : betweenFragments(d, exclusive, g, b), c2, set1.names)

betweenFragments(ctx, exclusive, a, b) ==
  LET f1 == FragmentInfo(a)
      f2 == FragmentInfo(b)
      c  == Add(ctx, a, b, exclusive)
  IN  CASE a = b \/ Has(ctx, a, b, exclusive) -> ctx
        [] a # b /\ ~Has(ctx, a, b, exclusive) /\ (f1 = 0 \/ f2 = 0) -> c
        [] OTHER -> betweenCollected(collect(collect(c, f1, ResolveType(doc[f1].cond)),
                                             f2, ResolveType(doc[f2].cond)), exclusive, a, b)

\* findConflictsBetweenSubSelectionSets, once c holds the fields of both.
betweenSubSets(c, exclusive, f1, f2) ==
  LET set1 == fieldsOf(c, f1.node)
      set2 == fieldsOf(c, f2.node)
      c1   == between(c, exclusive, set1.fields, set2.fields)
      c2   == fieldsAndFragments(c1, exclusive, set1.fields, set2.names)
      c3   == fieldsAndFragments(c2, exclusive, set2.fields, set1.names)
  IN  Fold(LAMBDA d, a : Fold(LAMBDA e, b : betweenFragments(e, exclusive, a, b),
                                      d, set2.names), c3, set1.names)

betweenSubSelectionSets(ctx, exclusive, f1, f2) ==
  betweenSubSets(collect(collect(ctx, f1.node, NamedTypeOf(f1.type)), f2.node, NamedTypeOf(f2.type)),
                 exclusive, f1, f2)

\* The conflicts found below are one conflict of f1 and f2.
subfieldConflicts(ctx, sub, f1, f2) ==
  LET back == [sub EXCEPT !.found = ctx.found, !.depth = ctx.depth]
  IN  IF sub.found = <<>> THEN back ELSE Conflict(back, f1, f2)

findConflict(ctx, exclusiveParents, f1, f2) ==
  LET exclusive == MutuallyExclusive(exclusiveParents, f1, f2)
  IN  IF \/ ~exclusive /\ (doc[f1.node].name # doc[f2.node].name \/ ~sameArguments(f1.node, f2.node))
         \/ f1.type # NoType /\ f2.type # NoType /\ doTypesConflict(f1.type, f2.type)
      THEN Conflict(ctx, f1, f2)
      ELSE IF Selections(f1.node) = <<>> \/ Selections(f2.node) = <<>> \/ ctx.depth = MaxDepth
      THEN ctx
      ELSE subfieldConflicts(ctx, betweenSubSelectionSets([ctx EXCEPT !.found = <<>>, !.depth = @ + 1],
                                                          exclusive, f1, f2), f1, f2)

\* collectConflictsWithin: each field with each one behind it under the same key.
within(ctx, fs) ==
  Fold(LAMBDA c, i :
             Fold(LAMBDA c2, j : IF ResponseKey(fs[i].node) = ResponseKey(fs[j].node)
                                     THEN findConflict(c2, FALSE, fs[i], fs[j]) ELSE c2,
                      c, [k \in 1..Len(fs) - i |-> i + k]),
           ctx, [k \in 1..Len(fs) |-> k])

\* findConflictsWithinSelectionSet, once c holds the fields of n.
withinCollected(c, n) ==
  LET set == fieldsOf(c, n)
  IN  Fold(LAMBDA d, i :
                 Fold(LAMBDA e, j : betweenFragments(e, FALSE, set.names[i], set.names[j]),
                          fieldsAndFragment(d, FALSE, set.fields, set.names[i]),
                          [k \in 1..Len(set.names) - i |-> i + k]),
               within(c, set.fields), [k \in 1..Len(set.names) |-> k])

findConflictsWithinSelectionSet(ctx, n, parent) ==
  withinCollected(collect([ctx EXCEPT !.compared = {}, !.found = <<>>], n, parent), n)
=============================================================================
