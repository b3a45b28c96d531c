------------------------------- MODULE Rules -------------------------------
(***************************************************************************)
(* The standard validation rules.  A check takes the context and the node  *)
(* and returns the context; an error is the name of its rule and the nodes *)
(* it is about.  Messages and suggestions are left out.  Which checks a    *)
(* rule has, and after which of them it skips the children of the node,    *)
(* stands in RulesFor and Skips.                                           *)
(***************************************************************************)
EXTENDS Overlapping

Report(ctx, error) == [ctx EXCEPT !.errs = Append(@, error)]
ReportIf(cond, ctx, error) == IF cond THEN Report(ctx, error) ELSE ctx

\* An error for each of nodes that is bad.
ReportEach(ctx, rule, nodes, bad(_)) ==
  Fold(LAMBDA c, n : ReportIf(bad(n), c, <<rule, n>>), ctx, nodes)

\* The nodes of a list whose name an earlier node of the list has.
Duplicates(nodes) ==
  LET again(i) == \E j \in 1..i - 1 : doc[nodes[j]].name = doc[nodes[i]].name
      places   == SelectSeq([i \in 1..Len(nodes) |-> i], again)
  IN  [i \in 1..Len(places) |-> nodes[places[i]]]
ReportDuplicates(ctx, rule, nodes) == ReportEach(ctx, rule, Duplicates(nodes), LAMBDA n : TRUE)

(***************************************************************************)
(* Operations                                                              *)
(***************************************************************************)
UniqueOperationNames(ctx, n) ==
  IF doc[n].name = None THEN ctx
  ELSE IF doc[n].name \in ctx.knownOps THEN Report(ctx, <<"UniqueOperationNames", n>>)
  ELSE [ctx EXCEPT !.knownOps = @ \cup {doc[n].name}]

\* One error for each other operation.
LoneAnonymousOperation(ctx, n) ==
  IF doc[n].name # None THEN ctx
  ELSE Fold(LAMBDA c, m : Report(c, <<"LoneAnonymousOperation", n>>), ctx,
                SelectSeq(Kids(0, {"Operation"}), LAMBDA m : m # n))

SingleFieldSubscriptions(ctx, n) ==
  ReportIf(doc[n].type = "subscription" /\ Len(Selections(n)) # 1, ctx,
           <<"SingleFieldSubscriptions", n>>)

KnownTypeNames(ctx, n) ==
  CASE doc[n].kind = "Operation" ->
         ReportEach(ctx, "KnownTypeNames", Kids(n, {"VariableDefinition"}),
                    LAMBDA v : ResolveType(doc[v].type) = NoType)
    [] doc[n].kind \in {"Fragment", "Inline"} ->
         ReportIf(doc[n].cond # NoType /\ ResolveType(doc[n].cond) = NoType, ctx,
                  <<"KnownTypeNames", n>>)

UniqueVariableNames(ctx, n) ==
  ReportDuplicates(ctx, "UniqueVariableNames", Kids(n, {"VariableDefinition"}))

(***************************************************************************)
(* Fragments                                                               *)
(***************************************************************************)
FragmentsOnCompositeTypes(ctx, n, cond) ==
  ReportIf(cond # NoType /\ ~IsCompositeType(cond), ctx, <<"FragmentsOnCompositeTypes", n>>)

UniqueFragmentNames(ctx, n) ==
  IF doc[n].name \in ctx.knownFrags THEN Report(ctx, <<"UniqueFragmentNames", n>>)
  ELSE [ctx EXCEPT !.knownFrags = @ \cup {doc[n].name}]

\* The spreads of the fragments on the stack that are not marked yet are marked too.
RECURSIVE RecursivelyMarkUsed(_, _)
RecursivelyMarkUsed(used, stack) ==
  LET spread == {FragmentInfo(doc[k].name) : k \in {s \in Under(Head(stack)) : doc[s].kind = "Spread"}}
      new    == spread \ (used \cup {0})
  IN  IF stack = <<>> THEN used
      ELSE RecursivelyMarkUsed(used \cup new, Tail(stack) \o SetToSeq(new))

MarkUsed(ctx, f) == IF f \in ctx.usedFrags THEN ctx
                    ELSE [ctx EXCEPT !.usedFrags = RecursivelyMarkUsed(@ \cup {f}, <<f>>)]

NoUnusedFragments(ctx, n) ==
  IF doc[n].kind = "Spread"
  THEN LET f == FragmentInfo(doc[n].name) IN IF f = 0 THEN ctx ELSE MarkUsed(ctx, f)
  ELSE ReportIf(FragmentInfo(doc[n].name) \notin ctx.usedFrags, ctx, <<"NoUnusedFragments", n>>)

\* The spreads of a fragment in the order in which its selection sets are scanned: each from
\* its end, the one found last first.
RECURSIVE scanSpreads(_, _)
scanSpreads(stack, spreads) ==
  LET kids  == Reverse(Selections(Last(stack)))
      is(k) == doc[k].kind = "Spread"
      isnt(k) == ~is(k)
  IN  IF stack = <<>> THEN spreads
      ELSE scanSpreads(Front(stack) \o SelectSeq(kids, isnt), spreads \o SelectSeq(kids, is))

\* One spread: st holds the root, the stack of [depth, fragment, spread], the path of spreads
\* and the context.
cycleSpread(st, s) ==
  LET f     == FragmentInfo(doc[s].name)
      names == <<doc[st.root].name>> \o [i \in 1..Len(st.path) |-> doc[st.path[i]].name]
      on    == {i \in 1..Len(names) : names[i] = doc[s].name}
  IN  CASE f = 0 -> st
        [] f # 0 /\ on # {} ->
             LET i == CHOOSE i \in on : TRUE IN
             [st EXCEPT !.ctx = Report(@, <<"NoFragmentCycles", s, SubSeq(st.path, i, Len(st.path))>>)]
        [] OTHER -> IF f \in st.ctx.cycleChecked THEN st
                    ELSE [st EXCEPT !.stack = Append(@, <<Len(st.path), f, s>>)]

scanned(st, f) ==
  Fold(cycleSpread, [st EXCEPT !.ctx.cycleChecked = @ \cup {f}], scanSpreads(<<f>>, <<>>))

\* The fragment on top of the stack is taken up, with the path cut back to where it was found.
RECURSIVE findCycles(_)
findCycles(st) ==
  LET top == Last(st.stack)
  IN  IF st.stack = <<>> THEN st.ctx
      ELSE findCycles(scanned([st EXCEPT !.stack = Front(@),
                                         !.path = Append(SubSeq(@, 1, top[1]), top[3])], top[2]))

\* As if the path were not cut back when the search takes up a fragment from the stack.
RECURSIVE findCyclesAnyPath(_)
findCyclesAnyPath(st) ==
  LET top == Last(st.stack)
  IN  IF st.stack = <<>> THEN st.ctx
      ELSE findCyclesAnyPath(scanned([st EXCEPT !.stack = Front(@), !.path = Append(@, top[3])], top[2]))

\* As NoFragmentCycles with that search.
NoFragmentCyclesAnyPath(ctx, n) ==
  LET f == FragmentInfo(doc[n].name)
  IN  IF f \in ctx.cycleChecked THEN ctx
      ELSE findCyclesAnyPath(scanned([root |-> n, stack |-> <<>>, path |-> <<>>, ctx |-> ctx], f))

NoFragmentCycles(ctx, n) ==
  LET f == FragmentInfo(doc[n].name)
  IN  IF f \in ctx.cycleChecked THEN ctx
      ELSE findCycles(scanned([root |-> n, stack |-> <<>>, path |-> <<>>, ctx |-> ctx], f))

KnownFragmentNames(ctx, n) ==
  ReportIf(FragmentInfo(doc[n].name) = 0, ctx, <<"KnownFragmentNames", n>>)

\* Asserts that a type which is not abstract is an object.
doTypesOverlap(a, b) ==
  CASE a = b -> TRUE
    [] a # b /\ IsAbstractType(a) /\ IsAbstractType(b) -> PossibleTypes(a) \cap PossibleTypes(b) # {}
    [] a # b /\ IsAbstractType(a) /\ ~IsAbstractType(b) -> b[1] \in PossibleTypes(a)
    [] a # b /\ ~IsAbstractType(a) /\ IsAbstractType(b) -> a[1] \in PossibleTypes(b)
    [] OTHER -> FALSE

\* On a spread the information of the fragment is used without asking whether it is nil, and
\* the parent type without asking whether it is composite.
PossibleFragmentSpreads(ctx, n, parent) ==
  IF doc[n].kind = "Inline"
  THEN LET cond == IF doc[n].cond = NoType THEN NoType ELSE ResolveType(doc[n].cond)
       IN  ReportIf(IsCompositeType(parent) /\ IsCompositeType(cond) /\ ~doTypesOverlap(cond, parent),
                    ctx, <<"PossibleFragmentSpreads", n>>)
  ELSE LET f == FragmentInfo(doc[n].name)
           cond == ResolveType(doc[f].cond)
       IN  IF f = 0 THEN [ctx EXCEPT !.panicked = TRUE]
           ELSE IF parent = NoType \/ ~IsCompositeType(cond) THEN ctx
           ELSE IF IsAbstractType(cond) /\ ~IsCompositeType(parent) THEN [ctx EXCEPT !.panicked = TRUE]
           ELSE ReportIf(~doTypesOverlap(cond, parent), ctx, <<"PossibleFragmentSpreads", n>>)

(***************************************************************************)
(* Fields, arguments and directives                                        *)
(***************************************************************************)
ScalarLeafs(ctx, n, def) ==
  ReportIf(def # NoDef /\ (IsLeafType(NamedTypeOf(def.type)) <=> Selections(n) # <<>>), ctx,
           <<"ScalarLeafs", n>>)

FieldsOnCorrectType(ctx, n, parent, def) ==
  ReportIf(parent # NoType /\ def = NoDef, ctx, <<"FieldsOnCorrectType", n>>)

UniqueArgumentNames(ctx, n) == ReportDuplicates(ctx, "UniqueArgumentNames", Kids(n, {"Argument"}))

\* One error, at the field or directive, for each missing argument.
ProvidedRequiredArguments(ctx, n, def) ==
  Fold(LAMBDA c, a : ReportIf(IsRequired(a) /\ Named(Kids(n, {"Argument"}), a.name) = <<>>, c,
                                  <<"ProvidedRequiredArguments", n, a.name>>), ctx, def.args)

KnownArgumentNames(ctx, arg, def, argDef) ==
  ReportIf(argDef = NoDef /\ def # NoDef, ctx, <<"KnownArgumentNames", arg>>)

KnownDirectives(ctx, n) ==
  ReportIf(doc[n].name \notin DOMAIN Schema.directives, ctx, <<"KnownDirectives", n>>)

DirectivesInValidLocations(ctx, n, location) ==
  ReportIf(/\ doc[n].name \in DOMAIN Schema.directives
           /\ location \notin Schema.directives[doc[n].name].locations, ctx,
           <<"DirectivesInValidLocations", n>>)

UniqueDirectivesPerLocation(ctx, n) ==
  ReportDuplicates(ctx, "UniqueDirectivesPerLocation", Kids(n, {"Directive"}))

(***************************************************************************)
(* Values and variables                                                    *)
(***************************************************************************)
\* Schema.literals gives what a scalar's CoerceLiteralValue accepts.
isValidScalar(ctx, n, type) ==
  LET named == NamedTypeOf(type)
      rejected == \/ KindOf(named) # "Scalar"
                  \/ (IF doc[n].kind = "Scalar" THEN <<doc[n].name, doc[n].val>> ELSE <<doc[n].kind>>)
                       \notin Schema.literals[named[1]]
  IN  ReportIf(IsInputType(type) /\ rejected, ctx, <<"ValuesOfCorrectType", n>>)

\* As if a list type behind NonNull were not seen.
IsListForNullable(n, type) == doc[n].kind = "List" /\ KindOf(type) = "List"

IsListFor(n, type) == doc[n].kind = "List" /\ KindOf(NullableTypeOf(type)) = "List"
IsObjectFor(n, type) == doc[n].kind = "Object" /\ KindOf(NamedTypeOf(type)) = "InputObject"

ValuesOfCorrectType(ctx, n, type) ==
  LET named  == NamedTypeOf(type)
      fields == Kids(n, {"ObjectField"})
      inputs == Schema.inputs[named[1]]
      missing(f) == IsRequired(inputs[f]) /\ Named(fields, f) = <<>>
      unknown(k) == doc[k].name \notin DOMAIN inputs \/ ~IsInputType(inputs[doc[k].name].type)
  IN  CASE doc[n].kind = "Variable" \/ IsListFor(n, type) -> ctx
        [] doc[n].kind = "Null" -> ReportIf(KindOf(type) = "NonNull", ctx, <<"ValuesOfCorrectType", n>>)
        [] IsObjectFor(n, type) ->
             ReportEach(Fold(LAMBDA c, f : ReportIf(missing(f), c, <<"ValuesOfCorrectType", n>>), ctx,
                                 SetToSeq(DOMAIN inputs)),
                        "ValuesOfCorrectType", fields, unknown)
        [] doc[n].kind = "Enum" /\ KindOf(named) = "Enum" ->
             ReportIf(doc[n].name \notin Schema.enums[named[1]], ctx, <<"ValuesOfCorrectType", n>>)
        [] OTHER -> isValidScalar(ctx, n, type)

UniqueInputFieldNames(ctx, n) ==
  ReportDuplicates(ctx, "UniqueInputFieldNames", Kids(n, {"ObjectField"}))

VariablesAreInputTypes(ctx, n) ==
  ReportIf(ResolveType(doc[n].type) # NoType /\ ~IsInputType(doc[n].type), ctx,
           <<"VariablesAreInputTypes", n>>)

\* v is the variable, def its definition in the current operation.
NoUnusedVariables(ctx, n) ==
  IF doc[n].kind = "Variable"
  THEN LET def == VariableInfo(ctx.op, doc[n].name)
       IN  IF def = 0 THEN ctx ELSE [ctx EXCEPT !.usedVars = @ \cup {def}]
  ELSE ReportIf(n \notin ctx.usedVars, ctx, <<"NoUnusedVariables", n>>)

NoUndefinedVariables(ctx, n) ==
  ReportIf(VariableInfo(ctx.op, doc[n].name) = 0, ctx, <<"NoUndefinedVariables", n, ctx.op>>)

allowedVariableUsage(varType, hasDefault, type, hasLocationDefault) ==
  IF KindOf(type) = "NonNull" /\ KindOf(varType) # "NonNull"
  THEN (hasDefault \/ hasLocationDefault) /\ IsTypeSubTypeOf(varType, Tail(type))
  ELSE IsTypeSubTypeOf(varType, type)

VariablesInAllowedPosition(ctx, n, type, hasLocationDefault) ==
  LET def == VariableInfo(ctx.op, doc[n].name)
      hasDefault == Values(def) # <<>> /\ doc[Values(def)[1]].kind # "Null"
  IN  IF def = 0 \/ type = NoType \/ ResolveType(doc[def].type) = NoType THEN ctx
      ELSE ReportIf(~allowedVariableUsage(doc[def].type, hasDefault, type, hasLocationDefault), ctx,
                    <<"VariablesInAllowedPosition", n, ctx.op>>)

reportConflicts(ctx) ==
  Fold(LAMBDA c, e : Report(c, <<"OverlappingFieldsCanBeMerged", e[1], e[2]>>), ctx, ctx.found)

OverlappingFieldsCanBeMerged(ctx, n, parent) ==
  reportConflicts(findConflictsWithinSelectionSet(ctx, n, parent))
=============================================================================
