----------------------------- MODULE Validation -----------------------------
(***************************************************************************)
(* graphql/validator: the walk over a document that runs the rules, with   *)
(* the skipping of rules, fragments entered from operations, and the       *)
(* bookkeeping of one Validate call.  A document is written node by node   *)
(* into a frame and then validated.                                        *)
(***************************************************************************)
EXTENDS Rules

CONSTANTS Frames   \* records [doc, defs, phrases, under, max]: the document to start from, the
                   \* definitions that follow, what is written below them (a phrase is a node and
                   \* the nodes below it, up counted from the phrase), the kinds of node it is
                   \* written under, and the most nodes

VARIABLES frame,   \* the frame that is being filled
          phase,   \* "writing" or "validated"
          errs,    \* the errors that Validate returned
          panicked \* whether it panicked instead

vars == <<doc, frame, phase, errs, panicked>>

(***************************************************************************)
(* Running rules                                                           *)
(***************************************************************************)
RuleNames == {"UniqueOperationNames", "LoneAnonymousOperation", "SingleFieldSubscriptions",
              "KnownTypeNames", "FragmentsOnCompositeTypes", "VariablesAreInputTypes", "ScalarLeafs",
              "FieldsOnCorrectType", "UniqueFragmentNames", "KnownFragmentNames", "NoUnusedFragments",
              "PossibleFragmentSpreads", "NoFragmentCycles", "UniqueVariableNames",
              "NoUndefinedVariables", "NoUnusedVariables", "KnownDirectives",
              "DirectivesInValidLocations", "UniqueDirectivesPerLocation", "KnownArgumentNames",
              "UniqueArgumentNames", "ValuesOfCorrectType", "ProvidedRequiredArguments",
              "VariablesInAllowedPosition", "OverlappingFieldsCanBeMerged", "UniqueInputFieldNames"}

\* newValidationContext. skip gives the node whose children a rule skips, 0 for none.
NewContext == [errs |-> <<>>, panicked |-> FALSE, skip |-> [r \in RuleNames |-> 0], op |-> 0,
               inSpread |-> FALSE, validated |-> {}, usedVars |-> {}, usedFrags |-> {},
               cycleChecked |-> {}, knownOps |-> {}, knownFrags |-> {}, pairs |-> <<>>,
               cache |-> <<>>, compared |-> {}, found |-> <<>>, depth |-> 0]

\* The rules that check an event, in the order of InitStandardRules. Inside a fragment that was
\* entered from an operation only those on the use of variables run.
RulesFor(event, inSpread) ==
  CASE inSpread /\ event # "VariableUsage" -> <<>>
    [] event = "Operation" -> <<"UniqueOperationNames", "LoneAnonymousOperation",
         "SingleFieldSubscriptions", "KnownTypeNames", "UniqueVariableNames">>
    [] event = "Variable" -> <<"VariablesAreInputTypes", "NoUnusedVariables">>
    [] event = "Fragment" -> <<"KnownTypeNames", "FragmentsOnCompositeTypes", "UniqueFragmentNames",
         "NoUnusedFragments", "NoFragmentCycles">>
    [] event = "SelectionSet" -> <<"OverlappingFieldsCanBeMerged">>
    [] event = "Field" -> <<"ScalarLeafs", "FieldsOnCorrectType", "UniqueArgumentNames",
         "ProvidedRequiredArguments">>
    [] event = "Argument" -> <<"KnownArgumentNames">>
    [] event = "Inline" -> <<"KnownTypeNames", "FragmentsOnCompositeTypes", "PossibleFragmentSpreads">>
    [] event = "Spread" -> <<"KnownFragmentNames", "NoUnusedFragments", "PossibleFragmentSpreads">>
    [] event = "Value" -> <<"ValuesOfCorrectType", "UniqueInputFieldNames">>
    [] event = "VariableUsage" -> <<"NoUndefinedVariables", "NoUnusedVariables",
         "VariablesInAllowedPosition">>
    [] event = "Directives" -> <<"UniqueDirectivesPerLocation">>
    [] event = "Directive" -> <<"KnownDirectives", "DirectivesInValidLocations", "UniqueArgumentNames",
         "ProvidedRequiredArguments">>

\* The checks of an event by the rules that have one; info is what the walk knows: a type, a
\* definition, a location...
CheckOperation(rule, c, n, info) ==
  CASE rule = "UniqueOperationNames" -> UniqueOperationNames(c, n)
    [] rule = "LoneAnonymousOperation" -> LoneAnonymousOperation(c, n)
    [] rule = "SingleFieldSubscriptions" -> SingleFieldSubscriptions(c, n)
    [] rule = "KnownTypeNames" -> KnownTypeNames(c, n)
    [] rule = "UniqueVariableNames" -> UniqueVariableNames(c, n)
CheckVariable(rule, c, n, info) ==
  CASE rule = "VariablesAreInputTypes" -> VariablesAreInputTypes(c, n)
    [] rule = "NoUnusedVariables" -> NoUnusedVariables(c, n)
CheckFragment(rule, c, n, info) ==
  CASE rule = "KnownTypeNames" -> KnownTypeNames(c, n)
    [] rule = "FragmentsOnCompositeTypes" -> FragmentsOnCompositeTypes(c, n, info.cond)
    [] rule = "UniqueFragmentNames" -> UniqueFragmentNames(c, n)
    [] rule = "NoUnusedFragments" -> NoUnusedFragments(c, n)
    [] rule = "NoFragmentCycles" -> NoFragmentCycles(c, n)
CheckSelectionSet(rule, c, n, info) == OverlappingFieldsCanBeMerged(c, n, info.type)
CheckField(rule, c, n, info) ==
  CASE rule = "ScalarLeafs" -> ScalarLeafs(c, n, info.def)
    [] rule = "FieldsOnCorrectType" -> FieldsOnCorrectType(c, n, info.type, info.def)
    [] rule = "UniqueArgumentNames" -> UniqueArgumentNames(c, n)
    [] rule = "ProvidedRequiredArguments" -> ProvidedRequiredArguments(c, n, info.def)
CheckArgument(rule, c, n, info) == KnownArgumentNames(c, n, info.def, info.argDef)
CheckInlineFragment(rule, c, n, info) ==
  CASE rule = "KnownTypeNames" -> KnownTypeNames(c, n)
    [] rule = "FragmentsOnCompositeTypes" -> FragmentsOnCompositeTypes(c, n, info.cond)
    [] rule = "PossibleFragmentSpreads" -> PossibleFragmentSpreads(c, n, info.type)
CheckFragmentSpread(rule, c, n, info) ==
  CASE rule = "KnownFragmentNames" -> KnownFragmentNames(c, n)
    [] rule = "NoUnusedFragments" -> NoUnusedFragments(c, n)
    [] rule = "PossibleFragmentSpreads" -> PossibleFragmentSpreads(c, n, info.type)
CheckValue(rule, c, n, info) ==
  CASE rule = "ValuesOfCorrectType" -> ValuesOfCorrectType(c, n, info.type)
    [] rule = "UniqueInputFieldNames" -> UniqueInputFieldNames(c, n)
CheckVariableUsage(rule, c, n, info) ==
  CASE rule = "NoUndefinedVariables" -> NoUndefinedVariables(c, n)
    [] rule = "NoUnusedVariables" -> NoUnusedVariables(c, n)
    [] rule = "VariablesInAllowedPosition" -> VariablesInAllowedPosition(c, n, info.type, info.default)
CheckDirectives(rule, c, n, info) == UniqueDirectivesPerLocation(c, n)
CheckDirective(rule, c, n, info) ==
  CASE rule = "KnownDirectives" -> KnownDirectives(c, n)
    [] rule = "DirectivesInValidLocations" -> DirectivesInValidLocations(c, n, info.location)
    [] rule = "UniqueArgumentNames" -> UniqueArgumentNames(c, n)
    [] rule = "ProvidedRequiredArguments" -> ProvidedRequiredArguments(c, n, info.def)

\* Checks that return SkipCheckForChildNodes; the others return ContinueCheck and none StopCheck.
Skips(rule, event, n, info) ==
  \/ event = "Operation" /\ rule \in {"UniqueOperationNames", "LoneAnonymousOperation",
                                      "SingleFieldSubscriptions"}
  \/ event = "Fragment" /\ rule \in {"UniqueFragmentNames", "NoUnusedFragments", "NoFragmentCycles"}
  \/ /\ rule = "ValuesOfCorrectType" /\ doc[n].kind \in {"List", "Object"}
     /\ ~IsListFor(n, info.type) /\ ~IsObjectFor(n, info.type)

SkipIf(skips, ctx, rule, n) == IF skips THEN [ctx EXCEPT !.skip[rule] = n] ELSE ctx

Run(check(_, _, _, _), ctx, event, n, info) ==
  Fold(LAMBDA c, r : IF c.skip[r] # 0 THEN c
                     ELSE SkipIf(Skips(r, event, n, info), check(r, c, n, info), r, n),
       ctx, RulesFor(event, ctx.inSpread))

leaveNode(ctx, n) == [ctx EXCEPT !.skip = [r \in RuleNames |-> IF @[r] = n THEN 0 ELSE @[r]]]

(***************************************************************************)
(* The walk                                                                *)
(***************************************************************************)
NoInfo == [type |-> NoType, def |-> NoDef, argDef |-> NoDef, cond |-> NoType, default |-> FALSE,
           location |-> None]

RECURSIVE walkValue(_, _, _, _)

\* What follows the rules on the value: the use of a variable, or the values below.
walkInValue(c, n, type, hasDefault) ==
  LET items   == Tail(NullableTypeOf(type))
      element == IF IsListFor(n, type) /\ IsInputType(items) THEN items ELSE NoType
      inputs  == Schema.inputs[NamedTypeOf(type)[1]]
      known(k) == doc[k].name \in DOMAIN inputs /\ IsInputType(inputs[doc[k].name].type)
      input(k) == IF IsObjectFor(n, type) /\ known(k) THEN inputs[doc[k].name]
                  ELSE [type |-> NoType, default |-> FALSE]
  IN  CASE doc[n].kind = "Variable" /\ c.op # 0 ->
             Run(CheckVariableUsage, c, "VariableUsage", n,
                 [NoInfo EXCEPT !.type = type, !.default = hasDefault])
        [] doc[n].kind = "List" ->
             Fold(LAMBDA d, k : walkValue(d, k, element, FALSE), c, Values(n))
        [] doc[n].kind = "Object" ->
             Fold(LAMBDA d, k : walkValue(d, Values(k)[1], input(k).type, input(k).default),
                  c, Kids(n, {"ObjectField"}))
        [] OTHER -> c

walkValue(ctx, n, type, hasDefault) ==
  leaveNode(walkInValue(Run(CheckValue, ctx, "Value", n, [NoInfo EXCEPT !.type = type]),
                        n, type, hasDefault), n)

\* walkFieldArguments and walkDirectiveArguments
walkArgument(ctx, a, def, argDef) ==
  walkValue(Run(CheckArgument, ctx, "Argument", a, [NoInfo EXCEPT !.def = def, !.argDef = argDef]),
            Values(a)[1], argDef.type, argDef # NoDef /\ argDef.default)

walkArguments(ctx, n, def) ==
  LET argDef(a) == LET ds == SelectSeq(def.args, LAMBDA d : d.name = doc[a].name)
                   IN  IF ds = <<>> THEN NoDef ELSE ds[1]
  IN  Fold(LAMBDA c, a : walkArgument(c, a, def, argDef(a)), ctx, Kids(n, {"Argument"}))

walkDirective(ctx, n, def, location) ==
  leaveNode(walkArguments(Run(CheckDirective, ctx, "Directive", n,
                              [NoInfo EXCEPT !.def = def, !.location = location]), n, def), n)

walkDirectives(ctx, n, location) ==
  LET def(k) == IF doc[k].name \in DOMAIN Schema.directives THEN Schema.directives[doc[k].name].def
                ELSE NoDef
  IN  IF Kids(n, {"Directive"}) = <<>> THEN ctx
      ELSE Fold(LAMBDA c, k : walkDirective(c, k, def(k), location),
                Run(CheckDirectives, ctx, "Directives", n, [NoInfo EXCEPT !.location = location]),
                Kids(n, {"Directive"}))

RECURSIVE walkSelectionSet(_, _, _)
walkField(ctx, n, parent) ==
  LET def == ResolveField(parent, doc[n].name)
  IN  leaveNode(walkSelectionSet(
        walkDirectives(
          walkArguments(Run(CheckField, ctx, "Field", n, [NoInfo EXCEPT !.type = parent, !.def = def]),
                        n, def), n, "FIELD"), n, def.type), n)

walkInlineFragment(ctx, n, parent) ==
  LET cond == IF doc[n].cond = NoType THEN NoType ELSE ResolveType(doc[n].cond)
  IN  leaveNode(walkSelectionSet(
        walkDirectives(Run(CheckInlineFragment, ctx, "Inline", n,
                           [NoInfo EXCEPT !.type = parent, !.cond = cond]), n, "INLINE_FRAGMENT"),
        n, IF doc[n].cond = NoType THEN parent ELSE cond), n)

\* The fragment f is entered from an operation, the first time it is spread there.
walkIntoFragment(c, f) ==
  IF c.op = 0 \/ f = 0 \/ f \in c.validated THEN c
  ELSE [walkSelectionSet([c EXCEPT !.validated = @ \cup {f}, !.inSpread = TRUE], f,
                         ResolveType(doc[f].cond)) EXCEPT !.inSpread = c.inSpread]

walkFragmentSpread(ctx, n, parent) ==
  leaveNode(walkIntoFragment(
    walkDirectives(Run(CheckFragmentSpread, ctx, "Spread", n, [NoInfo EXCEPT !.type = parent]),
                   n, "FRAGMENT_SPREAD"), FragmentInfo(doc[n].name)), n)

walkSelection(ctx, n, parent) ==
  CASE doc[n].kind = "Field" -> walkField(ctx, n, parent)
    [] doc[n].kind = "Inline" -> walkInlineFragment(ctx, n, parent)
    [] doc[n].kind = "Spread" -> walkFragmentSpread(ctx, n, parent)

walkSelectionSet(ctx, n, type) ==
  Fold(LAMBDA c, k : walkSelection(c, k, NamedTypeOf(type)),
       Run(CheckSelectionSet, ctx, "SelectionSet", n, [NoInfo EXCEPT !.type = NamedTypeOf(type)]),
       Selections(n))

walkDefault(ctx, v) == IF Values(v) = <<>> THEN ctx
                       ELSE walkValue(ctx, Values(v)[1], ResolveType(doc[v].type), FALSE)

walkVariables(ctx, n) ==
  Fold(LAMBDA c, v : leaveNode(Run(CheckVariable, walkDirectives(walkDefault(c, v), v,
                                                                 "VARIABLE_DEFINITION"),
                                   "Variable", v, NoInfo), v),
       ctx, Kids(n, {"VariableDefinition"}))

RootType(n) == CASE doc[n].type = "query" -> Schema.query
                 [] doc[n].type = "mutation" -> Schema.mutation
                 [] doc[n].type = "subscription" -> Schema.subscription

walkInOperation(ctx, n) ==
  leaveNode(walkVariables(walkSelectionSet(walkDirectives(ctx, n, doc[n].type), n, RootType(n)), n), n)

\* As if validatedFragments were kept from one operation to the next.
walkOperationKeeping(ctx, n) ==
  [walkInOperation(Run(CheckOperation, [ctx EXCEPT !.op = n], "Operation", n, NoInfo), n)
     EXCEPT !.op = 0]

walkOperationDefinition(ctx, n) ==
  [walkInOperation(Run(CheckOperation, [ctx EXCEPT !.op = n, !.validated = {}], "Operation", n, NoInfo),
                   n) EXCEPT !.op = 0, !.validated = {}]

walkFragmentDefinition(ctx, n) ==
  LET cond == ResolveType(doc[FragmentInfo(doc[n].name)].cond)
  IN  leaveNode(walkSelectionSet(
        walkDirectives(Run(CheckFragment, ctx, "Fragment", n, [NoInfo EXCEPT !.cond = cond]),
                       n, "FRAGMENT_DEFINITION"), n, cond), n)

\* All operations before all fragments.
walk == Fold(walkFragmentDefinition,
                 Fold(walkOperationDefinition, NewContext, Kids(0, {"Operation"})),
                 Kids(0, {"Fragment"}))

(***************************************************************************)
(* Writing a document, and validating it                                   *)
(***************************************************************************)
\* Where a node may stand: the kinds below a kind, in this order.
Below(kind) ==
  CASE kind = "Operation" -> <<{"VariableDefinition"}, {"Directive"}, SelectionKinds>>
    [] kind = "Fragment" -> <<{"Directive"}, SelectionKinds>>
    [] kind = "Field" -> <<{"Argument"}, {"Directive"}, SelectionKinds>>
    [] kind = "Inline" -> <<{"Directive"}, SelectionKinds>>
    [] kind = "Spread" -> <<{"Directive"}>>
    [] kind = "VariableDefinition" -> <<ValueKinds \ {"Variable"}, {"Directive"}>>
    [] kind = "Directive" -> <<{"Argument"}>>
    [] kind \in {"Argument", "ObjectField"} -> <<ValueKinds>>
    [] kind = "List" -> <<ValueKinds>>
    [] kind = "Object" -> <<{"ObjectField"}>>
    [] OTHER -> <<>>

Rank(kind, below) == CHOOSE i \in 1..Len(below) : kind \in below[i]

MayStand(node, up) ==
  LET below == Below(doc[up].kind)
      last  == {k \in 1..Len(doc) : doc[k].up = up}
  IN  /\ doc[up].kind \in frame.under
      /\ \E i \in 1..Len(below) : node.kind \in below[i]
      /\ \A k \in last : Rank(doc[k].kind, below) <= Rank(node.kind, below)
      /\ doc[up].kind \in {"Argument", "ObjectField"} => last = {}
      /\ doc[up].kind = "VariableDefinition" /\ node.kind \in ValueKinds => last = {}

\* What the parser requires: selections and values where there must be some.
Whole == \A n \in 1..Len(doc) :
           /\ doc[n].kind \in {"Operation", "Fragment", "Inline"} => Selections(n) # <<>>
           /\ doc[n].kind \in {"Argument", "ObjectField"} => Values(n) # <<>>

Init == /\ frame \in Frames
        /\ doc = frame.doc
        /\ phase = "writing" /\ errs = <<>> /\ panicked = FALSE

Place(phrase, up) ==
  /\ phase = "writing" /\ Len(doc) + Len(phrase) <= frame.max
  /\ doc' = doc \o [i \in 1..Len(phrase) |->
                      [phrase[i] EXCEPT !.up = IF i = 1 THEN up ELSE Len(doc) + @]]
  /\ UNCHANGED <<frame, phase, errs, panicked>>

Write(phrase, up) == MayStand(phrase[1], up) /\ Place(phrase, up)

WriteDefinition ==
  LET written == Len(Kids(0, {"Operation", "Fragment"}))
  IN  written <= Len(frame.defs) /\ Whole /\ Place(<<frame.defs[written]>>, 0)

Validate ==
  /\ phase = "writing" /\ Whole
  /\ \E ctx \in {walk} : errs' = ctx.errs /\ panicked' = ctx.panicked
  /\ phase' = "validated"
  /\ UNCHANGED <<doc, frame>>

Next == \/ \E up \in Above(Len(doc)), phrase \in frame.phrases : Write(phrase, up)
        \/ WriteDefinition
        \/ Validate

Spec == Init /\ [][Next]_vars

(***************************************************************************)
(* Properties                                                              *)
(***************************************************************************)
Reported(rule) == {errs[i] : i \in {j \in 1..Len(errs) : errs[j][1] = rule}}
Judged == phase = "validated" /\ ~panicked

Spreads(n) == {FragmentInfo(doc[k].name) : k \in {s \in Under(n) : doc[s].kind = "Spread"}} \ {0}

\* The fragments that node n spreads, itself or through fragments.
RECURSIVE ReachFrom(_)
ReachFrom(set) == LET more == set \cup UNION {Spreads(f) : f \in set}
                  IN  IF more = set THEN set ELSE ReachFrom(more)
Reach(n) == ReachFrom(Spreads(n))
Operations == {n \in 1..Len(doc) : doc[n].kind = "Operation"}
Fragments == {n \in 1..Len(doc) : doc[n].kind = "Fragment"}

\* A fragment is reported unused exactly when no operation reaches it, through any chain of
\* fragments; some cycle is reported exactly when there is one; and each spread that is reported
\* lies on a cycle, the path given with it leading from its target back to it.
FragmentsJudged ==
  Judged =>
    /\ \A f \in Fragments : <<"NoUnusedFragments", f>> \in Reported("NoUnusedFragments") <=>
         \A o \in Operations : FragmentInfo(doc[f].name) \notin Reach(o)
    /\ Reported("NoFragmentCycles") # {} <=>
         \E f \in Fragments : f = FragmentInfo(doc[f].name) /\ f \in Reach(f)
    /\ \A e \in Reported("NoFragmentCycles") :
         LET path == Append(e[3], e[2])
             home(s) == CHOOSE f \in Above(s) : doc[f].up = 0
         IN  \A i \in 1..Len(path) : LET before == IF i = 1 THEN path[Len(path)] ELSE path[i - 1]
                                      IN  home(path[i]) = FragmentInfo(doc[before].name)

VariablesOf(o) == {v \in Under(o) \cup UNION {Under(f) : f \in Reach(o)} : doc[v].kind = "Variable"}

\* An operation is judged by all variables it reaches, each once: an undefined one is reported
\* for every operation that reaches it, however many spreads lead there and whatever an earlier
\* operation visited, and a definition is reported unused exactly when nothing reached uses it.
VariablesJudged ==
  Judged =>
    /\ \A o \in Operations, v \in 1..Len(doc) : doc[v].kind = "Variable" =>
         Cardinality({i \in 1..Len(errs) : errs[i] = <<"NoUndefinedVariables", v, o>>}) =
           IF v \in VariablesOf(o) /\ VariableInfo(o, doc[v].name) = 0 THEN 1 ELSE 0
    /\ \A o \in Operations, d \in 1..Len(doc) :
         doc[d].kind = "VariableDefinition" /\ doc[d].up = o /\ VariableInfo(o, doc[d].name) = d =>
           (<<"NoUnusedVariables", d>> \in Reported("NoUnusedVariables") <=>
              \A v \in VariablesOf(o) : doc[v].name # doc[d].name)

\* The fields of a selection set with their parent types, fragments expanded.
RECURSIVE Expand(_, _, _)
Expand(n, parent, seen) ==
  UNION {CASE doc[k].kind = "Field" -> {Collected(k, parent)}
           [] doc[k].kind = "Inline" ->
                Expand(k, IF doc[k].cond = NoType THEN parent ELSE ResolveType(doc[k].cond), seen)
           [] doc[k].kind = "Spread" ->
                LET f == FragmentInfo(doc[k].name)
                IN  IF f \in seen \cup {0} THEN {} ELSE Expand(f, ResolveType(doc[f].cond), seen \cup {f}) :
         k \in ToSet(Selections(n))}

\* Whether two values are written alike: lists element by element, objects field by field in
\* any order.
RECURSIVE SameLiteral(_, _)
SameLiteral(n, m) ==
  LET fields(k)    == ToSet(Kids(k, {"ObjectField"}))
      covers(k, l) == \A f \in fields(k) : \E g \in fields(l) :
                        doc[f].name = doc[g].name /\ SameLiteral(Values(f)[1], Values(g)[1])
  IN  /\ doc[n].kind = doc[m].kind
      /\ doc[n].name = doc[m].name
      /\ doc[n].kind = "Scalar" => doc[n].val = doc[m].val
      /\ doc[n].kind = "List" =>
           /\ Len(Values(n)) = Len(Values(m))
           /\ \A i \in 1..Len(Values(n)) : SameLiteral(Values(n)[i], Values(m)[i])
      /\ doc[n].kind = "Object" => covers(n, m) /\ covers(m, n)

\* Whether two fields are called with the same arguments, in any order.
SameCall(n, m) ==
  LET args(k)      == ToSet(Kids(k, {"Argument"}))
      covers(k, l) == \A a \in args(k) : \E b \in args(l) :
                        doc[a].name = doc[b].name /\ SameLiteral(Values(a)[1], Values(b)[1])
  IN  covers(n, m) /\ covers(m, n)

\* Two fields under one key that cannot be merged: by themselves or below.
RECURSIVE Clash(_, _, _)
Clash(exclusiveParents, f1, f2) ==
  LET exclusive == MutuallyExclusive(exclusiveParents, f1, f2) IN
  \/ ~exclusive /\ (doc[f1.node].name # doc[f2.node].name \/ ~SameCall(f1.node, f2.node))
  \/ f1.type # NoType /\ f2.type # NoType /\ doTypesConflict(f1.type, f2.type)
  \/ \E g1 \in Expand(f1.node, NamedTypeOf(f1.type), {}), g2 \in Expand(f2.node, NamedTypeOf(f2.type), {}) :
       ResponseKey(g1.node) = ResponseKey(g2.node) /\ g1.node # g2.node /\ Clash(exclusive, g1, g2)

\* The type of the selection set of node n.
RECURSIVE TypeAt(_)
TypeAt(n) ==
  CASE doc[n].kind = "Operation" -> RootType(n)
    [] doc[n].kind = "Fragment" -> ResolveType(doc[n].cond)
    [] doc[n].kind = "Inline" -> IF doc[n].cond = NoType THEN TypeAt(doc[n].up) ELSE ResolveType(doc[n].cond)
    [] doc[n].kind = "Field" -> NamedTypeOf(ResolveField(TypeAt(doc[n].up), doc[n].name).type)

\* Whether the literal n, which holds no variable, stands for a value of the type.
RECURSIVE Fits(_, _)
Fits(n, type) ==
  LET kind   == doc[n].kind
      fields == ToSet(Kids(n, {"ObjectField"}))
      inputs == Schema.inputs[type[1]]
  IN  CASE KindOf(type) = "NonNull" -> kind # "Null" /\ Fits(n, Tail(type))
        [] kind = "Null" -> KindOf(type) # "NonNull"
        [] KindOf(type) = "List" /\ kind # "Null" ->
             IF kind = "List" THEN \A k \in ToSet(Values(n)) : Fits(k, Tail(type)) ELSE Fits(n, Tail(type))
        [] KindOf(type) = "Enum" /\ kind # "Null" -> kind = "Enum" /\ doc[n].name \in Schema.enums[type[1]]
        [] KindOf(type) = "Scalar" /\ kind # "Null" ->
             kind = "Scalar" /\ <<doc[n].name, doc[n].val>> \in Schema.literals[type[1]]
        [] KindOf(type) = "InputObject" /\ kind # "Null" ->
             /\ kind = "Object"
             /\ \A f \in DOMAIN inputs : IsRequired(inputs[f]) => \E k \in fields : doc[k].name = f
             /\ \A k \in fields : doc[k].name \in DOMAIN inputs /\ Fits(Values(k)[1], inputs[doc[k].name].type)

ArgDefs(n) == IF doc[n].kind = "Field" THEN ResolveField(TypeAt(doc[n].up), doc[n].name).args
              ELSE Schema.directives[doc[n].name].def.args

\* The types that the literal of an argument, or the default of a variable of an input type, is
\* read as.
ExpectedTypes(n) ==
  CASE doc[n].kind = "Argument" -> {d.type : d \in {e \in ToSet(ArgDefs(doc[n].up)) : e.name = doc[n].name}}
    [] doc[n].kind = "VariableDefinition" /\ Values(n) # <<>> /\ IsInputType(ResolveType(doc[n].type)) ->
         {doc[n].type}
    [] OTHER -> {}

\* The literal of an argument, and the default of a variable, is accepted exactly when it stands
\* for a value of the type: a bad part is reported however deep it lies in lists and objects, and
\* nothing else is.
LiteralsJudged ==
  Judged =>
    \A n \in 1..Len(doc) : (\A v \in Under(n) : doc[v].kind # "Variable") =>
      \A type \in ExpectedTypes(n) :
        Fits(Values(n)[1], type) <=> \A e \in Reported("ValuesOfCorrectType") : e[2] \notin Under(n)

Acyclic == \A f \in Fragments : f \notin Reach(f)

\* Some conflict is reported exactly when two fields that meet in some selection set, fragments
\* expanded, cannot be merged: whatever the caches and the pairs of fragments compared before.
\* For documents whose fragments form no cycle. Violated: by fields behind an inline fragment, and by
\* arguments that Interface() confuses.
ConflictsFoundAll ==
  Judged /\ Acyclic =>
    (Reported("OverlappingFieldsCanBeMerged") # {} <=>
       \E n \in {k \in 1..Len(doc) : doc[k].kind \in {"Operation", "Fragment", "Inline", "Field"}} :
         \E f1, f2 \in Expand(n, TypeAt(n), {}) :
           ResponseKey(f1.node) = ResponseKey(f2.node) /\ f1.node # f2.node /\ Clash(FALSE, f1, f2))

\* No field stands behind an inline fragment that changes the parent type.
InlineLast == \A n, k \in 1..Len(doc) :
                doc[n].kind = "Inline" /\ doc[n].cond # NoType /\ doc[k].up = doc[n].up /\ k > n =>
                  doc[k].kind = "Spread" \/ (doc[k].kind = "Inline" /\ doc[k].cond # NoType)

\* Every value is one that Interface() keeps apart from values that are written differently: the
\* numbers have a Go value, values in lists and objects that convert to one string are of one
\* kind, and no argument or input field is given twice.
KeptApart ==
  LET nested == {n \in 1..Len(doc) : doc[n].up # 0 /\ doc[doc[n].up].kind \in {"List", "ObjectField"}}
      texts(k) == {n \in nested : TypeOf(n) = k}
      strings == {doc[n].val : n \in texts("String")}
      enums == {doc[n].name : n \in texts("Enum")}
      variables == {doc[n].name : n \in texts("Variable")}
      scalars(k) == {doc[n].val : n \in {m \in 1..Len(doc) : TypeOf(m) = k}}
  IN  /\ scalars("Int") \subseteq -MaxInt32 - 1..MaxInt32
      /\ scalars("Float") \subseteq -MaxFloat64..MaxFloat64
      /\ strings \cap enums = {} /\ strings \cap variables = {} /\ enums \cap variables = {}
      /\ \A n \in 1..Len(doc) : Duplicates(Kids(n, {"Argument"})) \o Duplicates(Kids(n, {"ObjectField"})) = <<>>

\* The same where collecting is not misled by an inline fragment, nor the comparison of arguments
\* by the conversion of their values.
ConflictsFound == InlineLast /\ KeptApart => ConflictsFoundAll
=============================================================================
