------------------------------ MODULE Document ------------------------------
(***************************************************************************)
(* A parsed document as the validator sees it, and what the validator asks *)
(* of the schema's types.                                                  *)
(*                                                                         *)
(* A document is the sequence of its nodes in the order of the text.  A    *)
(* node has a kind, the place of its parent (0 for a definition) and the   *)
(* fields of its kind; its place is its identity, as the address of the    *)
(* node is in the code.  A type is a sequence: "!" for NonNull, "[" for    *)
(* List, then a name.  <<>> is Go's nil.                                   *)
(***************************************************************************)
EXTENDS Integers, Sequences, FiniteSets, SequencesExt

CONSTANT Schema   \* kinds, fields, possible, enums, inputs, literals, directives, query,
                  \* mutation, subscription

VARIABLE doc

None == "none"
NoType == <<>>
NoDef == [type |-> NoType, args |-> <<>>]
ValueKinds == {"Variable", "Scalar", "Null", "Enum", "List", "Object"}
SelectionKinds == {"Field", "Inline", "Spread"}

\* op applied to the elements of seq from the first to the last. (The sets of one element make
\* TLC evaluate each step once.)
Fold(op(_, _), base, seq) ==
  LET f[i \in 0..Len(seq)] == IF i = 0 THEN base
                              ELSE CHOOSE r \in {op(c, seq[i]) : c \in {f[i - 1]}} : TRUE
  IN  f[Len(seq)]

Ids == [i \in 1..Len(doc) |-> i]
Kids(n, kinds) == SelectSeq(Ids, LAMBDA k : doc[k].up = n /\ doc[k].kind \in kinds)
Selections(n) == Kids(n, SelectionKinds)
Values(n) == Kids(n, ValueKinds)
Named(nodes, name) == SelectSeq(nodes, LAMBDA k : doc[k].name = name)

\* The parents of n, n included.
RECURSIVE Above(_)
Above(n) == IF n = 0 THEN {} ELSE {n} \cup Above(doc[n].up)
Under(n) == {k \in 1..Len(doc) : n \in Above(k)}

\* ctx.FragmentInfo: the map holds the last definition of a name.
FragmentInfo(name) == LET defs == Named(Kids(0, {"Fragment"}), name)
                      IN  IF defs = <<>> THEN 0 ELSE Last(defs)
VariableInfo(op, name) == LET defs == Named(Kids(op, {"VariableDefinition"}), name)
                          IN  IF defs = <<>> THEN 0 ELSE Last(defs)

ResponseKey(n) == IF doc[n].alias = None THEN doc[n].name ELSE doc[n].alias

(***************************************************************************)
(* Types                                                                   *)
(***************************************************************************)
ResolveType(t) == IF Last(t) \in DOMAIN Schema.kinds THEN t ELSE NoType
NamedTypeOf(t) == IF t = NoType THEN NoType ELSE <<Last(t)>>
KindOf(t) == CASE t = NoType -> None
               [] Len(t) > 1 -> IF Head(t) = "!" THEN "NonNull" ELSE "List"
               [] OTHER -> Schema.kinds[t[1]]
NullableTypeOf(t) == IF KindOf(t) = "NonNull" THEN Tail(t) ELSE t
IsInputType(t) == KindOf(NamedTypeOf(t)) \in {"Scalar", "Enum", "InputObject"}
IsLeafType(t) == KindOf(t) \in {"Scalar", "Enum"}
IsCompositeType(t) == KindOf(t) \in {"Object", "Interface", "Union"}
IsAbstractType(t) == KindOf(t) \in {"Interface", "Union"}
PossibleTypes(t) == Schema.possible[t[1]]

\* Type.Fields()[name] of an object or interface.
FieldOf(t, name) ==
  IF KindOf(t) \in {"Object", "Interface"} /\ name \in DOMAIN Schema.fields[t[1]]
  THEN Schema.fields[t[1]][name] ELSE NoDef

ResolveField(t, name) ==
  CASE t = NoType -> NoDef
    [] t # NoType /\ t = Schema.query /\ name \in {"__schema", "__type"} ->
         Schema.meta[name]
    [] name = "__typename" /\ IsCompositeType(t) -> Schema.meta[name]
    [] OTHER -> FieldOf(t, name)

IsRequired(argDef) == KindOf(argDef.type) = "NonNull" /\ ~argDef.default

RECURSIVE IsTypeSubTypeOf(_, _)
IsTypeSubTypeOf(sub, super) ==
  \/ sub = super
  \/ /\ KindOf(super) \in {"NonNull", "List"} /\ KindOf(sub) = KindOf(super)
     /\ IsTypeSubTypeOf(Tail(sub), Tail(super))
  \/ IsAbstractType(super) /\ KindOf(sub) = "Object" /\ sub[1] \in PossibleTypes(super)
  \/ /\ KindOf(super) \notin {"NonNull", "List"} /\ ~IsAbstractType(super)
     /\ KindOf(sub) = "NonNull" /\ IsTypeSubTypeOf(Tail(sub), super)
=============================================================================
