---------------------------- MODULE MCValidation ----------------------------
(* A schema of pets, and the frames that documents are written into.       *)
EXTENDS Validation

Def(type, args) == [type |-> type, args |-> args]
ArgDef(name, type, default) == [name |-> name, type |-> type, default |-> default]
StringT == <<"String">>
IntT == <<"Int">>

MCSchema ==
  [kinds |-> [Q |-> "Object", Pet |-> "Interface", Dog |-> "Object", Cat |-> "Object",
              String |-> "Scalar", Int |-> "Scalar", In |-> "InputObject", Color |-> "Enum"],
   fields |-> [Q |-> [pet |-> Def(<<"Pet">>, <<>>),
                      n |-> Def(IntT, <<ArgDef("x", <<"!", "Int">>, FALSE), ArgDef("y", <<"In">>, FALSE),
                                      ArgDef("z", <<"!", "[", "Color">>, TRUE)>>)],
               Pet |-> [name |-> Def(StringT, <<>>), nick |-> Def(StringT, <<>>), kin |-> Def(<<"Pet">>, <<>>)],
               Dog |-> [name |-> Def(StringT, <<>>), age |-> Def(IntT, <<>>), nick |-> Def(StringT, <<>>), kin |-> Def(<<"Dog">>, <<>>)],
               Cat |-> [name |-> Def(StringT, <<>>), age |-> Def(StringT, <<>>), nick |-> Def(StringT, <<>>), kin |-> Def(<<"Cat">>, <<>>)]],
   possible |-> [Pet |-> {"Dog", "Cat"}],
   enums |-> [Color |-> {"RED"}],
   inputs |-> [In |-> [a |-> ArgDef("a", <<"!", "Int">>, FALSE), b |-> ArgDef("b", <<"[", "Color">>, FALSE)]],
   literals |-> [String |-> {"String"} \X {"a"}, Int |-> {"Int"} \X (-MaxInt32 - 1..MaxInt32)],
   directives |-> [skip |-> [locations |-> {"FIELD"}, def |-> Def(NoType, <<ArgDef("if", <<"!", "Int">>, FALSE)>>)]],
   meta |-> [__typename |-> Def(<<"!", "String">>, <<>>)],
   query |-> <<"Q">>, mutation |-> NoType, subscription |-> <<"Q">>]

Node(kind, name) == [kind |-> kind, name |-> name, up |-> 0]
Lit(type, val) == [kind |-> "Scalar", name |-> type, val |-> val, up |-> 0]
Op(name) == [kind |-> "Operation", type |-> "query", name |-> name, up |-> 0]
Frag(name, cond) == [kind |-> "Fragment", name |-> name, cond |-> cond, up |-> 0]
Fld(alias, name) == [kind |-> "Field", alias |-> alias, name |-> name, up |-> 0]
Inl(cond) == [kind |-> "Inline", cond |-> cond, up |-> 0]
Spr(name) == Node("Spread", name)
VarDef(name, type) == [kind |-> "VariableDefinition", name |-> name, type |-> type, up |-> 0]

\* Nodes each below the one before it.
Chain(nodes) == [i \in 1..Len(nodes) |-> [nodes[i] EXCEPT !.up = i - 1]]
Frame(d, defs, phrases, under, max) ==
  [doc |-> Chain(d), defs |-> defs, phrases |-> phrases, under |-> under, max |-> max]

\* Fragments that spread each other, and the last one spread where it is not defined.
Graphs == Frame(<<Op(None), Spr("A")>>, <<Frag("A", <<"Q">>), Frag("B", <<"Q">>), Frag("C", <<"Q">>)>>,
                {<<Spr("A")>>, <<Spr("B")>>, <<Spr("C")>>}, {"Fragment"}, 9)
\* Operations that share fragments with variables.
Uses == Frame(<<Op("P")>>, <<Op("R"), Frag("A", <<"Q">>)>>,
              {<<VarDef("v", <<"!", "Int">>)>>, <<Spr("A")>>,
               Chain(<<Fld(None, "n"), Node("Argument", "x"), Node("Variable", "v")>>)},
              {"Operation", "Fragment"}, 10)
\* Literals, arguments and directives.
Literals == Frame(<<Op(None), Fld(None, "n")>>, <<>>,
                  {<<Node("Argument", "x")>>, <<Node("Argument", "y")>>, <<Node("Argument", "z")>>,
                   <<Lit("Int", 0)>>,
                   <<Node("Null", None)>>, <<Node("Enum", "RED")>>, <<Node("List", None)>>,
                   <<Node("Object", None)>>, <<Node("ObjectField", "a")>>, <<Node("ObjectField", "b")>>,
                   <<Node("Directive", "skip")>>},
                  {"Field", "Argument", "List", "Object", "ObjectField", "Directive"}, 7)
\* Defaults of variables, one of them of a type that is no input type.
Defaults == Frame(<<Op(None)>>, <<>>,
                  {<<VarDef("v", <<"[", "!", "Int">>)>>, <<VarDef("v", <<"[", "!", "Q">>)>>, <<VarDef("v", <<"!", "In">>)>>,
                   <<Node("List", None)>>, <<Node("Object", None)>>, Chain(<<Node("ObjectField", "a"), Lit("Int", 1)>>),
                   <<Lit("Int", MaxInt32 + 1)>>, <<Node("Null", None)>>, <<Fld(None, "pet")>>},
                  {"Operation", "VariableDefinition", "List", "Object"}, 7)
\* Fields of one key in fragments that are compared side by side.
Keys == {<<Fld(None, "name")>>, <<Fld("name", "nick")>>, <<Spr("C")>>, <<Spr("D")>>}
FragDefs == <<Frag("B", <<"Pet">>), Frag("C", <<"Pet">>), Frag("D", <<"Pet">>)>>
Overlaps == Frame(<<Op(None), Fld(None, "pet"), Spr("B")>>, FragDefs, Keys, {"Fragment"}, 9)
\* The same below two fields of types that exclude each other, and beside them.
Apart == <<[Op(None) EXCEPT !.up = 0], [Fld(None, "pet") EXCEPT !.up = 1], [Spr("B") EXCEPT !.up = 2],
           [FragDefs[1] EXCEPT !.up = 0],
           [Inl(NoType) EXCEPT !.up = 4],
           [Inl(<<"Dog">>) EXCEPT !.up = 5], [Fld(None, "kin") EXCEPT !.up = 6], [Spr("C") EXCEPT !.up = 7],
           [Inl(<<"Cat">>) EXCEPT !.up = 5], [Fld(None, "kin") EXCEPT !.up = 9], [Spr("D") EXCEPT !.up = 10],
           [Spr("C") EXCEPT !.up = 4], [Spr("D") EXCEPT !.up = 4]>>
Exclusives == [Overlaps EXCEPT !.doc = Apart, !.max = 18]
\* Inline fragments among fields.
Inlines == Frame(<<Op(None), Fld(None, "pet")>>, <<>>,
                 {<<Fld("name", "age")>>, <<Fld(None, "name")>>, <<Inl(<<"Dog">>)>>, <<Inl(<<"Cat">>)>>,
                  <<Inl(NoType)>>}, {"Field", "Inline"}, 6)

\* Calls of one field with arguments that differ or not: in number, name, order and value...
Call == <<Op(None), [Fld(None, "n") EXCEPT !.up = 1],
          [Node("Argument", "x") EXCEPT !.up = 2], [Lit("Int", 0) EXCEPT !.up = 3],
          [Node("Argument", "y") EXCEPT !.up = 2], [Lit("Int", 0) EXCEPT !.up = 5]>>
Arguments == [doc |-> Call, defs |-> <<>>, under |-> {"Operation", "Field"}, max |-> 13,
              phrases |-> {<<Fld(None, "n")>>, Chain(<<Node("Argument", "x"), Lit("Int", 0)>>),
                           Chain(<<Node("Argument", "x"), Lit("Int", 1)>>),
                           Chain(<<Node("Argument", "y"), Lit("Int", 0)>>)}]
\* ... in the elements of a list...
Lists == Frame(<<Op(None), Fld(None, "n"), Node("Argument", "x"), Node("List", None)>>, <<>>,
               {Chain(<<Fld(None, "n"), Node("Argument", "x"), Node("List", None)>>), <<Node("Variable", "a")>>,
                <<Node("Enum", "a")>>, <<Lit("String", "a")>>, <<Lit("Int", 0)>>, <<Lit("Int", MaxInt32 + 1)>>,
                <<Lit("Float", 0)>>, <<Lit("Float", MaxFloat64 + 1)>>},
               {"Operation", "List"}, 9)
\* ... and in the fields of an object, in either order.
Objects == Frame(<<Op(None), Fld(None, "n"), Node("Argument", "y"), Node("Object", None)>>, <<>>,
                 {Chain(<<Fld(None, "n"), Node("Argument", "y"), Node("Object", None)>>),
                  Chain(<<Node("ObjectField", "a"), Lit("Int", 0)>>),
                  Chain(<<Node("ObjectField", "b"), Lit("Int", 0)>>),
                  Chain(<<Node("ObjectField", "b"), Node("Null", None)>>)},
                 {"Operation", "Object"}, 15)

MCFrames == {Graphs, Uses, Literals, Defaults, Overlaps, Exclusives, Inlines, Arguments, Lists, Objects}
MCInlines == {Inlines}
MCLists == {Lists}
=============================================================================
