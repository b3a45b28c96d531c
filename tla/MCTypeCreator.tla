--------------------------- MODULE MCTypeCreator ---------------------------
EXTENDS TypeCreator, TLC
CONSTANTS A, B, C

Graph(a, b, c) == (A :> a) @@ (B :> b) @@ (C :> c)

\* A diamond, two types that refer to each other, and one that refers to itself.
MCGraphs == {Graph({B, C}, {C}, {}), Graph({B}, {A, C}, {}), Graph({A, B}, {}, {})}
MCFlaws == {[d \in Defs |-> None], (C :> "finalize") @@ [d \in Defs |-> None],
            (A :> "finalize") @@ [d \in Defs |-> None], (B :> "load") @@ [d \in Defs |-> None]}
=============================================================================
