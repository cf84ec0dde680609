---------------------------- MODULE MCLoopSearch ----------------------------
(* Graphs for LoopSearch over six blocks.                                   *)
EXTENDS LoopSearch, FiniteSetsExt, TLC

CONSTANTS b0, b1, b2, b3, b4, b5
MCBlocks == {b0, b1, b2, b3, b4, b5}

(* One of each shape of graph over b0 .. b3 in which blocks have at most    *)
(* two successors: the one with the smallest number among those that differ *)
(* in the names of b1 .. b3.                                                *)
Few == {b0, b1, b2, b3}
Place == b0 :> 0 @@ b1 :> 1 @@ b2 :> 2 @@ b3 :> 3
Number(g) == MapThenSumSet(LAMBDA e : 2 ^ (4 * Place[e[1]] + Place[e[2]]),
                           {e \in Few \X Few : e[2] \in g[e[1]]})
Renamed(g, p) == [b \in Few |-> {p[x] : x \in g[CHOOSE y \in Few : p[y] = b]}]
Renamings == {b0 :> b0 @@ p : p \in Permutations(Few \ {b0})}
FewGraphs == [Few -> {S \in SUBSET (Few \ {b0}) : Cardinality(S) <= 2}]
Shapes == {g \in FewGraphs : \A p \in Renamings : Number(g) <= Number(Renamed(g, p))}

(* Such a graph with two blocks in front of it.                             *)
Behind(g) == b0 :> {b4} @@ b4 :> {b5} @@ b5 :> g[b0] @@ g
SmallGraphs == {h \in {Behind(g) : g \in Shapes} : AllReachable(h)}

Graph(s0, s1, s2, s3, s4, s5) ==
    b0 :> s0 @@ b1 :> s1 @@ b2 :> s2 @@ b3 :> s3 @@ b4 :> s4 @@ b5 :> s5
LargeGraphs ==
    {\* two loops, one after the other, in a loop
     Graph({b1}, {b2}, {b3, b4}, {b2}, {b5, b1}, {b4}),
     \* the blocks of while (..) { ..; while (..) ..; }
     Graph({b1}, {b2, b5}, {b3}, {b4, b1}, {b3}, {}),
     \* three loops inside one another
     Graph({b1}, {b2}, {b3, b1}, {b4, b2}, {b5, b3}, {b4}),
     \* a loop and a conditional in a loop
     Graph({b1}, {b2}, {b3, b4}, {b2}, {b5, b1}, {b1}),
     \* a loop entered in two places, in a loop
     Graph({b1}, {b2, b3, b5}, {b3}, {b2, b4}, {b1}, {}),
     \* two loops entered in two places each
     Graph({b1, b2}, {b2, b3}, {b1}, {b4, b5}, {b5}, {b4})}

MCGraphs == SmallGraphs \cup LargeGraphs
=============================================================================
