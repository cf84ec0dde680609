---------------------------- MODULE MCDominators ----------------------------
(* Every graph over the blocks that can be a function's.                    *)
EXTENDS Dominators, TLC

SmallGraphs ==
    {g \in [Blocks -> SUBSET (Blocks \ {Root})] : AllReachable(g)}

BlockSymmetry == Permutations(Blocks \ {Root})
=============================================================================
