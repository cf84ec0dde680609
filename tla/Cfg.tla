-------------------------------- MODULE Cfg --------------------------------
(****************************************************************************)
(* Control-flow graphs of a lightir Function, and what its analyses are     *)
(* supposed to compute, stated from the graph alone.                        *)
(*                                                                          *)
(* A graph is the function succ that gives each basic block the blocks in   *)
(* its succ_bbs_ list (BasicBlock.h).  The lists are sets here: the code    *)
(* walks them in the order the branches were created, and the models that   *)
(* use this module walk them in any order.                                  *)
(*                                                                          *)
(* Dominance is stated without paths and without recursion, so that it can  *)
(* be reasoned about by a prover without induction: a block b is not        *)
(* dominated by d exactly when every set that holds the entry and is closed *)
(* under the edges that do not enter d holds b.                             *)
(****************************************************************************)
EXTENDS Naturals, FiniteSets

CONSTANTS Blocks,     \* the basic blocks of the function
          Root        \* Function::get_entry_block()

ASSUME RootAssumption == Root \in Blocks

ASSUME BlocksAssumption == IsFiniteSet(Blocks)

Preds(succ, b) == {p \in Blocks : b \in succ[p]}

(* Every block can be reached from the entry.                               *)
AllReachable(succ) ==
    \A S \in SUBSET Blocks :
        (Root \in S /\ \A x \in S : succ[x] \subseteq S) => S = Blocks

(* The graphs the builder hands to the optimizer: nothing branches to the   *)
(* entry, and every block was created as the target of some branch (the     *)
(* branch that follows a `return` in its block has its edge, too).          *)
IsFunctionCfg(succ) ==
    /\ succ \in [Blocks -> SUBSET (Blocks \ {Root})]
    /\ AllReachable(succ)

(****************************************************************************)
(* Reference definitions.                                                   *)
(****************************************************************************)

(* d is on every path from the entry to b: some set S holds the blocks      *)
(* reached without entering d, and b is not among them.                     *)
Dominates(succ, d, b) ==
    \E S \in SUBSET (Blocks \ {d, b}) :
        /\ Root # d => Root \in S
        /\ \A x \in S : succ[x] \subseteq S \cup {d}

StrictlyDominates(succ, d, b) == d # b /\ Dominates(succ, d, b)

(* The closest strict dominator of b (the entry is its own, by the          *)
(* convention of Dominators::create_idom).                                  *)
ImmediateDominator(succ, b) ==
    IF b = Root THEN Root
    ELSE CHOOSE d \in Blocks :
            /\ StrictlyDominates(succ, d, b)
            /\ \A e \in Blocks : StrictlyDominates(succ, e, b)
                                    => Dominates(succ, e, d)

(* Where the dominance of n ends: the joins n reaches the edge of.          *)
DominanceFrontier(succ, n) ==
    {b \in Blocks : /\ \E p \in Preds(succ, b) : Dominates(succ, n, p)
                    /\ ~ StrictlyDominates(succ, n, b)}

DominatorChildren(succ, n) ==
    {b \in Blocks \ {Root} : ImmediateDominator(succ, b) = n}
=============================================================================
