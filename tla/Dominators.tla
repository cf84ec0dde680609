----------------------------- MODULE Dominators -----------------------------
(****************************************************************************)
(* The analysis Dominators of src/optimization/Dominators.cpp on one        *)
(* function: depth-first post order, iteration of the immediate dominators  *)
(* with the two-finger intersection, dominance frontiers, dominator tree.   *)
(* Run by Mem2Reg before it places phis.                                    *)
(*                                                                          *)
(* The lists of predecessors and successors are walked in any order; the    *)
(* code walks them in creation order.  Every pointer the code asserts or    *)
(* dereferences is NoBlock here when it would be null.                      *)
(*                                                                          *)
(* A definition ...Bug or ...Reversed is the one below it with a mistake    *)
(* the properties have to detect; nothing refers to it.                     *)
(****************************************************************************)
EXTENDS Cfg, Sequences

CONSTANTS Graphs,     \* the control-flow graphs analysed
          NoBlock     \* the null BasicBlock*

ASSUME GraphsAssumption == \A g \in Graphs : IsFunctionCfg(g)
ASSUME NoBlockAssumption == NoBlock \notin Blocks

VARIABLES
    succ,       \* the graph, fixed while the analysis runs
    pc,         \* the phase, and the loop within create_idom
    stack,      \* post_order_visit calls in progress, innermost last
    visited,    \* the set `visited` of create_reverse_post_order
    order,      \* reverse_post_order_ before reverse(): the post order
    id,         \* post_order_id_ (0 where the code's map has no entry)
    idom,       \* idom_
    changed,    \* create_idom's flag
    pos,        \* how many blocks of `order` the sweep has still to visit
    todo,       \* predecessors of the swept block still to intersect
    f1, f2,     \* the fingers b1, b2 of intersect
    frontier,   \* dom_frontier_
    edges,      \* pairs (bb, p) create_dominance_frontier has to treat
    join,       \* the bb of the pair in progress
    runner,     \* its `runner`
    children    \* dom_tree_succ_blocks_

vars == <<succ, pc, stack, visited, order, id, idom, changed, pos, todo,
          f1, f2, frontier, edges, join, runner, children>>

dfsVars   == <<stack, visited, order, id>>
idomVars  == <<idom, changed, pos, todo, f1, f2>>
frontVars == <<frontier, edges, join, runner>>

Top == stack[Len(stack)]

(* The block create_idom's inner loop is at: it walks the reversed list, so *)
(* `order` from its end.                                                    *)
Swept == order[pos]

TypeOK ==
    /\ succ \in Graphs
    /\ pc \in {"dfs", "sweep", "meet", "frontier", "run", "tree", "done"}
    /\ stack \in Seq(Blocks)
    /\ visited \in SUBSET Blocks
    /\ order \in Seq(Blocks)
    /\ id \in [Blocks -> Nat]
    /\ idom \in [Blocks -> Blocks \cup {NoBlock}]
    /\ changed \in BOOLEAN
    /\ pos \in Nat
    /\ todo \in SUBSET Blocks
    /\ f1 \in Blocks \cup {NoBlock}
    /\ f2 \in Blocks \cup {NoBlock}
    /\ frontier \in [Blocks -> SUBSET Blocks]
    /\ edges \in SUBSET (Blocks \X Blocks)
    /\ join \in Blocks \cup {NoBlock}
    /\ runner \in Blocks \cup {NoBlock}
    /\ children \in [Blocks -> SUBSET Blocks]
    /\ pc = "meet" => pos > 0 /\ f2 # NoBlock
    /\ pc = "run" => join # NoBlock

(* run enters the four maps' rows, clears the order and makes the first     *)
(* call of post_order_visit.                                                *)
Init ==
    /\ succ \in Graphs
    /\ pc = "dfs"
    /\ stack = <<Root>>
    /\ visited = {Root}
    /\ order = <<>>
    /\ id = [b \in Blocks |-> 0]
    /\ idom = [b \in Blocks |-> NoBlock]
    /\ changed = FALSE
    /\ pos = 0
    /\ todo = {}
    /\ f1 = NoBlock /\ f2 = NoBlock
    /\ frontier = [b \in Blocks |-> {}]
    /\ edges = {}
    /\ join = NoBlock /\ runner = NoBlock
    /\ children = [b \in Blocks |-> {}]

-----------------------------------------------------------------------------
(* create_reverse_post_order                                                *)

(* post_order_visit finds a successor it has not visited and calls itself.  *)
Visit ==
    /\ pc = "dfs"
    /\ stack # <<>>
    /\ \E b \in succ[Top] \ visited :
        /\ visited' = visited \cup {b}
        /\ stack' = Append(stack, b)
    /\ UNCHANGED <<succ, pc, order, id, children>>
    /\ UNCHANGED idomVars
    /\ UNCHANGED frontVars

(* The number post_order_visit gives: how many blocks have one already.     *)
NextIdReversed == Cardinality(Blocks) - Len(order)
NextId == Len(order)

(* No successor is left: the block is numbered and appended, the call       *)
(* returns.                                                                 *)
Number ==
    /\ pc = "dfs"
    /\ stack # <<>>
    /\ succ[Top] \subseteq visited
    /\ id' = [id EXCEPT ![Top] = NextId]
    /\ order' = Append(order, Top)
    /\ stack' = SubSeq(stack, 1, Len(stack) - 1)
    /\ UNCHANGED <<succ, pc, visited, children>>
    /\ UNCHANGED idomVars
    /\ UNCHANGED frontVars

-----------------------------------------------------------------------------
(* create_idom                                                              *)

ProcessedBug(b) == Preds(succ, b)
Processed(b) == {p \in Preds(succ, b) : idom[p] # NoBlock}

(* The predecessors intersect is called for, after the first choice p.      *)
OthersBug(p) == {}
Others(p) == Processed(Swept) \ {p}

(* The sweep's position once the swept block is done.                       *)
FollowingBug == IF pos = 2 THEN 0 ELSE pos - 1
Following == pos - 1

(* The flag after set_idom(bb, d) or the test that spares it.               *)
ChangedBug(d) == changed
Changed(d) == IF idom[Swept] = d THEN changed ELSE TRUE

(* The outermost call has returned: only the entry has an immediate         *)
(* dominator, itself, and the first sweep starts.                           *)
StartIdom ==
    /\ pc = "dfs"
    /\ stack = <<>>
    /\ pc' = "sweep"
    /\ idom' = [b \in Blocks |-> IF b = Root THEN Root ELSE NoBlock]
    /\ changed' = FALSE
    /\ pos' = Len(order)
    /\ UNCHANGED <<succ, todo, f1, f2, children>>
    /\ UNCHANGED dfsVars
    /\ UNCHANGED frontVars

(* `if (bb == root) continue`                                               *)
SkipRoot ==
    /\ pc = "sweep"
    /\ pos > 0
    /\ Swept = Root
    /\ pos' = Following
    /\ UNCHANGED <<succ, pc, idom, changed, todo, f1, f2, children>>
    /\ UNCHANGED dfsVars
    /\ UNCHANGED frontVars

(* The first predecessor that has an immediate dominator becomes the        *)
(* candidate new_idom.  With none, assert(pred) aborts: the model stops.    *)
PickPred ==
    /\ pc = "sweep"
    /\ pos > 0
    /\ Swept # Root
    /\ \E p \in Processed(Swept) :
        /\ f2' = p
        /\ todo' = Others(p)
    /\ f1' = NoBlock
    /\ pc' = "meet"
    /\ UNCHANGED <<succ, idom, changed, pos, children>>
    /\ UNCHANGED dfsVars
    /\ UNCHANGED frontVars

(* intersect(p, new_idom) is called for the next processed predecessor.     *)
Intersect ==
    /\ pc = "meet"
    /\ f1 = NoBlock
    /\ \E p \in todo :
        /\ f1' = p
        /\ todo' = todo \ {p}
    /\ UNCHANGED <<succ, pc, idom, changed, pos, f2, children>>
    /\ UNCHANGED dfsVars
    /\ UNCHANGED frontVars

(* The finger with the smaller number climbs.                               *)
ClimbFirst ==
    /\ pc = "meet"
    /\ f1 # NoBlock
    /\ id[f1] < id[f2]
    /\ idom[f1] # NoBlock
    /\ f1' = idom[f1]
    /\ UNCHANGED <<succ, pc, idom, changed, pos, todo, f2, children>>
    /\ UNCHANGED dfsVars
    /\ UNCHANGED frontVars

ClimbSecond ==
    /\ pc = "meet"
    /\ f1 # NoBlock
    /\ id[f2] < id[f1]
    /\ idom[f2] # NoBlock
    /\ f2' = idom[f2]
    /\ UNCHANGED <<succ, pc, idom, changed, pos, todo, f1, children>>
    /\ UNCHANGED dfsVars
    /\ UNCHANGED frontVars

(* The fingers meet: intersect returns, f2 is the new candidate.            *)
Met ==
    /\ pc = "meet"
    /\ f1 # NoBlock
    /\ f1 = f2
    /\ f1' = NoBlock
    /\ UNCHANGED <<succ, pc, idom, changed, pos, todo, f2, children>>
    /\ UNCHANGED dfsVars
    /\ UNCHANGED frontVars

(* Every processed predecessor has been met: set_idom if it differs.        *)
SetIdom ==
    /\ pc = "meet"
    /\ f1 = NoBlock
    /\ todo = {}
    /\ idom' = [idom EXCEPT ![Swept] = f2]
    /\ changed' = Changed(f2)
    /\ pos' = Following
    /\ pc' = "sweep"
    /\ f2' = NoBlock
    /\ UNCHANGED <<succ, todo, f1, children>>
    /\ UNCHANGED dfsVars
    /\ UNCHANGED frontVars

(* `while (changed)`: another sweep over the same order.                    *)
SweepAgain ==
    /\ pc = "sweep"
    /\ pos = 0
    /\ changed
    /\ changed' = FALSE
    /\ pos' = Len(order)
    /\ UNCHANGED <<succ, pc, idom, todo, f1, f2, children>>
    /\ UNCHANGED dfsVars
    /\ UNCHANGED frontVars

(* A sweep without a change ends create_idom.  create_dominance_frontier    *)
(* looks at the blocks with two or more predecessors only.                  *)
EndIdom ==
    /\ pc = "sweep"
    /\ pos = 0
    /\ ~ changed
    /\ pc' = "frontier"
    /\ edges' = {e \in Blocks \X Blocks :
                    /\ e[2] \in Preds(succ, e[1])
                    /\ Cardinality(Preds(succ, e[1])) >= 2}
    /\ UNCHANGED <<succ, frontier, join, runner, children>>
    /\ UNCHANGED dfsVars
    /\ UNCHANGED idomVars

-----------------------------------------------------------------------------
(* create_dominance_frontier, create_dom_tree_succ                          *)

(* The runner starts at the predecessor p itself.                           *)
FirstRunnerBug(p) == idom[p]
FirstRunner(p) == p

StartRunner ==
    /\ pc = "frontier"
    /\ \E e \in edges :
        /\ edges' = edges \ {e}
        /\ join' = e[1]
        /\ runner' = FirstRunner(e[2])
    /\ pc' = "run"
    /\ UNCHANGED <<succ, frontier, children>>
    /\ UNCHANGED dfsVars
    /\ UNCHANGED idomVars

(* `while (runner != get_idom(bb))`: add_dominance_frontier, one step up.   *)
Run ==
    /\ pc = "run"
    /\ runner # NoBlock
    /\ runner # idom[join]
    /\ frontier' = [frontier EXCEPT ![runner] = @ \cup {join}]
    /\ runner' = idom[runner]
    /\ UNCHANGED <<succ, pc, edges, join, children>>
    /\ UNCHANGED dfsVars
    /\ UNCHANGED idomVars

StopRunner ==
    /\ pc = "run"
    /\ runner = idom[join]
    /\ pc' = "frontier"
    /\ join' = NoBlock
    /\ runner' = NoBlock
    /\ UNCHANGED <<succ, frontier, edges, children>>
    /\ UNCHANGED dfsVars
    /\ UNCHANGED idomVars

EndFrontier ==
    /\ pc = "frontier"
    /\ edges = {}
    /\ pc' = "tree"
    /\ UNCHANGED <<succ, children>>
    /\ UNCHANGED dfsVars
    /\ UNCHANGED idomVars
    /\ UNCHANGED frontVars

(* The blocks filed under n.                                                *)
ChildrenOfBug(n) == {b \in Blocks : idom[b] = n}
ChildrenOf(n) == {b \in Blocks : idom[b] # b /\ idom[b] = n}

(* One pass over the blocks; each but the entry is filed under its          *)
(* immediate dominator.                                                     *)
BuildTree ==
    /\ pc = "tree"
    /\ children' = [n \in Blocks |-> ChildrenOf(n)]
    /\ pc' = "done"
    /\ UNCHANGED succ
    /\ UNCHANGED dfsVars
    /\ UNCHANGED idomVars
    /\ UNCHANGED frontVars

Next ==
    \/ Visit \/ Number
    \/ StartIdom \/ SkipRoot \/ PickPred
    \/ Intersect \/ ClimbFirst \/ ClimbSecond \/ Met \/ SetIdom
    \/ SweepAgain \/ EndIdom
    \/ StartRunner \/ Run \/ StopRunner \/ EndFrontier \/ BuildTree

Spec == Init /\ [][Next]_vars

-----------------------------------------------------------------------------
(* Properties                                                               *)

(* assert(pred) in create_idom and assert(get_idom(b)) in intersect never   *)
(* fail: the reverse post order always offers a processed predecessor, and  *)
(* a climbing finger never stands on a block without immediate dominator.   *)
AssertsHold ==
    /\ (pc = "sweep" /\ pos > 0 /\ Swept # Root) => Processed(Swept) # {}
    /\ (pc = "meet" /\ f1 # NoBlock /\ id[f1] < id[f2]) => idom[f1] # NoBlock
    /\ (pc = "meet" /\ f1 # NoBlock /\ id[f2] < id[f1]) => idom[f2] # NoBlock

(* The runner of create_dominance_frontier never climbs past the entry (its *)
(* loop has no test for null).                                              *)
RunnerNeverNull == pc = "run" => runner # NoBlock

(* In every sweep an immediate dominator found so far was numbered after    *)
(* the block: the chains climbed by intersect end at the entry.             *)
IdomClimbs ==
    \A b \in Blocks \ {Root} : idom[b] # NoBlock => id[b] < id[idom[b]]

(* When the analysis ends its tables are the ones the graph defines.        *)
ResultsCorrect ==
    pc = "done" =>
        \A b \in Blocks :
            /\ idom[b] = ImmediateDominator(succ, b)
            /\ frontier[b] = DominanceFrontier(succ, b)
            /\ children[b] = DominatorChildren(succ, b)

(* A later sweep only moves an immediate dominator towards the entry: the   *)
(* argument for the termination of `while (changed)`.                       *)
IdomOnlyRises ==
    [][\A b \in Blocks :
        (pc = "meet" /\ idom[b] # NoBlock) => id[idom'[b]] >= id[idom[b]]]_vars
=============================================================================
