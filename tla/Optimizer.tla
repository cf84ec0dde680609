----------------------------- MODULE Optimizer -----------------------------
(****************************************************************************)
(* Mem2Reg::run as it is: it makes a Dominators object, runs it, and reads  *)
(* the object's dominance frontiers and dominator tree while it places phis *)
(* and renames.  The tables df and kids of Mem2Reg are Dominators'          *)
(* dom_frontier_ and dom_tree_succ_blocks_.                                 *)
(*                                                                          *)
(* The abstract specification is Mem2Reg, whose tables are defined from the *)
(* graph: the two passes together are shown to implement it.                *)
(****************************************************************************)
EXTENDS Mem2Reg

CONSTANT NoBlock     \* the null BasicBlock*

ASSUME NoBlockIsNone == NoBlock \notin Blocks

VARIABLES dpc, stack, visited, order, id, idom, changed, pos, todo, f1, f2,
          edges, join, runner

D == INSTANCE Dominators WITH succ <- prog.succ, pc <- dpc, frontier <- df,
                              children <- kids, Graphs <- {p.succ : p \in Programs}

analysisVars == <<dpc, stack, visited, order, id, idom, changed, pos, todo, f1, f2,
                  edges, join, runner>>
optVars == <<vars, analysisVars>>

OptInit == PassInit /\ D!Init

(* dominators_->run()                                                       *)
Analyse == UNCHANGED passVars /\ D!Next

(* generate_phi, re_name, remove_alloca                                     *)
Optimize == dpc = "done" /\ Pass /\ UNCHANGED analysisVars

OptNext == Analyse \/ Optimize

(* One thread that never blocks.                                            *)
OptSpec == OptInit /\ [][OptNext]_optVars /\ WF_optVars(OptNext)

-----------------------------------------------------------------------------
(* Properties                                                               *)

Tables == [g \in {p.succ : p \in Programs} |->
              [df   |-> [b \in Blocks |-> DominanceFrontier(g, b)],
               kids |-> [b \in Blocks |-> DominatorChildren(g, b)]]]

(* Until the analysis is done its tables stand for what it will find.       *)
M == INSTANCE Mem2Reg WITH
        df   <- IF dpc = "done" THEN df   ELSE Tables[prog.succ].df,
        kids <- IF dpc = "done" THEN kids ELSE Tables[prog.succ].kids

(* Whatever order the analysis walks the graph in, the pass that reads its  *)
(* tables makes only steps of the pass given the true dominance frontiers   *)
(* and dominator tree.                                                      *)
ImplementsMem2Reg == M!Spec

(* In the composition a later sweep of create_idom still only moves an      *)
(* immediate dominator towards the entry, on graphs that need several.      *)
SweepsOnlyRaise == D!IdomOnlyRises

(* Both passes end, one after the other.                                    *)
BothEnd == <>(dpc = "done" /\ pc \in {"done", "abort"})
=============================================================================
