----------------------------- MODULE LoopSearch -----------------------------
(****************************************************************************)
(* The pass LoopSearch (src/optimization/LoopSearch.cpp) on one function.   *)
(* The strongly connected components of the graph are found by Tarjan's     *)
(* algorithm and kept as loops, a base block of each is taken out of the    *)
(* graph, and the search starts again on what is left, for the loops        *)
(* inside.                                                                  *)
(*                                                                          *)
(* The code walks unordered sets of pointers; the model takes their         *)
(* elements in any order.  A loop's BBset_t is the set of its blocks.       *)
(*                                                                          *)
(* A definition ...Bug is the next one with a mistake the properties have   *)
(* to detect; nothing refers to it.                                         *)
(****************************************************************************)
EXTENDS Cfg, Integers, Sequences

CONSTANT Graphs      \* the control-flow graphs to search

ASSUME GraphsAssumption == \A g \in Graphs : IsFunctionCfg(g)

VARIABLES
    graph,          \* succ_bbs_ of the function's blocks
    succs, prevs,   \* CFGNode::succs and prevs
    index, lowlink, \* CFGNode::index and lowlink
    stack,          \* Tarjan's stack; a node is onStack while it is on it
    calls,          \* calls of traverse in progress: node, successors left
    nodes,          \* nodes not yet taken out
    sccs,           \* components found and not yet treated
    reserved,       \* bases taken out
    base2loop,      \* base -> loop
    bb2base,        \* block -> base of a loop it is in
    pc              \* "search", "bases", "done", "crash"

tarjan == <<index, lowlink, stack, calls>>
vars == <<graph, succs, prevs, tarjan, nodes, sccs, reserved, base2loop, bb2base, pc>>

TypeOK ==
    /\ graph \in [Blocks -> SUBSET Blocks]
    /\ succs \in [Blocks -> SUBSET Blocks]
    /\ prevs \in [Blocks -> SUBSET Blocks]
    /\ index \in [Blocks -> -1 .. Cardinality(Blocks) - 1]
    /\ lowlink \in [Blocks -> -1 .. Cardinality(Blocks) - 1]
    /\ stack \in Seq(Blocks)
    /\ calls \in Seq([node : Blocks, todo : SUBSET Blocks])
    /\ nodes \in SUBSET Blocks
    /\ sccs \in SUBSET SUBSET Blocks
    /\ reserved \in SUBSET Blocks
    /\ \A b \in DOMAIN base2loop : b \in Blocks /\ base2loop[b] \in SUBSET Blocks
    /\ \A b \in DOMAIN bb2base : b \in Blocks /\ bb2base[b] \in DOMAIN base2loop
    /\ pc \in {"search", "bases", "done", "crash"}

(* build_cfg                                                                *)
Init ==
    /\ graph \in Graphs
    /\ succs = graph
    /\ prevs = [b \in Blocks |-> Preds(graph, b)]
    /\ index = [b \in Blocks |-> -1]
    /\ lowlink = [b \in Blocks |-> -1]
    /\ stack = <<>> /\ calls = <<>>
    /\ nodes = Blocks
    /\ sccs = {}
    /\ reserved = {}
    /\ base2loop = << >>
    /\ bb2base = << >>
    /\ pc = "search"

-----------------------------------------------------------------------------
(* strongly_connected_components and traverse                               *)

Smaller(a, b) == IF a < b THEN a ELSE b
OnStack(n) == \E i \in 1 .. Len(stack) : stack[i] = n
Current == calls[Len(calls)].node
Todo == calls[Len(calls)].todo

(* index_count: one for each node numbered in this search.                  *)
IndexCount == Cardinality({n \in nodes : index[n] # -1})

Called(n, rest) ==
    /\ index' = [index EXCEPT ![n] = IndexCount]
    /\ lowlink' = [lowlink EXCEPT ![n] = IndexCount]
    /\ stack' = Append(stack, n)
    /\ calls' = Append(rest, [node |-> n, todo |-> succs[n]])

Looked(su) == [calls EXCEPT ![Len(calls)].todo = @ \ {su}]

(* The next node of the graph that no call has visited.                     *)
Start ==
    /\ pc = "search"
    /\ calls = <<>>
    /\ \E n \in nodes : index[n] = -1 /\ Called(n, <<>>)
    /\ UNCHANGED <<graph, succs, prevs, nodes, sccs, reserved, base2loop, bb2base, pc>>

(* A successor that has not been visited is, first.                         *)
Traverse ==
    /\ calls # <<>>
    /\ \E su \in Todo : index[su] = -1 /\ Called(su, Looked(su))
    /\ UNCHANGED <<graph, succs, prevs, nodes, sccs, reserved, base2loop, bb2base, pc>>

(* A successor that has been visited counts while it is on the stack.       *)
SeenBug(su) == Smaller(index[su], lowlink[Current])
Seen(su) == IF OnStack(su) THEN Smaller(index[su], lowlink[Current]) ELSE lowlink[Current]

Look ==
    /\ calls # <<>>
    /\ \E su \in Todo :
        /\ index[su] # -1
        /\ lowlink' = [lowlink EXCEPT ![Current] = Seen(su)]
        /\ calls' = Looked(su)
    /\ UNCHANGED <<graph, succs, prevs, index, stack, nodes, sccs, reserved, base2loop, bb2base, pc>>

(* What is on the stack above n, with n.                                    *)
Depth(n) == CHOOSE i \in 1 .. Len(stack) : stack[i] = n
Component(n) == {stack[i] : i \in Depth(n) .. Len(stack)}

(* Components of one node are dropped.                                      *)
KeptBug(c) == {c}
Kept(c) == IF Cardinality(c) = 1 THEN {} ELSE {c}

(* A call ends: the root of a component takes it from the stack; the caller *)
(* learns the lowlink.                                                      *)
Return ==
    /\ calls # <<>>
    /\ Todo = {}
    /\ LET n == Current
           rest == SubSeq(calls, 1, Len(calls) - 1)
           caller == rest[Len(rest)].node
       IN  /\ calls' = rest
           /\ IF index[n] = lowlink[n]
              THEN /\ sccs' = sccs \cup Kept(Component(n))
                   /\ stack' = SubSeq(stack, 1, Depth(n) - 1)
              ELSE UNCHANGED <<sccs, stack>>
           /\ lowlink' = IF rest = <<>> THEN lowlink
                         ELSE [lowlink EXCEPT ![caller] = Smaller(lowlink[n], @)]
    /\ UNCHANGED <<graph, succs, prevs, index, nodes, reserved, base2loop, bb2base, pc>>

EndSearch ==
    /\ pc = "search"
    /\ calls = <<>>
    /\ \A n \in nodes : index[n] # -1
    /\ pc' = IF sccs = {} THEN "done" ELSE "bases"
    /\ UNCHANGED <<graph, succs, prevs, tarjan, nodes, sccs, reserved, base2loop, bb2base>>

-----------------------------------------------------------------------------
(* find_loop_base and the rest of run                                       *)

(* A block of the loop entered from outside; if the graph has none left,    *)
(* one that a base taken out before leads to.                               *)
Entered(c) == {n \in c : prevs[n] \ c # {}}
LedTo(c) == {n \in c : \E r \in reserved : n \in succs[r]}
BasesAnyBlock(c) == IF Entered(c) # {} THEN Entered(c) ELSE c
Bases(c) == IF Entered(c) # {} THEN Entered(c) ELSE LedTo(c)

With(f, keys, v) == [k \in DOMAIN f \cup keys |-> IF k \in keys THEN v ELSE f[k]]

(* Every block of the loop gets its base, whatever it had before.           *)
RebasedBug(c, base) == With(bb2base, c \ DOMAIN bb2base, base)
Rebased(c, base) == With(bb2base, c, base)

(* The base's neighbours lose their edges to it; it keeps its own.          *)
CutSuccs(base) == [b \in Blocks |-> IF b \in prevs[base] \ {base} THEN succs[b] \ {base} ELSE succs[b]]
CutPrevs(base) == [b \in Blocks |-> IF b \in succs[base] THEN prevs[b] \ {base} ELSE prevs[b]]

(* A loop c is recorded for its base, and the base taken out of the graph.  *)
Recorded(c, base) ==
    /\ base2loop' = With(base2loop, {base} \ DOMAIN base2loop, c)
    /\ bb2base' = Rebased(c, base)

RemoveBug(base) == UNCHANGED <<reserved, nodes, prevs, succs>>
Remove(base) ==
    /\ reserved' = reserved \cup {base}
    /\ nodes' = nodes \ {base}
    /\ prevs' = CutPrevs(base)
    /\ succs' = CutSuccs(base)

(* Without a base the code goes through a null pointer.                     *)
TakeOut ==
    /\ pc = "bases"
    /\ \E c \in sccs :
        IF Bases(c) = {}
        THEN pc' = "crash" /\ UNCHANGED <<succs, prevs, nodes, sccs, reserved, base2loop, bb2base>>
        ELSE /\ \E base \in Bases(c) : Recorded(c, base) /\ Remove(base)
             /\ sccs' = sccs \ {c}
             /\ UNCHANGED pc
    /\ UNCHANGED <<graph, tarjan>>

SearchAgain ==
    /\ pc = "bases"
    /\ sccs = {}
    /\ index' = [n \in Blocks |-> IF n \in nodes THEN -1 ELSE index[n]]
    /\ lowlink' = [n \in Blocks |-> IF n \in nodes THEN -1 ELSE lowlink[n]]
    /\ stack' = <<>>
    /\ pc' = "search"
    /\ UNCHANGED <<graph, succs, prevs, calls, nodes, sccs, reserved, base2loop, bb2base>>

Next == Start \/ Traverse \/ Look \/ Return \/ EndSearch \/ TakeOut \/ SearchAgain

Spec == Init /\ [][Next]_vars

(* The pass runs alone in its thread.                                       *)
FairSpec == Spec /\ WF_vars(Next)

-----------------------------------------------------------------------------
(* The interface of the pass                                                *)

Loops == {base2loop[b] : b \in DOMAIN base2loop}
None == {}

get_loop_base(l) == CHOOSE b \in DOMAIN base2loop : base2loop[b] = l

InnerLoopBug(b) == IF b \in DOMAIN base2loop THEN base2loop[b] ELSE None
get_inner_loop(b) == IF b \in DOMAIN bb2base THEN base2loop[bb2base[b]] ELSE None

(* The first predecessor of the base outside the loop decides; l is among   *)
(* the answers for some order of the predecessors.                          *)
Parents(l) ==
    LET base == get_loop_base(l)
        outside == Preds(graph, base) \ l
        answer(p) == IF base \in get_inner_loop(p) THEN get_inner_loop(p) ELSE None
    IN  IF outside = {} THEN {None} ELSE {answer(p) : p \in outside}

-----------------------------------------------------------------------------
(* Properties                                                               *)

(* A base is found for every component: the pass never goes through the     *)
(* null pointer, whatever was taken out before.                             *)
BaseFound == pc # "crash"

(* The tables stay tables of blocks and loops (TypeOK), and two loops have  *)
(* no block in common, or one is inside the other.                          *)
LoopsNest ==
    /\ TypeOK
    /\ \A l, m \in Loops : l \cap m = {} \/ l \subseteq m \/ m \subseteq l

(* A back edge, and the loop of the back edges to h: the least set that     *)
(* holds h, where they come from, and the predecessors of its blocks but h. *)
BackEdge(t, h) == h \in graph[t] /\ Dominates(graph, h, t)
Headers == {h \in Blocks : \E t \in Blocks \ {h} : BackEdge(t, h)}
NaturalLoop(h) ==
    LET ends == {h} \cup {t \in Blocks : BackEdge(t, h)}
        closed == {S \in SUBSET Blocks :
                     ends \subseteq S /\ \A x \in S \ {h} : Preds(graph, x) \subseteq S}
    IN  {b \in Blocks : \A S \in closed : b \in S}

(* Every cycle has a back edge, as in all code made of ifs and whiles.      *)
Reducible ==
    \A S \in (SUBSET Blocks) \ {{}} :
        \E x \in S : \A y \in graph[x] \cap S : Dominates(graph, y, x)

(* On such graphs the loops are the natural loops, each with its header as  *)
(* base.                                                                    *)
LoopsAreNatural ==
    pc = "done" /\ Reducible => base2loop = [h \in Headers |-> NaturalLoop(h)]

(* get_inner_loop gives the innermost loop of every block.                  *)
Enclosing(b) == {l \in Loops : b \in l}
InnermostFound ==
    pc = "done" => \A b \in Blocks :
        IF Enclosing(b) = {} THEN get_inner_loop(b) = None
        ELSE /\ get_inner_loop(b) \in Enclosing(b)
             /\ \A l \in Enclosing(b) : get_inner_loop(b) \subseteq l

(* get_parent_loop gives the next loop outside, whichever predecessor comes *)
(* first, if what enters a loop leads nowhere else: the builder ends the    *)
(* block before a loop with a br to the block of the loop's condition.      *)
EnteredByBr ==
    \A h \in DOMAIN base2loop : \A p \in Preds(graph, h) \ base2loop[h] : graph[p] = {h}
ParentsEnclose ==
    pc = "done" /\ EnteredByBr /\ Reducible => \A l \in Loops :
        LET around == {m \in Loops : l \subseteq m /\ l # m}
        IN  IF around = {} THEN Parents(l) = {None}
            ELSE \E m \in around : Parents(l) = {m} /\ \A k \in around : m \subseteq k

(* The searches end: each round takes a base out.                           *)
Terminates == <>(pc = "done")
=============================================================================
