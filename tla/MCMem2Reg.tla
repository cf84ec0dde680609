----------------------------- MODULE MCMem2Reg -----------------------------
(****************************************************************************)
(* Programs for the model checker: five control-flow graphs, and in most    *)
(* blocks one of a few instruction sequences over two variables.            *)
(****************************************************************************)
EXTENDS Mem2RegRun, TLC

Load(x, b)  == [op |-> "load", var |-> x, val |-> <<"load", b, x>>]
Put(x, b)   == [op |-> "store", var |-> x, val |-> <<"new", b, x>>]
Copy(x, y, b) == [op |-> "store", var |-> x, val |-> <<"load", b, y>>]

MCNames == {"load", "new"} \X Blocks \X Vars
Home == [n \in MCNames |-> n[2]]

(* Nothing; a use; an assignment, in block 2 of a value of the entry block; *)
(* a copy x = y; the exchange of x and y.                                   *)
Snippets(b) ==
    { <<>>,
      <<Load("x", b)>>,
      IF b = 2 THEN <<[op |-> "store", var |-> "x", val |-> <<"new", 0, "y">>]>>
               ELSE <<Put("x", b)>>,
      <<Load("y", b), Copy("x", "y", b)>>,
      <<Load("x", b), Load("y", b), Copy("x", "y", b), Copy("y", "x", b)>> }

Both(b) == <<Put("x", b), Put("y", b)>>

(* Blocks 0..3: if-else; while; nested ifs; while with an if in its body,   *)
(* where 3 is reached from both.  Three empty blocks follow.                *)
Tail3    == (4 :> {5}) @@ (5 :> {6}) @@ (6 :> {})
IfElse   == (0 :> {1, 2}) @@ (1 :> {3}) @@ (2 :> {3}) @@ (3 :> {4}) @@ Tail3
WhileDo  == (0 :> {1}) @@ (1 :> {2, 3}) @@ (2 :> {1}) @@ (3 :> {4}) @@ Tail3
IfIf     == (0 :> {1, 3}) @@ (1 :> {2, 3}) @@ (2 :> {3}) @@ (3 :> {4}) @@ Tail3
LoopIf   == (0 :> {1}) @@ (1 :> {2, 3}) @@ (2 :> {3}) @@ (3 :> {1, 4}) @@ Tail3
MCGraphs == {IfElse, WhileDo, IfIf, LoopIf}

(* Blocks 0..6: two nested loops, the inner one with an if.                 *)
NestedLoops == (0 :> {1}) @@ (1 :> {2, 6}) @@ (2 :> {3, 5}) @@ (3 :> {4, 2})
                @@ (4 :> {2}) @@ (5 :> {1}) @@ (6 :> {})

(* Both variables are written in the entry block, or nothing is before the  *)
(* branches.                                                                *)
SmallPrograms(entry) ==
    {[succ |-> g, home |-> Home, code |-> (0 :> entry) @@ (1 :> s1) @@ (2 :> s2) @@ (3 :> s3)
                            @@ (4 :> <<>>) @@ (5 :> <<>>) @@ (6 :> <<>>)] :
        g \in MCGraphs, s1 \in Snippets(1), s2 \in Snippets(2), s3 \in Snippets(3)}
NestedPrograms ==
    {[succ |-> NestedLoops, home |-> Home,
      code |-> (0 :> Both(0)) @@ (1 :> <<Load("x", 1)>>) @@ (2 :> s2) @@ (3 :> <<>>)
                @@ (4 :> s4) @@ (5 :> s5) @@ (6 :> <<Load("x", 6)>>)] :
        s2 \in Snippets(2), s4 \in Snippets(4), s5 \in Snippets(5)}

UnassignedPrograms == SmallPrograms(<<>>)
AllPrograms == SmallPrograms(Both(0)) \cup UnassignedPrograms \cup NestedPrograms
=============================================================================
