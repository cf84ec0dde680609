---------------------------- MODULE MCOptimizer ----------------------------
(****************************************************************************)
(* Graphs of seven blocks: two nested loops with a conditional inside, a    *)
(* loop around a conditional, and the ladder of mutually reachable blocks   *)
(* that needs several sweeps; on each a program that exchanges x and y in a *)
(* loop, one that assigns x in two places, one that only reads.             *)
(****************************************************************************)
EXTENDS Optimizer, TLC

NestedLoops == (0 :> {1}) @@ (1 :> {2, 6}) @@ (2 :> {3, 5}) @@ (3 :> {4, 2})
                @@ (4 :> {2}) @@ (5 :> {1}) @@ (6 :> {})
IfInLoop    == (0 :> {1}) @@ (1 :> {2, 6}) @@ (2 :> {3, 4}) @@ (3 :> {5})
                @@ (4 :> {5}) @@ (5 :> {1}) @@ (6 :> {})
Ladder      == (0 :> {1, 2}) @@ (1 :> {5}) @@ (2 :> {3, 4}) @@ (3 :> {4, 6})
                @@ (4 :> {3, 5}) @@ (5 :> {4}) @@ (6 :> {})

MCNames == {"load", "new"} \X Blocks \X Vars
Load(x, b)  == [op |-> "load", var |-> x, val |-> <<"load", b, x>>]
Put(x, b)   == [op |-> "store", var |-> x, val |-> <<"new", b, x>>]
Copy(x, y, b) == [op |-> "store", var |-> x, val |-> <<"load", b, y>>]

Exchange(b) == <<Load("x", b), Load("y", b), Copy("x", "y", b), Copy("y", "x", b)>>
Entry == (0 :> <<Put("x", 0), Put("y", 0)>>)
Empty == [b \in Blocks |-> <<>>]

MCPrograms == {[succ |-> g, home |-> [n \in MCNames |-> n[2]], code |-> c @@ Entry @@ Empty] :
                  g \in {NestedLoops, IfInLoop, Ladder},
                  c \in {4 :> Exchange(4),
                         (3 :> <<Put("x", 3)>>) @@ (4 :> <<Put("x", 4)>>) @@ (5 :> <<Load("x", 5)>>),
                         6 :> <<Load("x", 6), Load("y", 6)>>}}
=============================================================================
