-------------------------- MODULE LoopSearchProofs --------------------------
(****************************************************************************)
(* Proofs about LoopSearch for every set of graphs of the builder's form:   *)
(* Tarjan's search takes strongly connected components, every component has *)
(* a base, loops nest, and the tables give the innermost loop of a block;   *)
(* in reducible graphs the loops are the natural loops, and the parent of a *)
(* loop is the next loop around it.                                         *)
(*                                                                          *)
(* Paths are not spoken of.  What x reaches is any set that holds x and is  *)
(* closed under the edges; a component is connected when none of its proper *)
(* parts is closed in it, and convex when it is the difference of two sets  *)
(* closed in the graph.                                                     *)
(****************************************************************************)
EXTENDS LoopSearch, CfgProofs, SequenceTheorems

(* The blocks on Tarjan's stack, and the node of a call in progress.        *)
Stacked == {stack[i] : i \in 1 .. Len(stack)}
Node(k) == calls[k].node
Active == {Node(k) : k \in 1 .. Len(calls)}
Visited(n) == index[n] # -1

(* The blocks whose calls have returned and that are off the stack.         *)
Finished == {n \in nodes : Visited(n) /\ n \notin Stacked}

(* The successors that the call of x has looked at.                         *)
SeenBy(q, g, x) == {s \in g[x] : \A k \in 1 .. Len(q) : q[k].node = x => s \notin q[k].todo}
Seens(x) == SeenBy(calls, succs, x)

(* What is left of the graph: the edges between the nodes left, and the     *)
(* edges of the bases to them.                                              *)
GraphInv ==
    /\ graph \in Graphs
    /\ nodes \subseteq Blocks /\ reserved = Blocks \ nodes
    /\ succs \in [Blocks -> SUBSET Blocks] /\ prevs \in [Blocks -> SUBSET Blocks]
    /\ \A n \in nodes : succs[n] = graph[n] \cap nodes
    /\ \A n \in nodes : prevs[n] = Preds(graph, n) \cap nodes
    /\ \A b \in Blocks : graph[b] \cap nodes \subseteq succs[b] /\ succs[b] \subseteq graph[b]

(* The stack is sorted by index, the calls follow each other on it, each    *)
(* from a successor of the one before, the first at its bottom.             *)
StackInv ==
    /\ stack \in Seq(Blocks)
    /\ Stacked \subseteq nodes
    /\ index \in [Blocks -> -1 .. Cardinality(Blocks) - 1]
    /\ lowlink \in [Blocks -> -1 .. Cardinality(Blocks) - 1]
    /\ \A i, j \in 1 .. Len(stack) : i < j => index[stack[i]] < index[stack[j]]
    /\ \A n \in Stacked : index[n] \in Nat
    /\ pc = "search" => \A n \in nodes : index[n] < IndexCount

CallsInv ==
    /\ calls \in Seq([node : Blocks, todo : SUBSET Blocks])
    /\ Active \subseteq Stacked
    /\ \A j, k \in 1 .. Len(calls) : j < k => index[Node(j)] < index[Node(k)]
    /\ \A k \in 1 .. Len(calls) : calls[k].todo \subseteq succs[Node(k)]
    /\ \A k \in 1 .. Len(calls) : lowlink[Node(k)] \in Nat /\ lowlink[Node(k)] <= index[Node(k)]
    /\ \A k \in 2 .. Len(calls) : Node(k) \in succs[Node(k - 1)]
    /\ calls = <<>> => stack = <<>>
    /\ calls # <<>> => pc = "search" /\ \A x \in Stacked : index[Node(1)] <= index[x]

(* What was looked at was visited; a component taken from the stack leads   *)
(* nowhere but to components taken before.                                  *)
VisitedInv ==
    /\ \A x \in Stacked : \A s \in Seens(x) : Visited(s)
    /\ pc = "search" =>
          \A n \in nodes \ Stacked : Visited(n) =>
              \A s \in succs[n] : Visited(s) /\ s \notin Stacked

(* An edge to the stack from a block above a call, and below the next, is   *)
(* counted in the call's lowlink.                                           *)
CountedInv ==
    \A k \in 1 .. Len(calls) : \A x \in Stacked :
        (index[Node(k)] <= index[x] /\ (k < Len(calls) => index[x] < index[Node(k + 1)]))
            => \A s \in Seens(x) \cap Stacked : lowlink[Node(k)] <= index[s]

(* A block above a call was reached from one between the two.               *)
TreeInv ==
    \A k \in 1 .. Len(calls) : \A x \in Stacked :
        index[Node(k)] < index[x] =>
            \E p \in Stacked : index[Node(k)] <= index[p] /\ index[p] < index[x] /\ x \in succs[p]

(* X holds x and what x leads to in S, with edges g, from x upwards.        *)
UpwardsIn(g, S, f, X, x) ==
    /\ X \subseteq S /\ x \in X
    /\ \A y \in X : \A s \in g[y] \cap S : f[s] >= f[x] => s \in X
Upwards(X, x) == UpwardsIn(succs, Stacked, index, X, x)

(* Such a set has an edge to the lowlink of x while x is called, and later  *)
(* an edge to below x.                                                      *)
LowInv ==
    /\ \A k \in 1 .. Len(calls) : lowlink[Node(k)] < index[Node(k)] =>
          \A X \in SUBSET Stacked : Upwards(X, Node(k)) =>
              \E y \in X : \E m \in succs[y] \cap Stacked : index[m] = lowlink[Node(k)]
    /\ \A x \in Stacked \ Active : \A X \in SUBSET Stacked : Upwards(X, x) =>
          \E y \in X : \E m \in succs[y] \cap Stacked : index[m] < index[x]

(* A component is connected when every proper part of it has an edge to the *)
(* rest, and convex when no path leaves it and returns.                     *)
ConnectedIn(g, c) == \A X \in SUBSET c : X # {} /\ X # c => \E x \in X : \E y \in c \ X : y \in g[x]
ClosedIn(g, D) == D \subseteq Blocks /\ \A x \in D : g[x] \subseteq D
ConvexIn(g, c) ==
    \E D, E \in SUBSET Blocks : ClosedIn(g, D) /\ ClosedIn(g, E) /\ D \subseteq E /\ c = E \ D
Connected(c) == ConnectedIn(succs, c)
Convex(c) == ConvexIn(succs, c)

SccInv ==
    \A c \in sccs : c \subseteq nodes /\ c # {} /\ Root \notin c /\ Connected(c) /\ Convex(c)

(* The tables of loops.                                                     *)
LoopInv ==
    /\ DOMAIN base2loop = reserved
    /\ \A b \in reserved : base2loop[b] \subseteq Blocks /\ Convex(base2loop[b])
    /\ DOMAIN bb2base = UNION Loops
    /\ \A b \in DOMAIN bb2base :
          /\ bb2base[b] \in reserved
          /\ b \in base2loop[bb2base[b]]
          /\ \A l \in Loops : b \in l => base2loop[bb2base[b]] \subseteq l
    /\ \A l, m \in Loops : l \cap m = {} \/ l \subseteq m \/ m \subseteq l

PcInv ==
    /\ pc \in {"search", "bases", "done"}
    /\ pc = "done" => sccs = {}

IInv == GraphInv /\ StackInv /\ CallsInv /\ VisitedInv /\ CountedInv /\ TreeInv /\ LowInv
        /\ SccInv /\ LoopInv /\ PcInv

-----------------------------------------------------------------------------
(* The calls are distinct blocks; the last one is the topmost.              *)
LEMMA CallsOrdered ==
    ASSUME StackInv, CallsInv
    PROVE  /\ Len(calls) \in Nat
           /\ \A j, k \in 1 .. Len(calls) : index[Node(j)] = index[Node(k)] => j = k
           /\ \A k \in 1 .. Len(calls) : /\ Node(k) \in Stacked /\ index[Node(k)] \in Nat
                                         /\ index[Node(k)] <= index[Node(Len(calls))]
                                         /\ calls[k].todo \subseteq Blocks
<1>1. Len(calls) \in Nat
    BY DEF CallsInv
<1>2. \A k \in 1 .. Len(calls) : Node(k) \in Stacked /\ index[Node(k)] \in Nat
    BY DEF CallsInv, StackInv, Active
<1>3. \A j, k \in 1 .. Len(calls) : j < k => index[Node(j)] < index[Node(k)]
    BY DEF CallsInv
<1>4. \A j, k \in 1 .. Len(calls) : index[Node(j)] = index[Node(k)] => j = k
  <2> SUFFICES ASSUME NEW j \in 1 .. Len(calls), NEW k \in 1 .. Len(calls),
                      index[Node(j)] = index[Node(k)], j # k
               PROVE  FALSE
    OBVIOUS
  <2>1. j < k \/ k < j
    BY <1>1
  <2> QED
    BY <1>2, <1>3, <2>1
<1>5. ASSUME NEW k \in 1 .. Len(calls) PROVE index[Node(k)] <= index[Node(Len(calls))]
  <2>1. k < Len(calls) \/ k = Len(calls)
    BY <1>1
  <2>2. Len(calls) \in 1 .. Len(calls)
    BY <1>1
  <2> QED
    BY <1>2, <1>3, <2>1, <2>2
<1>6. \A k \in 1 .. Len(calls) : calls[k].todo \subseteq Blocks
  <2>1. calls \in Seq([node : Blocks, todo : SUBSET Blocks])
    BY DEF CallsInv
  <2>2. \A k \in 1 .. Len(calls) : calls[k] \in [node : Blocks, todo : SUBSET Blocks]
    BY <2>1, ElementOfSeq
  <2> QED
    BY <2>2
<1> QED
    BY <1>1, <1>2, <1>4, <1>5, <1>6

(* The index distinguishes the blocks of the stack.                         *)
LEMMA StackOrdered ==
    ASSUME StackInv
    PROVE  /\ Len(stack) \in Nat
           /\ \A x \in Stacked : index[x] \in Nat /\ x \in Blocks /\ x \in nodes
           /\ \A x, y \in Stacked : index[x] = index[y] => x = y
<1>1. Len(stack) \in Nat /\ \A i \in 1 .. Len(stack) : stack[i] \in Blocks
    BY DEF StackInv
<1>2. \A x \in Stacked : index[x] \in Nat /\ x \in Blocks /\ x \in nodes
    BY <1>1 DEF StackInv, Stacked
<1>3. ASSUME NEW x \in Stacked, NEW y \in Stacked, index[x] = index[y] PROVE x = y
  <2>1. PICK i \in 1 .. Len(stack) : x = stack[i]
    BY DEF Stacked
  <2>2. PICK j \in 1 .. Len(stack) : y = stack[j]
    BY DEF Stacked
  <2>3. i < j \/ j < i \/ i = j
    BY <1>1
  <2> QED
    BY <1>2, <1>3, <2>1, <2>2, <2>3 DEF StackInv
<1> QED
    BY <1>1, <1>2, <1>3

(* What is above a block on the stack, and what is below.                   *)
LEMMA CuttingStack ==
    ASSUME StackInv, NEW n \in Stacked
    PROVE  LET d == Depth(n) q == SubSeq(stack, 1, d - 1) IN
           /\ Component(n) = {x \in Stacked : index[x] >= index[n]}
           /\ q \in Seq(Blocks) /\ Len(q) \in Nat
           /\ Len(q) <= Len(stack) /\ \A i \in 1 .. Len(q) : q[i] = stack[i]
           /\ {q[i] : i \in 1 .. Len(q)} = {x \in Stacked : index[x] < index[n]}
<1> DEFINE d == Depth(n)
           q == SubSeq(stack, 1, d - 1)
<1>1. stack \in Seq(Blocks) /\ Len(stack) \in Nat
    BY DEF StackInv
<1>2. d \in 1 .. Len(stack) /\ stack[d] = n
    BY DEF Depth, Stacked
<1>3. /\ q \in Seq(Blocks) /\ Len(q) = d - 1
      /\ \A i \in 1 .. d - 1 : q[i] = stack[i]
  <2> HIDE DEF d
  <2> QED
    BY <1>1, <1>2
<1>4. \A i \in 1 .. Len(stack) : index[stack[i]] \in Nat
    BY DEF StackInv, Stacked
<1>5. \A i, j \in 1 .. Len(stack) : i < j => index[stack[i]] < index[stack[j]]
    BY DEF StackInv
<1> HIDE DEF d, q
<1>6. \A i \in 1 .. Len(stack) : i >= d <=> index[stack[i]] >= index[n]
  <2> SUFFICES ASSUME NEW i \in 1 .. Len(stack) PROVE i >= d <=> index[stack[i]] >= index[n]
    OBVIOUS
  <2>1. i < d \/ i = d \/ d < i
    BY <1>2
  <2> QED
    BY <1>2, <1>4, <1>5, <2>1
<1>7. Component(n) = {x \in Stacked : index[x] >= index[n]}
    BY <1>1, <1>2, <1>6 DEF Component, Stacked, d
<1>8. {q[i] : i \in 1 .. Len(q)} = {x \in Stacked : index[x] < index[n]}
  <2>1. ASSUME NEW i \in 1 .. Len(q) PROVE q[i] \in Stacked /\ index[q[i]] < index[n]
    <3>1. i \in 1 .. Len(stack) /\ q[i] = stack[i] /\ i < d
      BY <1>2, <1>3
    <3> QED
      BY <1>2, <1>5, <3>1 DEF Stacked
  <2>2. ASSUME NEW i \in 1 .. Len(stack), index[stack[i]] < index[n]
        PROVE  stack[i] \in {q[j] : j \in 1 .. Len(q)}
    <3>1. i < d
      BY <1>2, <1>4, <1>6, <2>2
    <3>2. i \in 1 .. Len(q) /\ q[i] = stack[i]
      BY <1>2, <1>3, <3>1
    <3> QED
      BY <3>2
  <2> QED
    BY <2>1, <2>2 DEF Stacked
<1>9. Len(q) <= Len(stack) /\ \A i \in 1 .. Len(q) : q[i] = stack[i]
    BY <1>2, <1>3
<1> QED
    BY <1>1, <1>2, <1>3, <1>7, <1>8, <1>9 DEF q, d

-----------------------------------------------------------------------------
(* A block is numbered and pushed, and its call begins: rest are the calls  *)
(* before it, the last of which no longer has the block to look at.         *)
Pushes(n, rest) ==
    /\ pc = "search" /\ pc' = pc
    /\ n \in nodes /\ ~ Visited(n)
    /\ rest \in Seq([node : Blocks, todo : SUBSET Blocks])
    /\ Len(rest) = Len(calls)
    /\ calls = <<>> => rest = <<>>
    /\ \A k \in 1 .. Len(calls) :
          /\ rest[k].node = Node(k)
          /\ rest[k].todo \subseteq calls[k].todo
          /\ calls[k].todo \subseteq rest[k].todo \cup {n}
          /\ k < Len(calls) => rest[k] = calls[k]
    /\ calls # <<>> => n \in succs[Node(Len(calls))]
    /\ Called(n, rest)
    /\ UNCHANGED <<graph, succs, prevs, nodes, sccs, reserved, base2loop, bb2base>>

(* What a push does to the stack, the calls and the marks.                  *)
LEMMA Pushed ==
    ASSUME GraphInv, StackInv, CallsInv, NEW n, NEW rest, Pushes(n, rest)
    PROVE  LET K == Len(calls) IN
           /\ K \in Nat /\ Len(calls') = K + 1
           /\ calls' \in Seq([node : Blocks, todo : SUBSET Blocks]) /\ calls' # <<>>
           /\ \A k \in 1 .. K : Node(k)' = Node(k) /\ Node(k) # n
           /\ calls'[K + 1].node = n /\ calls'[K + 1].todo = succs[n]
           /\ \A k \in 1 .. K : calls'[k] = rest[k]
           /\ n \in Blocks /\ n \notin Stacked
           /\ stack' \in Seq(Blocks) /\ Stacked' = Stacked \cup {n}
           /\ \A x \in Stacked : index'[x] = index[x] /\ lowlink'[x] = lowlink[x] /\ index[x] < index'[n]
           /\ index'[n] \in Nat /\ lowlink'[n] = index'[n]
           /\ \A b \in Blocks \ {n} : index'[b] = index[b]
           /\ \A x \in Stacked : SeenBy(calls', succs', x) \subseteq Seens(x) \cup {n}
           /\ SeenBy(calls', succs', n) = {}
           /\ StackInv'
<1> DEFINE K == Len(calls)
           R == [node : Blocks, todo : SUBSET Blocks]
           i == IndexCount
<1>1. /\ n \in nodes /\ n \in Blocks /\ index[n] = -1 /\ pc = "search" /\ pc' = pc /\ nodes' = nodes
      /\ nodes \subseteq Blocks /\ succs' = succs
      /\ index' = [index EXCEPT ![n] = i]
      /\ lowlink' = [lowlink EXCEPT ![n] = i]
      /\ stack' = Append(stack, n)
      /\ calls' = Append(rest, [node |-> n, todo |-> succs[n]])
    BY DEF Pushes, Called, GraphInv, Visited
<1>2. /\ n \notin Stacked
      /\ \A x \in Stacked : index[x] \in Nat /\ x \in Blocks /\ x \in nodes /\ index[x] < i
    BY <1>1, StackOrdered DEF StackInv
<1>3. i \in Nat /\ i \in -1 .. Cardinality(Blocks) - 1 /\ IndexCount' = i + 1
  <2> DEFINE V == {m \in nodes : index[m] # -1}
  <2>1. IsFiniteSet(Blocks) /\ V \subseteq Blocks \ {n}
    BY <1>1, BlocksAssumption
  <2>2. IsFiniteSet(Blocks \ {n}) /\ Cardinality(Blocks \ {n}) = Cardinality(Blocks) - 1
    BY <1>1, <2>1, FS_RemoveElement
  <2>3. IsFiniteSet(V) /\ Cardinality(V) <= Cardinality(Blocks \ {n})
    BY <2>1, <2>2, FS_Subset
  <2>4. Cardinality(V) \in Nat /\ Cardinality(Blocks) \in Nat
    BY <2>1, <2>3, FS_CardinalityType
  <2>5. i \in Nat /\ i <= Cardinality(Blocks) - 1
    BY <2>2, <2>3, <2>4 DEF IndexCount
  <2>6. {m \in nodes' : index'[m] # -1} = V \cup {n}
    BY <1>1, <2>5 DEF StackInv
  <2>7. n \notin V
    BY <1>1
  <2>8. Cardinality(V \cup {n}) = Cardinality(V) + 1
    BY <2>3, <2>7, FS_AddElement
  <2> QED
    BY <2>4, <2>5, <2>6, <2>8 DEF IndexCount
<1> HIDE DEF i
<1>4. /\ rest \in Seq(R) /\ Len(rest) = K /\ K \in Nat
      /\ [node |-> n, todo |-> succs[n]] \in R
    BY <1>1 DEF Pushes, CallsInv, GraphInv
<1>5. /\ calls' \in Seq(R) /\ Len(calls') = K + 1 /\ calls' # <<>>
      /\ \A k \in 1 .. K : calls'[k] = rest[k]
      /\ calls'[K + 1] = [node |-> n, todo |-> succs[n]]
  <2> HIDE DEF R, K
  <2> QED
    BY <1>1, <1>4
<1>6. \A k \in 1 .. K : Node(k)' = Node(k) /\ Node(k) # n
    BY <1>2, <1>5, CallsOrdered DEF Node, Pushes
<1>7. calls'[K + 1].node = n /\ calls'[K + 1].todo = succs[n]
    BY <1>5
<1>8. /\ stack \in Seq(Blocks) /\ Len(stack) \in Nat
      /\ stack' \in Seq(Blocks) /\ Len(stack') = Len(stack) + 1
      /\ \A j \in 1 .. Len(stack) : stack'[j] = stack[j]
      /\ stack'[Len(stack) + 1] = n
    BY <1>1 DEF StackInv
<1>9. Stacked' = Stacked \cup {n}
  <2>1. \A j \in 1 .. Len(stack') : j \in 1 .. Len(stack) \/ j = Len(stack) + 1
    BY <1>8
  <2>2. \A j \in 1 .. Len(stack) : j \in 1 .. Len(stack')
    BY <1>8
  <2>3. Len(stack) + 1 \in 1 .. Len(stack')
    BY <1>8
  <2> QED
    BY <1>8, <2>1, <2>2, <2>3 DEF Stacked
<1>10. /\ index' \in [Blocks -> -1 .. Cardinality(Blocks) - 1]
       /\ lowlink' \in [Blocks -> -1 .. Cardinality(Blocks) - 1]
       /\ \A b \in Blocks \ {n} : index'[b] = index[b] /\ lowlink'[b] = lowlink[b]
       /\ index'[n] = i /\ lowlink'[n] = i
    BY <1>1, <1>3 DEF StackInv
<1>11. \A x \in Stacked : index'[x] = index[x] /\ lowlink'[x] = lowlink[x] /\ index[x] < index'[n]
    BY <1>2, <1>10
<1>12. StackInv'
  <2>1. ASSUME NEW j \in 1 .. Len(stack'), NEW k \in 1 .. Len(stack'), j < k
        PROVE  index'[stack'[j]] < index'[stack'[k]]
    <3>1. j \in 1 .. Len(stack) /\ stack'[j] = stack[j] /\ stack[j] \in Stacked
      BY <1>8, <2>1 DEF Stacked
    <3>2. CASE k = Len(stack) + 1
      BY <1>8, <1>11, <3>1, <3>2
    <3>3. CASE k \in 1 .. Len(stack)
      <4>1. stack'[k] = stack[k] /\ stack[k] \in Stacked
        BY <1>8, <3>3 DEF Stacked
      <4> QED
        BY <1>11, <2>1, <3>1, <3>3, <4>1 DEF StackInv
    <3> QED
      BY <1>8, <3>2, <3>3
  <2>2. \A x \in Stacked' : index'[x] \in Nat
    BY <1>2, <1>3, <1>9, <1>10, <1>11
  <2>3. ASSUME NEW x \in nodes PROVE index'[x] < i + 1
    <3>1. index[x] < i /\ index[x] \in Int
      BY <1>1 DEF StackInv, i
    <3> QED
      BY <1>1, <1>3, <1>10, <3>1
  <2>4. Stacked' \subseteq nodes'
    BY <1>1, <1>2, <1>9
  <2> QED
    BY <1>1, <1>3, <1>8, <1>10, <2>1, <2>2, <2>3, <2>4 DEF StackInv
<1>13. ASSUME NEW x \in Stacked PROVE SeenBy(calls', succs', x) \subseteq Seens(x) \cup {n}
  <2> SUFFICES ASSUME NEW s \in SeenBy(calls', succs', x), s # n, NEW k \in 1 .. K, Node(k) = x
               PROVE  s \notin calls[k].todo
    BY <1>1 DEF Seens, SeenBy, Node
  <2>1. k \in 1 .. Len(calls') /\ calls'[k].node = x
    BY <1>4, <1>5, <1>6 DEF Node
  <2>2. s \notin calls'[k].todo
    BY <2>1 DEF SeenBy
  <2> QED
    BY <1>5, <2>2 DEF Pushes
<1>14. SeenBy(calls', succs', n) = {}
  <2> SUFFICES ASSUME NEW s \in SeenBy(calls', succs', n) PROVE FALSE
    OBVIOUS
  <2>1. K + 1 \in 1 .. Len(calls') /\ calls'[K + 1].todo = succs'[n]
    BY <1>1, <1>4, <1>5
  <2>2. s \in succs'[n] /\ s \notin calls'[K + 1].todo
    BY <1>5, <1>7, <2>1 DEF SeenBy
  <2> QED
    BY <2>1, <2>2
<1> QED
    BY <1>1, <1>2, <1>3, <1>4, <1>5, <1>6, <1>7, <1>8, <1>9, <1>10, <1>11, <1>12, <1>13, <1>14

(* A push keeps the invariant of the search.                                *)
LEMMA PushKeeps ==
    ASSUME GraphInv, StackInv, CallsInv, VisitedInv, CountedInv, TreeInv, LowInv,
           NEW n, NEW rest, Pushes(n, rest)
    PROVE  StackInv' /\ CallsInv' /\ VisitedInv' /\ CountedInv' /\ TreeInv' /\ LowInv'
<1> DEFINE K == Len(calls)
           L(k) == calls'[k].node
           T(x) == SeenBy(calls', succs', x)
           Up(X, x) == UpwardsIn(succs', Stacked', index', X, x)
<1>1. /\ K \in Nat /\ Len(calls') = K + 1
      /\ calls' \in Seq([node : Blocks, todo : SUBSET Blocks]) /\ calls' # <<>>
      /\ \A k \in 1 .. K : L(k) = Node(k) /\ Node(k) # n
      /\ \A k \in 1 .. K : calls'[k] = rest[k]
      /\ L(K + 1) = n /\ calls'[K + 1].todo = succs[n]
      /\ n \in Blocks /\ n \notin Stacked
      /\ Stacked' = Stacked \cup {n}
      /\ \A x \in Stacked : index'[x] = index[x] /\ lowlink'[x] = lowlink[x] /\ index[x] < index'[n]
      /\ index'[n] \in Nat /\ lowlink'[n] = index'[n]
      /\ \A b \in Blocks \ {n} : index'[b] = index[b]
      /\ \A x \in Stacked : T(x) \subseteq Seens(x) \cup {n}
      /\ T(n) = {}
      /\ StackInv'
    BY Pushed DEF Node
<1>2. /\ \A j, k \in 1 .. K : index[Node(j)] = index[Node(k)] => j = k
      /\ \A k \in 1 .. K : Node(k) \in Stacked /\ index[Node(k)] <= index[Node(K)]
    BY CallsOrdered
<1>3. \A x \in Stacked : index[x] \in Nat /\ x \in Blocks /\ x \in nodes
    BY StackOrdered
<1>4. /\ n \in nodes /\ nodes \subseteq Blocks /\ nodes' = nodes /\ succs' = succs /\ pc = "search" /\ pc' = pc
      /\ index[n] = -1
      /\ \A k \in 1 .. K : rest[k].todo \subseteq calls[k].todo
      /\ K # 0 => n \in succs[Node(K)]
      /\ calls = <<>> <=> K = 0
  <2>1. calls = <<>> <=> K = 0
    BY DEF CallsInv
  <2> QED
    BY <2>1 DEF Pushes, GraphInv, Visited
<1>5. \A k \in 1 .. K + 1 : k \in 1 .. K \/ k = K + 1
    BY <1>1
<1>6. \A x \in Stacked : T(x) \ {n} \subseteq Seens(x)
    BY <1>1
<1>7. K # 0 => K \in 1 .. K /\ Node(K) \in Stacked
    BY <1>1, <1>2
<1>8. \A k \in 1 .. K : lowlink[Node(k)] \in Nat /\ lowlink[Node(k)] <= index[Node(k)]
    BY DEF CallsInv
<1> HIDE DEF K, L, T, Up
<1>9. CallsInv'
  <2>1. Active' \subseteq Stacked'
    <3>1. Active' = {L(k) : k \in 1 .. K + 1}
      BY <1>1 DEF Active, L, Node
    <3> QED
      BY <1>1, <1>2, <1>5, <3>1
  <2>2. ASSUME NEW j \in 1 .. K + 1, NEW k \in 1 .. K + 1, j < k PROVE index'[L(j)] < index'[L(k)]
    <3>1. j \in 1 .. K
      BY <1>1, <2>2
    <3>2. CASE k = K + 1
      BY <1>1, <1>2, <3>1, <3>2
    <3>3. CASE k \in 1 .. K
      <4>1. index[Node(j)] < index[Node(k)]
        BY <2>2, <3>1, <3>3 DEF CallsInv, K
      <4> QED
        BY <1>1, <1>2, <3>1, <3>3, <4>1
    <3> QED
      BY <1>5, <3>2, <3>3
  <2>3. ASSUME NEW k \in 1 .. K + 1 PROVE calls'[k].todo \subseteq succs'[L(k)]
    <3>1. CASE k \in 1 .. K
      <4>1. calls[k].todo \subseteq succs[Node(k)]
        BY <3>1 DEF CallsInv, K
      <4> QED
        BY <1>1, <1>4, <3>1, <4>1
    <3>2. CASE k = K + 1
      BY <1>1, <1>4, <3>2
    <3> QED
      BY <1>5, <3>1, <3>2
  <2>4. ASSUME NEW k \in 1 .. K + 1 PROVE lowlink'[L(k)] \in Nat /\ lowlink'[L(k)] <= index'[L(k)]
    BY <1>1, <1>2, <1>5, <1>8
  <2>5. ASSUME NEW k \in 2 .. K + 1 PROVE L(k) \in succs'[L(k - 1)]
    <3>0. k - 1 \in 1 .. K /\ k - 1 # K + 1
      BY <1>1
    <3>1. CASE k \in 1 .. K
      <4>1. k \in 2 .. Len(calls)
        BY <1>1, <3>1 DEF K
      <4>2. Node(k) \in succs[Node(k - 1)]
        BY <4>1 DEF CallsInv
      <4> QED
        BY <1>1, <1>4, <3>0, <3>1, <4>2
    <3>2. CASE k = K + 1
      BY <1>1, <1>4, <3>0, <3>2
    <3> QED
      BY <1>1, <3>1, <3>2
  <2>6. ASSUME NEW x \in Stacked' PROVE index'[L(1)] <= index'[x]
    <3>1. CASE K = 0
      <4>1. Stacked = {}
        BY <1>4, <3>1 DEF CallsInv, Stacked
      <4> QED
        BY <1>1, <3>1, <4>1
    <3>2. CASE K # 0
      <4>1. 1 \in 1 .. K /\ Node(1) \in Stacked
        BY <1>1, <1>2, <3>2
      <4>2. \A y \in Stacked : index[Node(1)] <= index[y]
        BY <1>4, <3>2 DEF CallsInv
      <4> QED
        BY <1>1, <1>3, <4>1, <4>2
    <3> QED
      BY <3>1, <3>2
  <2> QED
    BY <1>1, <1>4, <2>1, <2>2, <2>3, <2>4, <2>5, <2>6 DEF CallsInv, L, Node
<1>10. VisitedInv'
  <2>1. ASSUME NEW x \in Stacked', NEW s \in T(x) PROVE index'[s] # -1
    <3>1. s = n \/ (x \in Stacked /\ s \in Seens(x))
      BY <1>1, <1>6
    <3>2. CASE s = n
      BY <1>1, <3>2
    <3>3. CASE x \in Stacked /\ s \in Seens(x) /\ s # n
      <4>1. index[s] # -1
        BY <3>3 DEF VisitedInv, Visited
      <4>2. s \in Blocks
        BY <1>3, <3>3 DEF Seens, SeenBy, GraphInv
      <4> QED
        BY <1>1, <3>3, <4>1, <4>2
    <3> QED
      BY <3>1, <3>2, <3>3
  <2>2. ASSUME NEW m \in nodes \ Stacked', index'[m] # -1, NEW s \in succs[m]
        PROVE  index'[s] # -1 /\ s \notin Stacked'
    <3>1. m \in nodes \ Stacked /\ index[m] # -1
      BY <1>1, <1>4, <2>2
    <3>2. index[s] # -1 /\ s \notin Stacked
      BY <1>4, <3>1 DEF VisitedInv, Visited
    <3>3. s \in Blocks /\ s # n
      BY <1>4, <3>2 DEF GraphInv
    <3> QED
      BY <1>1, <3>2, <3>3
  <2> QED
    BY <1>4, <2>1, <2>2 DEF VisitedInv, Visited, Seens, T
<1>11. CountedInv'
  <2> SUFFICES ASSUME NEW k \in 1 .. K + 1, NEW x \in Stacked', index'[L(k)] <= index'[x],
                      k < K + 1 => index'[x] < index'[L(k + 1)],
                      NEW s \in T(x), s \in Stacked'
               PROVE  lowlink'[L(k)] <= index'[s]
    BY <1>1 DEF CountedInv, L, T, Seens, Node
  <2>1. x \in Stacked
    BY <1>1
  <2>2. k \in 1 .. K
    BY <1>1, <1>3, <1>5, <2>1
  <2>3. index[Node(k)] <= index[x] /\ L(k) = Node(k) /\ Node(k) \in Stacked
    BY <1>1, <1>2, <2>1, <2>2
  <2>4. lowlink'[L(k)] = lowlink[Node(k)] /\ lowlink[Node(k)] <= index[Node(k)]
    BY <1>1, <1>8, <2>2, <2>3
  <2>5. CASE s = n
    BY <1>1, <1>3, <1>8, <2>2, <2>3, <2>4, <2>5
  <2>6. CASE s # n
    <3>1. s \in Seens(x) \cap Stacked
      BY <1>1, <1>6, <2>1, <2>6
    <3>2. k < Len(calls) => index[x] < index[Node(k + 1)]
      <4> SUFFICES ASSUME k < K PROVE index[x] < index[Node(k + 1)]
        BY DEF K
      <4>1. k + 1 \in 1 .. K /\ k < K + 1
        BY <1>1, <2>2
      <4>2. L(k + 1) = Node(k + 1) /\ Node(k + 1) \in Stacked
        BY <1>1, <1>2, <4>1
      <4> QED
        BY <1>1, <2>1, <4>1, <4>2
    <3>3. lowlink[Node(k)] <= index[s]
      BY <2>1, <2>2, <2>3, <3>1, <3>2 DEF CountedInv, K
    <3> QED
      BY <1>1, <2>4, <3>1, <3>3
  <2> QED
    BY <2>5, <2>6
<1>12. TreeInv'
  <2> SUFFICES ASSUME NEW k \in 1 .. K + 1, NEW x \in Stacked', index'[L(k)] < index'[x]
               PROVE  \E p \in Stacked' : /\ index'[L(k)] <= index'[p] /\ index'[p] < index'[x]
                                          /\ x \in succs'[p]
    BY <1>1 DEF TreeInv, L, Node
  <2>1. k \in 1 .. K /\ L(k) = Node(k) /\ Node(k) \in Stacked
    BY <1>1, <1>2, <1>3, <1>5
  <2>2. CASE x \in Stacked
    <3>1. PICK p \in Stacked : index[Node(k)] <= index[p] /\ index[p] < index[x] /\ x \in succs[p]
      BY <1>1, <2>1, <2>2 DEF TreeInv, K
    <3> QED
      BY <1>1, <1>4, <2>1, <2>2, <3>1
  <2>3. CASE x = n
    <3>1. Node(K) \in Stacked /\ n \in succs[Node(K)] /\ index[Node(k)] <= index[Node(K)]
      BY <1>1, <1>2, <1>4, <1>7, <2>1
    <3> QED
      BY <1>1, <1>4, <2>1, <2>3, <3>1
  <2> QED
    BY <1>1, <2>2, <2>3
<1>13. ASSUME NEW X \in SUBSET Stacked', NEW x \in Stacked, Up(X, x)
       PROVE  Upwards(X \ {n}, x) /\ X \ {n} \in SUBSET Stacked
  <2>1. X \ {n} \subseteq Stacked /\ x \in X \ {n}
    BY <1>1, <1>13 DEF Up, UpwardsIn
  <2>2. ASSUME NEW y \in X \ {n}, NEW s \in succs[y] \cap Stacked, index[s] >= index[x]
        PROVE  s \in X \ {n}
    <3>1. index'[s] >= index'[x] /\ s \in Stacked' /\ s \in succs'[y] /\ s # n
      BY <1>1, <1>4, <2>2
    <3> QED
      BY <1>13, <3>1 DEF Up, UpwardsIn
  <2> QED
    BY <2>1, <2>2 DEF Upwards, UpwardsIn
<1>14. LowInv'
  <2>1. ASSUME NEW k \in 1 .. K + 1, lowlink'[L(k)] < index'[L(k)], NEW X \in SUBSET Stacked',
               Up(X, L(k))
        PROVE  \E y \in X : \E m \in succs'[y] \cap Stacked' : index'[m] = lowlink'[L(k)]
    <3>1. k \in 1 .. K /\ L(k) = Node(k) /\ Node(k) \in Stacked
      BY <1>1, <1>2, <1>5, <2>1
    <3>2. lowlink[Node(k)] < index[Node(k)] /\ lowlink'[L(k)] = lowlink[Node(k)]
      BY <1>1, <2>1, <3>1
    <3>3. Upwards(X \ {n}, Node(k)) /\ X \ {n} \in SUBSET Stacked
      BY <1>13, <2>1, <3>1
    <3>4. PICK y \in X \ {n} : \E m \in succs[y] \cap Stacked : index[m] = lowlink[Node(k)]
      BY <3>1, <3>2, <3>3 DEF LowInv, K
    <3> QED
      BY <1>1, <1>4, <3>2, <3>4
  <2>2. ASSUME NEW x \in Stacked' \ Active', NEW X \in SUBSET Stacked', Up(X, x)
        PROVE  \E y \in X : \E m \in succs'[y] \cap Stacked' : index'[m] < index'[x]
    <3>1. Active \cup {n} \subseteq Active'
      <4>1. Active' = {L(k) : k \in 1 .. K + 1} /\ Active = {Node(k) : k \in 1 .. K}
        BY <1>1 DEF Active, L, Node, K
      <4>2. K + 1 \in 1 .. K + 1 /\ \A k \in 1 .. K : k \in 1 .. K + 1
        BY <1>1
      <4> QED
        BY <1>1, <4>1, <4>2
    <3>2. x \in Stacked \ Active
      BY <1>1, <2>2, <3>1
    <3>3. Upwards(X \ {n}, x) /\ X \ {n} \in SUBSET Stacked
      BY <1>13, <2>2, <3>2
    <3>4. PICK y \in X \ {n} : \E m \in succs[y] \cap Stacked : index[m] < index[x]
      BY <3>2, <3>3 DEF LowInv
    <3> QED
      BY <1>1, <1>4, <3>2, <3>4
  <2> QED
    BY <1>1, <2>1, <2>2 DEF LowInv, L, Node, Up, Upwards
<1> QED
    BY <1>1, <1>9, <1>10, <1>11, <1>12, <1>14

(* The last call looks at one successor less.                               *)
LEMMA LookedAt ==
    ASSUME CallsInv, calls # <<>>, NEW su
    PROVE  LET K == Len(calls) q == Looked(su) IN
           /\ K \in Nat /\ K \in 1 .. K
           /\ q \in Seq([node : Blocks, todo : SUBSET Blocks]) /\ Len(q) = K /\ q # <<>>
           /\ \A k \in 1 .. K : q[k].node = Node(k) /\ (k < K => q[k] = calls[k])
           /\ q[K].todo = Todo \ {su}
           /\ Current = Node(K) /\ Todo = calls[K].todo
           /\ Todo \subseteq succs[Current]
<1> DEFINE K == Len(calls)
           q == Looked(su)
           R == [node : Blocks, todo : SUBSET Blocks]
<1>1. calls \in Seq(R)
    BY DEF CallsInv
<1>2. K \in Nat /\ K \in 1 .. K
    BY <1>1
<1>3. \A k \in 1 .. K : calls[k] \in R
    BY <1>1, ElementOfSeq
<1>4. q = [calls EXCEPT ![K] = [calls[K] EXCEPT !.todo = calls[K].todo \ {su}]]
    BY DEF Looked
<1>5. [calls[K] EXCEPT !.todo = calls[K].todo \ {su}] \in R
    BY <1>2, <1>3
<1>6. q \in Seq(R) /\ Len(q) = K /\ \A k \in 1 .. K : k # K => q[k] = calls[k]
  <2> HIDE DEF R
  <2> QED
    BY <1>1, <1>2, <1>4, <1>5
<1>7. q[K] = [calls[K] EXCEPT !.todo = calls[K].todo \ {su}]
  <2> DEFINE e == [calls[K] EXCEPT !.todo = calls[K].todo \ {su}]
  <2>1. q = [calls EXCEPT ![K] = e] /\ K \in DOMAIN calls
    BY <1>1, <1>2, <1>4
  <2> HIDE DEF e, q
  <2>2. q[K] = e
    BY <2>1
  <2> QED
    BY <2>2 DEF e
<1>8. q[K].node = Node(K) /\ q[K].todo = calls[K].todo \ {su}
    BY <1>2, <1>3, <1>7 DEF Node
<1>9. \A k \in 1 .. K : q[k].node = Node(k) /\ (k < K => q[k] = calls[k])
    BY <1>2, <1>6, <1>8 DEF Node
<1>10. q # <<>>
    BY <1>2, <1>6
<1>11. Current = Node(K) /\ Todo = calls[K].todo
    BY DEF Current, Todo, Node
<1>12. Todo \subseteq succs[Current]
    BY <1>2, <1>11 DEF CallsInv
<1> HIDE DEF q
<1> QED
    BY <1>2, <1>6, <1>8, <1>9, <1>10, <1>11, <1>12 DEF q

(* Start and Traverse push a block.                                         *)
LEMMA Pushing ==
    ASSUME GraphInv, StackInv, CallsInv, VisitedInv, CountedInv, TreeInv, LowInv,
           Start \/ Traverse
    PROVE  /\ StackInv' /\ CallsInv' /\ VisitedInv' /\ CountedInv' /\ TreeInv' /\ LowInv'
           /\ Finished' \subseteq Finished
           /\ pc' = pc /\ UNCHANGED <<graph, succs, prevs, nodes, sccs, reserved, base2loop, bb2base>>
<1>0. ASSUME NEW n, NEW rest, Pushes(n, rest) PROVE Finished' \subseteq Finished
  <2>1. /\ Stacked' = Stacked \cup {n} /\ \A b \in Blocks \ {n} : index'[b] = index[b]
        /\ nodes' = nodes /\ nodes \subseteq Blocks
    BY <1>0, Pushed DEF Pushes, GraphInv
  <2> QED
    BY <2>1 DEF Finished, Visited
<1>1. CASE Start
  <2>1. PICK n \in nodes : index[n] = -1 /\ Called(n, <<>>)
    BY <1>1 DEF Start
  <2>2. Pushes(n, <<>>)
    BY <1>1, <2>1 DEF Start, Pushes, Visited
  <2> QED
    BY <1>0, <2>2, PushKeeps DEF Pushes
<1>2. CASE Traverse
  <2>1. PICK su \in Todo : index[su] = -1 /\ Called(su, Looked(su))
    BY <1>2 DEF Traverse
  <2> DEFINE q == Looked(su)
             K == Len(calls)
  <2>2. calls # <<>> /\ pc = "search"
    BY <1>2 DEF Traverse, CallsInv
  <2>3. /\ K \in Nat /\ K \in 1 .. K
        /\ q \in Seq([node : Blocks, todo : SUBSET Blocks]) /\ Len(q) = K
        /\ \A k \in 1 .. K : q[k].node = Node(k) /\ (k < K => q[k] = calls[k])
        /\ q[K].todo = calls[K].todo \ {su}
        /\ su \in succs[Node(K)]
    BY <2>2, LookedAt
  <2> HIDE DEF q
  <2>4. \A k \in 1 .. K : /\ q[k].todo \subseteq calls[k].todo
                          /\ calls[k].todo \subseteq q[k].todo \cup {su}
    <3> SUFFICES ASSUME NEW k \in 1 .. K PROVE /\ q[k].todo \subseteq calls[k].todo
                                              /\ calls[k].todo \subseteq q[k].todo \cup {su}
      OBVIOUS
    <3>1. k < K \/ k = K
      BY <2>3
    <3> QED
      BY <2>3, <3>1
  <2>5. Node(K) \in nodes
    BY <2>3, CallsOrdered, StackOrdered
  <2>6. su \in nodes
    BY <2>3, <2>5 DEF GraphInv
  <2>7. UNCHANGED <<graph, succs, prevs, nodes, sccs, reserved, base2loop, bb2base, pc>>
    BY <1>2 DEF Traverse
  <2>8. Pushes(su, q)
    BY <2>1, <2>2, <2>3, <2>4, <2>6, <2>7 DEF Pushes, Visited, q
  <2> QED
    BY <1>0, <2>7, <2>8, PushKeeps
<1> QED
    BY <1>1, <1>2

(* Look takes the index of a successor into the lowlink.                    *)
LEMMA Looking ==
    ASSUME GraphInv, StackInv, CallsInv, VisitedInv, CountedInv, TreeInv, LowInv, Look
    PROVE  /\ StackInv' /\ CallsInv' /\ VisitedInv' /\ CountedInv' /\ TreeInv' /\ LowInv'
           /\ pc' = pc /\ UNCHANGED <<graph, succs, prevs, nodes, sccs, reserved, base2loop, bb2base>>
<1> DEFINE K == Len(calls)
           n == Current
           L(k) == calls'[k].node
           T(x) == SeenBy(calls', succs', x)
           Up(X, x) == UpwardsIn(succs', Stacked', index', X, x)
<1>1. PICK su \in Todo : /\ index[su] # -1
                         /\ lowlink' = [lowlink EXCEPT ![Current] = Seen(su)]
                         /\ calls' = Looked(su)
    BY DEF Look
<1>2. /\ calls # <<>> /\ pc = "search" /\ pc' = pc
      /\ graph' = graph /\ succs' = succs /\ prevs' = prevs /\ index' = index /\ stack' = stack
      /\ nodes' = nodes /\ sccs' = sccs /\ reserved' = reserved /\ base2loop' = base2loop
      /\ bb2base' = bb2base
    BY DEF Look, CallsInv
<1>3. /\ K \in Nat /\ K \in 1 .. K
      /\ calls' \in Seq([node : Blocks, todo : SUBSET Blocks]) /\ Len(calls') = K /\ calls' # <<>>
      /\ \A k \in 1 .. K : L(k) = Node(k) /\ (k < K => calls'[k] = calls[k])
      /\ calls'[K].todo = calls[K].todo \ {su}
      /\ su \in succs[n] /\ n = Node(K)
    BY <1>1, <1>2, LookedAt
<1>4. /\ \A j, k \in 1 .. K : index[Node(j)] = index[Node(k)] => j = k
      /\ \A k \in 1 .. K : /\ Node(k) \in Stacked /\ index[Node(k)] <= index[Node(K)]
                            /\ index[Node(k)] \in Nat
    BY CallsOrdered
<1>5. \A x \in Stacked : index[x] \in Nat /\ x \in Blocks /\ x \in nodes
    BY StackOrdered
<1>6. \A k \in 1 .. K : lowlink[Node(k)] \in Nat /\ lowlink[Node(k)] <= index[Node(k)]
    BY DEF CallsInv
<1>7. /\ Stacked' = Stacked
      /\ Active' = Active
  <2>1. Active' = {L(k) : k \in 1 .. K} /\ Active = {Node(k) : k \in 1 .. K}
    BY <1>3 DEF Active, Node
  <2> QED
    BY <1>2, <1>3, <2>1 DEF Stacked
<1> DEFINE low == Seen(su)
<1>8. low = IF su \in Stacked /\ index[su] < lowlink[n] THEN index[su] ELSE lowlink[n]
    BY DEF Seen, OnStack, Stacked, Smaller
<1>9. n \in Stacked /\ n \in Blocks /\ lowlink[n] \in Nat /\ lowlink[n] <= index[n]
    BY <1>3, <1>4, <1>5, <1>6
<1>10. /\ lowlink' \in [Blocks -> -1 .. Cardinality(Blocks) - 1]
       /\ lowlink'[n] = low /\ low \in Nat /\ low <= lowlink[n] /\ low <= index[n]
       /\ (su \in Stacked => low <= index[su])
       /\ \A b \in Blocks \ {n} : lowlink'[b] = lowlink[b]
  <2>1. low \in Nat /\ low <= lowlink[n] /\ low <= index[n] /\ (su \in Stacked => low <= index[su])
    BY <1>4, <1>5, <1>8, <1>9, <1>3
  <2>2. low \in -1 .. Cardinality(Blocks) - 1
    BY <1>5, <1>8, <1>9 DEF StackInv
  <2> HIDE DEF low
  <2> QED
    BY <1>1, <1>9, <2>1, <2>2 DEF StackInv, low
<1>11. /\ \A k \in 1 .. K : calls'[k].todo \subseteq calls[k].todo
       /\ \A k \in 1 .. K : calls[k].todo \subseteq calls'[k].todo \cup {su}
       /\ \A k \in 1 .. K : k # K => Node(k) # n /\ calls'[k] = calls[k]
  <2> SUFFICES ASSUME NEW k \in 1 .. K
               PROVE  /\ calls'[k].todo \subseteq calls[k].todo
                      /\ calls[k].todo \subseteq calls'[k].todo \cup {su}
                      /\ k # K => Node(k) # n /\ calls'[k] = calls[k]
    OBVIOUS
  <2>1. k < K \/ k = K
    BY <1>3
  <2> QED
    BY <1>3, <1>4, <2>1
<1>12. ASSUME NEW x, NEW s \in T(x) PROVE s \in Seens(x) \/ (x = n /\ s = su)
  <2> SUFFICES ASSUME ~ (x = n /\ s = su), NEW k \in 1 .. K, Node(k) = x PROVE s \notin calls[k].todo
    BY <1>2 DEF Seens, SeenBy, Node
  <2>1. s \notin calls'[k].todo
    BY <1>3 DEF SeenBy
  <2>2. CASE k = K
    BY <1>3, <2>1, <2>2
  <2>3. CASE k # K
    BY <1>11, <2>1, <2>3
  <2> QED
    BY <2>2, <2>3
<1>20. \A X, x : Up(X, x) <=> Upwards(X, x)
    BY <1>2, <1>7 DEF Upwards
<1> HIDE DEF K, L, T, Up, n, low
<1>13. StackInv'
    BY <1>2, <1>7, <1>10 DEF StackInv, IndexCount
<1>14. \A k \in 1 .. K : lowlink'[Node(k)] \in Nat /\ lowlink'[Node(k)] <= index[Node(k)]
  <2> SUFFICES ASSUME NEW k \in 1 .. K PROVE lowlink'[Node(k)] \in Nat /\ lowlink'[Node(k)] <= index[Node(k)]
    OBVIOUS
  <2>1. Node(k) \in Blocks
    BY <1>4, <1>5
  <2> QED
    BY <1>6, <1>9, <1>10, <2>1
<1>15. CallsInv'
  <2>1. \A j, k \in 1 .. K : j < k => index'[L(j)] < index'[L(k)]
    BY <1>2, <1>3 DEF CallsInv, K
  <2>2. \A k \in 1 .. K : calls'[k].todo \subseteq succs'[L(k)]
    BY <1>2, <1>3, <1>11 DEF CallsInv, K
  <2>3. \A k \in 1 .. K : lowlink'[L(k)] \in Nat /\ lowlink'[L(k)] <= index'[L(k)]
    BY <1>2, <1>3, <1>14
  <2>4. \A k \in 2 .. K : L(k) \in succs'[L(k - 1)]
    <3> SUFFICES ASSUME NEW k \in 2 .. K PROVE L(k) \in succs'[L(k - 1)]
      OBVIOUS
    <3>1. k \in 1 .. K /\ k - 1 \in 1 .. K
      BY <1>3
    <3>2. Node(k) \in succs[Node(k - 1)]
      BY DEF CallsInv, K
    <3> QED
      BY <1>2, <1>3, <3>1, <3>2
  <2>5. \A x \in Stacked' : index'[L(1)] <= index'[x]
    <3>1. 1 \in 1 .. K
      BY <1>3
    <3> QED
      BY <1>2, <1>3, <1>7, <3>1 DEF CallsInv, K
  <2>6. Active' \subseteq Stacked'
    BY <1>7 DEF CallsInv
  <2> QED
    BY <1>2, <1>3, <2>1, <2>2, <2>3, <2>4, <2>5, <2>6 DEF CallsInv, L, Node
<1>16. VisitedInv'
  <2>1. \A x \in Stacked' : \A s \in T(x) : index'[s] # -1
    BY <1>1, <1>2, <1>7, <1>12 DEF VisitedInv, Visited
  <2> QED
    BY <1>2, <1>7, <2>1 DEF VisitedInv, Visited, Seens, T
<1>17. CountedInv'
  <2> SUFFICES ASSUME NEW k \in 1 .. K, NEW x \in Stacked, index[Node(k)] <= index[x],
                      k < K => index'[x] < index'[L(k + 1)],
                      NEW s \in T(x), s \in Stacked
               PROVE  lowlink'[L(k)] <= index[s]
    BY <1>2, <1>3, <1>7 DEF CountedInv, L, T, Seens, Node
  <2>1. k < K => index[x] < index[Node(k + 1)]
    <3> HAVE k < K
    <3>1. k + 1 \in 1 .. K
      BY <1>3
    <3> QED
      BY <1>2, <1>3, <3>1
  <2>2. L(k) = Node(k) /\ Node(k) \in Blocks /\ lowlink[Node(k)] \in Nat
    BY <1>3, <1>4, <1>5, <1>6
  <2>3. lowlink'[L(k)] <= lowlink[Node(k)]
    BY <1>9, <1>10, <2>2
  <2>4. CASE s \in Seens(x)
    <3>1. lowlink[Node(k)] <= index[s]
      BY <2>1, <2>4 DEF CountedInv, K
    <3>2. index[s] \in Nat /\ lowlink'[L(k)] \in Int
      BY <1>3, <1>5, <1>14
    <3> QED
      BY <2>2, <2>3, <3>1, <3>2
  <2>5. CASE x = n /\ s = su
    <3>1. k = K
      <4>1. ~ (k < K)
        <5> SUFFICES ASSUME k < K PROVE FALSE
          OBVIOUS
        <5>1. k + 1 \in 1 .. K
          BY <1>3
        <5>2. index[Node(k + 1)] <= index[Node(K)] /\ index[Node(k + 1)] \in Nat
          BY <1>4, <5>1
        <5> QED
          BY <1>3, <1>5, <1>9, <2>1, <2>5, <5>2
      <4> QED
        BY <1>3, <4>1
    <3> QED
      BY <1>3, <1>10, <2>2, <2>5, <3>1
  <2> QED
    BY <1>12, <2>4, <2>5
<1>18. TreeInv'
  <2>1. \A k \in 1 .. K : \A x \in Stacked : index[L(k)] < index[x] =>
            \E p \in Stacked : index[L(k)] <= index[p] /\ index[p] < index[x] /\ x \in succs[p]
    BY <1>3 DEF TreeInv, K
  <2> QED
    BY <1>2, <1>3, <1>7, <2>1 DEF TreeInv, L, Node
<1>19. LowInv'
  <2>1. ASSUME NEW k \in 1 .. K, lowlink'[L(k)] < index[L(k)], NEW X \in SUBSET Stacked,
               Upwards(X, L(k))
        PROVE  \E y \in X : \E m \in succs[y] \cap Stacked : index[m] = lowlink'[L(k)]
    <3>1. L(k) = Node(k) /\ Node(k) \in Blocks
      BY <1>3, <1>4, <1>5
    <3>2. CASE lowlink'[L(k)] = lowlink[Node(k)]
      BY <2>1, <3>1, <3>2 DEF LowInv, K
    <3>3. CASE lowlink'[L(k)] # lowlink[Node(k)]
      <4>1. L(k) = n /\ low # lowlink[n]
        BY <1>10, <3>1, <3>3
      <4>2. su \in Stacked /\ low = index[su]
        BY <1>8, <4>1
      <4>3. n \in X
        BY <2>1, <4>1 DEF Upwards, UpwardsIn
      <4> QED
        BY <1>3, <1>10, <4>1, <4>2, <4>3
    <3> QED
      BY <3>2, <3>3
  <2>2. ASSUME NEW k \in 1 .. K, lowlink'[L(k)] < index'[L(k)], NEW X \in SUBSET Stacked',
               Up(X, L(k))
        PROVE  \E y \in X : \E m \in succs'[y] \cap Stacked' : index'[m] = lowlink'[L(k)]
    BY <1>2, <1>7, <1>20, <2>1, <2>2
  <2>3. ASSUME NEW x \in Stacked' \ Active', NEW X \in SUBSET Stacked', Up(X, x)
        PROVE  \E y \in X : \E m \in succs'[y] \cap Stacked' : index'[m] < index'[x]
    BY <1>2, <1>7, <1>20, <2>3 DEF LowInv
  <2> QED
    BY <1>3, <2>2, <2>3 DEF LowInv, L, Node, Up, Upwards
<1> QED
    BY <1>2, <1>13, <1>15, <1>16, <1>17, <1>18, <1>19

-----------------------------------------------------------------------------
(* A call ends.                                                             *)

(* What the ending call and those before it are.                            *)
LEMMA LastCall ==
    ASSUME GraphInv, StackInv, CallsInv, calls # <<>>, Todo = {}
    PROVE  LET K == Len(calls) n == Current q == SubSeq(calls, 1, K - 1) IN
           /\ K \in Nat /\ K \in 1 .. K /\ pc = "search"
           /\ n = Node(K) /\ n \in Stacked /\ n \in Active
           /\ q \in Seq([node : Blocks, todo : SUBSET Blocks]) /\ Len(q) = K - 1
           /\ \A k \in 1 .. K - 1 : k \in 1 .. K /\ q[k] = calls[k]
           /\ \A k \in 1 .. K - 1 : index[Node(k)] < index[n] /\ Node(k) # n
           /\ q = <<>> <=> K = 1
           /\ Seens(n) = succs[n]
           /\ \A x : x \notin Active => Seens(x) = succs[x]
           /\ \A x \in Stacked : index[x] > index[n] => x \notin Active
           /\ \A x : SeenBy(q, succs, x) = Seens(x)
<1> DEFINE K == Len(calls)
           n == Current
           R == [node : Blocks, todo : SUBSET Blocks]
           q == SubSeq(calls, 1, K - 1)
<1>1. calls \in Seq(R) /\ K \in Nat /\ K \in 1 .. K /\ pc = "search"
    BY DEF CallsInv
<1>2. q \in Seq(R) /\ Len(q) = K - 1 /\ \A k \in 1 .. K - 1 : k \in 1 .. K /\ q[k] = calls[k]
  <2> DEFINE j == K - 1
  <2>1. j \in Nat /\ j <= Len(calls)
    BY <1>1
  <2> HIDE DEF R, j
  <2>2. SubSeq(calls, 1, j) \in Seq(R) /\ Len(SubSeq(calls, 1, j)) = j
    BY <1>1, <2>1
  <2>3. \A k \in 1 .. j : SubSeq(calls, 1, j)[k] = calls[k]
    BY <1>1, <2>1
  <2> USE DEF j
  <2> QED
    BY <1>1, <2>2, <2>3
<1>3. n = Node(K) /\ calls[K].todo = {}
    BY DEF Current, Node, Todo
<1>4. /\ \A j, k \in 1 .. K : index[Node(j)] = index[Node(k)] => j = k
      /\ \A k \in 1 .. K : /\ Node(k) \in Stacked /\ index[Node(k)] <= index[Node(K)]
                            /\ index[Node(k)] \in Nat
    BY CallsOrdered
<1>5. n \in Stacked /\ n \in Active
    BY <1>1, <1>3, <1>4 DEF Active
<1> HIDE DEF K, n, q
<1>6. \A k \in 1 .. K - 1 : index[Node(k)] < index[n] /\ Node(k) # n
  <2> SUFFICES ASSUME NEW k \in 1 .. K - 1 PROVE index[Node(k)] < index[n] /\ Node(k) # n
    OBVIOUS
  <2>1. k \in 1 .. K /\ k # K
    BY <1>1
  <2> QED
    BY <1>1, <1>3, <1>4, <2>1
<1>7. q = <<>> <=> K = 1
    BY <1>1, <1>2
<1>8. \A k \in 1 .. K : Node(k) = n => k = K
    BY <1>1, <1>3, <1>4
<1>9. Seens(n) = succs[n]
    BY <1>3, <1>8 DEF Seens, SeenBy, Node, K
<1>10. \A x : x \notin Active => Seens(x) = succs[x]
    BY DEF Active, Seens, SeenBy, Node
<1>11. \A x \in Stacked : index[x] > index[n] => x \notin Active
    BY <1>1, <1>3, <1>4, StackOrdered DEF Active, K
<1>12. ASSUME NEW x PROVE SeenBy(q, succs, x) = Seens(x)
  <2>1. ASSUME NEW s \in SeenBy(q, succs, x), NEW k \in 1 .. K, calls[k].node = x
        PROVE  s \notin calls[k].todo
    <3>1. CASE k = K
      BY <1>3, <3>1
    <3>2. CASE k # K
      <4>1. k \in 1 .. K - 1
        BY <1>1, <3>2
      <4>2. k \in 1 .. Len(q) /\ q[k] = calls[k]
        BY <1>2, <4>1
      <4> QED
        BY <2>1, <4>2 DEF SeenBy
    <3> QED
      BY <3>1, <3>2
  <2>2. SeenBy(q, succs, x) \subseteq Seens(x)
    BY <2>1 DEF Seens, SeenBy, K
  <2>3. Seens(x) \subseteq SeenBy(q, succs, x)
    BY <1>2 DEF Seens, SeenBy, K
  <2> QED
    BY <2>2, <2>3
<1> QED
    BY <1>1, <1>2, <1>3, <1>5, <1>6, <1>7, <1>9, <1>10, <1>11, <1>12 DEF K, n, q

(* The blocks from the root of a component to the top of the stack lead to  *)
(* each other and to components taken before, are connected and convex.     *)
LEMMA ComponentFound ==
    ASSUME GraphInv, StackInv, CallsInv, VisitedInv, CountedInv, TreeInv, LowInv,
           calls # <<>>, Todo = {}, index[Current] = lowlink[Current]
    PROVE  LET C == {x \in Stacked : index[x] >= index[Current]} IN
           /\ \A x \in C : \A s \in succs[x] : Visited(s) /\ (s \in Stacked => s \in C)
           /\ Convex(C)
           /\ Connected(C)
           /\ C # {} /\ C \subseteq nodes
<1> DEFINE n == Current
           K == Len(calls)
           C == {x \in Stacked : index[x] >= index[n]}
<1>1. /\ K \in Nat /\ K \in 1 .. K /\ pc = "search"
      /\ n = Node(K) /\ n \in Stacked
      /\ Seens(n) = succs[n]
      /\ \A x : x \notin Active => Seens(x) = succs[x]
      /\ \A x \in Stacked : index[x] > index[n] => x \notin Active
    BY LastCall
<1>2. /\ \A x \in Stacked : index[x] \in Nat /\ x \in Blocks /\ x \in nodes
      /\ \A x, y \in Stacked : index[x] = index[y] => x = y
    BY StackOrdered
<1>3. index[n] = lowlink[n]
    OBVIOUS
<1> HIDE DEF n, K
<1>4. \A x \in C : Seens(x) = succs[x]
  <2> SUFFICES ASSUME NEW x \in C PROVE Seens(x) = succs[x]
    OBVIOUS
  <2>1. x = n \/ index[x] > index[n]
    BY <1>1, <1>2
  <2> QED
    BY <1>1, <2>1
<1>5. ASSUME NEW x \in C, NEW s \in succs[x] PROVE Visited(s) /\ (s \in Stacked => s \in C)
  <2>1. Visited(s)
    BY <1>4, <1>5 DEF VisitedInv
  <2>2. ASSUME s \in Stacked PROVE s \in C
    <3>1. s \in Seens(x) \cap Stacked /\ x \in Stacked /\ index[Node(K)] <= index[x]
      BY <1>1, <1>4, <1>5, <2>2
    <3>2. lowlink[Node(K)] <= index[s]
      BY <1>1, <3>1 DEF CountedInv, K
    <3> QED
      BY <1>1, <1>2, <1>3, <2>2, <3>2
  <2> QED
    BY <2>1, <2>2
<1>6. Convex(C)
  <2> DEFINE D == {m \in nodes : Visited(m) /\ m \notin Stacked}
             E == D \cup C
  <2>1. \A x \in nodes : succs[x] \subseteq nodes
    BY DEF GraphInv
  <2>2. D \subseteq Blocks /\ E \subseteq Blocks
    BY <1>2 DEF GraphInv
  <2>3. \A x \in D : succs[x] \subseteq D
    BY <1>1, <2>1 DEF VisitedInv
  <2>4. \A x \in C : succs[x] \subseteq E
    BY <1>2, <1>5, <2>1
  <2>5. D \cap C = {}
    OBVIOUS
  <2> HIDE DEF C, D
  <2>6. C = E \ D /\ D \subseteq E
    BY <2>5
  <2>7. ClosedIn(succs, D) /\ ClosedIn(succs, E)
    BY <2>2, <2>3, <2>4 DEF ClosedIn
  <2> HIDE DEF E
  <2> QED
    BY <2>2, <2>6, <2>7 DEF Convex, ConvexIn
<1>7. ASSUME NEW X \in SUBSET C, X # {}, X # C, \A x \in X : \A y \in C \ X : y \notin succs[x]
      PROVE  FALSE
  <2>1. \A Y \in SUBSET C : Y # {} => \E x \in Y : \A y \in Y : index[x] <= index[y]
    <3> SUFFICES ASSUME NEW Y \in SUBSET C, Y # {} PROVE \E x \in Y : \A y \in Y : index[x] <= index[y]
      OBVIOUS
    <3>1. {index[y] : y \in Y} \subseteq Nat /\ {index[y] : y \in Y} # {}
      BY <1>2
    <3>2. PICK i \in {index[y] : y \in Y} : \A j \in {index[y] : y \in Y} : i <= j
      BY <3>1, LeastNatural
    <3> QED
      BY <3>2
  <2>2. n \in X
    <3>1. PICK x \in X : \A y \in X : index[x] <= index[y]
      BY <1>7, <2>1
    <3>2. SUFFICES ASSUME x # n PROVE FALSE
      BY <3>1
    <3>3. x \in Stacked /\ index[x] > index[n]
      BY <1>1, <1>2, <3>2
    <3>4. x \in Stacked \ Active
      BY <1>1, <3>3
    <3>5. Upwards(X, x)
      <4>1. ASSUME NEW y \in X, NEW s \in succs[y] \cap Stacked, index[s] >= index[x] PROVE s \in X
        BY <1>7, <1>5, <4>1
      <4> QED
        BY <4>1 DEF Upwards, UpwardsIn
    <3>6. PICK y \in X : \E m \in succs[y] \cap Stacked : index[m] < index[x]
      BY <3>4, <3>5 DEF LowInv
    <3>7. PICK m \in succs[y] \cap Stacked : index[m] < index[x]
      BY <3>6
    <3>8. m \in X
      BY <1>5, <1>7, <3>7
    <3> QED
      BY <1>2, <3>1, <3>3, <3>7, <3>8
  <2>3. PICK x \in C \ X : \A y \in C \ X : index[x] <= index[y]
    BY <1>7, <2>1
  <2>4. index[Node(K)] < index[x] /\ x \in Stacked
    BY <1>1, <1>2, <2>2, <2>3
  <2>5. PICK p \in Stacked : index[Node(K)] <= index[p] /\ index[p] < index[x] /\ x \in succs[p]
    BY <1>1, <2>4 DEF TreeInv, K
  <2>6. p \in C
    BY <1>1, <1>2, <2>5
  <2>7. p \in X
    BY <1>2, <2>3, <2>4, <2>5, <2>6
  <2> QED
    BY <1>7, <2>3, <2>5, <2>7
<1>8. Connected(C)
    BY <1>7 DEF Connected, ConnectedIn
<1>9. C # {} /\ C \subseteq nodes
    BY <1>1, <1>2
<1> QED
    BY <1>5, <1>6, <1>8, <1>9 DEF n

(* A call that is not the root of a component: its blocks stay on the stack *)
(* and belong to the caller now.                                            *)
LEMMA ReturningInside ==
    ASSUME GraphInv, StackInv, CallsInv, VisitedInv, CountedInv, TreeInv, LowInv,
           Return, index[Current] # lowlink[Current]
    PROVE  /\ StackInv' /\ CallsInv' /\ VisitedInv' /\ CountedInv' /\ TreeInv' /\ LowInv'
           /\ UNCHANGED <<graph, succs, prevs, nodes, sccs, reserved, base2loop, bb2base, pc>>
<1> DEFINE K == Len(calls)
           n == Current
           c == Node(K - 1)
           L(k) == calls'[k].node
           T(x) == SeenBy(calls', succs', x)
           Up(X, x) == UpwardsIn(succs', Stacked', index', X, x)
<1>1. /\ calls # <<>> /\ Todo = {}
      /\ calls' = SubSeq(calls, 1, K - 1)
      /\ graph' = graph /\ succs' = succs /\ prevs' = prevs /\ index' = index /\ stack' = stack
      /\ nodes' = nodes /\ sccs' = sccs /\ reserved' = reserved /\ base2loop' = base2loop
      /\ bb2base' = bb2base /\ pc' = pc
    BY DEF Return
<1>0. lowlink' = IF calls' = <<>> THEN lowlink
                ELSE [lowlink EXCEPT ![calls'[Len(calls')].node] = Smaller(lowlink[n], @)]
    BY DEF Return
<1>2. /\ K \in Nat /\ K \in 1 .. K /\ pc = "search"
      /\ n = Node(K) /\ n \in Stacked /\ n \in Active
      /\ calls' \in Seq([node : Blocks, todo : SUBSET Blocks]) /\ Len(calls') = K - 1
      /\ \A k \in 1 .. K - 1 : k \in 1 .. K /\ calls'[k] = calls[k]
      /\ \A k \in 1 .. K - 1 : index[Node(k)] < index[n] /\ Node(k) # n
      /\ calls' = <<>> <=> K = 1
      /\ \A x : T(x) = Seens(x)
    BY <1>1, LastCall
<1>3. /\ \A k \in 1 .. K : Node(k) \in Stacked /\ index[Node(k)] \in Nat
      /\ \A j, k \in 1 .. K : index[Node(j)] = index[Node(k)] => j = k
    BY CallsOrdered
<1>4. \A x \in Stacked : index[x] \in Nat /\ x \in Blocks /\ x \in nodes
    BY StackOrdered
<1>5. \A k \in 1 .. K : lowlink[Node(k)] \in Nat /\ lowlink[Node(k)] <= index[Node(k)]
    BY DEF CallsInv
<1>6. lowlink[n] < index[n] /\ lowlink[n] \in Nat
    BY <1>2, <1>3, <1>5
<1>7. Stacked' = Stacked
    BY <1>1 DEF Stacked
<1>8. \A k \in 1 .. K - 1 : L(k) = Node(k)
    BY <1>2 DEF Node
<1>9. \A X, x : Up(X, x) <=> Upwards(X, x)
    BY <1>1, <1>7 DEF Upwards
<1> HIDE DEF K, n, L, T, Up
<1>10. K # 1
  <2> SUFFICES ASSUME K = 1 PROVE FALSE
    OBVIOUS
  <2>1. Upwards(Stacked, n)
    BY <1>2 DEF Upwards, UpwardsIn
  <2>2. \E y \in Stacked : \E m \in succs[y] \cap Stacked : index[m] = lowlink[n]
    BY <1>2, <1>6, <2>1 DEF LowInv, K
  <2>3. \A x \in Stacked : index[n] <= index[x]
    BY <1>1, <1>2 DEF CallsInv
  <2> QED
    BY <1>2, <1>4, <1>6, <2>2, <2>3
<1>11. /\ K - 1 \in 1 .. K - 1 /\ K - 1 \in 1 .. K /\ c \in Stacked /\ c \in Blocks /\ c # n
       /\ L(K - 1) = c /\ calls' # <<>> /\ index[c] < index[n] /\ index[c] \in Nat
       /\ lowlink[c] \in Nat /\ lowlink[c] <= index[c]
    BY <1>2, <1>3, <1>4, <1>5, <1>8, <1>10
<1> HIDE DEF c
<1> DEFINE low == IF lowlink[n] < lowlink[c] THEN lowlink[n] ELSE lowlink[c]
<1>12. /\ lowlink' \in [Blocks -> -1 .. Cardinality(Blocks) - 1]
       /\ lowlink'[c] = low /\ low \in Nat /\ low <= lowlink[c] /\ low <= lowlink[n]
       /\ \A b \in Blocks \ {c} : lowlink'[b] = lowlink[b]
  <2>1. low \in Nat /\ low <= lowlink[c] /\ low <= lowlink[n]
    BY <1>6, <1>11
  <2>2. low \in -1 .. Cardinality(Blocks) - 1
    BY <1>2, <1>4, <1>11 DEF StackInv
  <2>3. lowlink' = [lowlink EXCEPT ![c] = low]
    BY <1>0, <1>2, <1>11 DEF Smaller, L
  <2> HIDE DEF low
  <2> QED
    BY <1>11, <2>1, <2>2, <2>3 DEF StackInv
<1>13. \A k \in 1 .. K - 1 : Node(k) = c => k = K - 1
  <2> SUFFICES ASSUME NEW k \in 1 .. K - 1, Node(k) = c PROVE k = K - 1
    OBVIOUS
  <2> QED
    BY <1>2, <1>3, <1>11 DEF c
<1>14. StackInv'
    BY <1>1, <1>7, <1>12 DEF StackInv, IndexCount
<1>15. \A k \in 1 .. K - 1 : lowlink'[Node(k)] \in Nat /\ lowlink'[Node(k)] <= lowlink[Node(k)]
  <2> SUFFICES ASSUME NEW k \in 1 .. K - 1
               PROVE  lowlink'[Node(k)] \in Nat /\ lowlink'[Node(k)] <= lowlink[Node(k)]
    OBVIOUS
  <2>1. Node(k) \in Blocks /\ lowlink[Node(k)] \in Nat
    BY <1>2, <1>3, <1>4, <1>5
  <2> QED
    BY <1>12, <2>1
<1>16. CallsInv'
  <2>1. \A j, k \in 1 .. K - 1 : j < k => index'[L(j)] < index'[L(k)]
    BY <1>1, <1>2, <1>8 DEF CallsInv, K
  <2>2. \A k \in 1 .. K - 1 : calls'[k].todo \subseteq succs'[L(k)]
    BY <1>1, <1>2, <1>8 DEF CallsInv, K
  <2>3. \A k \in 1 .. K - 1 : lowlink'[L(k)] \in Nat /\ lowlink'[L(k)] <= index'[L(k)]
    <3> SUFFICES ASSUME NEW k \in 1 .. K - 1 PROVE lowlink'[L(k)] \in Nat /\ lowlink'[L(k)] <= index'[L(k)]
      OBVIOUS
    <3>1. /\ lowlink'[Node(k)] \in Nat /\ lowlink'[Node(k)] <= lowlink[Node(k)]
          /\ lowlink[Node(k)] \in Nat /\ lowlink[Node(k)] <= index[Node(k)] /\ index[Node(k)] \in Nat
      BY <1>2, <1>3, <1>5, <1>15
    <3> QED
      BY <1>1, <1>8, <3>1
  <2>4. \A k \in 2 .. K - 1 : L(k) \in succs'[L(k - 1)]
    <3> SUFFICES ASSUME NEW k \in 2 .. K - 1 PROVE L(k) \in succs'[L(k - 1)]
      OBVIOUS
    <3>1. k \in 1 .. K - 1 /\ k - 1 \in 1 .. K - 1 /\ k \in 2 .. K
      BY <1>2
    <3>2. Node(k) \in succs[Node(k - 1)]
      BY <3>1 DEF CallsInv, K
    <3> QED
      BY <1>1, <1>8, <3>1, <3>2
  <2>5. \A x \in Stacked' : index'[L(1)] <= index'[x]
    <3>1. 1 \in 1 .. K - 1
      BY <1>2, <1>10
    <3> QED
      BY <1>1, <1>7, <1>8, <3>1 DEF CallsInv
  <2>6. Active' \subseteq Stacked'
    <3>1. Active' = {L(k) : k \in 1 .. K - 1}
      BY <1>2 DEF Active, L, Node
    <3> QED
      BY <1>2, <1>3, <1>7, <1>8, <3>1
  <2> QED
    BY <1>1, <1>2, <1>11, <2>1, <2>2, <2>3, <2>4, <2>5, <2>6 DEF CallsInv, L, Node
<1>17. VisitedInv'
  <2>1. \A x \in Stacked' : \A s \in T(x) : index'[s] # -1
    BY <1>1, <1>2, <1>7 DEF VisitedInv, Visited
  <2> QED
    BY <1>1, <1>7, <2>1 DEF VisitedInv, Visited, Seens, T
<1>18. CountedInv'
  <2> SUFFICES ASSUME NEW k \in 1 .. K - 1, NEW x \in Stacked, index[Node(k)] <= index[x],
                      k < K - 1 => index[x] < index'[L(k + 1)],
                      NEW s \in Seens(x) \cap Stacked
               PROVE  lowlink'[L(k)] <= index[s]
    <3>1. \A x \in Stacked : SeenBy(calls', succs', x) = Seens(x)
      BY <1>2 DEF T
    <3> HIDE DEF L
    <3>2. CountedInv' <=> \A k \in 1 .. Len(calls') : \A x \in Stacked' :
             (index'[L(k)] <= index'[x] /\ (k < Len(calls') => index'[x] < index'[L(k + 1)]))
                 => \A s \in SeenBy(calls', succs', x) \cap Stacked' : lowlink'[L(k)] <= index'[s]
      BY DEF CountedInv, L, Seens, Node
    <3> QED
      BY <1>1, <1>2, <1>7, <1>8, <3>1, <3>2
  <2>1. /\ L(k) = Node(k) /\ lowlink'[L(k)] <= lowlink[Node(k)] /\ index[s] \in Nat
        /\ lowlink'[L(k)] \in Nat /\ lowlink[Node(k)] \in Nat
    BY <1>2, <1>4, <1>5, <1>8, <1>15
  <2>2. CASE k < K - 1 \/ index[x] < index[n]
    <3>1. index[x] < index[Node(k + 1)]
      <4>1. CASE k < K - 1
        <5>1. k + 1 \in 1 .. K - 1
          BY <1>2, <4>1
        <5> QED
          BY <1>1, <1>8, <4>1, <5>1
      <4>2. CASE k = K - 1
        BY <1>2, <2>2, <4>2
      <4> QED
        BY <1>2, <4>1, <4>2
    <3>2. lowlink[Node(k)] <= index[s]
      BY <1>2, <3>1 DEF CountedInv, K
    <3> QED
      BY <2>1, <3>2
  <2>3. CASE k = K - 1 /\ ~ (index[x] < index[n])
    <3>1. index[n] <= index[x]
      BY <1>2, <1>4, <2>3
    <3>2. lowlink[n] <= index[s]
      <4>1. K \in 1 .. K /\ n = Node(K) /\ ~ (K < Len(calls))
        BY <1>2 DEF K
      <4> QED
        BY <3>1, <4>1 DEF CountedInv, K
    <3> QED
      BY <1>6, <1>11, <1>12, <2>1, <2>3, <3>2
  <2> QED
    BY <1>2, <2>2, <2>3
<1>19. TreeInv'
  <2>1. \A k \in 1 .. K - 1 : \A x \in Stacked : index[L(k)] < index[x] =>
            \E p \in Stacked : index[L(k)] <= index[p] /\ index[p] < index[x] /\ x \in succs[p]
    BY <1>2, <1>8 DEF TreeInv, K
  <2> QED
    BY <1>1, <1>2, <1>7, <2>1 DEF TreeInv, L, Node
<1>20. LowInv'
  <2>1. ASSUME NEW X \in SUBSET Stacked, Upwards(X, n)
        PROVE  \E y \in X : \E m \in succs[y] \cap Stacked : index[m] = lowlink[n]
    BY <1>2, <1>6, <2>1 DEF LowInv, K
  <2>2. ASSUME NEW k \in 1 .. K - 1, lowlink'[L(k)] < index[L(k)], NEW X \in SUBSET Stacked,
               Upwards(X, L(k))
        PROVE  \E y \in X : \E m \in succs[y] \cap Stacked : index[m] = lowlink'[L(k)]
    <3>1. L(k) = Node(k) /\ Node(k) \in Blocks /\ k \in 1 .. K
      BY <1>2, <1>3, <1>4, <1>8
    <3>2. CASE lowlink'[L(k)] = lowlink[Node(k)]
      BY <2>2, <3>1, <3>2 DEF LowInv, K
    <3>3. CASE lowlink'[L(k)] # lowlink[Node(k)]
      <4>1. L(k) = c /\ low = lowlink[n] /\ lowlink'[L(k)] = lowlink[n]
        BY <1>12, <3>1, <3>3
      <4>2. n \in succs[c]
        <5>1. K \in 2 .. K
          BY <1>2, <1>10
        <5> QED
          BY <1>2, <5>1 DEF CallsInv, K, c
      <4>3. n \in X
        BY <1>2, <1>3, <1>11, <2>2, <4>1, <4>2 DEF Upwards, UpwardsIn
      <4>4. ASSUME NEW y \in X, NEW s \in succs[y] \cap Stacked, index[s] >= index[n] PROVE s \in X
        <5>1. index[s] >= index[c]
          BY <1>2, <1>4, <1>11, <4>4
        <5> QED
          BY <2>2, <4>1, <5>1 DEF Upwards, UpwardsIn
      <4>5. Upwards(X, n)
        BY <4>3, <4>4 DEF Upwards, UpwardsIn
      <4> QED
        BY <2>1, <4>1, <4>5
    <3> QED
      BY <3>2, <3>3
  <2>3. ASSUME NEW x \in Stacked \ Active', NEW X \in SUBSET Stacked, Upwards(X, x)
        PROVE  \E y \in X : \E m \in succs[y] \cap Stacked : index[m] < index[x]
    <3>1. x \in Stacked \ Active \/ x = n
      <4>1. Active' = {L(k) : k \in 1 .. K - 1}
        BY <1>2 DEF Active, L, Node
      <4>2. \A k \in 1 .. K : k \in 1 .. K - 1 \/ k = K
        BY <1>2
      <4> QED
        BY <1>2, <1>8, <2>3, <4>1, <4>2 DEF Active, K
    <3>2. CASE x = n
      BY <1>6, <2>1, <2>3, <3>2
    <3> QED
      BY <2>3, <3>1, <3>2 DEF LowInv
  <2>4. ASSUME NEW k \in 1 .. K - 1, lowlink'[L(k)] < index'[L(k)], NEW X \in SUBSET Stacked',
               Up(X, L(k))
        PROVE  \E y \in X : \E m \in succs'[y] \cap Stacked' : index'[m] = lowlink'[L(k)]
    BY <1>1, <1>7, <1>9, <2>2, <2>4
  <2>5. ASSUME NEW x \in Stacked' \ Active', NEW X \in SUBSET Stacked', Up(X, x)
        PROVE  \E y \in X : \E m \in succs'[y] \cap Stacked' : index'[m] < index'[x]
    BY <1>1, <1>7, <1>9, <2>3, <2>5
  <2> QED
    BY <1>2, <2>4, <2>5 DEF LowInv, L, Node, Up, Upwards
<1> QED
    BY <1>1, <1>14, <1>16, <1>17, <1>18, <1>19, <1>20

(* The call of the root of a component takes it from the stack.             *)
LEMMA ReturningRoot ==
    ASSUME GraphInv, StackInv, CallsInv, VisitedInv, CountedInv, TreeInv, LowInv,
           Return, index[Current] = lowlink[Current]
    PROVE  /\ StackInv' /\ CallsInv' /\ VisitedInv' /\ CountedInv' /\ TreeInv' /\ LowInv'
           /\ sccs' = sccs \cup Kept({x \in Stacked : index[x] >= index[Current]})
           /\ Finished' \subseteq Finished \cup {x \in Stacked : index[x] >= index[Current]}
           /\ UNCHANGED <<graph, succs, prevs, nodes, reserved, base2loop, bb2base, pc>>
<1> DEFINE K == Len(calls)
           n == Current
           C == {x \in Stacked : index[x] >= index[n]}
           L(k) == calls'[k].node
           T(x) == SeenBy(calls', succs', x)
           Up(X, x) == UpwardsIn(succs', Stacked', index', X, x)
<1>1. /\ calls # <<>> /\ Todo = {}
      /\ calls' = SubSeq(calls, 1, K - 1)
      /\ graph' = graph /\ succs' = succs /\ prevs' = prevs /\ index' = index
      /\ nodes' = nodes /\ reserved' = reserved /\ base2loop' = base2loop
      /\ bb2base' = bb2base /\ pc' = pc
      /\ sccs' = sccs \cup Kept(Component(n))
      /\ stack' = SubSeq(stack, 1, Depth(n) - 1)
    BY DEF Return
<1>0. lowlink' = IF calls' = <<>> THEN lowlink
                ELSE [lowlink EXCEPT ![calls'[Len(calls')].node] = Smaller(lowlink[n], @)]
    BY DEF Return
<1>2. /\ K \in Nat /\ K \in 1 .. K /\ pc = "search"
      /\ n = Node(K) /\ n \in Stacked /\ n \in Active
      /\ calls' \in Seq([node : Blocks, todo : SUBSET Blocks]) /\ Len(calls') = K - 1
      /\ \A k \in 1 .. K - 1 : k \in 1 .. K /\ calls'[k] = calls[k]
      /\ \A k \in 1 .. K - 1 : index[Node(k)] < index[n] /\ Node(k) # n
      /\ calls' = <<>> <=> K = 1
      /\ \A x \in Stacked : index[x] > index[n] => x \notin Active
      /\ \A x : T(x) = Seens(x)
    BY <1>1, LastCall
<1>3. /\ \A k \in 1 .. K : Node(k) \in Stacked /\ index[Node(k)] \in Nat
      /\ \A j, k \in 1 .. K : index[Node(j)] = index[Node(k)] => j = k
    BY CallsOrdered
<1>4. \A x \in Stacked : index[x] \in Nat /\ x \in Blocks /\ x \in nodes
    BY StackOrdered
<1>5. \A k \in 1 .. K : lowlink[Node(k)] \in Nat /\ lowlink[Node(k)] <= index[Node(k)]
    BY DEF CallsInv
<1>6. \A k \in 1 .. K - 1 : L(k) = Node(k)
    BY <1>2 DEF Node
<1>7. /\ Component(n) = C
      /\ stack' \in Seq(Blocks) /\ Len(stack') \in Nat /\ Len(stack') <= Len(stack)
      /\ \A i \in 1 .. Len(stack') : stack'[i] = stack[i]
      /\ Stacked' = {x \in Stacked : index[x] < index[n]}
  <2>1. Stacked' = {stack'[i] : i \in 1 .. Len(stack')}
    BY DEF Stacked
  <2>2. n \in Stacked
    BY <1>2
  <2> HIDE DEF n
  <2> QED
    BY <1>1, <2>1, <2>2, CuttingStack
<1>8. /\ \A x \in C : \A s \in succs[x] : Visited(s) /\ (s \in Stacked => s \in C)
    BY <1>1, ComponentFound
<1> HIDE DEF K, n, L, T, Up
<1>9. /\ \A x \in Stacked : x \in Stacked' \/ x \in C
      /\ \A x \in Stacked' : x \in Stacked /\ x \notin C /\ index[x] < index[n]
      /\ \A x \in C : x \in Stacked /\ x \notin Stacked' /\ index[x] >= index[n]
    BY <1>2, <1>4, <1>7
<1> HIDE DEF C
<1>10. lowlink' = lowlink
  <2>1. CASE K = 1
    BY <1>0, <1>2, <2>1
  <2>2. CASE K # 1
    <3> DEFINE c == Node(K - 1)
    <3>1. /\ calls' # <<>> /\ K - 1 \in 1 .. K - 1 /\ L(K - 1) = c
          /\ index[c] < index[n] /\ lowlink[c] <= index[c]
          /\ index[c] \in Nat /\ lowlink[c] \in Nat /\ index[n] \in Nat
      BY <1>2, <1>3, <1>5, <1>6, <2>2
    <3> HIDE DEF c
    <3>2. lowlink' = [lowlink EXCEPT ![c] = Smaller(lowlink[n], lowlink[c])]
      BY <1>0, <1>2, <3>1 DEF L
    <3>3. lowlink[n] = index[n]
      BY DEF n
    <3>4. Smaller(lowlink[n], lowlink[c]) = lowlink[c]
      BY <3>1, <3>3 DEF Smaller
    <3> QED
      BY <3>2, <3>4 DEF StackInv
  <2> QED
    BY <2>1, <2>2
<1>11. StackInv'
  <2>1. \A i \in 1 .. Len(stack') : i \in 1 .. Len(stack)
    BY <1>7, StackOrdered
  <2>2. \A i, j \in 1 .. Len(stack') : i < j => index'[stack'[i]] < index'[stack'[j]]
    BY <1>1, <1>7, <2>1 DEF StackInv
  <2> QED
    BY <1>1, <1>4, <1>7, <1>9, <1>10, <2>2 DEF StackInv, IndexCount
<1>12. \A k \in 1 .. K - 1 : Node(k) \in Stacked'
    BY <1>2, <1>3, <1>7
<1>13. CallsInv'
  <2>1. \A j, k \in 1 .. K - 1 : j < k => index'[L(j)] < index'[L(k)]
    BY <1>1, <1>2, <1>6 DEF CallsInv, K
  <2>2. \A k \in 1 .. K - 1 : calls'[k].todo \subseteq succs'[L(k)]
    BY <1>1, <1>2, <1>6 DEF CallsInv, K
  <2>3. \A k \in 1 .. K - 1 : lowlink'[L(k)] \in Nat /\ lowlink'[L(k)] <= index'[L(k)]
    BY <1>1, <1>2, <1>5, <1>6, <1>10
  <2>4. \A k \in 2 .. K - 1 : L(k) \in succs'[L(k - 1)]
    <3> SUFFICES ASSUME NEW k \in 2 .. K - 1 PROVE L(k) \in succs'[L(k - 1)]
      OBVIOUS
    <3>1. k \in 1 .. K - 1 /\ k - 1 \in 1 .. K - 1 /\ k \in 2 .. K
      BY <1>2
    <3>2. Node(k) \in succs[Node(k - 1)]
      BY <3>1 DEF CallsInv, K
    <3> QED
      BY <1>1, <1>6, <3>1, <3>2
  <2>5. calls' # <<>> => pc' = "search" /\ \A x \in Stacked' : index'[L(1)] <= index'[x]
    <3> HAVE calls' # <<>>
    <3>1. 1 \in 1 .. K - 1
      BY <1>2
    <3> QED
      BY <1>1, <1>2, <1>6, <1>9, <3>1 DEF CallsInv
  <2>6. Active' \subseteq Stacked'
    <3>1. Active' = {L(k) : k \in 1 .. K - 1}
      BY <1>2 DEF Active, L, Node
    <3> QED
      BY <1>6, <1>12, <3>1
  <2>7. calls' = <<>> => stack' = <<>>
    <3> HAVE calls' = <<>>
    <3>1. \A x \in Stacked : index[n] <= index[x]
      BY <1>1, <1>2 DEF CallsInv
    <3>2. Stacked' = {}
      BY <1>2, <1>4, <1>9, <3>1
    <3>3. \A i \in 1 .. Len(stack') : stack'[i] \in Stacked'
      BY DEF Stacked
    <3>4. Len(stack') = 0
      BY <1>7, <3>2, <3>3
    <3> QED
      BY <1>7, <3>4
  <2> QED
    BY <1>1, <1>2, <2>1, <2>2, <2>3, <2>4, <2>5, <2>6, <2>7 DEF CallsInv, L, Node
<1>14. VisitedInv'
  <2>1. \A x \in Stacked' : \A s \in T(x) : index'[s] # -1
    BY <1>1, <1>2, <1>9 DEF VisitedInv, Visited
  <2>2. ASSUME NEW m \in nodes \ Stacked', index[m] # -1, NEW s \in succs[m]
        PROVE  index[s] # -1 /\ s \notin Stacked'
    <3>1. m \in nodes \ Stacked \/ m \in C
      BY <1>9, <2>2
    <3>2. CASE m \in nodes \ Stacked
      BY <1>2, <1>9, <2>2, <3>2 DEF VisitedInv, Visited
    <3>3. CASE m \in C
      BY <1>8, <1>9, <2>2, <3>3 DEF Visited
    <3> QED
      BY <3>1, <3>2, <3>3
  <2> QED
    BY <1>1, <2>1, <2>2 DEF VisitedInv, Visited, Seens, T
<1>15. CountedInv'
  <2>1. \A x : SeenBy(calls', succs', x) = Seens(x)
    BY <1>2 DEF T
  <2> HIDE DEF L
  <2>2. CountedInv' <=> \A k \in 1 .. Len(calls') : \A x \in Stacked' :
           (index'[L(k)] <= index'[x] /\ (k < Len(calls') => index'[x] < index'[L(k + 1)]))
               => \A s \in SeenBy(calls', succs', x) \cap Stacked' : lowlink'[L(k)] <= index'[s]
    BY DEF CountedInv, L, Seens, Node
  <2> SUFFICES ASSUME NEW k \in 1 .. K - 1, NEW x \in Stacked', index[Node(k)] <= index[x],
                      k < K - 1 => index[x] < index[L(k + 1)],
                      NEW s \in Seens(x) \cap Stacked'
               PROVE  lowlink[Node(k)] <= index[s]
    BY <1>1, <1>2, <1>6, <1>10, <2>1, <2>2
  <2>3. k < K => index[x] < index[Node(k + 1)]
    <3>1. CASE k < K - 1
      <4>1. k + 1 \in 1 .. K - 1
        BY <1>2, <3>1
      <4> QED
        BY <1>6, <3>1, <4>1
    <3>2. CASE k = K - 1
      BY <1>2, <1>9, <3>2
    <3> QED
      BY <1>2, <3>1, <3>2
  <2>4. k \in 1 .. K /\ x \in Stacked /\ s \in Seens(x) \cap Stacked
    BY <1>2, <1>9
  <2> QED
    BY <2>3, <2>4 DEF CountedInv, K
<1>16. TreeInv'
  <2>1. ASSUME NEW k \in 1 .. K - 1, NEW x \in Stacked', index[L(k)] < index[x]
        PROVE  \E p \in Stacked' : index[L(k)] <= index[p] /\ index[p] < index[x] /\ x \in succs[p]
    <3>1. PICK p \in Stacked : index[Node(k)] <= index[p] /\ index[p] < index[x] /\ x \in succs[p]
      BY <1>2, <1>6, <1>9, <2>1 DEF TreeInv, K
    <3>2. index[p] < index[n]
      BY <1>2, <1>4, <1>9, <3>1
    <3>3. p \in Stacked'
      BY <1>7, <3>2
    <3> QED
      BY <1>6, <3>1, <3>3
  <2> QED
    BY <1>1, <1>2, <2>1 DEF TreeInv, L, Node
<1>17. ASSUME NEW X \in SUBSET Stacked', NEW x \in Stacked', Up(X, x)
       PROVE  Upwards(X \cup C, x) /\ X \cup C \in SUBSET Stacked
  <2>1. X \cup C \subseteq Stacked /\ x \in X
    BY <1>9, <1>17 DEF Up, UpwardsIn
  <2>2. ASSUME NEW y \in X \cup C, NEW s \in succs[y] \cap Stacked, index[s] >= index[x]
        PROVE  s \in X \cup C
    BY <1>1, <1>8, <1>9, <1>17, <2>2 DEF Up, UpwardsIn
  <2> QED
    BY <2>1, <2>2 DEF Upwards, UpwardsIn
<1>18. ASSUME NEW X, NEW y \in X \cup C, NEW m \in succs[y] \cap Stacked, index[m] < index[n]
       PROVE  y \in X /\ m \in succs'[y] \cap Stacked'
  <2>1. m \in Stacked' /\ m \notin C
    BY <1>7, <1>9, <1>18
  <2>2. y \notin C
    BY <1>8, <1>18, <2>1
  <2> QED
    BY <1>1, <1>18, <2>1, <2>2
<1>19. LowInv'
  <2>1. ASSUME NEW k \in 1 .. K - 1, lowlink'[L(k)] < index'[L(k)], NEW X \in SUBSET Stacked',
               Up(X, L(k))
        PROVE  \E y \in X : \E m \in succs'[y] \cap Stacked' : index'[m] = lowlink'[L(k)]
    <3>1. L(k) = Node(k) /\ Node(k) \in Stacked' /\ k \in 1 .. K
      BY <1>2, <1>6, <1>12
    <3>2. Upwards(X \cup C, Node(k)) /\ X \cup C \in SUBSET Stacked
      BY <1>17, <2>1, <3>1
    <3>3. lowlink[Node(k)] < index[Node(k)]
      BY <1>1, <1>10, <2>1, <3>1
    <3>4. PICK y \in X \cup C : \E m \in succs[y] \cap Stacked : index[m] = lowlink[Node(k)]
      BY <3>1, <3>2, <3>3 DEF LowInv, K
    <3>5. PICK m \in succs[y] \cap Stacked : index[m] = lowlink[Node(k)]
      BY <3>4
    <3>6. index[m] < index[n]
      BY <1>2, <1>3, <1>5, <1>9, <3>1, <3>3, <3>5
    <3>7. y \in X /\ m \in succs'[y] \cap Stacked'
      BY <1>18, <3>6
    <3> QED
      BY <1>1, <1>10, <3>1, <3>5, <3>7
  <2>2. ASSUME NEW x \in Stacked' \ Active', NEW X \in SUBSET Stacked', Up(X, x)
        PROVE  \E y \in X : \E m \in succs'[y] \cap Stacked' : index'[m] < index'[x]
    <3>1. x \in Stacked \ Active
      <4>1. Active' = {L(k) : k \in 1 .. K - 1}
        BY <1>2 DEF Active, L, Node
      <4>2. \A k \in 1 .. K : k \in 1 .. K - 1 \/ k = K
        BY <1>2
      <4>3. x \in Stacked /\ x # n
        BY <1>2, <1>4, <1>9, <2>2
      <4>4. \A k \in 1 .. K : x # Node(k)
        BY <1>2, <1>6, <2>2, <4>1, <4>2, <4>3
      <4>5. x \notin Active
        BY <4>4 DEF Active, K
      <4> QED
        BY <4>3, <4>5
    <3>2. Upwards(X \cup C, x) /\ X \cup C \in SUBSET Stacked
      BY <1>17, <2>2
    <3>3. PICK y \in X \cup C : \E m \in succs[y] \cap Stacked : index[m] < index[x]
      BY <3>1, <3>2 DEF LowInv
    <3>4. PICK m \in succs[y] \cap Stacked : index[m] < index[x]
      BY <3>3
    <3>5. index[m] < index[n]
      BY <1>2, <1>4, <1>9, <3>1, <3>4, <2>2
    <3>6. y \in X /\ m \in succs'[y] \cap Stacked'
      BY <1>18, <3>5
    <3> QED
      BY <1>1, <3>4, <3>6
  <2> QED
    BY <1>2, <2>1, <2>2 DEF LowInv, L, Node, Up, Upwards
<1>20. sccs' = sccs \cup Kept({x \in Stacked : index[x] >= index[Current]})
    BY <1>1, <1>7 DEF C, n
<1>21. Finished' \subseteq Finished \cup {x \in Stacked : index[x] >= index[Current]}
  <2>1. Finished' \subseteq Finished \cup C
    BY <1>1, <1>9 DEF Finished, Visited
  <2> QED
    BY <2>1 DEF C, n
<1> QED
    BY <1>1, <1>11, <1>13, <1>14, <1>15, <1>16, <1>19, <1>20, <1>21

-----------------------------------------------------------------------------
(* The components that are kept, and their bases.                           *)

(* The part of the invariant that only the searches change.                 *)
SearchInv == StackInv /\ CallsInv /\ VisitedInv /\ CountedInv /\ TreeInv /\ LowInv

(* A connected set that meets a convex one is inside it.                    *)
LEMMA ConnectedInConvex ==
    ASSUME NEW c, Connected(c), NEW l, Convex(l), c \cap l # {}
    PROVE  c \subseteq l
<1>1. PICK D, E \in SUBSET Blocks : ClosedIn(succs, D) /\ ClosedIn(succs, E) /\ D \subseteq E /\ l = E \ D
    BY DEF Convex, ConvexIn
<1>2. ASSUME NEW Z, ClosedIn(succs, Z), c \cap Z # {} PROVE c \subseteq Z
  <2>1. CASE c \cap Z # c
    <3>1. PICK x \in c \cap Z : \E y \in c \ (c \cap Z) : y \in succs[x]
      BY <1>2, <2>1 DEF Connected, ConnectedIn
    <3> QED
      BY <1>2, <3>1 DEF ClosedIn
  <2> QED
    BY <2>1
<1>3. c \subseteq E
    BY <1>1, <1>2
<1>4. c \cap D = {}
    BY <1>1, <1>2
<1> QED
    BY <1>1, <1>3, <1>4

(* No edge leads to the entry, so no component of two blocks holds it.      *)
LEMMA SccKept ==
    ASSUME GraphInv, NEW C, Convex(C), Connected(C), C # {}, C \subseteq nodes,
           NEW c \in Kept(C)
    PROVE  c \subseteq nodes /\ c # {} /\ Root \notin c /\ Connected(c) /\ Convex(c)
<1>1. c = C /\ Cardinality(C) # 1
    BY DEF Kept
<1>2. ASSUME Root \in C PROVE FALSE
  <2>1. CASE C \ {Root} = {}
    <3>1. C = {Root}
      BY <1>2, <2>1
    <3>2. Cardinality({Root}) = 1
      BY FS_Singleton
    <3> QED
      BY <1>1, <3>1, <3>2
  <2>2. CASE C \ {Root} # {}
    <3> DEFINE X == C \ {Root}
    <3>0. X \in SUBSET C /\ X # {} /\ X # C
      BY <1>2, <2>2
    <3> HIDE DEF X
    <3>1. PICK x \in X : \E y \in C \ X : y \in succs[x]
      BY <3>0 DEF Connected, ConnectedIn
    <3>2. x \in Blocks /\ Root \in succs[x]
      BY <3>0, <3>1 DEF GraphInv, X
    <3>3. Root \in graph[x] /\ graph \in [Blocks -> SUBSET (Blocks \ {Root})]
      BY <3>2, GraphsAssumption DEF GraphInv, IsFunctionCfg
    <3> QED
      BY <3>2, <3>3
  <2> QED
    BY <2>1, <2>2
<1> QED
    BY <1>1, <1>2

(* Every block is reached from the entry: a component is entered from a     *)
(* node that is left or led to by a base.                                   *)
LEMMA BasesExist ==
    ASSUME GraphInv, SccInv, NEW c \in sccs
    PROVE  Bases(c) # {} /\ Bases(c) \subseteq c
<1>1. c \subseteq nodes /\ c # {} /\ Root \notin c /\ nodes \subseteq Blocks
    BY DEF SccInv, GraphInv
<1>2. ASSUME Entered(c) = {}, LedTo(c) = {} PROVE FALSE
  <2> DEFINE S == Blocks \ c
  <2>1. ASSUME NEW x \in S, NEW y \in graph[x], y \in c PROVE FALSE
    <3>1. y \in nodes /\ x \in Blocks /\ y \in graph[x] \cap nodes
      BY <1>1, <2>1
    <3>2. CASE x \in nodes
      <4>1. x \in prevs[y] \ c
        BY <2>1, <3>1, <3>2 DEF GraphInv, Preds
      <4> QED
        BY <1>2, <2>1, <4>1 DEF Entered
    <3>3. CASE x \notin nodes
      <4>1. x \in reserved /\ y \in succs[x]
        BY <3>1, <3>3 DEF GraphInv
      <4> QED
        BY <1>2, <2>1, <4>1 DEF LedTo
    <3> QED
      BY <3>2, <3>3
  <2>2. \A x \in Blocks : graph[x] \subseteq Blocks
    BY GraphsAssumption DEF GraphInv, IsFunctionCfg
  <2>3. Root \in S /\ \A x \in S : graph[x] \subseteq S
    BY <1>1, <2>1, <2>2, RootAssumption
  <2>4. AllReachable(graph)
    BY GraphsAssumption DEF GraphInv, IsFunctionCfg
  <2>5. S = Blocks
    BY <2>3, <2>4 DEF AllReachable
  <2> QED
    BY <1>1, <2>5
<1> QED
    BY <1>2 DEF Bases, Entered, LedTo

(* A base is taken out.                                                     *)
LEMMA TakingOut ==
    ASSUME GraphInv, SccInv, LoopInv, NEW c \in sccs, NEW base \in c,
           Recorded(c, base), Remove(base), sccs' = sccs \ {c}, graph' = graph
    PROVE  GraphInv' /\ SccInv' /\ LoopInv'
<1>1. /\ c \subseteq nodes /\ base \in nodes /\ base \in Blocks /\ nodes \subseteq Blocks
      /\ Connected(c) /\ Convex(c)
    BY DEF SccInv, GraphInv
<1>2. /\ reserved' = reserved \cup {base} /\ nodes' = nodes \ {base}
      /\ prevs' = CutPrevs(base) /\ succs' = CutSuccs(base)
    BY DEF Remove
<1>3. /\ succs \in [Blocks -> SUBSET Blocks] /\ prevs \in [Blocks -> SUBSET Blocks]
      /\ \A n \in nodes : succs[n] = graph[n] \cap nodes
      /\ \A n \in nodes : prevs[n] = Preds(graph, n) \cap nodes
      /\ \A b \in Blocks : graph[b] \cap nodes \subseteq succs[b] /\ succs[b] \subseteq graph[b]
      /\ reserved = Blocks \ nodes
    BY DEF GraphInv
<1>4. \A b \in Blocks : /\ succs'[b] \subseteq succs[b]
                        /\ \A s \in succs[b] : s # base => s \in succs'[b]
    BY <1>2, <1>3 DEF CutSuccs
<1>5. GraphInv'
  <2>1. succs' \in [Blocks -> SUBSET Blocks] /\ prevs' \in [Blocks -> SUBSET Blocks]
    BY <1>2, <1>3 DEF CutSuccs, CutPrevs
  <2>2. ASSUME NEW n \in nodes' PROVE succs'[n] = graph[n] \cap nodes'
    <3>1. n \in nodes /\ n # base /\ n \in Blocks
      BY <1>1, <1>2
    <3>2. n \in prevs[base] \/ base \notin graph[n]
      BY <1>1, <1>3, <3>1 DEF Preds
    <3> QED
      BY <1>2, <1>3, <3>1, <3>2 DEF CutSuccs
  <2>3. ASSUME NEW n \in nodes' PROVE prevs'[n] = Preds(graph, n) \cap nodes'
    <3>1. n \in nodes /\ n # base /\ n \in Blocks
      BY <1>1, <1>2
    <3>2. n \in succs[base] \/ base \notin Preds(graph, n)
      BY <1>1, <1>3, <3>1 DEF Preds
    <3> QED
      BY <1>2, <1>3, <3>1, <3>2 DEF CutPrevs
  <2>4. \A b \in Blocks : graph[b] \cap nodes' \subseteq succs'[b] /\ succs'[b] \subseteq graph[b]
    BY <1>2, <1>3, <1>4
  <2>5. graph' \in Graphs /\ nodes' \subseteq Blocks /\ reserved' = Blocks \ nodes'
    BY <1>1, <1>2, <1>3 DEF GraphInv
  <2>6. \A n \in nodes' : succs'[n] = graph'[n] \cap nodes'
    BY <2>2
  <2>7. \A n \in nodes' : prevs'[n] = Preds(graph', n) \cap nodes'
    BY <2>3
  <2>8. \A b \in Blocks : graph'[b] \cap nodes' \subseteq succs'[b] /\ succs'[b] \subseteq graph'[b]
    BY <2>4
  <2> QED
    BY <2>1, <2>5, <2>6, <2>7, <2>8 DEF GraphInv
<1> DEFINE Cl(D) == D \subseteq Blocks /\ \A x \in D : succs'[x] \subseteq D
           Cx(l) == \E D, E \in SUBSET Blocks : Cl(D) /\ Cl(E) /\ D \subseteq E /\ l = E \ D
<1>6. ASSUME NEW l, Convex(l) PROVE Cx(l)
  <2>1. PICK D, E \in SUBSET Blocks : ClosedIn(succs, D) /\ ClosedIn(succs, E) /\ D \subseteq E /\ l = E \ D
    BY <1>6 DEF Convex, ConvexIn
  <2>2. Cl(D) /\ Cl(E)
    BY <1>4, <2>1 DEF ClosedIn
  <2> QED
    BY <2>1, <2>2
<1> HIDE DEF Cx
<1>7. SccInv'
  <2> SUFFICES ASSUME NEW d \in sccs, d # c
               PROVE  /\ d \subseteq nodes' /\ d # {} /\ Root \notin d
                      /\ Connected(d)' /\ Convex(d)'
    BY DEF SccInv
  <2>1. d \subseteq nodes /\ d # {} /\ Root \notin d /\ Connected(d) /\ Convex(d)
    BY DEF SccInv
  <2>2. base \notin d
    BY <1>1, <2>1, ConnectedInConvex
  <2>3. ASSUME NEW X \in SUBSET d, X # {}, X # d
        PROVE  \E x \in X : \E y \in d \ X : y \in succs'[x]
    <3>1. PICK x \in X, y \in d \ X : y \in succs[x]
      BY <2>1, <2>3 DEF Connected, ConnectedIn
    <3>2. x \in Blocks /\ y # base
      BY <1>1, <2>1, <2>2, <3>1
    <3> QED
      BY <1>4, <3>1, <3>2
  <2>4. Connected(d)'
    BY <2>3 DEF Connected, ConnectedIn
  <2>5. Cx(d)
    BY <1>6, <2>1
  <2>6. Convex(d)'
    BY <2>5 DEF Cx, Convex, ConvexIn, ClosedIn
  <2> QED
    BY <1>2, <2>1, <2>2, <2>4, <2>6
<1>8. /\ base \notin DOMAIN base2loop
      /\ DOMAIN base2loop' = reserved' /\ base2loop'[base] = c
      /\ \A b \in reserved : b # base /\ base2loop'[b] = base2loop[b]
  <2>1. base \notin DOMAIN base2loop /\ DOMAIN base2loop = reserved
    BY <1>1, <1>3 DEF LoopInv
  <2>2. base2loop' = With(base2loop, {base} \ DOMAIN base2loop, c)
    BY DEF Recorded
  <2>3. base2loop' = With(base2loop, {base}, c)
    BY <2>1, <2>2
  <2> QED
    BY <1>2, <2>1, <2>3 DEF With
<1>9. Loops' = Loops \cup {c}
  <2>1. Loops = {base2loop[b] : b \in reserved} /\ Loops' = {base2loop'[b] : b \in reserved'}
    BY <1>8 DEF Loops, LoopInv
  <2> QED
    BY <1>2, <1>8, <2>1
<1>10. \A l \in Loops : Convex(l) /\ l \subseteq Blocks
    BY DEF Loops, LoopInv
<1>11. \A l \in Loops : c \cap l = {} \/ c \subseteq l
    BY <1>1, <1>10, ConnectedInConvex
<1>12. /\ DOMAIN bb2base' = DOMAIN bb2base \cup c
       /\ \A b \in c : bb2base'[b] = base
       /\ \A b \in DOMAIN bb2base \ c : bb2base'[b] = bb2base[b]
    BY DEF Recorded, Rebased, With
<1>13. ASSUME NEW b \in DOMAIN bb2base'
       PROVE  /\ bb2base'[b] \in reserved'
              /\ b \in base2loop'[bb2base'[b]]
              /\ \A l \in Loops' : b \in l => base2loop'[bb2base'[b]] \subseteq l
  <2>1. CASE b \in c
    <3>1. bb2base'[b] = base /\ base2loop'[base] = c
      BY <1>8, <1>12, <2>1
    <3>2. \A l \in Loops' : b \in l => c \subseteq l
      BY <1>9, <1>11, <2>1
    <3> QED
      BY <1>2, <2>1, <3>1, <3>2
  <2>2. CASE b \notin c
    <3>1. b \in DOMAIN bb2base /\ bb2base'[b] = bb2base[b]
      BY <1>12, <1>13, <2>2
    <3>2. /\ bb2base[b] \in reserved /\ b \in base2loop[bb2base[b]]
          /\ \A l \in Loops : b \in l => base2loop[bb2base[b]] \subseteq l
      BY <3>1 DEF LoopInv
    <3>3. base2loop'[bb2base[b]] = base2loop[bb2base[b]]
      BY <1>8, <3>2
    <3> QED
      BY <1>2, <1>9, <2>2, <3>1, <3>2, <3>3
  <2> QED
    BY <2>1, <2>2
<1>14. LoopInv'
  <2>1. ASSUME NEW b \in reserved' PROVE base2loop'[b] \subseteq Blocks /\ Cx(base2loop'[b])
    <3>1. CASE b = base
      BY <1>1, <1>6, <1>8, <3>1
    <3>2. CASE b # base
      <4>1. b \in reserved /\ base2loop'[b] = base2loop[b]
        BY <1>2, <1>8, <2>1, <3>2
      <4>2. base2loop[b] \subseteq Blocks /\ Convex(base2loop[b])
        BY <4>1 DEF LoopInv
      <4>3. Cx(base2loop'[b])
        BY <1>6, <4>1, <4>2
      <4> QED
        BY <4>1, <4>2, <4>3
    <3> QED
      BY <3>1, <3>2
  <2>2. DOMAIN bb2base' = UNION Loops'
    BY <1>9, <1>12 DEF LoopInv
  <2>3. \A l, m \in Loops' : l \cap m = {} \/ l \subseteq m \/ m \subseteq l
    BY <1>9, <1>11 DEF LoopInv
  <2> QED
    BY <1>8, <1>13, <2>1, <2>2, <2>3 DEF LoopInv, Convex, ConvexIn, ClosedIn, Cx
<1> QED
    BY <1>5, <1>7, <1>14

-----------------------------------------------------------------------------
(* The searches, one after the other.                                       *)

(* build_cfg begins with nothing visited and nothing found.                 *)
LEMMA Initially == Init => IInv
<1> SUFFICES ASSUME Init PROVE IInv
    OBVIOUS
<1>1. /\ graph \in Graphs /\ succs = graph /\ prevs = [b \in Blocks |-> Preds(graph, b)]
      /\ index = [b \in Blocks |-> -1] /\ lowlink = [b \in Blocks |-> -1]
      /\ stack = <<>> /\ calls = <<>> /\ nodes = Blocks /\ sccs = {} /\ reserved = {}
      /\ base2loop = << >> /\ bb2base = << >> /\ pc = "search"
    BY DEF Init
<1>2. graph \in [Blocks -> SUBSET Blocks] /\ \A b \in Blocks : Preds(graph, b) \subseteq Blocks
    BY <1>1, GraphsAssumption DEF IsFunctionCfg, Preds
<1>3. GraphInv
    BY <1>1, <1>2 DEF GraphInv
<1>4. Cardinality(Blocks) \in Nat /\ IndexCount = 0 /\ -1 \in -1 .. Cardinality(Blocks) - 1
  <2>1. {n \in nodes : index[n] # -1} = {}
    BY <1>1
  <2>2. Cardinality(Blocks) \in Nat
    BY BlocksAssumption, FS_CardinalityType
  <2> QED
    BY <2>1, <2>2, FS_EmptySet DEF IndexCount
<1>5. Len(stack) = 0 /\ Len(calls) = 0 /\ stack \in Seq(Blocks)
      /\ calls \in Seq([node : Blocks, todo : SUBSET Blocks])
    BY <1>1
<1>6. Stacked = {} /\ Active = {}
    BY <1>5 DEF Stacked, Active
<1>7. StackInv
    BY <1>1, <1>4, <1>5, <1>6 DEF StackInv
<1>8. CallsInv
    BY <1>1, <1>5, <1>6 DEF CallsInv
<1>9. VisitedInv /\ CountedInv /\ TreeInv /\ LowInv
    BY <1>1, <1>5, <1>6 DEF VisitedInv, CountedInv, TreeInv, LowInv, Visited
<1>10. SccInv /\ PcInv
    BY <1>1 DEF SccInv, PcInv
<1>11. Loops = {} /\ DOMAIN base2loop = {} /\ DOMAIN bb2base = {}
    BY <1>1 DEF Loops
<1>12. LoopInv
    BY <1>1, <1>11 DEF LoopInv
<1> QED
    BY <1>3, <1>7, <1>8, <1>9, <1>10, <1>12 DEF IInv

(* What a call does is nothing to the graph and the tables.                 *)
LEMMA TablesKept ==
    ASSUME GraphInv, LoopInv, PcInv, pc' = pc, pc # "done",
           UNCHANGED <<graph, succs, prevs, nodes, reserved, base2loop, bb2base>>
    PROVE  GraphInv' /\ LoopInv' /\ PcInv'
<1>1. GraphInv'
    BY DEF GraphInv
<1>2. LoopInv'
    BY DEF LoopInv, Convex, Loops
<1>3. PcInv'
    BY DEF PcInv
<1> QED
    BY <1>1, <1>2, <1>3

(* The search ends, or begins again without marks.                          *)
LEMMA Searching ==
    ASSUME GraphInv, SearchInv, EndSearch \/ SearchAgain
    PROVE  SearchInv'
<1>1. /\ calls = <<>> /\ stack = <<>> /\ stack' = <<>> /\ calls' = <<>>
      /\ succs' = succs /\ nodes' = nodes /\ nodes \subseteq Blocks
      /\ index \in [Blocks -> -1 .. Cardinality(Blocks) - 1]
      /\ lowlink \in [Blocks -> -1 .. Cardinality(Blocks) - 1]
    BY DEF EndSearch, SearchAgain, SearchInv, CallsInv, StackInv, GraphInv, tarjan
<1>2. /\ Len(stack') = 0 /\ Len(calls') = 0 /\ stack' \in Seq(Blocks)
      /\ calls' \in Seq([node : Blocks, todo : SUBSET Blocks])
    BY <1>1
<1>3. Stacked' = {} /\ Active' = {}
    BY <1>2 DEF Stacked, Active
<1>4. CallsInv'
    BY <1>1, <1>2, <1>3 DEF CallsInv
<1>5. CountedInv' /\ TreeInv' /\ LowInv'
    BY <1>2, <1>3 DEF CountedInv, TreeInv, LowInv
<1>6. StackInv' /\ VisitedInv'
  <2>1. CASE EndSearch
    <3>1. pc' # "search" /\ index' = index /\ lowlink' = lowlink
      BY <2>1 DEF EndSearch, tarjan
    <3> QED
      BY <1>1, <1>2, <1>3, <3>1 DEF StackInv, VisitedInv
  <2>2. CASE SearchAgain
    <3>1. /\ index' = [n \in Blocks |-> IF n \in nodes THEN -1 ELSE index[n]]
          /\ lowlink' = [n \in Blocks |-> IF n \in nodes THEN -1 ELSE lowlink[n]]
      BY <2>2 DEF SearchAgain
    <3>2. Cardinality(Blocks) \in Nat
      BY BlocksAssumption, FS_CardinalityType
    <3>3. /\ index' \in [Blocks -> -1 .. Cardinality(Blocks) - 1]
          /\ lowlink' \in [Blocks -> -1 .. Cardinality(Blocks) - 1]
          /\ \A n \in nodes' : index'[n] = -1
      BY <1>1, <3>1, <3>2
    <3>4. IndexCount' = 0
      <4>1. {n \in nodes' : index'[n] # -1} = {}
        BY <3>3
      <4> QED
        BY <4>1, FS_EmptySet DEF IndexCount
    <3>5. StackInv'
      BY <1>2, <1>3, <3>3, <3>4 DEF StackInv
    <3>6. VisitedInv'
      BY <1>3, <3>3 DEF VisitedInv, Visited
    <3> QED
      BY <3>5, <3>6
  <2> QED
    BY <2>1, <2>2
<1> QED
    BY <1>4, <1>5, <1>6 DEF SearchInv

(* Nothing is on the stack while bases are taken out.                       *)
LEMMA SearchKept ==
    ASSUME SearchInv, pc # "search", pc' # "search", nodes' \subseteq nodes, UNCHANGED tarjan
    PROVE  SearchInv'
<1>1. /\ calls = <<>> /\ stack = <<>> /\ stack' = <<>> /\ calls' = <<>>
      /\ index' = index /\ lowlink' = lowlink
      /\ index \in [Blocks -> -1 .. Cardinality(Blocks) - 1]
      /\ lowlink \in [Blocks -> -1 .. Cardinality(Blocks) - 1]
    BY DEF SearchInv, CallsInv, StackInv, tarjan
<1>2. /\ Len(stack') = 0 /\ Len(calls') = 0 /\ stack' \in Seq(Blocks)
      /\ calls' \in Seq([node : Blocks, todo : SUBSET Blocks])
    BY <1>1
<1>3. Stacked' = {} /\ Active' = {}
    BY <1>2 DEF Stacked, Active
<1>4. StackInv' /\ CallsInv'
    BY <1>1, <1>2, <1>3 DEF CallsInv, StackInv
<1>5. VisitedInv' /\ CountedInv' /\ TreeInv' /\ LowInv'
    BY <1>2, <1>3 DEF VisitedInv, CountedInv, TreeInv, LowInv
<1> QED
    BY <1>4, <1>5 DEF SearchInv

(* Every step keeps the invariant.                                          *)
LEMMA Inductive == IInv /\ [Next]_vars => IInv'
<1> SUFFICES ASSUME IInv, [Next]_vars PROVE IInv'
    OBVIOUS
<1>1. GraphInv /\ SearchInv /\ SccInv /\ LoopInv /\ PcInv
    BY DEF IInv, SearchInv
<1>2. CASE Start \/ Traverse \/ Look
  <2>1. /\ SearchInv' /\ pc' = pc /\ pc # "done"
        /\ UNCHANGED <<graph, succs, prevs, nodes, sccs, reserved, base2loop, bb2base>>
    <3>1. pc # "done"
      BY <1>1, <1>2 DEF Start, Traverse, Look, SearchInv, CallsInv
    <3>2. CASE Start \/ Traverse
      BY <1>1, <3>1, <3>2, Pushing DEF SearchInv
    <3>3. CASE Look
      BY <1>1, <3>1, <3>3, Looking DEF SearchInv
    <3> QED
      BY <1>2, <3>2, <3>3
  <2>2. GraphInv' /\ LoopInv' /\ PcInv'
    BY <1>1, <2>1, TablesKept
  <2>3. SccInv'
    BY <1>1, <2>1 DEF SccInv, Connected, Convex
  <2> QED
    BY <2>1, <2>2, <2>3 DEF IInv, SearchInv
<1>3. CASE Return
  <2>1. /\ SearchInv' /\ pc' = pc /\ pc # "done"
        /\ UNCHANGED <<graph, succs, prevs, nodes, reserved, base2loop, bb2base>>
        /\ \A c \in sccs' \ sccs : c \subseteq nodes /\ c # {} /\ Root \notin c
                                   /\ Connected(c) /\ Convex(c)
    <3>1. pc # "done" /\ calls # <<>> /\ Todo = {}
      BY <1>1, <1>3 DEF Return, SearchInv, CallsInv
    <3>2. CASE index[Current] # lowlink[Current]
      BY <1>1, <1>3, <3>1, <3>2, ReturningInside DEF SearchInv
    <3>3. CASE index[Current] = lowlink[Current]
      <4> DEFINE C == {x \in Stacked : index[x] >= index[Current]}
      <4>1. /\ StackInv' /\ CallsInv' /\ VisitedInv' /\ CountedInv' /\ TreeInv' /\ LowInv'
            /\ sccs' = sccs \cup Kept(C)
            /\ UNCHANGED <<graph, succs, prevs, nodes, reserved, base2loop, bb2base, pc>>
        BY <1>1, <1>3, <3>3, ReturningRoot DEF SearchInv
      <4>2. Convex(C) /\ Connected(C) /\ C # {} /\ C \subseteq nodes
        BY <1>1, <3>1, <3>3, ComponentFound DEF SearchInv
      <4> HIDE DEF C
      <4>3. \A c \in Kept(C) : c \subseteq nodes /\ c # {} /\ Root \notin c
                               /\ Connected(c) /\ Convex(c)
        BY <1>1, <4>2, SccKept
      <4> QED
        BY <3>1, <4>1, <4>3 DEF SearchInv
    <3> QED
      BY <3>2, <3>3
  <2>2. GraphInv' /\ LoopInv' /\ PcInv'
    BY <1>1, <2>1, TablesKept
  <2>3. SccInv'
    BY <1>1, <2>1 DEF SccInv, Connected, Convex
  <2> QED
    BY <2>1, <2>2, <2>3 DEF IInv, SearchInv
<1>4. CASE EndSearch \/ SearchAgain
  <2>1. SearchInv'
    BY <1>1, <1>4, Searching
  <2>2. /\ UNCHANGED <<graph, succs, prevs, nodes, sccs, reserved, base2loop, bb2base>>
        /\ pc' \in {"search", "bases", "done"} /\ (pc' = "done" => sccs' = {})
    BY <1>4 DEF EndSearch, SearchAgain
  <2>3. GraphInv' /\ PcInv'
    BY <1>1, <2>2 DEF GraphInv, PcInv
  <2>4. SccInv' /\ LoopInv'
    BY <1>1, <2>2 DEF SccInv, LoopInv, Loops, Connected, Convex
  <2> QED
    BY <2>1, <2>3, <2>4 DEF IInv, SearchInv
<1>5. CASE TakeOut
  <2>1. PICK c \in sccs : /\ \E base \in Bases(c) : Recorded(c, base) /\ Remove(base)
                          /\ sccs' = sccs \ {c} /\ pc' = pc
    BY <1>1, <1>5, BasesExist DEF TakeOut
  <2>2. PICK base \in Bases(c) : Recorded(c, base) /\ Remove(base)
    BY <2>1
  <2>3. base \in c /\ graph' = graph /\ UNCHANGED tarjan /\ pc = "bases"
    BY <1>1, <1>5, <2>1, <2>2, BasesExist DEF TakeOut
  <2>4. GraphInv' /\ SccInv' /\ LoopInv'
    BY <1>1, <2>1, <2>2, <2>3, TakingOut
  <2>5. SearchInv'
    BY <1>1, <2>1, <2>2, <2>3, SearchKept DEF Remove
  <2>6. PcInv'
    BY <1>1, <2>1, <2>3 DEF PcInv
  <2> QED
    BY <2>4, <2>5, <2>6 DEF IInv, SearchInv
<1>6. CASE UNCHANGED vars
  <2>1. UNCHANGED <<graph, succs, prevs, index, lowlink, stack, calls, nodes, sccs, reserved,
                    base2loop, bb2base, pc>>
    BY <1>6 DEF vars, tarjan
  <2>2. GraphInv' /\ PcInv'
    BY <1>1, <2>1 DEF GraphInv, PcInv
  <2>6. StackInv' /\ CallsInv'
    <3>1. Stacked' = Stacked /\ Active' = Active /\ IndexCount' = IndexCount
      BY <2>1 DEF Stacked, Active, Node, IndexCount
    <3> QED
      BY <1>1, <2>1, <3>1 DEF SearchInv, StackInv, CallsInv, Node
  <2>3. SccInv' /\ LoopInv'
    BY <1>1, <2>1 DEF SccInv, LoopInv, Loops, Connected, Convex
  <2>4. VisitedInv' /\ CountedInv' /\ TreeInv'
    BY <1>1, <2>1 DEF SearchInv, VisitedInv, CountedInv, TreeInv, Stacked, Visited, Seens, SeenBy, Node
  <2>5. LowInv'
    <3>1. Stacked' = Stacked /\ Active' = Active
      BY <2>1 DEF Stacked, Active, Node
    <3>2. \A X, x : UpwardsIn(succs', Stacked', index', X, x) <=> Upwards(X, x)
      BY <2>1, <3>1 DEF Upwards
    <3>3. LowInv
      BY <1>1 DEF SearchInv
    <3>4. \A x \in Stacked' \ Active' : \A X \in SUBSET Stacked' :
              UpwardsIn(succs', Stacked', index', X, x) =>
                  \E y \in X : \E m \in succs'[y] \cap Stacked' : index'[m] < index'[x]
      BY <2>1, <3>1, <3>2, <3>3 DEF LowInv
    <3>5. \A k \in 1 .. Len(calls') : lowlink'[calls'[k].node] < index'[calls'[k].node] =>
              \A X \in SUBSET Stacked' : UpwardsIn(succs', Stacked', index', X, calls'[k].node) =>
                  \E y \in X : \E m \in succs'[y] \cap Stacked' :
                      index'[m] = lowlink'[calls'[k].node]
      BY <2>1, <3>1, <3>2, <3>3 DEF LowInv, Node
    <3> QED
      BY <3>4, <3>5 DEF LowInv, Upwards, Node
  <2> QED
    BY <2>2, <2>3, <2>4, <2>5, <2>6 DEF IInv
<1> QED
    BY <1>2, <1>3, <1>4, <1>5, <1>6 DEF Next

(* The invariant holds in every state the pass reaches.                     *)
THEOREM SearchInvariant == Spec => []IInv
    BY Initially, Inductive, PTL DEF Spec

-----------------------------------------------------------------------------
(* Every component has a base: find_loop_base never returns null, and the   *)
(* pass never goes through it, whatever was taken out before.               *)
THEOREM ComponentsHaveBases == Spec => []BaseFound
<1>1. IInv => BaseFound
    BY DEF IInv, PcInv, BaseFound
<1> QED
    BY <1>1, SearchInvariant, PTL

(* The tables are tables of blocks and loops, and two loops have no block   *)
(* in common, or one is inside the other.                                   *)
THEOREM LoopsAreNested == Spec => []LoopsNest
<1>1. IInv => LoopsNest
  <2> SUFFICES ASSUME IInv PROVE LoopsNest
    OBVIOUS
  <2>1. GraphInv /\ StackInv /\ CallsInv /\ SccInv /\ LoopInv /\ PcInv
    BY DEF IInv
  <2>2. graph \in [Blocks -> SUBSET Blocks] /\ nodes \subseteq Blocks /\ reserved \subseteq Blocks
    BY <2>1, GraphsAssumption DEF GraphInv, IsFunctionCfg
  <2>3. \A b \in DOMAIN base2loop : b \in Blocks /\ base2loop[b] \in SUBSET Blocks
    BY <2>1, <2>2 DEF LoopInv
  <2>4. \A b \in DOMAIN bb2base : b \in Blocks /\ bb2base[b] \in DOMAIN base2loop
    BY <2>1, <2>2 DEF LoopInv, Loops
  <2>5. sccs \in SUBSET SUBSET Blocks
    BY <2>1, <2>2 DEF SccInv
  <2>6. TypeOK
    BY <2>1, <2>2, <2>3, <2>4, <2>5 DEF TypeOK, GraphInv, StackInv, CallsInv, PcInv
  <2> QED
    BY <2>1, <2>6 DEF LoopsNest, LoopInv
<1> QED
    BY <1>1, SearchInvariant, PTL

(* A block of a loop has the base of the innermost loop around it.          *)
LEMMA Innermost == IInv => InnermostFound
<1> SUFFICES ASSUME IInv, NEW b \in Blocks
             PROVE  IF Enclosing(b) = {} THEN get_inner_loop(b) = None
                    ELSE /\ get_inner_loop(b) \in Enclosing(b)
                         /\ \A l \in Enclosing(b) : get_inner_loop(b) \subseteq l
  BY DEF InnermostFound
<1>1. LoopInv
  BY DEF IInv
<1>2. b \in DOMAIN bb2base <=> Enclosing(b) # {}
  BY <1>1 DEF LoopInv, Enclosing
<1>3. CASE b \in DOMAIN bb2base
  <2>1. get_inner_loop(b) = base2loop[bb2base[b]]
    BY <1>3 DEF get_inner_loop
  <2>2. base2loop[bb2base[b]] \in Loops
    BY <1>1, <1>3 DEF LoopInv, Loops
  <2> QED
    BY <1>1, <1>2, <1>3, <2>1, <2>2 DEF LoopInv, Enclosing
<1>4. CASE b \notin DOMAIN bb2base
  BY <1>2, <1>4 DEF get_inner_loop
<1> QED
  BY <1>3, <1>4

(* When the pass is done, get_inner_loop gives the innermost loop of every  *)
(* block, and none to a block in no loop.                                   *)
THEOREM InnermostLoops == Spec => []InnermostFound
    BY Innermost, SearchInvariant, PTL

-----------------------------------------------------------------------------
(* No component is missed.                                                  *)

Several(X) == \E x, y \in X : x # y

(* What a search has finished is in the components it has found, and in the *)
(* end there are no cycles left but those of one block.                     *)
FoundInv ==
    /\ \A c \in sccs : Several(c)
    /\ pc = "search" => \A X \in SUBSET Finished : Several(X) /\ Connected(X) =>
                            \E c \in sccs : X \subseteq c
    /\ pc = "done" => \A X \in SUBSET nodes : ~ (Several(X) /\ Connected(X))

(* The root of a component takes all of it from the stack.                  *)
LEMMA ReturnFinds ==
    ASSUME IInv, FoundInv, Return
    PROVE  FoundInv'
<1>1. /\ GraphInv /\ StackInv /\ CallsInv /\ VisitedInv /\ CountedInv /\ TreeInv /\ LowInv
      /\ calls # <<>> /\ Todo = {} /\ pc = "search" /\ pc' = pc /\ succs' = succs
    BY DEF IInv, Return, CallsInv
<1>2. CASE index[Current] # lowlink[Current]
  <2>1. sccs' = sccs /\ stack' = stack /\ index' = index /\ nodes' = nodes
    BY <1>2 DEF Return
  <2>2. Finished' = Finished
    BY <2>1 DEF Finished, Visited, Stacked
  <2> QED
    BY <1>1, <2>1, <2>2 DEF FoundInv, Connected
<1>3. CASE index[Current] = lowlink[Current]
  <2> DEFINE C == {x \in Stacked : index[x] >= index[Current]}
  <2>1. sccs' = sccs \cup Kept(C) /\ Finished' \subseteq Finished \cup C
    BY <1>1, <1>3, ReturningRoot
  <2>2. Convex(C) /\ Connected(C) /\ C # {}
    BY <1>1, <1>3, ComponentFound
  <2> HIDE DEF C
  <2>3. Several(C) => Kept(C) = {C}
    <3> SUFFICES ASSUME Several(C), Cardinality(C) = 1 PROVE FALSE
      BY DEF Kept
    <3>1. IsFiniteSet(C)
      <4>1. C \subseteq Blocks
        BY <1>1, StackOrdered DEF C
      <4> QED
        BY <4>1, BlocksAssumption, FS_Subset
    <3>2. \E x : C = {x}
      BY <3>1, FS_Singleton
    <3> QED
      BY <3>2 DEF Several
  <2>4. \A c \in Kept(C) : Several(c)
    <3> SUFFICES ASSUME ~ Several(C), Cardinality(C) # 1 PROVE FALSE
      BY DEF Kept
    <3>1. PICK x \in C : TRUE
      BY <2>2
    <3>2. C = {x}
      BY <3>1 DEF Several
    <3> QED
      BY <3>2, FS_Singleton
  <2>5. ASSUME NEW X \in SUBSET Finished', Several(X), Connected(X)
        PROVE  \E c \in sccs' : X \subseteq c
    <3>1. CASE X \cap C = {}
      <4>1. X \in SUBSET Finished
        BY <2>1, <3>1
      <4>2. \E c \in sccs : X \subseteq c
        BY <1>1, <2>5, <4>1 DEF FoundInv
      <4> QED
        BY <2>1, <4>2
    <3>2. CASE X \cap C # {}
      <4>1. X \subseteq C
        BY <2>2, <2>5, <3>2, ConnectedInConvex
      <4>2. Several(C)
        BY <2>5, <4>1 DEF Several
      <4> QED
        BY <2>1, <2>3, <4>1, <4>2
    <3> QED
      BY <3>1, <3>2
  <2>6. \A c \in sccs' : Several(c)
    BY <2>1, <2>4 DEF FoundInv
  <2> QED
    BY <1>1, <2>5, <2>6 DEF FoundInv, Connected
<1> QED
    BY <1>2, <1>3

(* Every step keeps it.                                                     *)
LEMMA FoundStep == IInv /\ FoundInv /\ [Next]_vars => FoundInv'
<1> SUFFICES ASSUME IInv, FoundInv, [Next]_vars PROVE FoundInv'
    OBVIOUS
<1>1. /\ GraphInv /\ StackInv /\ CallsInv /\ VisitedInv /\ CountedInv /\ TreeInv /\ LowInv
    BY DEF IInv
<1>2. CASE Start \/ Traverse \/ Look
  <2>1. Finished' \subseteq Finished /\ UNCHANGED <<succs, nodes, sccs, pc>> /\ pc # "done"
    <3>1. pc # "done"
      BY <1>1, <1>2 DEF Start, Traverse, Look, CallsInv
    <3>2. CASE Start \/ Traverse
      BY <1>1, <3>1, <3>2, Pushing
    <3>3. CASE Look
      <4>1. UNCHANGED <<succs, nodes, sccs, pc, index, stack>>
        BY <3>3 DEF Look
      <4> QED
        BY <3>1, <4>1 DEF Finished, Visited, Stacked
    <3> QED
      BY <1>2, <3>2, <3>3
  <2> QED
    BY <2>1 DEF FoundInv, Connected
<1>3. CASE Return
    BY <1>3, ReturnFinds
<1>4. CASE EndSearch
  <2>1. /\ pc = "search" /\ calls = <<>> /\ (\A n \in nodes : index[n] # -1)
        /\ pc' = (IF sccs = {} THEN "done" ELSE "bases")
        /\ UNCHANGED <<succs, nodes, sccs>>
    BY <1>4 DEF EndSearch
  <2>2. stack = <<>>
    BY <1>1, <2>1 DEF CallsInv
  <2>3. Stacked = {}
    BY <2>2 DEF Stacked
  <2>4. Finished = nodes
    BY <2>1, <2>3 DEF Finished, Visited
  <2> QED
    BY <2>1, <2>4 DEF FoundInv, Connected
<1>5. CASE SearchAgain
  <2>1. /\ pc' = "search" /\ UNCHANGED <<nodes, sccs>>
        /\ index' = [n \in Blocks |-> IF n \in nodes THEN -1 ELSE index[n]]
    BY <1>5 DEF SearchAgain
  <2>2. Finished' = {}
    BY <1>1, <2>1 DEF Finished, Visited, GraphInv
  <2>3. \A X \in SUBSET Finished' : ~ Several(X)
    BY <2>2 DEF Several
  <2> QED
    BY <2>1, <2>3 DEF FoundInv
<1>6. CASE TakeOut
  <2>1. sccs' \subseteq sccs /\ pc' \in {"bases", "crash"}
    BY <1>6 DEF TakeOut
  <2> QED
    BY <2>1 DEF FoundInv
<1>7. CASE UNCHANGED vars
  <2>1. UNCHANGED <<succs, nodes, sccs, pc, index, stack>>
    BY <1>7 DEF vars, tarjan
  <2>2. Finished' = Finished
    BY <2>1 DEF Finished, Visited, Stacked
  <2> QED
    BY <2>1, <2>2 DEF FoundInv, Connected
<1> QED
    BY <1>2, <1>3, <1>4, <1>5, <1>6, <1>7 DEF Next

-----------------------------------------------------------------------------
(* Natural loops in a graph.                                                *)

(* A natural loop is closed under predecessors, but for those of its        *)
(* header, which dominates it.                                              *)
LEMMA NaturalLoopClosed ==
    ASSUME IsFunctionCfg(graph), NEW h \in Headers
    PROVE  LET L == NaturalLoop(h) IN
           /\ h \in Blocks /\ L \subseteq Blocks /\ h \in L
           /\ \A t \in Blocks : BackEdge(t, h) => t \in L
           /\ \A x \in L \ {h} : Preds(graph, x) \subseteq L
           /\ \A x \in L : Dominates(graph, h, x)
           /\ Several(L)
<1> DEFINE ends == {h} \cup {t \in Blocks : BackEdge(t, h)}
           closed == {S \in SUBSET Blocks :
                        ends \subseteq S /\ \A x \in S \ {h} : Preds(graph, x) \subseteq S}
           L == NaturalLoop(h)
<1>1. h \in Blocks
    BY DEF Headers
<1>2. L = {b \in Blocks : \A S \in closed : b \in S}
    BY DEF NaturalLoop
<1>3. ends \subseteq L /\ L \subseteq Blocks
    BY <1>1, <1>2
<1>4. \A x \in L \ {h} : Preds(graph, x) \subseteq L
    BY <1>2 DEF Preds
<1>5. \A x \in L : Dominates(graph, h, x)
  <2> DEFINE D == {x \in Blocks : Dominates(graph, h, x)}
  <2>1. ends \subseteq D
    BY <1>1, DominanceReflexive DEF BackEdge
  <2>2. \A x \in D \ {h} : Preds(graph, x) \subseteq D
    BY <1>1, DominatesPreds DEF Preds
  <2>3. D \in closed
    BY <2>1, <2>2
  <2> QED
    BY <1>2, <2>3
<1>6. Several(L)
    BY <1>1, <1>3 DEF Headers, Several
<1> QED
    BY <1>1, <1>3, <1>4, <1>5, <1>6

(* It is connected: what leads to the header again is all of it, and what   *)
(* the header leads to inside is all of it.                                 *)
LEMMA NaturalLoopConnected ==
    ASSUME IsFunctionCfg(graph), NEW h \in Headers
    PROVE  ConnectedIn(graph, NaturalLoop(h))
<1> DEFINE ends == {h} \cup {t \in Blocks : BackEdge(t, h)}
           closed == {S \in SUBSET Blocks :
                        ends \subseteq S /\ \A x \in S \ {h} : Preds(graph, x) \subseteq S}
           L == NaturalLoop(h)
<1>1. /\ h \in Blocks /\ L \subseteq Blocks /\ h \in L
      /\ \A t \in Blocks : BackEdge(t, h) => t \in L
      /\ \A x \in L \ {h} : Preds(graph, x) \subseteq L
      /\ \A x \in L : Dominates(graph, h, x)
    BY NaturalLoopClosed
<1>2. L = {b \in Blocks : \A S \in closed : b \in S}
    BY DEF NaturalLoop
<1> HIDE DEF L
<1> SUFFICES ASSUME NEW X \in SUBSET L, X # {}, X # L, \A x \in X : \A y \in L \ X : y \notin graph[x]
             PROVE  FALSE
    BY DEF ConnectedIn, L
<1> DEFINE Y == L \ X
<1>3. \A y \in Y \ {h} : Preds(graph, y) \subseteq Y
    BY <1>1 DEF Preds
<1>4. CASE h \notin X
  <2>1. \A t \in Blocks : BackEdge(t, h) => t \in Y
    BY <1>1, <1>4 DEF BackEdge
  <2>2. Y \in closed
    BY <1>1, <1>3, <1>4, <2>1
  <2> QED
    BY <1>2, <2>2
<1>5. CASE h \in X
  <2> DEFINE S == Blocks \ Y
  <2>1. Root \in S
    <3>1. ASSUME Root \in Y PROVE FALSE
      <4>1. h = Root
        BY <1>1, <3>1, RootDominated
      <4> QED
        BY <1>5, <3>1, <4>1
    <3> QED
      BY <3>1, RootAssumption
  <2>2. \A x \in S : graph[x] \subseteq S
    <3> SUFFICES ASSUME NEW x \in S, NEW y \in graph[x], y \in Y PROVE FALSE
      BY DEF IsFunctionCfg
    <3>1. x \in Preds(graph, y) /\ y # h
      BY <1>5 DEF Preds
    <3> QED
      BY <1>3, <3>1
  <2>3. S = Blocks
    BY <2>1, <2>2 DEF IsFunctionCfg, AllReachable
  <2> QED
    BY <1>1, <2>3
<1> QED
    BY <1>4, <1>5
(* In a graph in which every cycle has a back edge, one block of a          *)
(* connected set dominates it: one to which only back edges lead inside.    *)
LEMMA EntryDominates ==
    ASSUME IsFunctionCfg(graph), Reducible,
           NEW c \in SUBSET Blocks, c # {}, ConnectedIn(graph, c)
    PROVE  \E s \in c : \A x \in c : Dominates(graph, s, x)
<1> DEFINE Forward(p, x) == x \in graph[p] /\ ~ Dominates(graph, x, p)
           Sourceless == {S \in SUBSET c : S # {} /\ \A x \in S : \E p \in S : Forward(p, x)}
<1>1. c \notin Sourceless
  <2> SUFFICES ASSUME c \in Sourceless PROVE FALSE
    OBVIOUS
  <2> DEFINE f == [S \in Sourceless |-> S]
  <2>1. Sourceless # {} /\ Sourceless \subseteq SUBSET Blocks
    OBVIOUS
  <2>2. PICK S \in Sourceless : \A T \in Sourceless : f[T] \subseteq f[S] => f[T] = f[S]
    <3> HIDE DEF Sourceless
    <3>1. f \in [Sourceless -> SUBSET Blocks]
      BY <2>1
    <3> HIDE DEF f
    <3> QED
      BY <2>1, <3>1, SmallestSet
  <2>3. S \in (SUBSET Blocks) \ {{}}
    OBVIOUS
  <2>4. PICK x \in S : \A y \in graph[x] \cap S : Dominates(graph, y, x)
    BY <2>3 DEF Reducible
  <2>5. \A z \in S \ {x} : \E p \in S \ {x} : Forward(p, z)
    BY <2>4
  <2>6. S \ {x} # {}
    <3>1. PICK p \in S : Forward(p, x)
      OBVIOUS
    <3>2. p # x
      BY <3>1, DominanceReflexive
    <3> QED
      BY <3>1, <3>2
  <2>7. S \ {x} \in Sourceless
    BY <2>5, <2>6
  <2> HIDE DEF Sourceless
  <2>8. f[S \ {x}] = S \ {x} /\ f[S] = S
    BY <2>7
  <2> QED
    BY <2>2, <2>7, <2>8
<1>2. PICK s \in c : \A p \in c : ~ Forward(p, s)
    BY <1>1
<1>3. \A p \in c : s \in graph[p] => Dominates(graph, s, p)
    BY <1>2
<1> HIDE DEF Forward, Sourceless
<1> DEFINE A == {x \in c : Dominates(graph, s, x)}
<1>4. A = c
  <2> SUFFICES ASSUME A # c PROVE FALSE
    OBVIOUS
  <2>1. s \in A
    BY DominanceReflexive
  <2>2. c \ A \in SUBSET c /\ c \ A # {} /\ c \ A # c
    BY <2>1
  <2>3. PICK x \in c \ A : \E y \in c \ (c \ A) : y \in graph[x]
    BY <2>2 DEF ConnectedIn
  <2>4. PICK y \in A : y \in graph[x]
    BY <2>3
  <2>5. CASE y = s
    BY <1>3, <2>4, <2>5
  <2>6. CASE y # s
    <3>1. x \in Preds(graph, y) /\ y \in Blocks /\ s \in Blocks
      BY <2>4 DEF Preds
    <3>2. Dominates(graph, s, x)
      BY <2>4, <2>6, <3>1, DominatesPreds
    <3> QED
      BY <3>2
  <2> QED
    BY <2>5, <2>6
<1> QED
    BY <1>4

(* A connected set that a block of it dominates is in the natural loop of   *)
(* that block.                                                              *)
LEMMA ConnectedInLoop ==
    ASSUME IsFunctionCfg(graph), NEW c \in SUBSET Blocks, Several(c), ConnectedIn(graph, c),
           NEW s \in c, \A x \in c : Dominates(graph, s, x)
    PROVE  s \in Headers /\ c \subseteq NaturalLoop(s)
<1>1. PICK e \in c \ {s} : s \in graph[e]
  <2>1. c \ {s} \in SUBSET c /\ c \ {s} # {} /\ c \ {s} # c
    BY DEF Several
  <2>2. PICK x \in c \ {s} : \E y \in c \ (c \ {s}) : y \in graph[x]
    BY <2>1 DEF ConnectedIn
  <2> QED
    BY <2>2
<1>2. s \in Headers
    BY <1>1 DEF Headers, BackEdge
<1> DEFINE L == NaturalLoop(s)
<1>3. /\ s \in L
      /\ \A t \in Blocks : BackEdge(t, s) => t \in L
      /\ \A x \in L \ {s} : Preds(graph, x) \subseteq L
    BY <1>2, NaturalLoopClosed
<1> HIDE DEF L
<1>4. c \subseteq L
  <2> SUFFICES ASSUME c \ L # {} PROVE FALSE
    OBVIOUS
  <2>1. c \ L \in SUBSET c /\ c \ L # c
    BY <1>3
  <2>2. PICK x \in c \ L : \E y \in c \ (c \ L) : y \in graph[x]
    BY <2>1 DEF ConnectedIn
  <2>3. PICK y \in c \cap L : y \in graph[x]
    BY <2>2
  <2>4. y # s
    BY <1>3, <2>3 DEF BackEdge
  <2>5. x \in Preds(graph, y)
    BY <2>3 DEF Preds
  <2> QED
    BY <1>3, <2>3, <2>4, <2>5
<1> QED
    BY <1>2, <1>4 DEF L

-----------------------------------------------------------------------------
(* The loops found are the natural loops.                                   *)

(* Outer loops are found before inner ones.                                 *)
NaturalInv ==
    /\ base2loop = [h \in reserved |-> base2loop[h]]
    /\ Reducible =>
          /\ reserved \subseteq Headers
          /\ \A h \in reserved : base2loop[h] = NaturalLoop(h)
          /\ \A h \in Headers : NaturalLoop(h) \cap reserved # {} => h \in reserved

(* A natural loop whose header is left is left, with its edges.             *)
LEMMA LoopLeft ==
    ASSUME GraphInv, NaturalInv, Reducible, NEW h \in Headers, h \notin reserved
    PROVE  NaturalLoop(h) \subseteq nodes /\ Connected(NaturalLoop(h))
<1>1. IsFunctionCfg(graph)
    BY GraphsAssumption DEF GraphInv
<1> DEFINE L == NaturalLoop(h)
<1>2. L \subseteq Blocks /\ ConnectedIn(graph, L)
    BY <1>1, NaturalLoopClosed, NaturalLoopConnected
<1>3. L \cap reserved = {}
    BY DEF NaturalInv
<1> HIDE DEF L
<1>4. L \subseteq nodes
    BY <1>2, <1>3 DEF GraphInv
<1>5. Connected(L)
    BY <1>2, <1>4 DEF Connected, ConnectedIn, GraphInv
<1> QED
    BY <1>4, <1>5 DEF L

(* A component is the natural loop of the one base it can have.             *)
LEMMA ComponentIsLoop ==
    ASSUME GraphInv, SccInv, NaturalInv, Reducible, NEW c \in sccs, Several(c), NEW base \in Bases(c)
    PROVE  base \in Headers /\ base \in c /\ c = NaturalLoop(base)
<1>1. IsFunctionCfg(graph)
    BY GraphsAssumption DEF GraphInv
<1>2. /\ c \subseteq nodes /\ c # {} /\ Connected(c) /\ Convex(c)
      /\ c \subseteq Blocks /\ nodes \subseteq Blocks /\ reserved = Blocks \ nodes
      /\ \A b \in Blocks : succs[b] \subseteq graph[b]
      /\ \A n \in nodes : prevs[n] \subseteq Preds(graph, n)
    BY DEF SccInv, GraphInv
<1>3. ConnectedIn(graph, c)
    BY <1>2 DEF Connected, ConnectedIn
<1>4. PICK s \in c : \A x \in c : Dominates(graph, s, x)
    BY <1>1, <1>2, <1>3, EntryDominates
<1>5. s \in Headers /\ c \subseteq NaturalLoop(s)
    BY <1>1, <1>2, <1>3, <1>4, ConnectedInLoop
<1>6. NaturalLoop(s) \subseteq c
  <2>1. Connected(NaturalLoop(s))
    BY <1>2, <1>4, <1>5, LoopLeft
  <2>2. NaturalLoop(s) \cap c # {}
    BY <1>4, <1>5
  <2> QED
    BY <1>2, <2>1, <2>2, ConnectedInConvex
<1>7. \A x \in c \ {s} : Preds(graph, x) \subseteq c
    BY <1>1, <1>5, <1>6, NaturalLoopClosed
<1>8. base \in c /\ base = s
  <2>1. base \in Entered(c) \/ base \in LedTo(c)
    BY DEF Bases
  <2>2. CASE base \in Entered(c)
    <3>1. base \in c /\ prevs[base] \ c # {}
      BY <2>2 DEF Entered
    <3> QED
      BY <1>2, <1>7, <3>1
  <2>3. CASE base \in LedTo(c)
    <3>1. base \in c /\ \E r \in reserved : base \in succs[r]
      BY <2>3 DEF LedTo
    <3>2. PICK r \in reserved : base \in succs[r]
      BY <3>1
    <3>3. r \in Preds(graph, base) /\ r \notin c
      BY <1>2, <3>2 DEF Preds
    <3> QED
      BY <1>7, <3>1, <3>3
  <2> QED
    BY <2>1, <2>2, <2>3
<1> QED
    BY <1>5, <1>6, <1>8

(* A base that is taken out is the header of a loop, and the loops around   *)
(* have been taken out before.                                              *)
LEMMA TakingNatural ==
    ASSUME GraphInv, SccInv, LoopInv, NaturalInv, NEW c \in sccs, Several(c),
           NEW base \in Bases(c), Recorded(c, base), Remove(base), graph' = graph
    PROVE  NaturalInv'
<1>1. base \in c /\ c \subseteq nodes /\ base \notin reserved
    BY BasesExist DEF SccInv, GraphInv
<1>2. /\ reserved' = reserved \cup {base} /\ DOMAIN base2loop = reserved
      /\ base2loop' = With(base2loop, {base}, c)
  <2>1. DOMAIN base2loop = reserved /\ {base} \ DOMAIN base2loop = {base}
    BY <1>1 DEF LoopInv
  <2> QED
    BY <2>1 DEF Recorded, Remove
<1>3. base2loop' = [h \in reserved' |-> IF h = base THEN c ELSE base2loop[h]]
    BY <1>2 DEF With
<1>4. ASSUME Reducible
      PROVE  /\ reserved' \subseteq Headers
             /\ \A h \in reserved' : base2loop'[h] = NaturalLoop(h)
             /\ \A h \in Headers : NaturalLoop(h) \cap reserved' # {} => h \in reserved'
  <2>1. base \in Headers /\ c = NaturalLoop(base)
    BY <1>4, ComponentIsLoop
  <2>2. reserved' \subseteq Headers /\ \A h \in reserved' : base2loop'[h] = NaturalLoop(h)
    BY <1>2, <1>3, <1>4, <2>1 DEF NaturalInv
  <2>3. ASSUME NEW h \in Headers, NaturalLoop(h) \cap reserved' # {}, h \notin reserved' PROVE FALSE
    <3>1. h \notin reserved /\ h # base /\ base \in NaturalLoop(h)
      BY <1>2, <1>4, <2>3 DEF NaturalInv
    <3>2. Connected(NaturalLoop(h))
      BY <1>4, <3>1, LoopLeft
    <3>3. Convex(c) /\ NaturalLoop(h) \cap c # {}
      BY <1>1, <3>1 DEF SccInv
    <3>4. NaturalLoop(h) \subseteq c
      BY <3>2, <3>3, ConnectedInConvex
    <3>5. IsFunctionCfg(graph)
      BY GraphsAssumption DEF GraphInv
    <3>6. h \in NaturalLoop(h) /\ h \in Blocks /\ base \in Blocks
      BY <2>1, <3>5, NaturalLoopClosed
    <3>7. Dominates(graph, h, base) /\ Dominates(graph, base, h)
      BY <2>1, <3>1, <3>4, <3>5, <3>6, NaturalLoopClosed
    <3> QED
      BY <3>1, <3>5, <3>6, <3>7, DominanceAntisymmetric
  <2> QED
    BY <2>2, <2>3
<1>5. base2loop' = [h \in reserved' |-> base2loop'[h]]
    BY <1>3
<1> QED
    BY <1>4, <1>5 DEF NaturalInv, Reducible, Headers, NaturalLoop, BackEdge
(* Every step keeps it.                                                     *)
LEMMA NaturalStep == IInv /\ FoundInv /\ NaturalInv /\ [Next]_vars => NaturalInv'
<1> SUFFICES ASSUME IInv, FoundInv, NaturalInv, [Next]_vars PROVE NaturalInv'
    OBVIOUS
<1>1. CASE TakeOut
  <2>1. GraphInv /\ SccInv /\ LoopInv
    BY DEF IInv
  <2>2. PICK c \in sccs : \E base \in Bases(c) : Recorded(c, base) /\ Remove(base)
    BY <1>1, <2>1, BasesExist DEF TakeOut
  <2>3. Several(c) /\ graph' = graph
    BY <1>1 DEF FoundInv, TakeOut
  <2> QED
    BY <2>1, <2>2, <2>3, TakingNatural
<1>2. CASE ~ TakeOut
  <2>1. UNCHANGED <<graph, reserved, base2loop>>
    BY <1>2 DEF Next, Start, Traverse, Look, Return, EndSearch, SearchAgain, vars
  <2> QED
    BY <2>1 DEF NaturalInv, Reducible, Headers, NaturalLoop, BackEdge
<1> QED
    BY <1>1, <1>2

(* No component is missed, and outer loops come first.                      *)
THEOREM NaturalInvariant == Spec => [](IInv /\ FoundInv /\ NaturalInv)
<1>1. Init => IInv /\ FoundInv /\ NaturalInv
  <2> SUFFICES ASSUME Init PROVE FoundInv /\ NaturalInv
    BY Initially
  <2>1. /\ sccs = {} /\ pc = "search" /\ reserved = {} /\ base2loop = << >>
        /\ \A n \in nodes : index[n] = -1
    BY DEF Init
  <2>2. Finished = {}
    BY <2>1 DEF Finished, Visited
  <2>3. \A X \in SUBSET Finished : ~ Several(X)
    BY <2>2 DEF Several
  <2>4. base2loop = [h \in reserved |-> base2loop[h]]
    BY <2>1
  <2> QED
    BY <2>1, <2>3, <2>4 DEF FoundInv, NaturalInv
<1>2. IInv /\ FoundInv /\ NaturalInv /\ [Next]_vars => (IInv /\ FoundInv /\ NaturalInv)'
    BY Inductive, FoundStep, NaturalStep
<1> QED
    BY <1>1, <1>2, PTL DEF Spec

(* When the pass is done, each header is a base and each base is a header.  *)
LEMMA AllHeaders ==
    ASSUME IInv, FoundInv, NaturalInv, pc = "done", Reducible
    PROVE  /\ reserved = Headers /\ DOMAIN base2loop = Headers
           /\ base2loop = [h \in Headers |-> NaturalLoop(h)]
           /\ IsFunctionCfg(graph)
<1>1. GraphInv /\ IsFunctionCfg(graph)
    BY GraphsAssumption DEF IInv, GraphInv
<1>2. ASSUME NEW h \in Headers, h \notin reserved PROVE FALSE
  <2>1. NaturalLoop(h) \subseteq nodes /\ Connected(NaturalLoop(h))
    BY <1>1, <1>2, LoopLeft
  <2>2. Several(NaturalLoop(h))
    BY <1>1, NaturalLoopClosed
  <2> QED
    BY <2>1, <2>2 DEF FoundInv
<1>3. reserved = Headers
    BY <1>2 DEF NaturalInv
<1>4. base2loop = [h \in Headers |-> base2loop[h]] /\ \A h \in Headers : base2loop[h] = NaturalLoop(h)
    BY <1>3 DEF NaturalInv
<1> QED
    BY <1>1, <1>3, <1>4

(* In graphs without cycles that are entered in two places, the loops found *)
(* are the natural loops, each with its header as base.                     *)
THEOREM LoopsFoundAreNatural == Spec => []LoopsAreNatural
<1>1. IInv /\ FoundInv /\ NaturalInv => LoopsAreNatural
    BY AllHeaders DEF LoopsAreNatural
<1> QED
    BY <1>1, NaturalInvariant, PTL

-----------------------------------------------------------------------------
(* The loop around a loop.                                                  *)

(* What is around the loop of h holds every block h is entered from.        *)
LEMMA AroundIsEntered ==
    ASSUME IInv, FoundInv, NaturalInv, pc = "done", Reducible, NEW h \in Headers,
           NEW p \in Preds(graph, h) \ NaturalLoop(h), graph[p] = {h},
           NEW k \in Headers
    PROVE  p \in NaturalLoop(k)
               <=> NaturalLoop(h) \subseteq NaturalLoop(k) /\ NaturalLoop(h) # NaturalLoop(k)
<1> DEFINE l == NaturalLoop(h)
           m == NaturalLoop(k)
<1>1. IsFunctionCfg(graph) /\ base2loop = [x \in Headers |-> NaturalLoop(x)] /\ DOMAIN base2loop = Headers
    BY AllHeaders
<1>2. l \cap m = {} \/ l \subseteq m \/ m \subseteq l
  <2>1. l \in Loops /\ m \in Loops
    BY <1>1 DEF Loops
  <2>2. \A a, b \in Loops : a \cap b = {} \/ a \subseteq b \/ b \subseteq a
    BY DEF IInv, LoopInv
  <2> HIDE DEF l, m
  <2> QED
    BY <2>1, <2>2
<1>3. /\ h \in Blocks /\ h \in l /\ k \in Blocks /\ k \in m
      /\ \A x \in l : Dominates(graph, h, x)
      /\ \A x \in m : Dominates(graph, k, x)
      /\ \A x \in m \ {k} : Preds(graph, x) \subseteq m
      /\ Several(m)
    BY <1>1, NaturalLoopClosed
<1>4. h \in m /\ k \in l => h = k
    BY <1>1, <1>3, DominanceAntisymmetric
<1>5. ConnectedIn(graph, m)
    BY <1>1, NaturalLoopConnected
<1>6. h = k => l = m
    OBVIOUS
<1>7. p \notin l
    OBVIOUS
<1> HIDE DEF l, m
<1>8. ASSUME p \in m PROVE l \subseteq m /\ l # m
  <2>1. {p} \in SUBSET m /\ {p} # {} /\ {p} # m
    BY <1>3, <1>8 DEF Several
  <2>2. PICK y \in m \ {p} : y \in graph[p]
    BY <1>5, <2>1 DEF ConnectedIn
  <2>3. h \in m
    BY <2>2
  <2> QED
    BY <1>2, <1>3, <1>4, <1>6, <1>7, <1>8, <2>3
<1>9. ASSUME l \subseteq m, l # m PROVE p \in m
  <2>1. h \in m \ {k}
    BY <1>3, <1>6, <1>9
  <2> QED
    BY <1>3, <2>1
<1> QED
    BY <1>8, <1>9 DEF l, m

(* A loop is entered from somewhere.                                        *)
LEMMA LoopEntered ==
    ASSUME IsFunctionCfg(graph), NEW h \in Headers
    PROVE  Preds(graph, h) \ NaturalLoop(h) # {}
<1> SUFFICES ASSUME Preds(graph, h) \subseteq NaturalLoop(h) PROVE FALSE
    OBVIOUS
<1> DEFINE S == Avoiding(graph, h)
<1>1. /\ h \in Blocks /\ \A x \in NaturalLoop(h) : Dominates(graph, h, x)
    BY NaturalLoopClosed
<1>2. h # Root
    BY DEF Headers, BackEdge, IsFunctionCfg
<1>3. Root \in S /\ S \subseteq Blocks \ {h} /\ \A x \in S : graph[x] \subseteq S \cup {h}
    BY <1>1, <1>2, AvoidingClosed
<1>4. \A x \in S : h \notin graph[x]
    BY <1>1 DEF Avoiding, Preds
<1> HIDE DEF S
<1>5. S = Blocks
    BY <1>3, <1>4 DEF IsFunctionCfg, AllReachable
<1> QED
    BY <1>1, <1>3, <1>5

(* get_parent_loop gives the next loop outside, whichever predecessor comes *)
(* first, if what enters a loop leads nowhere else.                         *)
THEOREM ParentsAreNext == Spec => []ParentsEnclose
<1>1. IInv /\ FoundInv /\ NaturalInv => ParentsEnclose
  <2> SUFFICES ASSUME IInv, FoundInv, NaturalInv, pc = "done", EnteredByBr, Reducible,
                      NEW l \in Loops
               PROVE  LET around == {m \in Loops : l \subseteq m /\ l # m}
                      IN  IF around = {} THEN Parents(l) = {None}
                          ELSE \E m \in around : Parents(l) = {m} /\ \A k \in around : m \subseteq k
    BY DEF ParentsEnclose
  <2> DEFINE around == {m \in Loops : l \subseteq m /\ l # m}
             h == get_loop_base(l)
             outside == Preds(graph, h) \ l
             answer(p) == IF h \in get_inner_loop(p) THEN get_inner_loop(p) ELSE None
  <2>1. /\ base2loop = [x \in Headers |-> NaturalLoop(x)] /\ DOMAIN base2loop = Headers
        /\ IsFunctionCfg(graph)
    BY AllHeaders
  <2>2. h \in Headers /\ l = NaturalLoop(h)
    BY <2>1 DEF Loops, get_loop_base
  <2>3. Loops = {NaturalLoop(k) : k \in Headers}
    BY <2>1 DEF Loops
  <2>4. outside # {} /\ \A p \in outside : p \in Blocks /\ graph[p] = {h}
    BY <2>1, <2>2, LoopEntered DEF EnteredByBr, Preds
  <2>5. Parents(l) = {answer(p) : p \in outside}
    BY <2>4 DEF Parents
  <2> HIDE DEF h
  <2>6. \A p \in outside : Enclosing(p) = around
    <3> SUFFICES ASSUME NEW p \in outside, NEW m \in Loops
                 PROVE  p \in m <=> l \subseteq m /\ l # m
      BY DEF Enclosing
    <3>1. PICK k \in Headers : m = NaturalLoop(k)
      BY <2>3
    <3> QED
      BY <2>2, <2>4, <3>1, AroundIsEntered
  <2>7. \A p \in outside :
            IF around = {} THEN get_inner_loop(p) = None
            ELSE get_inner_loop(p) \in around /\ \A m \in around : get_inner_loop(p) \subseteq m
    BY <2>4, <2>6, Innermost DEF InnermostFound
  <2>8. \A m \in around : h \in m
    BY <2>1, <2>2, NaturalLoopClosed
  <2> HIDE DEF around, outside
  <2>9. CASE around = {}
    <3>1. \A p \in outside : answer(p) = None
      BY <2>7, <2>9 DEF None
    <3>2. Parents(l) = {None}
      BY <2>4, <2>5, <3>1
    <3> QED
      BY <2>9, <3>2 DEF around
  <2>10. CASE around # {}
    <3>1. PICK p \in outside : TRUE
      BY <2>4
    <3> DEFINE m == get_inner_loop(p)
    <3>2. m \in around /\ \A k \in around : m \subseteq k
      BY <2>7, <2>10
    <3>3. \A q \in outside : answer(q) = m
      <4> SUFFICES ASSUME NEW q \in outside PROVE answer(q) = m
        OBVIOUS
      <4>1. get_inner_loop(q) \in around /\ \A k \in around : get_inner_loop(q) \subseteq k
        BY <2>7, <2>10
      <4>2. get_inner_loop(q) = m
        BY <3>2, <4>1
      <4> QED
        BY <2>8, <4>1, <4>2
    <3> HIDE DEF m
    <3>4. Parents(l) = {m}
      BY <2>5, <3>1, <3>3
    <3> QED
      BY <2>10, <3>2, <3>4 DEF around
  <2> QED
    BY <2>9, <2>10 DEF around
<1> QED
    BY <1>1, NaturalInvariant, PTL
=============================================================================
