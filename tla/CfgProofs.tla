------------------------------ MODULE CfgProofs ------------------------------
(****************************************************************************)
(* Dominance in the graphs of functions: an order, in which the dominators  *)
(* of a block are a chain, and which the edges determine.                   *)
(*                                                                          *)
(* A path from the entry that avoids d is replaced by the set of all blocks *)
(* such paths lead to, those d does not dominate.                           *)
(****************************************************************************)
EXTENDS Cfg, Integers, WellFoundedInduction, FiniteSetTheorems, TLAPS

-----------------------------------------------------------------------------
(****************************************************************************)
(* Induction over the natural numbers for sets of numbers, from the fact    *)
(* that they are well founded.                                              *)
(****************************************************************************)

Order == {ss \in Nat \X Nat : ss[1] < ss[2]}

(* Every nonempty set of natural numbers has a least element.               *)
LEMMA LeastNatural ==
    ASSUME NEW T, T \subseteq Nat, T # {}
    PROVE  \E x \in T : \A y \in T : x <= y
<1>1. IsWellFoundedOn(Order, Nat)
  <2>1. Order = OpToRel(<, Nat)
    BY DEF Order, OpToRel
  <2> QED
    BY <2>1, NatLessThanWellFounded, Zenon
<1>2. PICK x \in T : \A y \in T : <<y, x>> \notin Order
  BY <1>1, WFMin
<1>3. ASSUME NEW y \in T PROVE x <= y
  <2>1. x \in Nat /\ y \in Nat /\ <<y, x>> \notin Order
    BY <1>2
  <2>2. <<y, x>> \in Nat \X Nat /\ <<y, x>>[1] = y /\ <<y, x>>[2] = x
    BY <2>1
  <2>3. ~ (y < x)
    BY <2>1, <2>2 DEF Order
  <2> QED
    BY <2>1, <2>3
<1> QED
  BY <1>3

(* A set of natural numbers that holds 0 and the successors of its elements *)
(* holds them all.                                                          *)
LEMMA AllNaturals ==
    ASSUME NEW T, 0 \in T, \A n \in Nat : n \in T => n + 1 \in T
    PROVE  Nat \subseteq T
<1> SUFFICES ASSUME Nat \ T # {} PROVE FALSE
  OBVIOUS
<1>1. PICK x \in Nat \ T : \A y \in Nat \ T : x <= y
  BY LeastNatural
<1>2. x - 1 \in Nat /\ x - 1 \in T
  BY <1>1
<1>3. (x - 1) + 1 \in T
  BY <1>2
<1> QED
  BY <1>1, <1>3

-----------------------------------------------------------------------------
(****************************************************************************)
(* Dominance.                                                               *)
(****************************************************************************)

(* The blocks reached from the entry without entering d.                    *)
Avoiding(g, d) == {x \in Blocks : ~ Dominates(g, d, x)}

(* Every block dominates itself, and the entry dominates every block.       *)
LEMMA DominanceReflexive ==
    ASSUME NEW g, IsFunctionCfg(g), NEW b \in Blocks
    PROVE  Dominates(g, b, b) /\ Dominates(g, Root, b)
<1>1. g \in [Blocks -> SUBSET (Blocks \ {Root})]
    BY DEF IsFunctionCfg
<1>2. Dominates(g, b, b)
  <2> DEFINE S == Blocks \ {b}
  <2>1. /\ S \in SUBSET (Blocks \ {b, b})
        /\ Root # b => Root \in S
        /\ \A x \in S : g[x] \subseteq S \cup {b}
    BY <1>1, RootAssumption
  <2> QED
    BY <2>1 DEF Dominates
<1>3. Dominates(g, Root, b)
  <2>1. /\ {} \in SUBSET (Blocks \ {Root, b})
        /\ Root # Root => Root \in {}
        /\ \A x \in {} : g[x] \subseteq {} \cup {Root}
    OBVIOUS
  <2> QED
    BY <2>1 DEF Dominates
<1> QED
    BY <1>2, <1>3

(* Only the entry dominates the entry.                                      *)
LEMMA RootDominated ==
    ASSUME NEW g, NEW d \in Blocks, Dominates(g, d, Root)
    PROVE  d = Root
    BY RootAssumption DEF Dominates

(* A strict dominator of a block dominates its predecessors.                *)
LEMMA DominatesPreds ==
    ASSUME NEW g, IsFunctionCfg(g), NEW d \in Blocks, NEW b \in Blocks,
           d # b, Dominates(g, d, b), NEW p \in Preds(g, b)
    PROVE  Dominates(g, d, p)
<1>1. p \in Blocks /\ b \in g[p]
    BY DEF Preds
<1>2. CASE p = d
    BY <1>1, <1>2, DominanceReflexive
<1>3. CASE p # d
  <2>1. PICK S \in SUBSET (Blocks \ {d, b}) :
            /\ Root # d => Root \in S
            /\ \A x \in S : g[x] \subseteq S \cup {d}
    BY DEF Dominates
  <2>2. p \notin S
    BY <1>1, <2>1
  <2>3. S \in SUBSET (Blocks \ {d, p})
    BY <2>1, <2>2
  <2> QED
    BY <2>1, <2>3 DEF Dominates
<1> QED
    BY <1>2, <1>3

(* The blocks reached without d: closed under the edges, but for d, and the *)
(* entry is among them.                                                     *)
LEMMA AvoidingClosed ==
    ASSUME NEW g, IsFunctionCfg(g), NEW d \in Blocks
    PROVE  /\ Avoiding(g, d) \subseteq Blocks \ {d}
           /\ d # Root => Root \in Avoiding(g, d)
           /\ \A x \in Avoiding(g, d) : g[x] \subseteq Avoiding(g, d) \cup {d}
<1>1. Avoiding(g, d) \subseteq Blocks \ {d}
    BY DominanceReflexive DEF Avoiding
<1>2. d # Root => Root \in Avoiding(g, d)
    BY RootDominated, RootAssumption DEF Avoiding
<1>3. ASSUME NEW x \in Avoiding(g, d), NEW y \in g[x], y # d PROVE y \in Avoiding(g, d)
  <2>1. x \in Blocks /\ y \in Blocks /\ x \in Preds(g, y)
    BY DEF Avoiding, IsFunctionCfg, Preds
  <2> QED
    BY <1>3, <2>1, DominatesPreds DEF Avoiding
<1> QED
    BY <1>1, <1>2, <1>3

(* What dominates every predecessor of a block dominates the block.         *)
LEMMA PredsDominated ==
    ASSUME NEW g, IsFunctionCfg(g), NEW d \in Blocks, NEW b \in Blocks \ {Root},
           \A p \in Preds(g, b) : Dominates(g, d, p)
    PROVE  Dominates(g, d, b)
<1>1. CASE b = d
    BY <1>1, DominanceReflexive
<1>2. CASE b # d
  <2> DEFINE S == Avoiding(g, d) \ {b}
  <2>1. S \in SUBSET (Blocks \ {d, b}) /\ (Root # d => Root \in S)
    BY AvoidingClosed
  <2>2. ASSUME NEW x \in S PROVE g[x] \subseteq S \cup {d}
    <3>1. b \notin g[x]
      BY DEF Avoiding, Preds
    <3>2. g[x] \subseteq Avoiding(g, d) \cup {d}
      BY AvoidingClosed
    <3> QED
      BY <3>1, <3>2
  <2> HIDE DEF S
  <2> QED
    BY <2>1, <2>2 DEF Dominates
<1> QED
    BY <1>1, <1>2

(* Dominance is transitive.                                                 *)
LEMMA DominanceTransitive ==
    ASSUME NEW g, IsFunctionCfg(g), NEW a \in Blocks, NEW b \in Blocks, NEW c \in Blocks,
           Dominates(g, a, b), Dominates(g, b, c)
    PROVE  Dominates(g, a, c)
<1>1. CASE a = Root
    BY <1>1, DominanceReflexive
<1>2. CASE b = Root
    BY <1>1, <1>2, RootDominated
<1>3. CASE a # Root /\ b # Root
  <2> DEFINE A == Avoiding(g, a)
             B == Avoiding(g, b)
             S == A \cap B
  <2>1. /\ A \subseteq Blocks \ {a} /\ Root \in A /\ \A x \in A : g[x] \subseteq A \cup {a}
        /\ B \subseteq Blocks \ {b} /\ Root \in B /\ \A x \in B : g[x] \subseteq B \cup {b}
    BY <1>3, AvoidingClosed
  <2>2. b \notin A /\ c \notin B
    BY DEF Avoiding
  <2> HIDE DEF A, B
  <2>3. S \in SUBSET (Blocks \ {a, c}) /\ Root \in S /\ \A x \in S : g[x] \subseteq S \cup {a}
    BY <2>1, <2>2
  <2> HIDE DEF S
  <2> QED
    BY <2>3 DEF Dominates
<1> QED
    BY <1>1, <1>2, <1>3

(* Two different blocks do not dominate each other.                         *)
LEMMA DominanceAntisymmetric ==
    ASSUME NEW g, IsFunctionCfg(g), NEW a \in Blocks, NEW b \in Blocks,
           Dominates(g, a, b), Dominates(g, b, a)
    PROVE  a = b
<1> SUFFICES ASSUME a # b PROVE FALSE
    OBVIOUS
<1>1. a # Root /\ b # Root
    BY RootDominated
<1> DEFINE A == Avoiding(g, a)
           B == Avoiding(g, b)
           S == A \cap B
<1>2. /\ A \subseteq Blocks \ {a} /\ Root \in A /\ \A x \in A : g[x] \subseteq A \cup {a}
      /\ B \subseteq Blocks \ {b} /\ Root \in B /\ \A x \in B : g[x] \subseteq B \cup {b}
    BY <1>1, AvoidingClosed
<1>3. b \notin A /\ a \notin B
    BY DEF Avoiding
<1> HIDE DEF A, B
<1>4. S \in SUBSET Blocks /\ Root \in S /\ \A x \in S : g[x] \subseteq S
    BY <1>2, <1>3
<1>5. S = Blocks
    BY <1>4 DEF IsFunctionCfg, AllReachable
<1> QED
    BY <1>2, <1>5

(* Of two dominators of a block one dominates the other.                    *)
LEMMA DominatorsOrdered ==
    ASSUME NEW g, IsFunctionCfg(g), NEW a \in Blocks, NEW b \in Blocks, NEW c \in Blocks,
           Dominates(g, a, c), Dominates(g, b, c)
    PROVE  Dominates(g, a, b) \/ Dominates(g, b, a)
<1> SUFFICES ASSUME ~ Dominates(g, a, b), ~ Dominates(g, b, a) PROVE FALSE
    OBVIOUS
<1>1. a # Root /\ b # Root
    BY DominanceReflexive
<1> DEFINE A == Avoiding(g, a)
           B == Avoiding(g, b)
           S == A \cup B
<1>2. /\ A \subseteq Blocks /\ Root \in A /\ \A x \in A : g[x] \subseteq A \cup {a}
      /\ B \subseteq Blocks /\ Root \in B /\ \A x \in B : g[x] \subseteq B \cup {b}
    BY <1>1, AvoidingClosed
<1>3. b \in A /\ a \in B /\ c \notin A /\ c \notin B
    BY DEF Avoiding
<1> HIDE DEF A, B
<1>4. S \in SUBSET Blocks /\ Root \in S /\ \A x \in S : g[x] \subseteq S
    BY <1>2, <1>3
<1>5. S = Blocks
    BY <1>4 DEF IsFunctionCfg, AllReachable
<1> QED
    BY <1>3, <1>5

(* The immediate dominator is the one block with its property.              *)
LEMMA ImmediateDominatorIs ==
    ASSUME NEW g, IsFunctionCfg(g), NEW b \in Blocks \ {Root}, NEW d \in Blocks,
           StrictlyDominates(g, d, b),
           \A e \in Blocks : StrictlyDominates(g, e, b) => Dominates(g, e, d)
    PROVE  ImmediateDominator(g, b) = d
<1> DEFINE P(c) == /\ StrictlyDominates(g, c, b)
                   /\ \A e \in Blocks : StrictlyDominates(g, e, b) => Dominates(g, e, c)
           m == CHOOSE c \in Blocks : P(c)
<1>1. ImmediateDominator(g, b) = m
    BY DEF ImmediateDominator
<1>2. P(d)
    OBVIOUS
<1> HIDE DEF P
<1>3. m \in Blocks /\ P(m)
    BY <1>2
<1> HIDE DEF m
<1>4. Dominates(g, d, m) /\ Dominates(g, m, d)
    BY <1>2, <1>3 DEF P
<1>5. m = d
    BY <1>3, <1>4, DominanceAntisymmetric
<1> QED
    BY <1>1, <1>5

(* A block in a dominance frontier has two predecessors.                    *)
LEMMA FrontierIsJoin ==
    ASSUME NEW g, IsFunctionCfg(g), NEW n \in Blocks, NEW b \in Blocks,
           NEW p \in Preds(g, b), Dominates(g, n, p), ~ StrictlyDominates(g, n, b)
    PROVE  Cardinality(Preds(g, b)) >= 2
<1>1. p \in Blocks /\ b # Root
    BY RootAssumption DEF Preds, IsFunctionCfg
<1>2. Preds(g, b) # {p}
  <2> SUFFICES ASSUME Preds(g, b) = {p} PROVE FALSE
    OBVIOUS
  <2>1. Dominates(g, n, b)
    BY <1>1, PredsDominated
  <2>2. n = b
    BY <2>1 DEF StrictlyDominates
  <2> DEFINE S == Avoiding(g, b)
  <2>3. S \subseteq Blocks \ {b} /\ Root \in S /\ \A x \in S : g[x] \subseteq S \cup {b}
    BY <1>1, AvoidingClosed
  <2>4. \A x \in S : b \notin g[x]
    BY <2>2 DEF Avoiding, Preds
  <2> HIDE DEF S
  <2>5. S = Blocks
    BY <2>3, <2>4 DEF IsFunctionCfg, AllReachable
  <2> QED
    BY <2>3, <2>5
<1>3. IsFiniteSet(Preds(g, b))
    BY BlocksAssumption, FS_Subset DEF Preds
<1>4. Cardinality(Preds(g, b)) \in Nat
    BY <1>3, FS_CardinalityType
<1>5. Cardinality(Preds(g, b)) # 0
    BY <1>3, FS_EmptySet
<1>6. Cardinality(Preds(g, b)) # 1
    BY <1>2, <1>3, FS_Singleton
<1> QED
    BY <1>4, <1>5, <1>6

-----------------------------------------------------------------------------
(****************************************************************************)
(* The dominator tree.                                                      *)
(****************************************************************************)

(* Of some sets of blocks one includes no smaller one.                      *)
LEMMA SmallestSet ==
    ASSUME NEW X, X # {}, NEW f \in [X -> SUBSET Blocks]
    PROVE  \E d \in X : \A e \in X : f[e] \subseteq f[d] => f[e] = f[d]
<1> DEFINE T == {Cardinality(f[d]) : d \in X}
<1>1. \A d \in X : IsFiniteSet(f[d]) /\ Cardinality(f[d]) \in Nat
    BY BlocksAssumption, FS_Subset, FS_CardinalityType
<1>2. T \subseteq Nat /\ T # {}
    BY <1>1
<1> HIDE DEF T
<1>3. PICK n \in T : \A m \in T : n <= m
    BY <1>2, LeastNatural
<1>4. PICK d \in X : n = Cardinality(f[d])
    BY <1>3 DEF T
<1>5. ASSUME NEW e \in X, f[e] \subseteq f[d], f[e] # f[d] PROVE FALSE
  <2>1. Cardinality(f[e]) <= Cardinality(f[d]) /\ Cardinality(f[e]) # Cardinality(f[d])
    BY <1>1, <1>5, FS_Subset
  <2>2. Cardinality(f[e]) \in T
    BY DEF T
  <2> QED
    BY <1>1, <1>3, <1>4, <2>1, <2>2
<1> QED
    BY <1>5

(* Every block but the entry has a closest strict dominator: its parent in  *)
(* the dominator tree.                                                      *)
LEMMA ParentIsClosest ==
    ASSUME NEW g, IsFunctionCfg(g), NEW b \in Blocks \ {Root}
    PROVE  /\ ImmediateDominator(g, b) \in Blocks
           /\ StrictlyDominates(g, ImmediateDominator(g, b), b)
           /\ \A e \in Blocks : StrictlyDominates(g, e, b)
                                    => Dominates(g, e, ImmediateDominator(g, b))
<1> DEFINE X == {d \in Blocks : StrictlyDominates(g, d, b)}
           f == [d \in X |-> {x \in Blocks : Dominates(g, d, x)}]
<1>1. Root \in X
    BY RootAssumption, DominanceReflexive DEF StrictlyDominates
<1>2. f \in [X -> SUBSET Blocks] /\ X # {}
    BY <1>1
<1>3. PICK d \in X : \A e \in X : f[e] \subseteq f[d] => f[e] = f[d]
  <2> HIDE DEF X, f
  <2> QED
    BY <1>2, SmallestSet
<1>4. ASSUME NEW e \in X PROVE Dominates(g, e, d)
  <2>1. e \in Blocks /\ d \in Blocks /\ Dominates(g, e, b) /\ Dominates(g, d, b)
    BY DEF StrictlyDominates
  <2>2. SUFFICES ASSUME Dominates(g, d, e) PROVE Dominates(g, e, d)
    BY <2>1, DominatorsOrdered
  <2>3. f[e] \subseteq f[d]
    BY <2>1, <2>2, DominanceTransitive
  <2>4. d \in f[d] /\ f[e] = f[d]
    BY <1>3, <2>1, <2>3, DominanceReflexive
  <2> QED
    BY <2>4
<1>5. /\ StrictlyDominates(g, d, b)
      /\ \A e \in Blocks : StrictlyDominates(g, e, b) => Dominates(g, e, d)
    BY <1>4
<1> QED
    BY <1>5, ImmediateDominatorIs

(* A block is the child of its closest strict dominator only.               *)
LEMMA ChildrenAre ==
    ASSUME NEW g, IsFunctionCfg(g), NEW n \in Blocks, NEW c \in DominatorChildren(g, n)
    PROVE  /\ c \in Blocks \ {Root}
           /\ StrictlyDominates(g, n, c)
           /\ \A e \in Blocks : StrictlyDominates(g, e, c) => Dominates(g, e, n)
    BY ParentIsClosest DEF DominatorChildren

(* What a block dominates strictly, a child of it dominates.                *)
LEMMA ChildBetween ==
    ASSUME NEW g, IsFunctionCfg(g), NEW n \in Blocks, NEW b \in Blocks,
           StrictlyDominates(g, n, b)
    PROVE  \E c \in DominatorChildren(g, n) : Dominates(g, c, b)
<1> DEFINE X == {d \in Blocks : StrictlyDominates(g, n, d) /\ Dominates(g, d, b)}
           f == [d \in X |-> {x \in Blocks : Dominates(g, x, d)}]
<1>1. b \in X
    BY DominanceReflexive
<1>2. f \in [X -> SUBSET Blocks] /\ X # {}
    BY <1>1
<1>3. PICK c \in X : \A e \in X : f[e] \subseteq f[c] => f[e] = f[c]
  <2> HIDE DEF X, f
  <2> QED
    BY <1>2, SmallestSet
<1>4. /\ c \in Blocks /\ n # c /\ Dominates(g, n, c) /\ Dominates(g, c, b)
      /\ Dominates(g, n, b)
    BY DEF StrictlyDominates
<1>5. c # Root
    BY <1>4, RootDominated
<1>6. ASSUME NEW e \in Blocks, StrictlyDominates(g, e, c) PROVE Dominates(g, e, n)
  <2>1. e # c /\ Dominates(g, e, c) /\ Dominates(g, e, b)
    BY <1>4, <1>6, DominanceTransitive DEF StrictlyDominates
  <2>2. SUFFICES ASSUME ~ Dominates(g, e, n) PROVE FALSE
    OBVIOUS
  <2>3. Dominates(g, n, e) /\ n # e
    BY <1>4, <2>1, <2>2, DominatorsOrdered, DominanceReflexive
  <2>4. e \in X
    BY <2>1, <2>3 DEF StrictlyDominates
  <2>5. f[e] \subseteq f[c]
    BY <1>4, <2>1, <2>4, DominanceTransitive
  <2>6. c \in f[c] /\ f[e] = f[c]
    BY <1>3, <1>4, <2>4, <2>5, DominanceReflexive
  <2> QED
    BY <1>4, <2>1, <2>4, <2>6, DominanceAntisymmetric
<1>7. c \in DominatorChildren(g, n)
    BY <1>4, <1>5, <1>6, ImmediateDominatorIs DEF DominatorChildren, StrictlyDominates
<1> QED
    BY <1>4, <1>7
=============================================================================
