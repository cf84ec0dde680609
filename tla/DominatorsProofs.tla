-------------------------- MODULE DominatorsProofs --------------------------
(****************************************************************************)
(* Proofs about Dominators for every graph and every order of the walks:    *)
(* its variables keep their types, its two assertions never fail, its       *)
(* unguarded frontier loop never follows a null pointer, the immediate      *)
(* dominators always climb in post order, and the three tables are at the   *)
(* end what the graph defines.                                              *)
(*                                                                          *)
(* The argument: while the depth-first walk runs, each numbered block has a *)
(* predecessor that is either still on the stack or has a greater number.   *)
(* So, walked in reverse post order, each block finds a predecessor that    *)
(* the sweep has treated; the candidate intersect computes is never below   *)
(* that predecessor, hence above the block.  No entry is ever too high, as  *)
(* the fingers stop at what dominates all they stand for; and when a sweep  *)
(* changes nothing no entry is too low, as each is then on a path to the    *)
(* entry through every predecessor.                                         *)
(****************************************************************************)
EXTENDS Dominators, CfgProofs, SequenceTheorems

(* The helpers of single actions are expanded everywhere.                   *)
USE DEF NextId, Others, Following, Changed, FirstRunner, ChildrenOf

(* Blocks on the call stack of post_order_visit, and blocks numbered.       *)
Active  == {stack[i] : i \in 1 .. Len(stack)}
Ordered == {order[i] : i \in 1 .. Len(order)}

(****************************************************************************)
(* TypeOK.                                                                  *)
(****************************************************************************)

(* The variables have their types before the analysis.                      *)
LEMMA TypeInit == Init => TypeOK
<1> USE RootAssumption, NoBlockAssumption DEF TypeOK
<1> SUFFICES ASSUME Init PROVE TypeOK
  OBVIOUS
<1>1. stack \in Seq(Blocks) /\ order \in Seq(Blocks)
  BY DEF Init
<1>2. changed \in BOOLEAN
  BY DEF Init
<1> QED
  BY <1>1, <1>2 DEF Init

(* Every step keeps the types.                                              *)
LEMMA TypeStep == TypeOK /\ [Next]_vars => TypeOK'
<1> USE RootAssumption, NoBlockAssumption DEF TypeOK
<1> SUFFICES ASSUME TypeOK, [Next]_vars PROVE TypeOK'
  OBVIOUS
<1> USE DEF dfsVars, idomVars, frontVars
<1>0. succ \in [Blocks -> SUBSET Blocks]
  BY GraphsAssumption DEF IsFunctionCfg
<1>1. CASE Visit
  BY <1>0, <1>1 DEF Visit, Top
<1>2. CASE Number
  <2>1. Top \in Blocks /\ Len(stack) \in Nat /\ Len(stack) # 0
    BY <1>2 DEF Number, Top
  <2>2. stack' \in Seq(Blocks)
    BY <1>2, <2>1 DEF Number
  <2>3. order' \in Seq(Blocks) /\ id' \in [Blocks -> Nat]
    BY <1>2, <2>1 DEF Number
  <2> QED BY <1>2, <2>2, <2>3 DEF Number
<1>3. CASE StartIdom
  <2>1. changed' \in BOOLEAN
    BY <1>3, Zenon DEF StartIdom
  <2> QED
    BY <1>3, <2>1 DEF StartIdom
<1>4. CASE SkipRoot
  BY <1>4 DEF SkipRoot
<1>5. CASE PickPred
  BY <1>5 DEF PickPred, Processed, Preds
<1>6. CASE Intersect
  BY <1>6 DEF Intersect
<1>7. CASE ClimbFirst
  BY <1>7 DEF ClimbFirst
<1>8. CASE ClimbSecond
  BY <1>8 DEF ClimbSecond
<1>9. CASE Met
  BY <1>9 DEF Met
<1>10. CASE SetIdom
  <2>1. changed' \in BOOLEAN
    BY <1>10, Zenon DEF SetIdom
  <2>2. /\ pc = "meet" /\ pos' = pos - 1
        /\ idom' = [idom EXCEPT ![Swept] = f2]
    BY <1>10, Zenon DEF SetIdom
  <2>4. pos' \in Nat
    BY <2>2
  <2>5. idom' \in [Blocks -> Blocks \cup {NoBlock}]
    BY <2>2
  <2>3. /\ pc' = "sweep" /\ f2' = NoBlock
        /\ UNCHANGED <<succ, todo, f1, children, dfsVars, frontVars>>
    BY <1>10, Zenon DEF SetIdom
  <2> QED
    BY <2>1, <2>3, <2>4, <2>5
<1>11. CASE SweepAgain
  <2>1. changed' \in BOOLEAN
    BY <1>11, Zenon DEF SweepAgain
  <2> QED
    BY <1>11, <2>1 DEF SweepAgain
<1>12. CASE EndIdom
  BY <1>12 DEF EndIdom
<1>13. CASE StartRunner
  BY <1>13 DEF StartRunner
<1>14. CASE Run
  BY <1>14 DEF Run
<1>15. CASE StopRunner
  BY <1>15 DEF StopRunner
<1>16. CASE EndFrontier
  BY <1>16 DEF EndFrontier
<1>17. CASE BuildTree
  BY <1>17 DEF BuildTree
<1>18. CASE UNCHANGED vars
  BY <1>18 DEF vars
<1> QED
  BY <1>1, <1>2, <1>3, <1>4, <1>5, <1>6, <1>7, <1>8, <1>9, <1>10, <1>11,
     <1>12, <1>13, <1>14, <1>15, <1>16, <1>17, <1>18 DEF Next

(* The variables keep their types.                                          *)
THEOREM TypeCorrect == Spec => []TypeOK
  BY TypeInit, TypeStep, PTL DEF Spec

-----------------------------------------------------------------------------
(****************************************************************************)
(* The depth-first walk.                                                    *)
(****************************************************************************)

(* The stack and the order hold different blocks, together the visited      *)
(* ones, and the order numbers its blocks from 0.                           *)
Numbering ==
    /\ visited = Active \cup Ordered
    /\ Active \cap Ordered = {}
    /\ \A i, j \in 1 .. Len(stack) : stack[i] = stack[j] => i = j
    /\ \A i \in 1 .. Len(order) : id[order[i]] = i - 1
    /\ Root \in visited

(* A block on the stack was reached from the one below it.                  *)
StackIsPath ==
    /\ stack # <<>> => stack[1] = Root
    /\ \A i \in 1 .. Len(stack) - 1 : stack[i + 1] \in succ[stack[i]]

(* Each numbered block but the entry has a predecessor that is numbered     *)
(* later, now or when it leaves the stack; its successors are all visited.  *)
LaterPred ==
    \A b \in Ordered :
        /\ succ[b] \subseteq visited
        /\ b # Root => \E p \in Preds(succ, b) :
                          p \in Active \/ (p \in Ordered /\ id[b] < id[p])

DfsInv == Numbering /\ StackIsPath /\ LaterPred

(* Before the walk only the entry is on the stack and nothing is numbered.  *)
LEMMA DfsInit == Init => DfsInv
  BY DEF Init, DfsInv, Numbering, StackIsPath, LaterPred, Active, Ordered

(* What Append and the shortening of the stack do to the two sets.          *)
LEMMA ActiveAfterVisit ==
  ASSUME TypeOK, Visit
  PROVE  /\ Len(stack') = Len(stack) + 1
         /\ \A i \in 1 .. Len(stack) : stack'[i] = stack[i]
         /\ stack'[Len(stack) + 1] \in succ[Top] \ visited
         /\ Active' = Active \cup {stack'[Len(stack) + 1]}
         /\ visited' = visited \cup {stack'[Len(stack) + 1]}
         /\ Top = stack[Len(stack)] /\ Len(stack) \in Nat \ {0}
  BY DEF TypeOK, Visit, Active, Top

(* What numbering the top block does to the two sets.                       *)
LEMMA SetsAfterNumber ==
  ASSUME TypeOK, Number
  PROVE  /\ Len(stack) \in Nat \ {0} /\ Len(stack') = Len(stack) - 1
         /\ \A i \in 1 .. Len(stack') : stack'[i] = stack[i]
         /\ Active = Active' \cup {Top}
         /\ Len(order) \in Nat /\ Len(order') = Len(order) + 1
         /\ \A i \in 1 .. Len(order) : order'[i] = order[i]
         /\ order'[Len(order) + 1] = Top
         /\ Ordered' = Ordered \cup {Top}
         /\ Top \in Blocks
<1>1. /\ Len(stack) \in Nat \ {0} /\ Top \in Blocks /\ Top = stack[Len(stack)]
      /\ Len(order) \in Nat
  BY DEF TypeOK, Number, Top
<1>2. /\ Len(stack') = Len(stack) - 1
      /\ \A i \in 1 .. Len(stack') : stack'[i] = stack[i]
  <2>1. \A i \in 1 .. Len(stack) - 1 : stack[i] \in Blocks
    BY <1>1 DEF TypeOK
  <2>2. stack' = SubSeq(stack, 1, Len(stack) - 1)
    BY DEF Number
  <2> DEFINE n == Len(stack) - 1
  <2>3. n \in Int /\ 1 \in Int
    BY <1>1
  <2>4. /\ Len(SubSeq(stack, 1, n)) = IF 1 <= n THEN n - 1 + 1 ELSE 0
        /\ \A i \in 1 .. n - 1 + 1 : SubSeq(stack, 1, n)[i] = stack[1 + i - 1]
    <3> HIDE DEF n
    <3> QED BY <2>1, <2>3, SubSeqProperties DEF n
  <2>5. Len(stack') = Len(stack) - 1
    <3>1. Len(stack') = IF 1 <= n THEN n - 1 + 1 ELSE 0
      BY <2>2, <2>4, Zenon
    <3> QED
      BY <1>1, <3>1
  <2>6. ASSUME NEW i \in 1 .. n PROVE stack'[i] = stack[i]
    <3>1. 1 + i - 1 = i /\ i \in 1 .. n - 1 + 1
      BY <1>1
    <3> QED
      BY <2>2, <2>4, <3>1
  <2> QED
    BY <2>5, <2>6
<1>3. Active = Active' \cup {Top}
  BY <1>1, <1>2 DEF Active
<1>4. /\ Len(order') = Len(order) + 1
      /\ \A i \in 1 .. Len(order) : order'[i] = order[i]
      /\ order'[Len(order) + 1] = Top
  BY <1>1 DEF TypeOK, Number
<1>5. Ordered' = Ordered \cup {Top}
  BY <1>1, <1>4 DEF Ordered
<1> QED
  BY <1>1, <1>2, <1>3, <1>4, <1>5

(* A call of post_order_visit keeps the invariant of the walk.              *)
LEMMA DfsVisit ==
  ASSUME TypeOK, DfsInv, Visit
  PROVE  DfsInv'
<1> DEFINE n == stack'[Len(stack) + 1]
<1>1. /\ Len(stack') = Len(stack) + 1 /\ Len(stack) \in Nat \ {0}
      /\ \A i \in 1 .. Len(stack) : stack'[i] = stack[i]
      /\ n \in succ[stack[Len(stack)]] /\ n \notin visited
      /\ Active' = Active \cup {n} /\ visited' = visited \cup {n}
  BY ActiveAfterVisit
<1>2. order' = order /\ id' = id /\ succ' = succ /\ Ordered' = Ordered
  BY DEF Visit, Ordered
<1> HIDE DEF n
<1>3. \A i \in 1 .. Len(stack) : stack[i] # n
  BY <1>1 DEF DfsInv, Numbering, Active
<1>4. Numbering'
  <2>1. \A i, j \in 1 .. Len(stack') : stack'[i] = stack'[j] => i = j
    BY <1>1, <1>3 DEF DfsInv, Numbering, n
  <2>2. Active' \cap Ordered' = {}
    BY <1>1, <1>2 DEF DfsInv, Numbering
  <2> QED
    BY <1>1, <1>2, <2>1, <2>2 DEF DfsInv, Numbering
<1>5. StackIsPath'
  BY <1>1, <1>2 DEF DfsInv, StackIsPath, n
<1>6. LaterPred'
  BY <1>1, <1>2 DEF DfsInv, LaterPred, Preds
<1> QED
  BY <1>4, <1>5, <1>6 DEF DfsInv

(* Numbering a block and returning keeps the invariant of the walk.         *)
LEMMA DfsNumber ==
  ASSUME TypeOK, DfsInv, Number
  PROVE  DfsInv'
<1>1. /\ Len(stack) \in Nat \ {0} /\ Len(stack') = Len(stack) - 1
      /\ \A i \in 1 .. Len(stack') : stack'[i] = stack[i]
      /\ Active = Active' \cup {Top}
      /\ Len(order) \in Nat /\ Len(order') = Len(order) + 1
      /\ \A i \in 1 .. Len(order) : order'[i] = order[i]
      /\ order'[Len(order) + 1] = Top
      /\ Ordered' = Ordered \cup {Top}
      /\ Top \in Blocks
  BY SetsAfterNumber
<1>2. /\ visited' = visited /\ succ' = succ
      /\ id' = [id EXCEPT ![Top] = Len(order)]
      /\ succ[Top] \subseteq visited
  BY DEF Number
<1>3. Top = stack[Len(stack)] /\ Top \in Active /\ Top \notin Ordered
  BY <1>1 DEF Top, Active, DfsInv, Numbering
<1>4. Top \notin Active'
  BY <1>1, <1>3 DEF Active, DfsInv, Numbering
<1>5. /\ \A b \in Ordered : id'[b] = id[b] /\ id[b] < Len(order)
      /\ id'[Top] = Len(order)
  <2>1. id' = [id EXCEPT ![Top] = Len(order)] /\ Top \in DOMAIN id
    BY <1>1, <1>2 DEF TypeOK
  <2>2. ASSUME NEW i \in 1 .. Len(order)
        PROVE  id'[order[i]] = id[order[i]] /\ id[order[i]] < Len(order)
    <3>1. order[i] # Top
      BY <1>3 DEF Ordered
    <3>2. id[order[i]] = i - 1
      BY DEF DfsInv, Numbering
    <3> QED
      BY <1>1, <2>1, <3>1, <3>2
  <2> QED
    BY <2>1, <2>2 DEF Ordered
<1>6. Numbering'
  <2>1. ASSUME NEW i \in 1 .. Len(order') PROVE id'[order'[i]] = i - 1
    <3>1. CASE i \in 1 .. Len(order)
      <4>1. id[order[i]] = i - 1
        BY <3>1 DEF DfsInv, Numbering
      <4> QED
        BY <1>1, <1>5, <3>1, <4>1 DEF Ordered
    <3>2. CASE i = Len(order) + 1
      BY <1>1, <1>5, <3>2
    <3> QED
      BY <1>1, <3>1, <3>2
  <2>2. ASSUME NEW i \in 1 .. Len(stack'), NEW j \in 1 .. Len(stack'), stack'[i] = stack'[j]
        PROVE  i = j
    <3>1. i \in 1 .. Len(stack) /\ j \in 1 .. Len(stack) /\ stack[i] = stack[j]
      BY <1>1, <2>2
    <3> QED
      BY <3>1 DEF DfsInv, Numbering
  <2> QED
    BY <1>1, <1>2, <1>4, <2>1, <2>2 DEF DfsInv, Numbering
<1>7. StackIsPath'
  <2>1. stack' # <<>> => stack'[1] = Root
    BY <1>1 DEF DfsInv, StackIsPath, TypeOK, Number
  <2>2. ASSUME NEW i \in 1 .. Len(stack') - 1 PROVE stack'[i + 1] \in succ'[stack'[i]]
    <3>1. i \in 1 .. Len(stack') /\ i + 1 \in 1 .. Len(stack') /\ i \in 1 .. Len(stack) - 1
      BY <1>1
    <3>2. stack'[i] = stack[i] /\ stack'[i + 1] = stack[i + 1]
      BY <1>1, <3>1
    <3>3. stack[i + 1] \in succ[stack[i]]
      BY <3>1 DEF DfsInv, StackIsPath
    <3> QED
      BY <1>2, <3>2, <3>3
  <2> QED
    BY <2>1, <2>2 DEF StackIsPath
<1>8. LaterPred'
  <2> SUFFICES ASSUME NEW b \in Ordered'
               PROVE  /\ succ'[b] \subseteq visited'
                      /\ b # Root => \E p \in Preds(succ', b) :
                             p \in Active' \/ (p \in Ordered' /\ id'[b] < id'[p])
    BY DEF LaterPred
  <2>1. CASE b = Top
    <3>1. ASSUME b # Root PROVE \E p \in Preds(succ', b) : p \in Active'
      <4>1. Len(stack) > 1
        BY <1>1, <1>3, <2>1, <3>1 DEF DfsInv, StackIsPath
      <4> DEFINE k == Len(stack) - 1
      <4>3. k \in 1 .. Len(stack') /\ k \in 1 .. Len(stack) /\ k + 1 = Len(stack)
        BY <1>1, <4>1
      <4>4. Top \in succ[stack[k]]
        BY <1>3, <4>3 DEF DfsInv, StackIsPath
      <4>5. stack'[k] \in Active' /\ stack'[k] = stack[k]
        BY <1>1, <4>3 DEF Active
      <4>6. stack[k] \in Blocks
        BY <4>3 DEF TypeOK
      <4>2. /\ stack[k] \in Active' /\ Top \in succ[stack[k]]
            /\ stack[k] \in Blocks
        BY <4>4, <4>5, <4>6
      <4> QED
        BY <1>2, <2>1, <4>2 DEF Preds
    <3> QED
      BY <1>2, <2>1, <3>1
  <2>2. CASE b # Top
    <3>1. b \in Ordered
      BY <1>1, <2>2
    <3>2. ASSUME b # Root
          PROVE  \E p \in Preds(succ', b) :
                    p \in Active' \/ (p \in Ordered' /\ id'[b] < id'[p])
      <4>1. PICK p \in Preds(succ, b) :
                    p \in Active \/ (p \in Ordered /\ id[b] < id[p])
        BY <3>1, <3>2 DEF DfsInv, LaterPred
      <4>2. CASE p \in Ordered /\ id[b] < id[p]
        BY <1>1, <1>2, <1>5, <3>1, <4>1, <4>2
      <4>3. CASE p = Top
        BY <1>1, <1>2, <1>5, <3>1, <4>1, <4>3
      <4>4. CASE p \in Active'
        BY <1>2, <4>1, <4>4
      <4> QED
        BY <1>1, <4>1, <4>2, <4>3, <4>4
    <3> QED
      BY <1>2, <3>1, <3>2 DEF DfsInv, LaterPred
  <2> QED
    BY <2>1, <2>2
<1> QED
  BY <1>6, <1>7, <1>8 DEF DfsInv

-----------------------------------------------------------------------------
(****************************************************************************)
(* The sweeps of create_idom.                                               *)
(****************************************************************************)

(* The walk has numbered every block.                                       *)
WalkComplete ==
    /\ pc = "dfs" => \A b \in Blocks : idom[b] = NoBlock
    /\ pc # "dfs" => /\ stack = <<>> /\ Ordered = Blocks
                     /\ idom[Root] = Root /\ pos <= Len(order)

(* The blocks the sweep is past have an immediate dominator.                *)
SweptHaveIdom ==
    pc # "dfs" => \A i \in 1 .. Len(order) : i > pos => idom[order[i]] # NoBlock

(* A chain of immediate dominators does not break off.                      *)
ChainsUnbroken == \A b \in Blocks : idom[b] # NoBlock => idom[idom[b]] # NoBlock

(* The candidate, a finger or a predecessor still to come is numbered after *)
(* the swept block, and none of them is without immediate dominator.        *)
MeetInv ==
    pc = "meet" =>
        /\ Swept # Root
        /\ idom[f2] # NoBlock
        /\ f1 # NoBlock => idom[f1] # NoBlock
        /\ todo \subseteq Processed(Swept)
        /\ \E q \in Blocks :
              /\ id[Swept] < id[q]
              /\ \/ q \in todo
                 \/ id[q] <= id[f2]
                 \/ f1 # NoBlock /\ id[q] <= id[f1]

AllHaveIdom ==
    pc \in {"frontier", "run", "tree", "done"} =>
        \A b \in Blocks : idom[b] # NoBlock

IdomInv ==
    /\ WalkComplete /\ SweptHaveIdom /\ ChainsUnbroken /\ IdomClimbs
    /\ MeetInv /\ AllHaveIdom /\ RunnerNeverNull

IInv == TypeOK /\ DfsInv /\ IdomInv

(* The block a sweep is at has been numbered.                               *)
LEMMA SweptBlock ==
  ASSUME TypeOK, WalkComplete, pc # "dfs", pos > 0
  PROVE  pos \in 1 .. Len(order) /\ Swept \in Blocks /\ Swept \in Ordered
<1>1. pos \in 1 .. Len(order)
  BY DEF TypeOK, WalkComplete
<1> QED
  BY <1>1 DEF TypeOK, Swept, Ordered

(* The reverse post order always offers a treated predecessor.              *)
LEMMA PredProcessed ==
  ASSUME IInv, pc # "dfs", pos > 0, Swept # Root
  PROVE  \E q \in Processed(Swept) : id[Swept] < id[q]
<1>1. pos \in 1 .. Len(order) /\ Swept \in Blocks /\ Swept \in Ordered
  BY SweptBlock DEF IInv, IdomInv
<1>2. Active = {}
  BY DEF IInv, IdomInv, WalkComplete, Active
<1>3. PICK p \in Preds(succ, Swept) : p \in Ordered /\ id[Swept] < id[p]
  BY <1>1, <1>2 DEF IInv, DfsInv, LaterPred
<1>4. PICK j \in 1 .. Len(order) : order[j] = p
  BY <1>3 DEF Ordered
<1>5. id[p] = j - 1 /\ id[Swept] = pos - 1
  BY <1>1, <1>4 DEF IInv, DfsInv, Numbering, Swept
<1>6. j > pos
  BY <1>1, <1>3, <1>5
<1>7. idom[p] # NoBlock
  BY <1>4, <1>6 DEF IInv, IdomInv, SweptHaveIdom
<1> QED
  BY <1>3, <1>7 DEF Processed

(* Every step after the walk keeps the invariant of the walk.               *)
LEMMA DfsUnchanged ==
  ASSUME DfsInv, UNCHANGED <<succ, dfsVars>>
  PROVE  DfsInv'
<1>1. UNCHANGED <<succ, stack, visited, order, id>>
  BY DEF dfsVars
<1>2. Active' = Active /\ Ordered' = Ordered
  BY <1>1 DEF Active, Ordered
<1> QED
  BY <1>1, <1>2 DEF DfsInv, Numbering, StackIsPath, LaterPred, Preds

(* The fingers never fall below where they stand.                           *)
LEMMA ClimbingIsUp ==
  ASSUME IInv, pc = "meet", NEW b \in Blocks, idom[b] # NoBlock
  PROVE  idom[b] \in Blocks /\ id[b] <= id[idom[b]] /\ idom[idom[b]] # NoBlock
<1>1. CASE b = Root
  BY <1>1 DEF IInv, IdomInv, TypeOK, WalkComplete
<1>2. CASE b # Root
  BY <1>2 DEF IInv, IdomInv, TypeOK, ChainsUnbroken, IdomClimbs
<1> QED
  BY <1>1, <1>2

(* Before create_idom there is nothing to show of the dominators.           *)
LEMMA IdomInit == Init => IdomInv
  BY NoBlockAssumption
     DEF Init, IdomInv, WalkComplete, SweptHaveIdom, ChainsUnbroken, IdomClimbs,
         MeetInv, AllHaveIdom, RunnerNeverNull

(* The steps of post_order_visit leave the dominators alone.                *)
LEMMA IdomWalk ==
  ASSUME IInv, Visit \/ Number
  PROVE  IdomInv'
<1>1. pc = "dfs" /\ pc' = "dfs" /\ idom' = idom
  BY DEF Visit, Number, idomVars
<1> QED
  BY <1>1 DEF IInv, IdomInv, WalkComplete, SweptHaveIdom, ChainsUnbroken,
              IdomClimbs, MeetInv, AllHaveIdom, RunnerNeverNull

(* The walk ends with every block numbered, because every block can be      *)
(* reached.                                                                 *)
LEMMA IdomStart ==
  ASSUME IInv, StartIdom
  PROVE  IdomInv'
<1>1. /\ pc = "dfs" /\ stack = <<>> /\ pc' = "sweep" /\ pos' = Len(order)
      /\ idom' = [b \in Blocks |-> IF b = Root THEN Root ELSE NoBlock]
      /\ stack' = stack /\ order' = order /\ id' = id /\ succ' = succ
  BY DEF StartIdom, dfsVars
<1>2. Ordered = Blocks
  <2>1. visited = Ordered /\ Root \in visited
    BY <1>1 DEF IInv, DfsInv, Numbering, Active
  <2>2. \A x \in visited : succ[x] \subseteq visited
    BY <2>1 DEF IInv, DfsInv, LaterPred
  <2>3. AllReachable(succ) /\ visited \in SUBSET Blocks
    BY GraphsAssumption DEF IInv, TypeOK, IsFunctionCfg
  <2> QED
    BY <2>1, <2>2, <2>3 DEF AllReachable
<1>3. Ordered' = Ordered /\ Len(order) \in Nat
  BY <1>1 DEF Ordered, IInv, TypeOK
<1> QED
  BY <1>1, <1>2, <1>3, RootAssumption, NoBlockAssumption
     DEF IdomInv, WalkComplete, SweptHaveIdom, ChainsUnbroken, IdomClimbs,
         MeetInv, AllHaveIdom, RunnerNeverNull

(* Passing over the entry block keeps the invariant of the sweeps.          *)
LEMMA IdomSkipRoot ==
  ASSUME IInv, SkipRoot
  PROVE  IdomInv'
<1>1. /\ pc = "sweep" /\ pc' = pc /\ pos > 0 /\ Swept = Root /\ pos' = pos - 1
      /\ idom' = idom /\ stack' = stack /\ order' = order /\ id' = id
  BY DEF SkipRoot, dfsVars
<1>2. Ordered' = Ordered /\ pos \in Nat /\ Len(order) \in Nat
  BY <1>1 DEF Ordered, IInv, TypeOK
<1>3. idom[Swept] # NoBlock
  BY <1>1, RootAssumption, NoBlockAssumption DEF IInv, IdomInv, WalkComplete
<1>4. SweptHaveIdom'
  BY <1>1, <1>2, <1>3 DEF IInv, IdomInv, SweptHaveIdom, Swept
<1> QED
  BY <1>1, <1>2, <1>4
     DEF IInv, IdomInv, WalkComplete, ChainsUnbroken, IdomClimbs,
         MeetInv, AllHaveIdom, RunnerNeverNull

(* The steps that move only the candidate and the fingers.                  *)
LEMMA IdomKept ==
  ASSUME IInv, UNCHANGED <<pos, idom, dfsVars>>, pc # "dfs",
         pc' \in {"sweep", "meet"}, MeetInv'
  PROVE  IdomInv'
<1>1. stack' = stack /\ order' = order /\ id' = id /\ Ordered' = Ordered
  BY DEF dfsVars, Ordered
<1> QED
  BY <1>1 DEF IInv, IdomInv, WalkComplete, SweptHaveIdom, ChainsUnbroken,
              IdomClimbs, AllHaveIdom, RunnerNeverNull

(* The first candidate is numbered after the swept block.                   *)
LEMMA IdomPickPred ==
  ASSUME IInv, PickPred
  PROVE  IdomInv'
<1>1. /\ pc = "sweep" /\ pc' = "meet" /\ pos > 0 /\ Swept # Root /\ f1' = NoBlock
      /\ UNCHANGED <<pos, idom, dfsVars>> /\ succ' = succ
  BY DEF PickPred
<1>2. PICK p \in Processed(Swept) : f2' = p /\ todo' = Processed(Swept) \ {p}
  BY DEF PickPred
<1>3. PICK q \in Processed(Swept) : id[Swept] < id[q]
  BY <1>1, PredProcessed
<1>4. id' = id /\ Swept' = Swept /\ Processed(Swept)' = Processed(Swept)
  BY <1>1 DEF dfsVars, Swept, Processed, Preds
<1>5. q \in todo' \/ id[q] <= id[f2']
  BY <1>2, <1>3 DEF IInv, TypeOK, Processed, Preds
<1>6. MeetInv'
  BY <1>1, <1>2, <1>3, <1>4, <1>5 DEF MeetInv, Processed, Preds
<1> QED
  BY <1>1, <1>6, IdomKept

(* A call of intersect starts on a processed predecessor.                   *)
LEMMA IdomIntersect ==
  ASSUME IInv, Intersect
  PROVE  IdomInv'
<1>1. /\ pc = "meet" /\ pc' = "meet" /\ f1 = NoBlock /\ f2' = f2
      /\ UNCHANGED <<pos, idom, dfsVars>> /\ succ' = succ
  BY DEF Intersect
<1>2. PICK p \in todo : f1' = p /\ todo' = todo \ {p}
  BY DEF Intersect
<1>3. MeetInv
  BY DEF IInv, IdomInv
<1>4. id' = id /\ Swept' = Swept /\ Processed(Swept)' = Processed(Swept)
  BY <1>1 DEF dfsVars, Swept, Processed, Preds
<1>5. PICK q \in Blocks : id[Swept] < id[q] /\ (q \in todo \/ id[q] <= id[f2])
  BY <1>1, <1>3 DEF MeetInv
<1>6. p # NoBlock /\ idom[p] # NoBlock /\ id[p] \in Nat
  BY <1>1, <1>2, <1>3, NoBlockAssumption DEF MeetInv, Processed, Preds, IInv, TypeOK
<1>7. \/ q \in todo'
      \/ id[q] <= id[f2']
      \/ f1' # NoBlock /\ id[q] <= id[f1']
  BY <1>1, <1>2, <1>5, <1>6
<1>8. MeetInv'
  BY <1>1, <1>2, <1>3, <1>4, <1>5, <1>6, <1>7 DEF MeetInv
<1> QED
  BY <1>1, <1>8, IdomKept

(* A finger climbs to a block that has an immediate dominator.              *)
LEMMA IdomClimb ==
  ASSUME IInv, ClimbFirst \/ ClimbSecond
  PROVE  IdomInv'
<1>1. /\ pc = "meet" /\ pc' = "meet" /\ todo' = todo
      /\ UNCHANGED <<pos, idom, dfsVars>> /\ succ' = succ
      /\ f1 # NoBlock
  BY DEF ClimbFirst, ClimbSecond
<1>2. \/ f1' = idom[f1] /\ f2' = f2
      \/ f2' = idom[f2] /\ f1' = f1
  BY DEF ClimbFirst, ClimbSecond
<1>3. MeetInv /\ f1 \in Blocks /\ f2 \in Blocks
  BY <1>1 DEF IInv, IdomInv, TypeOK
<1>4. id' = id /\ Swept' = Swept /\ Processed(Swept)' = Processed(Swept)
  BY <1>1 DEF dfsVars, Swept, Processed, Preds
<1>5. PICK q \in Blocks : /\ id[Swept] < id[q]
                          /\ q \in todo \/ id[q] <= id[f2] \/ id[q] <= id[f1]
  BY <1>1, <1>3 DEF MeetInv
<1>6. /\ f1' # NoBlock /\ idom[f1'] # NoBlock /\ id[f1] <= id[f1']
      /\ idom[f2'] # NoBlock /\ id[f2] <= id[f2']
      /\ {id[q], id[f1], id[f2], id[f1'], id[f2']} \subseteq Nat
  <2>1. idom[f1] # NoBlock /\ idom[f2] # NoBlock
    BY <1>1, <1>3 DEF MeetInv
  <2>2. \A b \in {f1, f2} :
          idom[b] \in Blocks /\ id[b] <= id[idom[b]] /\ idom[idom[b]] # NoBlock
    BY <1>1, <1>3, <2>1, ClimbingIsUp
  <2> QED
    BY <1>1, <1>2, <1>3, <2>1, <2>2 DEF IInv, TypeOK
<1>7. q \in todo' \/ id[q] <= id[f2'] \/ id[q] <= id[f1']
  BY <1>1, <1>5, <1>6
<1>8. MeetInv'
  BY <1>1, <1>3, <1>4, <1>5, <1>6, <1>7 DEF MeetInv
<1> QED
  BY <1>1, <1>8, IdomKept

(* Where the fingers meet is a candidate as good as the last.               *)
LEMMA IdomMet ==
  ASSUME IInv, Met
  PROVE  IdomInv'
<1>1. /\ pc = "meet" /\ pc' = "meet" /\ todo' = todo /\ f2' = f2
      /\ UNCHANGED <<pos, idom, dfsVars>> /\ succ' = succ
      /\ f1 = f2 /\ f1' = NoBlock
  BY DEF Met
<1>2. id' = id /\ Swept' = Swept /\ Processed(Swept)' = Processed(Swept)
  BY <1>1 DEF dfsVars, Swept, Processed, Preds
<1>3. MeetInv'
  BY <1>1, <1>2 DEF MeetInv, IInv, IdomInv
<1> QED
  BY <1>1, <1>3, IdomKept

(* The block gets a dominator numbered after it.                            *)
LEMMA IdomSet ==
  ASSUME IInv, SetIdom
  PROVE  IdomInv'
<1>1. /\ pc = "meet" /\ pc' = "sweep" /\ todo = {} /\ f1 = NoBlock
      /\ pos' = pos - 1 /\ idom' = [idom EXCEPT ![Swept] = f2]
      /\ stack' = stack /\ order' = order /\ id' = id
  BY Zenon DEF SetIdom, dfsVars
<1>2. pos \in 1 .. Len(order) /\ Swept \in Blocks /\ Ordered' = Ordered
  BY <1>1, SweptBlock DEF IInv, IdomInv, TypeOK, Ordered
<1>3. f2 \in Blocks /\ f2 # NoBlock
  BY <1>1, NoBlockAssumption DEF IInv, TypeOK
<1>4. Swept # Root /\ idom[f2] # NoBlock /\ id[Swept] < id[f2]
  BY <1>1, <1>2, <1>3 DEF IInv, IdomInv, MeetInv, TypeOK
<1>5. /\ idom'[Swept] = f2 /\ \A b \in Blocks \ {Swept} : idom'[b] = idom[b]
      /\ f2 # Swept
  BY <1>1, <1>2, <1>4 DEF IInv, TypeOK
<1>6. WalkComplete'
  BY <1>1, <1>2, <1>4, <1>5, RootAssumption DEF IInv, IdomInv, WalkComplete
<1>7. SweptHaveIdom'
  <2> SUFFICES ASSUME NEW i \in 1 .. Len(order), i > pos - 1
               PROVE  idom'[order[i]] # NoBlock
    BY <1>1 DEF SweptHaveIdom
  <2>1. CASE i = pos
    BY <1>3, <1>5, <2>1 DEF Swept
  <2>2. CASE i > pos
    <3>1. idom[order[i]] # NoBlock /\ order[i] \in Blocks
      BY <1>1, <2>2 DEF IInv, IdomInv, SweptHaveIdom, TypeOK
    <3> QED
      BY <1>3, <1>5, <3>1
  <2> QED
    BY <1>2, <2>1, <2>2
<1>8. ChainsUnbroken'
  <2> SUFFICES ASSUME NEW b \in Blocks, idom'[b] # NoBlock
               PROVE  idom'[idom'[b]] # NoBlock
    BY DEF ChainsUnbroken
  <2>1. CASE b = Swept
    BY <1>3, <1>4, <1>5, <2>1
  <2>2. CASE b # Swept
    <3>1. idom[b] \in Blocks /\ idom[idom[b]] # NoBlock
      BY <1>5, <2>2 DEF IInv, IdomInv, ChainsUnbroken, TypeOK
    <3> QED
      BY <1>3, <1>5, <2>2, <3>1
  <2> QED
    BY <2>1, <2>2
<1>9. IdomClimbs'
  BY <1>1, <1>4, <1>5 DEF IInv, IdomInv, IdomClimbs
<1> QED
  BY <1>1, <1>6, <1>7, <1>8, <1>9 DEF IdomInv, MeetInv, AllHaveIdom, RunnerNeverNull

(* A new sweep finds every block with an immediate dominator.               *)
LEMMA IdomSweepAgain ==
  ASSUME IInv, SweepAgain
  PROVE  IdomInv'
<1>1. /\ pc = "sweep" /\ pc' = pc /\ pos' = Len(order)
      /\ idom' = idom /\ stack' = stack /\ order' = order /\ id' = id
  BY DEF SweepAgain, dfsVars
<1>2. Ordered' = Ordered /\ Len(order) \in Nat
  BY <1>1 DEF Ordered, IInv, TypeOK
<1> QED
  BY <1>1, <1>2
     DEF IInv, IdomInv, WalkComplete, SweptHaveIdom, ChainsUnbroken, IdomClimbs,
         MeetInv, AllHaveIdom, RunnerNeverNull

(* When the sweeps end every block has an immediate dominator.              *)
LEMMA IdomEnd ==
  ASSUME IInv, EndIdom
  PROVE  IdomInv'
<1>1. /\ pc = "sweep" /\ pc' = "frontier" /\ pos = 0 /\ pos' = pos
      /\ idom' = idom /\ stack' = stack /\ order' = order /\ id' = id
  BY DEF EndIdom, dfsVars, idomVars
<1>2. Ordered' = Ordered /\ Ordered = Blocks
  BY <1>1 DEF Ordered, IInv, IdomInv, WalkComplete
<1>3. \A b \in Blocks : idom[b] # NoBlock
  BY <1>1, <1>2 DEF Ordered, IInv, IdomInv, SweptHaveIdom
<1> QED
  BY <1>1, <1>2, <1>3
     DEF IInv, IdomInv, WalkComplete, SweptHaveIdom, ChainsUnbroken, IdomClimbs,
         MeetInv, AllHaveIdom, RunnerNeverNull

(* Frontiers and tree read the immediate dominators, all of them set.       *)
LEMMA IdomRest ==
  ASSUME IInv, StartRunner \/ Run \/ StopRunner \/ EndFrontier \/ BuildTree
  PROVE  IdomInv'
<1>1. /\ pc \in {"frontier", "run", "tree"} /\ pc' \in {"frontier", "run", "tree", "done"}
      /\ UNCHANGED idomVars /\ UNCHANGED dfsVars
  BY DEF StartRunner, Run, StopRunner, EndFrontier, BuildTree
<1>2. /\ idom' = idom /\ pos' = pos /\ stack' = stack /\ order' = order /\ id' = id
      /\ Ordered' = Ordered
  BY <1>1 DEF idomVars, dfsVars, Ordered
<1>3. \A b \in Blocks : idom[b] # NoBlock
  BY <1>1 DEF IInv, IdomInv, AllHaveIdom
<1>4. RunnerNeverNull'
  <2>1. CASE StartRunner
    BY <2>1, NoBlockAssumption DEF StartRunner, RunnerNeverNull, IInv, TypeOK
  <2>2. CASE Run
    BY <2>2, <1>3 DEF Run, RunnerNeverNull, IInv, TypeOK
  <2>3. CASE StopRunner \/ EndFrontier \/ BuildTree
    BY <2>3 DEF StopRunner, EndFrontier, BuildTree, RunnerNeverNull
  <2> QED
    BY <2>1, <2>2, <2>3
<1> QED
  BY <1>1, <1>2, <1>3, <1>4
     DEF IInv, IdomInv, WalkComplete, SweptHaveIdom, ChainsUnbroken, IdomClimbs,
         MeetInv, AllHaveIdom

-----------------------------------------------------------------------------
(****************************************************************************)
(* Results.                                                                 *)
(****************************************************************************)

(* Every step keeps IInv, the types with the two invariants above.          *)
LEMMA InvariantStep == IInv /\ [Next]_vars => IInv'
<1> SUFFICES ASSUME IInv, [Next]_vars
             PROVE  DfsInv' /\ IdomInv'
  BY TypeStep DEF IInv
<1>1. IInv /\ TypeOK /\ TypeOK' /\ DfsInv /\ IdomInv
  BY TypeStep DEF IInv
<1>2. CASE Visit
  BY <1>1, <1>2, DfsVisit, IdomWalk
<1>3. CASE Number
  BY <1>1, <1>3, DfsNumber, IdomWalk
<1>4. CASE StartIdom
  BY <1>1, <1>4, DfsUnchanged, IdomStart DEF StartIdom
<1>5. CASE SkipRoot
  BY <1>1, <1>5, DfsUnchanged, IdomSkipRoot DEF SkipRoot
<1>6. CASE PickPred
  BY <1>1, <1>6, DfsUnchanged, IdomPickPred DEF PickPred
<1>7. CASE Intersect
  BY <1>1, <1>7, DfsUnchanged, IdomIntersect DEF Intersect
<1>8. CASE ClimbFirst \/ ClimbSecond
  BY <1>1, <1>8, DfsUnchanged, IdomClimb DEF ClimbFirst, ClimbSecond
<1>9. CASE Met
  BY <1>1, <1>9, DfsUnchanged, IdomMet DEF Met
<1>10. CASE SetIdom
  <2>1. UNCHANGED <<succ, dfsVars>>
    BY <1>10, Zenon DEF SetIdom
  <2> QED
    BY <1>1, <1>10, <2>1, DfsUnchanged, IdomSet
<1>11. CASE SweepAgain
  BY <1>1, <1>11, DfsUnchanged, IdomSweepAgain DEF SweepAgain
<1>12. CASE EndIdom
  BY <1>1, <1>12, DfsUnchanged, IdomEnd DEF EndIdom
<1>13. CASE StartRunner \/ Run \/ StopRunner \/ EndFrontier \/ BuildTree
  <2>1. UNCHANGED <<succ, dfsVars>>
    BY <1>13 DEF StartRunner, Run, StopRunner, EndFrontier, BuildTree
  <2> QED
    BY <1>1, <1>13, <2>1, DfsUnchanged, IdomRest
<1>14. CASE UNCHANGED vars
  <2>1. /\ UNCHANGED <<succ, dfsVars>> /\ UNCHANGED <<pc, pos, idom, todo, f1, f2, runner>>
    BY <1>14 DEF vars, dfsVars
  <2>2. Ordered' = Ordered /\ Swept' = Swept /\ Processed(Swept)' = Processed(Swept)
        /\ id' = id /\ order' = order /\ stack' = stack
    BY <2>1 DEF dfsVars, Ordered, Swept, Processed, Preds
  <2>3. IdomInv'
    BY <1>1, <2>1, <2>2 DEF IdomInv, WalkComplete, SweptHaveIdom, ChainsUnbroken,
       IdomClimbs, MeetInv, AllHaveIdom, RunnerNeverNull
  <2> QED
    BY <1>1, <2>1, <2>3, DfsUnchanged
<1> QED
  BY <1>2, <1>3, <1>4, <1>5, <1>6, <1>7, <1>8, <1>9, <1>10, <1>11, <1>12,
     <1>13, <1>14 DEF Next

(* IInv is an invariant of the analysis.                                    *)
THEOREM InductiveInvariant == Spec => []IInv
<1>1. Init => IInv
  BY TypeInit, DfsInit, IdomInit DEF IInv
<1> QED
  BY <1>1, InvariantStep, PTL DEF Spec

(* assert(pred) and the asserts of intersect hold on every graph in which   *)
(* every block can be reached.                                              *)
THEOREM AssertsNeverFail == Spec => []AssertsHold
<1>1. IInv => AssertsHold
  <2> SUFFICES ASSUME IInv PROVE AssertsHold
    OBVIOUS
  <2>1. (pc = "sweep" /\ pos > 0 /\ Swept # Root) => Processed(Swept) # {}
    BY PredProcessed
  <2>2. (pc = "meet" /\ f1 # NoBlock) => idom[f1] # NoBlock /\ idom[f2] # NoBlock
    BY DEF IInv, IdomInv, MeetInv
  <2> QED
    BY <2>1, <2>2 DEF AssertsHold
<1> QED
  BY <1>1, InductiveInvariant, PTL

(* The frontier loop dereferences no null runner.                           *)
THEOREM RunnerSafe == Spec => []RunnerNeverNull
<1>1. IInv => RunnerNeverNull
  BY DEF IInv, IdomInv
<1> QED
  BY <1>1, InductiveInvariant, PTL

(* Immediate dominators climb in post order, so every walk up the dominator *)
(* tree ends.                                                               *)
THEOREM DominatorsClimb == Spec => []IdomClimbs
<1>1. IInv => IdomClimbs
  BY DEF IInv, IdomInv
<1> QED
  BY <1>1, InductiveInvariant, PTL

-----------------------------------------------------------------------------
(****************************************************************************)
(* The immediate dominators are right.                                      *)
(****************************************************************************)

(* The blocks a finger passes when it climbs from x by f: those in every    *)
(* set that holds x and is closed under f.                                  *)
ChainOf(f, x) == {d \in Blocks : \A U \in SUBSET Blocks :
                     (x \in U /\ \A z \in U : f[z] \in U) => d \in U}

(* What dominates a block dominates what idom_ has for it: no entry is too  *)
(* high.                                                                    *)
NotAbove ==
    \A b \in Blocks \ {Root} : idom[b] # NoBlock =>
        \A d \in Blocks \ {b} : Dominates(succ, d, b) => Dominates(succ, d, idom[b])

FingersNotAbove ==
    pc = "meet" => \A d \in Blocks \ {Swept} : Dominates(succ, d, Swept) =>
        Dominates(succ, d, f2) /\ (f1 # NoBlock => Dominates(succ, d, f1))

(* The candidate, or the finger on its way to it, is above every            *)
(* predecessor met so far.                                                  *)
MeetsPreds ==
    pc = "meet" => \A p \in Preds(succ, Swept) \ todo : idom[p] # NoBlock =>
        f2 \in ChainOf(idom, p) \/ (f1 # NoBlock /\ f1 \in ChainOf(idom, p))

(* While a sweep has changed nothing, what it is past is in order: the      *)
(* entry of a block is above all its predecessors.                          *)
SweepFixed ==
    pc \in {"sweep", "meet"} /\ ~ changed =>
        \A i \in 1 .. Len(order) : i > pos /\ order[i] # Root =>
            \A p \in Preds(succ, order[i]) : idom[p] # NoBlock =>
                idom[order[i]] \in ChainOf(idom, p)

SweepInv == NotAbove /\ FingersNotAbove /\ MeetsPreds /\ SweepFixed

(* A chain begins with its block, goes on with the next block up, and holds *)
(* the chain of each block in it.                                           *)
LEMMA Chains ==
    ASSUME NEW f, NEW x \in Blocks
    PROVE  /\ x \in ChainOf(f, x)
           /\ \A d \in ChainOf(f, x) : f[d] \in Blocks => f[d] \in ChainOf(f, x)
           /\ \A d \in ChainOf(f, x) : ChainOf(f, d) \subseteq ChainOf(f, x)
           /\ f[x] \in Blocks => ChainOf(f, x) \subseteq {x} \cup ChainOf(f, f[x])
<1>1. x \in ChainOf(f, x)
    BY DEF ChainOf
<1>2. \A d \in ChainOf(f, x) : f[d] \in Blocks => f[d] \in ChainOf(f, x)
    BY DEF ChainOf
<1>3. \A d \in ChainOf(f, x) : ChainOf(f, d) \subseteq ChainOf(f, x)
    BY DEF ChainOf
<1>4. ASSUME f[x] \in Blocks, NEW d \in ChainOf(f, x), d # x PROVE d \in ChainOf(f, f[x])
  <2> SUFFICES ASSUME NEW U \in SUBSET Blocks, f[x] \in U, \A z \in U : f[z] \in U
               PROVE  d \in U
    BY <1>4 DEF ChainOf
  <2>1. /\ U \cup {x} \in SUBSET Blocks /\ x \in U \cup {x}
        /\ \A z \in U \cup {x} : f[z] \in U \cup {x}
    OBVIOUS
  <2>2. d \in U \cup {x}
    BY <1>4, <2>1 DEF ChainOf
  <2> QED
    BY <1>4, <2>2
<1> QED
    BY <1>1, <1>2, <1>3, <1>4

(* What the sweeps are about is typed.                                      *)
LEMMA SweepTyped ==
    ASSUME IInv
    PROVE  /\ IsFunctionCfg(succ) /\ succ \in [Blocks -> SUBSET Blocks]
           /\ id \in [Blocks -> Nat] /\ idom \in [Blocks -> Blocks \cup {NoBlock}]
           /\ \A b \in Blocks : idom[b] # NoBlock => idom[b] \in Blocks
           /\ pc = "meet" => /\ f2 \in Blocks /\ (f1 # NoBlock => f1 \in Blocks)
                             /\ pos \in 1 .. Len(order) /\ Swept \in Blocks \ {Root}
                             /\ todo \subseteq Processed(Swept)
                             /\ idom[f2] # NoBlock /\ (f1 # NoBlock => idom[f1] # NoBlock)
<1>1. IsFunctionCfg(succ) /\ succ \in [Blocks -> SUBSET Blocks]
    BY GraphsAssumption DEF IInv, TypeOK, IsFunctionCfg
<1>2. pc = "meet" => pos \in 1 .. Len(order) /\ Swept \in Blocks
    BY SweptBlock DEF IInv, IdomInv, TypeOK
<1> QED
    BY <1>1, <1>2 DEF IInv, IdomInv, TypeOK, MeetInv

(* The graph of the edges that go down in post order.                       *)
Forward == [b \in Blocks |-> {c \in succ[b] : id[c] < id[b]}]

(* Every block has a number of its own, its place in the order.             *)
LEMMA NumbersAre ==
    ASSUME IInv, pc # "dfs"
    PROVE  /\ \A b \in Blocks : \E i \in 1 .. Len(order) : order[i] = b /\ id[b] = i - 1
           /\ \A b \in Blocks, c \in Blocks : id[b] = id[c] => b = c
           /\ \A i \in 1 .. Len(order) : order[i] \in Blocks /\ id[order[i]] = i - 1
           /\ Len(order) \in Nat
<1>1. \A b \in Blocks : \E i \in 1 .. Len(order) : order[i] = b /\ id[b] = i - 1
    BY DEF IInv, IdomInv, WalkComplete, Ordered, DfsInv, Numbering
<1>3. \A i \in 1 .. Len(order) : order[i] \in Blocks /\ id[order[i]] = i - 1
    BY DEF IInv, TypeOK, DfsInv, Numbering
<1>4. Len(order) \in Nat
    BY DEF IInv, TypeOK
<1>2. \A b \in Blocks, c \in Blocks : id[b] = id[c] => b = c
  <2> SUFFICES ASSUME NEW b \in Blocks, NEW c \in Blocks, id[b] = id[c] PROVE b = c
    OBVIOUS
  <2>1. PICK i \in 1 .. Len(order) : order[i] = b /\ id[b] = i - 1
    BY <1>1
  <2>2. PICK j \in 1 .. Len(order) : order[j] = c /\ id[c] = j - 1
    BY <1>1
  <2>3. i - 1 = j - 1
    BY <2>1, <2>2
  <2>4. i \in Nat /\ j \in Nat
    BY <1>4
  <2>5. i = j
    BY <2>3, <2>4
  <2> QED
    BY <2>1, <2>2, <2>5
<1> QED
    BY <1>1, <1>2, <1>3, <1>4

(* Each block but the entry has a predecessor in that graph.                *)
LEMMA ForwardIs ==
    ASSUME IInv, pc # "dfs"
    PROVE  /\ Forward \in [Blocks -> SUBSET (Blocks \ {Root})]
           /\ \A b \in Blocks : Preds(Forward, b) = {p \in Preds(succ, b) : id[b] < id[p]}
           /\ \A b \in Blocks \ {Root} : Preds(Forward, b) # {}
<1>1. succ \in [Blocks -> SUBSET (Blocks \ {Root})]
    BY SweepTyped DEF IsFunctionCfg
<1>2. Forward \in [Blocks -> SUBSET (Blocks \ {Root})]
    BY <1>1 DEF Forward
<1>3. \A b \in Blocks : Preds(Forward, b) = {p \in Preds(succ, b) : id[b] < id[p]}
    BY DEF Forward, Preds
<1>4. ASSUME NEW b \in Blocks \ {Root} PROVE Preds(Forward, b) # {}
  <2>1. Active = {} /\ Ordered = Blocks
    BY DEF IInv, IdomInv, WalkComplete, Active
  <2>2. PICK p \in Preds(succ, b) : id[b] < id[p]
    BY <2>1 DEF IInv, DfsInv, LaterPred
  <2> QED
    BY <1>3, <2>2
<1> QED
    BY <1>2, <1>3, <1>4

(* So its edges reach all blocks.                                           *)
LEMMA ForwardGraph ==
    ASSUME IInv, pc # "dfs"
    PROVE  IsFunctionCfg(Forward)
<1> SUFFICES ASSUME NEW S \in SUBSET Blocks, Root \in S, \A x \in S : Forward[x] \subseteq S,
                    S # Blocks
             PROVE  FALSE
    BY ForwardIs DEF IsFunctionCfg, AllReachable
<1>1. /\ \A b \in Blocks : \E i \in 1 .. Len(order) : order[i] = b /\ id[b] = i - 1
      /\ Len(order) \in Nat
    BY NumbersAre
<1>2. \A y \in Blocks : Len(order) - id[y] \in Nat /\ id[y] \in Nat
    BY <1>1
<1> DEFINE T == {Len(order) - id[y] : y \in Blocks \ S}
<1>3. T \subseteq Nat /\ T # {}
    BY <1>2
<1>4. PICK y \in Blocks \ S : \A t \in T : Len(order) - id[y] <= t
  <2> HIDE DEF T
  <2>1. PICK t \in T : \A u \in T : t <= u
    BY <1>3, LeastNatural
  <2> QED
    BY <2>1 DEF T
<1>5. PICK p \in Preds(Forward, y) : TRUE
    BY <1>4, ForwardIs
<1>6. p \in Blocks /\ id[y] < id[p] /\ y \in Forward[p]
    BY <1>4, <1>5, ForwardIs DEF Preds
<1>7. p \notin S
    BY <1>4, <1>6
<1>8. Len(order) - id[y] <= Len(order) - id[p]
    BY <1>4, <1>6, <1>7
<1> HIDE DEF T
<1> QED
    BY <1>1, <1>2, <1>4, <1>6, <1>8

(* A dominator along the edges that go down is numbered later.              *)
LEMMA ForwardLater ==
    ASSUME IInv, pc # "dfs", NEW d \in Blocks, NEW x \in Blocks, Dominates(Forward, d, x)
    PROVE  id[x] <= id[d]
<1>1. IsFunctionCfg(Forward) /\ Len(order) \in Nat
    BY ForwardGraph, NumbersAre
<1>2. \A y \in Blocks : Len(order) - id[y] \in Nat /\ id[y] \in Nat
    BY NumbersAre
<1> SUFFICES ASSUME id[d] < id[x] PROVE FALSE
    BY <1>2
<1> DEFINE T == {Len(order) - id[y] : y \in {z \in Blocks : Dominates(Forward, d, z) /\ id[d] < id[z]}}
<1>3. T \subseteq Nat /\ T # {}
    BY <1>2
<1>4. PICK y \in Blocks : /\ Dominates(Forward, d, y) /\ id[d] < id[y]
                          /\ \A t \in T : Len(order) - id[y] <= t
  <2> HIDE DEF T
  <2>1. PICK t \in T : \A u \in T : t <= u
    BY <1>3, LeastNatural
  <2> QED
    BY <2>1 DEF T
<1>5. y # Root /\ y # d
    BY <1>2, <1>4, RootDominated
<1>6. PICK p \in Preds(Forward, y) : TRUE
    BY <1>5, ForwardIs
<1>7. p \in Blocks /\ id[y] < id[p] /\ Dominates(Forward, d, p)
    BY <1>1, <1>4, <1>5, <1>6, ForwardIs, DominatesPreds DEF Preds
<1>8. Len(order) - id[y] <= Len(order) - id[p]
    BY <1>2, <1>4, <1>7
<1> HIDE DEF T
<1> QED
    BY <1>1, <1>2, <1>7, <1>8

(* A dominator is numbered after what it dominates.                         *)
LEMMA DominatorsNumberedLater ==
    ASSUME IInv, pc # "dfs", NEW d \in Blocks, NEW x \in Blocks, Dominates(succ, d, x)
    PROVE  id[x] <= id[d]
<1>1. \A b \in Blocks : Forward[b] \subseteq succ[b]
    BY DEF Forward
<1>2. Dominates(Forward, d, x)
    BY <1>1 DEF Dominates
<1> QED
    BY <1>2, ForwardLater

(* A finger climbs only to what every strict dominator of the swept block   *)
(* dominates: the other finger stands higher, so the finger is on none.     *)
LEMMA ClimbNotAbove ==
    ASSUME IInv, SweepInv, pc = "meet", NEW f \in Blocks, NEW e \in Blocks,
           idom[f] # NoBlock, id[f] < id[e],
           NEW d \in Blocks, Dominates(succ, d, f), Dominates(succ, d, e)
    PROVE  Dominates(succ, d, idom[f])
<1>1. f # d
    BY DominatorsNumberedLater, SweepTyped
<1>2. f # Root
    BY <1>1, RootDominated
<1> QED
    BY <1>1, <1>2 DEF SweepInv, NotAbove

(* What is left alone by the steps that move the fingers only.              *)
LEMMA SweepKept ==
    ASSUME SweepInv, UNCHANGED <<succ, idom, order, pos, changed>>,
           pc \in {"sweep", "meet"}, FingersNotAbove', MeetsPreds'
    PROVE  SweepInv'
<1>1. NotAbove'
    BY DEF SweepInv, NotAbove
<1>2. SweepFixed'
    BY DEF SweepInv, SweepFixed
<1> QED
    BY <1>1, <1>2 DEF SweepInv

(* The first candidate is the predecessor itself.                           *)
LEMMA SweepPickPred ==
    ASSUME IInv, SweepInv, PickPred
    PROVE  SweepInv'
<1>1. /\ pc = "sweep" /\ pc' = "meet" /\ pos > 0 /\ Swept # Root /\ f1' = NoBlock
      /\ UNCHANGED <<succ, idom, order, pos, changed>> /\ Swept' = Swept
    BY DEF PickPred, dfsVars, Swept
<1>2. PICK p \in Preds(succ, Swept) : /\ idom[p] # NoBlock /\ f2' = p
                                      /\ todo' = Processed(Swept) \ {p}
    BY DEF PickPred, Processed
<1>3. Swept \in Blocks /\ p \in Blocks
    BY <1>1, SweptBlock DEF IInv, IdomInv, Preds
<1>4. FingersNotAbove'
    BY <1>1, <1>2, <1>3, DominatesPreds, SweepTyped DEF FingersNotAbove
<1>5. p \in ChainOf(idom, p)
    BY <1>3, Chains
<1>6. MeetsPreds'
    BY <1>1, <1>2, <1>5 DEF MeetsPreds, Processed
<1> QED
    BY <1>1, <1>4, <1>6, SweepKept

(* A call of intersect starts with both fingers on predecessors or above.   *)
LEMMA SweepIntersect ==
    ASSUME IInv, SweepInv, Intersect
    PROVE  SweepInv'
<1>1. /\ pc = "meet" /\ pc' = "meet" /\ f1 = NoBlock /\ f2' = f2
      /\ UNCHANGED <<succ, idom, order, pos, changed>> /\ Swept' = Swept
    BY DEF Intersect, dfsVars, Swept
<1>2. PICK p \in todo : f1' = p /\ todo' = todo \ {p}
    BY DEF Intersect
<1>3. Swept \in Blocks /\ p \in Blocks /\ p \in Preds(succ, Swept) /\ p # NoBlock
    BY <1>1, <1>2, SweepTyped, NoBlockAssumption DEF Processed, Preds
<1>4. FingersNotAbove'
    BY <1>1, <1>2, <1>3, DominatesPreds, SweepTyped DEF SweepInv, FingersNotAbove
<1>5. p \in ChainOf(idom, p)
    BY <1>3, Chains
<1>6. MeetsPreds'
    BY <1>1, <1>2, <1>3, <1>5 DEF SweepInv, MeetsPreds
<1> QED
    BY <1>1, <1>4, <1>6, SweepKept

(* A finger that climbs stays on the chains it is on, and below every       *)
(* dominator of the swept block.                                            *)
LEMMA SweepClimb ==
    ASSUME IInv, SweepInv, ClimbFirst \/ ClimbSecond
    PROVE  SweepInv'
<1>1. /\ pc = "meet" /\ pc' = "meet" /\ f1 # NoBlock /\ todo' = todo
      /\ UNCHANGED <<succ, idom, order, pos, changed>> /\ Swept' = Swept
    BY DEF ClimbFirst, ClimbSecond, dfsVars, Swept
<1>2. \/ id[f1] < id[f2] /\ f1' = idom[f1] /\ f2' = f2
      \/ id[f2] < id[f1] /\ f2' = idom[f2] /\ f1' = f1
    BY DEF ClimbFirst, ClimbSecond
<1>3. /\ f1 \in Blocks /\ f2 \in Blocks /\ idom[f1] \in Blocks /\ idom[f2] \in Blocks
      /\ idom[f1] # NoBlock /\ idom[f2] # NoBlock
    BY <1>1, SweepTyped
<1>4. FingersNotAbove'
  <2> SUFFICES ASSUME NEW d \in Blocks \ {Swept}, Dominates(succ, d, Swept)
               PROVE  Dominates(succ, d, f2') /\ Dominates(succ, d, f1')
    BY <1>1 DEF FingersNotAbove
  <2>1. Dominates(succ, d, f1) /\ Dominates(succ, d, f2)
    BY <1>1 DEF SweepInv, FingersNotAbove
  <2> QED
    BY <1>1, <1>2, <1>3, <2>1, ClimbNotAbove
<1>5. MeetsPreds'
  <2> SUFFICES ASSUME NEW p \in Preds(succ, Swept) \ todo, idom[p] # NoBlock
               PROVE  f2' \in ChainOf(idom, p) \/ (f1' # NoBlock /\ f1' \in ChainOf(idom, p))
    BY <1>1 DEF MeetsPreds
  <2>1. p \in Blocks
    BY DEF Preds
  <2>2. f2 \in ChainOf(idom, p) \/ f1 \in ChainOf(idom, p)
    BY <1>1 DEF SweepInv, MeetsPreds
  <2> QED
    BY <1>1, <1>2, <1>3, <2>1, <2>2, Chains, NoBlockAssumption
<1> QED
    BY <1>1, <1>4, <1>5, SweepKept

(* The finger both stand on is the next candidate.                          *)
LEMMA SweepMet ==
    ASSUME IInv, SweepInv, Met
    PROVE  SweepInv'
<1>1. /\ pc = "meet" /\ pc' = "meet" /\ f1 # NoBlock /\ todo' = todo /\ f1 = f2 /\ f2' = f2
      /\ f1' = NoBlock
      /\ UNCHANGED <<succ, idom, order, pos, changed>> /\ Swept' = Swept
    BY DEF Met, dfsVars, Swept
<1>2. FingersNotAbove'
    BY <1>1 DEF SweepInv, FingersNotAbove
<1>3. MeetsPreds'
    BY <1>1 DEF SweepInv, MeetsPreds
<1> QED
    BY <1>1, <1>2, <1>3, SweepKept

(* The candidate is above every predecessor and below every dominator: the  *)
(* new entry is not too high, and the old one was right if it is the same.  *)
LEMMA SweepSet ==
    ASSUME IInv, SweepInv, SetIdom
    PROVE  SweepInv'
<1>1. /\ pc = "meet" /\ pc' = "sweep" /\ f1 = NoBlock /\ todo = {}
      /\ idom' = [idom EXCEPT ![Swept] = f2] /\ pos' = pos - 1
      /\ succ' = succ /\ order' = order
    BY Zenon DEF SetIdom, dfsVars
<1>2. changed' = IF idom[Swept] = f2 THEN changed ELSE TRUE
    BY Zenon DEF SetIdom
<1>3. /\ f2 \in Blocks /\ Swept \in Blocks \ {Root} /\ pos \in 1 .. Len(order)
      /\ idom \in [Blocks -> Blocks \cup {NoBlock}]
    BY <1>1, SweepTyped
<1>4. NotAbove'
  <2> SUFFICES ASSUME NEW b \in Blocks \ {Root}, idom'[b] # NoBlock,
                      NEW d \in Blocks \ {b}, Dominates(succ, d, b)
               PROVE  Dominates(succ, d, idom'[b])
    BY <1>1 DEF NotAbove
  <2>1. CASE b = Swept
    BY <1>1, <1>3, <2>1 DEF SweepInv, FingersNotAbove
  <2>2. CASE b # Swept
    BY <1>1, <1>3, <2>2 DEF SweepInv, NotAbove
  <2> QED
    BY <2>1, <2>2
<1>5. FingersNotAbove' /\ MeetsPreds'
    BY <1>1 DEF FingersNotAbove, MeetsPreds
<1>6. SweepFixed'
  <2> SUFFICES ASSUME ~ changed', NEW i \in 1 .. Len(order), i > pos', order[i] # Root,
                      NEW p \in Preds(succ, order[i]), idom'[p] # NoBlock
               PROVE  idom'[order[i]] \in ChainOf(idom', p)
    BY <1>1 DEF SweepFixed
  <2>1. idom' = idom /\ ~ changed /\ idom[Swept] = f2
    BY <1>1, <1>2, <1>3
  <2>2. CASE i = pos
    BY <1>1, <2>1, <2>2 DEF SweepInv, MeetsPreds, Swept
  <2>3. CASE i > pos
    BY <1>1, <2>1, <2>3 DEF SweepInv, SweepFixed
  <2> QED
    BY <1>1, <1>3, <2>2, <2>3
<1> QED
    BY <1>4, <1>5, <1>6 DEF SweepInv

(* f gives the immediate dominators of g.                                   *)
RightFor(g, f) ==
    /\ f[Root] = Root
    /\ \A b \in Blocks \ {Root} :
          /\ f[b] \in Blocks /\ StrictlyDominates(g, f[b], b)
          /\ \A e \in Blocks : StrictlyDominates(g, e, b) => Dominates(g, e, f[b])

(* When every block's entry is above all its predecessors, everything in    *)
(* the chain of a block dominates it: the blocks whose chain misses d can   *)
(* be left only through d.                                                  *)
LEMMA ChainsDominate ==
    ASSUME IInv, pc # "dfs", \A b \in Blocks : idom[b] \in Blocks,
           \A b \in Blocks \ {Root} : \A p \in Preds(succ, b) : idom[b] \in ChainOf(idom, p),
           NEW b \in Blocks, NEW d \in ChainOf(idom, b)
    PROVE  Dominates(succ, d, b)
<1> DEFINE S == {x \in Blocks : d \notin ChainOf(idom, x)}
<1>1. d \in Blocks /\ d \notin S /\ b \notin S
    BY Chains DEF ChainOf
<1>2. ASSUME Root # d PROVE Root \in S
  <2>1. idom[Root] = Root
    BY DEF IInv, IdomInv, WalkComplete
  <2>2. d \notin {Root} /\ Root \in {Root} /\ {Root} \in SUBSET Blocks
        /\ \A z \in {Root} : idom[z] \in {Root}
    BY <1>2, <2>1, RootAssumption
  <2>3. d \notin ChainOf(idom, Root)
    BY <2>2 DEF ChainOf
  <2> QED
    BY <2>3, RootAssumption
<1>3. ASSUME NEW x \in S, NEW y \in succ[x], y # d PROVE y \in S
  <2>1. x \in Blocks /\ y \in Blocks \ {Root} /\ x \in Preds(succ, y)
    BY GraphsAssumption DEF IInv, TypeOK, IsFunctionCfg, Preds
  <2>2. idom[y] \in ChainOf(idom, x)
    BY <2>1
  <2>3. ChainOf(idom, idom[y]) \subseteq ChainOf(idom, x)
    BY <2>1, <2>2, Chains
  <2>4. ChainOf(idom, y) \subseteq {y} \cup ChainOf(idom, idom[y])
    BY <2>1, Chains
  <2> QED
    BY <1>3, <2>1, <2>3, <2>4
<1>4. S \in SUBSET (Blocks \ {d, b}) /\ \A x \in S : succ[x] \subseteq S \cup {d}
    BY <1>1, <1>3
<1> HIDE DEF S
<1> QED
    BY <1>2, <1>4 DEF Dominates

(* A sweep without a change leaves the immediate dominators.                *)
LEMMA SweepsEnd ==
    ASSUME IInv, SweepInv, pc = "sweep", pos = 0, ~ changed
    PROVE  RightFor(succ, idom)
<1>1. Ordered = Blocks /\ idom[Root] = Root
    BY DEF IInv, IdomInv, WalkComplete
<1>2. ASSUME NEW b \in Blocks
      PROVE  \E i \in 1 .. Len(order) : order[i] = b /\ i > pos
  <2>1. Len(order) \in Nat
    BY DEF IInv, TypeOK
  <2> QED
    BY <1>1, <2>1 DEF Ordered
<1>3. \A b \in Blocks : idom[b] # NoBlock /\ idom[b] \in Blocks
  <2>1. \A b \in Blocks : idom[b] # NoBlock
    BY <1>2 DEF IInv, IdomInv, SweptHaveIdom
  <2> QED
    BY <2>1, SweepTyped
<1>4. \A b \in Blocks \ {Root} : \A p \in Preds(succ, b) : idom[b] \in ChainOf(idom, p)
    BY <1>2, <1>3 DEF SweepInv, SweepFixed, Preds
<1>5. ASSUME NEW b \in Blocks \ {Root}
      PROVE  /\ StrictlyDominates(succ, idom[b], b)
             /\ \A e \in Blocks : StrictlyDominates(succ, e, b) => Dominates(succ, e, idom[b])
  <2>1. b \in ChainOf(idom, b) /\ idom[b] \in ChainOf(idom, b)
    BY <1>3, Chains
  <2>2. Dominates(succ, idom[b], b)
    BY <1>3, <1>4, <2>1, ChainsDominate
  <2>3. idom[b] # b
    <3>1. id[b] < id[idom[b]] /\ id[b] \in Nat
      BY <1>3 DEF IInv, IdomInv, IdomClimbs, TypeOK
    <3> QED
      BY <3>1
  <2>4. \A e \in Blocks : StrictlyDominates(succ, e, b) => Dominates(succ, e, idom[b])
    BY <1>3 DEF SweepInv, NotAbove, StrictlyDominates
  <2> QED
    BY <2>2, <2>3, <2>4 DEF StrictlyDominates
<1> QED
    BY <1>1, <1>3, <1>5 DEF RightFor

-----------------------------------------------------------------------------
(****************************************************************************)
(* The frontiers and the tree are right.                                    *)
(****************************************************************************)

Found == pc \in {"frontier", "run", "tree", "done"}

(* The runner is a block below idom[join] that dominates a predecessor.     *)
RunnerInv ==
    pc = "run" =>
        /\ runner \in Blocks /\ join \in Blocks \ {Root}
        /\ Dominates(succ, idom[join], runner)
        /\ \E p \in Preds(succ, join) : Dominates(succ, runner, p)

(* A block of a frontier is there, or its edge is still to be treated, or   *)
(* the runner is on its way.                                                *)
FrontierInv ==
    /\ \A n \in Blocks : frontier[n] \subseteq DominanceFrontier(succ, n)
    /\ \A e \in edges : e[2] \in Preds(succ, e[1])
    /\ Found =>
          \A n \in Blocks : \A b \in DominanceFrontier(succ, n) : \A p \in Preds(succ, b) :
              Dominates(succ, n, p) =>
                  \/ <<b, p>> \in edges \/ b \in frontier[n]
                  \/ pc = "run" /\ join = b /\ Dominates(succ, n, runner)
    /\ pc \in {"tree", "done"} => edges = {}

TreeInv == pc = "done" => children = [n \in Blocks |-> ChildrenOf(n)]

IdomRight == Found => RightFor(succ, idom)

ResultInv == SweepInv /\ IdomRight /\ RunnerInv /\ FrontierInv /\ TreeInv

(* What a strict step up from n keeps above n.                              *)
LEMMA StepUp ==
    ASSUME NEW g, IsFunctionCfg(g), NEW f, RightFor(g, f),
           NEW n \in Blocks, NEW r \in Blocks, Dominates(g, n, r), n # r
    PROVE  /\ f[r] \in Blocks /\ Dominates(g, f[r], r) /\ Dominates(g, n, f[r])
<1>1. r # Root
    BY RootDominated
<1> QED
    BY <1>1 DEF RightFor, StrictlyDominates

(* The edges of all joins are to be treated.                                *)
LEMMA FrontierStarts ==
    ASSUME IInv, SweepInv, FrontierInv, EndIdom
    PROVE  IdomRight' /\ RunnerInv' /\ FrontierInv'
<1>1. /\ pc = "sweep" /\ pos = 0 /\ ~ changed /\ pc' = "frontier"
      /\ succ' = succ /\ idom' = idom /\ frontier' = frontier
      /\ edges' = {e \in Blocks \X Blocks : /\ e[2] \in Preds(succ, e[1])
                                            /\ Cardinality(Preds(succ, e[1])) >= 2}
    BY DEF EndIdom, idomVars
<1>2. IdomRight'
    BY <1>1, SweepsEnd DEF IdomRight
<1>3. ASSUME NEW n \in Blocks, NEW b \in DominanceFrontier(succ, n), NEW p \in Preds(succ, b),
             Dominates(succ, n, p)
      PROVE  <<b, p>> \in edges'
  <2>1. b \in Blocks /\ p \in Blocks /\ ~ StrictlyDominates(succ, n, b)
    BY DEF DominanceFrontier, Preds
  <2>2. Cardinality(Preds(succ, b)) >= 2
    BY <1>3, <2>1, FrontierIsJoin, SweepTyped
  <2> QED
    BY <1>1, <2>1, <2>2
<1>4. FrontierInv'
    BY <1>1, <1>3 DEF FrontierInv, Found
<1> QED
    BY <1>1, <1>2, <1>4 DEF RunnerInv

(* The runner starts at the predecessor.                                    *)
LEMMA FrontierStartRunner ==
    ASSUME IInv, ResultInv, StartRunner
    PROVE  ResultInv'
<1>1. /\ pc = "frontier" /\ pc' = "run" /\ succ' = succ /\ idom' = idom /\ frontier' = frontier
    BY DEF StartRunner, idomVars
<1>2. PICK e \in edges : edges' = edges \ {e} /\ join' = e[1] /\ runner' = e[2]
    BY DEF StartRunner
<1>3. /\ e \in Blocks \X Blocks /\ e[2] \in Preds(succ, e[1]) /\ e[2] \in Blocks /\ e[1] \in Blocks
      /\ e = <<e[1], e[2]>> /\ IsFunctionCfg(succ) /\ RightFor(succ, idom)
    BY <1>1, <1>2, SweepTyped DEF IInv, TypeOK, ResultInv, FrontierInv, Preds, IdomRight, Found
<1>4. e[1] # Root
    BY <1>3 DEF Preds, IsFunctionCfg
<1>5. Dominates(succ, e[2], e[2]) /\ Dominates(succ, idom[e[1]], e[2])
    BY <1>3, <1>4, DominanceReflexive, DominatesPreds DEF RightFor, StrictlyDominates
<1>6. RunnerInv'
    BY <1>1, <1>2, <1>3, <1>4, <1>5 DEF RunnerInv
<1>7. FrontierInv'
  <2>1. ASSUME NEW n \in Blocks, NEW b \in DominanceFrontier(succ, n), NEW p \in Preds(succ, b),
               Dominates(succ, n, p)
        PROVE  \/ <<b, p>> \in edges' \/ b \in frontier[n]
               \/ join' = b /\ Dominates(succ, n, runner')
    <3>1. <<b, p>> \in edges \/ b \in frontier[n]
      BY <1>1, <2>1 DEF ResultInv, FrontierInv, Found
    <3>2. CASE <<b, p>> = e
      BY <1>2, <2>1, <3>2
    <3> QED
      BY <1>2, <3>1, <3>2
  <2> QED
    BY <1>1, <1>2, <2>1 DEF ResultInv, FrontierInv
<1>8. IdomRight' /\ TreeInv' /\ SweepInv'
    BY <1>1, <1>3 DEF IdomRight, TreeInv, ResultInv, SweepInv, NotAbove, FingersNotAbove,
                      MeetsPreds, SweepFixed
<1> QED
    BY <1>6, <1>7, <1>8 DEF ResultInv

(* A runner below idom[join] does not strictly dominate the join.           *)
LEMMA FrontierRun ==
    ASSUME IInv, ResultInv, Run
    PROVE  ResultInv'
<1>1. /\ pc = "run" /\ pc' = "run" /\ succ' = succ /\ idom' = idom /\ edges' = edges
      /\ join' = join /\ runner # idom[join] /\ runner' = idom[runner]
      /\ frontier' = [frontier EXCEPT ![runner] = @ \cup {join}]
    BY DEF Run, idomVars
<1>2. /\ IsFunctionCfg(succ) /\ RightFor(succ, idom)
      /\ runner \in Blocks /\ join \in Blocks \ {Root} /\ idom[join] \in Blocks
      /\ Dominates(succ, idom[join], runner)
    BY <1>1, SweepTyped DEF ResultInv, IdomRight, Found, RunnerInv, RightFor
<1>3. PICK p \in Preds(succ, join) : p \in Blocks /\ Dominates(succ, runner, p)
    BY <1>1 DEF ResultInv, RunnerInv, Preds
<1>4. join \in DominanceFrontier(succ, runner)
  <2>1. ~ StrictlyDominates(succ, runner, join)
    <3> SUFFICES ASSUME StrictlyDominates(succ, runner, join) PROVE FALSE
      OBVIOUS
    <3>1. Dominates(succ, runner, idom[join])
      BY <1>2 DEF RightFor
    <3> QED
      BY <1>1, <1>2, <3>1, DominanceAntisymmetric
  <2> QED
    BY <1>2, <1>3, <2>1 DEF DominanceFrontier
<1>5. /\ idom[runner] \in Blocks /\ Dominates(succ, idom[runner], runner)
      /\ Dominates(succ, idom[join], idom[runner])
    BY <1>1, <1>2, StepUp
<1>6. Dominates(succ, idom[runner], p)
    BY <1>2, <1>3, <1>5, DominanceTransitive
<1>7. RunnerInv'
    BY <1>1, <1>2, <1>3, <1>5, <1>6 DEF RunnerInv
<1>8. frontier \in [Blocks -> SUBSET Blocks]
    BY DEF IInv, TypeOK
<1>9. \A n \in Blocks : /\ frontier[n] \subseteq frontier'[n]
                        /\ frontier'[n] \subseteq DominanceFrontier(succ, n)
    BY <1>1, <1>2, <1>4, <1>8 DEF ResultInv, FrontierInv
<1>10. FrontierInv'
  <2>1. ASSUME NEW n \in Blocks, NEW b \in DominanceFrontier(succ, n), NEW q \in Preds(succ, b),
               Dominates(succ, n, q)
        PROVE  \/ <<b, q>> \in edges \/ b \in frontier'[n]
               \/ join = b /\ Dominates(succ, n, idom[runner])
    <3>1. \/ <<b, q>> \in edges \/ b \in frontier[n]
          \/ join = b /\ Dominates(succ, n, runner)
      BY <1>1, <2>1 DEF ResultInv, FrontierInv, Found
    <3>2. CASE join = b /\ Dominates(succ, n, runner)
      <4>1. CASE n = runner
        BY <1>1, <1>8, <3>2, <4>1
      <4>2. CASE n # runner
        BY <1>2, <3>2, <4>2, StepUp
      <4> QED
        BY <4>1, <4>2
    <3> QED
      BY <1>9, <3>1, <3>2
  <2> QED
    BY <1>1, <1>9, <2>1 DEF ResultInv, FrontierInv
<1>11. IdomRight' /\ TreeInv' /\ SweepInv'
    BY <1>1, <1>2 DEF IdomRight, TreeInv, ResultInv, SweepInv, NotAbove, FingersNotAbove,
                      MeetsPreds, SweepFixed
<1> QED
    BY <1>7, <1>10, <1>11 DEF ResultInv

(* The runner stops at the join's immediate dominator, which and all above  *)
(* it dominate the join strictly: the frontiers lack nothing for this edge. *)
LEMMA FrontierStopRunner ==
    ASSUME IInv, ResultInv, StopRunner
    PROVE  ResultInv'
<1>1. /\ pc = "run" /\ pc' = "frontier" /\ succ' = succ /\ idom' = idom /\ edges' = edges
      /\ runner = idom[join] /\ frontier' = frontier
    BY DEF StopRunner, idomVars
<1>2. /\ IsFunctionCfg(succ) /\ RightFor(succ, idom)
      /\ join \in Blocks \ {Root} /\ idom[join] \in Blocks
    BY <1>1, SweepTyped DEF ResultInv, IdomRight, Found, RunnerInv, RightFor
<1>3. FrontierInv'
  <2>1. ASSUME NEW n \in Blocks, join \in DominanceFrontier(succ, n), Dominates(succ, n, idom[join])
        PROVE  FALSE
    <3>1. Dominates(succ, idom[join], join) /\ idom[join] # join
      BY <1>2 DEF RightFor, StrictlyDominates
    <3>2. Dominates(succ, n, join)
      BY <1>2, <2>1, <3>1, DominanceTransitive
    <3>3. n = join
      BY <2>1, <3>2 DEF DominanceFrontier, StrictlyDominates
    <3> QED
      BY <1>2, <2>1, <3>1, <3>3, DominanceAntisymmetric
  <2>2. ASSUME NEW n \in Blocks, NEW b \in DominanceFrontier(succ, n), NEW q \in Preds(succ, b),
               Dominates(succ, n, q)
        PROVE  <<b, q>> \in edges \/ b \in frontier[n]
    BY <1>1, <2>1, <2>2 DEF ResultInv, FrontierInv, Found
  <2> QED
    BY <1>1, <2>2 DEF ResultInv, FrontierInv
<1>4. RunnerInv'
    BY <1>1 DEF RunnerInv
<1>5. IdomRight' /\ TreeInv' /\ SweepInv'
    BY <1>1, <1>2 DEF IdomRight, TreeInv, ResultInv, SweepInv, NotAbove, FingersNotAbove,
                      MeetsPreds, SweepFixed
<1> QED
    BY <1>3, <1>4, <1>5 DEF ResultInv

(* Before the frontiers are begun, ResultInv says only what the sweeps do.  *)
LEMMA BeforeFrontiers ==
    ASSUME FrontierInv, UNCHANGED <<succ, frontier, edges>>, SweepInv',
           pc \in {"dfs", "sweep", "meet"}, pc' \in {"dfs", "sweep", "meet"}
    PROVE  ResultInv'
  BY DEF FrontierInv, ResultInv, IdomRight, RunnerInv, TreeInv, Found

(* The invariant of the results holds at the start.                         *)
LEMMA ResultInit == Init => ResultInv
<1> SUFFICES ASSUME Init PROVE ResultInv
    OBVIOUS
<1>1. /\ pc = "dfs" /\ idom = [b \in Blocks |-> NoBlock] /\ edges = {}
      /\ \A n \in Blocks : frontier[n] = {}
    BY DEF Init
<1>2. SweepInv
    BY <1>1 DEF SweepInv, NotAbove, FingersNotAbove, MeetsPreds, SweepFixed
<1>3. FrontierInv /\ IdomRight /\ RunnerInv /\ TreeInv
    BY <1>1 DEF FrontierInv, IdomRight, RunnerInv, TreeInv, Found
<1> QED
    BY <1>2, <1>3 DEF ResultInv

(* Every step keeps it.                                                     *)
LEMMA ResultKept ==
    ASSUME IInv, ResultInv, [Next]_vars
    PROVE  ResultInv'
<1>0. SweepInv /\ FrontierInv
    BY DEF ResultInv
<1>1. CASE Visit \/ Number
  <2>1. /\ pc = "dfs" /\ pc' = "dfs" /\ UNCHANGED <<succ, frontier, edges, idom>>
    BY <1>1 DEF Visit, Number, idomVars, frontVars
  <2>2. SweepInv'
    BY <1>0, <2>1 DEF SweepInv, NotAbove, FingersNotAbove, MeetsPreds, SweepFixed
  <2> QED
    BY <1>0, <2>1, <2>2, BeforeFrontiers
<1>2. CASE StartIdom
  <2>1. /\ pc = "dfs" /\ pc' = "sweep" /\ UNCHANGED <<succ, frontier, edges, order>>
        /\ pos' = Len(order) /\ \A b \in Blocks \ {Root} : idom'[b] = NoBlock
    BY <1>2 DEF StartIdom, dfsVars, frontVars
  <2>2. NotAbove'
    BY <2>1 DEF NotAbove
  <2>3. Len(order) \in Nat
    BY DEF IInv, TypeOK
  <2>4. SweepInv'
    BY <2>1, <2>2, <2>3 DEF SweepInv, FingersNotAbove, MeetsPreds, SweepFixed
  <2> QED
    BY <1>0, <2>1, <2>4, BeforeFrontiers
<1>3. CASE SkipRoot
  <2>1. /\ pc = "sweep" /\ pc' = "sweep" /\ UNCHANGED <<succ, frontier, edges, order, idom, changed>>
        /\ Swept = Root /\ pos' = pos - 1 /\ pos \in Nat /\ Len(order) \in Nat
    BY <1>3 DEF SkipRoot, dfsVars, frontVars, IInv, TypeOK
  <2>2. SweepFixed'
    BY <1>0, <2>1 DEF SweepInv, SweepFixed, Swept
  <2>3. SweepInv'
    BY <1>0, <2>1, <2>2 DEF SweepInv, NotAbove, FingersNotAbove, MeetsPreds
  <2> QED
    BY <1>0, <2>1, <2>3, BeforeFrontiers
<1>4. CASE PickPred \/ Intersect \/ ClimbFirst \/ ClimbSecond \/ Met
  <2>1. /\ pc \in {"sweep", "meet"} /\ pc' = "meet" /\ UNCHANGED <<succ, frontier, edges>>
    BY <1>4 DEF PickPred, Intersect, ClimbFirst, ClimbSecond, Met, frontVars
  <2>2. SweepInv'
    BY <1>0, <1>4, SweepPickPred, SweepIntersect, SweepClimb, SweepMet
  <2> QED
    BY <1>0, <2>1, <2>2, BeforeFrontiers
<1>5. CASE SetIdom
  <2>1. /\ pc = "meet" /\ pc' = "sweep" /\ UNCHANGED <<succ, frontVars>>
    BY <1>5, Zenon DEF SetIdom
  <2>2. UNCHANGED <<succ, frontier, edges>>
    BY <2>1 DEF frontVars
  <2> QED
    BY <1>0, <1>5, <2>1, <2>2, SweepSet, BeforeFrontiers
<1>6. CASE SweepAgain
  <2>1. /\ pc = "sweep" /\ pc' = "sweep" /\ UNCHANGED <<succ, frontier, edges, order, idom>>
        /\ pos' = Len(order) /\ Len(order) \in Nat
    BY <1>6 DEF SweepAgain, dfsVars, frontVars, IInv, TypeOK
  <2>2. SweepInv'
    BY <1>0, <2>1 DEF SweepInv, NotAbove, FingersNotAbove, MeetsPreds, SweepFixed
  <2> QED
    BY <1>0, <2>1, <2>2, BeforeFrontiers
<1>7. CASE EndIdom
  <2>1. pc' = "frontier" /\ UNCHANGED <<succ, idom>>
    BY <1>7 DEF EndIdom, idomVars
  <2>2. SweepInv'
    BY <1>0, <2>1 DEF SweepInv, NotAbove, FingersNotAbove, MeetsPreds, SweepFixed
  <2>3. IdomRight' /\ RunnerInv' /\ FrontierInv'
    BY <1>0, <1>7, FrontierStarts
  <2> QED
    BY <2>1, <2>2, <2>3 DEF ResultInv, TreeInv
<1>8. CASE StartRunner \/ Run \/ StopRunner
    BY <1>8, FrontierStartRunner, FrontierRun, FrontierStopRunner
<1>9. CASE EndFrontier
  <2>1. /\ pc = "frontier" /\ pc' = "tree" /\ edges = {}
        /\ UNCHANGED <<succ, idom, frontier, edges>>
    BY <1>9 DEF EndFrontier, idomVars, frontVars
  <2>2. SweepInv' /\ IdomRight' /\ RunnerInv' /\ TreeInv'
    BY <1>0, <2>1 DEF SweepInv, NotAbove, FingersNotAbove, MeetsPreds, SweepFixed, ResultInv,
                      IdomRight, Found, RunnerInv, TreeInv
  <2>3. FrontierInv'
    BY <1>0, <2>1 DEF FrontierInv, Found
  <2> QED
    BY <2>2, <2>3 DEF ResultInv
<1>10. CASE BuildTree
  <2>1. /\ pc = "tree" /\ pc' = "done" /\ UNCHANGED <<succ, idom, frontier, edges>>
        /\ children' = [n \in Blocks |-> ChildrenOf(n)]
    BY <1>10 DEF BuildTree, idomVars, frontVars
  <2>2. SweepInv' /\ IdomRight' /\ RunnerInv'
    BY <1>0, <2>1 DEF SweepInv, NotAbove, FingersNotAbove, MeetsPreds, SweepFixed, ResultInv,
                      IdomRight, Found, RunnerInv
  <2>3. FrontierInv'
    BY <1>0, <2>1 DEF FrontierInv, Found
  <2>4. TreeInv'
    BY <2>1 DEF TreeInv
  <2> QED
    BY <2>2, <2>3, <2>4 DEF ResultInv
<1>11. CASE UNCHANGED vars
  <2>1. UNCHANGED <<pc, succ, idom, frontier, edges, order, pos, changed, f1, f2, todo, children,
                    runner, join>>
    BY <1>11 DEF vars
  <2>2. SweepInv'
    BY <1>0, <2>1 DEF SweepInv, NotAbove, FingersNotAbove, MeetsPreds, SweepFixed, Swept
  <2>3. FrontierInv'
    BY <1>0, <2>1 DEF FrontierInv, Found
  <2>4. IdomRight' /\ RunnerInv' /\ TreeInv'
    BY <2>1 DEF ResultInv, IdomRight, Found, RunnerInv, TreeInv
  <2> QED
    BY <2>2, <2>3, <2>4 DEF ResultInv
<1> QED
    BY <1>1, <1>2, <1>3, <1>4, <1>5, <1>6, <1>7, <1>8, <1>9, <1>10, <1>11 DEF Next

(* What every state of the analysis satisfies.                              *)
AnalysisInv == IInv /\ ResultInv

(* It holds before the analysis.                                            *)
LEMMA AnalysisInit == Init => AnalysisInv
    BY TypeInit, DfsInit, IdomInit, ResultInit DEF IInv, AnalysisInv

(* Every step keeps it.                                                     *)
LEMMA AnalysisStep == AnalysisInv /\ [Next]_vars => AnalysisInv'
    BY InvariantStep, ResultKept DEF AnalysisInv

(* In the end it says that the tables are those of the graph.               *)
LEMMA AnalysisResult == AnalysisInv => ResultsCorrect
<1> SUFFICES ASSUME AnalysisInv, pc = "done", NEW b \in Blocks
             PROVE  /\ idom[b] = ImmediateDominator(succ, b)
                    /\ frontier[b] = DominanceFrontier(succ, b)
                    /\ children[b] = DominatorChildren(succ, b)
  BY DEF ResultsCorrect
<1>0. IInv /\ ResultInv
  BY DEF AnalysisInv
<1>1. IsFunctionCfg(succ) /\ RightFor(succ, idom)
  BY <1>0, SweepTyped DEF ResultInv, IdomRight, Found
<1>2. ASSUME NEW c \in Blocks PROVE idom[c] = ImmediateDominator(succ, c)
  <2>1. CASE c = Root
    BY <1>1, <2>1 DEF RightFor, ImmediateDominator
  <2>2. CASE c # Root
    <3>1. /\ c \in Blocks \ {Root} /\ idom[c] \in Blocks /\ StrictlyDominates(succ, idom[c], c)
          /\ \A e \in Blocks : StrictlyDominates(succ, e, c) => Dominates(succ, e, idom[c])
      BY <1>1, <2>2 DEF RightFor
    <3> QED
      BY <1>1, <3>1, ImmediateDominatorIs
  <2> QED
    BY <2>1, <2>2
<1>3. frontier[b] = DominanceFrontier(succ, b)
  <2>1. ASSUME NEW c \in DominanceFrontier(succ, b) PROVE c \in frontier[b]
    <3>1. PICK p \in Preds(succ, c) : Dominates(succ, b, p)
      BY <2>1 DEF DominanceFrontier
    <3> QED
      BY <1>0, <3>1 DEF ResultInv, FrontierInv, Found
  <2>2. frontier[b] \subseteq DominanceFrontier(succ, b)
    BY <1>0 DEF ResultInv, FrontierInv
  <2> QED
    BY <2>1, <2>2
<1>4. children[b] = DominatorChildren(succ, b)
  <2>1. children[b] = {c \in Blocks : idom[c] # c /\ idom[c] = b}
    BY <1>0 DEF ResultInv, TreeInv
  <2>2. \A c \in Blocks : idom[c] # c <=> c # Root
    BY <1>1 DEF RightFor, StrictlyDominates
  <2> QED
    BY <1>2, <2>1, <2>2 DEF DominatorChildren
<1> QED
  BY <1>2, <1>3, <1>4

(* When the analysis ends, immediate dominators, frontiers and the          *)
(* dominator tree are those of the graph.                                   *)
THEOREM TablesAreRight == Spec => []ResultsCorrect
    BY AnalysisInit, AnalysisStep, AnalysisResult, PTL DEF Spec

-----------------------------------------------------------------------------
(****************************************************************************)
(* An entry only moves towards the entry block.                             *)
(****************************************************************************)

(* What the chains of these blocks have in common.                          *)
Common(P) == {x \in Blocks : \A p \in P : idom[p] # NoBlock => x \in ChainOf(idom, p)}

(* An immediate dominator dominates its block along these edges.            *)
ForwardIdom ==
    \A b \in Blocks \ {Root} : idom[b] # NoBlock => Dominates(Forward, idom[b], b)

(* No common ancestor of a block's predecessors is below the block's entry. *)
BelowMeet ==
    \A b \in Blocks \ {Root} : idom[b] # NoBlock =>
        \A x \in Common(Preds(succ, b)) : id[idom[b]] <= id[x]

(* The fingers have passed no common ancestor of the predecessors met.      *)
FingersBelow ==
    pc = "meet" => \A x \in Common(Preds(succ, Swept) \ todo) :
        x \in ChainOf(idom, f2) /\ (f1 # NoBlock => x \in ChainOf(idom, f1))

(* In the blocks this sweep is past, a chain that holds x goes through x    *)
(* also from each lower block that dominates along these edges.             *)
ForwardChains ==
    \A i \in 1 .. Len(order) : i > pos =>
        \A o \in Blocks : Dominates(Forward, o, order[i]) =>
            \A x \in ChainOf(idom, order[i]) : id[o] <= id[x] => x \in ChainOf(idom, o)

Sweeping == pc \in {"sweep", "meet"}

RiseInv == Sweeping => ForwardIdom /\ BelowMeet /\ FingersBelow /\ ForwardChains

(* A chain from a block that has an entry goes up in post order.            *)
LEMMA ChainClimbs ==
    ASSUME IInv, pc # "dfs", NEW p \in Blocks, idom[p] # NoBlock, NEW x \in ChainOf(idom, p)
    PROVE  x \in Blocks /\ idom[x] # NoBlock /\ id[p] <= id[x]
<1> DEFINE U == {z \in Blocks : idom[z] # NoBlock /\ id[p] <= id[z]}
<1>1. p \in U
    BY DEF IInv, TypeOK
<1>2. ASSUME NEW z \in U PROVE idom[z] \in U
  <2>1. idom[z] \in Blocks /\ idom[idom[z]] # NoBlock
    BY SweepTyped DEF IInv, IdomInv, ChainsUnbroken
  <2>2. id[z] <= id[idom[z]]
    BY DEF IInv, TypeOK, IdomInv, IdomClimbs, WalkComplete
  <2>3. id[p] \in Nat /\ id[z] \in Nat /\ id[idom[z]] \in Nat
    BY <2>1, NumbersAre DEF IInv
  <2> QED
    BY <2>1, <2>2, <2>3
<1>3. x \in U
  <2> HIDE DEF U
  <2>1. U \in SUBSET Blocks
    BY DEF U
  <2> QED
    BY <1>1, <1>2, <2>1 DEF ChainOf
<1> QED
    BY <1>3

(* It goes along dominators of the graph of the edges that go down.         *)
LEMMA ChainForward ==
    ASSUME IInv, pc # "dfs", ForwardIdom, NEW p \in Blocks, idom[p] # NoBlock,
           NEW x \in ChainOf(idom, p)
    PROVE  Dominates(Forward, x, p)
<1> DEFINE U == {z \in Blocks : idom[z] # NoBlock /\ Dominates(Forward, z, p)}
<1>0. IsFunctionCfg(Forward)
    BY ForwardGraph
<1>1. p \in U
    BY <1>0, DominanceReflexive
<1>2. ASSUME NEW z \in U PROVE idom[z] \in U
  <2>1. idom[z] \in Blocks /\ idom[idom[z]] # NoBlock
    BY SweepTyped DEF IInv, IdomInv, ChainsUnbroken
  <2>2. Dominates(Forward, idom[z], z)
    BY <1>0, <2>1, DominanceReflexive DEF ForwardIdom, IInv, IdomInv, WalkComplete
  <2> QED
    BY <1>0, <2>1, <2>2, DominanceTransitive
<1>3. x \in U
  <2> HIDE DEF U
  <2>1. U \in SUBSET Blocks
    BY DEF U
  <2> QED
    BY <1>1, <1>2, <2>1 DEF ChainOf
<1> QED
    BY <1>3

(* The steps that move the fingers only.                                    *)
LEMMA RiseKept ==
    ASSUME RiseInv, pc \in {"sweep", "meet"}, UNCHANGED <<succ, id, idom, order, pos>>, FingersBelow'
    PROVE  RiseInv'
<1>1. Forward' = Forward
    BY DEF Forward
<1>2. ForwardIdom' /\ BelowMeet' /\ ForwardChains'
    BY <1>1 DEF RiseInv, Sweeping, ForwardIdom, BelowMeet, ForwardChains, Common
<1> QED
    BY <1>2 DEF RiseInv

(* The chain of the first candidate is its own.                             *)
LEMMA RisePickPred ==
    ASSUME IInv, RiseInv, PickPred
    PROVE  RiseInv'
<1>1. /\ pc = "sweep" /\ pc' = "meet" /\ f1' = NoBlock
      /\ UNCHANGED <<succ, id, idom, order, pos>> /\ Swept' = Swept
    BY DEF PickPred, dfsVars, Swept
<1>2. PICK p \in Preds(succ, Swept) : /\ idom[p] # NoBlock /\ f2' = p
                                      /\ todo' = Processed(Swept) \ {p}
    BY DEF PickPred, Processed
<1>3. FingersBelow'
    BY <1>1, <1>2 DEF FingersBelow, Common
<1> QED
    BY <1>1, <1>3, RiseKept

(* A finger starts at the bottom of the chain of its predecessor.           *)
LEMMA RiseIntersect ==
    ASSUME IInv, RiseInv, Intersect
    PROVE  RiseInv'
<1>1. /\ pc = "meet" /\ pc' = "meet" /\ f1 = NoBlock /\ f2' = f2
      /\ UNCHANGED <<succ, id, idom, order, pos>> /\ Swept' = Swept
    BY DEF Intersect, dfsVars, Swept
<1>2. PICK p \in todo : f1' = p /\ todo' = todo \ {p}
    BY DEF Intersect
<1>3. p \in Preds(succ, Swept) /\ idom[p] # NoBlock
    BY <1>1, <1>2, SweepTyped DEF Processed
<1>4. FingersBelow'
    BY <1>1, <1>2, <1>3 DEF RiseInv, Sweeping, FingersBelow, Common
<1> QED
    BY <1>1, <1>4, RiseKept

(* A finger climbs only while the other is above it, so it leaves nothing   *)
(* in common behind.                                                        *)
LEMMA RiseClimb ==
    ASSUME IInv, RiseInv, ClimbFirst \/ ClimbSecond
    PROVE  RiseInv'
<1>1. /\ pc = "meet" /\ pc' = "meet" /\ f1 # NoBlock /\ todo' = todo
      /\ UNCHANGED <<succ, id, idom, order, pos>> /\ Swept' = Swept
    BY DEF ClimbFirst, ClimbSecond, dfsVars, Swept
<1>2. \/ id[f1] < id[f2] /\ f1' = idom[f1] /\ f2' = f2
      \/ id[f2] < id[f1] /\ f2' = idom[f2] /\ f1' = f1
    BY DEF ClimbFirst, ClimbSecond
<1>3. /\ f1 \in Blocks /\ f2 \in Blocks /\ idom[f1] \in Blocks /\ idom[f2] \in Blocks
      /\ idom[f1] # NoBlock /\ idom[f2] # NoBlock /\ id \in [Blocks -> Nat]
    BY <1>1, SweepTyped
<1>4. ASSUME NEW x \in Common(Preds(succ, Swept) \ todo)
      PROVE  x \in ChainOf(idom, f2') /\ x \in ChainOf(idom, f1')
  <2>1. x \in ChainOf(idom, f2) /\ x \in ChainOf(idom, f1)
    BY <1>1 DEF RiseInv, Sweeping, FingersBelow
  <2>2. x \in Blocks /\ id[f1] <= id[x] /\ id[f2] <= id[x]
    BY <1>1, <1>3, <2>1, ChainClimbs
  <2>3. id[f1] < id[f2] => x \in ChainOf(idom, idom[f1])
    BY <1>3, <2>1, <2>2, Chains
  <2>4. id[f2] < id[f1] => x \in ChainOf(idom, idom[f2])
    BY <1>3, <2>1, <2>2, Chains
  <2> QED
    BY <1>2, <2>1, <2>3, <2>4
<1>5. FingersBelow'
    BY <1>1, <1>4 DEF FingersBelow, Common
<1> QED
    BY <1>1, <1>5, RiseKept

(* The finger both stand on keeps what they have in common.                 *)
LEMMA RiseMet ==
    ASSUME IInv, RiseInv, Met
    PROVE  RiseInv'
<1>1. /\ pc = "meet" /\ pc' = "meet" /\ todo' = todo /\ f2' = f2 /\ f1' = NoBlock
      /\ UNCHANGED <<succ, id, idom, order, pos>> /\ Swept' = Swept
    BY DEF Met, dfsVars, Swept
<1>2. FingersBelow'
    BY <1>1 DEF RiseInv, Sweeping, FingersBelow, Common
<1> QED
    BY <1>1, <1>2, RiseKept

(* set_idom gives a block an entry that is on the chain of the one it had.  *)
LEMMA NewIdomIs ==
    ASSUME IInv, SweepInv, RiseInv, SetIdom
    PROVE  /\ pc = "meet" /\ f2 \in Blocks /\ idom[f2] # NoBlock /\ Swept \in Blocks \ {Root}
           /\ pos \in 1 .. Len(order) /\ pos' = pos - 1 /\ pc' = "sweep"
           /\ UNCHANGED <<succ, id, order>> /\ idom' = [idom EXCEPT ![Swept] = f2]
           /\ \A p \in Preds(succ, Swept) : idom[p] # NoBlock => f2 \in ChainOf(idom, p)
           /\ \A x \in Common(Preds(succ, Swept)) : x \in ChainOf(idom, f2)
           /\ idom[Swept] # NoBlock => /\ id[idom[Swept]] <= id[f2]
                                       /\ f2 \in ChainOf(idom, idom[Swept])
<1>1. /\ pc = "meet" /\ pc' = "sweep" /\ f1 = NoBlock /\ todo = {}
      /\ idom' = [idom EXCEPT ![Swept] = f2] /\ pos' = pos - 1
      /\ UNCHANGED <<succ, id, order>>
    BY Zenon DEF SetIdom, dfsVars
<1>2. /\ f2 \in Blocks /\ Swept \in Blocks \ {Root} /\ pos \in 1 .. Len(order)
      /\ idom[f2] # NoBlock
    BY <1>1, SweepTyped
<1>3. \A p \in Preds(succ, Swept) : idom[p] # NoBlock => f2 \in ChainOf(idom, p)
    BY <1>1 DEF SweepInv, MeetsPreds
<1>4. \A x \in Common(Preds(succ, Swept)) : x \in ChainOf(idom, f2)
    BY <1>1 DEF RiseInv, Sweeping, FingersBelow
<1>5. ASSUME idom[Swept] # NoBlock
      PROVE  id[idom[Swept]] <= id[f2] /\ f2 \in ChainOf(idom, idom[Swept])
  <2> DEFINE o == idom[Swept]
  <2>1. f2 \in Common(Preds(succ, Swept))
    BY <1>2, <1>3 DEF Common
  <2>2. id[o] <= id[f2]
    BY <1>1, <1>2, <1>5, <2>1 DEF RiseInv, Sweeping, BelowMeet
  <2>3. o \in Blocks /\ o # Swept /\ Dominates(Forward, o, Swept)
    BY <1>1, <1>2, <1>5, SweepTyped DEF RiseInv, Sweeping, ForwardIdom, IInv, IdomInv, IdomClimbs
  <2>4. PICK q \in Preds(Forward, Swept) : TRUE
    BY <1>1, <1>2, ForwardIs
  <2>5. Dominates(Forward, o, q)
    BY <1>1, <1>2, <2>3, <2>4, ForwardGraph, DominatesPreds
  <2>6. q \in Preds(succ, Swept) /\ id[Swept] < id[q] /\ q \in Blocks
    BY <1>1, <1>2, <2>4, ForwardIs DEF Preds
  <2>7. PICK j \in 1 .. Len(order) : order[j] = q /\ j > pos
    BY <1>1, <1>2, <2>6, NumbersAre DEF Swept
  <2>8. idom[q] # NoBlock
    BY <1>1, <2>7 DEF IInv, IdomInv, SweptHaveIdom
  <2>9. f2 \in ChainOf(idom, q)
    BY <1>3, <2>6, <2>8
  <2> QED
    BY <1>1, <2>2, <2>3, <2>5, <2>7, <2>9 DEF RiseInv, Sweeping, ForwardChains
<1> QED
    BY <1>1, <1>2, <1>3, <1>4, <1>5

(* So all chains shrink, and those that start above the block stay.         *)
LEMMA ChainsShrink ==
    ASSUME IInv, SweepInv, RiseInv, SetIdom, NEW p \in Blocks, idom[p] # NoBlock
    PROVE  /\ ChainOf(idom', p) \subseteq ChainOf(idom, p)
           /\ id[Swept] < id[p] => ChainOf(idom, p) \subseteq ChainOf(idom', p)
<1>1. /\ pc = "meet" /\ Swept \in Blocks /\ f2 \in Blocks
      /\ idom' = [idom EXCEPT ![Swept] = f2]
      /\ idom[Swept] # NoBlock => f2 \in ChainOf(idom, idom[Swept])
      /\ idom \in [Blocks -> Blocks \cup {NoBlock}] /\ id \in [Blocks -> Nat]
      /\ \A b \in Blocks : idom[b] # NoBlock => idom[b] \in Blocks
    BY NewIdomIs, SweepTyped
<1>2. ASSUME NEW z \in ChainOf(idom, p) PROVE idom'[z] \in ChainOf(idom, p)
  <2>1. z \in Blocks /\ idom[z] # NoBlock /\ idom[z] \in Blocks
    BY <1>1, ChainClimbs
  <2>2. idom[z] \in ChainOf(idom, p) /\ ChainOf(idom, idom[z]) \subseteq ChainOf(idom, p)
    BY <2>1, Chains
  <2> QED
    BY <1>1, <2>1, <2>2
<1>3. ChainOf(idom', p) \subseteq ChainOf(idom, p)
  <2>1. ChainOf(idom, p) \in SUBSET Blocks /\ p \in ChainOf(idom, p)
    BY Chains DEF ChainOf
  <2> SUFFICES ASSUME NEW d \in ChainOf(idom', p) PROVE d \in ChainOf(idom, p)
    OBVIOUS
  <2> DEFINE U == ChainOf(idom, p)
  <2>2. U \in SUBSET Blocks /\ p \in U /\ \A z \in U : idom'[z] \in U
    BY <1>2, <2>1
  <2> HIDE DEF U
  <2>3. d \in U
    BY <2>2 DEF ChainOf
  <2> QED
    BY <2>3 DEF U
<1>4. ASSUME id[Swept] < id[p], NEW d \in ChainOf(idom, p) PROVE d \in ChainOf(idom', p)
  <2> SUFFICES ASSUME NEW U \in SUBSET Blocks, p \in U, \A z \in U : idom'[z] \in U
               PROVE  d \in U
    BY <1>4 DEF ChainOf
  <2> DEFINE W == {z \in U : idom[z] # NoBlock /\ id[p] <= id[z]}
  <2>1. W \in SUBSET Blocks /\ p \in W
    BY <1>1
  <2>2. ASSUME NEW z \in W PROVE idom[z] \in W
    <3>1. z \in Blocks /\ z # Swept /\ idom[z] \in Blocks
      BY <1>1, <1>4
    <3>2. idom'[z] = idom[z]
      BY <1>1, <3>1
    <3>3. idom[z] \in ChainOf(idom, z)
      BY <3>1, Chains
    <3>4. idom[idom[z]] # NoBlock /\ id[z] <= id[idom[z]]
      BY <1>1, <3>1, <3>3, ChainClimbs
    <3> QED
      BY <1>1, <3>1, <3>2, <3>4
  <2>3. d \in W
    <3> HIDE DEF W
    <3> QED
      BY <1>4, <2>1, <2>2 DEF ChainOf
  <2> QED
    BY <2>3
<1> QED
    BY <1>3, <1>4

(* set_idom keeps the invariant: it is here that the order of the sweep     *)
(* matters.                                                                 *)
LEMMA RiseSet ==
    ASSUME IInv, SweepInv, RiseInv, SetIdom
    PROVE  RiseInv'
<1>1. /\ pc = "meet" /\ f2 \in Blocks /\ idom[f2] # NoBlock /\ Swept \in Blocks \ {Root}
      /\ pos \in 1 .. Len(order) /\ pos' = pos - 1 /\ pc' = "sweep"
      /\ UNCHANGED <<succ, id, order>> /\ idom' = [idom EXCEPT ![Swept] = f2]
      /\ \A p \in Preds(succ, Swept) : idom[p] # NoBlock => f2 \in ChainOf(idom, p)
      /\ \A x \in Common(Preds(succ, Swept)) : x \in ChainOf(idom, f2)
    BY NewIdomIs
<1>2. /\ Forward' = Forward /\ IsFunctionCfg(Forward)
      /\ id \in [Blocks -> Nat] /\ idom \in [Blocks -> Blocks \cup {NoBlock}]
      /\ ForwardIdom /\ BelowMeet /\ ForwardChains
    BY <1>1, ForwardGraph, SweepTyped DEF Forward, RiseInv, Sweeping
<1>3. \A b \in Blocks : idom[b] # NoBlock => idom'[b] # NoBlock /\ ChainOf(idom', b) \subseteq ChainOf(idom, b)
    BY <1>1, <1>2, ChainsShrink, NoBlockAssumption
<1>4. \A b \in Blocks : b # Swept => idom'[b] = idom[b]
    BY <1>1, <1>2
<1>5. idom'[Swept] = f2
    BY <1>1, <1>2
<1>6. \A q \in Preds(Forward, Swept) :
          /\ q \in Preds(succ, Swept) /\ q \in Blocks /\ idom[q] # NoBlock
          /\ \E j \in 1 .. Len(order) : order[j] = q /\ j > pos
  <2> SUFFICES ASSUME NEW q \in Preds(Forward, Swept)
               PROVE  /\ q \in Preds(succ, Swept) /\ q \in Blocks /\ idom[q] # NoBlock
                      /\ \E j \in 1 .. Len(order) : order[j] = q /\ j > pos
    OBVIOUS
  <2>1. q \in Preds(succ, Swept) /\ id[Swept] < id[q] /\ q \in Blocks
    BY <1>1, ForwardIs DEF Preds
  <2>2. PICK j \in 1 .. Len(order) : order[j] = q /\ j > pos
    BY <1>1, <2>1, NumbersAre DEF Swept
  <2>3. idom[q] # NoBlock
    BY <1>1, <2>2 DEF IInv, IdomInv, SweptHaveIdom
  <2> QED
    BY <2>1, <2>2, <2>3
<1>7. ForwardIdom'
  <2>1. \A q \in Preds(Forward, Swept) : Dominates(Forward, f2, q)
    BY <1>1, <1>2, <1>6, ChainForward
  <2>2. Dominates(Forward, f2, Swept)
    BY <1>1, <1>2, <2>1, PredsDominated
  <2> QED
    BY <1>2, <1>4, <1>5, <2>2 DEF ForwardIdom
<1>8. BelowMeet'
  <2> SUFFICES ASSUME NEW b \in Blocks \ {Root}, idom'[b] # NoBlock,
                      NEW x \in Blocks,
                      \A p \in Preds(succ, b) : idom'[p] # NoBlock => x \in ChainOf(idom', p)
               PROVE  id[idom'[b]] <= id[x]
    BY <1>1 DEF BelowMeet, Common
  <2>1. x \in Common(Preds(succ, b))
    BY <1>3 DEF Common, Preds
  <2>2. CASE b = Swept
    <3>1. id[f2] <= id[x]
      BY <1>1, <2>1, <2>2, ChainClimbs
    <3> QED
      BY <1>5, <2>2, <3>1
  <2>3. CASE b # Swept
    BY <1>2, <1>4, <2>1, <2>3 DEF BelowMeet
  <2> QED
    BY <2>2, <2>3
<1>9. ForwardChains'
  <2> SUFFICES ASSUME NEW i \in 1 .. Len(order), i > pos - 1,
                      NEW o \in Blocks, Dominates(Forward, o, order[i]),
                      NEW x \in ChainOf(idom', order[i]), id[o] <= id[x]
               PROVE  x \in ChainOf(idom', o)
    BY <1>1, <1>2 DEF ForwardChains
  <2>0. order[i] \in Blocks /\ id[order[i]] = i - 1 /\ id[Swept] = pos - 1
        /\ Swept = order[pos] /\ Len(order) \in Nat
    BY <1>1, NumbersAre DEF Swept
  <2>1. ASSUME id[Swept] < id[o], x \in ChainOf(idom, o) PROVE x \in ChainOf(idom', o)
    <3>1. PICK j \in 1 .. Len(order) : order[j] = o /\ j > pos
      BY <1>1, <2>0, <2>1, NumbersAre
    <3>2. idom[o] # NoBlock
      BY <1>1, <3>1 DEF IInv, IdomInv, SweptHaveIdom
    <3> QED
      BY <2>1, <3>2, ChainsShrink
  <2>2. CASE i > pos
    <3>1. id[order[i]] <= id[o]
      BY <1>1, ForwardLater, <2>0
    <3>2. id[Swept] < id[o]
      BY <1>1, <1>2, <2>0, <2>2, <3>1
    <3>3. idom[order[i]] # NoBlock
      BY <1>1, <2>2 DEF IInv, IdomInv, SweptHaveIdom
    <3>4. x \in ChainOf(idom, order[i])
      BY <1>3, <2>0, <3>3
    <3>5. x \in ChainOf(idom, o)
      BY <1>2, <2>2, <3>4 DEF ForwardChains
    <3> QED
      BY <2>1, <3>2, <3>5
  <2>3. CASE i = pos /\ o = Swept
    BY <2>0, <2>3
  <2>4. CASE i = pos /\ o # Swept
    <3>1. Dominates(Forward, o, Swept) /\ x \in ChainOf(idom', Swept) /\ Swept \in Blocks
      BY <1>1, <2>0, <2>4
    <3>2. id[Swept] < id[o]
      <4>1. id[Swept] <= id[o] /\ id[Swept] # id[o]
        BY <1>1, <2>4, <3>1, ForwardLater, NumbersAre
      <4> QED
        BY <1>2, <3>1, <4>1
    <3>3. x # Swept
      BY <1>2, <3>1, <3>2
    <3>4. x \in ChainOf(idom', f2)
      <4>1. idom'[Swept] = f2 /\ f2 \in Blocks
        BY <1>1, <1>2
      <4>2. x \in {Swept} \cup ChainOf(idom', idom'[Swept])
        BY <3>1, <4>1, Chains
      <4> QED
        BY <3>3, <4>1, <4>2
    <3>5. x \in ChainOf(idom, f2)
      BY <1>1, <1>3, <3>4
    <3>6. PICK q \in Preds(Forward, Swept) : TRUE
      BY <1>1, ForwardIs
    <3>7. PICK j \in 1 .. Len(order) : order[j] = q /\ j > pos
      BY <1>6
    <3>8. x \in ChainOf(idom, q)
      BY <1>1, <1>6, <3>5, Chains
    <3>9. Dominates(Forward, o, q)
      BY <1>1, <1>2, <1>6, <2>4, <3>1, DominatesPreds
    <3>10. x \in ChainOf(idom, o)
      BY <1>2, <3>7, <3>8, <3>9 DEF ForwardChains
    <3> QED
      BY <2>1, <3>2, <3>10
  <2> QED
    BY <1>1, <2>0, <2>2, <2>3, <2>4
<1>10. FingersBelow'
    BY <1>1 DEF FingersBelow
<1> QED
    BY <1>7, <1>8, <1>9, <1>10 DEF RiseInv

(* Every step of the analysis keeps it.                                     *)
LEMMA RiseStep ==
    ASSUME AnalysisInv, RiseInv, [Next]_vars
    PROVE  RiseInv'
<1>0. IInv /\ SweepInv
    BY DEF AnalysisInv, ResultInv
<1>1. CASE StartIdom
  <2>1. /\ pc' = "sweep" /\ \A b \in Blocks \ {Root} : idom'[b] = NoBlock
        /\ order' = order /\ pos' = Len(order) /\ Len(order) \in Nat
    BY <1>0, <1>1 DEF StartIdom, dfsVars, IInv, TypeOK
  <2> QED
    BY <2>1 DEF RiseInv, ForwardIdom, BelowMeet, FingersBelow, ForwardChains
<1>2. CASE SkipRoot
  <2>1. /\ pc = "sweep" /\ pc' = "sweep" /\ Swept = Root /\ pos' = pos - 1 /\ pos \in Nat
        /\ UNCHANGED <<succ, id, idom, order>> /\ idom[Root] = Root
    BY <1>0, <1>2 DEF SkipRoot, dfsVars, IInv, TypeOK, IdomInv, WalkComplete
  <2>2. Forward' = Forward
    BY <2>1 DEF Forward
  <2>3. ForwardIdom' /\ BelowMeet' /\ FingersBelow'
    BY <2>1, <2>2 DEF RiseInv, Sweeping, ForwardIdom, BelowMeet, FingersBelow, Common
  <2>4. ForwardChains'
    <3> SUFFICES ASSUME NEW i \in 1 .. Len(order), i > pos - 1,
                        NEW o \in Blocks, Dominates(Forward, o, order[i]),
                        NEW x \in ChainOf(idom, order[i]), id[o] <= id[x]
                 PROVE  x \in ChainOf(idom, o)
      BY <2>1, <2>2 DEF ForwardChains
    <3>1. CASE i > pos
      BY <2>1, <3>1 DEF RiseInv, Sweeping, ForwardChains
    <3>2. CASE i = pos
      <4>1. order[i] = Root
        BY <2>1, <3>2 DEF Swept
      <4>2. o = Root
        BY <4>1, RootDominated
      <4> QED
        BY <4>1, <4>2
    <3> QED
      BY <1>0, <2>1, <3>1, <3>2 DEF IInv, TypeOK
  <2> QED
    BY <2>3, <2>4 DEF RiseInv
<1>3. CASE PickPred \/ Intersect \/ ClimbFirst \/ ClimbSecond \/ Met \/ SetIdom
    BY <1>0, <1>3, RisePickPred, RiseIntersect, RiseClimb, RiseMet, RiseSet
<1>4. CASE SweepAgain
  <2>1. /\ pc = "sweep" /\ pc' = "sweep" /\ UNCHANGED <<succ, id, idom, order>>
        /\ pos' = Len(order) /\ Len(order) \in Nat
    BY <1>0, <1>4 DEF SweepAgain, dfsVars, IInv, TypeOK
  <2>2. Forward' = Forward
    BY <2>1 DEF Forward
  <2> QED
    BY <2>1, <2>2 DEF RiseInv, Sweeping, ForwardIdom, BelowMeet, FingersBelow, ForwardChains, Common
<1>5. CASE Visit \/ Number \/ EndIdom \/ StartRunner \/ Run \/ StopRunner \/ EndFrontier \/ BuildTree
  <2>1. pc' \notin {"sweep", "meet"}
    BY <1>5 DEF Visit, Number, EndIdom, StartRunner, Run, StopRunner, EndFrontier, BuildTree
  <2> QED
    BY <2>1 DEF RiseInv, Sweeping
<1>6. CASE UNCHANGED vars
  <2>1. UNCHANGED <<pc, succ, id, idom, order, pos, f1, f2, todo>>
    BY <1>6 DEF vars
  <2>2. Forward' = Forward /\ Swept' = Swept
    BY <2>1 DEF Forward, Swept
  <2>3. Sweeping' = Sweeping /\ ForwardIdom' = ForwardIdom /\ BelowMeet' = BelowMeet
        /\ ForwardChains' = ForwardChains
    BY <2>1, <2>2 DEF Sweeping, ForwardIdom, BelowMeet, ForwardChains, Common
  <2>4. FingersBelow' = FingersBelow
    BY <2>1, <2>2 DEF FingersBelow, Common
  <2> QED
    BY <2>3, <2>4 DEF RiseInv
<1> QED
    BY <1>1, <1>2, <1>3, <1>4, <1>5, <1>6 DEF Next

(* What IdomOnlyRises says of a step.                                       *)
Rises == \A b \in Blocks : (pc = "meet" /\ idom[b] # NoBlock) => id[idom'[b]] >= id[idom[b]]

(* No step of a sweep lowers an entry.                                      *)
LEMMA RiseAction ==
    ASSUME AnalysisInv, RiseInv, [Next]_vars
    PROVE  Rises
<1> SUFFICES ASSUME NEW b \in Blocks, pc = "meet", idom[b] # NoBlock
             PROVE  id[idom'[b]] >= id[idom[b]]
    BY DEF Rises
<1>0. IInv /\ SweepInv
    BY DEF AnalysisInv, ResultInv
<1>1. id \in [Blocks -> Nat] /\ idom[b] \in Blocks /\ idom \in [Blocks -> Blocks \cup {NoBlock}]
    BY <1>0, SweepTyped
<1>2. CASE SetIdom
  <2>1. /\ f2 \in Blocks /\ Swept \in Blocks /\ idom' = [idom EXCEPT ![Swept] = f2]
        /\ idom[Swept] # NoBlock => id[idom[Swept]] <= id[f2]
    BY <1>0, <1>2, NewIdomIs
  <2> QED
    BY <1>1, <2>1
<1>3. CASE UNCHANGED idom
    BY <1>1, <1>3
<1>4. SetIdom \/ UNCHANGED idom
    BY Zenon DEF Next, vars, Visit, Number, StartIdom, SkipRoot, PickPred, Intersect, ClimbFirst, ClimbSecond,
       Met, SweepAgain, EndIdom, StartRunner, Run, StopRunner, EndFrontier, BuildTree, idomVars
<1> QED
    BY <1>2, <1>3, <1>4

(* A later sweep only moves an immediate dominator towards the entry: the   *)
(* argument for the termination of `while (changed)`.                       *)
THEOREM SweepsRaise == Spec => IdomOnlyRises
<1>1. Init => AnalysisInv /\ RiseInv
  <2>1. Init => RiseInv
    BY DEF Init, RiseInv, Sweeping
  <2> QED
    BY <2>1, AnalysisInit
<1>2. AnalysisInv /\ RiseInv /\ [Next]_vars => AnalysisInv' /\ RiseInv' /\ [Rises]_vars
    BY AnalysisStep, RiseStep, RiseAction
<1> QED
    BY <1>1, <1>2, PTL DEF Spec, IdomOnlyRises, Rises
=============================================================================
