--------------------------- MODULE Mem2RegProofs ---------------------------
(****************************************************************************)
(* Proofs about Mem2Reg for every program and every order of its work       *)
(* lists and of the walk of the dominator tree, and that the two passes of  *)
(* Optimizer implement it.                                                  *)
(*                                                                          *)
(* The argument has five parts.  The walk: the blocks not yet entered are   *)
(* those below a child still to visit, the calls in progress are a branch   *)
(* of the dominator tree, and the height of each stack is what they have    *)
(* pushed.  Values: the name of a load not yet met stands for itself and    *)
(* only for itself, so nothing on a stack or in a phi is replaced later.    *)
(* Dominance: each value on a stack was pushed by a call in progress, hence *)
(* by a block that dominates the current one.  Operands: a phi's variable   *)
(* has a store or a phi in a block that dominates the predecessor.  Last,   *)
(* in a program that writes every variable in its entry first no stack is   *)
(* empty when it is read.                                                   *)
(*                                                                          *)
(* The refinement adds that the tables the analysis ends with are those of  *)
(* the graph, which DominatorsProofs shows.  The part about Mem2RegRun      *)
(* executes the result next to the original.                                *)
(****************************************************************************)
EXTENDS Optimizer, Mem2RegRun, CfgProofs, SequenceTheorems

(****************************************************************************)
(* TypeOK.                                                                  *)
(****************************************************************************)

(* The instructions that are left are instructions; if all are marked, none *)
(* is left.                                                                 *)
LEMMA UndeletedIs ==
    ASSUME NEW s \in Seq(Instrs)
    PROVE  /\ Undeleted(s) \in Seq(Instrs)
           /\ (\A k \in 1 .. Len(s) : s[k] \in dead) => Undeleted(s) = << >>
<1> DEFINE Step(f, n) == IF n = 0 THEN << >>
                         ELSE IF s[n] \in dead THEN f[n - 1] ELSE Append(f[n - 1], s[n])
           IsKept(f, m) == f = [n \in 0 .. m |-> Step(f, n)]
           T == {m \in Nat : m <= Len(s) => \E f : IsKept(f, m)}
<1>0. Len(s) \in Nat /\ \A k \in 1 .. Len(s) : s[k] \in Instrs
  BY ElementOfSeq
<1>1. 0 \in T
  <2> DEFINE f0 == [n \in 0 .. 0 |-> << >>]
  <2>1. IsKept(f0, 0)
    OBVIOUS
  <2> QED
    BY <2>1
<1>2. ASSUME NEW m \in Nat, m \in T, m + 1 <= Len(s) PROVE \E f : IsKept(f, m + 1)
  <2>1. PICK f : IsKept(f, m)
    BY <1>0, <1>2
  <2> DEFINE h == [n \in 0 .. m + 1 |-> IF n <= m THEN f[n] ELSE Step(f, m + 1)]
  <2>2. ASSUME NEW n \in 0 .. m PROVE f[n] = Step(f, n)
    BY <2>1
  <2>3. ASSUME NEW n \in 0 .. m + 1 PROVE h[n] = Step(h, n)
    BY <2>2
  <2>4. IsKept(h, m + 1)
    <3>1. h = [n \in 0 .. m + 1 |-> h[n]]
      OBVIOUS
    <3> HIDE DEF h, Step
    <3> QED
      BY <2>3, <3>1
  <2> QED
    BY <2>4
<1> HIDE DEF IsKept
<1>3. \A m \in Nat : m \in T => m + 1 \in T
  BY <1>0, <1>2
<1>4. \E f : IsKept(f, Len(s))
  <2> HIDE DEF T
  <2>1. Nat \subseteq T
    BY <1>1, <1>3, AllNaturals
  <2> QED
    BY <1>0, <2>1 DEF T
<1> DEFINE kept == CHOOSE f : IsKept(f, Len(s))
<1>5. IsKept(kept, Len(s)) /\ Undeleted(s) = kept[Len(s)]
  <2>1. IsKept(kept, Len(s))
    BY <1>4
  <2>2. Undeleted(s) = kept[Len(s)]
    BY Zenon DEF Undeleted, IsKept
  <2> QED
    BY <2>1, <2>2
<1> HIDE DEF kept, T
<1>6. \A n \in 0 .. Len(s) : kept[n] = Step(kept, n)
  BY <1>5 DEF IsKept
<1>9. << >> \in Seq(Instrs) /\ kept[0] = << >>
  BY <1>0, <1>6
<1>7. Undeleted(s) \in Seq(Instrs)
  <2> DEFINE U == {m \in Nat : m <= Len(s) => kept[m] \in Seq(Instrs)}
  <2>1. 0 \in U
    BY <1>9
  <2>2. ASSUME NEW m \in Nat, m \in U, m + 1 <= Len(s) PROVE kept[m + 1] \in Seq(Instrs)
    <3>1. kept[m + 1] = Step(kept, m + 1) /\ kept[m] \in Seq(Instrs) /\ s[m + 1] \in Instrs
      BY <1>0, <1>6, <2>2
    <3>2. kept[m + 1] = kept[m] \/ kept[m + 1] = Append(kept[m], s[m + 1])
      BY <3>1, SMTT(20)
    <3> QED
      BY <3>1, <3>2, AppendProperties
  <2>3. \A m \in Nat : m \in U => m + 1 \in U
    BY <1>0, <2>2
  <2> HIDE DEF U
  <2>4. Nat \subseteq U
    BY <2>1, <2>3, AllNaturals
  <2> QED
    BY <1>0, <1>5, <2>4 DEF U
<1>8. ASSUME \A k \in 1 .. Len(s) : s[k] \in dead PROVE Undeleted(s) = << >>
  <2> DEFINE U == {m \in Nat : m <= Len(s) => kept[m] = << >>}
  <2>1. 0 \in U
    BY <1>0, <1>6
  <2>2. ASSUME NEW m \in Nat, m \in U, m + 1 <= Len(s) PROVE kept[m + 1] = << >>
    BY <1>0, <1>6, <1>8, <2>2
  <2>3. \A m \in Nat : m \in U => m + 1 \in U
    BY <1>0, <2>2
  <2> HIDE DEF U
  <2>4. Nat \subseteq U
    BY <2>1, <2>3, AllNaturals
  <2> QED
    BY <1>0, <1>5, <2>4 DEF U
<1> QED
  BY <1>7, <1>8

(* The current value of a variable, and an operand, is a value.             *)
LEMMA TopIs ==
    ASSUME TypeOK, NEW x \in Vars
    PROVE  /\ Top(x) \in Vals
           /\ stacks[x] # << >> => Len(stacks[x]) \in 1 .. Len(stacks[x])
<1>1. stacks[x] \in Seq(Vals) /\ Len(stacks[x]) \in Nat
    BY LenProperties DEF TypeOK
<1>2. ASSUME stacks[x] # << >> PROVE Len(stacks[x]) \in 1 .. Len(stacks[x])
    BY <1>1, <1>2, EmptySeq
<1>3. CASE stacks[x] # << >>
    BY <1>1, <1>2, <1>3, ElementOfSeq DEF Top
<1>4. CASE stacks[x] = << >>
    BY <1>4 DEF Top, Vals
<1> QED
    BY <1>2, <1>3, <1>4

(* The innermost call is on a block.                                        *)
LEMMA CallIs ==
    ASSUME TypeOK, calls # << >>
    PROVE  /\ Len(calls) \in 1 .. Len(calls)
           /\ calls[Len(calls)] \in [bb : Blocks, todo : SUBSET Blocks]
           /\ Current \in Blocks
<1>1. Len(calls) \in 1 .. Len(calls)
    BY EmptySeq, LenProperties DEF TypeOK
<1>2. calls[Len(calls)] \in [bb : Blocks, todo : SUBSET Blocks]
    BY <1>1, ElementOfSeq DEF TypeOK
<1> QED
    BY <1>1, <1>2 DEF Current

(* The instruction re_name is at.                                           *)
LEMMA InstructionIs ==
    ASSUME TypeOK, calls # << >>, at <= Len(code[Current])
    PROVE  at \in 1 .. Len(code[Current]) /\ code[Current][at] \in Instrs
<1>1. code[Current] \in Seq(Instrs)
    BY CallIs DEF TypeOK
<1>2. at \in 1 .. Len(code[Current])
    BY <1>1, LenProperties DEF TypeOK
<1> QED
    BY <1>1, <1>2, ElementOfSeq

(* What SubSeq leaves of a sequence.                                        *)
LEMMA Popped ==
    ASSUME NEW S, NEW s \in Seq(S), NEW p \in Nat
    PROVE  /\ SubSeq(s, 1, Len(s) - p) \in Seq(S)
           /\ p <= Len(s) => Len(SubSeq(s, 1, Len(s) - p)) = Len(s) - p
           /\ \A k \in 1 .. Len(s) - p : SubSeq(s, 1, Len(s) - p)[k] = s[k]
<1>1. Len(s) \in Nat
    BY LenProperties
<1>2. CASE p <= Len(s)
  <2>1. \A k \in 1 .. Len(s) - p : s[k] \in S
    BY <1>1, ElementOfSeq
  <2> QED
    BY <1>1, <1>2, <2>1, SubSeqProperties
<1>3. CASE p > Len(s)
    BY <1>1, <1>3, SubSeqEmpty
<1> QED
    BY <1>1, <1>2, <1>3

(* Finitely many instructions of a block push values.                       *)
LEMMA PushedIs ==
    ASSUME NEW b, NEW x, NEW n \in Nat
    PROVE  IsFiniteSet(PushedBy(b, x, n)) /\ Cardinality(PushedBy(b, x, n)) \in Nat
<1>1. IsFiniteSet(0 .. n)
    BY FS_Interval
<1>2. PushedBy(b, x, n) \subseteq 0 .. n
    BY DEF PushedBy
<1> QED
    BY <1>1, <1>2, FS_Subset, FS_CardinalityType

Record == [bb : Blocks, todo : SUBSET Blocks]

(* The calls in progress after a call has been made.                        *)
LEMMA AfterDescend ==
    ASSUME TypeOK, Descend
    PROVE  /\ calls' \in Seq(Record) /\ calls' # << >> /\ Len(calls') = Len(calls) + 1
           /\ \A n \in 1 .. Len(calls) : calls'[n].bb = calls[n].bb
           /\ \A n \in 1 .. Len(calls) - 1 : calls'[n].todo = calls[n].todo
           /\ calls'[Len(calls) + 1].bb \in calls[Len(calls)].todo
           /\ calls'[Len(calls)].todo = calls[Len(calls)].todo \ {calls'[Len(calls) + 1].bb}
           /\ calls'[Len(calls) + 1].todo = kids[calls'[Len(calls) + 1].bb]
<1>1. calls \in Seq(Record) /\ calls # << >>
    BY DEF Descend, TypeOK, Record
<1>2. Len(calls) \in 1 .. Len(calls) /\ calls[Len(calls)] \in Record
    BY <1>1, CallIs DEF Record
<1>3. PICK c \in calls[Len(calls)].todo :
         calls' = Append([calls EXCEPT ![Len(calls)].todo = @ \ {c}],
                         [bb |-> c, todo |-> kids[c]])
    BY DEF Descend
<1> DEFINE r == [calls[Len(calls)] EXCEPT !.todo = @ \ {c}]
           s == [calls EXCEPT ![Len(calls)] = r]
           e == [bb |-> c, todo |-> kids[c]]
<1>4. /\ r \in Record /\ r.bb = calls[Len(calls)].bb
      /\ r.todo = calls[Len(calls)].todo \ {c}
    BY <1>2 DEF Record
<1>5. e \in Record /\ e.bb = c /\ e.todo = kids[c]
    BY <1>2 DEF Record, TypeOK
<1>6. calls' = Append(s, e)
    BY <1>3
<1> HIDE DEF r, e
<1>7. /\ s \in Seq(Record) /\ Len(s) = Len(calls)
      /\ \A j \in 1 .. Len(calls) : s[j] = IF j = Len(calls) THEN r ELSE calls[j]
    BY <1>1, <1>2, <1>4, ExceptSeq
<1> HIDE DEF s
<1>8. /\ calls' \in Seq(Record) /\ calls' # << >> /\ Len(calls') = Len(calls) + 1
      /\ \A i \in 1 .. Len(calls) : calls'[i] = s[i]
      /\ calls'[Len(calls) + 1] = e
    BY <1>5, <1>6, <1>7, AppendProperties
<1> QED
    BY <1>2, <1>4, <1>5, <1>7, <1>8

(* The calls in progress after a call has returned.                         *)
LEMMA AfterLeave ==
    ASSUME TypeOK, Leave
    PROVE  /\ calls # << >> /\ calls' \in Seq(Record) /\ Len(calls') = Len(calls) - 1
           /\ Len(calls) \in 1 .. Len(calls)
           /\ \A n \in 1 .. Len(calls) - 1 : calls'[n] = calls[n]
           /\ pc' \in {"down", "alloca"} /\ (pc' = "down" <=> calls' # << >>)
<1>1. calls \in Seq(Record) /\ calls # << >>
    BY DEF Leave, TypeOK, Record
<1>2. Len(calls) \in 1 .. Len(calls)
    BY <1>1, CallIs
<1>3. calls' = SubSeq(calls, 1, Len(calls) - 1)
    BY DEF Leave
<1>4. /\ calls' \in Seq(Record) /\ Len(calls') = Len(calls) - 1
      /\ \A n \in 1 .. Len(calls) - 1 : calls'[n] = calls[n]
  <2>1. PICK p \in Nat : p = 1
    OBVIOUS
  <2>2. calls' = SubSeq(calls, 1, Len(calls) - p) /\ p <= Len(calls)
    BY <1>2, <1>3, <2>1
  <2>3. /\ calls' \in Seq(Record) /\ Len(calls') = Len(calls) - p
        /\ \A n \in 1 .. Len(calls) - p : calls'[n] = calls[n]
    BY <1>1, <2>2, Popped
  <2> QED
    BY <2>1, <2>3
<1>5. calls' = << >> <=> Len(calls) = 1
    BY <1>2, <1>4, EmptySeq
<1> QED
    BY <1>1, <1>2, <1>4, <1>5 DEF Leave, Returned

(* The variables have their types before the pass.                          *)
LEMMA TypeInit == Init => TypeOK
<1> SUFFICES ASSUME Init PROVE TypeOK
  OBVIOUS
<1>1. /\ prog \in Programs /\ prog.succ \in [Blocks -> SUBSET Blocks]
      /\ prog.code \in [Blocks -> Seq(Instrs)]
  BY ProgramsAssumption DEF Init, PassInit, IsFunctionCfg
<1>2. df \in [Blocks -> SUBSET Blocks] /\ kids \in [Blocks -> SUBSET Blocks]
  BY DEF Init, DominanceFrontier, DominatorChildren
<1>3. work \in [Vars -> SUBSET Blocks]
  BY DEF Init, PassInit, StoreBlocks
<1>4. /\ args \in [Phis -> [Blocks -> Vals \cup {Undef}]] /\ stacks \in [Vars -> Seq(Vals)]
      /\ subst \in [Names -> Vals]
  BY DEF Init, PassInit, Vals
<1> QED
  BY <1>1, <1>2, <1>3, <1>4 DEF Init, PassInit, TypeOK

(* Every step keeps the types.                                              *)
LEMMA TypeStep == TypeOK /\ [Pass]_vars => TypeOK'
<1> SUFFICES ASSUME TypeOK, [Pass]_vars PROVE TypeOK'
  OBVIOUS
<1> USE DEF TypeOK
<1>1. CASE PlacePhis
  <2>1. PICK x \in Vars : \E b \in work[x] :
           /\ phis' = phis \cup (Lacking(x, b) \X {x})
           /\ work' = [work EXCEPT ![x] = Rest(x, b)]
    BY <1>1 DEF PlacePhis
  <2>2. PICK b \in work[x] : /\ phis' = phis \cup (Lacking(x, b) \X {x})
                             /\ work' = [work EXCEPT ![x] = Rest(x, b)]
    BY <2>1
  <2>3. b \in Blocks /\ Lacking(x, b) \subseteq Blocks /\ Rest(x, b) \subseteq Blocks
    BY DEF Lacking, Rest
  <2>4. phis' \in SUBSET Phis
    BY <2>2, <2>3 DEF Phis
  <2> QED
    BY <1>1, <2>2, <2>3, <2>4 DEF PlacePhis
<1>2. CASE StartRename
  BY <1>2, RootAssumption DEF StartRename
<1>3. CASE EnterBlock
  <2>1. Current \in Blocks
    BY <1>3, CallIs DEF EnterBlock
  <2>2. ASSUME NEW x \in Vars PROVE Append(stacks[x], <<Current, x>>) \in Seq(Vals)
    BY <2>1, AppendProperties DEF Vals, Phis
  <2>3. stacks' \in [Vars -> Seq(Vals)]
    BY <1>3, <2>2 DEF EnterBlock
  <2>4. keys' \in SUBSET Vars
    BY <1>3 DEF EnterBlock, PhisOf
  <2> QED
    BY <1>3, <2>3, <2>4 DEF EnterBlock
<1>4. CASE RenameLoad
  <2> DEFINE i == code[Current][at]
  <2>1. i \in Instrs /\ i.var \in Vars /\ i.val \in Names
    BY <1>4, InstructionIs DEF RenameLoad, Instrs
  <2>2. dead' \in SUBSET Instrs /\ subst' \in [Names -> Vals]
    <3>1. CASE i.var \in keys
      BY <1>4, <2>1, <3>1, TopIs DEF RenameLoad, Awaiting
    <3>2. CASE i.var \notin keys
      BY <1>4, <3>2 DEF RenameLoad
    <3> QED
      BY <3>1, <3>2
  <2> QED
    BY <1>4, <2>2 DEF RenameLoad
<1>5. CASE RenameStore
  <2> DEFINE i == code[Current][at]
  <2>1. i \in Instrs /\ i.var \in Vars /\ i.val \in Names
    BY <1>5, InstructionIs DEF RenameStore, Instrs
  <2>2. Operand(i.val) \in Vals
    BY <2>1 DEF Operand
  <2>3. Append(stacks[i.var], Operand(i.val)) \in Seq(Vals)
    BY <2>1, <2>2, AppendProperties
  <2>4. stacks' = [stacks EXCEPT ![i.var] = Append(stacks[i.var], Operand(i.val))]
    BY <1>5 DEF RenameStore
  <2>5. stacks' \in [Vars -> Seq(Vals)]
    BY <2>3, <2>4
  <2>6. dead' \in SUBSET Instrs /\ keys' \in SUBSET Vars
    BY <1>5, <2>1 DEF RenameStore, Awaiting
  <2>7. /\ pc = "body" /\ at' = at + 1
        /\ UNCHANGED <<prog, df, kids, code, pc, work, phis, args, subst, calls, allocas>>
    BY <1>5 DEF RenameStore
  <2> HIDE DEF i
  <2> QED
    BY <2>5, <2>6, <2>7
<1>6. CASE FillPhis
  <2>1. Current \in Blocks
    BY <1>6, CallIs DEF FillPhis
  <2>2. \A f \in ToFill : f[2] \in Vars /\ f \in Phis
    BY DEF ToFill, Phis
  <2>3. ASSUME NEW f \in Phis
        PROVE  (IF f \in ToFill THEN [args[f] EXCEPT ![Current] = Top(f[2])] ELSE args[f])
                  \in [Blocks -> Vals \cup {Undef}]
    BY <2>1, <2>2, TopIs
  <2>4. args' \in [Phis -> [Blocks -> Vals \cup {Undef}]]
    BY <1>6, <2>3 DEF FillPhis
  <2> QED
    BY <1>6, <2>4 DEF FillPhis
<1>7. CASE AbortFill
  BY <1>7 DEF AbortFill
<1>8. CASE Descend
  BY <1>8, AfterDescend DEF Descend, Record
<1>9. CASE Leave
  <2>1. calls # << >>
    BY <1>9 DEF Leave
  <2>2. code' \in [Blocks -> Seq(Instrs)]
    BY <1>9, UndeletedIs DEF Leave
  <2>3. calls' \in Seq([bb : Blocks, todo : SUBSET Blocks])
    BY <1>9, AfterLeave DEF Record
  <2>4. pc' \in {"down", "alloca"} /\ (pc' = "down" => calls' # << >>)
    BY <1>9, AfterLeave
  <2>5. stacks' \in [Vars -> Seq(Vals)]
    <3>1. ASSUME NEW x \in Vars
          PROVE  SubSeq(stacks[x], 1, Len(stacks[x]) - Pushed(Current, x)) \in Seq(Vals)
      <4>1. Len(code[Current]) \in Nat /\ stacks[x] \in Seq(Vals)
        BY <2>1, CallIs, LenProperties
      <4>2. Pushed(Current, x) \in Nat
        BY <4>1, PushedIs DEF Pushed
      <4> QED
        BY <4>1, <4>2, Popped
    <3> QED
      BY <1>9, <3>1 DEF Leave
  <2> QED
    BY <1>9, <2>2, <2>3, <2>4, <2>5 DEF Leave
<1>10. CASE RemoveAllocas
  BY <1>10 DEF RemoveAllocas
<1>11. CASE UNCHANGED vars
  BY <1>11 DEF vars, passVars
<1> QED
  BY <1>1, <1>2, <1>3, <1>4, <1>5, <1>6, <1>7, <1>8, <1>9, <1>10, <1>11 DEF Pass, Rename

(* The variables keep their types.                                          *)
THEOREM TypeCorrect == Spec => []TypeOK
    BY TypeInit, TypeStep, PTL DEF Spec

-----------------------------------------------------------------------------
(****************************************************************************)
(* The walk of re_name.                                                     *)
(****************************************************************************)

(* The tables are those of the graph.                                       *)
TablesInv ==
    /\ prog \in Programs
    /\ df = [b \in Blocks |-> DominanceFrontier(Succ, b)]
    /\ kids = [b \in Blocks |-> DominatorChildren(Succ, b)]

(* The blocks below the children that calls have yet to visit, and all that *)
(* have not been entered.                                                   *)
Below(g, s) == {b \in Blocks : \E n \in 1 .. Len(s) : \E c \in s[n].todo : Dominates(g, c, b)}
Unseen == IF pc = "phi" THEN Blocks
          ELSE Below(Succ, calls) \cup {b \in Blocks : pc = "enter" /\ b = Current}

(* The calls in progress go down the dominator tree from the entry, and     *)
(* none is on a block that is still to be visited.                          *)
IsBranch(g, s) ==
    /\ s # << >> => s[1].bb = Root
    /\ \A n \in 1 .. Len(s) : s[n].todo \subseteq DominatorChildren(g, s[n].bb)
    /\ \A m, n \in 1 .. Len(s) : m < n =>
          /\ StrictlyDominates(g, s[m].bb, s[n].bb)
          /\ \A c \in s[m].todo : ~ Dominates(g, c, s[n].bb)

(* What a block holds is what the program has there until its call returns. *)
CodeKept ==
    \A b \in Blocks : b \in Unseen \/ (\E n \in 1 .. Len(calls) : b = calls[n].bb)
        => code[b] = prog.code[b]

CallsInv ==
    /\ pc \in {"phi", "alloca", "done"} <=> calls = << >>
    /\ IsBranch(Succ, calls)
    /\ CodeKept
    /\ pc = "body" => at <= Len(code[Current]) + 1
    /\ pc = "abort" => at = Len(code[Current]) + 1

(* The graph is one of a function, and its tree that of dominance.          *)
LEMMA GraphIs ==
    ASSUME TablesInv
    PROVE  /\ IsFunctionCfg(Succ)
           /\ \A b \in Blocks : kids[b] = DominatorChildren(Succ, b)
    BY ProgramsAssumption DEF TablesInv, Succ

(* The tables stay.                                                         *)
LEMMA TablesKept ==
    ASSUME TablesInv, [Pass]_vars
    PROVE  TablesInv' /\ prog' = prog /\ Succ' = Succ /\ df' = df /\ kids' = kids
<1>1. prog' = prog /\ df' = df /\ kids' = kids
    BY DEF Pass, Rename, vars, passVars, PlacePhis, StartRename, EnterBlock, RenameLoad,
           RenameStore, FillPhis, AbortFill, Descend, Leave, RemoveAllocas
<1> QED
    BY <1>1 DEF TablesInv, Succ

(* No call is on a block that is still to be visited.                       *)
LEMMA CallsAreSeen ==
    ASSUME TypeOK, TablesInv, CallsInv, NEW n \in 1 .. Len(calls)
    PROVE  calls[n].bb \in Blocks /\ calls[n].bb \notin Below(Succ, calls)
<1>1. /\ calls[n] \in [bb : Blocks, todo : SUBSET Blocks]
      /\ \A m \in 1 .. Len(calls) : calls[m] \in [bb : Blocks, todo : SUBSET Blocks]
      /\ Len(calls) \in Nat
    BY ElementOfSeq, LenProperties DEF TypeOK
<1>2. ASSUME NEW m \in 1 .. Len(calls), NEW c \in calls[m].todo, Dominates(Succ, c, calls[n].bb)
      PROVE  FALSE
  <2>1. /\ c \in DominatorChildren(Succ, calls[m].bb) /\ IsFunctionCfg(Succ)
        /\ calls[m].bb \in Blocks /\ calls[n].bb \in Blocks /\ c \in Blocks
    BY <1>1, <1>2, GraphIs DEF CallsInv, IsBranch
  <2>2. StrictlyDominates(Succ, calls[m].bb, c)
    BY <2>1, ChildrenAre
  <2>3. CASE m < n
    BY <1>2, <2>3 DEF CallsInv, IsBranch
  <2>4. CASE n <= m
    <3>1. Dominates(Succ, calls[n].bb, calls[m].bb)
      BY <1>1, <2>1, <2>4, DominanceReflexive DEF CallsInv, IsBranch, StrictlyDominates
    <3>2. Dominates(Succ, calls[n].bb, c)
      BY <2>1, <2>2, <3>1, DominanceTransitive DEF StrictlyDominates
    <3>3. c = calls[n].bb
      BY <1>2, <2>1, <3>2, DominanceAntisymmetric
    <3>4. c = calls[m].bb
      BY <2>1, <2>2, <3>1, <3>3, DominanceAntisymmetric DEF StrictlyDominates
    <3> QED
      BY <2>2, <3>4 DEF StrictlyDominates
  <2> QED
    BY <1>1, <2>3, <2>4
<1> QED
    BY <1>1, <1>2 DEF Below

(* The elements of the sequence of calls.                                   *)
LEMMA EachCall ==
    ASSUME TypeOK
    PROVE  /\ Len(calls) \in Nat
           /\ \A n \in 1 .. Len(calls) : calls[n].bb \in Blocks /\ calls[n].todo \subseteq Blocks
<1>1. Len(calls) \in Nat /\ \A n \in 1 .. Len(calls) : calls[n] \in [bb : Blocks, todo : SUBSET Blocks]
    BY ElementOfSeq, LenProperties DEF TypeOK
<1> QED
    BY <1>1

(* A call for a child of the innermost call's block: the child is the next  *)
(* to be entered, its own children are to be visited.                       *)
LEMMA CallsDescend ==
    ASSUME TypeOK, TypeOK', TablesInv, TablesInv', prog' = prog, CallsInv, Descend
    PROVE  CallsInv' /\ Unseen' = Unseen
<1> DEFINE L == Len(calls)
           c == calls'[L + 1].bb
<1>1. /\ Succ' = Succ /\ IsFunctionCfg(Succ) /\ kids = [b \in Blocks |-> DominatorChildren(Succ, b)]
    BY GraphIs DEF Succ, TablesInv
<1>2. /\ L \in 1 .. L /\ calls # << >>
      /\ \A n \in 1 .. L : calls[n].bb \in Blocks /\ calls[n].todo \subseteq Blocks
    BY EachCall, CallIs DEF Descend, TypeOK
<1>3. /\ Len(calls') = L + 1 /\ calls' # << >>
      /\ \A n \in 1 .. L : calls'[n].bb = calls[n].bb
      /\ \A n \in 1 .. L - 1 : calls'[n].todo = calls[n].todo
      /\ c \in calls[L].todo /\ calls'[L].todo = calls[L].todo \ {c}
      /\ calls'[L + 1].todo = DominatorChildren(Succ, c)
    BY <1>1, <1>2, AfterDescend
<1>4. /\ IsBranch(Succ, calls) /\ pc = "down" /\ pc' = "enter" /\ code' = code
      /\ Current' = c /\ prog' = prog
    BY <1>3 DEF CallsInv, Descend, Current
<1> HIDE DEF c
<1>5. /\ c \in Blocks /\ c \in DominatorChildren(Succ, calls[L].bb)
      /\ StrictlyDominates(Succ, calls[L].bb, c)
      /\ \A e \in Blocks : StrictlyDominates(Succ, e, c) => Dominates(Succ, e, calls[L].bb)
    BY <1>1, <1>2, <1>3, <1>4, ChildrenAre DEF IsBranch
<1>6. Below(Succ, calls) = Below(Succ, calls') \cup {c}
  <2>1. c \in Below(Succ, calls)
    BY <1>1, <1>2, <1>3, <1>5, DominanceReflexive DEF Below
  <2>2. ASSUME NEW b \in Blocks, NEW n \in 1 .. Len(calls'), NEW d \in calls'[n].todo, Dominates(Succ, d, b)
        PROVE  b \in Below(Succ, calls)
    <3>1. CASE n < L
      BY <1>2, <1>3, <2>2, <3>1 DEF Below
    <3>2. CASE n = L
      BY <1>2, <1>3, <2>2, <3>2 DEF Below
    <3>3. CASE n = L + 1
      <4>1. d \in Blocks /\ Dominates(Succ, c, d)
        BY <1>1, <1>3, <1>5, <2>2, <3>3, ChildrenAre DEF StrictlyDominates
      <4>2. Dominates(Succ, c, b)
        BY <1>1, <1>5, <2>2, <4>1, DominanceTransitive
      <4> QED
        BY <1>2, <1>3, <4>2 DEF Below
    <3> QED
      BY <1>2, <1>3, <3>1, <3>2, <3>3
  <2>3. ASSUME NEW b \in Blocks, NEW n \in 1 .. L, NEW d \in calls[n].todo, Dominates(Succ, d, b), b # c
        PROVE  b \in Below(Succ, calls')
    <3>1. CASE n < L
      BY <1>2, <1>3, <2>3, <3>1 DEF Below
    <3>2. CASE n = L /\ d # c
      BY <1>2, <1>3, <2>3, <3>2 DEF Below
    <3>3. CASE d = c
      <4>1. PICK k \in DominatorChildren(Succ, c) : Dominates(Succ, k, b)
        BY <1>1, <1>5, <2>3, <3>3, ChildBetween DEF StrictlyDominates
      <4> QED
        BY <1>2, <1>3, <4>1 DEF Below
    <3> QED
      BY <1>2, <3>1, <3>2, <3>3
  <2>4. Below(Succ, calls) \subseteq Below(Succ, calls') \cup {c}
    BY <2>3 DEF Below
  <2>5. Below(Succ, calls') \subseteq Below(Succ, calls)
    <3> SUFFICES ASSUME NEW b \in Below(Succ, calls') PROVE b \in Below(Succ, calls)
      OBVIOUS
    <3>1. b \in Blocks /\ \E n \in 1 .. Len(calls') : \E d \in calls'[n].todo : Dominates(Succ, d, b)
      BY DEF Below
    <3> QED
      BY <2>2, <3>1
  <2> QED
    BY <2>1, <2>4, <2>5
<1>7. Unseen' = Unseen
    BY <1>1, <1>4, <1>5, <1>6 DEF Unseen
<1>8. IsBranch(Succ, calls')
  <2>1. calls'[1].bb = Root
    BY <1>2, <1>3, <1>4 DEF IsBranch
  <2>2. ASSUME NEW n \in 1 .. Len(calls')
        PROVE  calls'[n].todo \subseteq DominatorChildren(Succ, calls'[n].bb)
    BY <1>2, <1>3, <1>4 DEF IsBranch, c
  <2>3. ASSUME NEW m \in 1 .. L PROVE StrictlyDominates(Succ, calls[m].bb, c)
    <3>1. CASE m = L
      BY <1>5, <3>1
    <3>2. CASE m < L
      <4>1. StrictlyDominates(Succ, calls[m].bb, calls[L].bb)
        BY <1>2, <1>4, <3>2 DEF IsBranch
      <4>2. Dominates(Succ, calls[m].bb, c)
        BY <1>1, <1>2, <1>5, <4>1, DominanceTransitive DEF StrictlyDominates
      <4>3. calls[m].bb # c
        BY <1>1, <1>2, <1>5, <4>1, DominanceAntisymmetric DEF StrictlyDominates
      <4> QED
        BY <4>2, <4>3 DEF StrictlyDominates
    <3> QED
      BY <1>2, <3>1, <3>2
  <2>4. ASSUME NEW m \in 1 .. L, NEW d \in calls'[m].todo PROVE ~ Dominates(Succ, d, c)
    <3> SUFFICES ASSUME Dominates(Succ, d, c) PROVE FALSE
      OBVIOUS
    <3>0. d \in calls[m].todo /\ d \in Blocks
      BY <1>2, <1>3
    <3>1. d # c
      <4>1. CASE m = L
        BY <1>3, <4>1
      <4>2. CASE m < L
        <5>1. ASSUME d = c PROVE FALSE
          <6>1. c \in DominatorChildren(Succ, calls[m].bb)
            BY <1>4, <3>0, <5>1 DEF IsBranch
          <6>2. calls[m].bb = calls[L].bb
            BY <1>5, <6>1 DEF DominatorChildren
          <6> QED
            BY <1>2, <1>4, <4>2, <6>2 DEF IsBranch, StrictlyDominates
        <5> QED
          BY <5>1
      <4> QED
        BY <1>2, <4>1, <4>2
    <3>2. Dominates(Succ, d, calls[L].bb)
      BY <1>5, <3>0, <3>1 DEF StrictlyDominates
    <3> QED
      BY <1>2, <3>0, <3>2, CallsAreSeen DEF Below
  <2>5. ASSUME NEW m \in 1 .. Len(calls'), NEW n \in 1 .. Len(calls'), m < n
        PROVE  /\ StrictlyDominates(Succ, calls'[m].bb, calls'[n].bb)
               /\ \A d \in calls'[m].todo : ~ Dominates(Succ, d, calls'[n].bb)
    <3>1. CASE n = L + 1
      BY <1>2, <1>3, <2>3, <2>4, <2>5, <3>1 DEF c
    <3>2. CASE n <= L
      <4>1. m \in 1 .. L - 1 /\ n \in 1 .. L
        BY <1>2, <1>3, <2>5, <3>2
      <4>2. calls'[m].bb = calls[m].bb /\ calls'[n].bb = calls[n].bb /\ calls'[m].todo = calls[m].todo
        BY <1>2, <1>3, <4>1
      <4> QED
        BY <1>2, <1>4, <2>5, <4>1, <4>2 DEF IsBranch
    <3> QED
      BY <1>2, <1>3, <3>1, <3>2
  <2> HIDE DEF L
  <2> QED
    BY <2>1, <2>2, <2>5 DEF IsBranch
<1>9. CodeKept'
  <2>1. ASSUME NEW b \in Blocks, b \in Unseen' \/ \E n \in 1 .. Len(calls') : b = calls'[n].bb
        PROVE  b \in Unseen \/ \E n \in 1 .. L : b = calls[n].bb
    BY <1>2, <1>3, <1>4, <1>6, <1>7, <2>1 DEF Unseen, c
  <2> QED
    BY <1>4, <2>1 DEF CodeKept, CallsInv
<1> QED
    BY <1>1, <1>3, <1>4, <1>7, <1>8, <1>9 DEF CallsInv

(* The innermost call returns, all children of its block visited.           *)
LEMMA CallsLeave ==
    ASSUME TypeOK, TablesInv, prog' = prog, CallsInv, Leave
    PROVE  CallsInv' /\ Unseen' = Unseen
<1> DEFINE L == Len(calls)
<1>1. /\ L \in 1 .. L /\ Len(calls') = L - 1 /\ L - 1 \in Nat
      /\ \A n \in 1 .. L - 1 : calls'[n] = calls[n]
      /\ \A n \in 1 .. L : calls[n].bb \in Blocks
      /\ pc' \in {"down", "alloca"} /\ (pc' = "down" <=> calls' # << >>)
    BY AfterLeave, EachCall
<1>2. /\ IsBranch(Succ, calls) /\ Succ' = Succ /\ pc = "down" /\ calls[L].todo = {}
      /\ code' = [code EXCEPT ![Current] = Undeleted(@)] /\ Current = calls[L].bb
    BY DEF CallsInv, Succ, Leave, Current
<1> HIDE DEF L
<1>3. Below(Succ, calls') = Below(Succ, calls)
    BY <1>1, <1>2 DEF Below, L
<1>4. Unseen' = Unseen
    BY <1>1, <1>2, <1>3 DEF Unseen
<1>5. IsBranch(Succ, calls')
  <2>1. ASSUME calls' # << >> PROVE calls'[1].bb = Root
    <3>1. L # 1
      BY <1>1, <2>1, EmptySeq, AfterLeave DEF Record
    <3> QED
      BY <1>1, <1>2, <3>1 DEF IsBranch, L
  <2>2. \A n \in 1 .. Len(calls') : n \in 1 .. L /\ calls'[n] = calls[n]
    BY <1>1
  <2> QED
    BY <1>2, <2>1, <2>2 DEF IsBranch, L
<1>6. CodeKept'
  <2> SUFFICES ASSUME NEW b \in Blocks, b \in Unseen' \/ \E n \in 1 .. Len(calls') : b = calls'[n].bb
               PROVE  code'[b] = prog'.code[b]
    BY DEF CodeKept
  <2>1. b # Current /\ (b \in Unseen \/ \E n \in 1 .. L : b = calls[n].bb)
    <3>1. CASE b \in Unseen'
      BY <1>1, <1>2, <1>4, <3>1, CallsAreSeen DEF Unseen, L
    <3>2. CASE \E n \in 1 .. Len(calls') : b = calls'[n].bb
      <4>1. PICK n \in 1 .. L - 1 : b = calls[n].bb
        BY <1>1, <3>2
      <4>2. StrictlyDominates(Succ, calls[n].bb, calls[L].bb)
        BY <1>1, <1>2, <4>1 DEF IsBranch, L
      <4> QED
        BY <1>1, <1>2, <4>1, <4>2 DEF StrictlyDominates
    <3> QED
      BY <3>1, <3>2
  <2> QED
    BY <1>2, <2>1 DEF CallsInv, CodeKept, TypeOK, L
<1> QED
    BY <1>1, <1>2, <1>4, <1>5, <1>6 DEF CallsInv

(* The first call of re_name: all blocks but the entry are below its        *)
(* children.                                                                *)
LEMMA CallsStart ==
    ASSUME TypeOK, TablesInv, prog' = prog, CallsInv, StartRename
    PROVE  CallsInv' /\ Unseen' = Unseen
<1>1. /\ Succ' = Succ /\ IsFunctionCfg(Succ) /\ kids[Root] = DominatorChildren(Succ, Root)
    BY GraphIs, RootAssumption DEF Succ
<1>2. /\ pc = "phi" /\ pc' = "enter" /\ calls' # << >> /\ Len(calls') = 1
      /\ calls'[1].bb = Root /\ calls'[1].todo = DominatorChildren(Succ, Root)
      /\ Current' = Root /\ code' = code
    BY <1>1 DEF StartRename, Current
<1>3. ASSUME NEW b \in Blocks \ {Root} PROVE b \in Below(Succ, calls')
  <2>1. StrictlyDominates(Succ, Root, b)
    BY <1>1, DominanceReflexive DEF StrictlyDominates
  <2>2. PICK c \in DominatorChildren(Succ, Root) : Dominates(Succ, c, b)
    BY <1>1, <2>1, ChildBetween, RootAssumption
  <2> QED
    BY <1>2, <2>2 DEF Below
<1>4. Unseen' = Blocks /\ Unseen = Blocks
    BY <1>1, <1>2, <1>3, RootAssumption DEF Unseen, Below
<1>5. IsBranch(Succ, calls')
    BY <1>2 DEF IsBranch
<1>6. CodeKept'
    BY <1>2, <1>4 DEF CallsInv, CodeKept
<1> QED
    BY <1>1, <1>2, <1>4, <1>5, <1>6 DEF CallsInv

(* The block of the innermost call is entered.                              *)
LEMMA CallsEnter ==
    ASSUME TypeOK, TablesInv, prog' = prog, CallsInv, EnterBlock
    PROVE  CallsInv' /\ Unseen' = Unseen \ {Current} /\ Current \in Unseen /\ Current' = Current
<1>1. /\ pc = "enter" /\ pc' = "body" /\ calls' = calls /\ code' = code /\ at' = 1
      /\ Succ' = Succ /\ Current' = Current
    BY DEF EnterBlock, Succ, Current
<1>2. Current \in Blocks /\ Current \notin Below(Succ, calls) /\ Len(code[Current]) \in Nat
    BY <1>1, CallIs, CallsAreSeen, LenProperties DEF TypeOK, Current
<1>3. Unseen' = Below(Succ, calls) /\ Unseen = Below(Succ, calls) \cup {Current}
    BY <1>1, <1>2 DEF Unseen
<1>4. CodeKept'
    BY <1>1, <1>3 DEF CodeKept, CallsInv
<1> QED
    BY <1>1, <1>2, <1>3, <1>4 DEF CallsInv

(* Every other step leaves the calls as they are.                           *)
LEMMA CallsSame ==
    ASSUME TypeOK, CallsInv, UNCHANGED <<prog, calls, code>>,
           \/ pc' = pc /\ (at' = at \/ (pc = "body" /\ at <= Len(code[Current]) /\ at' = at + 1))
           \/ pc = "body" /\ at > Len(code[Current]) /\ pc' \in {"down", "abort"} /\ at' = at
           \/ pc = "alloca" /\ pc' = "done"
    PROVE  CallsInv' /\ Unseen' = Unseen /\ Current' = Current
<1>1. Succ' = Succ /\ Current' = Current /\ Unseen' = Unseen
    BY DEF Succ, Current, Unseen
<1>2. CodeKept' = CodeKept
    BY <1>1 DEF CodeKept
<1>3. pc = "body" => Len(code[Current]) \in Nat /\ at \in Nat
    BY CallIs, LenProperties DEF TypeOK
<1> QED
    BY <1>1, <1>2, <1>3 DEF CallsInv

-----------------------------------------------------------------------------
(****************************************************************************)
(* The heights of the stacks.                                               *)
(****************************************************************************)

(* What each call has pushed, and how much the first m calls have.          *)
Pushes(x)    == [n \in 1 .. Len(calls) |-> PushedBy(calls[n].bb, x, Reached(n))]
Heap(P, m)   == UNION {{n} \X P[n] : n \in 1 .. m}
Height(P, m) == Cardinality(Heap(P, m))

HeightInv == \A x \in Vars : Len(stacks[x]) = Height(Pushes(x), Begun)

(* A call adds what it has pushed.                                          *)
LEMMA HeightStep ==
    ASSUME NEW P, NEW m \in Nat, \A n \in 1 .. m : IsFiniteSet(P[n])
    PROVE  /\ IsFiniteSet(Heap(P, m)) /\ Height(P, m) \in Nat
           /\ m = 0 => Height(P, m) = 0
           /\ IsFiniteSet(P[m + 1]) => Height(P, m + 1) = Height(P, m) + Cardinality(P[m + 1])
<1> DEFINE Piece(n) == {n} \X P[n]
<1>1. ASSUME NEW n, IsFiniteSet(P[n])
      PROVE  IsFiniteSet(Piece(n)) /\ Cardinality(Piece(n)) = Cardinality(P[n])
  <2>1. IsFiniteSet({n}) /\ Cardinality({n}) = 1
    BY FS_Singleton
  <2>2. Cardinality(P[n]) \in Nat
    BY <1>1, FS_CardinalityType
  <2> QED
    BY <1>1, <2>1, <2>2, FS_Product
<1>2. \A k \in Nat : Heap(P, k + 1) = Heap(P, k) \cup Piece(k + 1)
    BY DEF Heap
<1>3. IsFiniteSet(Heap(P, m))
  <2> DEFINE T == {k \in Nat : k <= m => IsFiniteSet(Heap(P, k))}
  <2>1. 0 \in T
    BY FS_EmptySet DEF Heap
  <2>2. ASSUME NEW k \in T, k + 1 <= m PROVE IsFiniteSet(Heap(P, k + 1))
    <3>1. k \in Nat /\ IsFiniteSet(Heap(P, k)) /\ k + 1 \in 1 .. m
      BY <2>2
    <3>2. IsFiniteSet(P[k + 1])
      BY <3>1
    <3> HIDE DEF Piece
    <3>3. IsFiniteSet(Piece(k + 1))
      BY <1>1, <3>2, Zenon
    <3>4. IsFiniteSet(Heap(P, k) \cup Piece(k + 1))
      BY <3>1, <3>3, FS_Union
    <3> QED
      BY <1>2, <3>1, <3>4
  <2>3. \A k \in Nat : k \in T => k + 1 \in T
    BY <2>2
  <2> HIDE DEF T
  <2>4. Nat \subseteq T
    BY <2>1, <2>3, AllNaturals
  <2> QED
    BY <2>4 DEF T
<1>4. Height(P, m) \in Nat
    BY <1>3, FS_CardinalityType DEF Height
<1>5. m = 0 => Height(P, m) = 0
    BY FS_EmptySet DEF Height, Heap
<1>6. ASSUME IsFiniteSet(P[m + 1])
      PROVE  Height(P, m + 1) = Height(P, m) + Cardinality(P[m + 1])
  <2>1. Heap(P, m) \cap Piece(m + 1) = {}
    BY DEF Heap
  <2>2. /\ IsFiniteSet(Piece(m + 1)) /\ Cardinality(Piece(m + 1)) = Cardinality(P[m + 1])
        /\ Cardinality(P[m + 1]) \in Nat
    BY <1>1, <1>6, FS_CardinalityType
  <2> HIDE DEF Piece
  <2>3. Cardinality(Heap(P, m) \cup Piece(m + 1))
          = Cardinality(Heap(P, m)) + Cardinality(Piece(m + 1)) - Cardinality({})
    BY <1>3, <2>1, <2>2, FS_Union
  <2>4. Cardinality({}) = 0
    BY FS_EmptySet
  <2>5. Heap(P, m + 1) = Heap(P, m) \cup Piece(m + 1)
    BY <1>2
  <2>6. Height(P, m + 1) = Height(P, m) + Cardinality(P[m + 1]) - 0
    BY <2>2, <2>3, <2>4, <2>5, Zenon DEF Height
  <2> QED
    BY <1>4, <2>2, <2>6
<1> QED
    BY <1>3, <1>4, <1>5, <1>6

(* Calls that have pushed the same have pushed as much.                     *)
LEMMA HeightSame ==
    ASSUME NEW P, NEW Q, NEW m \in Nat, \A n \in 1 .. m : P[n] = Q[n]
    PROVE  Height(P, m) = Height(Q, m)
<1>1. Heap(P, m) = Heap(Q, m)
    BY DEF Heap
<1> QED
    BY <1>1 DEF Height

(* How many calls have pushed their phis.                                   *)
LEMMA BegunIs ==
    ASSUME TypeOK
    PROVE  Len(calls) \in Nat /\ Begun \in 0 .. Len(calls) /\ (pc = "body" => Begun = Len(calls))
<1>1. Len(calls) \in Nat /\ (pc \in {"enter", "body"} => Len(calls) >= 1)
    BY EachCall, CallIs DEF TypeOK
<1> QED
    BY <1>1 DEF Begun

(* Each call has pushed finitely much, and the calls are those of Pending.  *)
LEMMA PushesAre ==
    ASSUME TypeOK, TablesInv, CallsInv, NEW x \in Vars
    PROVE  /\ \A n \in 1 .. Len(calls) : /\ IsFiniteSet(Pushes(x)[n])
                                         /\ Cardinality(Pushes(x)[n]) \in Nat
           /\ \A m \in 0 .. Len(calls) : Height(Pushes(x), m) \in Nat
           /\ Pending(x) = Heap(Pushes(x), Begun)
<1>1. Len(calls) \in Nat /\ Begun \in 0 .. Len(calls)
    BY BegunIs
<1>3. ASSUME NEW n \in 1 .. Len(calls)
      PROVE  IsFiniteSet(Pushes(x)[n]) /\ Cardinality(Pushes(x)[n]) \in Nat
  <2>1. Len(code[calls[n].bb]) \in Nat
    BY EachCall, LenProperties DEF TypeOK
  <2>2. Reached(n) \in Nat
    BY <2>1 DEF Reached, TypeOK
  <2> QED
    BY <2>2, PushedIs DEF Pushes
<1>4. ASSUME NEW m \in 0 .. Len(calls) PROVE Height(Pushes(x), m) \in Nat
    BY <1>1, <1>3, HeightStep
<1>5. Pending(x) = Heap(Pushes(x), Begun)
  <2>1. \A n \in 1 .. Begun : PushedBy(calls[n].bb, x, Reached(n)) = Pushes(x)[n]
    BY <1>1 DEF Pushes
  <2> QED
    BY <2>1 DEF Pending, Heap
<1> QED
    BY <1>3, <1>4, <1>5

(* More calls have pushed no less.                                          *)
LEMMA HeightGrows ==
    ASSUME TypeOK, TablesInv, CallsInv, NEW x \in Vars, NEW n \in 0 .. Begun
    PROVE  Height(Pushes(x), n) <= Height(Pushes(x), Begun)
<1>1. Begun \in 0 .. Len(calls) /\ Len(calls) \in Nat
    BY BegunIs
<1>2. \A m \in 1 .. Begun : IsFiniteSet(Pushes(x)[m])
    BY <1>1, PushesAre
<1>3. IsFiniteSet(Heap(Pushes(x), Begun))
    BY <1>1, <1>2, HeightStep
<1>4. Heap(Pushes(x), n) \subseteq Heap(Pushes(x), Begun)
    BY <1>1 DEF Heap
<1> QED
    BY <1>3, <1>4, FS_Subset DEF Height

(* What a call has pushed changes only with what it is made of.             *)
LEMMA PushesKept ==
    ASSUME NEW x, NEW n \in 1 .. Len(calls), n \in 1 .. Len(calls'),
           calls'[n].bb = calls[n].bb, code'[calls[n].bb] = code[calls[n].bb],
           phis' = phis, Reached(n)' = Reached(n)
    PROVE  Pushes(x)'[n] = Pushes(x)[n]
    BY DEF Pushes, PushedBy, Stores

(* Heights stay when the calls have pushed the same.                        *)
LEMMA HeightsKept ==
    ASSUME TypeOK, TablesInv, CallsInv, TypeOK', TablesInv', CallsInv',
           NEW x \in Vars, NEW b \in 0 .. Begun,
           \A n \in 1 .. b : Pushes(x)'[n] = Pushes(x)[n]
    PROVE  \A m \in 0 .. b : Height(Pushes(x), m)' = Height(Pushes(x), m)
<1>1. Begun \in 0 .. Len(calls) /\ Len(calls) \in Nat
    BY BegunIs
<1>2. ASSUME NEW m \in 0 .. b PROVE Height(Pushes(x)', m) = Height(Pushes(x), m)
  <2>1. m \in Nat /\ \A n \in 1 .. m : Pushes(x)'[n] = Pushes(x)[n]
    BY <1>1
  <2> QED
    BY <2>1, HeightSame
<1>3. \A m : Height(Pushes(x), m)' = Height(Pushes(x)', m)
    BY DEF Height, Heap
<1> QED
    BY <1>2, <1>3

(* Each step that pushes and pops nothing leaves the heights as they are.   *)
LEMMA HeightsSame ==
    ASSUME TypeOK, TablesInv, CallsInv, TypeOK', TablesInv', CallsInv', HeightInv,
           PlacePhis \/ StartRename \/ RenameLoad \/ FillPhis \/ AbortFill \/ Descend
             \/ RemoveAllocas \/ UNCHANGED vars
    PROVE  /\ HeightInv' /\ Begun' = Begun /\ stacks' = stacks
           /\ \A x \in Vars : \A m \in 0 .. Begun : Height(Pushes(x), m)' = Height(Pushes(x), m)
           /\ \A n \in 1 .. Begun : calls'[n].bb = calls[n].bb
<1>1. Begun \in 0 .. Len(calls) /\ Len(calls) \in Nat /\ stacks' = stacks
    BY BegunIs DEF PlacePhis, StartRename, RenameLoad, FillPhis, AbortFill, Descend,
       RemoveAllocas, vars, passVars
<1>2. /\ Begun' = Begun
      /\ \A n \in 1 .. Begun : calls'[n].bb = calls[n].bb
      /\ \A x \in Vars : \A n \in 1 .. Begun : Pushes(x)'[n] = Pushes(x)[n]
  <2>1. CASE PlacePhis
    <3>1. calls = << >> /\ calls' = << >> /\ pc = "phi" /\ pc' = "phi"
      BY <2>1 DEF PlacePhis, CallsInv
    <3> QED
      BY <3>1 DEF Begun
  <2>2. CASE StartRename
    <3>1. calls = << >> /\ Len(calls') = 1 /\ pc = "phi" /\ pc' = "enter"
      BY <2>2 DEF StartRename, CallsInv
    <3> QED
      BY <3>1 DEF Begun
  <2>3. CASE RenameLoad
    <3> DEFINE i == code[Current][at]
    <3>1. /\ pc = "body" /\ pc' = "body" /\ UNCHANGED <<calls, code, phis>> /\ at' = at + 1
          /\ i.op = "load" /\ at \in Nat \ {0} /\ Current = calls[Len(calls)].bb
      BY <2>3 DEF RenameLoad, TypeOK, Current
    <3>2. Begun' = Begun /\ Begun = Len(calls)
      BY <3>1 DEF Begun
    <3>3. ASSUME NEW n \in 1 .. Begun, n # Len(calls), NEW x \in Vars
          PROVE  Pushes(x)'[n] = Pushes(x)[n]
      <4>1. Reached(n)' = Reached(n)
        BY <3>1, <3>3 DEF Reached
      <4> QED
        BY <3>1, <3>2, <4>1, PushesKept
    <3>4. ASSUME NEW x \in Vars PROVE PushedBy(Current, x, at) = PushedBy(Current, x, at - 1)
      BY <3>1 DEF PushedBy, Stores
    <3>5. ASSUME NEW x \in Vars, Begun # 0 PROVE Pushes(x)'[Len(calls)] = Pushes(x)[Len(calls)]
      <4>1. Pushes(x)'[Len(calls)] = PushedBy(Current, x, at)
        <5>1. Len(calls) \in 1 .. Len(calls') /\ Reached(Len(calls))' = (at + 1) - 1
          BY <1>1, <3>1, <3>2, <3>5 DEF Reached
        <5>2. (at + 1) - 1 = at
          BY <3>1
        <5>3. \A n : PushedBy(Current, x, n)' = PushedBy(Current, x, n)
          BY <3>1 DEF PushedBy, Stores, Current
        <5>4. Pushes(x)'[Len(calls)] = PushedBy(Current, x, Reached(Len(calls)))'
          BY <3>1, <5>1 DEF Pushes, Current
        <5> QED
          BY <5>1, <5>2, <5>3, <5>4
      <4>2. Pushes(x)[Len(calls)] = PushedBy(Current, x, at - 1)
        BY <1>1, <3>1, <3>2, <3>5 DEF Pushes, Reached
      <4> QED
        BY <3>4, <4>1, <4>2
    <3> QED
      BY <1>1, <3>1, <3>2, <3>3, <3>5
  <2>4. CASE FillPhis \/ AbortFill
    <3>1. /\ pc = "body" /\ pc' \in {"down", "abort"} /\ UNCHANGED <<calls, code, phis>>
          /\ at > Len(code[Current])
      BY <2>4 DEF FillPhis, AbortFill
    <3>2. Begun' = Begun /\ Begun = Len(calls)
      BY <3>1 DEF Begun
    <3>3. at - 1 = Len(code[calls[Len(calls)].bb])
      <4>1. code[Current] \in Seq(Instrs) /\ at \in Nat
        BY <3>1, CallIs DEF TypeOK
      <4> QED
        BY <3>1, <4>1, LenProperties DEF CallsInv, Current
    <3>4. ASSUME NEW n \in 1 .. Begun PROVE Reached(n)' = Reached(n)
      BY <3>1, <3>3 DEF Reached
    <3> QED
      BY <3>1, <3>2, <3>4, PushesKept
  <2>5. CASE Descend
    <3>1. /\ pc = "down" /\ pc' = "enter" /\ UNCHANGED <<code, phis>> /\ Len(calls') = Len(calls) + 1
          /\ \A n \in 1 .. Len(calls) : calls'[n].bb = calls[n].bb
      BY <2>5, AfterDescend DEF Descend
    <3>2. Begun' = Begun /\ Begun = Len(calls)
      BY <1>1, <3>1 DEF Begun
    <3>3. ASSUME NEW n \in 1 .. Begun PROVE Reached(n)' = Reached(n)
      BY <1>1, <3>1, <3>2 DEF Reached
    <3> QED
      BY <1>1, <3>1, <3>2, <3>3, PushesKept
  <2>6. CASE RemoveAllocas \/ UNCHANGED vars
    <3>1. /\ UNCHANGED <<calls, code, phis, at>>
          /\ pc' = pc \/ (pc = "alloca" /\ pc' = "done")
      BY <2>6 DEF RemoveAllocas, vars, passVars
    <3> QED
      BY <3>1, <1>1, PushesKept DEF Begun, Reached
  <2> QED
    BY <2>1, <2>2, <2>3, <2>4, <2>5, <2>6
<1>3. \A x \in Vars : \A m \in 0 .. Begun : Height(Pushes(x), m)' = Height(Pushes(x), m)
  <2> SUFFICES ASSUME NEW x \in Vars
               PROVE  \A m \in 0 .. Begun : Height(Pushes(x), m)' = Height(Pushes(x), m)
    OBVIOUS
  <2>1. Begun \in 0 .. Begun /\ \A n \in 1 .. Begun : Pushes(x)'[n] = Pushes(x)[n]
    BY <1>1, <1>2
  <2> QED
    BY <2>1, HeightsKept
<1>4. HeightInv'
  <2> SUFFICES ASSUME NEW x \in Vars PROVE Len(stacks[x])' = Height(Pushes(x), Begun)'
    BY DEF HeightInv
  <2>1. Height(Pushes(x), Begun)' = Height(Pushes(x)', Begun)
    BY <1>2 DEF Height, Heap
  <2>2. Begun \in 0 .. Begun
    BY <1>1
  <2> QED
    BY <1>1, <1>3, <2>1, <2>2 DEF HeightInv
<1> QED
    BY <1>1, <1>2, <1>3, <1>4

(* Entering a block pushes its phis, and what lies below stays.             *)
LEMMA HeightsEnter ==
    ASSUME TypeOK, TablesInv, CallsInv, TypeOK', TablesInv', CallsInv', HeightInv, EnterBlock
    PROVE  /\ HeightInv' /\ Begun' = Begun + 1 /\ Begun' = Len(calls) /\ calls' = calls
           /\ \A x \in Vars : /\ \A m \in 0 .. Begun : Height(Pushes(x), m)' = Height(Pushes(x), m)
                              /\ Len(stacks[x]) = Height(Pushes(x), Begun)
                              /\ stacks'[x] = IF x \in PhisOf(Current)
                                              THEN Append(stacks[x], <<Current, x>>)
                                              ELSE stacks[x]
<1>1. /\ pc = "enter" /\ pc' = "body" /\ UNCHANGED <<calls, code, phis>> /\ at' = 1
      /\ Current = calls[Len(calls)].bb
    BY DEF EnterBlock, Current
<1>2. /\ Begun' = Begun + 1 /\ Begun' = Len(calls) /\ Begun \in Nat /\ Len(calls) \in Nat
      /\ Current \in Blocks
    BY <1>1, BegunIs, CallIs DEF Begun, TypeOK
<1> SUFFICES ASSUME NEW x \in Vars
             PROVE  /\ Len(stacks[x])' = Height(Pushes(x), Begun)'
                    /\ \A m \in 0 .. Begun : Height(Pushes(x), m)' = Height(Pushes(x), m)
                    /\ Len(stacks[x]) = Height(Pushes(x), Begun)
                    /\ stacks'[x] = IF x \in PhisOf(Current)
                                    THEN Append(stacks[x], <<Current, x>>)
                                    ELSE stacks[x]
    BY <1>1, <1>2 DEF HeightInv
<1>3. \A n \in 1 .. Begun : Pushes(x)'[n] = Pushes(x)[n]
  <2>1. ASSUME NEW n \in 1 .. Begun PROVE Reached(n)' = Reached(n)
    BY <1>1, <1>2 DEF Reached
  <2> QED
    BY <1>1, <1>2, <2>1, PushesKept
<1>4. \A m \in 0 .. Begun : Height(Pushes(x), m)' = Height(Pushes(x), m)
  <2>1. Begun \in 0 .. Begun
    BY <1>2
  <2> QED
    BY <1>3, <2>1, HeightsKept
<1>5. Pushes(x)'[Len(calls)] = {k \in {0} : x \in PhisOf(Current)}
    BY <1>1, <1>2 DEF Pushes, Reached, PushedBy, PhisOf
<1>6. stacks'[x] = IF x \in PhisOf(Current) THEN Append(stacks[x], <<Current, x>>) ELSE stacks[x]
    BY DEF EnterBlock
<1>7. Len(stacks'[x]) = Len(stacks[x]) + Cardinality(Pushes(x)'[Len(calls)])
  <2>1. stacks[x] \in Seq(Vals) /\ <<Current, x>> \in Vals /\ Len(stacks[x]) \in Nat
    BY <1>2, LenProperties DEF TypeOK, Vals, Phis
  <2>2. CASE x \in PhisOf(Current)
    <3>1. Cardinality(Pushes(x)'[Len(calls)]) = 1
      BY <1>5, <2>2, FS_Singleton
    <3> QED
      BY <1>6, <2>1, <2>2, <3>1, AppendProperties
  <2>3. CASE x \notin PhisOf(Current)
    <3>1. Cardinality(Pushes(x)'[Len(calls)]) = 0
      BY <1>5, <2>3, FS_EmptySet
    <3> QED
      BY <1>6, <2>1, <2>3, <3>1
  <2> QED
    BY <2>2, <2>3
<1>8. Height(Pushes(x)', Begun + 1) = Height(Pushes(x)', Begun) + Cardinality(Pushes(x)'[Begun + 1])
  <2>1. \A n \in 1 .. Len(calls) : IsFiniteSet(Pushes(x)[n])
    BY PushesAre
  <2>2. \A n \in 1 .. Begun : IsFiniteSet(Pushes(x)'[n])
    BY <1>2, <1>3, <2>1
  <2>3. IsFiniteSet(Pushes(x)'[Begun + 1])
    <3>1. IsFiniteSet({0}) /\ Pushes(x)'[Begun + 1] \subseteq {0}
      BY <1>2, <1>5, FS_Singleton
    <3> QED
      BY <3>1, FS_Subset
  <2> QED
    BY <1>2, <2>2, <2>3, HeightStep
<1>9. Len(stacks[x]) = Height(Pushes(x), Begun) /\ Begun \in 0 .. Begun
    BY <1>2 DEF HeightInv
<1>10. /\ Height(Pushes(x), Begun)' = Height(Pushes(x)', Begun + 1)
       /\ Height(Pushes(x)', Begun) = Height(Pushes(x), Begun)
    BY <1>2, <1>4, <1>9 DEF Height, Heap
<1> QED
    BY <1>1, <1>2, <1>4, <1>6, <1>7, <1>8, <1>9, <1>10

(* A store pushes one value.                                                *)
LEMMA HeightsStore ==
    ASSUME TypeOK, TablesInv, CallsInv, TypeOK', TablesInv', CallsInv', HeightInv, RenameStore
    PROVE  LET i == code[Current][at] IN
           /\ HeightInv' /\ Begun' = Begun /\ Begun = Len(calls) /\ calls' = calls
           /\ \A x \in Vars : \A m \in 0 .. Begun - 1 : Height(Pushes(x), m)' = Height(Pushes(x), m)
           /\ \A x \in Vars : Height(Pushes(x), Begun)'
                                 = Height(Pushes(x), Begun) + (IF x = i.var THEN 1 ELSE 0)
           /\ \A x \in Vars : Len(stacks[x]) = Height(Pushes(x), Begun)
           /\ stacks' = [stacks EXCEPT ![i.var] = Append(stacks[i.var], Operand(i.val))]
<1> DEFINE i == code[Current][at]
           L == Len(calls)
<1>1. /\ pc = "body" /\ pc' = "body" /\ UNCHANGED <<calls, code, phis>> /\ at' = at + 1
      /\ at \in Nat \ {0} /\ Current = calls[L].bb /\ i.op = "store"
      /\ stacks' = [stacks EXCEPT ![i.var] = Append(stacks[i.var], Operand(i.val))]
    BY DEF RenameStore, TypeOK, Current
<1>2. /\ Begun' = L /\ Begun = L /\ L \in Nat \ {0} /\ Current \in Blocks
      /\ i.var \in Vars /\ i.val \in Names
  <2>1. calls # << >> /\ at <= Len(code[Current])
    <3>1. at <= Len(code[Current])
      BY DEF RenameStore
    <3>2. calls # << >>
      BY <1>1 DEF CallsInv
    <3> QED
      BY <3>1, <3>2
  <2>2. L \in Nat \ {0} /\ Current \in Blocks /\ i \in Instrs
    BY <2>1, CallIs, InstructionIs, EachCall
  <2>3. Begun' = L /\ Begun = L
    BY <1>1 DEF Begun
  <2> QED
    BY <2>2, <2>3 DEF Instrs
<1> HIDE DEF L
<1> SUFFICES ASSUME NEW x \in Vars
             PROVE  /\ Len(stacks[x])' = Height(Pushes(x), Begun)'
                    /\ \A m \in 0 .. L - 1 : Height(Pushes(x), m)' = Height(Pushes(x), m)
                    /\ Height(Pushes(x), Begun)'
                         = Height(Pushes(x), Begun) + (IF x = i.var THEN 1 ELSE 0)
                    /\ Len(stacks[x]) = Height(Pushes(x), Begun)
    BY <1>1, <1>2 DEF HeightInv, L
<1> HIDE DEF i
<1>3. \A n \in 1 .. L - 1 : Pushes(x)'[n] = Pushes(x)[n]
  <2> SUFFICES ASSUME NEW n \in 1 .. L - 1 PROVE Pushes(x)'[n] = Pushes(x)[n]
    OBVIOUS
  <2>1. n # L /\ n \in 1 .. Len(calls) /\ calls' = calls /\ code' = code /\ phis' = phis
    BY <1>1, <1>2 DEF L
  <2>2. Reached(n)' = Reached(n)
    BY <2>1 DEF Reached, L
  <2> QED
    BY <2>1, <2>2, PushesKept
<1>4. \A m \in 0 .. L - 1 : Height(Pushes(x), m)' = Height(Pushes(x), m)
  <2>1. L - 1 \in 0 .. Begun
    BY <1>2
  <2> QED
    BY <1>3, <2>1, HeightsKept
<1>5. Pushes(x)[L] = PushedBy(Current, x, at - 1)
  <2>1. L \in 1 .. Len(calls) /\ Reached(L) = at - 1 /\ Current = calls[L].bb
    BY <1>1, <1>2 DEF Reached, L
  <2> QED
    BY <2>1 DEF Pushes
<1>6. Pushes(x)'[L] = PushedBy(Current, x, at)
  <2>1. L \in 1 .. Len(calls') /\ calls'[L].bb = Current /\ Reached(L)' = (at + 1) - 1
    BY <1>1, <1>2 DEF Reached, L
  <2>2. (at + 1) - 1 = at
    BY <1>1
  <2>3. Pushes(x)'[L] = PushedBy(Current, x, Reached(L))'
    <3>1. \A n \in 1 .. Len(calls') : Pushes(x)'[n] = PushedBy(calls[n].bb, x, Reached(n))'
      BY DEF Pushes
    <3>2. L' = L /\ Current' = Current
      BY <1>1 DEF L, Current
    <3> QED
      BY <2>1, <3>1, <3>2
  <2>4. \A n : PushedBy(Current, x, n)' = PushedBy(Current, x, n)
    BY <1>1 DEF PushedBy, Stores, Current
  <2> QED
    BY <2>1, <2>2, <2>3, <2>4
<1>7. /\ PushedBy(Current, x, at) = PushedBy(Current, x, at - 1) \cup (IF x = i.var THEN {at} ELSE {})
      /\ at \notin PushedBy(Current, x, at - 1)
  <2>1. Stores(code[Current][at], x) <=> x = i.var
    BY <1>1 DEF Stores, i
  <2> QED
    BY <1>1, <2>1 DEF PushedBy
<1>8. /\ IsFiniteSet(Pushes(x)[L]) /\ IsFiniteSet(Pushes(x)'[L])
      /\ Cardinality(Pushes(x)[L]) \in Nat
      /\ Cardinality(Pushes(x)'[L]) = Cardinality(Pushes(x)[L]) + (IF x = i.var THEN 1 ELSE 0)
  <2>1. at \in Nat /\ at - 1 \in Nat
    BY <1>1
  <2>2. /\ IsFiniteSet(PushedBy(Current, x, at - 1)) /\ IsFiniteSet(PushedBy(Current, x, at))
        /\ Cardinality(PushedBy(Current, x, at - 1)) \in Nat
    BY <2>1, PushedIs
  <2>3. CASE x = i.var
    <3>1. PushedBy(Current, x, at) = PushedBy(Current, x, at - 1) \cup {at}
      BY <1>7, <2>3
    <3>2. Cardinality(PushedBy(Current, x, at - 1) \cup {at}) = Cardinality(PushedBy(Current, x, at - 1)) + 1
      BY <1>7, <2>2, FS_AddElement
    <3> QED
      BY <1>5, <1>6, <2>2, <2>3, <3>1, <3>2
  <2>4. CASE x # i.var
    BY <1>5, <1>6, <1>7, <2>2, <2>4
  <2> QED
    BY <2>3, <2>4
<1>9. /\ Height(Pushes(x)', L) = Height(Pushes(x)', L - 1) + Cardinality(Pushes(x)'[L])
      /\ Height(Pushes(x), L) = Height(Pushes(x), L - 1) + Cardinality(Pushes(x)[L])
      /\ Height(Pushes(x), L - 1) \in Nat
  <2>1. \A n \in 1 .. L : IsFiniteSet(Pushes(x)[n])
    BY PushesAre DEF L
  <2>2. \A n \in 1 .. L : IsFiniteSet(Pushes(x)'[n])
    BY <1>2, <1>3, <1>8, <2>1
  <2>3. PICK k \in Nat : L = k + 1 /\ k = L - 1
    BY <1>2
  <2>4. /\ \A n \in 1 .. k : IsFiniteSet(Pushes(x)[n]) /\ IsFiniteSet(Pushes(x)'[n])
        /\ IsFiniteSet(Pushes(x)[k + 1]) /\ IsFiniteSet(Pushes(x)'[k + 1])
    BY <2>1, <2>2, <2>3
  <2>5. Height(Pushes(x)', k + 1) = Height(Pushes(x)', k) + Cardinality(Pushes(x)'[k + 1])
    BY <2>4, HeightStep
  <2>6. /\ Height(Pushes(x), k + 1) = Height(Pushes(x), k) + Cardinality(Pushes(x)[k + 1])
        /\ Height(Pushes(x), k) \in Nat
    BY <2>4, HeightStep
  <2> QED
    BY <2>3, <2>5, <2>6
<1>10. Height(Pushes(x)', L - 1) = Height(Pushes(x), L - 1)
  <2>1. L - 1 \in 0 .. L - 1
    BY <1>2
  <2> QED
    BY <1>4, <2>1 DEF Height, Heap
<1>11. Height(Pushes(x), Begun)' = Height(Pushes(x)', L)
    BY <1>1, <1>2 DEF Height, Heap, L
<1>12. Height(Pushes(x), Begun)' = Height(Pushes(x), Begun) + (IF x = i.var THEN 1 ELSE 0)
    BY <1>2, <1>8, <1>9, <1>10, <1>11
<1>13. Len(stacks[x]) = Height(Pushes(x), Begun)
    BY DEF HeightInv
<1>14. Len(stacks'[x]) = Len(stacks[x]) + (IF x = i.var THEN 1 ELSE 0)
  <2>1. stacks[x] \in Seq(Vals) /\ Len(stacks[x]) \in Nat /\ Operand(i.val) \in Vals
    BY <1>2, LenProperties DEF TypeOK, Operand
  <2> HIDE DEF i
  <2>2. CASE x = i.var
    BY <1>1, <2>1, <2>2, AppendProperties DEF TypeOK
  <2>3. CASE x # i.var
    BY <1>1, <1>2, <2>1, <2>3 DEF TypeOK
  <2> QED
    BY <2>2, <2>3
<1> QED
    BY <1>4, <1>12, <1>13, <1>14

(* A call that returns pops what it has pushed: vectors are long enough.    *)
LEMMA HeightsLeave ==
    ASSUME TypeOK, TablesInv, CallsInv, TypeOK', TablesInv', CallsInv', HeightInv, Leave
    PROVE  /\ HeightInv' /\ Begun' = Begun - 1
           /\ \A n \in 1 .. Begun' : n \in 1 .. Begun /\ calls'[n].bb = calls[n].bb
           /\ \A x \in Vars : \A m \in 0 .. Begun' :
                 /\ Height(Pushes(x), m)' = Height(Pushes(x), m)
                 /\ Height(Pushes(x), m) \in Nat
           /\ \A x \in Vars : /\ Len(stacks'[x]) <= Len(stacks[x])
                              /\ \A k \in 1 .. Len(stacks'[x]) : stacks'[x][k] = stacks[x][k]
<1> DEFINE L == Len(calls)
<1>1. /\ pc = "down" /\ UNCHANGED phis /\ Current = calls[L].bb
      /\ L \in Nat /\ L >= 1 /\ Len(calls') = L - 1 /\ pc' \in {"down", "alloca"}
      /\ \A n \in 1 .. L - 1 : calls'[n] = calls[n]
      /\ code' = [code EXCEPT ![Current] = Undeleted(@)]
      /\ stacks' = [x \in Vars |-> SubSeq(stacks[x], 1, Len(stacks[x]) - Pushed(Current, x))]
      /\ IsBranch(Succ, calls)
    BY AfterLeave DEF Leave, Current, CallsInv
<1>2. Begun = L /\ Begun' = L - 1
    BY <1>1 DEF Begun
<1>3. \A n \in 1 .. L - 1 : code'[calls[n].bb] = code[calls[n].bb]
  <2>1. ASSUME NEW n \in 1 .. L - 1 PROVE calls[n].bb # Current /\ calls[n].bb \in Blocks
    BY <1>1, EachCall DEF IsBranch, StrictlyDominates
  <2> QED
    BY <1>1, <2>1 DEF TypeOK
<1> HIDE DEF L
<1>0. Begun' = Begun - 1 /\ \A n \in 1 .. Begun' : n \in 1 .. Begun /\ calls'[n].bb = calls[n].bb
    BY <1>1, <1>2
<1> SUFFICES ASSUME NEW x \in Vars
             PROVE  /\ Len(stacks[x])' = Height(Pushes(x), Begun)'
                    /\ \A m \in 0 .. Begun' : Height(Pushes(x), m)' = Height(Pushes(x), m)
                    /\ \A m \in 0 .. Begun' : Height(Pushes(x), m) \in Nat
                    /\ Len(stacks'[x]) <= Len(stacks[x])
                    /\ \A k \in 1 .. Len(stacks'[x]) : stacks'[x][k] = stacks[x][k]
    BY <1>0 DEF HeightInv
<1>4. \A n \in 1 .. L - 1 : Pushes(x)'[n] = Pushes(x)[n]
  <2>1. ASSUME NEW n \in 1 .. L - 1 PROVE Reached(n)' = Reached(n)
    BY <1>1, <1>3 DEF Reached, L
  <2> QED
    BY <1>1, <1>3, <2>1, PushesKept DEF L
<1>5. \A m \in 0 .. L - 1 : Height(Pushes(x), m)' = Height(Pushes(x), m)
  <2>1. L - 1 \in 0 .. Begun
    BY <1>1, <1>2
  <2> QED
    BY <1>4, <2>1, HeightsKept
<1>6. /\ \A n \in 1 .. L : IsFiniteSet(Pushes(x)[n]) /\ Cardinality(Pushes(x)[n]) \in Nat
      /\ \A m \in 0 .. L : Height(Pushes(x), m) \in Nat
    BY PushesAre DEF L
<1>7. Pushes(x)[L] = PushedBy(Current, x, Len(code[Current]))
    BY <1>1 DEF Pushes, Reached, L
<1>8. Pushed(Current, x) = Cardinality(Pushes(x)[L]) /\ Pushed(Current, x) \in Nat
    BY <1>1, <1>6, <1>7 DEF Pushed
<1>9. Height(Pushes(x), L) = Height(Pushes(x), L - 1) + Pushed(Current, x)
  <2>1. PICK k \in Nat : L = k + 1 /\ k = L - 1
    BY <1>1
  <2>2. /\ \A n \in 1 .. k : IsFiniteSet(Pushes(x)[n])
        /\ IsFiniteSet(Pushes(x)[k + 1])
    BY <1>6, <2>1
  <2>3. Height(Pushes(x), k + 1) = Height(Pushes(x), k) + Cardinality(Pushes(x)[k + 1])
    BY <2>2, HeightStep
  <2> QED
    BY <1>8, <2>1, <2>3
<1>10. Len(stacks[x]) = Height(Pushes(x), L)
    BY <1>2 DEF HeightInv
<1>11. /\ Len(stacks'[x]) = Height(Pushes(x), L - 1)
       /\ Len(stacks'[x]) <= Len(stacks[x])
       /\ \A k \in 1 .. Len(stacks'[x]) : stacks'[x][k] = stacks[x][k]
  <2>1. stacks[x] \in Seq(Vals) /\ Height(Pushes(x), L - 1) \in Nat
    <3>1. L - 1 \in 0 .. L
      BY <1>1
    <3> QED
      BY <1>6, <3>1 DEF TypeOK
  <2>2. stacks'[x] = SubSeq(stacks[x], 1, Len(stacks[x]) - Pushed(Current, x))
    BY <1>1
  <2>3. Pushed(Current, x) <= Len(stacks[x])
    BY <1>8, <1>9, <1>10, <2>1
  <2>4. /\ Len(stacks'[x]) = Len(stacks[x]) - Pushed(Current, x)
        /\ \A k \in 1 .. Len(stacks[x]) - Pushed(Current, x) : stacks'[x][k] = stacks[x][k]
    BY <1>8, <2>1, <2>2, <2>3, Popped
  <2> QED
    BY <1>8, <1>9, <1>10, <2>1, <2>4
<1>12. Height(Pushes(x), Begun)' = Height(Pushes(x), L - 1)
  <2>1. L - 1 \in 0 .. L - 1
    BY <1>1
  <2> QED
    BY <1>2, <1>5, <2>1 DEF Height, Heap
<1>13. \A m \in 0 .. L - 1 : m \in 0 .. L
    BY <1>1
<1> QED
    BY <1>2, <1>5, <1>6, <1>11, <1>12, <1>13

-----------------------------------------------------------------------------
(****************************************************************************)
(* The stack discipline.                                                    *)
(****************************************************************************)

WalkInv == TypeOK /\ TablesInv /\ CallsInv /\ HeightInv

(* Before the walk there are no calls, and the stacks are empty.            *)
LEMMA WalkInit == Init => WalkInv
<1> SUFFICES ASSUME Init PROVE WalkInv
    OBVIOUS
<1>1. TypeOK /\ TablesInv
    BY TypeInit DEF Init, PassInit, TablesInv, Succ
<1>2. calls = << >> /\ pc = "phi" /\ code = prog.code
    BY DEF Init, PassInit
<1>3. CallsInv
    BY <1>2 DEF CallsInv, IsBranch, CodeKept
<1>4. HeightInv
  <2> SUFFICES ASSUME NEW x \in Vars PROVE Len(stacks[x]) = Height(Pushes(x), Begun)
    BY DEF HeightInv
  <2>1. Begun = 0 /\ Len(stacks[x]) = 0
    BY <1>2 DEF Begun, Init, PassInit
  <2>2. Heap(Pushes(x), Begun) = {}
    BY <2>1 DEF Heap
  <2> QED
    BY <2>1, <2>2, FS_EmptySet DEF Height
<1> QED
    BY <1>1, <1>3, <1>4 DEF WalkInv

(* Only entering a block changes which blocks have not been entered.        *)
LEMMA CallsStep ==
    ASSUME TypeOK, TypeOK', TablesInv, CallsInv, [Pass]_vars
    PROVE  /\ CallsInv' /\ TablesInv' /\ prog' = prog /\ Succ' = Succ /\ df' = df
           /\ ~ EnterBlock => Unseen' = Unseen
           /\ EnterBlock => /\ Unseen' = Unseen \ {Current} /\ Current \in Unseen
                            /\ Current' = Current
<1>1. TablesInv' /\ prog' = prog /\ Succ' = Succ /\ df' = df
    BY TablesKept
<1>2. CASE PlacePhis \/ UNCHANGED vars
  <2>1. UNCHANGED <<prog, calls, code>> /\ pc' = pc /\ at' = at
    BY <1>2 DEF PlacePhis, vars, passVars
  <2>2. ~ EnterBlock
    BY <2>1 DEF EnterBlock
  <2> QED
    BY <1>1, <2>1, <2>2, CallsSame
<1>3. CASE StartRename
    BY <1>1, <1>3, CallsStart DEF StartRename, EnterBlock
<1>4. CASE EnterBlock
    BY <1>1, <1>4, CallsEnter
<1>5. CASE RenameLoad \/ RenameStore
  <2>1. /\ UNCHANGED <<prog, calls, code>> /\ pc' = pc /\ pc = "body"
        /\ at <= Len(code[Current]) /\ at' = at + 1
    BY <1>5 DEF RenameLoad, RenameStore
  <2>2. ~ EnterBlock
    BY <2>1 DEF EnterBlock
  <2> QED
    BY <1>1, <2>1, <2>2, CallsSame
<1>7. CASE FillPhis \/ AbortFill
  <2>1. /\ UNCHANGED <<prog, calls, code>> /\ pc = "body"
        /\ at > Len(code[Current]) /\ at' = at /\ pc' \in {"down", "abort"}
    BY <1>7 DEF FillPhis, AbortFill
  <2>2. ~ EnterBlock
    BY <2>1 DEF EnterBlock
  <2> QED
    BY <1>1, <2>1, <2>2, CallsSame
<1>9. CASE Descend
    BY <1>1, <1>9, CallsDescend DEF Descend, EnterBlock
<1>10. CASE Leave
    BY <1>1, <1>10, CallsLeave DEF Leave, EnterBlock
<1>11. CASE RemoveAllocas
  <2>1. UNCHANGED <<prog, calls, code>> /\ pc = "alloca" /\ pc' = "done"
    BY <1>11 DEF RemoveAllocas
  <2>2. ~ EnterBlock
    BY <2>1 DEF EnterBlock
  <2> QED
    BY <1>1, <2>1, <2>2, CallsSame
<1> QED
    BY <1>2, <1>3, <1>4, <1>5, <1>7, <1>9, <1>10, <1>11 DEF Pass, Rename

(* Every step keeps it.                                                     *)
LEMMA WalkStep == WalkInv /\ [Pass]_vars => WalkInv'
<1> SUFFICES ASSUME WalkInv, [Pass]_vars PROVE WalkInv'
    OBVIOUS
<1>1. TypeOK /\ TypeOK' /\ TablesInv /\ CallsInv /\ HeightInv
    BY TypeStep DEF WalkInv
<1>2. CallsInv' /\ TablesInv'
    BY <1>1, CallsStep
<1>3. HeightInv'
  <2>1. CASE EnterBlock
    BY <1>1, <1>2, <2>1, HeightsEnter
  <2>2. CASE RenameStore
    BY <1>1, <1>2, <2>2, HeightsStore
  <2>3. CASE Leave
    BY <1>1, <1>2, <2>3, HeightsLeave
  <2>4. CASE ~ (EnterBlock \/ RenameStore \/ Leave)
    <3>1. PlacePhis \/ StartRename \/ RenameLoad \/ FillPhis \/ AbortFill \/ Descend
             \/ RemoveAllocas \/ UNCHANGED vars
      BY <2>4 DEF Pass, Rename
    <3> QED
      BY <1>1, <1>2, <3>1, HeightsSame
  <2> QED
    BY <2>1, <2>2, <2>3, <2>4
<1> QED
    BY <1>1, <1>2, <1>3 DEF WalkInv

(* The stack of a variable holds what the calls in progress have pushed and *)
(* nothing else, for every program: the walk visits each block once, and    *)
(* the pops of a call are its pushes.                                       *)
THEOREM StackDiscipline == Spec => []StacksFollowCalls
<1>1. WalkInv => StacksFollowCalls
  <2> SUFFICES ASSUME WalkInv PROVE StacksFollowCalls
    OBVIOUS
  <2>1. ASSUME NEW x \in Vars PROVE Len(stacks[x]) = Cardinality(Pending(x))
    BY PushesAre DEF WalkInv, HeightInv, Height
  <2> QED
    BY <2>1 DEF StacksFollowCalls, WalkInv
<1> QED
    BY <1>1, WalkInit, WalkStep, PTL DEF Spec

-----------------------------------------------------------------------------
(****************************************************************************)
(* What the walk puts in the place of the loads.                            *)
(****************************************************************************)

(* The instructions of the program that the walk has treated.               *)
Done(b, k) == b \notin Unseen /\ ~ (pc = "body" /\ b = Current /\ at <= k)

(* The names whose load has been treated, and those that are not replaced   *)
(* and will not be, since they are no load or their load has been treated.  *)
Treated == {n \in Names : \E b \in Blocks : \E k \in 1 .. Len(prog.code[b]) :
               LoadOf(prog.code[b][k], n) /\ Done(b, k)}
Fresh   == {n \in Names : /\ subst[n] = n
                          /\ \A b \in Blocks : \A k \in 1 .. Len(prog.code[b]) :
                                LoadOf(prog.code[b][k], n) => Done(b, k)}

(* Only loads that were treated are replaced, and what replaces them, like  *)
(* all that is on the stacks, is not replaced itself nor ever will be.      *)
FreshInv ==
    /\ \A n \in Names : subst[n] # n =>
          n \in Treated /\ (subst[n] \in Names => subst[n] \in Fresh)
    /\ \A x \in Vars : \A k \in 1 .. Len(stacks[x]) :
          stacks[x][k] \in Names => stacks[x][k] \in Fresh

(* A phi that replaces a load dominates it, a phi on a stack dominates the  *)
(* block of the call that pushed it, and a phi that is an operand dominates *)
(* the block the operand comes from.                                        *)
LoadsDominated ==
    \A n \in Names : subst[n] \in Phis =>
        \A b \in Blocks : \A k \in 1 .. Len(prog.code[b]) :
            LoadOf(prog.code[b][k], n) => Dominates(Succ, subst[n][1], b)

CallsDominated ==
    \A x \in Vars : \A n \in 1 .. Begun : \A k \in 1 .. Len(stacks[x]) :
        k <= Height(Pushes(x), n) /\ stacks[x][k] \in Phis
            => Dominates(Succ, stacks[x][k][1], calls[n].bb)

OperandsDominated ==
    \A f \in Phis, p \in Blocks :
        args[f][p] \in Phis => Dominates(Succ, args[f][p][1], p)

DominanceInv == LoadsDominated /\ CallsDominated /\ OperandsDominated

(* The programs are as the builder makes them.                              *)
LEMMA ProgramIs ==
    ASSUME TablesInv
    PROVE  IsSsa(prog) /\ prog.code \in [Blocks -> Seq(Instrs)] /\ IsFunctionCfg(Succ)
    BY ProgramsAssumption DEF TablesInv, Succ

(* While re_name is in a block, the block is as the program has it.         *)
LEMMA InBody ==
    ASSUME TypeOK, TablesInv, CallsInv, pc = "body"
    PROVE  /\ Current \in Blocks /\ Current \notin Unseen /\ calls # << >>
           /\ Len(calls) \in 1 .. Len(calls) /\ Current = calls[Len(calls)].bb
           /\ code[Current] = prog.code[Current] /\ Len(code[Current]) \in Nat
           /\ at \in Nat \ {0}
           /\ at <= Len(code[Current]) =>
                 at \in 1 .. Len(prog.code[Current]) /\ code[Current][at] \in Instrs
<1>1. calls # << >> /\ at \in Nat \ {0}
    BY DEF TypeOK
<1>2. Current \in Blocks /\ Len(calls) \in 1 .. Len(calls) /\ Current = calls[Len(calls)].bb
    BY <1>1, CallIs DEF Current
<1>3. Current \notin Unseen
    BY <1>2, CallsAreSeen DEF Unseen
<1>4. code[Current] = prog.code[Current] /\ Len(code[Current]) \in Nat
    BY <1>2, LenProperties DEF CallsInv, CodeKept, TypeOK
<1>5. at <= Len(code[Current]) => at \in 1 .. Len(code[Current]) /\ code[Current][at] \in Instrs
    BY <1>1, InstructionIs
<1> QED
    BY <1>1, <1>2, <1>3, <1>4, <1>5

(* The blocks that dominate the block of a call have been entered.          *)
LEMMA DominatorsAreSeen ==
    ASSUME TypeOK, TablesInv, CallsInv, NEW n \in 1 .. Len(calls),
           NEW b \in Blocks, Dominates(Succ, b, calls[n].bb)
    PROVE  b \notin Below(Succ, calls)
<1> SUFFICES ASSUME b \in Below(Succ, calls) PROVE FALSE
    OBVIOUS
<1>1. PICK m \in 1 .. Len(calls) : \E c \in calls[m].todo : Dominates(Succ, c, b)
    BY DEF Below
<1>2. PICK c \in calls[m].todo : Dominates(Succ, c, b)
    BY <1>1
<1>3. c \in Blocks /\ calls[n].bb \in Blocks /\ IsFunctionCfg(Succ)
    BY EachCall, ProgramIs
<1>4. Dominates(Succ, c, calls[n].bb)
    BY <1>2, <1>3, DominanceTransitive
<1> QED
    BY <1>3, <1>4, CallsAreSeen DEF Below

(* A load whose value the block stores comes before the store: it has been  *)
(* treated, and its block dominates this one.                               *)
LEMMA OperandLoad ==
    ASSUME TypeOK, TablesInv, CallsInv, pc = "body", at <= Len(code[Current]),
           code[Current][at].op = "store",
           NEW b \in Blocks, NEW k \in 1 .. Len(prog.code[b]),
           LoadOf(prog.code[b][k], code[Current][at].val)
    PROVE  Dominates(Succ, b, Current) /\ Done(b, k)
<1> DEFINE n == code[Current][at].val
<1>1. /\ Current \in Blocks /\ Current \notin Unseen /\ at \in 1 .. Len(prog.code[Current])
      /\ Len(calls) \in 1 .. Len(calls) /\ Current = calls[Len(calls)].bb
      /\ prog.code[Current][at].val = n /\ prog.code[Current][at].op = "store" /\ n \in Names
      /\ at \in Nat
    BY InBody DEF Instrs
<1>2. IsFunctionCfg(Succ) /\ IsSsa(prog) /\ k \in Nat
    BY ProgramIs
<1> HIDE DEF n
<1>3. LoadOf(prog.code[b][k], n)
    BY DEF n
<1>4. \/ Current = b /\ at = k
      \/ (Current = b /\ k < at) \/ StrictlyDominates(prog.succ, b, Current)
    BY <1>1, <1>2, <1>3 DEF IsSsa
<1>5. ~ (Current = b /\ at = k)
    BY <1>1, <1>3 DEF LoadOf
<1>6. CASE Current = b /\ k < at
    BY <1>1, <1>2, <1>6, DominanceReflexive DEF Done
<1>7. CASE StrictlyDominates(prog.succ, b, Current)
  <2>1. Dominates(Succ, b, Current) /\ b # Current
    BY <1>7 DEF StrictlyDominates, Succ
  <2>2. b \notin Unseen
    BY <1>1, <2>1, DominatorsAreSeen DEF Unseen
  <2> QED
    BY <2>1, <2>2 DEF Done
<1> QED
    BY <1>4, <1>5, <1>6, <1>7

(* What has been treated remains treated, and an instruction is once        *)
(* re_name has passed it.                                                   *)
LEMMA DoneStep ==
    ASSUME TypeOK, TypeOK', TablesInv, CallsInv, [Pass]_vars,
           NEW b \in Blocks, NEW k \in 1 .. Len(prog.code[b])
    PROVE  /\ Done(b, k) => Done(b, k)'
           /\ (RenameLoad \/ RenameStore) /\ b = Current /\ k = at => ~ Done(b, k) /\ Done(b, k)'
<1>1. /\ ~ EnterBlock => Unseen' = Unseen
      /\ EnterBlock => Unseen' = Unseen \ {Current} /\ Current \in Unseen /\ Current' = Current
    BY CallsStep
<1>2. CASE EnterBlock
    BY <1>1, <1>2 DEF Done, EnterBlock, RenameLoad, RenameStore
<1>3. CASE RenameLoad \/ RenameStore
  <2>0. pc = "body" /\ pc' = "body" /\ calls' = calls /\ at' = at + 1
    BY <1>3 DEF RenameLoad, RenameStore
  <2>1. Current' = Current /\ at \in Nat /\ k \in Nat /\ Current \notin Unseen
    BY <2>0, InBody DEF Current
  <2>2. Unseen' = Unseen
    BY <1>1, <2>0 DEF EnterBlock
  <2> QED
    BY <2>0, <2>1, <2>2 DEF Done
<1>4. CASE ~ (EnterBlock \/ RenameLoad \/ RenameStore)
  <2>1. Unseen' = Unseen
    BY <1>1, <1>4
  <2>2. pc' = "body" => pc = "body" /\ calls' = calls /\ at' = at
    BY <1>4 DEF Pass, Rename, PlacePhis, StartRename, FillPhis, AbortFill, Descend, Leave, Returned,
                RemoveAllocas, vars, passVars
  <2>3. pc' = "body" => Current' = Current
    BY <2>2 DEF Current
  <2> QED
    BY <1>4, <2>1, <2>2, <2>3 DEF Done
<1> QED
    BY <1>2, <1>3, <1>4

(* The instruction at which a load or a store is renamed.                   *)
LEMMA InstructionAt ==
    ASSUME TypeOK, TablesInv, CallsInv, RenameLoad \/ RenameStore
    PROVE  /\ pc = "body" /\ at <= Len(code[Current]) /\ Current \in Blocks
           /\ at \in 1 .. Len(prog.code[Current])
           /\ code[Current][at] = prog.code[Current][at]
           /\ code[Current][at].var \in Vars /\ code[Current][at].val \in Names
           /\ code[Current][at].op = IF RenameLoad THEN "load" ELSE "store"
<1>1. pc = "body" /\ at <= Len(code[Current])
    BY DEF RenameLoad, RenameStore
<1>2. /\ Current \in Blocks /\ at \in 1 .. Len(prog.code[Current])
      /\ code[Current] = prog.code[Current] /\ code[Current][at] \in Instrs
    BY <1>1, InBody
<1>3. code[Current][at].op = IF RenameLoad THEN "load" ELSE "store"
    BY DEF RenameLoad, RenameStore
<1> QED
    BY <1>1, <1>2, <1>3 DEF Instrs

(* A load that is replaced was not fresh, so the fresh names remain so.     *)
LEMMA FreshStep ==
    ASSUME TypeOK, TypeOK', TablesInv, CallsInv, [Pass]_vars
    PROVE  Treated \subseteq Treated' /\ Fresh \subseteq Fresh'
<1>1. prog' = prog
    BY TablesKept
<1>2. Treated \subseteq Treated'
    BY <1>1, DoneStep DEF Treated
<1>3. ASSUME NEW n \in Fresh PROVE n \in Fresh'
  <2>1. subst'[n] = n
    <3>1. CASE RenameLoad
      <4>1. /\ Current \in Blocks /\ at \in 1 .. Len(prog.code[Current])
            /\ LoadOf(prog.code[Current][at], code[Current][at].val)
        BY <3>1, InstructionAt DEF LoadOf
      <4>2. ~ Done(Current, at)
        BY <3>1, <4>1, DoneStep
      <4>3. n # code[Current][at].val
        BY <1>3, <4>1, <4>2 DEF Fresh
      <4> QED
        BY <1>3, <3>1, <4>3 DEF RenameLoad, Fresh, TypeOK
    <3>2. CASE ~ RenameLoad
      <4>1. subst' = subst
        BY <3>2 DEF Pass, Rename, PlacePhis, StartRename, EnterBlock, RenameStore, FillPhis,
                    AbortFill, Descend, Leave, RemoveAllocas, vars, passVars
      <4> QED
        BY <1>3, <4>1 DEF Fresh
    <3> QED
      BY <3>1, <3>2
  <2>2. ASSUME NEW b \in Blocks, NEW k \in 1 .. Len(prog.code[b]), LoadOf(prog.code[b][k], n)
        PROVE  Done(b, k)'
    BY <1>3, <2>2, DoneStep DEF Fresh
  <2> QED
    BY <1>1, <1>3, <2>1, <2>2 DEF Fresh
<1> QED
    BY <1>2, <1>3

(* Before the walk nothing is replaced and the stacks are empty.            *)
LEMMA ValuesInit == Init => FreshInv /\ DominanceInv
<1> SUFFICES ASSUME Init PROVE FreshInv /\ DominanceInv
    OBVIOUS
<1>1. /\ \A n \in Names : subst[n] = n
      /\ \A x \in Vars : stacks[x] = << >>
      /\ \A f \in Phis, p \in Blocks : args[f][p] = Undef
      /\ pc = "phi" /\ calls = << >>
    BY DEF Init, PassInit
<1>2. \A x \in Vars : 1 .. Len(stacks[x]) = {}
    BY <1>1
<1>3. FreshInv
    BY <1>1, <1>2 DEF FreshInv
<1>4. DominanceInv
    BY <1>1, <1>2, ValsAssumption DEF DominanceInv, LoadsDominated, CallsDominated, OperandsDominated
<1> QED
    BY <1>3, <1>4

(* What a load is replaced by, and what a store pushes.                     *)
LEMMA FreshInvStep ==
    ASSUME TypeOK, TypeOK', TablesInv, CallsInv, HeightInv, FreshInv, [Pass]_vars
    PROVE  FreshInv'
<1> DEFINE i == code[Current][at]
<1>1. Treated \subseteq Treated' /\ Fresh \subseteq Fresh' /\ prog' = prog
    BY FreshStep, TablesKept
<1>2. CASE RenameLoad
  <2>1. /\ i.var \in Vars /\ i.val \in Names /\ Current \in Blocks
        /\ at \in 1 .. Len(prog.code[Current]) /\ LoadOf(prog.code[Current][at], i.val)
    BY <1>2, InstructionAt DEF LoadOf
  <2>2. i.val \in Treated'
    <3>0. PICK b \in Blocks : b = Current
      BY <2>1
    <3>1. PICK k \in 1 .. Len(prog.code[b]) : k = at
      BY <2>1, <3>0
    <3>2. Done(b, k)'
      BY <1>2, <3>0, <3>1, DoneStep
    <3>3. LoadOf(prog.code[b][k], i.val)
      BY <2>1, <3>0, <3>1
    <3>4. PICK n \in Names : n = i.val
      BY <2>1
    <3>5. n \in Treated'
      BY <1>1, <3>2, <3>3, <3>4 DEF Treated
    <3> QED
      BY <3>4, <3>5
  <2>3. CASE i.var \notin keys
    <3>1. subst' = subst /\ stacks' = stacks
      BY <1>2, <2>3 DEF RenameLoad
    <3> QED
      BY <1>1, <3>1 DEF FreshInv
  <2>4. CASE i.var \in keys
    <3>1. subst' = [subst EXCEPT ![i.val] = Top(i.var)] /\ stacks' = stacks
      BY <1>2, <2>4 DEF RenameLoad
    <3> HIDE DEF i
    <3>2. Top(i.var) \in Names => Top(i.var) \in Fresh'
      <4>1. CASE stacks[i.var] = << >>
        BY <4>1, ValsAssumption DEF Top
      <4>2. CASE stacks[i.var] # << >>
        BY <1>1, <2>1, <4>2, TopIs DEF Top, FreshInv
      <4> QED
        BY <4>1, <4>2
    <3>3. ASSUME NEW n \in Names, subst'[n] # n
          PROVE  n \in Treated' /\ (subst'[n] \in Names => subst'[n] \in Fresh')
      <4>1. CASE n = i.val
        BY <2>1, <2>2, <3>1, <3>2, <4>1 DEF TypeOK
      <4>2. CASE n # i.val
        BY <1>1, <2>1, <3>1, <3>3, <4>2 DEF TypeOK, FreshInv
      <4> QED
        BY <4>1, <4>2
    <3> QED
      BY <1>1, <3>1, <3>3 DEF FreshInv
  <2> QED
    BY <2>3, <2>4
<1>3. CASE RenameStore
  <2>1. /\ i.var \in Vars /\ i.val \in Names /\ Current \in Blocks /\ pc = "body"
        /\ at <= Len(code[Current]) /\ i.op = "store"
    <3>1. ~ RenameLoad
      BY <1>3 DEF RenameLoad, RenameStore
    <3> QED
      BY <1>3, <3>1, InstructionAt
  <2>2. /\ subst' = subst
        /\ stacks' = [stacks EXCEPT ![i.var] = Append(stacks[i.var], Operand(i.val))]
    BY <1>3 DEF RenameStore
  <2>3. Operand(i.val) \in Names => Operand(i.val) \in Fresh'
    <3>1. CASE subst[i.val] # i.val
      BY <1>1, <2>1, <3>1 DEF Operand, FreshInv
    <3>2. CASE subst[i.val] = i.val
      <4>1. ASSUME NEW b \in Blocks, NEW k \in 1 .. Len(prog.code[b]), LoadOf(prog.code[b][k], i.val)
            PROVE  Done(b, k)
        BY <2>1, <4>1, OperandLoad
      <4>2. i.val \in Fresh
        BY <2>1, <3>2, <4>1 DEF Fresh
      <4> QED
        BY <1>1, <2>1, <3>2, <4>2 DEF Operand
    <3> QED
      BY <3>1, <3>2
  <2> HIDE DEF i
  <2>4. ASSUME NEW x \in Vars, NEW k \in 1 .. Len(stacks'[x]), stacks'[x][k] \in Names
        PROVE  stacks'[x][k] \in Fresh'
    <3>1. stacks[x] \in Seq(Vals) /\ Len(stacks[x]) \in Nat /\ Operand(i.val) \in Vals
      BY <2>1, LenProperties DEF TypeOK, Operand
    <3>2. CASE x # i.var
      BY <1>1, <2>1, <2>2, <2>4, <3>2 DEF TypeOK, FreshInv
    <3>3. CASE x = i.var
      <4>1. stacks'[x] = Append(stacks[x], Operand(i.val))
        BY <2>1, <2>2, <3>3 DEF TypeOK
      <4>2. (k \in 1 .. Len(stacks[x]) /\ stacks'[x][k] = stacks[x][k])
            \/ stacks'[x][k] = Operand(i.val)
        BY <3>1, <4>1, AppendProperties
      <4> QED
        BY <1>1, <2>3, <2>4, <4>2 DEF FreshInv
    <3> QED
      BY <3>2, <3>3
  <2> QED
    BY <1>1, <2>2, <2>4 DEF FreshInv
<1>4. CASE EnterBlock
  <2>1. subst' = subst /\ Current \in Blocks
    BY <1>4, CallIs DEF EnterBlock, TypeOK
  <2>2. ASSUME NEW x \in Vars, NEW k \in 1 .. Len(stacks'[x]), stacks'[x][k] \in Names
        PROVE  stacks'[x][k] \in Fresh'
    <3>1. stacks[x] \in Seq(Vals) /\ Len(stacks[x]) \in Nat /\ <<Current, x>> \in Vals
      BY <2>1, LenProperties DEF TypeOK, Vals, Phis
    <3>2. CASE x \notin PhisOf(Current)
      BY <1>1, <1>4, <2>2, <3>2 DEF EnterBlock, FreshInv
    <3>3. CASE x \in PhisOf(Current)
      <4>1. stacks'[x] = Append(stacks[x], <<Current, x>>)
        BY <1>4, <3>3 DEF EnterBlock
      <4>2. (k \in 1 .. Len(stacks[x]) /\ stacks'[x][k] = stacks[x][k])
            \/ stacks'[x][k] = <<Current, x>>
        BY <3>1, <4>1, AppendProperties
      <4>3. <<Current, x>> \notin Names
        BY <2>1, ValsAssumption DEF Phis
      <4> QED
        BY <1>1, <2>2, <4>2, <4>3 DEF FreshInv
    <3> QED
      BY <3>2, <3>3
  <2> QED
    BY <1>1, <2>1, <2>2 DEF FreshInv
<1>5. CASE Leave
  <2>1. subst' = subst
    BY <1>5 DEF Leave
  <2>2. ASSUME NEW x \in Vars, NEW k \in 1 .. Len(stacks'[x]), stacks'[x][k] \in Names
        PROVE  stacks'[x][k] \in Fresh'
    <3>1. /\ Len(stacks'[x]) <= Len(stacks[x])
          /\ \A j \in 1 .. Len(stacks'[x]) : stacks'[x][j] = stacks[x][j]
      BY <1>5, CallsStep, HeightsLeave
    <3>2. Len(stacks[x]) \in Nat /\ Len(stacks'[x]) \in Nat
      BY LenProperties DEF TypeOK
    <3> QED
      BY <1>1, <2>2, <3>1, <3>2 DEF FreshInv
  <2> QED
    BY <1>1, <2>1, <2>2 DEF FreshInv
<1>6. CASE ~ (RenameLoad \/ RenameStore \/ EnterBlock \/ Leave)
  <2>1. subst' = subst /\ stacks' = stacks
    BY <1>6 DEF Pass, Rename, PlacePhis, StartRename, FillPhis, AbortFill, Descend,
                RemoveAllocas, vars, passVars
  <2> QED
    BY <1>1, <2>1 DEF FreshInv
<1> QED
    BY <1>2, <1>3, <1>4, <1>5, <1>6

(* A phi that is a current value dominates the block re_name is in.         *)
LEMMA TopDominates ==
    ASSUME TypeOK, TablesInv, CallsInv, HeightInv, CallsDominated, pc = "body",
           NEW x \in Vars, Top(x) \in Phis
    PROVE  Dominates(Succ, Top(x)[1], Current)
<1>1. stacks[x] # << >>
    BY ValsAssumption DEF Top
<1>2. /\ Top(x) = stacks[x][Len(stacks[x])] /\ Len(stacks[x]) \in 1 .. Len(stacks[x])
      /\ Len(stacks[x]) \in Nat
    BY <1>1, TopIs DEF Top
<1>3. Begun = Len(calls) /\ Begun \in 1 .. Begun /\ calls[Begun].bb = Current
    BY BegunIs, InBody
<1>4. Len(stacks[x]) = Height(Pushes(x), Begun)
    BY DEF HeightInv
<1> QED
    BY <1>2, <1>3, <1>4 DEF CallsDominated

(* A load is replaced by a phi that dominates it: the load has one place.   *)
LEMMA LoadsDominatedStep ==
    ASSUME TypeOK, TablesInv, CallsInv, HeightInv, DominanceInv, [Pass]_vars
    PROVE  LoadsDominated'
<1> DEFINE i == code[Current][at]
<1>1. prog' = prog /\ Succ' = Succ
    BY TablesKept
<1>2. CASE RenameLoad
  <2>1. /\ i.var \in Vars /\ i.val \in Names /\ Current \in Blocks
        /\ at \in 1 .. Len(prog.code[Current]) /\ LoadOf(prog.code[Current][at], i.val)
    BY <1>2, InstructionAt DEF LoadOf
  <2>2. /\ subst' = subst \/ subst' = [subst EXCEPT ![i.val] = Top(i.var)]
        /\ pc = "body"
    BY <1>2 DEF RenameLoad
  <2> HIDE DEF i
  <2>3. ASSUME NEW n \in Names, subst'[n] \in Phis, subst'[n] # subst[n], NEW b \in Blocks,
               NEW k \in 1 .. Len(prog.code[b]), LoadOf(prog.code[b][k], n)
        PROVE  Dominates(Succ, subst'[n][1], b)
    <3>1. n = i.val /\ subst'[n] = Top(i.var)
      BY <2>1, <2>2, <2>3 DEF TypeOK
    <3>2. b = Current
      <4>1. prog.code[b][k].val = n /\ prog.code[b][k].op = "load"
        BY <2>3 DEF LoadOf
      <4>2. IsSsa(prog) /\ prog.code[Current][at].op = "load"
        BY <2>1, ProgramIs DEF LoadOf
      <4> QED
        BY <2>1, <2>3, <3>1, <4>1, <4>2 DEF IsSsa
    <3> QED
      BY <2>1, <2>2, <2>3, <3>1, <3>2, TopDominates DEF DominanceInv
  <2> QED
    BY <1>1, <2>3 DEF LoadsDominated, DominanceInv
<1>3. CASE ~ RenameLoad
  <2>1. subst' = subst
    BY <1>3 DEF Pass, Rename, PlacePhis, StartRename, EnterBlock, RenameStore, FillPhis,
                AbortFill, Descend, Leave, RemoveAllocas, vars, passVars
  <2> QED
    BY <1>1, <2>1 DEF DominanceInv, LoadsDominated
<1> QED
    BY <1>2, <1>3

(* An operand that is a phi is the current value where it is given.         *)
LEMMA OperandsDominatedStep ==
    ASSUME TypeOK, TablesInv, CallsInv, HeightInv, DominanceInv, [Pass]_vars
    PROVE  OperandsDominated'
<1>1. prog' = prog /\ Succ' = Succ
    BY TablesKept
<1>2. CASE FillPhis
  <2>1. /\ args' = [f \in Phis |-> IF f \in ToFill
                                   THEN [args[f] EXCEPT ![Current] = Top(f[2])]
                                   ELSE args[f]]
        /\ pc = "body"
    BY <1>2 DEF FillPhis
  <2>2. ASSUME NEW f \in Phis, NEW p \in Blocks, args'[f][p] \in Phis
        PROVE  Dominates(Succ, args'[f][p][1], p)
    <3>1. args'[f][p] = args[f][p] \/ (p = Current /\ args'[f][p] = Top(f[2]))
      BY <2>1 DEF TypeOK
    <3>2. f[2] \in Vars
      BY DEF Phis
    <3> QED
      BY <2>1, <2>2, <3>1, <3>2, TopDominates DEF DominanceInv, OperandsDominated
  <2> QED
    BY <1>1, <2>2 DEF OperandsDominated
<1>3. CASE ~ FillPhis
  <2>1. args' = args
    BY <1>3 DEF Pass, Rename, PlacePhis, StartRename, EnterBlock, RenameLoad, RenameStore,
                AbortFill, Descend, Leave, RemoveAllocas, vars, passVars
  <2> QED
    BY <1>1, <2>1 DEF DominanceInv, OperandsDominated
<1> QED
    BY <1>2, <1>3

(* A phi that becomes an operand replaces a load above: it dominates it.    *)
LEMMA OperandDominates ==
    ASSUME TypeOK, TablesInv, CallsInv, FreshInv, DominanceInv, RenameStore,
           Operand(code[Current][at].val) \in Phis
    PROVE  Dominates(Succ, Operand(code[Current][at].val)[1], Current)
<1>1. PICK n \in Names : n = code[Current][at].val
    BY InstructionAt
<1>2. /\ pc = "body" /\ at <= Len(code[Current]) /\ code[Current][at].op = "store"
      /\ Current \in Blocks
  <2>1. ~ RenameLoad
    BY DEF RenameStore, RenameLoad
  <2> QED
    BY <2>1, InstructionAt
<1>3. Operand(n) = subst[n] /\ subst[n] \in Phis
    BY <1>1 DEF Operand
<1>4. subst[n] # n
    BY <1>3, ValsAssumption
<1>5. PICK b \in Blocks : \E k \in 1 .. Len(prog.code[b]) : LoadOf(prog.code[b][k], n)
    BY <1>4 DEF FreshInv, Treated
<1>6. PICK k \in 1 .. Len(prog.code[b]) : LoadOf(prog.code[b][k], n)
    BY <1>5
<1>7. Dominates(Succ, b, Current)
    BY <1>1, <1>2, <1>6, OperandLoad
<1>8. Dominates(Succ, subst[n][1], b)
    BY <1>3, <1>6 DEF DominanceInv, LoadsDominated
<1>9. subst[n][1] \in Blocks /\ IsFunctionCfg(Succ)
    BY <1>3, ProgramIs DEF Phis
<1> QED
    BY <1>1, <1>2, <1>3, <1>7, <1>8, <1>9, DominanceTransitive

(* Phis on the stacks dominate the blocks of the calls that pushed them,    *)
(* and of the calls these made.                                             *)
LEMMA CallsDominatedStep ==
    ASSUME WalkInv, WalkInv', FreshInv, DominanceInv, [Pass]_vars
    PROVE  CallsDominated'
<1> USE DEF WalkInv
<1>1. /\ prog' = prog /\ Succ' = Succ /\ IsFunctionCfg(Succ) /\ IsBranch(Succ, calls)
      /\ Begun \in 0 .. Len(calls) /\ Len(calls) \in Nat
      /\ \A x \in Vars : stacks[x] \in Seq(Vals) /\ Len(stacks[x]) \in Nat /\ Len(stacks'[x]) \in Nat
      /\ \A n \in 1 .. Len(calls) : calls[n].bb \in Blocks
  <2>1. Begun \in 0 .. Len(calls) /\ Len(calls) \in Nat
    BY BegunIs
  <2>2. \A x \in Vars : stacks[x] \in Seq(Vals) /\ Len(stacks[x]) \in Nat /\ Len(stacks'[x]) \in Nat
    BY LenProperties DEF TypeOK
  <2> QED
    BY <2>1, <2>2, TablesKept, ProgramIs, EachCall DEF CallsInv
<1>2. CASE EnterBlock
  <2>1. /\ Begun' = Begun + 1 /\ Begun' = Len(calls) /\ calls' = calls
        /\ \A x \in Vars : /\ \A m \in 0 .. Begun : Height(Pushes(x), m)' = Height(Pushes(x), m)
                           /\ Len(stacks[x]) = Height(Pushes(x), Begun)
                           /\ stacks'[x] = IF x \in PhisOf(Current)
                                           THEN Append(stacks[x], <<Current, x>>)
                                           ELSE stacks[x]
    BY <1>2, HeightsEnter
  <2>2. Current \in Blocks /\ Current = calls[Len(calls)].bb /\ Begun' \in 1 .. Len(calls)
    BY <1>1, <1>2, <2>1, CallIs DEF EnterBlock, Current, TypeOK
  <2> SUFFICES ASSUME NEW x \in Vars, NEW n \in 1 .. Begun', NEW k \in 1 .. Len(stacks'[x]),
                      k <= Height(Pushes(x), n)', stacks'[x][k] \in Phis
               PROVE  Dominates(Succ, stacks'[x][k][1], calls[n].bb)
    BY <1>1, <2>1 DEF CallsDominated
  <2>3. \/ k \in 1 .. Len(stacks[x]) /\ stacks'[x][k] = stacks[x][k]
        \/ k = Len(stacks[x]) + 1 /\ stacks'[x][k] = <<Current, x>>
    <3>1. <<Current, x>> \in Vals /\ stacks[x] \in Seq(Vals) /\ Len(stacks[x]) \in Nat
      BY <1>1, <2>2 DEF Vals, Phis
    <3>2. CASE x \in PhisOf(Current)
      <4>1. stacks'[x] = Append(stacks[x], <<Current, x>>)
        BY <2>1, <3>2
      <4> QED
        BY <3>1, <4>1, AppendProperties
    <3>3. CASE x \notin PhisOf(Current)
      BY <2>1, <3>3
    <3> QED
      BY <3>2, <3>3
  <2>4. CASE n <= Begun
    <3>1. n \in 0 .. Begun /\ n \in 1 .. Begun /\ Begun \in Nat
      BY <1>1, <2>4
    <3>2. k <= Height(Pushes(x), n) /\ Height(Pushes(x), n) <= Height(Pushes(x), Begun)
      BY <1>1, <2>1, <3>1, HeightGrows
    <3>3. Height(Pushes(x), n) \in Nat
      BY <1>1, <2>1, <3>1, PushesAre
    <3> QED
      <4>1. Len(stacks[x]) = Height(Pushes(x), Begun) /\ Len(stacks[x]) \in Nat /\ calls'[n] = calls[n]
        BY <1>1, <2>1
      <4>2. k \in 1 .. Len(stacks[x]) /\ stacks'[x][k] = stacks[x][k]
        BY <2>3, <3>2, <3>3, <4>1
      <4> QED
        BY <3>1, <3>2, <4>2 DEF DominanceInv, CallsDominated
  <2>5. CASE n = Begun + 1
    <3>1. calls[n].bb = Current
      BY <2>1, <2>2, <2>5
    <3>2. CASE stacks'[x][k] = <<Current, x>>
      BY <1>1, <2>2, <3>1, <3>2, DominanceReflexive
    <3>3. CASE k \in 1 .. Len(stacks[x]) /\ stacks'[x][k] = stacks[x][k]
      <4>0. Len(stacks[x]) = Height(Pushes(x), Begun) /\ Len(stacks[x]) \in Nat
        BY <1>1, <2>1
      <4>1. Begun # 0
        <5>1. Height(Pushes(x), 0) = 0
          BY HeightStep
        <5> QED
          BY <3>3, <4>0, <5>1
      <4>2. Begun \in 1 .. Begun /\ Begun \in 1 .. Len(calls) /\ Begun < Len(calls)
        BY <1>1, <2>1, <4>1
      <4>3. Dominates(Succ, stacks[x][k][1], calls[Begun].bb)
        <5>1. k <= Height(Pushes(x), Begun)
          BY <3>3, <4>0
        <5> QED
          BY <3>3, <4>2, <5>1 DEF DominanceInv, CallsDominated
      <4>4. Dominates(Succ, calls[Begun].bb, Current)
        BY <1>1, <2>1, <2>2, <4>2 DEF IsBranch, StrictlyDominates
      <4>5. stacks[x][k][1] \in Blocks /\ calls[Begun].bb \in Blocks
        BY <1>1, <3>3, <4>2 DEF Phis
      <4> QED
        BY <1>1, <2>2, <3>1, <3>3, <4>3, <4>4, <4>5, DominanceTransitive
    <3> QED
      BY <2>3, <3>2, <3>3
  <2> QED
    BY <1>1, <2>1, <2>4, <2>5
<1>3. CASE RenameStore
  <2> DEFINE i == code[Current][at]
  <2>1. /\ Begun' = Begun /\ Begun = Len(calls) /\ calls' = calls
        /\ \A x \in Vars : \A m \in 0 .. Begun - 1 : Height(Pushes(x), m)' = Height(Pushes(x), m)
        /\ \A x \in Vars : Len(stacks[x]) = Height(Pushes(x), Begun)
        /\ stacks' = [stacks EXCEPT ![i.var] = Append(stacks[i.var], Operand(i.val))]
    BY <1>3, HeightsStore
  <2>2. /\ pc = "body" /\ i.var \in Vars /\ i.val \in Names /\ Operand(i.val) \in Vals
        /\ Current = calls[Len(calls)].bb
    <3>1. pc = "body" /\ i.var \in Vars /\ i.val \in Names
      BY <1>3, InstructionAt
    <3> QED
      BY <3>1, InBody DEF Operand, TypeOK
  <2>3. Operand(i.val) \in Phis => Dominates(Succ, Operand(i.val)[1], Current)
    BY <1>3, OperandDominates
  <2> HIDE DEF i
  <2> SUFFICES ASSUME NEW x \in Vars, NEW n \in 1 .. Begun, NEW k \in 1 .. Len(stacks'[x]),
                      k <= Height(Pushes(x), n)', stacks'[x][k] \in Phis
               PROVE  Dominates(Succ, stacks'[x][k][1], calls[n].bb)
    BY <1>1, <2>1 DEF CallsDominated
  <2>4. \/ k \in 1 .. Len(stacks[x]) /\ stacks'[x][k] = stacks[x][k]
        \/ k = Len(stacks[x]) + 1 /\ stacks'[x][k] = Operand(i.val)
    <3>1. CASE x = i.var
      <4>1. stacks'[x] = Append(stacks[x], Operand(i.val))
        BY <2>1, <2>2, <3>1 DEF TypeOK
      <4> QED
        BY <1>1, <2>2, <4>1, AppendProperties
    <3>2. CASE x # i.var
      BY <2>1, <2>2, <3>2 DEF TypeOK
    <3> QED
      BY <3>1, <3>2
  <2>5. CASE n < Begun
    <3>1. n \in 0 .. Begun - 1
      BY <1>1, <2>5
    <3>2. k <= Height(Pushes(x), n) /\ Height(Pushes(x), n) <= Height(Pushes(x), Begun)
      BY <1>1, <2>1, <3>1, HeightGrows
    <3>3. Height(Pushes(x), n) \in Nat
      BY <1>1, <2>1, <3>1, PushesAre
    <3> QED
      BY <1>1, <2>1, <2>4, <3>1, <3>2, <3>3 DEF DominanceInv, CallsDominated
  <2>6. CASE n = Begun
    BY <2>1, <2>2, <2>3, <2>4, <2>6 DEF DominanceInv, CallsDominated
  <2> QED
    BY <1>1, <2>5, <2>6
<1>4. CASE Leave
  <2>1. /\ Begun' = Begun - 1
        /\ \A n \in 1 .. Begun' : n \in 1 .. Begun /\ calls'[n].bb = calls[n].bb
        /\ \A x \in Vars : \A m \in 0 .. Begun' : Height(Pushes(x), m)' = Height(Pushes(x), m)
        /\ \A x \in Vars : /\ Len(stacks'[x]) <= Len(stacks[x])
                           /\ \A k \in 1 .. Len(stacks'[x]) : stacks'[x][k] = stacks[x][k]
    BY <1>4, HeightsLeave
  <2> SUFFICES ASSUME NEW x \in Vars, NEW n \in 1 .. Begun', NEW k \in 1 .. Len(stacks'[x]),
                      k <= Height(Pushes(x), n)', stacks'[x][k] \in Phis
               PROVE  Dominates(Succ, stacks'[x][k][1], calls'[n].bb)
    BY <1>1 DEF CallsDominated
  <2>2. n \in 0 .. Begun' /\ n \in 1 .. Begun /\ k \in 1 .. Len(stacks[x])
    BY <1>1, <2>1
  <2>3. k <= Height(Pushes(x), n)
    BY <2>1, <2>2
  <2> QED
    BY <2>1, <2>2, <2>3 DEF DominanceInv, CallsDominated
<1>5. CASE ~ (EnterBlock \/ RenameStore \/ Leave)
  <2>1. PlacePhis \/ StartRename \/ RenameLoad \/ FillPhis \/ AbortFill \/ Descend
             \/ RemoveAllocas \/ UNCHANGED vars
    BY <1>5 DEF Pass, Rename
  <2>2. /\ Begun' = Begun /\ stacks' = stacks
        /\ \A x \in Vars : \A m \in 0 .. Begun : Height(Pushes(x), m)' = Height(Pushes(x), m)
        /\ \A n \in 1 .. Begun : calls'[n].bb = calls[n].bb
    BY <2>1, HeightsSame
  <2> SUFFICES ASSUME NEW x \in Vars, NEW n \in 1 .. Begun, NEW k \in 1 .. Len(stacks[x]),
                      k <= Height(Pushes(x), n)', stacks[x][k] \in Phis
               PROVE  Dominates(Succ, stacks[x][k][1], calls[n].bb)
    BY <1>1, <2>2 DEF CallsDominated
  <2>3. n \in 0 .. Begun
    BY <1>1
  <2> QED
    BY <2>2, <2>3 DEF DominanceInv, CallsDominated
<1> QED
    BY <1>2, <1>3, <1>4, <1>5

ValuesInv == WalkInv /\ FreshInv /\ DominanceInv

(* Every step keeps what is known of the values.                            *)
LEMMA ValuesStep == ValuesInv /\ [Pass]_vars => ValuesInv'
<1> SUFFICES ASSUME ValuesInv, [Pass]_vars PROVE ValuesInv'
    OBVIOUS
<1>1. WalkInv /\ WalkInv' /\ FreshInv /\ DominanceInv
    BY WalkStep DEF ValuesInv
<1>2. TypeOK /\ TypeOK' /\ TablesInv /\ CallsInv /\ HeightInv
    BY <1>1 DEF WalkInv
<1>3. FreshInv'
    BY <1>1, <1>2, FreshInvStep
<1>4. LoadsDominated' /\ OperandsDominated' /\ CallsDominated'
    BY <1>1, <1>2, LoadsDominatedStep, OperandsDominatedStep, CallsDominatedStep
<1> QED
    BY <1>1, <1>3, <1>4 DEF ValuesInv, DominanceInv

(* It is an invariant of the pass.                                          *)
LEMMA ValuesAlways == Spec => []ValuesInv
<1>1. Init => ValuesInv
    BY WalkInit, ValuesInit DEF ValuesInv
<1> QED
    BY <1>1, ValuesStep, PTL DEF Spec

(* No stack holds a load that has been replaced, for every program in SSA   *)
(* form: a load is replaced before its value can be stored, and what it is  *)
(* replaced by is never replaced.                                           *)
THEOREM NothingStale == Spec => []StacksCurrent
<1>1. ValuesInv => StacksCurrent
    BY DEF ValuesInv, FreshInv, Fresh, StacksCurrent
<1> QED
    BY <1>1, ValuesAlways, PTL

(* Renaming leaves the program in SSA form: a phi that replaces a load or   *)
(* is an operand of a phi dominates the use.                                *)
THEOREM SsaForm == Spec => []DefsDominateUses
<1>1. ValuesInv => DefsDominateUses
  <2> SUFFICES ASSUME ValuesInv PROVE DefsDominateUses
    OBVIOUS
  <2>1. LoadsDominated /\ OperandsDominated /\ prog.code \in [Blocks -> Seq(Instrs)]
    BY DEF ValuesInv, DominanceInv, WalkInv, TypeOK
  <2>2. ASSUME NEW l \in Loads(prog), subst[l.val] \in Phis
        PROVE  Dominates(Succ, subst[l.val][1], BlockOf(l))
    <3>1. PICK b \in Blocks : \E k \in 1 .. Len(prog.code[b]) : prog.code[b][k] = l
      BY DEF Loads
    <3>2. l \in Instrs /\ l.op = "load" /\ l.val \in Names
      <4>1. l \in Instrs
        BY <2>1, <3>1, ElementOfSeq
      <4> QED
        BY <4>1 DEF Loads, Instrs
    <3>3. BlockOf(l) \in Blocks /\ \E k \in 1 .. Len(prog.code[BlockOf(l)]) : prog.code[BlockOf(l)][k] = l
      BY <3>1 DEF BlockOf
    <3> QED
      BY <2>1, <2>2, <3>2, <3>3 DEF LoadsDominated, LoadOf
  <2> QED
    BY <2>1, <2>2 DEF OperandsDominated, DefsDominateUses
<1> QED
    BY <1>1, ValuesAlways, PTL

-----------------------------------------------------------------------------
(****************************************************************************)
(* The operands of the phis.                                                *)
(****************************************************************************)

(* A block gives a variable a value with a store or a phi.                  *)
Defines(d, x) == d \in StoreBlocks(prog, x) \/ <<d, x>> \in phis

(* Each phi is on the frontier of a block that gives its variable a value,  *)
(* and the work lists hold such blocks.                                     *)
SourcesInv ==
    /\ \A f \in phis : \E d \in Blocks : Defines(d, f[2]) /\ f[1] \in df[d]
    /\ \A x \in Vars : \A b \in work[x] : Defines(b, x)

(* A variable has an entry once a phi or a store of it has been treated.    *)
KeysInv ==
    \A x \in Vars : \A b \in Blocks :
        /\ b \notin Unseen /\ <<b, x>> \in phis => x \in keys
        /\ \A k \in 1 .. Len(prog.code[b]) :
              Stores(prog.code[b][k], x) /\ Done(b, k) => x \in keys

(* The blocks that have filled the phis of their successors.                *)
Filled(p) == p \notin Unseen /\ ~ (pc \in {"body", "abort"} /\ p = Current)

(* Operands come from predecessors; and a phi has the operand of each that  *)
(* is filled if a dominator of this predecessor gives the variable a value. *)
FilledInv ==
    /\ \A f \in Phis, p \in Blocks : args[f][p] # Undef => f[1] \in Succ[p]
    /\ \A f \in phis, p \in Blocks, d \in Blocks :
          Filled(p) /\ f[1] \in Succ[p] /\ Defines(d, f[2]) /\ Dominates(Succ, d, p)
              => args[f][p] # Undef

OperandsInv == SourcesInv /\ KeysInv /\ FilledInv

(* A step treats the instruction it renames and no other.                   *)
LEMMA DoneIs ==
    ASSUME TypeOK, TypeOK', TablesInv, CallsInv, [Pass]_vars,
           NEW b \in Blocks, NEW k \in 1 .. Len(prog.code[b]), Done(b, k)'
    PROVE  Done(b, k) \/ ((RenameLoad \/ RenameStore) /\ b = Current /\ k = at)
<1>0. prog' = prog /\ k \in Nat
    BY TablesKept
<1>1. /\ ~ EnterBlock => Unseen' = Unseen
      /\ EnterBlock => Unseen' = Unseen \ {Current} /\ Current \in Unseen /\ Current' = Current
    BY CallsStep
<1>2. CASE EnterBlock
    BY <1>0, <1>1, <1>2 DEF Done, EnterBlock
<1>3. CASE RenameLoad \/ RenameStore
  <2>0. pc = "body" /\ pc' = "body" /\ calls' = calls /\ at' = at + 1
    BY <1>3 DEF RenameLoad, RenameStore
  <2>1. Current' = Current /\ at \in Nat
    BY <2>0, InBody DEF Current
  <2>2. Unseen' = Unseen
    BY <1>1, <2>0 DEF EnterBlock
  <2> QED
    BY <1>0, <1>3, <2>0, <2>1, <2>2 DEF Done
<1>4. CASE FillPhis \/ AbortFill
  <2>1. pc = "body" /\ at > Len(code[Current]) /\ ~ EnterBlock
    BY <1>4 DEF FillPhis, AbortFill, EnterBlock
  <2>2. b = Current => k < at
    BY <1>0, <2>1, InBody
  <2> QED
    BY <1>0, <1>1, <2>1, <2>2, InBody DEF Done
<1>5. CASE ~ (EnterBlock \/ RenameLoad \/ RenameStore \/ FillPhis \/ AbortFill)
  <2>1. Unseen' = Unseen
    BY <1>1, <1>5
  <2>2. pc = "body" => pc' = "body" /\ calls' = calls /\ at' = at
    BY <1>5 DEF Pass, Rename, PlacePhis, StartRename, Descend, Leave, RemoveAllocas, vars, passVars
  <2>3. pc = "body" => Current' = Current
    BY <2>2 DEF Current
  <2> QED
    BY <2>1, <2>2, <2>3 DEF Done
<1> QED
    BY <1>2, <1>3, <1>4, <1>5

(* Phis are placed on the frontiers of the blocks in the work lists.        *)
LEMMA SourcesStep ==
    ASSUME TypeOK, TablesInv, SourcesInv, [Pass]_vars
    PROVE  SourcesInv'
<1>1. prog' = prog /\ df' = df
    BY TablesKept
<1>2. CASE PlacePhis
  <2>1. PICK x \in Vars : \E b \in work[x] :
           /\ phis' = phis \cup (Lacking(x, b) \X {x})
           /\ work' = [work EXCEPT ![x] = Rest(x, b)]
    BY <1>2 DEF PlacePhis
  <2>2. PICK b \in work[x] : /\ phis' = phis \cup (Lacking(x, b) \X {x})
                             /\ work' = [work EXCEPT ![x] = Rest(x, b)]
    BY <2>1
  <2>3. b \in Blocks /\ Defines(b, x) /\ Lacking(x, b) \subseteq df[b]
    BY DEF SourcesInv, TypeOK, Lacking
  <2>4. ASSUME NEW d, NEW y, Defines(d, y) PROVE Defines(d, y)'
    BY <1>1, <2>2, <2>4 DEF Defines
  <2>5. ASSUME NEW f \in phis' PROVE \E d \in Blocks : Defines(d, f[2])' /\ f[1] \in df[d]
    <3>1. CASE f \in phis
      <4>1. PICK d \in Blocks : Defines(d, f[2]) /\ f[1] \in df[d]
        BY <3>1 DEF SourcesInv
      <4> QED
        BY <2>4, <4>1
    <3>2. CASE f \notin phis
      <4>1. f[2] = x /\ f[1] \in df[b]
        BY <2>2, <2>3, <2>5, <3>2
      <4> QED
        BY <2>3, <2>4, <4>1
    <3> QED
      BY <3>1, <3>2
  <2>6. ASSUME NEW y \in Vars, NEW e \in work'[y] PROVE Defines(e, y)'
    <3>1. CASE e \in work[y]
      BY <2>4, <3>1 DEF SourcesInv
    <3>2. CASE e \notin work[y]
      <4>1. y = x /\ e \in Lacking(x, b)
        BY <2>2, <2>6, <3>2 DEF TypeOK, Rest
      <4> QED
        BY <2>2, <4>1 DEF Defines
    <3> QED
      BY <3>1, <3>2
  <2> QED
    BY <1>1, <2>5, <2>6 DEF SourcesInv
<1>3. CASE ~ PlacePhis
  <2>1. phis' = phis /\ work' = work
    BY <1>3 DEF Pass, Rename, StartRename, EnterBlock, RenameLoad, RenameStore, FillPhis,
                AbortFill, Descend, Leave, RemoveAllocas, vars, passVars
  <2> QED
    BY <1>1, <2>1 DEF SourcesInv, Defines
<1> QED
    BY <1>2, <1>3

(* Each phi and each store that is treated gives its variable an entry.     *)
LEMMA KeysStep ==
    ASSUME TypeOK, TypeOK', TablesInv, CallsInv, KeysInv, [Pass]_vars
    PROVE  KeysInv'
<1> SUFFICES ASSUME NEW x \in Vars, NEW b \in Blocks
             PROVE  /\ b \notin Unseen' /\ <<b, x>> \in phis' => x \in keys'
                    /\ \A k \in 1 .. Len(prog.code[b]) :
                          Stores(prog.code[b][k], x) /\ Done(b, k)' => x \in keys'
    BY TablesKept DEF KeysInv, Stores
<1>1. /\ keys \subseteq keys'
      /\ RenameStore => code[Current][at].var \in keys'
    BY DEF Pass, Rename, PlacePhis, StartRename, EnterBlock, RenameLoad, RenameStore, FillPhis,
           AbortFill, Descend, Leave, RemoveAllocas, vars, passVars
<1>2. ASSUME b \notin Unseen', <<b, x>> \in phis' PROVE x \in keys'
  <2>1. CASE EnterBlock
    <3>1. keys' = keys \cup PhisOf(Current) /\ phis' = phis
      BY <2>1 DEF EnterBlock
    <3>2. Unseen' = Unseen \ {Current}
      BY <2>1, CallsStep
    <3> QED
      BY <1>2, <3>1, <3>2 DEF KeysInv, PhisOf
  <2>2. CASE PlacePhis
    <3>1. pc' = "phi"
      BY <2>2 DEF PlacePhis
    <3> QED
      BY <1>2, <3>1 DEF Unseen
  <2>3. CASE ~ (EnterBlock \/ PlacePhis)
    <3>1. phis' = phis
      BY <2>3 DEF Pass, Rename, StartRename, RenameLoad, RenameStore, FillPhis,
                  AbortFill, Descend, Leave, RemoveAllocas, vars, passVars
    <3>2. Unseen' = Unseen
      BY <2>3, CallsStep
    <3> QED
      BY <1>1, <1>2, <3>1, <3>2 DEF KeysInv
  <2> QED
    BY <2>1, <2>2, <2>3
<1>3. ASSUME NEW k \in 1 .. Len(prog.code[b]), Stores(prog.code[b][k], x), Done(b, k)'
      PROVE  x \in keys'
  <2>1. CASE Done(b, k)
    BY <1>1, <1>3, <2>1 DEF KeysInv
  <2>2. CASE (RenameLoad \/ RenameStore) /\ b = Current /\ k = at
    <3>1. code[Current][at] = prog.code[b][k]
      BY <2>2, InstructionAt
    <3>2. ~ RenameLoad
      BY <1>3, <3>1 DEF RenameLoad, Stores
    <3> QED
      BY <1>1, <1>3, <2>2, <3>1, <3>2 DEF Stores
  <2> QED
    BY <1>3, <2>1, <2>2, DoneIs
<1> QED
    BY <1>2, <1>3

(* Only FillPhis makes a block one that has filled its successors' phis.    *)
LEMMA FilledIs ==
    ASSUME TypeOK, TypeOK', TablesInv, CallsInv, [Pass]_vars, NEW p \in Blocks, Filled(p)'
    PROVE  pc # "phi" /\ (Filled(p) \/ (FillPhis /\ p = Current))
<1>1. /\ ~ EnterBlock => Unseen' = Unseen
      /\ EnterBlock => Unseen' = Unseen \ {Current} /\ Current \in Unseen /\ Current' = Current
    BY CallsStep
<1>2. CASE EnterBlock
    BY <1>1, <1>2 DEF Filled, EnterBlock
<1>3. CASE FillPhis
    BY <1>1, <1>3 DEF Filled, FillPhis, EnterBlock
<1>4. CASE AbortFill
  <2>1. Unseen' = Unseen /\ Current' = Current /\ pc = "body" /\ pc' = "abort"
    BY <1>1, <1>4 DEF AbortFill, EnterBlock, Current
  <2> QED
    BY <2>1 DEF Filled
<1>5. CASE RenameLoad \/ RenameStore
  <2>1. Unseen' = Unseen /\ Current' = Current /\ pc = "body" /\ pc' = "body"
    BY <1>1, <1>5 DEF RenameLoad, RenameStore, EnterBlock, Current
  <2> QED
    BY <2>1 DEF Filled
<1>6. CASE PlacePhis \/ StartRename
  <2>1. Unseen' = Unseen /\ Unseen = Blocks
    BY <1>1, <1>6 DEF PlacePhis, StartRename, EnterBlock, Unseen
  <2> QED
    BY <2>1 DEF Filled
<1>7. CASE Descend \/ Leave \/ RemoveAllocas \/ UNCHANGED vars
  <2>1. pc \in {"body", "abort"} => pc' = pc /\ calls' = calls
    BY <1>7 DEF Descend, Leave, RemoveAllocas, vars, passVars
  <2>2. pc = "phi" => pc' = "phi"
    BY <1>7 DEF Descend, Leave, RemoveAllocas, vars, passVars
  <2>3. Unseen' = Unseen
    <3>1. ~ EnterBlock
      BY <1>7 DEF Descend, Leave, RemoveAllocas, vars, passVars, EnterBlock
    <3> QED
      BY <1>1, <3>1
  <2>4. pc \in {"body", "abort"} => Current' = Current
    BY <2>1 DEF Current
  <2> QED
    BY <2>1, <2>2, <2>3, <2>4 DEF Filled, Unseen
<1> QED
    BY <1>2, <1>3, <1>4, <1>5, <1>6, <1>7 DEF Pass, Rename

(* A block gives their operands to all phis of its successors whose         *)
(* variable has a value there.                                              *)
LEMMA FilledStep ==
    ASSUME TypeOK, TypeOK', TablesInv, CallsInv, KeysInv, FilledInv, [Pass]_vars
    PROVE  FilledInv'
<1>1. prog' = prog /\ Succ' = Succ
    BY TablesKept
<1>2. CASE FillPhis
  <2>1. /\ args' = [f \in Phis |-> IF f \in ToFill
                                   THEN [args[f] EXCEPT ![Current] = Top(f[2])]
                                   ELSE args[f]]
        /\ phis' = phis /\ pc = "body" /\ at > Len(code[Current])
    BY <1>2 DEF FillPhis
  <2>2. /\ Current \in Blocks /\ Len(calls) \in 1 .. Len(calls) /\ Current = calls[Len(calls)].bb
        /\ code[Current] = prog.code[Current] /\ Len(code[Current]) \in Nat /\ at \in Nat
    BY <2>1, InBody
  <2>3. ASSUME NEW f \in Phis, NEW p \in Blocks
        PROVE  args'[f][p] = IF f \in ToFill /\ p = Current THEN Top(f[2]) ELSE args[f][p]
    BY <2>1 DEF TypeOK
  <2>4. ASSUME NEW f \in Phis, NEW p \in Blocks, args'[f][p] # Undef
        PROVE  f[1] \in Succ[p]
    BY <2>3, <2>4 DEF FilledInv, ToFill
  <2>5. ASSUME NEW f \in phis, f \in ToFill PROVE Top(f[2]) # Undef
    <3>1. f[2] \in Vars
      BY DEF TypeOK, Phis
    <3>2. Top(f[2]) \in Vals
      BY <3>1, TopIs
    <3> QED
      BY <3>2, ValsAssumption DEF Vals
  <2>6. ASSUME NEW f \in phis, f[1] \in Succ[Current], NEW d \in Blocks, Defines(d, f[2]),
               Dominates(Succ, d, Current)
        PROVE  f \in ToFill
    <3>1. f[2] \in Vars
      BY DEF TypeOK, Phis
    <3>2. d \notin Unseen
      BY <2>1, <2>2, <2>6, DominatorsAreSeen DEF Unseen
    <3>3. CASE <<d, f[2]>> \in phis
      BY <2>6, <3>1, <3>2, <3>3 DEF KeysInv, ToFill
    <3>4. CASE d \in StoreBlocks(prog, f[2])
      <4>1. PICK k \in 1 .. Len(prog.code[d]) : Stores(prog.code[d][k], f[2])
        BY <3>4 DEF StoreBlocks
      <4>2. d = Current => k < at
        BY <2>1, <2>2
      <4>3. Done(d, k)
        BY <2>2, <3>2, <4>2 DEF Done
      <4> QED
        BY <2>6, <3>1, <4>1, <4>3 DEF KeysInv, ToFill
    <3> QED
      BY <2>6, <3>3, <3>4 DEF Defines
  <2>7. ASSUME NEW f \in phis, NEW p \in Blocks, NEW d \in Blocks, Filled(p)',
               f[1] \in Succ[p], Defines(d, f[2]), Dominates(Succ, d, p)
        PROVE  args'[f][p] # Undef
    <3>1. f \in Phis
      BY DEF TypeOK
    <3>2. Filled(p) \/ p = Current
      BY <2>7, FilledIs
    <3>3. CASE f \in ToFill /\ p = Current
      BY <2>3, <2>5, <3>1, <3>3
    <3>4. CASE ~ (f \in ToFill /\ p = Current)
      BY <2>3, <2>6, <2>7, <3>1, <3>2, <3>4 DEF FilledInv
    <3> QED
      BY <3>3, <3>4
  <2>8. \A d, x : Defines(d, x)' <=> Defines(d, x)
    BY <1>1, <2>1 DEF Defines
  <2> QED
    BY <1>1, <2>1, <2>4, <2>7, <2>8 DEF FilledInv
<1>3. CASE ~ FillPhis
  <2>1. args' = args
    BY <1>3 DEF Pass, Rename, PlacePhis, StartRename, EnterBlock, RenameLoad, RenameStore,
                AbortFill, Descend, Leave, RemoveAllocas, vars, passVars
  <2>2. pc # "phi" => phis' = phis
    BY <1>3 DEF Pass, Rename, PlacePhis, StartRename, EnterBlock, RenameLoad, RenameStore,
                AbortFill, Descend, Leave, RemoveAllocas, vars, passVars
  <2>3. ASSUME NEW f \in phis', NEW p \in Blocks, NEW d \in Blocks, Filled(p)',
               f[1] \in Succ[p], Defines(d, f[2])', Dominates(Succ, d, p)
        PROVE  args[f][p] # Undef
    <3>1. Filled(p) /\ phis' = phis
      BY <1>3, <2>2, <2>3, FilledIs
    <3>2. Defines(d, f[2])
      BY <1>1, <2>3, <3>1 DEF Defines
    <3> QED
      BY <2>3, <3>1, <3>2 DEF FilledInv
  <2> QED
    BY <1>1, <2>1, <2>3 DEF FilledInv
<1> QED
    BY <1>2, <1>3

CompleteInv == WalkInv /\ OperandsInv

(* At the start the work lists hold the stores' blocks, and no phi is       *)
(* placed.                                                                  *)
LEMMA CompleteInit == Init => CompleteInv
<1> SUFFICES ASSUME Init PROVE CompleteInv
    OBVIOUS
<1>1. /\ phis = {} /\ pc = "phi"
      /\ \A x \in Vars : work[x] = StoreBlocks(prog, x)
      /\ \A f \in Phis, p \in Blocks : args[f][p] = Undef
    BY DEF Init, PassInit
<1>2. Unseen = Blocks
    BY <1>1 DEF Unseen
<1>3. SourcesInv
    BY <1>1 DEF SourcesInv, Defines
<1>4. KeysInv /\ FilledInv
    BY <1>1, <1>2 DEF KeysInv, FilledInv, Done, Filled
<1> QED
    BY <1>3, <1>4, WalkInit DEF CompleteInv, OperandsInv

(* Every step keeps what is known of the phis.                              *)
LEMMA CompleteStep == CompleteInv /\ [Pass]_vars => CompleteInv'
<1> SUFFICES ASSUME CompleteInv, [Pass]_vars PROVE CompleteInv'
    OBVIOUS
<1>1. WalkInv /\ WalkInv' /\ SourcesInv /\ KeysInv /\ FilledInv
    BY WalkStep DEF CompleteInv, OperandsInv
<1>2. TypeOK /\ TypeOK' /\ TablesInv /\ CallsInv
    BY <1>1 DEF WalkInv
<1> QED
    BY <1>1, <1>2, SourcesStep, KeysStep, FilledStep DEF CompleteInv, OperandsInv

(* It is an invariant of the pass.                                          *)
LEMMA CompleteAlways == Spec => []CompleteInv
    BY CompleteInit, CompleteStep, PTL DEF Spec

(* In the end every block has filled its successors' phis.                  *)
LEMMA AllFilled ==
    ASSUME CallsInv, pc = "done", NEW p \in Blocks
    PROVE  Filled(p) /\ Unseen = {} /\ calls = << >>
    BY DEF Filled, Unseen, Below, CallsInv

(* Every phi is printed with exactly its block's predecessors and has an    *)
(* operand: the predecessor that put its block on a frontier gives it one.  *)
(* If every variable was given a value first, all predecessors do.          *)
THEOREM OperandsComplete == Spec => []PhisComplete
<1>1. CompleteInv => PhisComplete
  <2> SUFFICES ASSUME CompleteInv, pc = "done", NEW f \in phis
               PROVE  /\ PrintedWith(f) = Preds(Succ, f[1])
                      /\ Given(f) # {}
                      /\ WrittenFirst => Given(f) = Preds(Succ, f[1])
    BY DEF PhisComplete
  <2>1. /\ TypeOK /\ TablesInv /\ CallsInv /\ SourcesInv /\ FilledInv /\ IsFunctionCfg(Succ)
    BY ProgramIs DEF CompleteInv, WalkInv, OperandsInv
  <2>2. f \in Phis /\ f[1] \in Blocks /\ f[2] \in Vars
    BY <2>1 DEF TypeOK, Phis
  <2>3. Given(f) \subseteq Preds(Succ, f[1])
    BY <2>1, <2>2 DEF Given, FilledInv, Preds
  <2>4. PrintedWith(f) = Preds(Succ, f[1])
    <3>1. IsFiniteSet(Preds(Succ, f[1]))
      BY BlocksAssumption, FS_Subset DEF Preds
    <3>2. /\ Cardinality(Given(f)) \in Nat /\ Cardinality(Preds(Succ, f[1])) \in Nat
          /\ Cardinality(Given(f)) <= Cardinality(Preds(Succ, f[1]))
          /\ Cardinality(Given(f)) = Cardinality(Preds(Succ, f[1])) => Given(f) = Preds(Succ, f[1])
      BY <2>3, <3>1, FS_Subset, FS_CardinalityType
    <3> QED
      BY <2>3, <3>2 DEF PrintedWith
  <2>5. ASSUME NEW p \in Blocks, NEW d \in Blocks, f[1] \in Succ[p], Defines(d, f[2]),
               Dominates(Succ, d, p)
        PROVE  p \in Given(f)
    BY <2>1, <2>5, AllFilled DEF FilledInv, Given
  <2>6. Given(f) # {}
    <3>1. PICK d \in Blocks : Defines(d, f[2]) /\ f[1] \in df[d]
      BY <2>1 DEF SourcesInv
    <3>2. PICK p \in Blocks : f[1] \in Succ[p] /\ Dominates(Succ, d, p)
      BY <2>1, <3>1 DEF TablesInv, DominanceFrontier, Preds
    <3> QED
      BY <2>5, <3>1, <3>2
  <2>7. ASSUME WrittenFirst PROVE Given(f) = Preds(Succ, f[1])
    <3>1. Root \in StoreBlocks(prog, f[2])
      BY <2>2, <2>7, RootAssumption DEF WrittenFirst, StoreBlocks
    <3>2. ASSUME NEW p \in Preds(Succ, f[1]) PROVE p \in Given(f)
      BY <2>1, <2>5, <3>1, RootAssumption, DominanceReflexive DEF Defines, Preds
    <3> QED
      BY <2>3, <3>2
  <2> QED
    BY <2>4, <2>6, <2>7
<1> QED
    BY <1>1, CompleteAlways, PTL

-----------------------------------------------------------------------------
(****************************************************************************)
(* Programs that write every variable first.                                *)
(****************************************************************************)

(* Re_name does not abort, no load is replaced by what lies before an empty *)
(* stack, each instruction it has passed is marked for deletion, and the    *)
(* blocks it has left are empty.                                            *)
WrittenInv ==
    /\ AssertHolds
    /\ \A n \in Names : subst[n] # Garbage
    /\ \A x \in Vars : \A k \in 1 .. Len(stacks[x]) : stacks[x][k] # Garbage
    /\ \A b \in Blocks : \A k \in 1 .. Len(prog.code[b]) : Done(b, k) => prog.code[b][k] \in dead
    /\ \A b \in Blocks :
          b \in Unseen \/ (\E n \in 1 .. Len(calls) : b = calls[n].bb) \/ code[b] = << >>

(* A variable the entry block has written has a value and an entry.         *)
LEMMA HasValue ==
    ASSUME WalkInv, KeysInv, pc = "body", NEW x \in Vars, NEW k \in 1 .. Len(prog.code[Root]),
           Stores(prog.code[Root][k], x), Current = Root => k < at
    PROVE  stacks[x] # << >> /\ x \in keys
<1>1. /\ TypeOK /\ TablesInv /\ CallsInv /\ HeightInv
    BY DEF WalkInv
<1>2. /\ Len(calls) \in 1 .. Len(calls) /\ Current = calls[Len(calls)].bb /\ Len(calls) \in Nat
      /\ at \in Nat /\ k \in Nat /\ calls # << >>
      /\ Begun = Len(calls)
    BY <1>1, InBody, BegunIs
<1>3. calls[1].bb = Root /\ 1 \in 1 .. Len(calls)
    BY <1>1, <1>2 DEF CallsInv, IsBranch
<1>4. code[Root] = prog.code[Root] /\ Len(code[Root]) \in Nat
  <2>1. code[Root] = prog.code[Root]
    BY <1>1, <1>3, RootAssumption DEF CallsInv, CodeKept
  <2> QED
    BY <1>1, <2>1, RootAssumption, LenProperties DEF TypeOK
<1>5. k \in 1 .. Reached(1)
  <2>1. CASE Len(calls) = 1
    BY <1>2, <1>3, <2>1 DEF Reached
  <2>2. CASE Len(calls) # 1
    BY <1>2, <1>3, <1>4, <2>2 DEF Reached
  <2> QED
    BY <2>1, <2>2
<1>6. k \in Pushes(x)[1]
    BY <1>3, <1>4, <1>5 DEF Pushes, PushedBy
<1>7. <<1, k>> \in Heap(Pushes(x), Begun)
    BY <1>2, <1>3, <1>6 DEF Heap
<1>8. Height(Pushes(x), Begun) # 0
  <2>1. IsFiniteSet(Heap(Pushes(x), Begun))
    BY <1>1, <1>2, PushesAre, HeightStep
  <2> QED
    BY <1>7, <2>1, FS_EmptySet DEF Height
<1>9. stacks[x] # << >>
    BY <1>1, <1>8, EmptySeq DEF HeightInv, TypeOK
<1>10. x \in keys
  <2>1. Root \notin Below(Succ, calls)
    BY <1>1, <1>3, CallsAreSeen
  <2>2. Done(Root, k)
    BY <1>2, <2>1 DEF Done, Unseen
  <2> QED
    BY <2>2, RootAssumption DEF KeysInv
<1> QED
    BY <1>9, <1>10

(* A variable has a value when it is loaded, and at the end of a block.     *)
LEMMA WrittenValue ==
    ASSUME WalkInv, KeysInv, WrittenFirst, pc = "body", NEW x \in Vars,
           \/ at > Len(code[Current])
           \/ at <= Len(code[Current]) /\ LET i == code[Current][at] IN i.op = "load" /\ i.var = x
    PROVE  stacks[x] # << >> /\ x \in keys
<1>1. PICK k \in 1 .. Len(prog.code[Root]) :
         /\ Stores(prog.code[Root][k], x)
         /\ \A j \in 1 .. k : prog.code[Root][j].var = x => prog.code[Root][j].op = "store"
    BY DEF WrittenFirst
<1>2. /\ code[Current] = prog.code[Current] /\ at \in Nat \ {0} /\ Len(code[Current]) \in Nat
      /\ at <= Len(code[Current]) => at \in 1 .. Len(prog.code[Current])
    BY InBody DEF WalkInv
<1>3. ASSUME Current = Root PROVE k < at
  <2>1. CASE at > Len(code[Current])
    BY <1>2, <1>3, <2>1
  <2>2. CASE at <= Len(code[Current])
    <3>1. prog.code[Root][at].op = "load" /\ prog.code[Root][at].var = x
      BY <1>2, <1>3, <2>2
    <3>2. at \notin 1 .. k
      BY <1>1, <3>1
    <3> QED
      BY <1>2, <3>2
  <2> QED
    BY <1>2, <2>1, <2>2
<1> QED
    BY <1>1, <1>3, HasValue

(* Every step keeps that nothing is read that was not written.              *)
LEMMA WrittenStep ==
    ASSUME WalkInv, WalkInv', KeysInv, WrittenFirst, WrittenInv, [Pass]_vars
    PROVE  WrittenInv'
<1> DEFINE i == code[Current][at]
<1>1. TypeOK /\ TypeOK' /\ TablesInv /\ TablesInv' /\ CallsInv /\ CallsInv' /\ HeightInv
    BY DEF WalkInv
<1>2. prog' = prog /\ Succ' = Succ
    BY <1>1, TablesKept
<1>3. AssertHolds'
  <2>1. ~ AbortFill
    <3>1. ASSUME AbortFill PROVE FALSE
      <4>1. /\ pc = "body" /\ at > Len(code[Current])
            /\ \E f \in ToFill : stacks[f[2]] = << >>
        BY <3>1 DEF AbortFill
      <4>2. \A f \in ToFill : f[2] \in Vars
        BY <1>1 DEF ToFill, TypeOK, Phis
      <4> QED
        BY <4>1, <4>2, WrittenValue
    <3> QED
      BY <3>1
  <2> QED
    BY <2>1 DEF AssertHolds, WrittenInv, Pass, Rename, PlacePhis, StartRename, EnterBlock, RenameLoad,
           RenameStore, FillPhis, Descend, Leave, Returned, RemoveAllocas, vars, passVars
<1>4. ASSUME RenameLoad
      PROVE  /\ i.var \in Vars /\ i.val \in Names
             /\ subst' = [subst EXCEPT ![i.val] = Top(i.var)] /\ dead' = dead \cup {i}
             /\ Top(i.var) # Garbage
  <2>1. /\ i.var \in Vars /\ i.val \in Names /\ i.op = "load" /\ pc = "body"
        /\ at <= Len(code[Current])
    BY <1>1, <1>4, InstructionAt
  <2> DEFINE x == i.var
  <2>2. x \in Vars /\ i.var = x
    BY <2>1
  <2> HIDE DEF x
  <2>3. stacks[x] # << >> /\ x \in keys
    BY <2>1, <2>2, WrittenValue
  <2>4. subst' = [subst EXCEPT ![i.val] = Top(i.var)] /\ dead' = dead \cup {i}
    BY <1>4, <2>2, <2>3 DEF RenameLoad, Awaiting
  <2>5. Top(x) # Garbage
    BY <1>1, <2>2, <2>3, TopIs DEF Top, WrittenInv
  <2> QED
    BY <2>1, <2>2, <2>4, <2>5
<1>5. ASSUME NEW n \in Names PROVE subst'[n] # Garbage
  <2>1. CASE RenameLoad
    <3> HIDE DEF i
    <3> QED
      BY <1>1, <1>4, <2>1 DEF WrittenInv, TypeOK
  <2>2. CASE ~ RenameLoad
    <3>1. subst' = subst
      BY <2>2 DEF Pass, Rename, PlacePhis, StartRename, EnterBlock, RenameStore, FillPhis,
                  AbortFill, Descend, Leave, RemoveAllocas, vars, passVars
    <3> QED
      BY <3>1 DEF WrittenInv
  <2> QED
    BY <2>1, <2>2
<1>6. ASSUME NEW x \in Vars, NEW k \in 1 .. Len(stacks'[x]) PROVE stacks'[x][k] # Garbage
  <2>0. stacks[x] \in Seq(Vals) /\ Len(stacks[x]) \in Nat /\ Len(stacks'[x]) \in Nat
    BY <1>1, LenProperties DEF TypeOK
  <2>1. CASE EnterBlock
    <3>1. Current \in Blocks
      BY <1>1, <2>1, CallIs DEF EnterBlock, TypeOK
    <3>2. <<Current, x>> \in Vals /\ <<Current, x>> # Garbage
      BY <3>1, ValsAssumption DEF Vals, Phis
    <3>3. stacks'[x] = stacks[x] \/ stacks'[x] = Append(stacks[x], <<Current, x>>)
      BY <2>1 DEF EnterBlock
    <3>4. CASE stacks'[x] = Append(stacks[x], <<Current, x>>)
      <4>1. k \in 1 .. Len(stacks[x]) \/ k = Len(stacks[x]) + 1
        BY <2>0, <3>2, <3>4, AppendProperties
      <4> QED
        BY <2>0, <3>2, <3>4, <4>1, AppendProperties DEF WrittenInv
    <3> QED
      BY <1>6, <3>3, <3>4 DEF WrittenInv
  <2>2. CASE RenameStore
    <3>1. i.var \in Vars /\ i.val \in Names
      BY <1>1, <2>2, InstructionAt
    <3>2. Operand(i.val) \in Vals /\ Operand(i.val) # Garbage
      BY <1>1, <3>1 DEF Operand, TypeOK, WrittenInv
    <3>3. stacks' = [stacks EXCEPT ![i.var] = Append(stacks[i.var], Operand(i.val))]
      BY <2>2 DEF RenameStore
    <3> HIDE DEF i
    <3>4. stacks'[x] = stacks[x] \/ stacks'[x] = Append(stacks[x], Operand(i.val))
      BY <1>1, <3>1, <3>3 DEF TypeOK
    <3>5. CASE stacks'[x] = Append(stacks[x], Operand(i.val))
      <4>1. k \in 1 .. Len(stacks[x]) \/ k = Len(stacks[x]) + 1
        BY <2>0, <3>2, <3>5, AppendProperties
      <4> QED
        BY <2>0, <3>2, <3>5, <4>1, AppendProperties DEF WrittenInv
    <3> QED
      BY <1>6, <3>4, <3>5 DEF WrittenInv
  <2>3. CASE Leave
    <3>1. /\ Len(stacks'[x]) <= Len(stacks[x])
          /\ \A j \in 1 .. Len(stacks'[x]) : stacks'[x][j] = stacks[x][j]
      BY <1>1, <2>3, HeightsLeave
    <3> QED
      BY <1>6, <2>0, <3>1 DEF WrittenInv
  <2>4. CASE ~ (EnterBlock \/ RenameStore \/ Leave)
    <3>1. stacks' = stacks
      BY <2>4 DEF Pass, Rename, PlacePhis, StartRename, RenameLoad, FillPhis,
                  AbortFill, Descend, RemoveAllocas, vars, passVars
    <3> QED
      BY <1>6, <3>1 DEF WrittenInv
  <2> QED
    BY <2>1, <2>2, <2>3, <2>4
<1>7. ASSUME NEW b \in Blocks, NEW k \in 1 .. Len(prog.code[b]), Done(b, k)'
      PROVE  prog.code[b][k] \in dead'
  <2>1. dead \subseteq dead'
    BY DEF Pass, Rename, PlacePhis, StartRename, EnterBlock, RenameLoad, RenameStore, FillPhis,
           AbortFill, Descend, Leave, RemoveAllocas, Awaiting, vars, passVars
  <2>2. CASE Done(b, k)
    BY <2>1, <2>2 DEF WrittenInv
  <2>3. CASE (RenameLoad \/ RenameStore) /\ b = Current /\ k = at
    <3>1. i = prog.code[b][k]
      BY <1>1, <2>3, InstructionAt
    <3>2. i \in dead'
      BY <1>4, <2>3 DEF RenameStore, Awaiting
    <3> QED
      BY <3>1, <3>2
  <2> QED
    BY <1>1, <1>7, <2>2, <2>3, DoneIs
<1>8. ASSUME NEW b \in Blocks, b \notin Unseen', ~ \E n \in 1 .. Len(calls') : b = calls'[n].bb
      PROVE  code'[b] = << >>
  <2>1. CASE Leave
    <3>0. Unseen' = Unseen
      BY <1>1, <1>2, <2>1, CallsLeave
    <3>1. /\ code' = [code EXCEPT ![Current] = Undeleted(@)] /\ pc = "down" /\ calls # << >>
          /\ Current = calls[Len(calls)].bb
      BY <1>1, <2>1 DEF Leave, Current, TypeOK
    <3>2. /\ Len(calls') = Len(calls) - 1 /\ Len(calls) \in 1 .. Len(calls)
          /\ \A n \in 1 .. Len(calls) - 1 : calls'[n] = calls[n]
      BY <1>1, <2>1, AfterLeave
    <3>3. Current \in Blocks /\ code[Current] \in Seq(Instrs) /\ code[Current] = prog.code[Current]
      BY <1>1, <3>1, <3>2, CallIs DEF CallsInv, CodeKept, TypeOK
    <3>4. CASE b = Current
      <4>1. \A k \in 1 .. Len(prog.code[Current]) : Done(Current, k)
        BY <1>8, <3>0, <3>1, <3>4 DEF Done
      <4>2. \A k \in 1 .. Len(code[Current]) : code[Current][k] \in dead
        BY <3>3, <4>1 DEF WrittenInv
      <4>3. Undeleted(code[Current]) = << >>
        BY <3>3, <4>2, UndeletedIs
      <4> QED
        BY <1>1, <3>1, <3>3, <3>4, <4>3 DEF TypeOK
    <3>5. CASE b # Current
      <4>1. ~ \E n \in 1 .. Len(calls) : b = calls[n].bb
        BY <1>8, <3>1, <3>2, <3>5
      <4>2. code'[b] = code[b]
        BY <1>1, <3>1, <3>5 DEF TypeOK
      <4> QED
        BY <1>8, <3>0, <4>1, <4>2 DEF WrittenInv
    <3> QED
      BY <3>4, <3>5
  <2>2. CASE EnterBlock
    <3>1. Unseen' = Unseen \ {Current} /\ code' = code /\ calls' = calls /\ pc = "enter"
      BY <1>1, <2>2, CallsStep DEF EnterBlock
    <3>2. Len(calls) \in 1 .. Len(calls) /\ Current = calls[Len(calls)].bb
      BY <1>1, <3>1, CallIs DEF TypeOK, Current
    <3> QED
      BY <1>8, <3>1, <3>2 DEF WrittenInv
  <2>3. CASE Descend
    <3>1. /\ Len(calls') = Len(calls) + 1 /\ Len(calls) \in Nat
          /\ \A n \in 1 .. Len(calls) : calls'[n].bb = calls[n].bb
      BY <1>1, <2>3, AfterDescend, EachCall
    <3>2. code' = code /\ Unseen' = Unseen
      BY <1>1, <1>2, <2>3, CallsDescend DEF Descend
    <3> QED
      BY <1>8, <3>1, <3>2 DEF WrittenInv
  <2>4. CASE StartRename
    <3>1. Unseen' = Unseen /\ Unseen = Blocks
      BY <1>1, <1>2, <2>4, CallsStart DEF StartRename, Unseen
    <3> QED
      BY <1>8, <3>1
  <2>5. CASE ~ (Leave \/ EnterBlock \/ Descend \/ StartRename)
    <3>1. code' = code /\ calls' = calls
      BY <2>5 DEF Pass, Rename, PlacePhis, RenameLoad, RenameStore, FillPhis,
                  AbortFill, RemoveAllocas, vars, passVars
    <3>2. Unseen' = Unseen
      BY <1>1, <2>5, CallsStep
    <3> QED
      BY <1>8, <3>1, <3>2 DEF WrittenInv
  <2> QED
    BY <2>1, <2>2, <2>3, <2>4, <2>5
<1> QED
    BY <1>2, <1>3, <1>5, <1>6, <1>7, <1>8 DEF WrittenInv

PassInv == /\ ValuesInv
           /\ OperandsInv
           /\ WrittenFirst => WrittenInv

(* It holds before the pass.                                                *)
LEMMA PassStarts == Init => PassInv
<1> SUFFICES ASSUME Init PROVE PassInv
    OBVIOUS
<1>1. ValuesInv /\ OperandsInv
    BY WalkInit, ValuesInit, CompleteInit DEF ValuesInv, CompleteInv
<1>2. /\ pc = "phi" /\ \A n \in Names : subst[n] = n
      /\ \A x \in Vars : stacks[x] = << >>
    BY DEF Init, PassInit
<1>3. Unseen = Blocks
    BY <1>2 DEF Unseen
<1>4. \A n \in Names : subst[n] # Garbage
    BY <1>2, ValsAssumption
<1>5. \A x \in Vars : \A k \in 1 .. Len(stacks[x]) : stacks[x][k] # Garbage
    BY <1>2
<1>6. WrittenInv
    BY <1>2, <1>3, <1>4, <1>5 DEF WrittenInv, AssertHolds, Done
<1> QED
    BY <1>1, <1>6 DEF PassInv

(* The invariant of the pass: types, tables and calls of the walk, heights  *)
(* of the stacks, values, operands of phis, and what follows when all       *)
(* variables are written first.                                             *)
THEOREM PassInvariant == Spec => []PassInv
<1>1. PassInv /\ [Pass]_vars => PassInv'
  <2> SUFFICES ASSUME PassInv, [Pass]_vars PROVE PassInv'
    OBVIOUS
  <2>1. ValuesInv /\ ValuesInv' /\ WalkInv /\ WalkInv' /\ TablesInv /\ KeysInv
    BY ValuesStep DEF PassInv, ValuesInv, WalkInv, OperandsInv
  <2>2. OperandsInv'
    BY <2>1, CompleteStep DEF PassInv, CompleteInv
  <2>3. WrittenFirst' = WrittenFirst
    BY <2>1, TablesKept DEF WrittenFirst, Stores
  <2>4. WrittenFirst => WrittenInv'
    BY <2>1, WrittenStep DEF PassInv
  <2> QED
    BY <2>1, <2>2, <2>3, <2>4 DEF PassInv
<1> QED
    BY <1>1, PassStarts, PTL DEF Spec

(* In a program that writes every variable first, the assertion of re_name  *)
(* holds, every load and store is deleted, and no load was replaced by what *)
(* lies before an empty stack.                                              *)
THEOREM NoneLeft == Spec => []NothingDangles
<1>1. PassInv => NothingDangles
  <2> SUFFICES ASSUME PassInv, WrittenFirst
               PROVE  /\ AssertHolds
                      /\ pc = "done" => /\ \A b \in Blocks : code[b] = << >>
                                        /\ \A n \in Names : subst[n] # Garbage
    BY DEF NothingDangles
  <2>1. WrittenInv /\ CallsInv
    BY DEF PassInv, ValuesInv, WalkInv
  <2>2. ASSUME pc = "done", NEW b \in Blocks PROVE code[b] = << >>
    BY <2>1, <2>2, AllFilled DEF WrittenInv
  <2> QED
    BY <2>1, <2>2 DEF WrittenInv
<1> QED
    BY <1>1, PassInvariant, PTL

-----------------------------------------------------------------------------
(****************************************************************************)
(* Optimizer implements Mem2Reg.                                            *)
(****************************************************************************)

(* The analysis, with what is proved about it.                              *)
DP == INSTANCE DominatorsProofs WITH succ <- prog.succ, pc <- dpc, frontier <- df,
          children <- kids, Graphs <- {p.succ : p \in Programs}

(* What DominatorsProofs assumes of its constants holds of the ones it is   *)
(* given here.                                                              *)
LEMMA AnalysedGraphs ==
    /\ DP!IsFiniteSet(Blocks)
    /\ \A g \in {p.succ : p \in Programs} : DP!IsFunctionCfg(g)
<1>1. DP!IsFiniteSet(Blocks)
    BY BlocksAssumption DEF IsFiniteSet, DP!IsFiniteSet
<1> QED
    BY <1>1, ProgramsAssumption DEF IsFunctionCfg, DP!IsFunctionCfg, AllReachable, DP!AllReachable

(* The analysis of the composition is the one the proofs are about.         *)
LEMMA AnalysisIs == D!Init => DP!Init
    BY DEF D!Init, DP!Init

(* Each of its steps is one of theirs.                                      *)
LEMMA AnalysisSteps == D!Next => DP!Next
<1> SUFFICES ASSUME D!Next PROVE DP!Next
    OBVIOUS
<1> USE DEF D!Top, DP!Top, D!Swept, DP!Swept, D!Preds, DP!Preds, D!Processed, DP!Processed,
            D!dfsVars, DP!dfsVars, D!idomVars, DP!idomVars, D!frontVars, DP!frontVars
<1>1. D!Visit => DP!Visit
    BY DEF D!Visit, DP!Visit
<1>2. D!Number => DP!Number
    BY DEF D!Number, DP!Number, D!NextId, DP!NextId
<1>3. D!StartIdom => DP!StartIdom
    BY DEF D!StartIdom, DP!StartIdom
<1>4. D!SkipRoot => DP!SkipRoot
    BY DEF D!SkipRoot, DP!SkipRoot, D!Following, DP!Following
<1>5. D!PickPred => DP!PickPred
    BY DEF D!PickPred, DP!PickPred, D!Others, DP!Others
<1>6. D!Intersect => DP!Intersect
    BY DEF D!Intersect, DP!Intersect
<1>7. D!ClimbFirst => DP!ClimbFirst
    BY DEF D!ClimbFirst, DP!ClimbFirst
<1>8. D!ClimbSecond => DP!ClimbSecond
    BY DEF D!ClimbSecond, DP!ClimbSecond
<1>9. D!Met => DP!Met
    BY DEF D!Met, DP!Met
<1>10. D!SetIdom => DP!SetIdom
    BY DEF D!SetIdom, DP!SetIdom, D!Following, DP!Following, D!Changed, DP!Changed
<1>11. D!SweepAgain => DP!SweepAgain
    BY DEF D!SweepAgain, DP!SweepAgain
<1>12. D!EndIdom => DP!EndIdom
    BY DEF D!EndIdom, DP!EndIdom, D!Cardinality, DP!Cardinality
<1>13. D!StartRunner => DP!StartRunner
    BY DEF D!StartRunner, DP!StartRunner, D!FirstRunner, DP!FirstRunner
<1>14. D!Run => DP!Run
    BY DEF D!Run, DP!Run
<1>15. D!StopRunner => DP!StopRunner
    BY DEF D!StopRunner, DP!StopRunner
<1>16. D!EndFrontier => DP!EndFrontier
    BY DEF D!EndFrontier, DP!EndFrontier
<1>17. D!BuildTree => DP!BuildTree
    BY DEF D!BuildTree, DP!BuildTree, D!ChildrenOf, DP!ChildrenOf
<1> QED
    BY <1>1, <1>2, <1>3, <1>4, <1>5, <1>6, <1>7, <1>8, <1>9, <1>10, <1>11, <1>12, <1>13, <1>14,
       <1>15, <1>16, <1>17, Zenon DEF D!Next, DP!Next

(* The invariant of the analysis holds in the composition.                  *)
LEMMA AnalysisInitially == OptInit => DP!AnalysisInv
    BY AnalysisIs, AnalysedGraphs, NoBlockIsNone, RootAssumption, DP!AnalysisInit DEF OptInit

(* A step of the composition is one of the analysis or leaves it alone.     *)
LEMMA AnalysisMoves == [OptNext]_optVars => [DP!Next]_DP!vars
<1> SUFFICES ASSUME [OptNext]_optVars PROVE [DP!Next]_DP!vars
    OBVIOUS
<1>1. CASE Analyse
    BY <1>1, AnalysisSteps DEF Analyse
<1>2. CASE Optimize
  <2>1. UNCHANGED <<prog, df, kids>>
    BY <1>2 DEF Optimize, Pass, Rename, PlacePhis, StartRename, EnterBlock, RenameLoad,
                RenameStore, FillPhis, AbortFill, Descend, Leave, RemoveAllocas
  <2>2. UNCHANGED analysisVars
    BY <1>2 DEF Optimize
  <2> QED
    BY <2>1, <2>2 DEF analysisVars, DP!vars
<1>3. CASE UNCHANGED optVars
    BY <1>3 DEF optVars, vars, passVars, analysisVars, DP!vars
<1> QED
    BY <1>1, <1>2, <1>3 DEF OptNext

(* So every step keeps the invariant.                                       *)
LEMMA AnalysisAlways == DP!AnalysisInv /\ [OptNext]_optVars => DP!AnalysisInv'
    BY AnalysisMoves, AnalysedGraphs, NoBlockIsNone, RootAssumption, DP!AnalysisStep

(* When the analysis is done its tables are those of the graph.             *)
LEMMA TablesFound ==
    ASSUME DP!AnalysisInv, dpc = "done"
    PROVE  /\ df = Tables[prog.succ].df /\ kids = Tables[prog.succ].kids
<1>1. DP!ResultsCorrect
    BY AnalysedGraphs, NoBlockIsNone, RootAssumption, DP!AnalysisResult
<1>2. \A b \in Blocks : df[b] = DominanceFrontier(prog.succ, b) /\ kids[b] = DominatorChildren(prog.succ, b)
    BY <1>1 DEF DP!ResultsCorrect, ImmediateDominator, DominanceFrontier, DP!ImmediateDominator,
       DP!DominanceFrontier, DP!StrictlyDominates, DP!Preds, DP!DominatorChildren, DP!Dominates,
       StrictlyDominates, Preds, DominatorChildren, Dominates
<1>3. /\ df \in [Blocks -> SUBSET Blocks] /\ kids \in [Blocks -> SUBSET Blocks]
      /\ prog.succ \in {p.succ : p \in Programs}
    BY DEF DP!AnalysisInv, DP!IInv, DP!TypeOK
<1> QED
    BY <1>2, <1>3, Zenon DEF Tables

(* Until the analysis is done the tables of the pass are what it will find. *)
LEMMA AbstractTables ==
    DP!AnalysisInv => M!vars = <<passVars, Tables[prog.succ].df, Tables[prog.succ].kids>>
<1> SUFFICES ASSUME DP!AnalysisInv
             PROVE  M!vars = <<passVars, Tables[prog.succ].df, Tables[prog.succ].kids>>
    OBVIOUS
<1>1. CASE dpc = "done"
    BY <1>1, TablesFound DEF M!vars, M!passVars, passVars
<1>2. CASE dpc # "done"
    BY <1>2 DEF M!vars, M!passVars, passVars
<1> QED
    BY <1>1, <1>2

(* Before both passes the abstract pass may begin.                          *)
LEMMA RefinedInit == OptInit => M!Init
<1> SUFFICES ASSUME OptInit PROVE M!Init
    OBVIOUS
<1>1. PassInit /\ dpc = "dfs" /\ prog.succ \in {p.succ : p \in Programs}
    BY DEF OptInit, D!Init
<1>2. M!PassInit
    BY <1>1 DEF PassInit, M!PassInit, M!StoreBlocks, StoreBlocks, M!Stores, Stores, M!Phis, Phis
<1>3. /\ Tables[prog.succ].df = [b \in Blocks |-> DominanceFrontier(prog.succ, b)]
      /\ Tables[prog.succ].kids = [b \in Blocks |-> DominatorChildren(prog.succ, b)]
    BY <1>1, Zenon DEF Tables
<1> QED
    BY <1>1, <1>2, <1>3
    DEF M!Init, ImmediateDominator, DominanceFrontier, M!ImmediateDominator,
       M!DominanceFrontier, M!StrictlyDominates, M!Preds, M!DominatorChildren, M!Dominates,
       StrictlyDominates, Preds, DominatorChildren, Dominates

(* A step of the pass on the tables found is a step of the abstract pass.   *)
LEMMA RefinedPass ==
    ASSUME Pass, dpc = "done", UNCHANGED analysisVars
    PROVE  M!Pass
<1>0. dpc' = "done" /\ dpc = "done"
    BY DEF analysisVars
<1> USE <1>0
<1>1. CASE PlacePhis
  <2>1. M!PlacePhis
    BY <1>1 DEF PlacePhis, M!PlacePhis, Lacking, M!Lacking, Rest, M!Rest
  <2> QED
    BY <2>1 DEF M!Pass
<1>2. CASE StartRename
  <2>1. M!StartRename
    BY <1>2 DEF StartRename, M!StartRename
  <2> QED
    BY <2>1 DEF M!Pass
<1>3. CASE EnterBlock
  <2>1. M!EnterBlock
    BY <1>3 DEF EnterBlock, M!EnterBlock, Current, M!Current, PhisOf, M!PhisOf
  <2> QED
    BY <2>1 DEF M!Pass, M!Rename
<1>4. CASE RenameLoad
  <2>1. M!RenameLoad
    BY <1>4 DEF RenameLoad, M!RenameLoad, Awaiting, M!Awaiting, Current, M!Current, Top, M!Top
  <2> QED
    BY <2>1 DEF M!Pass, M!Rename
<1>5. CASE RenameStore
  <2>1. M!RenameStore
    BY <1>5 DEF RenameStore, M!RenameStore, Awaiting, M!Awaiting, Operand, M!Operand,
                Current, M!Current
  <2> QED
    BY <2>1 DEF M!Pass, M!Rename
<1>6. CASE FillPhis
  <2>1. M!FillPhis
    BY <1>6 DEF FillPhis, M!FillPhis, Succ, M!Succ, ToFill, M!ToFill, Current, M!Current,
                Top, M!Top, Phis, M!Phis
  <2> QED
    BY <2>1 DEF M!Pass, M!Rename
<1>7. CASE AbortFill
  <2>1. M!AbortFill
    BY <1>7 DEF AbortFill, M!AbortFill, Succ, M!Succ, ToFill, M!ToFill, Current, M!Current
  <2> QED
    BY <2>1 DEF M!Pass, M!Rename
<1>8. CASE Descend
  <2>1. M!Descend
    <3>1. PICK c \in calls[Len(calls)].todo :
              calls' = Append([calls EXCEPT ![Len(calls)].todo = @ \ {c}], [bb |-> c, todo |-> kids[c]])
      BY <1>8 DEF Descend
    <3>2. /\ pc = "down" /\ pc' = "enter"
          /\ UNCHANGED <<prog, df, kids, code, work, phis, args, keys, stacks, subst, dead, at, allocas>>
      BY <1>8 DEF Descend
    <3>3. /\ (IF dpc = "done" THEN kids ELSE Tables[prog.succ].kids)[c] = kids[c]
          /\ UNCHANGED (IF dpc = "done" THEN kids ELSE Tables[prog.succ].kids)
          /\ UNCHANGED (IF dpc = "done" THEN df ELSE Tables[prog.succ].df)
      BY <3>2
    <3>4. calls' = Append([calls EXCEPT ![Len(calls)].todo = @ \ {c}],
                     [bb |-> c, todo |-> (IF dpc = "done" THEN kids ELSE Tables[prog.succ].kids)[c]])
      BY <3>1, <3>3, Zenon
    <3> QED
      BY <3>2, <3>3, <3>4, Zenon DEF M!Descend
  <2> QED
    BY <2>1 DEF M!Pass, M!Rename
<1>9. CASE Leave
  <2>1. M!Leave
    <3>1. \A b, x : M!Pushed(b, x) = Pushed(b, x)
      BY DEF Pushed, M!Pushed, PushedBy, M!PushedBy, Stores, M!Stores, Cardinality, M!Cardinality
    <3>2. \A s : M!Undeleted(s) = Undeleted(s)
      BY DEF Undeleted, M!Undeleted
    <3>3. M!Current = Current /\ M!Returned = Returned
      BY DEF Current, M!Current, Returned, M!Returned
    <3> QED
      BY <1>9, <3>1, <3>2, <3>3 DEF Leave, M!Leave
  <2> QED
    BY <2>1 DEF M!Pass, M!Rename
<1>10. CASE RemoveAllocas
  <2>1. M!RemoveAllocas
    BY <1>10 DEF RemoveAllocas, M!RemoveAllocas
  <2> QED
    BY <2>1 DEF M!Pass
<1> QED
    BY <1>1, <1>2, <1>3, <1>4, <1>5, <1>6, <1>7, <1>8, <1>9, <1>10 DEF Pass, Rename

(* Every step is a step of the abstract pass or leaves it where it is.      *)
LEMMA RefinedStep ==
    ASSUME DP!AnalysisInv, [OptNext]_optVars
    PROVE  [M!Pass]_M!vars
<1>1. DP!AnalysisInv'
    BY AnalysisAlways
<1>0. (DP!AnalysisInv => M!vars = <<passVars, Tables[prog.succ].df, Tables[prog.succ].kids>>)'
    BY AbstractTables, PTL
<1>2. M!vars' = <<passVars', Tables[prog'.succ].df, Tables[prog'.succ].kids>>
    BY <1>0, <1>1 DEF Tables
<1>3. ASSUME UNCHANGED passVars PROVE UNCHANGED M!vars
  <2>1. prog' = prog
    BY <1>3 DEF passVars
  <2> QED
    BY <1>2, <1>3, <2>1, AbstractTables
<1>4. CASE Analyse
    BY <1>3, <1>4 DEF Analyse
<1>5. CASE Optimize
    BY <1>5, RefinedPass DEF Optimize
<1>6. CASE UNCHANGED optVars
    BY <1>3, <1>6 DEF optVars, vars
<1> QED
    BY <1>4, <1>5, <1>6 DEF OptNext

(* The two passes together do what the pass given the true dominance        *)
(* frontiers and dominator tree may do.                                     *)
THEOREM Implementation == OptSpec => ImplementsMem2Reg
<1>1. OptInit => M!Init /\ DP!AnalysisInv
    BY RefinedInit, AnalysisInitially
<1> QED
    BY <1>1, RefinedStep, AnalysisAlways, PTL DEF OptSpec, ImplementsMem2Reg, M!Spec

(* In the composition, too, a sweep never lowers an immediate dominator.    *)
THEOREM SweepsRaise == OptSpec => SweepsOnlyRaise
<1>1. OptInit => DP!AnalysisInv /\ DP!RiseInv
  <2>1. DP!Init => DP!RiseInv
    BY DEF DP!Init, DP!RiseInv, DP!Sweeping
  <2> QED
    BY <2>1, AnalysisInitially, AnalysisIs DEF OptInit
<1>2. DP!AnalysisInv /\ DP!RiseInv /\ [OptNext]_optVars => DP!RiseInv'
    BY AnalysisMoves, AnalysedGraphs, NoBlockIsNone, RootAssumption, DP!RiseStep
<1>3. DP!AnalysisInv /\ DP!RiseInv /\ [OptNext]_optVars => DP!Rises
    BY AnalysisMoves, AnalysedGraphs, NoBlockIsNone, RootAssumption, DP!RiseAction
<1> QED
    BY <1>1, <1>2, <1>3, AnalysisAlways, PTL
    DEF OptSpec, SweepsOnlyRaise, D!IdomOnlyRises, DP!Rises

-----------------------------------------------------------------------------
(****************************************************************************)
(* Mem2RegRun: Mem2Reg preserves what a program computes, for every program *)
(* and along every path, and the backend's copies do as long as none        *)
(* overwrites a phi that is still needed.                                   *)
(*                                                                          *)
(* A site of a variable is a store of it or its phi.  In the pass, the top  *)
(* of a stack is the value of the site that reaches the point re_name is    *)
(* at: the last of those that dominate it.  So a load is replaced by the    *)
(* value of the site that reaches it, and a phi gets that of the site that  *)
(* reaches the end of the predecessor.                                      *)
(*                                                                          *)
(* In the execution, a cell holds the value of the site that reaches the    *)
(* point executed.  An instruction keeps this; an edge does since a block   *)
(* another site could come in at is in the frontier of the one that reaches *)
(* its predecessor, and has a phi.                                          *)
(****************************************************************************)

Lines(b) == 0 .. Len(prog.code[b])

(* Line j of block d gives the variable a value; line 0 stands for the phi. *)
Site(d, j, x) == IF j = 0 THEN <<d, x>> \in phis ELSE Stores(prog.code[d][j], x)

(* Line j of d is executed whenever line k of b is, and no later.           *)
Before(d, j, b, k) == (d = b /\ j <= k) \/ StrictlyDominates(Succ, d, b)

(* It is the last site of the variable before line k of b has ended.        *)
Reaches(d, j, x, b, k) ==
    /\ Site(d, j, x) /\ Before(d, j, b, k)
    /\ \A e \in Blocks : \A i \in Lines(e) :
          Site(e, i, x) /\ Before(e, i, b, k) => Before(e, i, d, j)

None(x, b, k) == \A d \in Blocks : \A j \in Lines(d) : ~ (Site(d, j, x) /\ Before(d, j, b, k))

(* The value of a site, and the value of the site that reaches line k of b. *)
SiteVal(d, j, x) == IF j = 0 THEN <<d, x>> ELSE Operand(prog.code[d][j].val)
Holds(x, b, k, v) ==
    \E d \in Blocks : \E j \in Lines(d) :
        Done(d, j) /\ Reaches(d, j, x, b, k) /\ v = SiteVal(d, j, x)

-----------------------------------------------------------------------------
(****************************************************************************)
(* The order of the sites.                                                  *)
(****************************************************************************)

(* The lines of a block.                                                    *)
LEMMA LinesAre ==
    ASSUME TablesInv, NEW b \in Blocks
    PROVE  /\ prog.code[b] \in Seq(Instrs) /\ Len(prog.code[b]) \in Nat
           /\ Lines(b) \subseteq Nat
           /\ \A k \in 1 .. Len(prog.code[b]) : prog.code[b][k] \in Instrs
<1>1. prog.code[b] \in Seq(Instrs)
    BY ProgramIs
<1> QED
    BY <1>1, LenProperties, ElementOfSeq DEF Lines

(* Lines that come before others are ordered.                               *)
LEMMA BeforeOrder ==
    ASSUME IsFunctionCfg(Succ), NEW b \in Blocks, NEW c \in Blocks, NEW d \in Blocks,
           NEW i \in Int, NEW j \in Int, NEW k \in Int
    PROVE  /\ Before(b, i, b, i)
           /\ Before(b, i, c, j) /\ Before(c, j, d, k) => Before(b, i, d, k)
           /\ Before(b, i, c, j) /\ Before(c, j, b, i) => b = c /\ i = j
<1>1. Before(b, i, b, i)
    BY DEF Before
<1>2. ASSUME Before(b, i, c, j), Before(c, j, d, k) PROVE Before(b, i, d, k)
  <2>1. CASE b = c
    BY <1>2, <2>1 DEF Before
  <2>2. CASE c = d
    BY <1>2, <2>2 DEF Before
  <2>3. CASE b # c /\ c # d
    <3>1. b # c /\ Dominates(Succ, b, c) /\ c # d /\ Dominates(Succ, c, d)
      BY <1>2, <2>3 DEF Before, StrictlyDominates
    <3>2. Dominates(Succ, b, d) /\ b # d
      BY <3>1, DominanceTransitive, DominanceAntisymmetric
    <3> QED
      BY <3>2 DEF Before, StrictlyDominates
  <2> QED
    BY <2>1, <2>2, <2>3
<1>3. ASSUME Before(b, i, c, j), Before(c, j, b, i) PROVE b = c /\ i = j
  <2>1. b = c
    BY <1>3, DominanceAntisymmetric DEF Before, StrictlyDominates
  <2> QED
    BY <1>3, <2>1 DEF Before, StrictlyDominates
<1> QED
    BY <1>1, <1>2, <1>3

(* What comes before a line is in a block that dominates the line's.        *)
LEMMA BeforeDominates ==
    ASSUME IsFunctionCfg(Succ), NEW d \in Blocks, NEW b \in Blocks, NEW j, NEW k, Before(d, j, b, k)
    PROVE  Dominates(Succ, d, b)
    BY DominanceReflexive DEF Before, StrictlyDominates

(* One site at most reaches a line: a variable holds one value there.       *)
LEMMA HoldsOne ==
    ASSUME TablesInv, NEW x, NEW b, NEW k, NEW v, NEW w, Holds(x, b, k, v), Holds(x, b, k, w)
    PROVE  v = w
<1>1. PICK d \in Blocks : \E j \in Lines(d) : Reaches(d, j, x, b, k) /\ v = SiteVal(d, j, x)
    BY DEF Holds
<1>2. PICK j \in Lines(d) : Reaches(d, j, x, b, k) /\ v = SiteVal(d, j, x)
    BY <1>1
<1>3. PICK e \in Blocks : \E i \in Lines(e) : Reaches(e, i, x, b, k) /\ w = SiteVal(e, i, x)
    BY DEF Holds
<1>4. PICK i \in Lines(e) : Reaches(e, i, x, b, k) /\ w = SiteVal(e, i, x)
    BY <1>3
<1>5. Before(d, j, e, i) /\ Before(e, i, d, j)
    BY <1>2, <1>4 DEF Reaches
<1>6. d = e /\ i = j
    BY <1>5, LinesAre, ProgramIs, BeforeOrder
<1> QED
    BY <1>2, <1>4, <1>6

(* Where the same sites of a variable come before, the same site reaches.   *)
LEMMA SameReaches ==
    ASSUME NEW x, NEW b, NEW k, NEW c, NEW m,
           \A d \in Blocks : \A j \in Lines(d) :
               Site(d, j, x) => (Before(d, j, b, k) <=> Before(d, j, c, m))
    PROVE  /\ None(x, b, k) => None(x, c, m)
           /\ \A v : Holds(x, b, k, v) => Holds(x, c, m, v)
<1>1. None(x, b, k) => None(x, c, m)
    BY DEF None
<1>2. ASSUME NEW d \in Blocks, NEW j \in Lines(d), Reaches(d, j, x, b, k)
      PROVE  Reaches(d, j, x, c, m)
    BY <1>2 DEF Reaches
<1> QED
    BY <1>1, <1>2 DEF Holds

-----------------------------------------------------------------------------
(****************************************************************************)
(* Where values are computed.                                               *)
(****************************************************************************)

(* The block that computes a value of the result.                           *)
Origin(v) == IF v \in Names THEN prog.home[v] ELSE v[1]

(* What replaces a load is computed in a block that dominates it.           *)
LoadOrigins ==
    \A n \in Names : subst[n] \in Names \cup Phis =>
        \A b \in Blocks : \A k \in 1 .. Len(prog.code[b]) :
            LoadOf(prog.code[b][k], n) => Dominates(Succ, Origin(subst[n]), b)

(* Homes are blocks, and dominate where their value is used.                *)
LEMMA HomesAre ==
    ASSUME TablesInv
    PROVE  /\ prog.home \in [Names -> Blocks]
           /\ \A v \in Names \cup Phis : Origin(v) \in Blocks
           /\ \A b \in Blocks : \A k \in 1 .. Len(prog.code[b]) : 
                 /\ Dominates(Succ, prog.home[prog.code[b][k].val], b)
                 /\ prog.code[b][k].op = "load" => prog.home[prog.code[b][k].val] = b
<1>1. prog.home \in [Names -> Blocks] /\ HomesDominate(prog)
    BY ProgramsAssumption DEF TablesInv
<1> QED
    BY <1>1 DEF HomesDominate, Succ, Origin, Phis

(* A load has one place, and comes before the stores of its value.          *)
LEMMA LoadPlace ==
    ASSUME TablesInv, NEW b \in Blocks, NEW k \in 1 .. Len(prog.code[b]),
           NEW c \in Blocks, NEW j \in 1 .. Len(prog.code[c]),
           prog.code[b][k].op = "load", prog.code[c][j].val = prog.code[b][k].val
    PROVE  /\ prog.code[c][j].op = "load" => c = b /\ j = k
           /\ prog.code[c][j].op = "store" => (c = b /\ k < j) \/ StrictlyDominates(Succ, b, c)
<1> DEFINE n == prog.code[b][k].val
<1>1. n \in Names /\ IsSsa(prog)
    BY LinesAre, ProgramIs DEF Instrs
<1>2. LoadOf(prog.code[b][k], n) /\ prog.code[c][j].val = n
    BY DEF LoadOf
<1> HIDE DEF n
<1> QED
    BY <1>1, <1>2 DEF IsSsa, Succ

(* The value of a site is computed in a block that dominates it.            *)
LEMMA SiteOrigin ==
    ASSUME TypeOK, TablesInv, FreshInv, LoadOrigins,
           NEW x, NEW d \in Blocks, NEW j \in Lines(d), Site(d, j, x),
           SiteVal(d, j, x) \in Names \cup Phis
    PROVE  Dominates(Succ, Origin(SiteVal(d, j, x)), d)
<1>1. IsFunctionCfg(Succ)
    BY ProgramIs
<1>2. CASE j = 0
  <2>1. SiteVal(d, j, x) = <<d, x>> /\ <<d, x>> \in Phis
    BY <1>2 DEF SiteVal, Site, TypeOK
  <2>2. Origin(<<d, x>>) = d
    BY <2>1, ValsAssumption DEF Origin
  <2> QED
    BY <1>1, <2>1, <2>2, DominanceReflexive
<1>3. CASE j # 0
  <2>1. /\ j \in 1 .. Len(prog.code[d]) /\ prog.code[d][j] \in Instrs
        /\ prog.code[d][j].op = "store"
    BY <1>3, LinesAre DEF Lines, Site, Stores
  <2>2. PICK n \in Names : n = prog.code[d][j].val
    BY <2>1 DEF Instrs
  <2>3. SiteVal(d, j, x) = subst[n]
    BY <1>3, <2>2 DEF SiteVal, Operand
  <2>4. CASE subst[n] = n
    BY <2>1, <2>2, <2>3, <2>4, HomesAre DEF Origin
  <2>5. CASE subst[n] # n
    <3>1. PICK b \in Blocks : \E k \in 1 .. Len(prog.code[b]) : LoadOf(prog.code[b][k], n)
      BY <2>5 DEF FreshInv, Treated
    <3>2. PICK k \in 1 .. Len(prog.code[b]) : LoadOf(prog.code[b][k], n)
      BY <3>1
    <3>3. Dominates(Succ, Origin(subst[n]), b) /\ Origin(subst[n]) \in Blocks
      BY <2>3, <3>2, HomesAre DEF LoadOrigins
    <3>4. b = d \/ StrictlyDominates(Succ, b, d)
      BY <2>1, <2>2, <3>2, LoadPlace DEF LoadOf
    <3> QED
      BY <1>1, <2>3, <3>3, <3>4, DominanceTransitive DEF StrictlyDominates
  <2> QED
    BY <2>4, <2>5
<1> QED
    BY <1>2, <1>3

(* So it is in one that dominates where the variable holds it.              *)
LEMMA HeldOrigin ==
    ASSUME TypeOK, TablesInv, FreshInv, LoadOrigins,
           NEW x, NEW b \in Blocks, NEW k, NEW v \in Names \cup Phis, Holds(x, b, k, v)
    PROVE  Dominates(Succ, Origin(v), b)
<1>1. PICK d \in Blocks : \E j \in Lines(d) : Reaches(d, j, x, b, k) /\ v = SiteVal(d, j, x)
    BY DEF Holds
<1>2. PICK j \in Lines(d) : Reaches(d, j, x, b, k) /\ v = SiteVal(d, j, x)
    BY <1>1
<1>3. IsFunctionCfg(Succ) /\ Origin(v) \in Blocks
    BY ProgramIs, HomesAre
<1>4. Dominates(Succ, Origin(v), d)
    BY <1>2, SiteOrigin DEF Reaches
<1>5. Dominates(Succ, d, b)
    BY <1>2, <1>3, BeforeDominates DEF Reaches
<1> QED
    BY <1>3, <1>4, <1>5, DominanceTransitive

-----------------------------------------------------------------------------
(****************************************************************************)
(* The pass: what reaches the point re_name is at is on top of the stack.   *)
(****************************************************************************)

(* The loads whose values were stored have been treated.                    *)
StoresDone ==
    \A b \in Blocks : \A k \in 1 .. Len(prog.code[b]) :
        Done(b, k) /\ prog.code[b][k].op = "store" =>
            \A c \in Blocks : \A m \in 1 .. Len(prog.code[c]) :
                LoadOf(prog.code[c][m], prog.code[b][k].val) => Done(c, m)

(* Each call is on a child of its caller's block.                           *)
ChildCalls ==
    \A n \in 1 .. Len(calls) - 1 : calls[n + 1].bb \in DominatorChildren(Succ, calls[n].bb)

(* The n-th call has treated r lines of block b, and what it and those      *)
(* before it have pushed fills the stack of x up to h.                      *)
CallIsAt(n, b, r) == b = calls[n].bb /\ r = Reached(n)
FillsUpTo(x, n, h) == h = Height(Pushes(x), n)

(* The element there is what the variable holds where the call is.          *)
ElementIs(x, b, r, h) ==
    IF h = 0 THEN None(x, b, r)
    ELSE \E v \in Vals : v = stacks[x][h] /\ Holds(x, b, r, v)

StackInv ==
    \A x \in Vars : \A n \in 1 .. Begun : \A b \in Blocks : \A r, h \in Nat :
        CallIsAt(n, b, r) /\ FillsUpTo(x, n, h) => ElementIs(x, b, r, h)

(* A treated load was replaced by what its variable holds there.            *)
LoadsInv ==
    \A b \in Blocks : \A k \in 1 .. Len(prog.code[b]) : \A n \in Names, x \in Vars, v \in Vals :
        LoadOf(prog.code[b][k], n) /\ prog.code[b][k].var = x /\ Done(b, k) /\ v = subst[n] =>
            Holds(x, b, k - 1, v) \/ (None(x, b, k - 1) /\ v \in {n, Garbage})

(* An operand is what the variable holds at the end of the predecessor.     *)
FillsInv ==
    \A f \in Phis, p \in Blocks, v \in Vals, m \in Nat :
        v = args[f][p] /\ m = Len(prog.code[p]) => Holds(f[2], p, m, v)

(* The frontier of a block that gives the variable a value has its phi,     *)
(* unless the block is still in the work list.                              *)
FrontierInv ==
    /\ \A d \in Blocks, x \in Vars :
          Defines(d, x) => d \in work[x] \/ \A s \in df[d] : <<s, x>> \in phis
    /\ pc # "phi" => \A x \in Vars : work[x] = {}

(* The sites stay once the phis are placed.                                 *)
LEMMA SitesKept ==
    ASSUME TablesInv, [Pass]_vars
    PROVE  /\ prog' = prog /\ Succ' = Succ
           /\ \A b : Lines(b)' = Lines(b)
           /\ \A d, j, b, k : Before(d, j, b, k)' = Before(d, j, b, k)
           /\ pc # "phi" => 
                /\ phis' = phis
                /\ \A d, j, x : Site(d, j, x)' = Site(d, j, x)
                /\ \A d, j, x, b, k : Reaches(d, j, x, b, k) => Reaches(d, j, x, b, k)'
                /\ \A x, b, k : None(x, b, k) => None(x, b, k)'
<1>1. prog' = prog /\ Succ' = Succ
    BY TablesKept
<1>2. \A b : Lines(b)' = Lines(b)
    BY <1>1 DEF Lines
<1>3. \A d, j, b, k : Before(d, j, b, k)' = Before(d, j, b, k)
    BY <1>1 DEF Before
<1>4. ASSUME pc # "phi" 
      PROVE  /\ phis' = phis
             /\ \A d, j, x : Site(d, j, x)' = Site(d, j, x)
  <2>1. phis' = phis
    BY <1>4 DEF Pass, Rename, PlacePhis, StartRename, EnterBlock, RenameLoad, RenameStore, FillPhis,
                AbortFill, Descend, Leave, RemoveAllocas, vars, passVars
  <2> QED
    BY <1>1, <2>1 DEF Site, Stores
<1>5. ASSUME pc # "phi", NEW d, NEW j, NEW x, NEW b, NEW k, Reaches(d, j, x, b, k)
      PROVE  Reaches(d, j, x, b, k)'
    BY <1>2, <1>3, <1>4, <1>5 DEF Reaches
<1>6. ASSUME pc # "phi", NEW x, NEW b, NEW k, None(x, b, k) PROVE None(x, b, k)'
    BY <1>2, <1>3, <1>4, <1>6 DEF None
<1> QED
    BY <1>1, <1>2, <1>3, <1>4, <1>5, <1>6

(* A line that was treated remains so.                                      *)
LEMMA DoneKept ==
    ASSUME TypeOK, TypeOK', TablesInv, CallsInv, [Pass]_vars,
           NEW d \in Blocks, NEW j \in Lines(d), Done(d, j)
    PROVE  Done(d, j)' /\ pc # "phi"
<1>1. pc # "phi"
    BY DEF Done, Unseen
<1>2. CASE j = 0
  <2>1. d \notin Unseen'
    BY CallsStep DEF Done
  <2> QED
    BY <1>1, <1>2, <2>1 DEF Done, TypeOK
<1>3. CASE j # 0
  <2>1. j \in 1 .. Len(prog.code[d])
    BY <1>3, LinesAre DEF Lines
  <2> QED
    BY <1>1, <2>1, DoneStep
<1> QED
    BY <1>2, <1>3

(* What a treated site has as its value, it keeps.                          *)
LEMMA SiteValKept ==
    ASSUME TypeOK, TypeOK', TablesInv, CallsInv, StoresDone, [Pass]_vars,
           NEW x, NEW d \in Blocks, NEW j \in Lines(d), Done(d, j), Site(d, j, x)
    PROVE  SiteVal(d, j, x)' = SiteVal(d, j, x)
<1>1. prog' = prog
    BY TablesKept
<1>2. CASE j = 0
    BY <1>2 DEF SiteVal
<1>3. CASE j # 0
  <2>1. /\ j \in 1 .. Len(prog.code[d]) /\ prog.code[d][j] \in Instrs
        /\ prog.code[d][j].op = "store"
    BY <1>3, LinesAre DEF Lines, Site, Stores
  <2>2. PICK n \in Names : n = prog.code[d][j].val
    BY <2>1 DEF Instrs
  <2>3. subst'[n] = subst[n]
    <3>1. CASE RenameLoad
      <4>1. /\ Current \in Blocks /\ at \in 1 .. Len(prog.code[Current])
            /\ LoadOf(prog.code[Current][at], code[Current][at].val)
        BY <3>1, InstructionAt DEF LoadOf
      <4>2. ~ Done(Current, at)
        BY <3>1, <4>1, DoneStep
      <4>3. n # code[Current][at].val
        BY <2>1, <2>2, <4>1, <4>2 DEF StoresDone
      <4> QED
        BY <3>1, <4>3 DEF RenameLoad, TypeOK
    <3>2. CASE ~ RenameLoad
      BY <3>2 DEF Pass, Rename, PlacePhis, StartRename, EnterBlock, RenameStore, FillPhis,
                  AbortFill, Descend, Leave, RemoveAllocas, vars, passVars
    <3> QED
      BY <3>1, <3>2
  <2> QED
    BY <1>1, <1>3, <2>2, <2>3 DEF SiteVal, Operand
<1> QED
    BY <1>2, <1>3

(* What a variable holds at a line, it holds there for the rest of the pass.*)
LEMMA HoldsKept ==
    ASSUME TypeOK, TypeOK', TablesInv, CallsInv, StoresDone, [Pass]_vars,
           NEW x, NEW b, NEW k, NEW v, Holds(x, b, k, v)
    PROVE  Holds(x, b, k, v)' /\ pc # "phi"
<1>1. PICK d \in Blocks : \E j \in Lines(d) :
          Done(d, j) /\ Reaches(d, j, x, b, k) /\ v = SiteVal(d, j, x)
    BY DEF Holds
<1>2. PICK j \in Lines(d) : Done(d, j) /\ Reaches(d, j, x, b, k) /\ v = SiteVal(d, j, x)
    BY <1>1
<1>3. Done(d, j)' /\ pc # "phi"
    BY <1>2, DoneKept
<1>4. Reaches(d, j, x, b, k)' /\ j \in Lines(d)'
    BY <1>2, <1>3, SitesKept
<1>5. SiteVal(d, j, x)' = v
    BY <1>2, SiteValKept DEF Reaches
<1> QED
    BY <1>3, <1>4, <1>5 DEF Holds

(* A store is renamed after the loads of its value.                         *)
LEMMA StoresDoneStep ==
    ASSUME TypeOK, TypeOK', TablesInv, CallsInv, StoresDone, [Pass]_vars
    PROVE  StoresDone'
<1>1. prog' = prog
    BY TablesKept
<1> SUFFICES ASSUME NEW b \in Blocks, NEW k \in 1 .. Len(prog.code[b]), Done(b, k)',
                    prog.code[b][k].op = "store",
                    NEW c \in Blocks, NEW m \in 1 .. Len(prog.code[c]),
                    LoadOf(prog.code[c][m], prog.code[b][k].val)
             PROVE  Done(c, m)'
    BY <1>1 DEF StoresDone, LoadOf
<1>2. Done(c, m)
  <2>1. CASE Done(b, k)
    BY <2>1 DEF StoresDone
  <2>2. CASE (RenameLoad \/ RenameStore) /\ b = Current /\ k = at
    <3>1. /\ pc = "body" /\ at <= Len(code[Current]) /\ code[Current][at] = prog.code[b][k]
      BY <2>2, InstructionAt
    <3> QED
      BY <3>1, OperandLoad
  <2> QED
    BY <2>1, <2>2, DoneIs
<1> QED
    BY <1>2, DoneStep

(* re_name calls itself for children.                                       *)
LEMMA ChildCallsStep ==
    ASSUME TypeOK, TablesInv, CallsInv, ChildCalls, [Pass]_vars
    PROVE  ChildCalls'
<1>1. Succ' = Succ /\ Len(calls) \in Nat
    BY TablesKept, BegunIs
<1>2. CASE Descend
  <2>1. /\ Len(calls') = Len(calls) + 1
        /\ \A n \in 1 .. Len(calls) : calls'[n].bb = calls[n].bb
        /\ calls'[Len(calls) + 1].bb \in calls[Len(calls)].todo
    BY <1>2, AfterDescend
  <2>2. Len(calls) \in 1 .. Len(calls)
    BY <1>2, CallIs DEF Descend, TypeOK
  <2>3. calls[Len(calls)].todo \subseteq DominatorChildren(Succ, calls[Len(calls)].bb)
    BY <2>2 DEF CallsInv, IsBranch
  <2>4. ASSUME NEW n \in 1 .. Len(calls)
        PROVE  calls'[n + 1].bb \in DominatorChildren(Succ, calls'[n].bb)
    <3>1. CASE n = Len(calls)
      BY <2>1, <2>2, <2>3, <3>1
    <3>2. CASE n # Len(calls)
      <4>1. n \in 1 .. Len(calls) - 1 /\ n + 1 \in 1 .. Len(calls)
        BY <1>1, <3>2
      <4> QED
        BY <2>1, <4>1 DEF ChildCalls
    <3> QED
      BY <3>1, <3>2
  <2> QED
    BY <1>1, <2>1, <2>4 DEF ChildCalls
<1>3. CASE Leave
  <2>1. /\ Len(calls') = Len(calls) - 1
        /\ \A n \in 1 .. Len(calls) - 1 : calls'[n] = calls[n]
    BY <1>3, AfterLeave
  <2> QED
    BY <1>1, <2>1 DEF ChildCalls
<1>4. CASE StartRename
    BY <1>1, <1>4 DEF StartRename, ChildCalls
<1>5. CASE ~ (Descend \/ Leave \/ StartRename)
  <2>1. calls' = calls
    BY <1>5 DEF Pass, Rename, PlacePhis, EnterBlock, RenameLoad, RenameStore, FillPhis,
                AbortFill, RemoveAllocas, vars, passVars
  <2> QED
    BY <1>1, <2>1 DEF ChildCalls
<1> QED
    BY <1>2, <1>3, <1>4, <1>5

(* More calls have pushed no less.                                          *)
LEMMA HeightsOrdered ==
    ASSUME TypeOK, TablesInv, CallsInv, NEW x \in Vars, NEW m \in 0 .. Begun, NEW n \in 0 .. m
    PROVE  /\ Height(Pushes(x), n) \in Nat /\ Height(Pushes(x), m) \in Nat
           /\ Height(Pushes(x), n) <= Height(Pushes(x), m)
<1>1. Begun \in 0 .. Len(calls) /\ Len(calls) \in Nat
    BY BegunIs
<1>2. \A k \in 1 .. m : IsFiniteSet(Pushes(x)[k])
    BY <1>1, PushesAre
<1>3. IsFiniteSet(Heap(Pushes(x), m))
    BY <1>1, <1>2, HeightStep
<1>4. Heap(Pushes(x), n) \subseteq Heap(Pushes(x), m)
    BY <1>1 DEF Heap
<1>5. n \in 0 .. Len(calls) /\ m \in 0 .. Len(calls)
    BY <1>1
<1> QED
    BY <1>3, <1>4, <1>5, PushesAre, FS_Subset DEF Height

(* Where a call is.                                                         *)
LEMMA CallAt ==
    ASSUME TypeOK, TablesInv, CallsInv, NEW n \in 1 .. Begun
    PROVE  /\ n \in 1 .. Len(calls) /\ calls[n].bb \in Blocks /\ Reached(n) \in Nat
           /\ ~ (n = Len(calls) /\ pc = "body") => Reached(n) = Len(prog.code[calls[n].bb])
           /\ n = Len(calls) /\ pc = "body" => Reached(n) = at - 1
<1>1. Begun \in 0 .. Len(calls) /\ Len(calls) \in Nat
    BY BegunIs
<1>2. n \in 1 .. Len(calls) /\ calls[n].bb \in Blocks
    BY <1>1, EachCall
<1>3. code[calls[n].bb] = prog.code[calls[n].bb]
    BY <1>2 DEF CallsInv, CodeKept
<1> QED
    BY <1>2, <1>3, LinesAre DEF Reached, TypeOK

(* An element of a stack stays right when it stays.                         *)
LEMMA ElementKept ==
    ASSUME TypeOK, TypeOK', TablesInv, CallsInv, StoresDone, [Pass]_vars, pc # "phi",
           NEW x, NEW b, NEW r, NEW h, ElementIs(x, b, r, h),
           h # 0 => stacks'[x][h] = stacks[x][h]
    PROVE  ElementIs(x, b, r, h)'
<1>1. CASE h = 0
  <2>1. None(x, b, r)'
    BY <1>1, SitesKept DEF ElementIs
  <2> QED
    BY <1>1, <2>1 DEF ElementIs
<1>2. CASE h # 0
  <2>1. PICK v \in Vals : v = stacks[x][h] /\ Holds(x, b, r, v)
    BY <1>2 DEF ElementIs
  <2>2. Holds(x, b, r, v)'
    BY <2>1, HoldsKept
  <2> QED
    BY <1>2, <2>1, <2>2 DEF ElementIs
<1> QED
    BY <1>1, <1>2

(* It is right as well where the same sites come before.                    *)
LEMMA ElementSame ==
    ASSUME NEW x, NEW b, NEW k, NEW c, NEW m, NEW h, ElementIs(x, b, k, h),
           \A d \in Blocks : \A j \in Lines(d) :
               Site(d, j, x) => (Before(d, j, b, k) <=> Before(d, j, c, m))
    PROVE  ElementIs(x, c, m, h)
    BY SameReaches DEF ElementIs

(* The first line of a block without phi is reached by what reaches the end *)
(* of its parent in the dominator tree, and by nothing in the entry.        *)
LEMMA ChildReached ==
    ASSUME TablesInv, NEW x, NEW p \in Blocks, NEW b \in DominatorChildren(Succ, p),
           NEW m \in Nat, m = Len(prog.code[p]), <<b, x>> \notin phis,
           NEW d \in Blocks, NEW j \in Lines(d), Site(d, j, x)
    PROVE  Before(d, j, p, m) <=> Before(d, j, b, 0)
<1>1. /\ b \in Blocks /\ StrictlyDominates(Succ, p, b) /\ IsFunctionCfg(Succ)
      /\ \A e \in Blocks : StrictlyDominates(Succ, e, b) => Dominates(Succ, e, p)
    BY ChildrenAre, ProgramIs
<1>2. j \in Nat /\ (d = p => j <= m)
    BY LinesAre DEF Lines
<1>3. ASSUME Before(d, j, p, m) PROVE Before(d, j, b, 0)
  <2>1. Before(p, m, b, 0)
    BY <1>1 DEF Before
  <2> QED
    BY <1>1, <1>2, <1>3, <2>1, BeforeOrder
<1>4. ASSUME Before(d, j, b, 0) PROVE Before(d, j, p, m)
  <2>1. ~ (d = b /\ j <= 0)
    BY <1>2 DEF Site
  <2>2. Dominates(Succ, d, p)
    BY <1>1, <1>4, <2>1 DEF Before
  <2> QED
    BY <1>2, <2>2 DEF Before, StrictlyDominates
<1> QED
    BY <1>3, <1>4

LEMMA EntryReached ==
    ASSUME TablesInv, NEW x, <<Root, x>> \notin phis
    PROVE  None(x, Root, 0)
<1> SUFFICES ASSUME NEW d \in Blocks, NEW j \in Lines(d), Site(d, j, x), Before(d, j, Root, 0)
             PROVE  FALSE
    BY DEF None
<1>1. j \in Nat /\ d = Root
    BY LinesAre, RootDominated DEF Before, StrictlyDominates
<1>2. j <= 0
    BY <1>1 DEF Before, StrictlyDominates
<1> QED
    BY <1>1, <1>2 DEF Site

(* Entering a block: its phis become what their variables hold, the others  *)
(* hold what they do at the end of the parent.                              *)
LEMMA StackEnter ==
    ASSUME WalkInv, WalkInv', ChildCalls, StoresDone, StackInv, EnterBlock
    PROVE  StackInv'
<1> USE DEF WalkInv
<1>0. [Pass]_vars
    BY DEF Pass, Rename
<1>1. /\ pc = "enter" /\ pc' = "body" /\ at' = 1 /\ UNCHANGED <<prog, phis, code>>
    BY DEF EnterBlock
<1>2. /\ Begun' = Begun + 1 /\ Begun' = Len(calls) /\ calls' = calls
      /\ \A x \in Vars : /\ \A m \in 0 .. Begun : Height(Pushes(x), m)' = Height(Pushes(x), m)
                         /\ Len(stacks[x]) = Height(Pushes(x), Begun)
                         /\ stacks'[x] = IF x \in PhisOf(Current)
                                         THEN Append(stacks[x], <<Current, x>>)
                                         ELSE stacks[x]
    BY HeightsEnter
<1>3. Begun \in Nat /\ Len(calls) \in Nat /\ Len(calls) = Begun + 1
    BY <1>2, BegunIs
<1>4. \A x \in Vars : stacks[x] \in Seq(Vals) /\ Len(stacks[x]) \in Nat
    BY LenProperties DEF TypeOK
<1> SUFFICES ASSUME NEW x \in Vars, NEW n \in 1 .. Begun', NEW b \in Blocks, NEW r \in Nat, NEW h \in Nat,
                    b = calls[n].bb, r = Reached(n)', h = Height(Pushes(x), n)'
             PROVE  ElementIs(x, b, r, h)'
    BY <1>2 DEF StackInv, CallIsAt, FillsUpTo
<1>5. CASE n <= Begun
  <2>1. n \in 1 .. Begun /\ n \in 0 .. Begun
    BY <1>3, <1>5
  <2>2. r = Reached(n)
    BY <1>1, <1>2, <1>3, <1>5 DEF Reached
  <2>3. h = Height(Pushes(x), n) /\ h <= Len(stacks[x])
    BY <1>2, <1>3, <2>1, HeightGrows
  <2>4. ElementIs(x, b, r, h)
    BY <2>1, <2>2, <2>3 DEF StackInv, CallIsAt, FillsUpTo
  <2>5. h # 0 => stacks'[x][h] = stacks[x][h]
    <3>1. CASE x \in PhisOf(Current)
      <4>1. stacks'[x] = Append(stacks[x], <<Current, x>>) /\ <<Current, x>> \in Vals
        BY <1>1, <1>2, <3>1, CallIs DEF Vals, Phis, PhisOf, TypeOK
      <4> QED
        BY <1>4, <2>3, <4>1, AppendProperties
    <3>2. CASE x \notin PhisOf(Current)
      <4>1. stacks'[x] = stacks[x]
        BY <1>2, <3>2
      <4> QED
        BY <4>1
    <3> QED
      BY <3>1, <3>2
  <2> QED
    BY <1>0, <1>1, <2>4, <2>5, ElementKept
<1>6. CASE n = Begun + 1
  <2>1. b = Current /\ r = 0 /\ n = Len(calls)
    BY <1>1, <1>2, <1>3, <1>6 DEF Current, Reached
  <2>2. h = Len(stacks'[x])
    BY <1>2, <1>6 DEF HeightInv
  <2>3. CASE x \in PhisOf(Current)
    <3>1. <<b, x>> \in Vals /\ <<b, x>> \in phis
      BY <2>1, <2>3 DEF Vals, Phis, PhisOf, TypeOK
    <3>2. h = Len(stacks[x]) + 1 /\ h # 0 /\ stacks'[x][h] = <<b, x>>
      <4>1. stacks'[x] = Append(stacks[x], <<b, x>>)
        BY <1>2, <2>1, <2>3
      <4> QED
        BY <1>4, <2>2, <3>1, <4>1, AppendProperties
    <3>3. Holds(x, b, 0, <<b, x>>)'
      <4>1. Done(b, 0)'
        BY <1>0, <1>1, <2>1, CallsStep DEF Done
      <4>2. Reaches(b, 0, x, b, 0)'
        BY <1>1, <3>1 DEF Reaches, Site, Before
      <4>3. SiteVal(b, 0, x)' = <<b, x>> /\ 0 \in Lines(b)'
        BY LinesAre, <1>1 DEF SiteVal, Lines
      <4> QED
        BY <4>1, <4>2, <4>3 DEF Holds
    <3> QED
      BY <2>1, <3>1, <3>2, <3>3 DEF ElementIs
  <2>4. CASE x \notin PhisOf(Current)
    <3>1. stacks'[x] = stacks[x] /\ <<b, x>> \notin phis /\ h = Height(Pushes(x), Begun)
      BY <1>2, <2>1, <2>2, <2>4 DEF PhisOf
    <3>2. ElementIs(x, b, 0, h)
      <4>1. CASE Begun = 0
        <5>1. b = Root
          <6>1. Len(calls) = 1 /\ calls # << >>
            BY <1>1, <1>3, <4>1 DEF CallsInv
          <6>2. calls[1].bb = Root
            BY <6>1 DEF CallsInv, IsBranch
          <6> QED
            BY <2>1, <6>1, <6>2 DEF Current
        <5>2. h = 0
          BY <3>1, <4>1, HeightStep
        <5> QED
          BY <3>1, <5>1, <5>2, EntryReached DEF ElementIs
      <4>2. CASE Begun # 0
        <5>1. Begun \in 1 .. Begun /\ Begun \in 1 .. Len(calls) - 1
          BY <1>3, <4>2
        <5>2. PICK p \in Blocks : p = calls[Begun].bb
          BY <1>2, <1>3, <5>1, CallAt
        <5>3. PICK m \in Nat : m = Reached(Begun)
          BY <5>1, CallAt
        <5>4. m = Len(prog.code[p])
          BY <1>1, <5>1, <5>2, <5>3, CallAt
        <5>5. b \in DominatorChildren(Succ, p)
          BY <1>3, <2>1, <5>1, <5>2 DEF ChildCalls, Current
        <5>6. ElementIs(x, p, m, h)
          BY <3>1, <5>1, <5>2, <5>3 DEF StackInv, CallIsAt, FillsUpTo
        <5> QED
          BY <3>1, <5>4, <5>5, <5>6, ChildReached, ElementSame
      <4> QED
        BY <4>1, <4>2
    <3> QED
      BY <1>0, <1>1, <2>1, <3>1, <3>2, ElementKept
  <2> QED
    BY <2>3, <2>4
<1> QED
    BY <1>2, <1>3, <1>5, <1>6

(* A store becomes what its variable holds.                                 *)
LEMMA StackStore ==
    ASSUME WalkInv, WalkInv', StoresDone, StackInv, RenameStore
    PROVE  StackInv'
<1> USE DEF WalkInv
<1> DEFINE i == code[Current][at]
<1>0. [Pass]_vars
    BY DEF Pass, Rename
<1>1. /\ pc = "body" /\ pc' = "body" /\ at' = at + 1 /\ UNCHANGED <<prog, phis, code, subst>>
    BY DEF RenameStore
<1>2. /\ Begun' = Begun /\ Begun = Len(calls) /\ calls' = calls
      /\ \A x \in Vars : \A m \in 0 .. Begun - 1 : Height(Pushes(x), m)' = Height(Pushes(x), m)
      /\ \A x \in Vars : Height(Pushes(x), Begun)'
                            = Height(Pushes(x), Begun) + (IF x = i.var THEN 1 ELSE 0)
      /\ \A x \in Vars : Len(stacks[x]) = Height(Pushes(x), Begun)
      /\ stacks' = [stacks EXCEPT ![i.var] = Append(stacks[i.var], Operand(i.val))]
    BY HeightsStore
<1>3. /\ Current \in Blocks /\ at \in 1 .. Len(prog.code[Current]) /\ i = prog.code[Current][at]
      /\ i.var \in Vars /\ i.val \in Names /\ i.op = "store" /\ at \in Nat
  <2>1. ~ RenameLoad
    BY DEF RenameStore, RenameLoad
  <2> QED
    BY <2>1, InstructionAt DEF TypeOK
<1>4. \A x \in Vars : stacks[x] \in Seq(Vals) /\ Len(stacks[x]) \in Nat
    BY LenProperties DEF TypeOK
<1>5. Operand(i.val) \in Vals
    BY <1>3 DEF Operand, TypeOK
<1>6. Begun \in Nat /\ Len(calls) \in Nat
    BY <1>2, BegunIs
<1> SUFFICES ASSUME NEW x \in Vars, NEW n \in 1 .. Begun, NEW b \in Blocks, NEW r \in Nat, NEW h \in Nat,
                    b = calls[n].bb, r = Reached(n)', h = Height(Pushes(x), n)'
             PROVE  ElementIs(x, b, r, h)'
    BY <1>2 DEF StackInv, CallIsAt, FillsUpTo
<1> HIDE DEF i
<1>7. ASSUME NEW m \in Nat, m # 0, m <= Len(stacks[x]) PROVE stacks'[x][m] = stacks[x][m]
  <2>1. CASE x = i.var
    <3>1. stacks'[x] = Append(stacks[x], Operand(i.val))
      BY <1>2, <1>3, <2>1 DEF TypeOK
    <3> QED
      BY <1>4, <1>5, <1>7, <3>1, AppendProperties
  <2>2. CASE x # i.var
    BY <1>2, <1>3, <2>2 DEF TypeOK
  <2> QED
    BY <2>1, <2>2
<1>8. CASE n < Begun
  <2>1. n \in 0 .. Begun - 1 /\ n \in 0 .. Begun
    BY <1>6, <1>8
  <2>2. r = Reached(n)
    BY <1>1, <1>2, <1>6, <1>8 DEF Reached
  <2>3. h = Height(Pushes(x), n) /\ h <= Len(stacks[x])
    BY <1>2, <2>1, HeightGrows
  <2>4. ElementIs(x, b, r, h)
    BY <2>1, <2>2, <2>3 DEF StackInv, CallIsAt, FillsUpTo
  <2> QED
    BY <1>0, <1>1, <1>7, <2>3, <2>4, ElementKept
<1>9. CASE n = Begun
  <2>1. b = Current /\ r = at /\ Reached(n) = at - 1 /\ at - 1 \in Nat
    <3>1. b = Current /\ n = Len(calls)
      BY <1>2, <1>9 DEF Current
    <3>2. Reached(n) = at - 1
      BY <1>1, <3>1 DEF Reached
    <3>3. Reached(n)' = (at + 1) - 1
      BY <1>1, <1>2, <3>1 DEF Reached
    <3> QED
      BY <1>3, <3>1, <3>2, <3>3
  <2>2. CASE x = i.var
    <3>1. h = Len(stacks[x]) + 1
      BY <1>2, <1>9, <2>2
    <3>2. h # 0 /\ stacks'[x][h] = Operand(i.val)
      <4>1. stacks'[x] = Append(stacks[x], Operand(i.val))
        BY <1>2, <1>3, <2>2 DEF TypeOK
      <4> QED
        BY <1>4, <1>5, <3>1, <4>1, AppendProperties
    <3>3. PICK v \in Vals : v = Operand(i.val)
      BY <1>5
    <3>4. Holds(x, b, r, v)'
      <4>1. r \in 1 .. Len(prog.code[b]) /\ r \in Lines(b)' /\ r # 0
        BY <1>1, <1>3, <2>1 DEF Lines
      <4>2. Done(b, r)'
        BY <1>0, <2>1, <4>1, DoneStep
      <4>3. Reaches(b, r, x, b, r)'
        <5>1. Stores(prog.code[b][r], x)'
          BY <1>1, <1>3, <2>1, <2>2 DEF Stores
        <5> QED
          BY <4>1, <5>1 DEF Reaches, Site, Before
      <4>4. SiteVal(b, r, x)' = v
        BY <1>1, <1>3, <2>1, <3>3, <4>1 DEF SiteVal, Operand
      <4> QED
        BY <4>1, <4>2, <4>3, <4>4 DEF Holds
    <3> QED
      BY <3>2, <3>3, <3>4 DEF ElementIs
  <2>3. CASE x # i.var
    <3>1. h = Height(Pushes(x), n) /\ h <= Len(stacks[x])
      BY <1>2, <1>4, <1>9, <2>3
    <3>2. PICK m \in Nat : m = at - 1
      BY <2>1
    <3>3. ElementIs(x, b, m, h)
      BY <1>9, <2>1, <3>1, <3>2 DEF StackInv, CallIsAt, FillsUpTo
    <3>4. ASSUME NEW d \in Blocks, NEW j \in Lines(d), Site(d, j, x)
          PROVE  Before(d, j, b, m) <=> Before(d, j, b, r)
      <4>1. ~ (d = b /\ j = at)
        BY <1>3, <2>1, <2>3, <3>4 DEF Site, Stores
      <4>2. j \in Nat
        BY LinesAre
      <4> QED
        BY <1>3, <2>1, <3>2, <4>1, <4>2 DEF Before
    <3>5. ElementIs(x, b, r, h)
      BY <3>3, <3>4, ElementSame
    <3> QED
      BY <1>0, <1>1, <1>7, <3>1, <3>5, ElementKept
  <2> QED
    BY <2>2, <2>3
<1> QED
    BY <1>6, <1>8, <1>9

(* A call that returns leaves what its caller had.                          *)
LEMMA StackLeave ==
    ASSUME WalkInv, WalkInv', StoresDone, StackInv, Leave
    PROVE  StackInv'
<1> USE DEF WalkInv
<1>0. [Pass]_vars
    BY DEF Pass, Rename
<1>1. /\ Begun' = Begun - 1
      /\ \A n \in 1 .. Begun' : n \in 1 .. Begun /\ calls'[n].bb = calls[n].bb
      /\ \A x \in Vars : \A m \in 0 .. Begun' : Height(Pushes(x), m)' = Height(Pushes(x), m)
      /\ \A x \in Vars : \A k \in 1 .. Len(stacks'[x]) : stacks'[x][k] = stacks[x][k]
    BY HeightsLeave
<1>2. pc = "down" /\ pc' # "body" /\ Begun = Len(calls) /\ Len(calls) \in Nat
    BY BegunIs DEF Leave, Returned, Begun
<1> SUFFICES ASSUME NEW x \in Vars, NEW n \in 1 .. Begun', NEW b \in Blocks, NEW r \in Nat, NEW h \in Nat,
                    b = calls[n].bb, r = Reached(n)', h = Height(Pushes(x), n)'
             PROVE  ElementIs(x, b, r, h)'
    BY <1>1 DEF StackInv, CallIsAt, FillsUpTo
<1>3. n \in 1 .. Begun /\ n \in 1 .. Begun' /\ n \in 0 .. Begun' /\ n < Len(calls)
    BY <1>1, <1>2
<1>4. r = Reached(n)
  <2>1. Reached(n) = Len(prog.code[b])
    BY <1>2, <1>3, CallAt
  <2>2. Reached(n)' = Len(code'[b])
    BY <1>1, <1>2, <1>3 DEF Reached
  <2>3. code'[b] = code[b] /\ code[b] = prog.code[b]
    <3>1. b # Current
      BY <1>2, <1>3 DEF CallsInv, IsBranch, StrictlyDominates, Current
    <3>2. code[b] = prog.code[b]
      BY <1>2, <1>3 DEF CallsInv, CodeKept
    <3> QED
      BY <3>1, <3>2 DEF Leave, TypeOK
  <2> QED
    BY <2>1, <2>2, <2>3
<1>5. h = Height(Pushes(x), n)
    BY <1>1, <1>3
<1>6. ElementIs(x, b, r, h)
    BY <1>3, <1>4, <1>5 DEF StackInv, CallIsAt, FillsUpTo
<1>7. h # 0 => stacks'[x][h] = stacks[x][h]
  <2>1. PICK m \in 0 .. Begun : m = Begun'
    BY <1>1, <1>3
  <2>2. Len(stacks'[x]) = Height(Pushes(x), m)
    <3>1. Len(stacks'[x]) = Height(Pushes(x), m)'
      BY <2>1 DEF HeightInv, Height, Heap
    <3> QED
      BY <1>1, <1>3, <2>1, <3>1
  <2>3. h <= Len(stacks'[x]) /\ Len(stacks'[x]) \in Nat
    BY <1>3, <1>5, <2>1, <2>2, HeightsOrdered
  <2> QED
    BY <1>1, <2>3
<1> QED
    BY <1>0, <1>2, <1>6, <1>7, ElementKept

(* No other step changes what calls have reached, but for a load.           *)
LEMMA ReachedSame ==
    ASSUME WalkInv, WalkInv',
           StartRename \/ RenameLoad \/ FillPhis \/ AbortFill \/ Descend
             \/ RemoveAllocas \/ UNCHANGED vars,
           NEW n \in 1 .. Begun, n \in 1 .. Begun', calls'[n].bb = calls[n].bb
    PROVE  \/ Reached(n)' = Reached(n)
           \/ /\ RenameLoad /\ calls[n].bb = Current
              /\ Reached(n) = at - 1 /\ Reached(n)' = at
<1> USE DEF WalkInv
<1>1. Len(calls) \in Nat /\ n \in 1 .. Len(calls) /\ at \in Nat /\ calls # << >>
  <2>1. Len(calls) \in Nat /\ Begun \in 0 .. Len(calls)
    BY BegunIs
  <2>2. n \in 1 .. Len(calls)
    BY <2>1
  <2>3. at \in Nat
    BY DEF TypeOK
  <2> QED
    BY <2>1, <2>2, <2>3
<1>2. CASE StartRename
    BY <1>1, <1>2 DEF StartRename, CallsInv
<1>3. CASE RenameLoad
  <2>1. pc = "body" /\ pc' = "body" /\ at' = at + 1 /\ UNCHANGED <<calls, code>>
    BY <1>3 DEF RenameLoad
  <2> QED
    BY <1>1, <1>3, <2>1 DEF Reached, Current
<1>4. CASE FillPhis \/ AbortFill
  <2>1. /\ pc = "body" /\ pc' \in {"down", "abort"} /\ UNCHANGED <<calls, code>>
        /\ at > Len(code[Current])
    BY <1>4 DEF FillPhis, AbortFill
  <2>2. at - 1 = Len(code[Current])
    BY <2>1, InBody DEF CallsInv
  <2> QED
    BY <2>1, <2>2 DEF Reached, Current
<1>5. CASE Descend
  <2>1. /\ pc = "down" /\ pc' = "enter" /\ UNCHANGED code
        /\ Len(calls') = Len(calls) + 1
    BY <1>5, AfterDescend DEF Descend
  <2> QED
    BY <1>1, <2>1 DEF Reached
<1>6. CASE RemoveAllocas
  <2>1. pc = "alloca" /\ pc' = "done" /\ UNCHANGED <<calls, code>>
    BY <1>6 DEF RemoveAllocas
  <2> QED
    BY <2>1 DEF Reached
<1>7. CASE UNCHANGED vars
    BY <1>7 DEF vars, passVars, Reached
<1> QED
    BY <1>2, <1>3, <1>4, <1>5, <1>6, <1>7

(* The other steps push and pop nothing.                                    *)
LEMMA StackSame ==
    ASSUME WalkInv, WalkInv', StoresDone, StackInv,
           PlacePhis \/ StartRename \/ RenameLoad \/ FillPhis \/ AbortFill \/ Descend
             \/ RemoveAllocas \/ UNCHANGED vars
    PROVE  StackInv'
<1> USE DEF WalkInv
<1>0. [Pass]_vars
    BY DEF Pass, Rename
<1>1. /\ Begun' = Begun /\ stacks' = stacks
      /\ \A x \in Vars : \A m \in 0 .. Begun : Height(Pushes(x), m)' = Height(Pushes(x), m)
      /\ \A n \in 1 .. Begun : calls'[n].bb = calls[n].bb
    BY HeightsSame
<1> SUFFICES ASSUME NEW x \in Vars, NEW n \in 1 .. Begun, NEW b \in Blocks, NEW r \in Nat, NEW h \in Nat,
                    b = calls[n].bb, r = Reached(n)', h = Height(Pushes(x), n)'
             PROVE  ElementIs(x, b, r, h)'
    BY <1>1 DEF StackInv, CallIsAt, FillsUpTo
<1>2. /\ Begun \in 0 .. Len(calls) /\ Len(calls) \in Nat /\ n \in 1 .. Begun /\ n \in 0 .. Begun
      /\ calls # << >>
    BY BegunIs
<1>3. pc # "phi"
    BY <1>2 DEF CallsInv
<1>4. h = Height(Pushes(x), n)
    BY <1>1, <1>2
<1>5. PICK m \in Nat : m = Reached(n)
    BY <1>2, CallAt
<1>6. ElementIs(x, b, m, h)
    BY <1>2, <1>4, <1>5 DEF StackInv, CallIsAt, FillsUpTo
<1>7. r = m \/ (RenameLoad /\ b = Current /\ m = at - 1 /\ r = at)
  <2>1. ~ PlacePhis
    BY <1>3 DEF PlacePhis
  <2> QED
    BY <1>1, <1>2, <1>5, <2>1, ReachedSame
<1>8. ElementIs(x, b, r, h)
  <2>1. CASE r = m
    BY <1>6, <2>1
  <2>2. CASE RenameLoad /\ b = Current /\ m = at - 1 /\ r = at
    <3>1. ASSUME NEW d \in Blocks, NEW j \in Lines(d), Site(d, j, x)
          PROVE  Before(d, j, b, m) <=> Before(d, j, b, r)
      <4>1. /\ at \in 1 .. Len(prog.code[Current]) /\ prog.code[Current][at].op = "load"
        BY <2>2, InstructionAt
      <4>2. ~ (d = b /\ j = at)
        BY <2>2, <3>1, <4>1 DEF Site, Stores
      <4>3. j \in Nat
        BY LinesAre
      <4> QED
        BY <2>2, <4>2, <4>3 DEF Before
    <3> QED
      BY <1>6, <3>1, ElementSame
  <2> QED
    BY <1>7, <2>1, <2>2
<1> QED
    BY <1>0, <1>1, <1>3, <1>8, ElementKept

(* What is on the stacks is what the variables hold, at every step.         *)
LEMMA StackStep ==
    ASSUME WalkInv, WalkInv', ChildCalls, StoresDone, StackInv, [Pass]_vars
    PROVE  StackInv'
    BY StackEnter, StackStore, StackLeave, StackSame DEF Pass, Rename

(* The top of a variable's stack is what it holds where re_name is.         *)
LEMMA TopHolds ==
    ASSUME WalkInv, StackInv, pc = "body", NEW x \in Vars, NEW b \in Blocks, NEW r \in Nat,
           b = Current, r = at - 1
    PROVE  /\ stacks[x] = << >> => None(x, b, r)
           /\ stacks[x] # << >> => \E v \in Vals : v = Top(x) /\ Holds(x, b, r, v)
<1> USE DEF WalkInv
<1>1. Begun = Len(calls) /\ Len(calls) \in 1 .. Len(calls) /\ Current = calls[Len(calls)].bb
    BY BegunIs, InBody
<1>2. PICK n \in 1 .. Begun : n = Begun
    BY <1>1
<1>3. CallIsAt(n, b, r)
    BY <1>1, <1>2, CallAt DEF CallIsAt
<1>4. PICK h \in Nat : h = Len(stacks[x])
    BY LenProperties DEF TypeOK
<1>5. FillsUpTo(x, n, h)
    BY <1>2, <1>4 DEF FillsUpTo, HeightInv
<1>6. ElementIs(x, b, r, h)
    BY <1>3, <1>5 DEF StackInv
<1>7. stacks[x] = << >> <=> h = 0
    BY <1>4, EmptySeq DEF TypeOK
<1> QED
    BY <1>4, <1>6, <1>7 DEF ElementIs, Top

(* Only the renaming of a load changes what a name stands for, and it       *)
(* changes one not treated before.                                          *)
LEMMA SubstKept ==
    ASSUME TypeOK, TypeOK', TablesInv, CallsInv, [Pass]_vars
    PROVE  /\ ~ RenameLoad => subst' = subst
           /\ \A b \in Blocks : \A k \in 1 .. Len(prog.code[b]) : \A n \in Names :
                 LoadOf(prog.code[b][k], n) /\ Done(b, k) => subst'[n] = subst[n]
<1>1. ~ RenameLoad => subst' = subst
    BY DEF Pass, Rename, PlacePhis, StartRename, EnterBlock, RenameStore, FillPhis,
           AbortFill, Descend, Leave, RemoveAllocas, vars, passVars
<1>2. ASSUME NEW b \in Blocks, NEW k \in 1 .. Len(prog.code[b]), NEW n \in Names,
             LoadOf(prog.code[b][k], n), Done(b, k), RenameLoad
      PROVE  subst'[n] = subst[n]
  <2>1. /\ Current \in Blocks /\ at \in 1 .. Len(prog.code[Current])
        /\ code[Current][at] = prog.code[Current][at] /\ code[Current][at].op = "load"
    BY <1>2, InstructionAt
  <2>2. ~ Done(Current, at)
    BY <1>2, <2>1, DoneStep
  <2>3. n # code[Current][at].val
    BY <1>2, <2>1, <2>2, LoadPlace DEF LoadOf
  <2> QED
    BY <1>2, <2>3 DEF RenameLoad, TypeOK
<1> QED
    BY <1>1, <1>2

(* No site is before a point whose variable has no entry.                   *)
LEMMA NoKeyNone ==
    ASSUME WalkInv, KeysInv, pc = "body", NEW x \in Vars, x \notin keys
    PROVE  None(x, Current, at - 1)
<1> USE DEF WalkInv
<1>0. /\ Len(calls) \in 1 .. Len(calls) /\ Current = calls[Len(calls)].bb /\ at \in Nat
      /\ Current \in Blocks
    BY InBody
<1> SUFFICES ASSUME NEW d \in Blocks, NEW j \in Lines(d), Site(d, j, x),
                    Before(d, j, Current, at - 1)
             PROVE  FALSE
    BY DEF None
<1>1. Dominates(Succ, d, Current)
    BY <1>0, ProgramIs, BeforeDominates
<1>2. d \notin Unseen
    BY <1>0, <1>1, DominatorsAreSeen DEF Unseen
<1>3. j \in Nat
    BY LinesAre
<1>4. ~ (d = Current /\ at <= j)
    BY <1>0, <1>3 DEF Before, StrictlyDominates
<1>5. CASE j = 0
    BY <1>2, <1>5 DEF Site, KeysInv
<1>6. CASE j # 0
  <2>1. j \in 1 .. Len(prog.code[d]) /\ Stores(prog.code[d][j], x)
    BY <1>3, <1>6 DEF Lines, Site
  <2> QED
    BY <1>2, <1>4, <2>1 DEF Done, KeysInv
<1> QED
    BY <1>5, <1>6

(* A load is replaced by what its variable holds there.                     *)
LEMMA LoadsStep ==
    ASSUME WalkInv, WalkInv', KeysInv, FreshInv, StoresDone, StackInv, LoadsInv, [Pass]_vars
    PROVE  LoadsInv'
<1> USE DEF WalkInv
<1>1. prog' = prog
    BY TablesKept
<1> SUFFICES ASSUME NEW b \in Blocks, NEW k \in 1 .. Len(prog.code[b]),
                    NEW n \in Names, NEW x \in Vars, NEW v \in Vals,
                    LoadOf(prog.code[b][k], n), prog.code[b][k].var = x,
                    Done(b, k)', v = subst'[n]
             PROVE  Holds(x, b, k - 1, v)' \/ (None(x, b, k - 1)' /\ v \in {n, Garbage})
    BY <1>1 DEF LoadsInv, LoadOf
<1>2. CASE Done(b, k)
  <2>1. v = subst[n] /\ pc # "phi"
    BY <1>2, SubstKept DEF Done, Unseen
  <2>2. Holds(x, b, k - 1, v) \/ (None(x, b, k - 1) /\ v \in {n, Garbage})
    BY <1>2, <2>1 DEF LoadsInv
  <2> QED
    BY <2>1, <2>2, HoldsKept, SitesKept
<1>3. CASE ~ Done(b, k)
  <2>1. b = Current /\ k = at /\ (RenameLoad \/ RenameStore)
    BY <1>3, DoneIs
  <2>2. /\ RenameLoad /\ pc = "body" /\ code[Current][at] = prog.code[b][k]
        /\ k - 1 \in Nat /\ k - 1 = at - 1
    BY <2>1, InstructionAt DEF LoadOf
  <2>3. PICK r \in Nat : r = k - 1
    BY <2>2
  <2>4. CASE x \in keys
    <3>1. v = Top(x)
      BY <2>2, <2>4 DEF RenameLoad, TypeOK, LoadOf
    <3>2. CASE stacks[x] = << >>
      BY <2>1, <2>2, <2>3, <3>1, <3>2, TopHolds, SitesKept DEF Top
    <3>3. CASE stacks[x] # << >>
      <4>1. Holds(x, b, r, v)
        BY <2>1, <2>2, <2>3, <3>1, <3>3, TopHolds
      <4> QED
        BY <2>3, <4>1, HoldsKept
    <3> QED
      BY <3>2, <3>3
  <2>5. CASE x \notin keys
    <3>1. None(x, b, k - 1)
      BY <2>1, <2>2, <2>5, NoKeyNone
    <3>2. subst'[n] = subst[n]
      BY <2>2, <2>5 DEF RenameLoad
    <3>3. ASSUME subst[n] # n PROVE FALSE
      <4>1. PICK c \in Blocks : \E m \in 1 .. Len(prog.code[c]) : 
                LoadOf(prog.code[c][m], n) /\ Done(c, m)
        BY <3>3 DEF FreshInv, Treated
      <4>2. PICK m \in 1 .. Len(prog.code[c]) : LoadOf(prog.code[c][m], n) /\ Done(c, m)
        BY <4>1
      <4>3. c = b /\ m = k
        BY <4>2, LoadPlace DEF LoadOf
      <4> QED
        BY <1>3, <4>2, <4>3
    <3> QED
      BY <2>2, <3>1, <3>2, <3>3, SitesKept
  <2> QED
    BY <2>4, <2>5
<1> QED
    BY <1>2, <1>3

(* What replaces a load is computed where it dominates the load.            *)
LEMMA LoadOriginsStep ==
    ASSUME WalkInv, WalkInv', FreshInv, StackInv, LoadOrigins, [Pass]_vars
    PROVE  LoadOrigins'
<1> USE DEF WalkInv
<1>1. prog' = prog /\ Succ' = Succ /\ \A v : Origin(v)' = Origin(v)
    BY TablesKept DEF Origin
<1> SUFFICES ASSUME NEW n \in Names, NEW v \in Names \cup Phis, v = subst'[n],
                    NEW b \in Blocks, NEW k \in 1 .. Len(prog.code[b]), LoadOf(prog.code[b][k], n)
             PROVE  Dominates(Succ, Origin(v), b)
    BY <1>1 DEF LoadOrigins, LoadOf
<1>2. CASE v = subst[n]
    BY <1>2 DEF LoadOrigins
<1>3. CASE v # subst[n]
  <2>1. RenameLoad /\ pc = "body"
    BY <1>3, SubstKept DEF RenameLoad
  <2>2. PICK i : i = code[Current][at]
    OBVIOUS
  <2>3. /\ i = prog.code[Current][at] /\ i.op = "load" /\ i.var \in Vars /\ i.val \in Names
        /\ Current \in Blocks /\ at \in 1 .. Len(prog.code[Current])
    BY <2>1, <2>2, InstructionAt
  <2>4. subst' = [subst EXCEPT ![i.val] = Top(i.var)]
    BY <1>3, <2>1, <2>2 DEF RenameLoad
  <2>5. n = i.val /\ v = Top(i.var)
    BY <1>3, <2>3, <2>4 DEF TypeOK
  <2>6. b = Current /\ k = at
    BY <2>3, <2>5, LoadPlace DEF LoadOf
  <2>7. stacks[i.var] # << >>
    BY <2>5, ValsAssumption DEF Top
  <2>8. PICK r \in Nat : r = at - 1
    BY <2>3
  <2>9. Holds(i.var, b, r, v)
    BY <2>1, <2>3, <2>5, <2>6, <2>7, <2>8, TopHolds
  <2> QED
    BY <2>9, HeldOrigin
<1> QED
    BY <1>2, <1>3

(* A phi gets what its variable holds at the end of the predecessor.        *)
LEMMA FillsStep ==
    ASSUME WalkInv, WalkInv', StoresDone, StackInv, FillsInv, [Pass]_vars
    PROVE  FillsInv'
<1> USE DEF WalkInv
<1>1. prog' = prog
    BY TablesKept
<1> SUFFICES ASSUME NEW f \in Phis, NEW p \in Blocks, NEW v \in Vals, NEW m \in Nat,
                    v = args'[f][p], m = Len(prog.code[p])
             PROVE  Holds(f[2], p, m, v)'
    BY <1>1 DEF FillsInv
<1>2. Holds(f[2], p, m, v)
  <2>1. CASE v = args[f][p]
    BY <2>1 DEF FillsInv
  <2>2. CASE v # args[f][p]
    <3>1. FillPhis
      BY <2>2 DEF Pass, Rename, PlacePhis, StartRename, EnterBlock, RenameLoad, RenameStore,
                  AbortFill, Descend, Leave, RemoveAllocas, vars, passVars
    <3>2. f \in ToFill /\ p = Current /\ v = Top(f[2])
      BY <2>2, <3>1 DEF FillPhis, TypeOK
    <3>3. f[2] \in Vars /\ stacks[f[2]] # << >>
      BY <3>1, <3>2 DEF FillPhis, Phis
    <3>4. pc = "body" /\ at > Len(code[Current])
      BY <3>1 DEF FillPhis
    <3>5. m = at - 1
      <4>1. Len(code[Current]) = m /\ at \in Nat
        BY <3>2, <3>4, InBody
      <4>2. at <= Len(code[Current]) + 1
        BY <3>4 DEF CallsInv
      <4> QED
        BY <3>4, <4>1, <4>2
    <3> QED
      BY <3>2, <3>3, <3>4, <3>5, TopHolds
  <2> QED
    BY <2>1, <2>2
<1> QED
    BY <1>2, HoldsKept

(* A block leaves the work list when its frontier has the phi.              *)
LEMMA FrontierStep ==
    ASSUME TypeOK, TypeOK', TablesInv, FrontierInv, [Pass]_vars
    PROVE  FrontierInv'
<1>1. prog' = prog /\ df' = df
    BY TablesKept
<1>2. CASE PlacePhis
  <2>1. pc' = "phi"
    BY <1>2 DEF PlacePhis
  <2>2. PICK x \in Vars : \E b \in work[x] :
            /\ phis' = phis \cup (Lacking(x, b) \X {x})
            /\ work' = [work EXCEPT ![x] = Rest(x, b)]
    BY <1>2 DEF PlacePhis
  <2>3. PICK b \in work[x] : /\ phis' = phis \cup (Lacking(x, b) \X {x})
                             /\ work' = [work EXCEPT ![x] = Rest(x, b)]
    BY <2>2
  <2>4. ASSUME NEW d \in Blocks, NEW y \in Vars, Defines(d, y)'
        PROVE  d \in work'[y] \/ \A s \in df[d] : <<s, y>> \in phis'
    <3>1. CASE Defines(d, y)
      <4>1. d \in work[y] \/ \A s \in df[d] : <<s, y>> \in phis
        BY <3>1 DEF FrontierInv
      <4>2. CASE d \in work[y] /\ d = b /\ y = x
        BY <2>3, <4>2 DEF Lacking
      <4>3. CASE d \in work[y] /\ ~ (d = b /\ y = x)
        BY <2>3, <4>3 DEF Rest, TypeOK
      <4> QED
        BY <2>3, <4>1, <4>2, <4>3
    <3>2. CASE ~ Defines(d, y)
      <4>1. <<d, y>> \in phis' /\ <<d, y>> \notin phis
        BY <1>1, <2>4, <3>2 DEF Defines, StoreBlocks
      <4>2. y = x /\ d \in Lacking(x, b)
        BY <2>3, <4>1
      <4> QED
        BY <2>3, <4>2 DEF Rest, TypeOK
    <3> QED
      BY <3>1, <3>2
  <2> QED
    BY <1>1, <2>1, <2>4 DEF FrontierInv
<1>3. CASE ~ PlacePhis
  <2>1. phis' = phis /\ work' = work
    BY <1>3 DEF Pass, Rename, StartRename, EnterBlock, RenameLoad, RenameStore, FillPhis,
                AbortFill, Descend, Leave, RemoveAllocas, vars, passVars
  <2>2. pc' # "phi" => \A x \in Vars : work[x] = {}
    BY <1>3 DEF FrontierInv, Pass, Rename, StartRename, EnterBlock, RenameLoad, RenameStore,
                FillPhis, AbortFill, Descend, Leave, RemoveAllocas, vars, passVars
  <2> QED
    BY <1>1, <2>1, <2>2 DEF FrontierInv, Defines, StoreBlocks
<1> QED
    BY <1>2, <1>3

(* What the pass has done is what reaching definitions ask for.             *)
ReachInv == /\ StoresDone
            /\ ChildCalls
            /\ StackInv
            /\ LoadsInv
            /\ LoadOrigins
            /\ FillsInv
            /\ FrontierInv

LEMMA ReachStarts == Init => ReachInv
<1> SUFFICES ASSUME Init PROVE ReachInv
    OBVIOUS
<1>1. TypeOK /\ TablesInv
    BY WalkInit DEF WalkInv
<1>2. /\ pc = "phi" /\ calls = << >> /\ phis = {} /\ Len(calls) = 0
      /\ args = [f \in Phis |-> [b \in Blocks |-> Undef]]
      /\ subst = [n \in Names |-> n]
      /\ work = [x \in Vars |-> StoreBlocks(prog, x)]
    BY DEF Init, PassInit
<1>3. \A b \in Blocks : \A k : ~ Done(b, k)
    BY <1>2 DEF Done, Unseen
<1>4. StoresDone /\ LoadsInv
    BY <1>3 DEF StoresDone, LoadsInv
<1>5. ChildCalls /\ StackInv
  <2>1. Begun = 0
    BY <1>2 DEF Begun
  <2> QED
    BY <1>2, <2>1 DEF ChildCalls, StackInv
<1>6. LoadOrigins
  <2> SUFFICES ASSUME NEW n \in Names, NEW b \in Blocks, NEW k \in 1 .. Len(prog.code[b]),
                      LoadOf(prog.code[b][k], n)
               PROVE  Dominates(Succ, prog.home[n], b)
    BY <1>2 DEF LoadOrigins, Origin
  <2> QED
    BY <1>1, HomesAre DEF LoadOf
<1>7. FillsInv
  <2>1. \A f \in Phis, p \in Blocks : args[f][p] \notin Vals
    BY <1>2, ValsAssumption DEF Vals
  <2> QED
    BY <2>1 DEF FillsInv
<1>8. FrontierInv
    BY <1>2 DEF FrontierInv, Defines
<1> QED
    BY <1>4, <1>5, <1>6, <1>7, <1>8 DEF ReachInv

LEMMA ReachStep == PassInv /\ PassInv' /\ ReachInv /\ [Pass]_vars => ReachInv'
<1> SUFFICES ASSUME PassInv, PassInv', ReachInv, [Pass]_vars PROVE ReachInv'
    OBVIOUS
<1>1. WalkInv /\ WalkInv' /\ FreshInv /\ KeysInv
    BY DEF PassInv, ValuesInv, OperandsInv
<1>2. StoresDone' /\ ChildCalls'
    BY <1>1, StoresDoneStep, ChildCallsStep DEF ReachInv, WalkInv
<1>3. StackInv'
    BY <1>1, StackStep DEF ReachInv
<1>4. LoadsInv'
    BY <1>1, LoadsStep DEF ReachInv
<1>5. LoadOrigins'
    BY <1>1, LoadOriginsStep DEF ReachInv
<1>6. FillsInv'
    BY <1>1, FillsStep DEF ReachInv
<1>7. FrontierInv'
    BY <1>1, FrontierStep DEF ReachInv, WalkInv
<1> QED
    BY <1>2, <1>3, <1>4, <1>5, <1>6, <1>7 DEF ReachInv

(* At every step of the pass, the stacks, the loads replaced and the        *)
(* operands of the phis are what the sites that reach them give: re_name    *)
(* computes the reaching definitions (Mem2Reg.cpp).                         *)
THEOREM ReachingDefinitions == Spec => [](PassInv /\ ReachInv)
<1>1. Spec => []PassInv
    BY PassInvariant
<1>2. Init => ReachInv
    BY ReachStarts
<1>3. PassInv /\ PassInv' /\ ReachInv /\ [Pass]_vars => ReachInv'
    BY ReachStep
<1> QED
    BY <1>1, <1>2, <1>3, PTL DEF Spec

-----------------------------------------------------------------------------
(****************************************************************************)
(* The result: what happens along an edge and at a load.                    *)
(****************************************************************************)

LEMMA AllDone ==
    ASSUME CallsInv, pc = "done", NEW b \in Blocks, NEW k
    PROVE  Done(b, k) /\ Filled(b)
    BY AllFilled DEF Done

(* Over an edge to a block without the variable's phi, the same sites come  *)
(* before: else the block were in the frontier of one.                      *)
LEMMA EdgeReached ==
    ASSUME TablesInv, FrontierInv, pc = "done", NEW p \in Blocks, NEW s \in Blocks, s \in Succ[p],
           NEW m \in Nat, m = Len(prog.code[p]), NEW x \in Vars, <<s, x>> \notin phis,
           NEW d \in Blocks, NEW j \in Lines(d), Site(d, j, x)
    PROVE  Before(d, j, p, m) <=> Before(d, j, s, 0)
<1>1. IsFunctionCfg(Succ) /\ p \in Preds(Succ, s) /\ j \in Nat /\ (d = p => j <= m)
    BY ProgramIs, LinesAre DEF Preds, Lines
<1>2. ASSUME Before(d, j, p, m) PROVE Before(d, j, s, 0)
  <2>1. Dominates(Succ, d, p)
    BY <1>1, <1>2, BeforeDominates
  <2>2. Defines(d, x)
    <3>1. CASE j = 0
      BY <3>1 DEF Site, Defines
    <3>2. CASE j # 0
      BY <1>1, <3>2 DEF Site, Lines, Defines, StoreBlocks
    <3> QED
      BY <3>1, <3>2
  <2>3. s \notin df[d]
    BY <2>2 DEF FrontierInv
  <2>4. s \notin DominanceFrontier(Succ, d)
    BY <2>3 DEF TablesInv
  <2> QED
    BY <1>1, <2>1, <2>4 DEF DominanceFrontier, Before
<1>3. ASSUME Before(d, j, s, 0) PROVE Before(d, j, p, m)
  <2>1. ~ (d = s /\ j <= 0)
    BY <1>1 DEF Site
  <2>2. Dominates(Succ, d, p)
    BY <1>1, <1>3, <2>1, DominatesPreds DEF Before, StrictlyDominates
  <2> QED
    BY <1>1, <2>2 DEF Before, StrictlyDominates
<1> QED
    BY <1>2, <1>3

(* There the variable keeps what it holds, which the block does not compute *)
(* again.                                                                   *)
LEMMA EdgeKeeps ==
    ASSUME PassInv, ReachInv, pc = "done", NEW p \in Blocks, NEW s \in Blocks, s \in Succ[p],
           NEW m \in Nat, m = Len(prog.code[p]), NEW x \in Vars, <<s, x>> \notin phis,
           NEW v \in Names \cup Phis, Holds(x, p, m, v)
    PROVE  Holds(x, s, 0, v) /\ Origin(v) # s
<1> USE DEF PassInv, ValuesInv, WalkInv, ReachInv
<1>1. Holds(x, s, 0, v)
  <2>1. \A d \in Blocks : \A j \in Lines(d) :
            Site(d, j, x) => (Before(d, j, p, m) <=> Before(d, j, s, 0))
    BY EdgeReached
  <2> QED
    BY <2>1, SameReaches
<1>2. PICK d \in Blocks : \E j \in Lines(d) : Reaches(d, j, x, s, 0) /\ v = SiteVal(d, j, x)
    BY <1>1 DEF Holds
<1>3. PICK j \in Lines(d) : Reaches(d, j, x, s, 0) /\ v = SiteVal(d, j, x)
    BY <1>2
<1>4. Dominates(Succ, Origin(v), d) /\ Origin(v) \in Blocks /\ IsFunctionCfg(Succ)
    BY <1>3, SiteOrigin, HomesAre, ProgramIs DEF Reaches
<1>5. StrictlyDominates(Succ, d, s)
  <2>1. ~ (d = s /\ j <= 0)
    BY <1>3, LinesAre DEF Reaches, Site
  <2> QED
    BY <1>3, <2>1 DEF Reaches, Before
<1> QED
    BY <1>1, <1>4, <1>5, DominanceAntisymmetric DEF StrictlyDominates

(* Over an edge to a block with the variable's phi, the phi has it as its   *)
(* operand.                                                                 *)
LEMMA EdgeGives ==
    ASSUME PassInv, ReachInv, pc = "done", NEW p \in Blocks, NEW s \in Blocks, s \in Succ[p],
           NEW m \in Nat, m = Len(prog.code[p]), NEW x \in Vars, <<s, x>> \in phis,
           NEW v \in Names \cup Phis, Holds(x, p, m, v)
    PROVE  args[<<s, x>>][p] = v /\ Holds(x, s, 0, <<s, x>>)
<1> USE DEF PassInv, ValuesInv, WalkInv, ReachInv, OperandsInv
<1>1. PICK d \in Blocks : \E j \in Lines(d) : Reaches(d, j, x, p, m)
    BY DEF Holds
<1>2. PICK j \in Lines(d) : Reaches(d, j, x, p, m)
    BY <1>1
<1>3. Dominates(Succ, d, p)
    BY <1>2, ProgramIs, BeforeDominates DEF Reaches
<1>4. Defines(d, x)
  <2>1. CASE j = 0
    BY <1>2, <2>1 DEF Reaches, Site, Defines
  <2>2. CASE j # 0
    <3>1. j \in 1 .. Len(prog.code[d])
      BY <2>2, LinesAre DEF Lines
    <3> QED
      BY <1>2, <2>2, <3>1 DEF Reaches, Site, Defines, StoreBlocks
  <2> QED
    BY <2>1, <2>2
<1>5. PICK f \in phis : f = <<s, x>>
    OBVIOUS
<1>6. f \in Phis /\ f[1] = s /\ f[2] = x
    BY <1>5 DEF Phis
<1>7. args[f][p] # Undef
    BY <1>3, <1>4, <1>6, AllDone DEF FilledInv
<1>8. PICK w \in Vals : w = args[f][p]
    BY <1>6, <1>7 DEF TypeOK
<1>9. Holds(x, p, m, w)
    BY <1>6, <1>8 DEF FillsInv
<1>10. Holds(x, s, 0, <<s, x>>)
  <2>1. Done(s, 0) /\ 0 \in Lines(s)
    BY AllDone, LinesAre DEF Lines
  <2>2. Reaches(s, 0, x, s, 0)
    BY DEF Reaches, Site, Before
  <2> QED
    BY <2>1, <2>2 DEF Holds, SiteVal
<1> QED
    BY <1>5, <1>8, <1>9, <1>10, HoldsOne

(* A load has been replaced by what its variable holds.                     *)
LEMMA LoadGets ==
    ASSUME PassInv, ReachInv, pc = "done", NEW b \in Blocks, NEW k \in 1 .. Len(prog.code[b]),
           NEW n \in Names, LoadOf(prog.code[b][k], n), NEW r \in Nat, r = k - 1,
           NEW v \in Names \cup Phis, Holds(prog.code[b][k].var, b, r, v)
    PROVE  Operand(n) = v
<1> USE DEF PassInv, ValuesInv, WalkInv, ReachInv
<1>1. PICK x \in Vars : x = prog.code[b][k].var
    BY LinesAre DEF Instrs
<1>2. PICK w \in Vals : w = subst[n]
    BY DEF TypeOK
<1>3. Holds(x, b, r, w) \/ None(x, b, r)
    BY <1>1, <1>2, AllDone DEF LoadsInv
<1>4. ~ None(x, b, r)
    BY <1>1 DEF None, Holds, Reaches
<1> QED
    BY <1>1, <1>2, <1>3, <1>4, HoldsOne DEF Operand

(* A name that no load has stands for itself.                               *)
Results == {n \in Names : \A l \in Loads(prog) : l.val # n}

LEMMA ResultsStay ==
    ASSUME TablesInv, FreshInv, NEW n \in Names
    PROVE  /\ n \in Results => Operand(n) = n
           /\ n \notin Results => \E b \in Blocks : \E k \in 1 .. Len(prog.code[b]) :
                                      LoadOf(prog.code[b][k], n)
           /\ n \in Results => \A b \in Blocks : \A k \in 1 .. Len(prog.code[b]) :
                                      ~ LoadOf(prog.code[b][k], n)
<1>1. n \in Results => \A b \in Blocks : \A k \in 1 .. Len(prog.code[b]) : ~ LoadOf(prog.code[b][k], n)
    BY DEF Results, Loads, LoadOf
<1>2. n \in Results => n \notin Treated
    BY <1>1 DEF Treated
<1>3. n \notin Results => \E b \in Blocks : \E k \in 1 .. Len(prog.code[b]) : LoadOf(prog.code[b][k], n)
    BY DEF Results, Loads, LoadOf
<1> QED
    BY <1>1, <1>2, <1>3 DEF FreshInv, Operand

-----------------------------------------------------------------------------
(****************************************************************************)
(* The execution: a cell holds the value of the site that reaches it.       *)
(****************************************************************************)

(* Where the execution is.                                                  *)
PlaceInv ==
    /\ stage \in {"start", "run", "copy"}
    /\ here \in Blocks
    /\ upto \in 0 .. Len(prog.code[here])
    /\ mem = [x \in Vars |-> mem[x]]
    /\ DOMAIN new \subseteq phis \cup Results
    /\ stage = "start" => /\ \A x \in Vars : mem[x] = Undef
                          /\ old = << >> /\ new = << >> /\ slots = << >>
    /\ stage # "start" => pc = "done"
    /\ stage = "copy" => /\ upto = Len(prog.code[here])
                         /\ copied \subseteq CopiesAt(here)
                         /\ copies = CopiesAt(here) \ copied
    /\ stage # "copy" => copies = {} /\ copied = {}

(* A cell that was written has the value of the site that reaches.          *)
CellsHold ==
    \A x \in Vars : mem[x] # Undef =>
        \E v \in Names \cup Phis : Holds(x, here, upto, v) /\ Value(new, v) = mem[x]

(* The loads before this point have the value that stands in their place,   *)
(* and the other names are the same in both.                                *)
LoadsSame ==
    \A c \in Blocks : \A k \in 1 .. Len(prog.code[c]) : \A n \in Names :
        LoadOf(prog.code[c][k], n) /\ Before(c, k, here, upto) /\ Value(old, n) # Undef
            => Value(new, Operand(n)) = Value(old, n)
ResultsSame == \A n \in Results : Value(new, n) = Value(old, n)

ValueInv == PlaceInv /\ CellsHold /\ LoadsSame /\ ResultsSame /\ LoadsPreserved

(* As long as no copy has overwritten a phi that is still needed, the slots *)
(* of the values current here are right, but for the phis copied already,   *)
(* which have their operands.                                               *)
SlotsHold ==
    /\ \A v \in Names \cup Phis :
          Dominates(Succ, Origin(v), here) /\ Value(new, v) # Undef /\ v \notin copied
              => Value(slots, v) = Value(new, v)
    /\ \A f \in copied :
          Value(new, args[f][here]) # Undef => Value(slots, f) = Value(new, args[f][here])

SlotInv == ~ spoiled => SlotsHold /\ missed = {}

LEMMA ValueWith ==
    ASSUME NEW env, NEW more, NEW n
    PROVE  Value(With(env, more), n) = IF n \in DOMAIN more THEN more[n] ELSE Value(env, n)
    BY DEF Value, With

(* What is not computed has no value.                                       *)
LEMMA ValuesAre ==
    ASSUME TypeOK, PlaceInv, NEW v, Value(new, v) # Undef
    PROVE  v \in phis \cup Results /\ v \in Names \cup Phis /\ v # Undef /\ v # Garbage
    BY ValsAssumption DEF TypeOK, PlaceInv, Value, Results

(* The values after a block is entered.                                     *)
LEMMA EnteredValues ==
    ASSUME TypeOK, NEW b \in Blocks, b = here',
           new' = With(With(new, PhiValues(b)), Computed(b)),
           old' = With(old, Computed(b)), slots' = With(slots, Computed(b))
    PROVE  /\ \A n \in Results : prog.home[n] = b =>
                 /\ Value(new', n) = <<n, steps>> /\ Value(old', n) = <<n, steps>>
                 /\ Value(slots', n) = <<n, steps>>
           /\ \A n : ~ (n \in Results /\ prog.home[n] = b) =>
                 /\ Value(old', n) = Value(old, n) /\ Value(slots', n) = Value(slots, n)
           /\ \A f \in phis : f[1] = b => Value(new', f) = Value(new, args[f][here])
           /\ \A v : ~ (v \in Results /\ prog.home[v] = b) /\ ~ (v \in phis /\ v[1] = b) =>
                 Value(new', v) = Value(new, v)
           /\ DOMAIN new' \subseteq DOMAIN new \cup phis \cup Results
<1>1. /\ DOMAIN Computed(b) = {n \in Results : prog.home[n] = b}
      /\ \A n \in DOMAIN Computed(b) : Computed(b)[n] = <<n, steps>>
    BY DEF Computed, Results
<1>2. /\ DOMAIN PhiValues(b) = {g \in phis : g[1] = b}
      /\ \A f \in DOMAIN PhiValues(b) : PhiValues(b)[f] = Value(new, args[f][here])
    BY DEF PhiValues
<1>3. \A f \in phis : f \notin Results
    BY ValsAssumption DEF TypeOK, Results
<1>4. \A v : Value(new', v) = IF v \in DOMAIN Computed(b) THEN Computed(b)[v]
                              ELSE IF v \in DOMAIN PhiValues(b) THEN PhiValues(b)[v]
                              ELSE Value(new, v)
    BY ValueWith
<1>5. \A v : /\ Value(old', v) = IF v \in DOMAIN Computed(b) THEN Computed(b)[v] ELSE Value(old, v)
             /\ Value(slots', v) = IF v \in DOMAIN Computed(b) THEN Computed(b)[v] ELSE Value(slots, v)
    BY ValueWith
<1>6. DOMAIN new' = (DOMAIN new \cup DOMAIN PhiValues(b)) \cup DOMAIN Computed(b)
    BY DEF With
<1>7. DOMAIN new' \subseteq DOMAIN new \cup phis \cup Results
    BY <1>1, <1>2, <1>6
<1> QED
    BY <1>1, <1>2, <1>3, <1>4, <1>5, <1>7

(* The pass is over when something is executed, and done.                   *)
LEMMA ExecuteKeeps ==
    ASSUME UNCHANGED vars
    PROVE  /\ prog' = prog /\ phis' = phis /\ args' = args /\ pc' = pc /\ Succ' = Succ
           /\ Results' = Results
           /\ \A n : Operand(n)' = Operand(n) /\ Origin(n)' = Origin(n)
           /\ \A b : CopiesAt(b)' = CopiesAt(b)
           /\ \A x, b, k, v : Holds(x, b, k, v)' = Holds(x, b, k, v)
           /\ \A c, k, b, m : Before(c, k, b, m)' = Before(c, k, b, m)
<1>1. UNCHANGED <<prog, phis, args, pc, subst, calls, at>> /\ Succ' = Succ
    BY DEF vars, passVars, Succ
<1>2. Results' = Results /\ \A n : Operand(n)' = Operand(n) /\ Origin(n)' = Origin(n)
    BY <1>1 DEF Results, Operand, Origin, Loads
<1>3. \A b : CopiesAt(b)' = CopiesAt(b)
    BY <1>1 DEF CopiesAt
<1>4. \A c, k, b, m : Before(c, k, b, m)' = Before(c, k, b, m)
    BY <1>1 DEF Before
<1>5. \A d, j : Done(d, j)' = Done(d, j)
    BY <1>1 DEF Done, Unseen, Below, Current
<1>6. \A d, j, x : SiteVal(d, j, x)' = SiteVal(d, j, x) /\ Site(d, j, x)' = Site(d, j, x)
    BY <1>1, <1>2 DEF SiteVal, Site, Stores
<1>7. \A b : Lines(b)' = Lines(b)
    BY <1>1 DEF Lines
<1>8. \A d, j, x, b, k : Reaches(d, j, x, b, k)' = Reaches(d, j, x, b, k)
    BY <1>4, <1>6, <1>7 DEF Reaches
<1>9. \A x, b, k, v : Holds(x, b, k, v)' = Holds(x, b, k, v)
    BY <1>5, <1>6, <1>7, <1>8 DEF Holds
<1> QED
    BY <1>1, <1>2, <1>3, <1>4, <1>9

LEMMA PassIsOver == pc = "done" => ~ Pass
    BY DEF Pass, Rename, PlacePhis, StartRename, EnterBlock, RenameLoad, RenameStore, FillPhis,
           AbortFill, Descend, Leave, RemoveAllocas

(* Where nothing is executed, nothing has been yet, or all is the same.     *)
LEMMA PassRuns ==
    ASSUME TablesInv, ValueInv, SlotInv,
           (Pass /\ UNCHANGED runVars) \/ UNCHANGED <<vars, runVars>>
    PROVE  ValueInv' /\ SlotInv'
<1> USE DEF ValueInv
<1>1. UNCHANGED runVars /\ [Pass]_vars
    BY DEF vars, passVars, runVars
<1>2. prog' = prog /\ Succ' = Succ /\ Results' = Results
    BY <1>1, TablesKept DEF Results, Loads
<1>3. /\ UNCHANGED <<stage, here, upto, steps, mem, old, new, differ>>
      /\ UNCHANGED <<slots, missed, copies, copied, spoiled>>
    BY <1>1 DEF runVars
<1>4. CASE stage = "start"
  <2>1. old = << >> /\ new = << >> /\ slots = << >> /\ DOMAIN << >> = {}
    BY <1>4 DEF PlaceInv
  <2>2. \A n : Value(old, n) = Undef /\ Value(new, n) = Undef
    BY <2>1 DEF Value
  <2>3. PlaceInv'
    BY <1>2, <1>3, <1>4, <2>1 DEF PlaceInv
  <2>4. CellsHold'
    BY <1>3, <1>4 DEF PlaceInv, CellsHold
  <2>5. LoadsSame'
    BY <1>3, <2>2 DEF LoadsSame
  <2>6. ResultsSame'
    BY <1>3, <2>2 DEF ResultsSame
  <2>7. SlotsHold'
    BY <1>3, <1>4, <2>2 DEF SlotsHold, PlaceInv
  <2> QED
    BY <1>3, <2>3, <2>4, <2>5, <2>6, <2>7 DEF SlotInv, LoadsPreserved
<1>5. CASE stage # "start"
  <2>1. UNCHANGED vars
    BY <1>1, <1>5, PassIsOver DEF PlaceInv
  <2>2. PlaceInv'
    BY <1>2, <1>3, <2>1, ExecuteKeeps DEF PlaceInv
  <2>3. CellsHold'
    BY <1>3, <2>1, ExecuteKeeps DEF CellsHold
  <2>4. LoadsSame'
    BY <1>2, <1>3, <2>1, ExecuteKeeps DEF LoadsSame, LoadOf
  <2>5. ResultsSame'
    BY <1>2, <1>3 DEF ResultsSame
  <2>6. SlotsHold => SlotsHold'
    BY <1>2, <1>3, <2>1, ExecuteKeeps DEF SlotsHold
  <2> QED
    BY <1>3, <2>2, <2>3, <2>4, <2>5, <2>6 DEF SlotInv, LoadsPreserved
<1> QED
    BY <1>4, <1>5 DEF PlaceInv

(* A block is entered: the cells keep their values, which the variables     *)
(* hold in the phis or in what came before.                                 *)
LEMMA ValuesEnter ==
    ASSUME PassInv, ReachInv, ValueInv, EnterSuccessor, UNCHANGED vars
    PROVE  ValueInv'
<1> USE DEF PassInv, ValuesInv, WalkInv, ValueInv
<1> PICK b \in Blocks :
        /\ \/ stage = "start" /\ b = Root
           \/ stage = "copy" /\ copies = {} /\ b \in Succ[here]
        /\ here' = b
        /\ old' = With(old, Computed(b))
        /\ new' = With(With(new, PhiValues(b)), Computed(b))
        /\ slots' = With(slots, Computed(b))
    BY DEF EnterSuccessor
<1>1. /\ pc = "done" /\ stage' = "run" /\ upto' = 0 /\ copied' = {} /\ copies' = copies
      /\ mem' = mem /\ differ' = differ /\ here' = b
    BY DEF EnterSuccessor
<1>2. /\ \A n \in Results : prog.home[n] = b => Value(new', n) = Value(old', n)
      /\ \A n : ~ (n \in Results /\ prog.home[n] = b) => Value(old', n) = Value(old, n)
      /\ \A f \in phis : f[1] = b => Value(new', f) = Value(new, args[f][here])
      /\ \A v : ~ (v \in Results /\ prog.home[v] = b) /\ ~ (v \in phis /\ v[1] = b) =>
             Value(new', v) = Value(new, v)
      /\ DOMAIN new' \subseteq DOMAIN new \cup phis \cup Results
    BY EnteredValues
<1>3. IsFunctionCfg(Succ) /\ \A v \in Names \cup Phis : Origin(v) \in Blocks
    BY ProgramIs, HomesAre
<1>4. \A v : Origin(v) # b => Value(new', v) = Value(new, v)
    BY <1>2, ValsAssumption DEF Origin, Results, TypeOK
<1>5. PlaceInv'
  <2>1. upto' \in 0 .. Len(prog.code[here'])
    BY <1>1, LinesAre
  <2>2. copies = {}
    BY <1>1 DEF PlaceInv
  <2> QED
    BY <1>1, <1>2, <2>1, <2>2, ExecuteKeeps DEF PlaceInv
<1>6. CellsHold'
  <2> SUFFICES ASSUME NEW x \in Vars, mem[x] # Undef
               PROVE  \E v \in Names \cup Phis : Holds(x, b, 0, v) /\ Value(new', v) = mem[x]
    BY <1>1, ExecuteKeeps DEF CellsHold
  <2>1. stage = "copy" /\ b \in Succ[here] /\ here \in Blocks /\ upto = Len(prog.code[here])
    BY DEF PlaceInv
  <2>2. PICK v \in Names \cup Phis : Holds(x, here, upto, v) /\ Value(new, v) = mem[x]
    BY DEF CellsHold
  <2>3. upto \in Nat
    BY <2>1, LinesAre
  <2>4. CASE <<b, x>> \in phis
    <3>1. args[<<b, x>>][here] = v /\ Holds(x, b, 0, <<b, x>>)
      BY <1>1, <2>1, <2>2, <2>3, <2>4, EdgeGives
    <3>2. PICK f \in phis : f = <<b, x>>
      BY <2>4
    <3>3. Value(new', f) = mem[x] /\ f \in Phis
      BY <1>2, <2>2, <3>1, <3>2 DEF TypeOK
    <3> QED
      BY <3>1, <3>2, <3>3
  <2>5. CASE <<b, x>> \notin phis
    <3>1. Holds(x, b, 0, v) /\ Origin(v) # b
      BY <1>1, <2>1, <2>2, <2>3, <2>5, EdgeKeeps
    <3> QED
      BY <1>4, <2>2, <3>1
  <2> QED
    BY <2>4, <2>5
<1>7. LoadsSame'
  <2> SUFFICES ASSUME NEW c \in Blocks, NEW k \in 1 .. Len(prog.code[c]), NEW n \in Names,
                      LoadOf(prog.code[c][k], n), Before(c, k, b, 0), Value(old', n) # Undef
               PROVE  Value(new', Operand(n)) = Value(old', n)
    BY <1>1, ExecuteKeeps DEF LoadsSame, LoadOf
  <2>1. n \notin Results
    BY ResultsStay
  <2>2. Value(old', n) = Value(old, n) /\ Value(old, n) # Undef
    BY <1>2, <2>1
  <2>3. StrictlyDominates(Succ, c, b)
    BY DEF Before
  <2>4. stage = "copy" /\ b \in Succ[here] /\ here \in Blocks /\ upto = Len(prog.code[here])
    <3>1. stage # "start"
      BY <2>2 DEF PlaceInv, Value
    <3> QED
      BY <3>1 DEF PlaceInv
  <2>5. Dominates(Succ, c, here)
    BY <1>3, <2>3, <2>4, DominatesPreds DEF StrictlyDominates, Preds
  <2>6. Before(c, k, here, upto)
    BY <2>4, <2>5 DEF Before, StrictlyDominates
  <2>7. Value(new, Operand(n)) = Value(old, n)
    BY <2>2, <2>6 DEF LoadsSame
  <2>8. Operand(n) = subst[n] /\ subst[n] \in Names \cup Phis
    BY <2>2, <2>7, ValuesAre DEF Operand
  <2>9. Dominates(Succ, Origin(subst[n]), c) /\ Origin(subst[n]) \in Blocks
    BY <1>3, <2>8 DEF ReachInv, LoadOrigins
  <2>10. Origin(subst[n]) # b
    BY <1>3, <2>3, <2>9, DominanceAntisymmetric DEF StrictlyDominates
  <2> QED
    BY <1>4, <2>2, <2>7, <2>8, <2>10
<1>8. ResultsSame'
  <2> SUFFICES ASSUME NEW n \in Results PROVE Value(new', n) = Value(old', n)
    BY ExecuteKeeps DEF ResultsSame
  <2>1. CASE prog.home[n] = b
    BY <1>2, <2>1
  <2>2. CASE prog.home[n] # b
    BY <1>2, <1>4, <2>2 DEF ResultsSame, Origin, Results
  <2> QED
    BY <2>1, <2>2
<1> QED
    BY <1>1, <1>5, <1>6, <1>7, <1>8 DEF LoadsPreserved

(* The line that is executed, and what comes before the next.               *)
LEMMA LineIs ==
    ASSUME TablesInv, PlaceInv, upto < Len(prog.code[here])
    PROVE  /\ upto \in Nat /\ upto + 1 \in 1 .. Len(prog.code[here])
           /\ prog.code[here][upto + 1] \in Instrs
           /\ \A d \in Blocks : \A j \in Nat : 
                 ~ (d = here /\ j = upto + 1) =>
                     (Before(d, j, here, upto) <=> Before(d, j, here, upto + 1))
<1>1. upto \in Nat /\ upto + 1 \in 1 .. Len(prog.code[here])
    BY LinesAre DEF PlaceInv
<1>2. prog.code[here][upto + 1] \in Instrs
    BY <1>1, LinesAre DEF PlaceInv
<1>3. ASSUME NEW d \in Blocks, NEW j \in Nat, ~ (d = here /\ j = upto + 1)
      PROVE  Before(d, j, here, upto) <=> Before(d, j, here, upto + 1)
    BY <1>1, <1>3 DEF Before
<1> QED
    BY <1>1, <1>2, <1>3

(* A line that gives a variable no value leaves what it holds.              *)
LEMMA HeldPast ==
    ASSUME TablesInv, PlaceInv, upto < Len(prog.code[here]), NEW x,
           ~ Stores(prog.code[here][upto + 1], x), NEW v, Holds(x, here, upto, v)
    PROVE  Holds(x, here, upto + 1, v)
<1>1. ASSUME NEW d \in Blocks, NEW j \in Lines(d), Site(d, j, x)
      PROVE  Before(d, j, here, upto) <=> Before(d, j, here, upto + 1)
  <2>1. j \in Nat
    BY LinesAre
  <2>2. ~ (d = here /\ j = upto + 1)
    BY <1>1, LineIs DEF Site
  <2> QED
    BY <2>1, <2>2, LineIs
<1> QED
    BY <1>1, SameReaches

(* What a load reads, its users have in the result.                         *)
LEMMA LoadReads ==
    ASSUME PassInv, ReachInv, ValueInv, pc = "done", upto < Len(prog.code[here]),
           NEW i, i = prog.code[here][upto + 1], i.op = "load", mem[i.var] # Undef
    PROVE  Value(new, Operand(i.val)) = mem[i.var]
<1>1. /\ upto \in Nat /\ upto + 1 \in 1 .. Len(prog.code[here]) /\ here \in Blocks
      /\ i.var \in Vars /\ i.val \in Names /\ LoadOf(i, i.val)
    BY LineIs DEF PassInv, ValuesInv, WalkInv, ValueInv, PlaceInv, Instrs, LoadOf
<1>2. PICK v \in Names \cup Phis : Holds(i.var, here, upto, v) /\ Value(new, v) = mem[i.var]
    BY <1>1 DEF ValueInv, CellsHold
<1>3. (upto + 1) - 1 = upto
    BY <1>1
<1>4. Operand(i.val) = v
    BY <1>1, <1>2, <1>3, LoadGets
<1> QED
    BY <1>2, <1>4

(* A load is executed: it reads what its users get in the result.           *)
LEMMA ValuesLoad ==
    ASSUME PassInv, ReachInv, ValueInv, ExecuteLoad, UNCHANGED vars
    PROVE  ValueInv'
<1> USE DEF PassInv, ValuesInv, WalkInv, ValueInv
<1> DEFINE i == prog.code[here][upto + 1]
<1>1. /\ stage = "run" /\ upto < Len(prog.code[here]) /\ upto' = upto + 1
      /\ UNCHANGED <<stage, here, mem, new, slots, copies, copied>>
      /\ i.op = "load" /\ old' = With(old, [n \in {i.val} |-> mem[i.var]])
      /\ differ' = IF mem[i.var] \in {Undef, Value(new, Operand(i.val))}
                   THEN differ ELSE differ \cup {i.val}
    BY DEF ExecuteLoad
<1>2. /\ upto \in Nat /\ upto + 1 \in 1 .. Len(prog.code[here]) /\ here \in Blocks
      /\ i.var \in Vars /\ i.val \in Names /\ LoadOf(i, i.val) /\ pc = "done"
    BY <1>1, LineIs DEF PlaceInv, Instrs, LoadOf
<1>3. /\ Value(old', i.val) = mem[i.var]
      /\ \A n : n # i.val => Value(old', n) = Value(old, n)
    BY <1>1, ValueWith
<1>4. mem[i.var] # Undef => Value(new, Operand(i.val)) = mem[i.var]
    BY <1>1, <1>2, LoadReads
<1> HIDE DEF i
<1>5. PlaceInv'
    BY <1>1, <1>2, ExecuteKeeps DEF PlaceInv
<1>6. CellsHold'
  <2> SUFFICES ASSUME NEW x \in Vars, mem[x] # Undef
               PROVE  \E v \in Names \cup Phis : Holds(x, here, upto + 1, v) /\ Value(new, v) = mem[x]
    BY <1>1, ExecuteKeeps DEF CellsHold
  <2>1. PICK v \in Names \cup Phis : Holds(x, here, upto, v) /\ Value(new, v) = mem[x]
    BY DEF CellsHold
  <2>2. ~ Stores(prog.code[here][upto + 1], x)
    BY <1>1 DEF Stores, i
  <2> QED
    BY <1>1, <2>1, <2>2, HeldPast
<1>7. LoadsSame'
  <2> SUFFICES ASSUME NEW c \in Blocks, NEW k \in 1 .. Len(prog.code[c]), NEW n \in Names,
                      LoadOf(prog.code[c][k], n), Before(c, k, here, upto + 1),
                      Value(old', n) # Undef
               PROVE  Value(new, Operand(n)) = Value(old', n)
    BY <1>1, ExecuteKeeps DEF LoadsSame, LoadOf
  <2>1. CASE n = i.val
    BY <1>3, <1>4, <2>1
  <2>2. CASE n # i.val
    <3>1. ~ (c = here /\ k = upto + 1)
      BY <2>2 DEF LoadOf, i
    <3>2. k \in Nat
      OBVIOUS
    <3>3. Before(c, k, here, upto)
      BY <1>1, <3>1, <3>2, LineIs
    <3> QED
      BY <1>3, <2>2, <3>3 DEF LoadsSame
  <2> QED
    BY <2>1, <2>2
<1>8. ResultsSame'
  <2>1. i.val \notin Results
    BY <1>2, ResultsStay DEF i
  <2> QED
    BY <1>1, <1>3, <2>1, ExecuteKeeps DEF ResultsSame
<1>9. LoadsPreserved'
    BY <1>1, <1>4 DEF LoadsPreserved
<1> QED
    BY <1>5, <1>6, <1>7, <1>8, <1>9

(* A store is executed: the variable holds what was stored.                 *)
LEMMA ValuesStore ==
    ASSUME PassInv, ReachInv, ValueInv, ExecuteStore, UNCHANGED vars
    PROVE  ValueInv'
<1> USE DEF PassInv, ValuesInv, WalkInv, ValueInv
<1> DEFINE i == prog.code[here][upto + 1]
<1>1. /\ stage = "run" /\ upto < Len(prog.code[here]) /\ upto' = upto + 1
      /\ UNCHANGED <<stage, here, old, new, differ, slots, copies, copied>>
      /\ i.op = "store" /\ mem' = [mem EXCEPT ![i.var] = Value(old, i.val)]
    BY DEF ExecuteStore
<1>2. /\ upto \in Nat /\ upto + 1 \in 1 .. Len(prog.code[here]) /\ here \in Blocks
      /\ i.var \in Vars /\ i.val \in Names /\ pc = "done"
    BY <1>1, LineIs DEF PlaceInv, Instrs
<1>3. /\ mem'[i.var] = Value(old, i.val)
      /\ \A x \in Vars : x # i.var => mem'[x] = mem[x]
      /\ mem' = [x \in Vars |-> mem'[x]]
  <2>1. mem = [x \in Vars |-> mem[x]]
    BY DEF PlaceInv
  <2> QED
    BY <1>1, <1>2, <2>1
<1>4. Value(old, i.val) # Undef => Value(new, Operand(i.val)) = Value(old, i.val)
  <2>1. CASE i.val \in Results
    BY <1>2, <2>1, ResultsStay DEF ResultsSame
  <2>2. CASE i.val \notin Results
    <3>1. PICK c \in Blocks : \E k \in 1 .. Len(prog.code[c]) : LoadOf(prog.code[c][k], i.val)
      BY <1>2, <2>2, ResultsStay
    <3>2. PICK k \in 1 .. Len(prog.code[c]) : LoadOf(prog.code[c][k], i.val)
      BY <3>1
    <3>3. (here = c /\ k < upto + 1) \/ StrictlyDominates(Succ, c, here)
      BY <1>1, <1>2, <3>2, LoadPlace DEF LoadOf
    <3>4. Before(c, k, here, upto)
      BY <1>2, <3>3 DEF Before
    <3> QED
      BY <1>2, <3>2, <3>4 DEF LoadsSame
  <2> QED
    BY <2>1, <2>2
<1>5. PlaceInv'
  <2> HIDE DEF i
  <2>1. /\ prog' = prog /\ pc' = pc /\ phis' = phis /\ Results' = Results
        /\ upto + 1 \in 0 .. Len(prog.code[here])
    BY <1>2, ExecuteKeeps
  <2> QED
    BY <1>1, <1>3, <2>1 DEF PlaceInv
<1>6. CellsHold'
  <2>0. /\ here' = here /\ upto' = upto + 1 /\ new' = new
        /\ \A x, b, k, v : Holds(x, b, k, v)' = Holds(x, b, k, v)
    BY <1>1, ExecuteKeeps
  <2> HIDE DEF i
  <2> SUFFICES ASSUME NEW x \in Vars, mem'[x] # Undef
               PROVE  \E v \in Names \cup Phis : Holds(x, here, upto + 1, v) /\ Value(new, v) = mem'[x]
    BY <2>0 DEF CellsHold
  <2>1. CASE x = i.var
    <3>1. Value(new, Operand(i.val)) = mem'[x]
      BY <1>3, <1>4, <2>1
    <3>2. PICK v \in Names \cup Phis : v = Operand(i.val)
      BY <3>1, ValuesAre
    <3>3. Done(here, upto + 1) /\ upto + 1 \in Lines(here) /\ upto + 1 # 0
      BY <1>2, AllDone DEF Lines
    <3>4. Reaches(here, upto + 1, x, here, upto + 1)
      <4>1. Before(here, upto + 1, here, upto + 1)
        BY <1>2 DEF Before
      <4>2. Site(here, upto + 1, x)
        BY <1>1, <2>1, <3>3 DEF Site, Stores, i
      <4> QED
        BY <4>1, <4>2 DEF Reaches
    <3>5. SiteVal(here, upto + 1, x) = v
      BY <3>2, <3>3 DEF SiteVal, i
    <3> QED
      BY <1>2, <3>1, <3>2, <3>3, <3>4, <3>5 DEF Holds
  <2>2. CASE x # i.var
    <3>1. PICK v \in Names \cup Phis : Holds(x, here, upto, v) /\ Value(new, v) = mem[x]
      BY <1>3, <2>2 DEF CellsHold
    <3> QED
      BY <1>1, <1>3, <2>2, <3>1, HeldPast DEF Stores, i
  <2> QED
    BY <2>1, <2>2
<1>7. LoadsSame'
  <2> SUFFICES ASSUME NEW c \in Blocks, NEW k \in 1 .. Len(prog.code[c]), NEW n \in Names,
                      LoadOf(prog.code[c][k], n), Before(c, k, here, upto + 1),
                      Value(old, n) # Undef
               PROVE  Value(new, Operand(n)) = Value(old, n)
    BY <1>1, ExecuteKeeps DEF LoadsSame, LoadOf
  <2>1. ~ (c = here /\ k = upto + 1)
    BY <1>1 DEF LoadOf
  <2>2. k \in Nat
    OBVIOUS
  <2>3. Before(c, k, here, upto)
    BY <1>1, <2>1, <2>2, LineIs
  <2> QED
    BY <2>3 DEF LoadsSame
<1> HIDE DEF i
<1>8. ResultsSame' /\ LoadsPreserved'
    BY <1>1, ExecuteKeeps DEF ResultsSame, LoadsPreserved
<1> QED
    BY <1>5, <1>6, <1>7, <1>8

(* At the end of a block, only the copies are made.                         *)
LEMMA ValuesEnd ==
    ASSUME TablesInv, ValueInv, EndBlock \/ CopyPhi, UNCHANGED vars
    PROVE  ValueInv'
<1> USE DEF ValueInv
<1>1. UNCHANGED <<here, upto, mem, old, new, differ>>
    BY DEF EndBlock, CopyPhi
<1>2. PlaceInv'
  <2>1. CASE EndBlock
    BY <1>1, <2>1, ExecuteKeeps DEF EndBlock, PlaceInv
  <2>2. CASE CopyPhi
    <3>1. PICK f \in copies : copies' = copies \ {f} /\ copied' = copied \cup {f}
      BY <2>2 DEF CopyPhi
    <3>2. stage = "copy" /\ stage' = "copy"
      BY <2>2 DEF CopyPhi
    <3> QED
      BY <1>1, <3>1, <3>2, ExecuteKeeps DEF PlaceInv
  <2> QED
    BY <2>1, <2>2
<1>3. CellsHold'
    BY <1>1, ExecuteKeeps DEF CellsHold
<1>4. LoadsSame'
    BY <1>1, ExecuteKeeps DEF LoadsSame, LoadOf
<1>5. ResultsSame' /\ LoadsPreserved'
    BY <1>1, ExecuteKeeps DEF ResultsSame, LoadsPreserved
<1> QED
    BY <1>2, <1>3, <1>4, <1>5

-----------------------------------------------------------------------------
(****************************************************************************)
(* The backend's code: the copies stand for the phis.                       *)
(****************************************************************************)

(* A block is entered: its phis were copied with their operands, and no     *)
(* other phi that is current in it was.                                     *)
LEMMA SlotsEnter ==
    ASSUME PassInv, ReachInv, ValueInv, SlotInv, EnterSuccessor, UNCHANGED vars
    PROVE  SlotInv'
<1> USE DEF PassInv, ValuesInv, WalkInv, ValueInv
<1> PICK b \in Blocks :
        /\ \/ stage = "start" /\ b = Root
           \/ stage = "copy" /\ copies = {} /\ b \in Succ[here]
        /\ here' = b
        /\ old' = With(old, Computed(b))
        /\ new' = With(With(new, PhiValues(b)), Computed(b))
        /\ slots' = With(slots, Computed(b))
        /\ spoiled' = (spoiled \/ Lost(b))
    BY DEF EnterSuccessor
<1>1. missed' = missed /\ copied' = {} /\ stage' = "run"
    BY DEF EnterSuccessor
<1> SUFFICES ASSUME ~ spoiled, ~ Lost(b) PROVE SlotsHold'
    BY <1>1 DEF SlotInv
<1>2. /\ \A n \in Results : prog.home[n] = b => Value(new', n) = Value(slots', n)
      /\ \A n : ~ (n \in Results /\ prog.home[n] = b) => Value(slots', n) = Value(slots, n)
      /\ \A f \in phis : f[1] = b => Value(new', f) = Value(new, args[f][here])
      /\ \A v : ~ (v \in Results /\ prog.home[v] = b) /\ ~ (v \in phis /\ v[1] = b) =>
             Value(new', v) = Value(new, v)
    BY EnteredValues
<1>3. IsFunctionCfg(Succ) /\ \A v \in Names \cup Phis : Origin(v) \in Blocks
    BY ProgramIs, HomesAre
<1> SUFFICES ASSUME NEW v \in Names \cup Phis, Dominates(Succ, Origin(v), b), Value(new', v) # Undef
             PROVE  Value(slots', v) = Value(new', v)
    BY <1>1, ExecuteKeeps DEF SlotsHold
<1>4. CASE v \in Results /\ prog.home[v] = b
    BY <1>2, <1>4
<1>5. CASE v \in phis /\ v[1] = b
  <2>1. v \in Phis /\ v \notin Names
    BY <1>5, ValsAssumption DEF TypeOK
  <2>2. Value(new, args[v][here]) # Undef /\ Value(new', v) = Value(new, args[v][here])
    BY <1>2, <1>5
  <2>3. args[v][here] # Undef /\ stage # "start"
    <3>1. args[v][here] # Undef
      BY <2>2, ValuesAre
    <3>2. stage # "start"
      BY <2>2 DEF PlaceInv, Value
    <3> QED
      BY <3>1, <3>2
  <2>4. v \in CopiesAt(here)
    BY <1>5, <2>3 DEF CopiesAt
  <2>5. v \in copied
    BY <2>3, <2>4 DEF PlaceInv
  <2>6. Value(slots, v) = Value(new, args[v][here])
    BY <2>2, <2>5 DEF SlotInv, SlotsHold
  <2> QED
    BY <1>2, <2>1, <2>2, <2>6 DEF Results
<1>6. CASE ~ (v \in Results /\ prog.home[v] = b) /\ ~ (v \in phis /\ v[1] = b)
  <2>1. Value(new', v) = Value(new, v) /\ Value(slots', v) = Value(slots, v)
    BY <1>2, <1>6
  <2>2. v \in phis \cup Results
    BY <2>1, ValuesAre
  <2>3. Origin(v) # b
    BY <1>6, <2>2, ValsAssumption DEF Origin, Results, TypeOK
  <2>4. stage = "copy" /\ b \in Succ[here] /\ here \in Blocks
    <3>1. stage # "start"
      BY <2>1 DEF PlaceInv, Value
    <3> QED
      BY <3>1 DEF PlaceInv
  <2>5. Dominates(Succ, Origin(v), here)
    BY <1>3, <2>3, <2>4, DominatesPreds DEF Preds
  <2>6. v \notin copied
    <3>1. SUFFICES ASSUME v \in copied PROVE FALSE
      OBVIOUS
    <3>2. v \in phis /\ v \in Phis /\ v \notin Names
      BY <3>1, <2>4, ValsAssumption DEF PlaceInv, CopiesAt, TypeOK
    <3>3. v[1] # b /\ Dominates(Succ, v[1], b)
      BY <2>3, <3>2 DEF Origin
    <3> QED
      BY <3>1, <3>3 DEF Lost
  <2> QED
    BY <2>1, <2>5, <2>6 DEF SlotInv, SlotsHold
<1> QED
    BY <1>4, <1>5, <1>6

(* What a load reads is in the slot of what replaces it.                    *)
LEMMA SlotsLoad ==
    ASSUME PassInv, ReachInv, ValueInv, SlotInv, ExecuteLoad, UNCHANGED vars
    PROVE  SlotInv'
<1> USE DEF PassInv, ValuesInv, WalkInv, ValueInv
<1> DEFINE i == prog.code[here][upto + 1]
<1>1. /\ stage = "run" /\ upto < Len(prog.code[here]) /\ upto' = upto + 1
      /\ UNCHANGED <<here, mem, new, slots, copies, copied, spoiled>>
      /\ i.op = "load"
      /\ missed' = IF mem[i.var] \in {Undef, Value(slots, Operand(i.val))}
                   THEN missed ELSE missed \cup {i.val}
    BY DEF ExecuteLoad
<1>2. /\ upto + 1 \in 1 .. Len(prog.code[here]) /\ here \in Blocks /\ i.val \in Names
      /\ LoadOf(i, i.val)
    BY <1>1, LineIs DEF PlaceInv, Instrs, LoadOf
<1>3. mem[i.var] # Undef => Value(new, Operand(i.val)) = mem[i.var]
    BY <1>1, LoadReads DEF PlaceInv
<1>4. SlotsHold /\ mem[i.var] # Undef => Value(slots, Operand(i.val)) = mem[i.var]
  <2> SUFFICES ASSUME SlotsHold, mem[i.var] # Undef PROVE Value(slots, Operand(i.val)) = mem[i.var]
    OBVIOUS
  <2>1. Value(new, Operand(i.val)) = mem[i.var] /\ Operand(i.val) \in Names \cup Phis
    BY <1>3, ValuesAre
  <2>2. Dominates(Succ, Origin(Operand(i.val)), here)
    BY <1>2, <2>1 DEF ReachInv, LoadOrigins, Operand
  <2>3. copied = {}
    BY <1>1 DEF PlaceInv
  <2> QED
    BY <2>1, <2>2, <2>3 DEF SlotsHold
<1> HIDE DEF i
<1>5. SlotsHold => SlotsHold'
    BY <1>1, ExecuteKeeps DEF SlotsHold
<1> QED
    BY <1>1, <1>4, <1>5 DEF SlotInv

(* A copy that overwrites nothing still needed gives its phi the operand.   *)
LEMMA SlotsCopy ==
    ASSUME PassInv, ReachInv, ValueInv, SlotInv, CopyPhi, UNCHANGED vars
    PROVE  SlotInv'
<1> USE DEF PassInv, ValuesInv, WalkInv, ValueInv
<1> PICK f \in copies :
        /\ slots' = With(slots, [g \in {f} |-> Value(slots, args[f][here])])
        /\ copies' = copies \ {f}
        /\ copied' = copied \cup {f}
        /\ spoiled' = (spoiled \/ args[f][here] \in copied)
    BY DEF CopyPhi
<1>1. stage = "copy" /\ UNCHANGED <<here, upto, new, missed>>
    BY DEF CopyPhi
<1> DEFINE a == args[f][here]
<1> SUFFICES ASSUME ~ spoiled, a \notin copied PROVE SlotsHold'
    BY <1>1 DEF SlotInv
<1>2. /\ f \notin copied /\ f \in phis /\ f \in Phis /\ here \in Blocks
    BY <1>1 DEF PlaceInv, CopiesAt, TypeOK
<1>3. /\ Value(slots', f) = Value(slots, a)
      /\ \A v : v # f => Value(slots', v) = Value(slots, v)
    BY ValueWith
<1>4. Value(new, a) # Undef => Value(slots, a) = Value(new, a)
  <2> SUFFICES ASSUME Value(new, a) # Undef PROVE Value(slots, a) = Value(new, a)
    OBVIOUS
  <2>1. a \in Names \cup Phis
    BY ValuesAre
  <2>2. PICK v \in Vals : v = a /\ v \in Names \cup Phis
    BY <2>1 DEF Vals
  <2>3. upto = Len(prog.code[here]) /\ upto \in Nat
    BY <1>1, <1>2, LinesAre DEF PlaceInv
  <2>4. Holds(f[2], here, upto, v)
    BY <1>2, <2>2, <2>3 DEF ReachInv, FillsInv
  <2>5. Dominates(Succ, Origin(v), here)
    BY <1>2, <2>2, <2>4, HeldOrigin DEF ReachInv
  <2> QED
    BY <2>2, <2>5 DEF SlotInv, SlotsHold
<1>5. ASSUME NEW v \in Names \cup Phis, Dominates(Succ, Origin(v), here), Value(new, v) # Undef,
             v \notin copied', Value(slots', v) # Value(new, v)
      PROVE  FALSE
  <2>1. v # f /\ v \notin copied
    BY <1>5
  <2> QED
    BY <1>3, <1>5, <2>1 DEF SlotInv, SlotsHold
<1>6. ASSUME NEW g \in copied', Value(new, args[g][here]) # Undef
      PROVE  Value(slots', g) = Value(new, args[g][here])
  <2>1. CASE g = f
    BY <1>3, <1>4, <1>6, <2>1
  <2>2. CASE g # f
    BY <1>3, <1>6, <2>2 DEF SlotInv, SlotsHold
  <2> QED
    BY <2>1, <2>2
<1> QED
    BY <1>1, <1>5, <1>6, ExecuteKeeps DEF SlotsHold

LEMMA SlotsKept ==
    ASSUME ValueInv, SlotInv, ExecuteStore \/ EndBlock, UNCHANGED vars
    PROVE  SlotInv'
<1>1. UNCHANGED <<here, new, slots, missed, copied, spoiled>>
    BY DEF ExecuteStore, EndBlock
<1>2. SlotsHold => SlotsHold'
    BY <1>1, ExecuteKeeps DEF SlotsHold
<1> QED
    BY <1>1, <1>2 DEF SlotInv

-----------------------------------------------------------------------------
(****************************************************************************)
(* The theorems.                                                            *)
(****************************************************************************)

LEMMA RunStarts == RunInit => ValueInv /\ SlotInv
<1> SUFFICES ASSUME RunInit PROVE ValueInv /\ SlotInv
    OBVIOUS
<1> USE DEF RunInit
<1>1. TablesInv
    BY WalkInit DEF WalkInv
<1>2. \A n : Value(old, n) = Undef /\ Value(new, n) = Undef
    BY DEF Value
<1>3. PlaceInv
  <2>1. 0 \in 0 .. Len(prog.code[Root])
    BY <1>1, RootAssumption, LinesAre
  <2> QED
    BY <2>1, RootAssumption DEF PlaceInv
<1>4. CellsHold
    BY DEF CellsHold
<1>5. LoadsSame /\ ResultsSame
    BY <1>2 DEF LoadsSame, ResultsSame
<1>6. SlotsHold
    BY <1>2 DEF SlotsHold
<1> QED
    BY <1>3, <1>4, <1>5, <1>6 DEF ValueInv, SlotInv, LoadsPreserved

LEMMA RunStep ==
    PassInv /\ ReachInv /\ ValueInv /\ SlotInv /\ [RunNext]_<<vars, runVars>> => ValueInv' /\ SlotInv'
<1> SUFFICES ASSUME PassInv, ReachInv, ValueInv, SlotInv, [RunNext]_<<vars, runVars>>
             PROVE  ValueInv' /\ SlotInv'
    OBVIOUS
<1>1. TablesInv
    BY DEF PassInv, ValuesInv, WalkInv
<1>2. CASE (Pass /\ UNCHANGED runVars) \/ UNCHANGED <<vars, runVars>>
    BY <1>1, <1>2, PassRuns
<1>3. CASE EnterSuccessor /\ UNCHANGED vars
    BY <1>3, ValuesEnter, SlotsEnter
<1>4. CASE ExecuteLoad /\ UNCHANGED vars
    BY <1>4, ValuesLoad, SlotsLoad
<1>5. CASE ExecuteStore /\ UNCHANGED vars
    BY <1>5, ValuesStore, SlotsKept
<1>6. CASE EndBlock /\ UNCHANGED vars
    BY <1>1, <1>6, ValuesEnd, SlotsKept
<1>7. CASE CopyPhi /\ UNCHANGED vars
    BY <1>1, <1>7, ValuesEnd, SlotsCopy
<1> QED
    BY <1>2, <1>3, <1>4, <1>5, <1>6, <1>7 DEF RunNext, Execute

LEMMA RunIsPass == RunSpec => Spec
<1>1. RunInit => Init
    BY DEF RunInit
<1>2. [RunNext]_<<vars, runVars>> => [Pass]_vars
    BY DEF RunNext, Execute
<1> QED
    BY <1>1, <1>2, PTL DEF RunSpec, Spec

(* The invariant of the execution: a cell that was written has the value of *)
(* the site that reaches the line executed, and the slots of the values     *)
(* current there are right as long as no copy has spoiled one.              *)
THEOREM RunInvariant == RunSpec => [](ValueInv /\ SlotInv)
<1>1. RunSpec => [](PassInv /\ ReachInv)
    BY RunIsPass, ReachingDefinitions, PTL
<1> QED
    BY <1>1, RunStarts, RunStep, PTL DEF RunSpec

(* Along every path, however long, every load of a written variable reads   *)
(* in the original program what its users get in the result of Mem2Reg.     *)
THEOREM ValuesPreserved == RunSpec => []LoadsPreserved
<1>1. ValueInv => LoadsPreserved
    BY DEF ValueInv
<1> QED
    BY <1>1, RunInvariant, PTL

(* The copies of CodeGenerate's phiInstGenerate have the effect of the phis *)
(* as long as none overwrites a phi that is still needed.                   *)
THEOREM CopiesStand == RunSpec => []CopiesSuffice
<1>1. SlotInv => CopiesSuffice
    BY DEF SlotInv, CopiesSuffice
<1> QED
    BY <1>1, RunInvariant, PTL
=============================================================================
