------------------------------- MODULE Mem2Reg -------------------------------
(****************************************************************************)
(* The pass Mem2Reg of src/optimization/Mem2Reg.cpp on one function: phis   *)
(* are placed on the iterated dominance frontiers of the stores, then       *)
(* re_name walks the dominator tree with a stack of current values for each *)
(* local variable, replaces loads by the top of the stack, fills the        *)
(* operands of the successors' phis, and deletes the loads and stores.      *)
(*                                                                          *)
(* A definition ...Bug or PushedNothing is the next one with a              *)
(* mistake the properties have to detect; nothing refers to it.             *)
(*                                                                          *)
(* A program keeps of each block only its loads and stores of local         *)
(* variables, in order; other instructions are the values they store.  The  *)
(* dominance tables are the ones the graph defines; the module Optimizer    *)
(* puts the analysis in their place.                                        *)
(****************************************************************************)
EXTENDS Cfg, Sequences

CONSTANTS
    Vars,        \* the int and float allocas: local variables and parameters
    Names,       \* values of the program: loads, constants, other results
    Programs,    \* [succ : control-flow graph, code : block -> instructions,
                 \*  home : name -> the block that computes it]
    Undef,       \* operand a phi does not have
    Garbage      \* what back() of an empty std::vector returns

Instrs == [op : {"load", "store"}, var : Vars, val : Names]

(* The value of a load is its name, which no other instruction has.         *)
Loads(p) == {i \in UNION {{p.code[b][k] : k \in 1 .. Len(p.code[b])} : b \in Blocks} :
                i.op = "load"}

Stores(i, x)   == i.op = "store" /\ i.var = x
LoadOf(i, n)   == i.op = "load" /\ i.val = n

(* Each load of the program has its own name, and comes before the stores   *)
(* of the value it loads: in their block, or in one that dominates theirs.  *)
IsSsa(p) ==
    \A n \in Names : \A b \in Blocks : \A k \in 1 .. Len(p.code[b]) :
        LoadOf(p.code[b][k], n) =>
            \A c \in Blocks : \A j \in 1 .. Len(p.code[c]) :
                p.code[c][j].val = n =>
                    \/ c = b /\ j = k
                    \/ /\ p.code[c][j].op = "store"
                       /\ (c = b /\ k < j) \/ StrictlyDominates(p.succ, b, c)

(* A value is computed in its home, the entry if it is a constant or an     *)
(* argument, and its home dominates the blocks that store it.               *)
HomesDominate(p) ==
    \A b \in Blocks : \A k \in 1 .. Len(p.code[b]) : LET i == p.code[b][k] IN
        /\ Dominates(p.succ, p.home[i.val], b)
        /\ i.op = "load" => p.home[i.val] = b

ASSUME ProgramsAssumption ==
    \A p \in Programs : /\ IsFunctionCfg(p.succ)
                        /\ p.code \in [Blocks -> Seq(Instrs)]
                        /\ IsSsa(p)
                        /\ p.home \in [Names -> Blocks]
                        /\ HomesDominate(p)

Phis == Blocks \X Vars              \* the phi of a variable in a block
Vals == Names \cup Phis \cup {Garbage}

ASSUME ValsAssumption == /\ Names \cap Phis = {}
                         /\ Garbage \notin Names \cup Phis
                         /\ Undef \notin Names \cup Phis \cup {Garbage}

VARIABLES
    prog,        \* the program the pass is given
    df, kids,    \* dominance frontiers, dominator tree
    code,        \* instructions, as the pass deletes them
    pc,          \* "phi", "enter", "body", "down", "alloca", "done", "abort"
    work,        \* blocks of each variable's work_list still to treat
    phis,        \* bb_has_var_phi: the phis inserted
    args,        \* operands of the phis by predecessor
    keys,        \* variables var_val_stack has an entry for
    stacks,      \* var_val_stack
    subst,       \* what the users of each name now use
    dead,        \* wait_delete of the calls in progress
    calls,       \* re_name calls in progress: block, dominator children left
    at,          \* instruction the innermost call is at
    allocas      \* the allocas not yet removed

passVars == <<prog, code, pc, work, phis, args, keys, stacks, subst,
              dead, calls, at, allocas>>
vars == <<passVars, df, kids>>

Succ == prog.succ
Current == calls[Len(calls)].bb

TypeOK ==
    /\ prog.succ \in [Blocks -> SUBSET Blocks]
    /\ prog.code \in [Blocks -> Seq(Instrs)]
    /\ df \in [Blocks -> SUBSET Blocks]
    /\ kids \in [Blocks -> SUBSET Blocks]
    /\ code \in [Blocks -> Seq(Instrs)]
    /\ pc \in {"phi", "enter", "body", "down", "alloca", "done", "abort"}
    /\ work \in [Vars -> SUBSET Blocks]
    /\ phis \in SUBSET Phis
    /\ args \in [Phis -> [Blocks -> Vals \cup {Undef}]]
    /\ keys \in SUBSET Vars
    /\ stacks \in [Vars -> Seq(Vals)]
    /\ subst \in [Names -> Vals]
    /\ dead \in SUBSET Instrs
    /\ calls \in Seq([bb : Blocks, todo : SUBSET Blocks])
    /\ at \in Nat \ {0}
    /\ allocas \in SUBSET Vars
    /\ pc \in {"enter", "body", "down"} => calls # <<>>

StoreBlocks(p, x) ==
    {b \in Blocks : \E k \in 1 .. Len(p.code[b]) : Stores(p.code[b][k], x)}

(* run on one function: generate_phi's first step has collected the blocks  *)
(* that store each variable.                                                *)
PassInit ==
    /\ prog \in Programs
    /\ code = prog.code
    /\ pc = "phi"
    /\ work = [x \in Vars |-> StoreBlocks(prog, x)]
    /\ phis = {}
    /\ args = [f \in Phis |-> [b \in Blocks |-> Undef]]
    /\ keys = {}
    /\ stacks = [x \in Vars |-> <<>>]
    /\ subst = [n \in Names |-> n]
    /\ dead = {}
    /\ calls = <<>>
    /\ at = 1
    /\ allocas = Vars

(* The Dominators analysis is done.                                         *)
Init ==
    /\ PassInit
    /\ df = [b \in Blocks |-> DominanceFrontier(prog.succ, b)]
    /\ kids = [b \in Blocks |-> DominatorChildren(prog.succ, b)]

-----------------------------------------------------------------------------
(* generate_phi                                                             *)

(* The frontier blocks that still lack the variable's phi, and what becomes *)
(* of the work list when they get it.                                       *)
Lacking(x, b) == {d \in df[b] : <<d, x>> \notin phis}

RestBug(x, b) == work[x] \ {b}
Rest(x, b) == (work[x] \ {b}) \cup Lacking(x, b)

(* One block of a variable's work list: its frontier gets the variable's    *)
(* phi where it has none, and those blocks join the work list.              *)
PlacePhis ==
    /\ pc = "phi"
    /\ \E x \in Vars : \E b \in work[x] :
         /\ phis' = phis \cup (Lacking(x, b) \X {x})
         /\ work' = [work EXCEPT ![x] = Rest(x, b)]
    /\ UNCHANGED <<prog, df, kids, code, pc, args, keys, stacks, subst, dead,
                   calls, at, allocas>>

(* Every work list is done: re_name is called on the entry block.           *)
StartRename ==
    /\ pc = "phi"
    /\ \A x \in Vars : work[x] = {}
    /\ pc' = "enter"
    /\ calls' = <<[bb |-> Root, todo |-> kids[Root]]>>
    /\ UNCHANGED <<prog, df, kids, code, work, phis, args, keys, stacks, subst,
                   dead, at, allocas>>

-----------------------------------------------------------------------------
(* re_name                                                                  *)

PhisOf(b) == {x \in Vars : <<b, x>> \in phis}
Top(x) == IF stacks[x] = <<>> THEN Garbage ELSE stacks[x][Len(stacks[x])]

(* What an operand is after the replacements made so far.                   *)
OperandBug(n) == n
Operand(n) == IF n \in Names THEN subst[n] ELSE n

(* Step 3: the block's phis become the current values.                      *)
EnterBlock ==
    /\ pc = "enter"
    /\ stacks' = [x \in Vars |-> IF x \in PhisOf(Current)
                                 THEN Append(stacks[x], <<Current, x>>)
                                 ELSE stacks[x]]
    /\ keys' = keys \cup PhisOf(Current)
    /\ at' = 1
    /\ pc' = "body"
    /\ UNCHANGED <<prog, df, kids, code, work, phis, args, subst, dead, calls,
                   allocas>>

(* wait_delete with one more instruction.                                   *)
AwaitingBug(i) == dead
Awaiting(i) == dead \cup {i}

(* Step 4: a load of a variable that has an entry is replaced everywhere by *)
(* the top of its stack and marked for deletion; without entry it stays.    *)
RenameLoad ==
    /\ pc = "body"
    /\ at <= Len(code[Current])
    /\ LET i == code[Current][at]
       IN  /\ i.op = "load"
           /\ IF i.var \in keys
              THEN /\ subst' = [subst EXCEPT ![i.val] = Top(i.var)]
                   /\ dead' = Awaiting(i)
              ELSE UNCHANGED <<subst, dead>>
    /\ at' = at + 1
    /\ UNCHANGED <<prog, df, kids, code, pc, work, phis, args, keys, stacks,
                   calls, allocas>>

(* Step 5: the value stored becomes the current value.                      *)
RenameStore ==
    /\ pc = "body"
    /\ at <= Len(code[Current])
    /\ LET i == code[Current][at]
       IN  /\ i.op = "store"
           /\ stacks' = [stacks EXCEPT ![i.var] = Append(@, Operand(i.val))]
           /\ keys' = keys \cup {i.var}
           /\ dead' = Awaiting(i)
    /\ at' = at + 1
    /\ UNCHANGED <<prog, df, kids, code, pc, work, phis, args, subst, calls,
                   allocas>>

(* The phis of the successors whose variable has an entry.                  *)
ToFillBug == {f \in phis : f[1] \in kids[Current] /\ f[2] \in keys}
ToFill == {f \in phis : f[1] \in Succ[Current] /\ f[2] \in keys}

(* Step 6: each gets the current value as its operand from this block.      *)
FillPhis ==
    /\ pc = "body"
    /\ at > Len(code[Current])
    /\ \A f \in ToFill : stacks[f[2]] # <<>>
    /\ args' = [f \in Phis |-> IF f \in ToFill
                               THEN [args[f] EXCEPT ![Current] = Top(f[2])]
                               ELSE args[f]]
    /\ pc' = "down"
    /\ UNCHANGED <<prog, df, kids, code, work, phis, keys, stacks, subst, dead,
                   calls, at, allocas>>

(* assert(var_val_stack[l_val].size() != 0)                                 *)
AbortFill ==
    /\ pc = "body"
    /\ at > Len(code[Current])
    /\ \E f \in ToFill : stacks[f[2]] = <<>>
    /\ pc' = "abort"
    /\ UNCHANGED <<prog, df, kids, code, work, phis, args, keys, stacks, subst,
                   dead, calls, at, allocas>>

(* re_name is called for a child in the dominator tree; the children are in *)
(* a set of pointers, so in any order.                                      *)
Descend ==
    /\ pc = "down"
    /\ \E c \in calls[Len(calls)].todo :
         calls' = Append([calls EXCEPT ![Len(calls)].todo = @ \ {c}],
                         [bb |-> c, todo |-> kids[c]])
    /\ pc' = "enter"
    /\ UNCHANGED <<prog, df, kids, code, work, phis, args, keys, stacks, subst,
                   dead, at, allocas>>

(* The instructions among the first n of a block that push a value for the  *)
(* variable; its phi is number 0.                                           *)
PushedBy(b, x, n) ==
    {k \in 1 .. n : Stores(code[b][k], x)} \cup {k \in {0} : <<b, x>> \in phis}

PushedNothing(b, x) == 0
Pushed(b, x) == Cardinality(PushedBy(b, x, Len(code[b])))

(* The instructions of a sequence that are not marked for deletion.         *)
Undeleted(s) ==
    LET kept[n \in 0 .. Len(s)] ==
            IF n = 0 THEN << >>
            ELSE IF s[n] \in dead THEN kept[n - 1] ELSE Append(kept[n - 1], s[n])
    IN  kept[Len(s)]

(* What follows the return of a call: its caller, or remove_alloca.         *)
Returned == IF Len(calls) = 1 THEN "alloca" ELSE "down"

(* Step 7: one value is popped for each store and each phi of the block,    *)
(* which then loses the instructions marked for deletion.                   *)
Leave ==
    /\ pc = "down"
    /\ calls[Len(calls)].todo = {}
    /\ stacks' = [x \in Vars |-> SubSeq(stacks[x], 1, Len(stacks[x]) - Pushed(Current, x))]
    /\ code' = [code EXCEPT ![Current] = Undeleted(@)]
    /\ calls' = SubSeq(calls, 1, Len(calls) - 1)
    /\ pc' = Returned
    /\ UNCHANGED <<prog, df, kids, work, phis, args, keys, subst, dead, at, allocas>>

-----------------------------------------------------------------------------
(* remove_alloca deletes every alloca of an int or a float.                 *)
RemoveAllocas ==
    /\ pc = "alloca"
    /\ allocas' = {}
    /\ pc' = "done"
    /\ UNCHANGED <<prog, df, kids, code, work, phis, args, keys, stacks, subst,
                   dead, calls, at>>

Rename == EnterBlock \/ RenameLoad \/ RenameStore \/ FillPhis \/ AbortFill
            \/ Descend \/ Leave

Pass == PlacePhis \/ StartRename \/ Rename \/ RemoveAllocas

Spec == Init /\ [][Pass]_vars

-----------------------------------------------------------------------------
(* Properties                                                               *)

(* The assertion of re_name holds: a variable with an entry has a current   *)
(* value whenever a successor's phi is filled.                              *)
AssertHolds == pc # "abort"

(* The programs that give every variable a value before they read it and    *)
(* before they branch.                                                      *)
WrittenFirst ==
    LET entry == prog.code[Root]
    IN  \A x \in Vars : \E k \in 1 .. Len(entry) :
            Stores(entry[k], x) /\ \A j \in 1 .. k : entry[j].var = x => entry[j].op = "store"

(* How many calls have pushed their block's phis, how far they have come,   *)
(* and what they have pushed and not yet popped.                            *)
Begun == IF pc = "enter" THEN Len(calls) - 1 ELSE Len(calls)
Reached(n) == IF n = Len(calls) /\ pc = "body" THEN at - 1 ELSE Len(code[calls[n].bb])
Pending(x) == UNION {{n} \X PushedBy(calls[n].bb, x, Reached(n)) : n \in 1 .. Begun}

(* All stays what it is made of (TypeOK), and the stack of a variable holds *)
(* what the calls in progress have pushed and nothing else: re_name leaves  *)
(* it as it found it, and never pops an empty vector.                       *)
StacksFollowCalls ==
    /\ TypeOK
    /\ \A x \in Vars : Len(stacks[x]) = Cardinality(Pending(x))

(* No stack holds a load that has been replaced: replace_all_use_with is    *)
(* never given a value whose list of uses is stale, and no operand of a phi *)
(* is a deleted load.                                                       *)
StacksCurrent ==
    \A x \in Vars : \A k \in 1 .. Len(stacks[x]) :
        stacks[x][k] \in Names => subst[stacks[x][k]] = stacks[x][k]

BlockOf(l) == CHOOSE b \in Blocks : \E k \in 1 .. Len(prog.code[b]) : prog.code[b][k] = l

(* SSA form, once renaming is over: the phi that replaces a load dominates  *)
(* it, and the phi that is an operand of another phi dominates the block    *)
(* the operand comes from.                                                  *)
DefsDominateUses ==
    pc = "alloca" =>
        /\ \A l \in Loads(prog) : LET v == subst[l.val] IN
              v \in Phis => Dominates(Succ, v[1], BlockOf(l))
        /\ \A f \in Phis, p \in Blocks : LET v == args[f][p] IN
              v \in Phis => Dominates(Succ, v[1], p)

(* PhiInst::print: the blocks a phi is printed with, those of its operands  *)
(* and, when they are fewer than the predecessors, with undef the others.   *)
Given(f) == {p \in Blocks : args[f][p] # Undef}
PrintedWith(f) ==
    LET preds == Preds(Succ, f[1])
    IN  Given(f) \cup (IF Cardinality(Given(f)) < Cardinality(preds) THEN preds ELSE {})

(* Every phi is printed with exactly its block's predecessors, and has an   *)
(* operand to print the type of; if every variable was given a value first, *)
(* it has one for each predecessor.                                         *)
PhisComplete ==
    pc = "done" => \A f \in phis :
        /\ PrintedWith(f) = Preds(Succ, f[1])
        /\ Given(f) # {}
        /\ WrittenFirst => Given(f) = Preds(Succ, f[1])

(* In those programs the assertion holds, and when the allocas are gone no  *)
(* load or store of one is left and no load was replaced by what lies       *)
(* before an empty stack.                                                   *)
NothingDangles ==
    WrittenFirst =>
        /\ AssertHolds
        /\ pc = "done" => /\ \A b \in Blocks : code[b] = <<>>
                          /\ \A n \in Names : subst[n] # Garbage
=============================================================================
