------------------------------- MODULE UseDef -------------------------------
(****************************************************************************)
(* The use lists of lightir (Value.cpp, User.cpp): every value lists the    *)
(* places it was made an operand of, replace_all_use_with goes through that *)
(* list.  A place stays listed when its operand is replaced, so the list of *)
(* a value that has been replaced is stale.  With it, the numbers           *)
(* set_instr_name gives the values that have no name yet, each time the     *)
(* module is printed.  The code gives instructions without a result no      *)
(* number; here every instruction takes one, which leaves gaps in the       *)
(* numbers and nothing else.                                                *)
(*                                                                          *)
(* The callers are the builder and Mem2Reg: a load is replaced once, by a   *)
(* value that is not replaced itself (StacksCurrent of Mem2Reg), and is     *)
(* used no more.                                                            *)
(*                                                                          *)
(* A definition ...Bug is the one below it with a mistake the properties    *)
(* have to detect; nothing refers to it.                                    *)
(****************************************************************************)
EXTENDS Naturals, FiniteSets

CONSTANTS
    Users, Others, MaxOps, None,    \* see Operands
    Arities      \* bound: the numbers of operands instructions start with

VARIABLES
    operand,     \* operands_, nullptr before set_operand
    arity,       \* num_ops_
    uses,        \* use_list_ of each value
    listed,      \* instructions in some instr_list_
    made,        \* ghost: instructions ever created
    replaced,    \* ghost: values given to replace_all_use_with
    named,       \* instructions with a name
    number,      \* the number in it
    seq_cnt      \* seq_cnt_

vars == <<operand, arity, uses, listed, made, replaced, named, number, seq_cnt>>
nameVars == <<named, number, seq_cnt>>

Shown == [p \in Users \X (1 .. MaxOps) |-> IF p[1] \in listed THEN operand[p] ELSE None]

(* The operands of the instructions in the lists.                           *)
A == INSTANCE Operands WITH operand <- Shown

Values == A!Values
Slots == A!Slots

ASSUME UsersAssumption ==
    /\ IsFiniteSet(Users) /\ Users \cap Others = {}
    /\ MaxOps \in Nat /\ None \notin Values
ASSUME AritiesAssumption == Arities \subseteq 0 .. MaxOps

TypeOK ==
    /\ operand \in [Slots -> Values \cup {None}]
    /\ arity \in [Users -> 0 .. MaxOps]
    /\ uses \in [Values -> SUBSET Slots]
    /\ listed \subseteq made
    /\ made \subseteq Users
    /\ replaced \subseteq made
    /\ named \subseteq made
    /\ number \in [Users -> Nat]
    /\ seq_cnt \in Nat
    /\ \A p \in Slots : operand[p] # None => p[1] \in made /\ p[2] <= arity[p[1]]

Init ==
    /\ operand = [p \in Slots |-> None]
    /\ arity = [u \in Users |-> 0]
    /\ uses = [v \in Values |-> {}]
    /\ listed = {}
    /\ made = {}
    /\ replaced = {}
    /\ named = {}
    /\ number = [u \in Users |-> 0]
    /\ seq_cnt = 0

(* What an instruction may get as an operand: a value that is there and has *)
(* not been replaced.                                                       *)
Usable == (Others \cup listed) \ replaced

(* The use list of v after set_operand(w[p]) for the slots p of w; the      *)
(* lists of the operands that were there before keep their entries.         *)
ListedUsesBug(v, w) == uses[v]
ListedLastBug(v, w) ==
    LET new == {p \in DOMAIN w : w[p] = v} IN IF new = {} THEN uses[v] ELSE new
ListedUses(v, w) == uses[v] \cup {p \in DOMAIN w : w[p] = v}

set_operands(w) ==
    /\ operand' = A!Overlaid(w, operand)
    /\ uses' = [v \in Values |-> ListedUses(v, w)]

(* The constructor of an instruction, and add_instruction.                  *)
Create(u, n) ==
    /\ u \notin made
    /\ \E w \in [{u} \X (1 .. n) -> Usable] : set_operands(w)
    /\ arity' = [arity EXCEPT ![u] = n]
    /\ made' = made \cup {u}
    /\ listed' = listed \cup {u}
    /\ UNCHANGED replaced
    /\ UNCHANGED nameVars

(* The places add_operand, called twice, adds.                              *)
AddedSlots(u) == {u} \X {arity[u] + 1, arity[u] + 2}

(* add_phi_pair_operand: two more operands.                                 *)
AddPair(u) ==
    /\ u \in listed
    /\ arity[u] + 2 <= MaxOps
    /\ \E w \in [AddedSlots(u) -> Usable] : set_operands(w)
    /\ arity' = [arity EXCEPT ![u] = @ + 2]
    /\ UNCHANGED <<listed, made, replaced>>
    /\ UNCHANGED nameVars

(* replace_all_use_with: set_operand for every entry of the list.           *)
ReplaceAllUseWith(old, new) ==
    /\ old \in listed \ replaced
    /\ new \in Usable \ {old}
    /\ set_operands([p \in uses[old] |-> new])
    /\ replaced' = replaced \cup {old}
    /\ UNCHANGED <<arity, listed, made>>
    /\ UNCHANGED nameVars

(* remove_use_of_ops: the entries of u leave the list of v.                 *)
UsesKeptBug(v, u) == uses[v]
UsesKept(v, u) ==
    IF \E p \in A!SlotsOf(u) : operand[p] = v
    THEN {p \in uses[v] : p[1] # u} ELSE uses[v]

(* delete_instr of an instruction that was replaced or is not used.         *)
DeleteInstr(u) ==
    /\ u \in listed
    /\ u \in replaced \/ uses[u] = {}
    /\ listed' = listed \ {u}
    /\ uses' = [v \in Values |-> UsesKept(v, u)]
    /\ UNCHANGED <<operand, arity, made, replaced>>
    /\ UNCHANGED nameVars

(* The number the k-th value without a name gets: seq holds the values      *)
(* named by this call.                                                      *)
SeqNumBug(k) == k
SeqNum(k) == seq_cnt + k

(* set_instr_name: the values in the lists that have no name get one, in    *)
(* the order of the lists.                                                  *)
SetInstrName ==
    /\ \E f \in [listed \ named -> 0 .. Cardinality(listed \ named)] :
         /\ \A u, w \in listed \ named : u # w => f[u] # f[w]
         /\ \A u \in listed \ named : f[u] < Cardinality(listed \ named)
         /\ number' = [u \in Users |-> IF u \in listed \ named THEN SeqNum(f[u]) ELSE number[u]]
    /\ named' = named \cup listed
    /\ seq_cnt' = seq_cnt + Cardinality(listed \ named)
    /\ UNCHANGED <<operand, arity, uses, listed, made, replaced>>

Next ==
    \/ \E u \in Users : (\E n \in Arities : Create(u, n)) \/ AddPair(u) \/ DeleteInstr(u)
    \/ \E old \in Users, new \in Values : ReplaceAllUseWith(old, new)
    \/ SetInstrName

Spec == Init /\ [][Next]_vars

-----------------------------------------------------------------------------
(* Properties                                                               *)

(* Until a value is replaced its use list is exact: it names the places     *)
(* that hold the value, in instructions that have not been deleted, and no  *)
(* others.                                                                  *)
UsesExact ==
    \A v \in Values \ replaced : uses[v] = {p \in Slots : p[1] \in listed /\ operand[p] = v}

(* So replacing through the list is replacing everywhere, and no stale      *)
(* entry ever takes effect.                                                 *)
ImplementsOperands == A!Spec

(* No instruction in a list has a deleted instruction for an operand.       *)
NoneDangles ==
    \A p \in Slots : p[1] \in listed /\ operand[p] \in Users => operand[p] \in listed

(* However often the module is printed, and whatever passes insert and      *)
(* delete in between, no two instructions of a function share a name.       *)
NamesUnique == \A u, w \in named : u # w => number[u] # number[w]
=============================================================================
