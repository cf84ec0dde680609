------------------------------ MODULE Operands ------------------------------
(****************************************************************************)
(* What the passes rely on of the IR's instructions: each has operands; an  *)
(* instruction is inserted with its operands, gets more, is removed; and    *)
(* replacing a value replaces it wherever it is an operand.  How the code   *)
(* finds those places is the module UseDef's.                               *)
(****************************************************************************)
EXTENDS Naturals

CONSTANTS
    Users,       \* instructions
    Others,      \* other values: constants, blocks, arguments, functions
    MaxOps,      \* bound on the operands of an instruction
    None         \* no operand, nullptr

Values == Users \cup Others
Slots == Users \X (1 .. MaxOps)
SlotsOf(u) == {u} \X (1 .. MaxOps)

VARIABLES
    operand,     \* operands_ of the instructions inserted
    listed       \* the instructions in some instr_list_

opVars == <<operand, listed>>

Init ==
    /\ operand = [p \in Slots |-> None]
    /\ listed = {}

(* w, a function on slots, over the operands f.                             *)
Overlaid(w, f) == [p \in Slots |-> IF p \in DOMAIN w THEN w[p] ELSE f[p]]

(* Operands are given to slots that have none; the others stay.             *)
Extend(u) ==
    /\ listed' = listed \cup {u}
    /\ \E S \in SUBSET {p \in SlotsOf(u) : operand[p] = None} : \E w \in [S -> Values] : operand' = Overlaid(w, operand)

Substitute(old, new) ==
    /\ operand' = [p \in Slots |-> IF operand[p] = old THEN new ELSE operand[p]]
    /\ UNCHANGED listed

Remove(u) ==
    /\ listed' = listed \ {u}
    /\ operand' = [p \in Slots |-> IF p[1] = u THEN None ELSE operand[p]]

Next ==
    \/ \E u \in Users : Extend(u) \/ Remove(u)
    \/ \E old \in Users, new \in Values : Substitute(old, new)

Spec == Init /\ [][Next]_opVars
=============================================================================
