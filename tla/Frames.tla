------------------------------- MODULE Frames -------------------------------
(****************************************************************************)
(* The stack frames AsmFunction::generate lays out: getAddress of           *)
(* AsmInstruction.hpp gives a value its slot the first time it is asked     *)
(* for, the alloca of an array makes room below, and when every block has   *)
(* its instructions the space is rounded up and the prologue subtracts it.  *)
(*                                                                          *)
(* One function is generated after the other with the same globals          *)
(* stackSpace and valueToAddress; a global variable is the same value in    *)
(* all of them.  Offsets count bytes below %rbp.                            *)
(*                                                                          *)
(* A definition ...Bug is the one below it with a mistake the properties    *)
(* have to detect; nothing refers to it.                                    *)
(****************************************************************************)
EXTENDS Naturals, Sequences

CONSTANTS
    Functions,   \* the functions of the module with a body, in order
    Params,      \* the parameters of each
    Locals,      \* the other values each has a slot for
    Returned,    \* those its ret instructions return
    Values,      \* all these values
    Kind,        \* "int" (i1, i32), "float", "ptr", "global", "array"
    Length       \* the number of elements of an alloca of an array

Kinds == {"int", "float", "ptr", "global", "array"}

ASSUME FunctionsAssumption ==
    /\ Kind \in [Values -> Kinds]
    /\ Length \in [Values -> Nat]
    /\ \A f \in 1 .. Len(Functions) :
         /\ Params[f] \in Seq(Values)
         /\ Locals[f] \subseteq Values
         /\ Returned[f] \subseteq Locals[f]

VARIABLES
    at,          \* the function generated, by its place in Functions
    phase,       \* "args", "blocks" (normalGenerate), "ends" (endGenerate)
    moved,       \* parameters moved to their slots so far
    space,       \* stackSpace
    offset,      \* valueToAddress: 0 for null
    pointed,     \* values argMoveInst points at their array or global
    frames       \* what was emitted for each function generated

genVars == <<at, phase, moved, space, offset, pointed, frames>>

NoOffsets == [v \in Values |-> 0]
Frame == [offset : [Values -> Nat], reserved : Nat, freed : SUBSET Nat, pointed : SUBSET Values]

GenTypeOK ==
    /\ at \in 1 .. Len(Functions) + 1
    /\ phase \in {"args", "blocks", "ends"}
    /\ moved \in Nat
    /\ space \in Nat
    /\ offset \in [Values -> Nat]
    /\ pointed \in SUBSET Values
    /\ frames \in Seq(Frame)

GenInit ==
    /\ at = 1
    /\ phase = "args"
    /\ moved = 0
    /\ space = 0
    /\ offset = NoOffsets
    /\ pointed = {}
    /\ frames = <<>>

-----------------------------------------------------------------------------
(* getAddress                                                               *)

IsPointer(k) == k \in {"ptr", "global", "array"}

(* stackSpace once a value of kind k has its slot; an alloca of n elements  *)
(* has made room for them first.                                            *)
WithRoom(s, k, n) == IF k = "array" THEN s + 4 * n ELSE s
GrownBug(s, k, n) ==
    IF IsPointer(k) THEN (WithRoom(s, k, n) \div 8 + 1) * 8 ELSE WithRoom(s, k, n) + 4
Grown(s, k, n) ==
    IF IsPointer(k) THEN (WithRoom(s, k, n) \div 8 + 2) * 8 ELSE WithRoom(s, k, n) + 4

(* The bytes a value owns: its slot, and an array above the slot.           *)
Size(v) == IF Kind[v] = "array" THEN 8 + 4 * Length[v]
           ELSE IF IsPointer(Kind[v]) THEN 8 ELSE 4

(* A slot for a value that has none; the pointer to a global or an array is *)
(* set at the head of the function.                                         *)
Place(v) ==
    IF offset[v] # 0 THEN UNCHANGED <<space, offset, pointed>>
    ELSE LET s == Grown(space, Kind[v], Length[v])
         IN  /\ space' = s
             /\ offset' = [offset EXCEPT ![v] = s]
             /\ pointed' = IF Kind[v] \in {"global", "array"} THEN pointed \cup {v} ELSE pointed

-----------------------------------------------------------------------------
(* AsmFunction::generate                                                    *)

Generating == at <= Len(Functions)

(* The next parameter gets its slot, argMoveInst moves it there.            *)
MoveParam ==
    /\ Generating /\ phase = "args"
    /\ moved < Len(Params[at])
    /\ Place(Params[at][moved + 1])
    /\ moved' = moved + 1
    /\ UNCHANGED <<at, phase, frames>>

StartBlocks ==
    /\ Generating /\ phase = "args"
    /\ moved = Len(Params[at])
    /\ phase' = "blocks"
    /\ UNCHANGED <<at, moved, space, offset, pointed, frames>>

(* normalGenerate asks for the address of a value: of the result of an      *)
(* instruction or of an operand, in the order of the blocks.                *)
Request ==
    /\ Generating /\ phase = "blocks"
    /\ \E v \in Locals[at] : offset[v] = 0 /\ Place(v)
    /\ UNCHANGED <<at, phase, moved, frames>>

(* What must have a slot before the blocks are done: normalGenerate looks   *)
(* up what a ret returns, though the code for it comes in endGenerate.      *)
AskedForBug == Locals[at] \ Returned[at]
AskedFor == Locals[at]

RoundedUpTo8(s) == (s \div 8 + 1) * 8
Rounded(s) == (s \div 16 + 1) * 16

(* The space is rounded, the prologue emitted with it.                      *)
EndBlocks ==
    /\ Generating /\ phase = "blocks"
    /\ \A v \in AskedFor : offset[v] # 0
    /\ space' = Rounded(space)
    /\ frames' = Append(frames, [offset |-> offset, reserved |-> Rounded(space),
                                 freed |-> {}, pointed |-> {}])
    /\ phase' = "ends"
    /\ UNCHANGED <<at, moved, offset, pointed>>

(* The frame of this function with slots o, freed by the amounts of f too,  *)
(* and the pointers p set at its head.                                      *)
Amended(o, f, p) ==
    [frames EXCEPT ![at] = [offset |-> o, reserved |-> @.reserved,
                            freed |-> @.freed \cup f, pointed |-> p]]

(* retInstGenerate: the position of the value is looked up again, and the   *)
(* epilogue frees the space there is by then.                               *)
EmitReturn ==
    /\ Generating /\ phase = "ends"
    /\ \E v \in Returned[at] : Place(v)
    /\ frames' = Amended(offset', {space'}, {})
    /\ UNCHANGED <<at, phase, moved>>

(* A ret of nothing or of a constant.                                       *)
EmitPlainReturn ==
    /\ Generating /\ phase = "ends"
    /\ frames' = Amended(offset, {space}, {})
    /\ UNCHANGED <<at, phase, moved, space, offset, pointed>>

(* valueToAddress after a function.                                         *)
ForgottenBug == offset
Forgotten == NoOffsets

(* Every ret is emitted: the maps are cleared; the next function starts     *)
(* with an empty frame.                                                     *)
NextFunction ==
    /\ Generating /\ phase = "ends"
    /\ frames[at].freed # {}
    /\ frames' = Amended(offset, {}, pointed)
    /\ at' = at + 1
    /\ phase' = "args"
    /\ moved' = 0
    /\ space' = 0
    /\ offset' = Forgotten
    /\ pointed' = {}

Generate == MoveParam \/ StartBlocks \/ Request \/ EndBlocks \/ EmitReturn
              \/ EmitPlainReturn \/ NextFunction

GenSpec == GenInit /\ [][Generate]_genVars

-----------------------------------------------------------------------------
(* Properties                                                               *)

(* No two values own a byte in common: a slot lies below every slot and     *)
(* array laid out before it.                                                *)
SlotsDisjoint ==
    \A v, w \in Values :
        (v # w /\ offset[v] # 0 /\ offset[w] # 0) =>
            \/ offset[v] + Size(w) <= offset[w]
            \/ offset[w] + Size(v) <= offset[v]

(* Once the prologue is emitted nothing lies outside what it reserves, and  *)
(* what an epilogue frees is what the prologue took: generating a ret must  *)
(* not make the frame grow.                                                 *)
FrameFixed ==
    phase = "ends" =>
        /\ \A v \in Values : offset[v] <= frames[at].reserved
        /\ frames[at].freed \subseteq {frames[at].reserved}
=============================================================================
