---------------------------- MODULE FramesProofs ----------------------------
(****************************************************************************)
(* Proofs, for any functions, values and lengths, of what the module Frames *)
(* says of the frames AsmFunction::generate lays out, and of what CallStack *)
(* says of their execution.                                                 *)
(*                                                                          *)
(* The inductive invariant of the layout adds to the properties that every  *)
(* slot lies within the space counted so far, and that a function whose     *)
(* prologue is emitted has given a slot to everything its returns ask for.  *)
(* That of the execution adds that the frames in progress follow each other *)
(* without a gap and that %rsp is where the last of them ends.              *)
(****************************************************************************)
EXTENDS CallStack, FiniteSetTheorems, SequenceTheorems, TLAPS

(* One frame is emitted for every function whose blocks are done.           *)
OneFrameEach ==
    /\ phase = "ends" => Len(frames) = at /\ Generating
    /\ phase # "ends" => Len(frames) = at - 1

(* Slots lie within the space counted.                                      *)
WithinSpace == \A v \in Values : offset[v] <= space

(* When returns are generated, the space is what the prologue reserved.     *)
Settled ==
    phase = "ends" =>
        /\ space = frames[at].reserved
        /\ frames[at].freed \subseteq {space}
        /\ \A v \in Locals[at] : offset[v] # 0

Inv == GenTypeOK /\ OneFrameEach /\ WithinSpace /\ SlotsDisjoint /\ Settled

-----------------------------------------------------------------------------
(* A value's new slot ends above everything counted before, with room for   *)
(* all its bytes.                                                           *)
LEMMA GrownEnough ==
    ASSUME NEW s \in Nat, NEW v \in Values
    PROVE  /\ Grown(s, Kind[v], Length[v]) \in Nat
           /\ Size(v) \in Nat \ {0}
           /\ s + Size(v) <= Grown(s, Kind[v], Length[v])
<1> DEFINE n == Length[v]
<1>1. n \in Nat /\ Kind[v] \in Kinds
    BY FunctionsAssumption
<1>2. CASE Kind[v] = "array"
    <2>1. Size(v) = 8 + 4 * n
        BY <1>2 DEF Size
    <2>2. Grown(s, Kind[v], n) = ((s + 4 * n) \div 8 + 2) * 8
        BY <1>2 DEF Grown, IsPointer, WithRoom
    <2> QED
        BY <1>1, <2>1, <2>2
<1>3. CASE Kind[v] \in {"ptr", "global"}
    <2>1. Size(v) = 8
        BY <1>3 DEF Size, IsPointer
    <2>2. Grown(s, Kind[v], n) = (s \div 8 + 2) * 8
        BY <1>3 DEF Grown, IsPointer, WithRoom
    <2> QED
        BY <2>1, <2>2
<1>4. CASE Kind[v] \in {"int", "float"}
    <2>1. Size(v) = 4
        BY <1>4 DEF Size, IsPointer
    <2>2. Grown(s, Kind[v], n) = s + 4
        BY <1>4 DEF Grown, IsPointer, WithRoom
    <2> QED
        BY <2>1, <2>2
<1> QED
    BY <1>1, <1>2, <1>3, <1>4 DEF Kinds

(* Rounding makes no slot fall out of the frame.                            *)
LEMMA RoundedEnough == ASSUME NEW s \in Nat PROVE Rounded(s) \in Nat /\ s <= Rounded(s)
    BY DEF Rounded
(* The step of Place: the types and the separation of the slots stay, and   *)
(* the value has its slot.                                                  *)
LEMMA PlaceKeepsApart ==
    ASSUME GenTypeOK, WithinSpace, SlotsDisjoint, NEW v \in Values, Place(v)
    PROVE  /\ space' \in Nat /\ offset' \in [Values -> Nat] /\ pointed' \in SUBSET Values
           /\ WithinSpace' /\ SlotsDisjoint'
           /\ \A w \in Values : offset[w] # 0 => offset'[w] # 0
           /\ offset[v] # 0 => UNCHANGED <<space, offset>>
<1>1. CASE offset[v] # 0
    BY <1>1 DEF Place, GenTypeOK, WithinSpace, SlotsDisjoint
<1>2. CASE offset[v] = 0
    <2> DEFINE s == Grown(space, Kind[v], Length[v])
    <2>1. /\ space' = s
          /\ offset' = [offset EXCEPT ![v] = s]
          /\ pointed' = IF Kind[v] \in {"global", "array"} THEN pointed \cup {v} ELSE pointed
        BY <1>2 DEF Place
    <2>2. s \in Nat /\ Size(v) \in Nat \ {0} /\ space + Size(v) <= s
        BY GrownEnough DEF GenTypeOK
    <2> HIDE DEF s
    <2>3. \A w \in Values : offset[w] \in Nat /\ offset[w] <= space
        BY DEF GenTypeOK, WithinSpace
    <2>4. space \in Nat /\ offset \in [Values -> Nat]
        BY DEF GenTypeOK
    <2>5. \A w \in Values : offset'[w] = IF w = v THEN s ELSE offset[w]
        BY <2>1, <2>4
    <2>6. WithinSpace'
        BY <2>1, <2>2, <2>3, <2>4, <2>5 DEF WithinSpace
    <2>7. SlotsDisjoint'
        <3> SUFFICES ASSUME NEW x \in Values, NEW y \in Values,
                            x # y, offset'[x] # 0, offset'[y] # 0
                     PROVE  \/ offset'[x] + Size(y) <= offset'[y]
                            \/ offset'[y] + Size(x) <= offset'[x]
            BY DEF SlotsDisjoint
        <3>1. Size(x) \in Nat /\ Size(y) \in Nat
            BY <2>4, GrownEnough
        <3>2. CASE x = v
            BY <2>2, <2>3, <2>4, <2>5, <3>1, <3>2
        <3>3. CASE y = v
            BY <2>2, <2>3, <2>4, <2>5, <3>1, <3>3
        <3>4. CASE x # v /\ y # v
            BY <2>5, <3>4 DEF SlotsDisjoint
        <3> QED
            BY <3>2, <3>3, <3>4
    <2>8. pointed' \in SUBSET Values
        BY <2>1 DEF GenTypeOK
    <2> QED
        BY <1>2, <2>1, <2>2, <2>4, <2>5, <2>6, <2>7, <2>8
<1> QED
    BY <1>1, <1>2

(* The frame of the function is the only one amended.                       *)
LEMMA AmendedFrame ==
    ASSUME GenTypeOK, Len(frames) = at, Generating,
           NEW o, o \in [Values -> Nat], NEW f, f \subseteq Nat, NEW p, p \subseteq Values
    PROVE  /\ Amended(o, f, p) \in Seq(Frame)
           /\ Len(Amended(o, f, p)) = at
<1> DEFINE g == [offset |-> o, reserved |-> frames[at].reserved,
                 freed |-> frames[at].freed \cup f, pointed |-> p]
<1>1. at \in 1 .. Len(frames) /\ frames \in Seq(Frame) /\ frames[at] \in Frame
    BY DEF GenTypeOK, Generating
<1>2. g \in Frame
    BY <1>1 DEF Frame
<1>3. Amended(o, f, p) = [frames EXCEPT ![at] = g]
    BY DEF Amended
<1> HIDE DEF g
<1> QED
    BY <1>1, <1>2, <1>3

(* The epilogue of a ret whose value has its slot frees what was reserved.  *)
LEMMA ReturnEmitted ==
    ASSUME Inv, phase = "ends", frames' = Amended(offset, {space}, {}),
           UNCHANGED <<at, phase, moved, space, offset, pointed>>
    PROVE  Inv'
<1>1. Len(frames) = at /\ Generating /\ GenTypeOK
    BY DEF Inv, OneFrameEach
<1>2. /\ frames' \in Seq(Frame) /\ Len(frames') = at
      /\ frames'[at].reserved = frames[at].reserved
      /\ frames'[at].freed = frames[at].freed \cup {space}
    <2> DEFINE g == [offset |-> offset, reserved |-> frames[at].reserved,
                     freed |-> frames[at].freed \cup {space}, pointed |-> {}]
    <2>1. at \in 1 .. Len(frames) /\ frames \in Seq(Frame) /\ frames[at] \in Frame
        BY <1>1 DEF GenTypeOK, Generating
    <2>2. g \in Frame
        BY <1>1, <2>1 DEF Frame, GenTypeOK
    <2>3. frames' = [frames EXCEPT ![at] = g]
        BY DEF Amended
    <2>4. g.reserved = frames[at].reserved /\ g.freed = frames[at].freed \cup {space}
        OBVIOUS
    <2> HIDE DEF g
    <2>5. [frames EXCEPT ![at] = g] \in Seq(Frame) /\ Len([frames EXCEPT ![at] = g]) = at
        BY <1>1, <2>1, <2>2
    <2>6. frames'[at] = g
        BY <2>1, <2>3
    <2> QED
        BY <2>3, <2>4, <2>5, <2>6
<1>3. GenTypeOK' /\ OneFrameEach' /\ WithinSpace' /\ SlotsDisjoint'
    BY <1>1, <1>2 DEF Inv, GenTypeOK, OneFrameEach, WithinSpace, SlotsDisjoint, Generating
<1>4. Settled'
    BY <1>2 DEF Inv, Settled
<1> QED
    BY <1>3, <1>4 DEF Inv

(****************************************************************************)
(* The inductive invariant.                                                 *)
(****************************************************************************)

(* Each step keeps Inv.                                                     *)
LEMMA InvStep ==
    ASSUME Inv, [Generate]_genVars
    PROVE  Inv'
<1> USE DEF Inv
<1>0. /\ at \in Nat /\ Len(Functions) \in Nat
      /\ Len(frames) \in Nat
    BY DEF GenTypeOK
<1>1. CASE MoveParam
    <2> DEFINE v == Params[at][moved + 1]
    <2>1. v \in Values
        BY <1>1, FunctionsAssumption DEF MoveParam, Generating, GenTypeOK
    <2>2. Place(v) /\ phase = "args" /\ moved' = moved + 1 /\ UNCHANGED <<at, phase, frames>>
        BY <1>1 DEF MoveParam
    <2> HIDE DEF v
    <2>3. /\ space' \in Nat /\ offset' \in [Values -> Nat] /\ pointed' \in SUBSET Values
          /\ WithinSpace' /\ SlotsDisjoint'
        BY <2>1, <2>2, PlaceKeepsApart
    <2> QED
        BY <2>2, <2>3 DEF GenTypeOK, OneFrameEach, Settled, Generating
<1>2. CASE StartBlocks
    BY <1>2 DEF StartBlocks, GenTypeOK, OneFrameEach, WithinSpace, SlotsDisjoint, Settled, Generating
<1>3. CASE Request
    <2>1. PICK v \in Locals[at] : Place(v)
        BY <1>3 DEF Request
    <2>2. v \in Values
        BY <1>3, FunctionsAssumption DEF Request, Generating, GenTypeOK
    <2>3. /\ space' \in Nat /\ offset' \in [Values -> Nat] /\ pointed' \in SUBSET Values
          /\ WithinSpace' /\ SlotsDisjoint'
        BY <2>1, <2>2, PlaceKeepsApart
    <2> QED
        BY <1>3, <2>3 DEF Request, GenTypeOK, OneFrameEach, Settled, Generating
<1>4. CASE EndBlocks
    <2> DEFINE f == [offset |-> offset, reserved |-> Rounded(space),
                     freed |-> {}, pointed |-> {}]
    <2>1. Rounded(space) \in Nat /\ space <= Rounded(space)
        BY RoundedEnough DEF GenTypeOK
    <2>2. f \in Frame
        BY <2>1 DEF Frame, GenTypeOK
    <2>3. frames' = Append(frames, f) /\ space' = Rounded(space) /\ phase' = "ends"
          /\ UNCHANGED <<at, moved, offset, pointed>>
        BY <1>4 DEF EndBlocks
    <2>4. Len(frames) = at - 1 /\ Generating
        BY <1>4 DEF EndBlocks, OneFrameEach
    <2>5. frames'[at] = f /\ Len(frames') = at /\ frames' \in Seq(Frame)
        BY <1>0, <2>2, <2>3, <2>4 DEF GenTypeOK
    <2>6. GenTypeOK'
        BY <2>1, <2>3, <2>5 DEF GenTypeOK
    <2>7. OneFrameEach'
        BY <2>3, <2>4, <2>5 DEF OneFrameEach, Generating
    <2>8. WithinSpace'
        BY <1>0, <2>1, <2>3 DEF WithinSpace, GenTypeOK
    <2>9. SlotsDisjoint'
        BY <2>3 DEF SlotsDisjoint
    <2>10. Settled'
        <3>1. f.reserved = Rounded(space) /\ f.freed = {}
            OBVIOUS
        <3>2. \A v \in Locals[at] : offset[v] # 0
            BY <1>4 DEF EndBlocks, AskedFor
        <3> QED
            BY <2>3, <2>5, <3>1, <3>2 DEF Settled
    <2> QED
        BY <2>6, <2>7, <2>8, <2>9, <2>10
<1>5. CASE EmitReturn
    <2>1. PICK v \in Returned[at] : Place(v)
        BY <1>5 DEF EmitReturn
    <2>2. v \in Locals[at] /\ v \in Values
        BY <1>5, FunctionsAssumption DEF EmitReturn, Generating, GenTypeOK
    <2>3. offset[v] # 0
        BY <1>5, <2>2 DEF EmitReturn, Settled
    <2>4. UNCHANGED <<space, offset, pointed>>
        BY <2>1, <2>3 DEF Place
    <2>5. frames' = Amended(offset, {space}, {}) /\ UNCHANGED <<at, phase, moved>>
        BY <1>5, <2>4 DEF EmitReturn
    <2> QED
        BY <1>5, <2>4, <2>5, ReturnEmitted DEF EmitReturn, genVars
<1>6. CASE EmitPlainReturn
    BY <1>6, ReturnEmitted DEF EmitPlainReturn
<1>7. CASE NextFunction
    <2>1. Len(frames) = at /\ Generating
        BY <1>7 DEF NextFunction, OneFrameEach
    <2>2. /\ frames' = Amended(offset, {}, pointed)
          /\ at' = at + 1 /\ phase' = "args" /\ moved' = 0 /\ space' = 0
          /\ offset' = NoOffsets /\ pointed' = {}
        BY <1>7 DEF NextFunction, Forgotten
    <2>3. frames' \in Seq(Frame) /\ Len(frames') = at
        BY <2>1, <2>2, AmendedFrame DEF GenTypeOK
    <2>4. GenTypeOK'
        BY <1>0, <2>1, <2>2, <2>3 DEF GenTypeOK, Generating, NoOffsets
    <2> QED
        BY <1>0, <2>2, <2>3, <2>4
           DEF OneFrameEach, WithinSpace, SlotsDisjoint, Settled, NoOffsets
<1>8. CASE UNCHANGED genVars
    BY <1>8 DEF genVars, GenTypeOK, OneFrameEach, WithinSpace, SlotsDisjoint, Settled, Generating
<1> QED
    BY <1>1, <1>2, <1>3, <1>4, <1>5, <1>6, <1>7, <1>8 DEF Generate

(* Inv holds at every step of AsmFunction::generate, for all functions, all *)
(* values and every order in which normalGenerate asks for addresses.       *)
THEOREM FramesInvariant == GenSpec => []Inv
<1>1. GenInit => Inv
    BY DEF GenInit, Inv, GenTypeOK, OneFrameEach, WithinSpace, SlotsDisjoint, Settled, NoOffsets
<1>2. Inv /\ [Generate]_genVars => Inv'
    BY InvStep
<1> QED
    BY <1>1, <1>2, PTL DEF GenSpec

(****************************************************************************)
(* What it gives.                                                           *)
(****************************************************************************)

(* The variables of the generation keep their types.                        *)
THEOREM FramesTyped == GenSpec => []GenTypeOK
<1>1. Inv => GenTypeOK
    BY DEF Inv
<1> QED
    BY <1>1, FramesInvariant, PTL

(* getAddress never gives two values a byte in common, whatever the values  *)
(* of a function are and in whatever order they are asked for.              *)
THEOREM SlotsNeverOverlap == GenSpec => []SlotsDisjoint
<1>1. Inv => SlotsDisjoint
    BY DEF Inv
<1> QED
    BY <1>1, FramesInvariant, PTL

(* The prologue reserves all the slots there will ever be, and every        *)
(* epilogue frees what the prologue reserved.                               *)
THEOREM FramesFixed == GenSpec => []FrameFixed
<1>1. Inv => FrameFixed
    BY DEF Inv, WithinSpace, Settled, FrameFixed
<1> QED
    BY <1>1, FramesInvariant, PTL
(****************************************************************************)
(* What the frames emitted are like.                                        *)
(****************************************************************************)

(* A slot holds all bytes of its value, and only values that have a slot    *)
(* are pointed at their array or global.                                    *)
SlotsInside == \A v \in Values : offset[v] # 0 => Size(v) <= offset[v]
PointedRight ==
    \A v \in Values : v \in pointed <=> offset[v] # 0 /\ Kind[v] \in {"global", "array"}

(* The parameters moved have their slots.                                   *)
ParamsPlaced ==
    Generating =>
        /\ moved <= Len(Params[at]) /\ (phase # "args" => moved = Len(Params[at]))
        /\ \A i \in 1 .. moved : offset[Params[at][i]] # 0

SixteenFold(s) == \E z \in Nat : s = 16 * z

(* A frame whose function is generated: its slots lie apart in what is      *)
(* reserved and freed, and all the function uses has one.                   *)
Complete(f) ==
    LET o == frames[f].offset
    IN  /\ SixteenFold(frames[f].reserved)
        /\ frames[f].freed \subseteq {frames[f].reserved}
        /\ \A v \in Values : o[v] # 0 => Size(v) <= o[v] /\ o[v] <= frames[f].reserved
        /\ \A v, w \in Values : (v # w /\ o[v] # 0 /\ o[w] # 0) =>
               o[v] + Size(w) <= o[w] \/ o[w] + Size(v) <= o[v]
        /\ \A v \in Locals[f] : o[v] # 0
        /\ \A i \in 1 .. Len(Params[f]) : o[Params[f][i]] # 0
        /\ \A v \in frames[f].pointed : o[v] # 0
        /\ \A v \in Locals[f] : Kind[v] \in {"global", "array"} => v \in frames[f].pointed

FramesComplete == \A f \in 1 .. at - 1 : Complete(f)

LayoutInv ==
    /\ Inv /\ SlotsInside /\ PointedRight /\ ParamsPlaced /\ FramesComplete
    /\ phase = "ends" => SixteenFold(frames[at].reserved)

LEMMA PlaceInside ==
    ASSUME GenTypeOK, SlotsInside, PointedRight, NEW v \in Values, Place(v)
    PROVE  /\ SlotsInside' /\ PointedRight'
           /\ offset'[v] # 0
           /\ \A w \in Values : offset[w] # 0 => offset'[w] # 0
<1>1. CASE offset[v] # 0
    BY <1>1 DEF Place, SlotsInside, PointedRight
<1>2. CASE offset[v] = 0
    <2> DEFINE s == Grown(space, Kind[v], Length[v])
    <2>1. /\ offset' = [offset EXCEPT ![v] = s]
          /\ pointed' = IF Kind[v] \in {"global", "array"} THEN pointed \cup {v} ELSE pointed
        BY <1>2 DEF Place
    <2>2. s \in Nat /\ s # 0 /\ Size(v) <= s
        <3>1. s \in Nat /\ Size(v) \in Nat \ {0} /\ space + Size(v) <= s /\ space \in Nat
            BY GrownEnough DEF GenTypeOK
        <3> HIDE DEF s
        <3> QED
            BY <3>1
    <2> HIDE DEF s
    <2>3. \A w \in Values : offset'[w] = IF w = v THEN s ELSE offset[w]
        BY <2>1 DEF GenTypeOK
    <2>4. SlotsInside'
        BY <2>2, <2>3 DEF SlotsInside
    <2>5. PointedRight'
        BY <2>1, <2>2, <2>3 DEF PointedRight
    <2> QED
        BY <2>2, <2>3, <2>4, <2>5
<1> QED
    BY <1>1, <1>2

(* The frames of other functions stay complete.                             *)
LEMMA CompleteStays ==
    ASSUME NEW f, frames'[f] = frames[f], Complete(f)
    PROVE  Complete(f)'
BY DEF Complete

(* Generating keeps LayoutInv.                                              *)
LEMMA LayoutStep ==
    ASSUME LayoutInv, [Generate]_genVars
    PROVE  LayoutInv'
<1>0. /\ Inv /\ Inv' /\ GenTypeOK /\ GenTypeOK' /\ SlotsInside /\ PointedRight /\ ParamsPlaced
      /\ FramesComplete /\ (phase = "ends" => SixteenFold(frames[at].reserved))
    BY InvStep DEF LayoutInv, Inv
<1>1. /\ at \in Nat \ {0} /\ Len(frames) \in Nat /\ moved \in Nat
      /\ Generating => Params[at] \in Seq(Values) /\ Len(Params[at]) \in Nat /\ Locals[at] \subseteq Values
                       /\ Returned[at] \subseteq Locals[at]
    BY <1>0, FunctionsAssumption DEF GenTypeOK, Generating
<1>2. CASE MoveParam
    <2> DEFINE v == Params[at][moved + 1]
    <2>1. v \in Values
        BY <1>1, <1>2 DEF MoveParam
    <2>2. Generating /\ phase = "args" /\ moved < Len(Params[at]) /\ Place(v) /\ moved' = moved + 1
          /\ UNCHANGED <<at, phase, frames>>
        BY <1>2 DEF MoveParam
    <2>3. /\ SlotsInside' /\ PointedRight'
          /\ offset'[v] # 0
          /\ \A w \in Values : offset[w] # 0 => offset'[w] # 0
        BY <1>0, <2>1, <2>2, PlaceInside
    <2>4. ParamsPlaced'
        <3>1. ASSUME NEW i \in 1 .. moved + 1 PROVE offset'[Params[at][i]] # 0
            <4>1. CASE i = moved + 1
                BY <2>3, <4>1
            <4>2. CASE i # moved + 1
                <5>1. i \in 1 .. moved /\ Params[at][i] \in Values
                    BY <1>1, <2>2, <4>2
                <5> QED
                    BY <1>0, <2>2, <2>3, <5>1 DEF ParamsPlaced
            <4> QED
                BY <4>1, <4>2
        <3> HIDE DEF v
        <3> QED
            BY <1>1, <2>2, <3>1 DEF ParamsPlaced, Generating
    <2>5. FramesComplete'
        BY <1>0, <2>2 DEF FramesComplete, Complete
    <2> QED
        BY <1>0, <2>2, <2>3, <2>4, <2>5 DEF LayoutInv
<1>3. CASE StartBlocks
    BY <1>0, <1>3 DEF StartBlocks, LayoutInv, SlotsInside, PointedRight, ParamsPlaced, FramesComplete,
                      Complete, Generating
<1>4. CASE Request
    <2>1. PICK v \in Locals[at] : Place(v)
        BY <1>4 DEF Request
    <2>2. v \in Values /\ Generating /\ phase = "blocks" /\ UNCHANGED <<at, phase, moved, frames>>
        BY <1>1, <1>4 DEF Request
    <2>3. SlotsInside' /\ PointedRight' /\ \A w \in Values : offset[w] # 0 => offset'[w] # 0
        BY <1>0, <2>1, <2>2, PlaceInside
    <2>4. ParamsPlaced'
        <3>1. \A i \in 1 .. moved : Params[at][i] \in Values
            BY <1>0, <1>1, <2>2 DEF ParamsPlaced
        <3> QED
            BY <1>0, <2>2, <2>3, <3>1 DEF ParamsPlaced, Generating
    <2>5. FramesComplete'
        BY <1>0, <2>2 DEF FramesComplete, Complete
    <2> QED
        BY <1>0, <2>2, <2>3, <2>4, <2>5 DEF LayoutInv
<1>5. CASE EndBlocks
    <2> DEFINE g == [offset |-> offset, reserved |-> Rounded(space), freed |-> {}, pointed |-> {}]
    <2>1. /\ Generating /\ phase = "blocks" /\ phase' = "ends" /\ frames' = Append(frames, g)
          /\ UNCHANGED <<at, moved, offset, pointed>>
        BY <1>5 DEF EndBlocks
    <2>2. Len(frames) = at - 1
        BY <1>0, <2>1 DEF Inv, OneFrameEach
    <2>3. frames \in Seq(Frame)
        BY <1>0 DEF GenTypeOK
    <2>4. \A f \in 1 .. at - 1 : frames'[f] = frames[f]
        BY <1>1, <2>1, <2>2, <2>3
    <2>5. frames'[at].reserved = Rounded(space)
        <3>1. frames'[at] = g
            <4> HIDE DEF g
            <4> QED
                BY <1>1, <2>1, <2>2, <2>3
        <3> QED
            BY <3>1
    <2>6. SixteenFold(Rounded(space))
        <3>1. space \div 16 + 1 \in Nat /\ Rounded(space) = 16 * (space \div 16 + 1)
            BY <1>0 DEF Rounded, GenTypeOK
        <3> QED
            BY <3>1 DEF SixteenFold
    <2>7. FramesComplete'
        BY <1>0, <2>1, <2>4, CompleteStays DEF FramesComplete
    <2>8. SlotsInside' /\ PointedRight' /\ ParamsPlaced'
        BY <1>0, <2>1 DEF SlotsInside, PointedRight, ParamsPlaced, Generating
    <2> QED
        BY <1>0, <2>1, <2>5, <2>6, <2>7, <2>8 DEF LayoutInv
<1>6. CASE EmitReturn \/ EmitPlainReturn
    <2>1. phase = "ends" /\ phase' = "ends" /\ Generating /\ at' = at /\ moved' = moved
          /\ Len(frames) = at /\ frames \in Seq(Frame) /\ frames[at] \in Frame
        BY <1>0, <1>1, <1>6 DEF EmitReturn, EmitPlainReturn, Inv, OneFrameEach, GenTypeOK
    <2>2. UNCHANGED <<offset, pointed>>
        <3>1. CASE EmitPlainReturn
            BY <3>1 DEF EmitPlainReturn
        <3>2. CASE EmitReturn
            <4>1. PICK v \in Returned[at] : Place(v)
                BY <3>2 DEF EmitReturn
            <4>2. offset[v] # 0
                BY <1>0, <1>1, <2>1, <4>1 DEF Inv, Settled
            <4> QED
                BY <4>1, <4>2 DEF Place
        <3> QED
            BY <1>6, <3>1, <3>2
    <2>3. PICK s : frames' = Amended(offset', {s}, {})
        BY <1>6, <2>2 DEF EmitReturn, EmitPlainReturn
    <2>4. /\ \A f \in 1 .. at - 1 : frames'[f] = frames[f]
          /\ frames'[at].reserved = frames[at].reserved
        <3> DEFINE g == [offset |-> offset', reserved |-> frames[at].reserved,
                         freed |-> frames[at].freed \cup {s}, pointed |-> {}]
        <3>1. frames' = [frames EXCEPT ![at] = g]
            BY <2>3 DEF Amended
        <3>2. g.reserved = frames[at].reserved
            OBVIOUS
        <3> HIDE DEF g
        <3> QED
            BY <1>1, <2>1, <3>1, <3>2
    <2>5. FramesComplete'
        BY <1>0, <2>1, <2>4, CompleteStays DEF FramesComplete
    <2>6. SlotsInside' /\ PointedRight' /\ ParamsPlaced'
        BY <1>0, <2>1, <2>2 DEF SlotsInside, PointedRight, ParamsPlaced, Generating
    <2> QED
        BY <1>0, <2>1, <2>4, <2>5, <2>6 DEF LayoutInv
<1>7. CASE NextFunction
    <2>1. /\ Generating /\ phase = "ends" /\ frames' = Amended(offset, {}, pointed)
          /\ at' = at + 1 /\ phase' = "args" /\ moved' = 0
          /\ offset' = NoOffsets /\ pointed' = {}
        BY <1>7 DEF NextFunction, Forgotten
    <2>2. Len(frames) = at /\ frames \in Seq(Frame) /\ frames[at] \in Frame
        BY <1>0, <1>1, <2>1 DEF Inv, OneFrameEach, GenTypeOK
    <2>3. /\ \A f \in 1 .. at - 1 : frames'[f] = frames[f]
          /\ frames'[at].reserved = frames[at].reserved
          /\ frames'[at].freed = frames[at].freed
          /\ frames'[at].offset = offset
          /\ frames'[at].pointed = pointed
        <3> DEFINE g == [offset |-> offset, reserved |-> frames[at].reserved,
                         freed |-> frames[at].freed \cup {}, pointed |-> pointed]
        <3>1. frames' = [frames EXCEPT ![at] = g]
            BY <2>1 DEF Amended
        <3>2. g.reserved = frames[at].reserved /\ g.offset = offset /\ g.pointed = pointed
            OBVIOUS
        <3>3. g.freed = frames[at].freed
            OBVIOUS
        <3> HIDE DEF g
        <3>4. frames'[at] = g /\ \A f \in 1 .. at - 1 : frames'[f] = frames[f]
            BY <1>1, <2>2, <3>1
        <3> QED
            BY <3>2, <3>3, <3>4
    <2>4. ASSUME NEW f, f = at PROVE Complete(f)'
        <3> DEFINE o == offset
        <3>1. /\ SixteenFold(frames'[at].reserved)
              /\ frames'[at].freed \subseteq {frames'[at].reserved}
            BY <1>0, <2>1, <2>3 DEF Inv, Settled
        <3>2. /\ \A v \in Values : o[v] # 0 => Size(v) <= o[v] /\ o[v] <= frames'[at].reserved
              /\ \A v, w \in Values : (v # w /\ o[v] # 0 /\ o[w] # 0) =>
                     o[v] + Size(w) <= o[w] \/ o[w] + Size(v) <= o[v]
              /\ \A v \in Locals[at] : o[v] # 0
            BY <1>0, <2>1, <2>3 DEF Inv, Settled, WithinSpace, SlotsDisjoint, SlotsInside
        <3>3. \A i \in 1 .. Len(Params[at]) : o[Params[at][i]] # 0
            BY <1>0, <2>1 DEF ParamsPlaced
        <3>4. /\ \A v \in pointed : o[v] # 0
              /\ \A v \in Locals[at] : Kind[v] \in {"global", "array"} => v \in pointed
            BY <1>0, <1>1, <2>1, <3>2 DEF PointedRight, GenTypeOK
        <3> QED
            BY <2>3, <2>4, <3>1, <3>2, <3>3, <3>4 DEF Complete
    <2>5. FramesComplete'
        <3> SUFFICES ASSUME NEW f \in 1 .. at PROVE Complete(f)'
            BY <1>1, <2>1 DEF FramesComplete
        <3>1. CASE f = at
            BY <2>4, <3>1
        <3>2. CASE f # at
            <4>1. f \in 1 .. at - 1
                BY <1>1, <3>2
            <4> QED
                BY <1>0, <2>3, <4>1, CompleteStays DEF FramesComplete
        <3> QED
            BY <3>1, <3>2
    <2>6. SlotsInside' /\ PointedRight' /\ ParamsPlaced'
        <3>1. Generating' => Len(Params[at'])  \in Nat
            BY <1>0, FunctionsAssumption DEF Generating, GenTypeOK
        <3> QED
            BY <2>1, <3>1 DEF SlotsInside, PointedRight, ParamsPlaced, NoOffsets
    <2> QED
        BY <1>0, <2>1, <2>5, <2>6 DEF LayoutInv
<1>8. CASE UNCHANGED genVars
    BY <1>0, <1>8 DEF genVars, LayoutInv, SlotsInside, PointedRight, ParamsPlaced, FramesComplete,
                      Complete, Generating
<1> QED
    BY <1>2, <1>3, <1>4, <1>5, <1>6, <1>7, <1>8 DEF Generate

LEMMA LayoutInit == GenInit => LayoutInv
<1> SUFFICES ASSUME GenInit PROVE LayoutInv
    OBVIOUS
<1>1. Inv
    BY DEF GenInit, Inv, GenTypeOK, OneFrameEach, WithinSpace, SlotsDisjoint, Settled, NoOffsets
<1>2. SlotsInside /\ PointedRight /\ FramesComplete
    BY DEF GenInit, SlotsInside, PointedRight, FramesComplete, NoOffsets
<1>3. ParamsPlaced
    BY FunctionsAssumption DEF GenInit, ParamsPlaced, Generating
<1> QED
    BY <1>1, <1>2, <1>3 DEF GenInit, LayoutInv

-----------------------------------------------------------------------------
(****************************************************************************)
(* Where arguments and values are put.                                      *)
(****************************************************************************)

(* The places written hold their contents, the rest stays.                  *)
LEMMA WrittenElsewhere ==
    ASSUME NEW m, NEW place, NEW content, NEW b \in Words,
           \A x \in DOMAIN place : ~ (b > place[x][1] /\ b <= place[x][2])
    PROVE  Written(m, place, content)[b] = m[b]
BY DEF Written

LEMMA WrittenThere ==
    ASSUME NEW m, NEW place, NEW content, NEW b \in Words, NEW x \in DOMAIN place,
           b > place[x][1] /\ b <= place[x][2],
           \A y \in DOMAIN place : b > place[y][1] /\ b <= place[y][2] => y = x
    PROVE  Written(m, place, content)[b] = content[x]
<1> DEFINE here == {y \in DOMAIN place : b > place[y][1] /\ b <= place[y][2]}
<1>1. here = {x}
    OBVIOUS
<1>2. Written(m, place, content)[b] = IF here = {} THEN m[b] ELSE content[CHOOSE y \in here : TRUE]
    BY DEF Written
<1> HIDE DEF here
<1>3. (CHOOSE y \in here : TRUE) \in here
    BY <1>1
<1> QED
    BY <1>1, <1>2, <1>3

LEMMA WrittenType ==
    ASSUME NEW m \in [Words -> Contents], NEW place, NEW content,
           \A x \in DOMAIN place : content[x] \in Contents
    PROVE  Written(m, place, content) \in [Words -> Contents]
<1> SUFFICES ASSUME NEW b \in Words
             PROVE  Written(m, place, content)[b] \in Contents
    BY DEF Written
<1> DEFINE here == {y \in DOMAIN place : b > place[y][1] /\ b <= place[y][2]}
<1>1. Written(m, place, content)[b] = IF here = {} THEN m[b] ELSE content[CHOOSE y \in here : TRUE]
    BY DEF Written
<1>2. here \subseteq DOMAIN place
    OBVIOUS
<1> HIDE DEF here
<1>3. here # {} => (CHOOSE y \in here : TRUE) \in here
    OBVIOUS
<1> QED
    BY <1>1, <1>2, <1>3

(* The counts of a calling convention are numbers.                          *)
LEMMA CountsFinite ==
    ASSUME NEW f \in 1 .. Len(Functions)
    PROVE  /\ Len(Params[f]) \in Nat
           /\ \A S \in SUBSET (1 .. Len(Params[f])) : IsFiniteSet(S) /\ Cardinality(S) \in Nat
           /\ \E z \in Nat : BytesPushed(f) = 8 * z
           /\ \E z \in Nat : Popped(f) = 8 * z
<1>1. Len(Params[f]) \in Nat
    BY FunctionsAssumption
<1>2. IsFiniteSet(1 .. Len(Params[f]))
    BY <1>1, FS_Interval
<1>3. \A S \in SUBSET (1 .. Len(Params[f])) : IsFiniteSet(S) /\ Cardinality(S) \in Nat
    BY <1>2, FS_Subset, FS_CardinalityType
<1>4. Pushed(f) \in SUBSET (1 .. Len(Params[f]))
    BY DEF Pushed
<1>5. Cardinality(Pushed(f)) \in Nat /\ BytesPushed(f) = 8 * Cardinality(Pushed(f))
    BY <1>3, <1>4 DEF BytesPushed
<1>6. \E z \in Nat : Popped(f) = 8 * z
    <2>1. CASE Len(Params[f]) + 1 >= 7
        <3>1. Popped(f) = 8 * (Len(Params[f]) + 1 - 7)
            BY <2>1 DEF Popped
        <3>2. Len(Params[f]) + 1 - 7 \in Nat
            BY <1>1, <2>1
        <3> QED
            BY <3>1, <3>2
    <2>2. CASE ~ (Len(Params[f]) + 1 >= 7)
        <3>1. Popped(f) = 8 * 0
            BY <2>2 DEF Popped
        <3> QED
            BY <3>1
    <2> QED
        BY <2>1, <2>2
<1> QED
    BY <1>1, <1>3, <1>5, <1>6

(* The callee counts the registers of both classes like the caller.         *)
LEMMA RegistersAlike ==
    ASSUME NEW f \in 1 .. Len(Functions), NEW i \in 1 .. Len(Params[f])
    PROVE  ParameterRegister(f, i) = RegisterOf(f, i)
<1> DEFINE p == Params[f]
           c == Class(p[i])
           S == {j \in 1 .. i - 1 : (Kind[p[j]] = "float") = (c = "float")}
           T == {j \in 1 .. i - 1 : Class(p[j]) = Class(p[i])}
<1>1. \A j \in 1 .. i - 1 : ((Kind[p[j]] = "float") = (c = "float")) <=> Class(p[j]) = Class(p[i])
    BY DEF Class
<1>2. S = T
    BY <1>1
<1>3. ParameterRegister(f, i) = <<c, Cardinality(S)>>
    BY DEF ParameterRegister
<1>4. RegisterOf(f, i) = <<c, Cardinality(T)>>
    BY DEF RegisterOf
<1> QED
    BY <1>2, <1>3, <1>4

(* No two arguments of a call share a register.                             *)
LEMMA RegistersDiffer ==
    ASSUME NEW f \in 1 .. Len(Functions), NEW i \in 1 .. Len(Params[f]),
           NEW j \in 1 .. Len(Params[f]), RegisterOf(f, i) = RegisterOf(f, j), i < j
    PROVE  FALSE
<1> DEFINE p == Params[f]
           Before(k) == {h \in 1 .. k - 1 : Class(p[h]) = Class(p[k])}
<1>0. Len(p) \in Nat
    BY CountsFinite
<1>1. RegisterOf(f, i) = <<Class(p[i]), Cardinality(Before(i))>>
      /\ RegisterOf(f, j) = <<Class(p[j]), Cardinality(Before(j))>>
    BY DEF RegisterOf
<1>2. Class(p[i]) = Class(p[j]) /\ Cardinality(Before(i)) = Cardinality(Before(j))
    <2>1. Before(i) \in SUBSET (1 .. Len(p)) /\ Before(j) \in SUBSET (1 .. Len(p))
        BY <1>0
    <2>2. Cardinality(Before(i)) \in Nat /\ Cardinality(Before(j)) \in Nat
        BY <2>1, CountsFinite
    <2> DEFINE a == Class(p[i])
               b == Class(p[j])
               x == Cardinality(Before(i))
               y == Cardinality(Before(j))
    <2>3. x \in Nat /\ y \in Nat /\ <<a, x>> = <<b, y>>
        BY <1>1, <2>2
    <2> HIDE DEF a, b, x, y
    <2>4. a = b /\ x = y
        BY <2>3
    <2> QED
        BY <2>4 DEF a, b, x, y
<1>3. Before(i) \subseteq Before(j) /\ i \in Before(j) /\ i \notin Before(i)
    BY <1>0, <1>2
<1>4. Before(j) \in SUBSET (1 .. Len(p))
    BY <1>0
<1>5. IsFiniteSet(Before(j))
    BY <1>4, CountsFinite
<1> HIDE DEF Before
<1> QED
    BY <1>2, <1>3, <1>5, FS_Subset

(* A callee finds all its arguments if each is in a register.               *)
LEMMA AllArrive ==
    ASSUME NEW f \in 1 .. Len(Functions), Pushed(f) = {}, NEW m, NEW n, NEW rbp,
           NEW i \in 1 .. Len(Params[f])
    PROVE  ArgumentFound(m, f, n, i, rbp) = <<n, Params[f][i]>>
<1> DEFINE r == ParameterRegister(f, i)
           args == 1 .. Len(Params[f])
<1>1. r = RegisterOf(f, i) /\ IsRegister(r)
    BY RegistersAlike DEF Pushed
<1>2. \A j \in args : RegisterOf(f, j) = r => j = i
    <2> SUFFICES ASSUME NEW j \in args, RegisterOf(f, j) = r PROVE j = i
        OBVIOUS
    <2>1. i \in Int /\ j \in Int /\ RegisterOf(f, j) = RegisterOf(f, i)
        BY <1>1, CountsFinite
    <2>2. ~ (i < j) /\ ~ (j < i)
        BY <2>1, RegistersDiffer
    <2> QED
        BY <2>1, <2>2
<1>3. (CHOOSE j \in args : RegisterOf(f, j) = r) = i
    BY <1>1, <1>2
<1>4. \E j \in args : RegisterOf(f, j) = r
    BY <1>1
<1>5. ArgumentFound(m, f, n, i, rbp) = <<n, Params[f][CHOOSE j \in args : RegisterOf(f, j) = r]>>
    BY <1>1, <1>4 DEF ArgumentFound
<1> QED
    BY <1>3, <1>5

(* What a parameter finds is a content.                                     *)
LEMMA FoundIsContent ==
    ASSUME NEW f \in 1 .. Len(Functions), NEW m \in [Words -> Contents], NEW n \in 1 .. MaxCalls,
           NEW i \in 1 .. Len(Params[f]), NEW rbp
    PROVE  ArgumentFound(m, f, n, i, rbp) \in Contents
<1> DEFINE r == ParameterRegister(f, i)
           args == 1 .. Len(Params[f])
           js == {j \in args : RegisterOf(f, j) = r}
           b == StackArgumentAt(rbp, Cardinality({j \in 1 .. i - 1 : ~ IsRegister(ParameterRegister(f, j))}))
<1>1. Read(m, b) \in Contents
    BY DEF Read, Contents
<1>2. ArgumentFound(m, f, n, i, rbp) =
          IF ~ IsRegister(r) THEN Read(m, b)
          ELSE IF \E j \in args : RegisterOf(f, j) = r
               THEN <<n, Params[f][CHOOSE j \in args : RegisterOf(f, j) = r]>>
          ELSE Nothing
    BY DEF ArgumentFound
<1>3. ASSUME \E j \in args : RegisterOf(f, j) = r
      PROVE  (CHOOSE j \in args : RegisterOf(f, j) = r) \in args
    BY <1>3
<1>4. \A j \in args : Params[f][j] \in Values
    BY FunctionsAssumption
<1>5. \A j \in args : <<n, Params[f][j]>> \in Contents
    BY <1>4 DEF Contents
<1>6. Nothing \in Contents
    BY DEF Contents
<1> HIDE DEF r, b
<1> QED
    BY <1>1, <1>2, <1>3, <1>5, <1>6

LEMMA WordsAndSizes ==
    /\ MaxByte \in Nat /\ Words \subseteq Nat
    /\ \A v \in Values : Size(v) \in Nat
<1>1. \A v \in Values : Size(v) \in Nat
    <2> TAKE v \in Values
    <2>1. 0 \in Nat
        OBVIOUS
    <2> QED
        BY <2>1, GrownEnough
<1> QED
    BY <1>1, StackAssumption DEF Words

(* Arguments are pushed above the top.                                      *)
LEMMA ArgumentsMemory ==
    ASSUME NEW f \in 1 .. Len(Functions), NEW m \in [Words -> Contents], NEW n \in 1 .. MaxCalls,
           NEW top \in Nat
    PROVE  /\ WithArguments(m, f, n, top) \in [Words -> Contents]
           /\ \A b \in Words : b <= top => WithArguments(m, f, n, top)[b] = m[b]
<1> DEFINE args == 1 .. Len(Params[f])
           place == [i \in Pushed(f) |-> ArgumentPlace(f, i, top)]
           content == [i \in Pushed(f) |-> <<n, Params[f][i]>>]
<1>1. WithArguments(m, f, n, top) = Written(m, place, content)
    BY DEF WithArguments
<1>2. Pushed(f) \subseteq args
    BY DEF Pushed
<1>3. \A i \in DOMAIN place : content[i] \in Contents
    BY <1>2, FunctionsAssumption DEF Contents
<1>4. \A i \in DOMAIN place : place[i][1] >= top /\ place[i][1] \in Nat
    <2> TAKE i \in DOMAIN place
    <2>1. {j \in Pushed(f) : j > i} \in SUBSET args
        BY <1>2
    <2>2. Cardinality({j \in Pushed(f) : j > i}) \in Nat
        BY <2>1, CountsFinite
    <2>3. place[i][1] = top + 8 * Cardinality({j \in Pushed(f) : j > i})
        BY DEF ArgumentPlace
    <2> QED
        BY <2>2, <2>3
<1> HIDE DEF place, content
<1>5. \A b \in Words : b <= top => \A i \in DOMAIN place : ~ (b > place[i][1] /\ b <= place[i][2])
    BY <1>4, WordsAndSizes
<1> QED
    BY <1>1, <1>3, <1>5, WrittenType, WrittenElsewhere

(* The return address and the saved %rbp are pushed above the arguments.    *)
LEMMA LinksMemory ==
    ASSUME NEW m \in [Words -> Contents], NEW n \in 1 .. MaxCalls,
           NEW top \in Nat, NEW z \in Nat, top = 8 * z, top + 16 <= MaxByte
    PROVE  /\ WithLinks(m, n, top) \in [Words -> Contents]
           /\ \A b \in Words : b <= top => WithLinks(m, n, top)[b] = m[b]
           /\ top + 16 \in Words /\ WithLinks(m, n, top)[top + 16] = <<n, "rbp">>
           /\ top + 8 \in Words /\ WithLinks(m, n, top)[top + 8] = <<n, "ret">>
           /\ top + 16 \in Quads
<1> DEFINE place == [x \in {"ret", "rbp"} |-> IF x = "ret" THEN <<top, top + 8>>
                                              ELSE <<top + 8, top + 16>>]
           content == [x \in {"ret", "rbp"} |-> <<n, x>>]
           m1 == WithLinks(m, n, top)
           b == top + 8
           c == top + 16
<1>1. m1 = Written(m, place, content)
    BY DEF WithLinks
<1>2. /\ DOMAIN place = {"ret", "rbp"}
      /\ place["ret"][1] = top /\ place["ret"][2] = top + 8
      /\ place["rbp"][1] = top + 8 /\ place["rbp"][2] = top + 16
      /\ content["ret"] = <<n, "ret">> /\ content["rbp"] = <<n, "rbp">>
    OBVIOUS
<1>3. \A x \in DOMAIN place : content[x] \in Contents
    BY DEF Contents
<1>4. b \in Words /\ c \in Words /\ c \in Quads
    <2>1. b = 4 * (2 * z + 2) /\ c = 4 * (2 * z + 4) /\ c = 8 * (z + 2)
        OBVIOUS
    <2>2. /\ 2 * z + 2 \in 1 .. MaxByte \div 4
          /\ 2 * z + 4 \in 1 .. MaxByte \div 4
          /\ z + 2 \in 0 .. MaxByte \div 8
        BY WordsAndSizes
    <2> HIDE DEF b, c
    <2> QED
        BY <2>1, <2>2 DEF Words, Quads
<1> HIDE DEF place, content, m1
<1>5. \A w \in Words : w <= top => \A x \in DOMAIN place : ~ (w > place[x][1] /\ w <= place[x][2])
    BY <1>2, WordsAndSizes
<1>6. m1[c] = content["rbp"]
    <2>1. c > place["rbp"][1] /\ c <= place["rbp"][2] /\ ~ (c <= place["ret"][2])
        BY <1>2
    <2> HIDE DEF c
    <2>2. \A y \in DOMAIN place : c > place[y][1] /\ c <= place[y][2] => y = "rbp"
        BY <1>2, <2>1
    <2> QED
        BY <1>1, <1>2, <1>4, <2>1, <2>2, WrittenThere
<1>7. m1[b] = content["ret"]
    <2>1. b > place["ret"][1] /\ b <= place["ret"][2] /\ ~ (b > place["rbp"][1])
        BY <1>2
    <2> HIDE DEF b
    <2>2. \A y \in DOMAIN place : b > place[y][1] /\ b <= place[y][2] => y = "ret"
        BY <1>2, <2>1
    <2> QED
        BY <1>1, <1>2, <1>4, <2>1, <2>2, WrittenThere
<1>8. m1 \in [Words -> Contents] /\ \A w \in Words : w <= top => m1[w] = m[w]
    BY <1>1, <1>3, <1>5, WrittenType, WrittenElsewhere
<1> QED
    BY <1>2, <1>4, <1>6, <1>7, <1>8 DEF m1

(* Parameters and locals are written above the links, the locals where the  *)
(* frame says.                                                              *)
LEMMA FrameMemory ==
    ASSUME NEW f \in 1 .. Len(Functions), Complete(f), frames[f] \in Frame,
           NEW m \in [Words -> Contents], NEW n \in 1 .. MaxCalls, NEW rbp \in Nat
    PROVE  LET m3 == WithLocals(WithParameters(m, f, n, rbp), f, n, rbp)
           IN  /\ m3 \in [Words -> Contents]
               /\ \A b \in Words : b <= rbp => m3[b] = m[b]
               /\ \A v \in Locals[f], b \in Words :
                     b > Slot(f, v, rbp)[1] /\ b <= Slot(f, v, rbp)[2] => m3[b] = <<n, v>>
<1> DEFINE o == frames[f].offset
           args == 1 .. Len(Params[f])
           m2 == WithParameters(m, f, n, rbp)
           m3 == WithLocals(m2, f, n, rbp)
<1>1. o \in [Values -> Nat] /\ frames[f].pointed \subseteq Values
      /\ Locals[f] \subseteq Values /\ \A i \in args : Params[f][i] \in Values
    BY FunctionsAssumption DEF Frame
<1>2. /\ \A v \in Writes(f) : v \in Values /\ o[v] # 0
      /\ \A v \in Locals[f] : v \in Writes(f)
      /\ \A i \in args : o[Params[f][i]] # 0
      /\ \A v, w \in Values : (v # w /\ o[v] # 0 /\ o[w] # 0) =>
               o[v] + Size(w) <= o[w] \/ o[w] + Size(v) <= o[v]
      /\ \A v \in Values : o[v] # 0 => Size(v) <= o[v]
    BY <1>1 DEF Writes, Complete
<1>3. ASSUME NEW v \in Values, o[v] # 0
      PROVE  /\ Slot(f, v, rbp)[1] = rbp + o[v] - Size(v)
             /\ Slot(f, v, rbp)[2] = rbp + o[v]
             /\ Slot(f, v, rbp)[1] >= rbp /\ Slot(f, v, rbp)[1] \in Int
    <2>1. o[v] \in Nat /\ Size(v) \in Nat /\ Size(v) <= o[v]
        BY <1>1, <1>2, <1>3, WordsAndSizes
    <2>2. Slot(f, v, rbp)[1] = rbp + o[v] - Size(v) /\ Slot(f, v, rbp)[2] = rbp + o[v]
        BY <2>1 DEF Slot
    <2> HIDE DEF o
    <2> QED
        BY <2>1, <2>2
<1>4. m2 \in [Words -> Contents] /\ \A b \in Words : b <= rbp => m2[b] = m[b]
    <2> DEFINE place == [i \in args |-> Slot(f, Params[f][i], rbp)]
               content == [i \in args |-> ArgumentFound(m, f, n, i, rbp)]
    <2>1. m2 = Written(m, place, content)
        BY DEF WithParameters
    <2>2. \A i \in DOMAIN place : content[i] \in Contents
        BY FoundIsContent
    <2>3. \A i \in DOMAIN place : place[i][1] >= rbp /\ place[i][1] \in Int
        <3> TAKE i \in DOMAIN place
        <3> DEFINE v == Params[f][i]
        <3>1. place[i] = Slot(f, v, rbp) /\ v \in Values /\ o[v] # 0
            BY <1>1, <1>2
        <3> HIDE DEF place, v, o
        <3> QED
            BY <1>3, <3>1
    <2> HIDE DEF place, content
    <2>4. \A b \in Words : b <= rbp => \A i \in DOMAIN place : ~ (b > place[i][1] /\ b <= place[i][2])
        BY <2>3, WordsAndSizes
    <2> QED
        BY <2>1, <2>2, <2>4, WrittenType, WrittenElsewhere
<1> DEFINE place == [v \in Writes(f) |-> Slot(f, v, rbp)]
           content == [v \in Writes(f) |-> <<n, v>>]
<1>5. /\ m3 = Written(m2, place, content)
      /\ DOMAIN place = Writes(f) /\ \A v \in Writes(f) : place[v] = Slot(f, v, rbp) /\ content[v] = <<n, v>>
    BY DEF WithLocals
<1> HIDE DEF place, content, o, m2, m3
<1>6. m3 \in [Words -> Contents] /\ \A b \in Words : b <= rbp => m3[b] = m2[b]
    <2>1. \A v \in DOMAIN place : content[v] \in Contents
        <3> TAKE v \in DOMAIN place
        <3>1. content[v] = <<n, v>> /\ v \in Values
            BY <1>2, <1>5
        <3> QED
            BY <3>1 DEF Contents
    <2>2. \A v \in DOMAIN place : place[v][1] >= rbp /\ place[v][1] \in Int
        BY <1>2, <1>3, <1>5
    <2>3. \A b \in Words : b <= rbp => \A v \in DOMAIN place : ~ (b > place[v][1] /\ b <= place[v][2])
        BY <2>2, WordsAndSizes
    <2> QED
        BY <1>4, <1>5, <2>1, <2>3, WrittenType, WrittenElsewhere
<1>7. ASSUME NEW v \in Locals[f], NEW b \in Words,
             b > Slot(f, v, rbp)[1] /\ b <= Slot(f, v, rbp)[2]
      PROVE  m3[b] = <<n, v>>
    <2>1. v \in Writes(f) /\ v \in Values /\ o[v] # 0
        BY <1>1, <1>2
    <2>2. /\ b > place[v][1] /\ b <= place[v][2]
          /\ b > rbp + o[v] - Size(v) /\ b <= rbp + o[v]
        BY <1>3, <1>5, <1>7, <2>1
    <2>3. ASSUME NEW w \in DOMAIN place, b > place[w][1] /\ b <= place[w][2], w # v
          PROVE  FALSE
        <3>1. w \in Values /\ o[w] # 0 /\ place[w][1] = rbp + o[w] - Size(w) /\ place[w][2] = rbp + o[w]
            BY <1>2, <1>3, <1>5
        <3>2. o[v] + Size(w) <= o[w] \/ o[w] + Size(v) <= o[v]
            BY <1>2, <2>1, <2>3, <3>1
        <3>3. b \in Nat /\ Size(v) \in Nat /\ Size(w) \in Nat /\ o[v] \in Nat /\ o[w] \in Nat
            BY <1>1, <2>1, <3>1, WordsAndSizes
        <3>4. b > rbp + o[w] - Size(w) /\ b <= rbp + o[w]
            BY <2>3, <3>1
        <3>5. PICK p \in Int, q \in Int : p = o[v] /\ q = o[w]
            BY <3>3
        <3>6. PICK c \in Int, d \in Int : c = Size(v) /\ d = Size(w)
            BY <3>3
        <3>7. b \in Int /\ b <= rbp + p /\ b > rbp + p - c /\ b <= rbp + q /\ b > rbp + q - d
            BY <2>2, <3>3, <3>4, <3>5, <3>6
        <3>8. p + d <= q \/ q + c <= p
            BY <3>2, <3>5, <3>6
        <3> QED
            BY <3>7, <3>8
    <2>4. m3[b] = content[v]
        BY <1>5, <2>1, <2>2, <2>3, WrittenThere
    <2> QED
        BY <1>5, <2>1, <2>4
<1>8. \A b \in Words : b <= rbp => m3[b] = m[b]
    BY <1>4, <1>6
<1> QED
    BY <1>6, <1>7, <1>8 DEF o, m2, m3

-----------------------------------------------------------------------------
(****************************************************************************)
(* The run.                                                                 *)
(****************************************************************************)

Fn(k)   == active[k].fn
Base(k) == active[k].rbp
End(k)  == Base(k) + frames[Fn(k)].reserved

(* Nothing runs before everything is generated; activations are numbered as *)
(* they start.                                                              *)
CallsInOrder ==
    /\ active # <<>> \/ calls # 0 => ~ Generating
    /\ \A k \in 1 .. Len(active) : active[k].id <= calls /\ Base(k) >= 16
    /\ \A j, k \in 1 .. Len(active) : j < k => active[j].id < active[k].id
    /\ \E z \in Int : rsp = 8 * z

(* Each frame lies on the arguments and links above the one before, and     *)
(* %rsp is at the end of the last.                                          *)
FramesLinked ==
    /\ active = <<>> => rsp = 0
    /\ active # <<>> => rsp = End(Len(active)) /\ Base(1) = BytesPushed(Fn(1)) + 16
    /\ \A k \in 2 .. Len(active) : Base(k) = End(k - 1) + BytesPushed(Fn(k)) + 16
    /\ \A j, k \in 1 .. Len(active) : j < k => End(j) <= Base(k) - 16

BasesAligned ==
    \A k \in 1 .. Len(active) :
        (\A j \in 1 .. k : Cardinality(Pushed(Fn(j))) % 2 = 0) => SixteenFold(Base(k))

AllIntact == \A k \in 1 .. Len(active) : Intact(memory, active[k])

RunInv ==
    /\ LayoutInv /\ TypeOK /\ CallsInOrder
    /\ ~ strayed => FramesLinked /\ BasesAligned /\ AllIntact
    /\ RegisterArgumentsArrive /\ ReturnsHome

(* When the code runs every frame is complete.                              *)
LEMMA AllComplete ==
    ASSUME LayoutInv, ~ Generating, NEW f \in 1 .. Len(Functions)
    PROVE  Complete(f) /\ frames[f] \in Frame
<1>1. GenTypeOK /\ FramesComplete /\ OneFrameEach
    BY DEF LayoutInv, Inv
<1>2. Len(Functions) \in Nat /\ at = Len(Functions) + 1 /\ Len(frames) \in Nat
    BY <1>1, StackAssumption DEF GenTypeOK, Generating
<1>3. f \in 1 .. at - 1 /\ phase \in {"args", "blocks", "ends"} /\ frames \in Seq(Frame)
    BY <1>1, <1>2 DEF GenTypeOK
<1>4. Len(frames) = at - 1
    BY <1>1, <1>2, <1>3 DEF OneFrameEach
<1> QED
    BY <1>1, <1>3, <1>4 DEF FramesComplete

(* The types of the calls in progress.                                      *)
LEMMA ActiveTyped ==
    ASSUME TypeOK, NEW k \in 1 .. Len(active)
    PROVE  /\ active \in Seq([fn : 1 .. Len(Functions), id : 1 .. MaxCalls, rbp : Quads])
           /\ Len(active) \in Nat
           /\ Fn(k) \in 1 .. Len(Functions) /\ Base(k) \in Quads /\ Base(k) \in Nat
           /\ active[k].id \in 1 .. MaxCalls
<1>0. active \in Seq([fn : 1 .. Len(Functions), id : 1 .. MaxCalls, rbp : Quads])
    BY DEF TypeOK
<1>1. active[k] \in [fn : 1 .. Len(Functions), id : 1 .. MaxCalls, rbp : Quads]
    <2> DEFINE C == [fn : 1 .. Len(Functions), id : 1 .. MaxCalls, rbp : Quads]
    <2> HIDE DEF C
    <2>1. active \in Seq(C)
        BY <1>0 DEF C
    <2>2. active[k] \in C
        BY <2>1
    <2> QED
        BY <2>2 DEF C
<1>4. Len(active) \in Nat
    BY <1>0
<1>2. Quads \subseteq Nat
    BY StackAssumption DEF Quads
<1>3. Fn(k) \in 1 .. Len(Functions) /\ Base(k) \in Quads /\ active[k].id \in 1 .. MaxCalls
    BY <1>1 DEF Fn, Base
<1>5. Base(k) \in Nat
    BY <1>2, <1>3
<1> QED
    BY <1>0, <1>3, <1>4, <1>5

(* A frame that is not written to stays intact.                             *)
LEMMA IntactStays ==
    ASSUME NEW m, NEW n, NEW a, Intact(m, a), NEW top \in Nat,
           \A b \in Words : b <= top => n[b] = m[b],
           a.fn \in 1 .. Len(Functions), a.rbp \in Quads, a.rbp >= 16, LayoutInv, ~ Generating,
           a.rbp + frames[a.fn].reserved <= top, top <= MaxByte
    PROVE  Intact(n, a)
<1> DEFINE o == frames[a.fn].offset
<1>1. Complete(a.fn) /\ frames[a.fn] \in Frame
    BY AllComplete
<1>2. /\ \A v \in Locals[a.fn] : v \in Values /\ o[v] \in Nat /\ o[v] <= frames[a.fn].reserved
      /\ frames[a.fn].reserved \in Nat
    BY <1>1, FunctionsAssumption DEF Complete, Frame
<1>3. Words \subseteq Nat
    BY WordsAndSizes
<1>4. a.rbp \in Words /\ a.rbp - 8 \in Words /\ a.rbp \in Nat
    <2>1. PICK z \in 0 .. MaxByte \div 8 : a.rbp = 8 * z
        BY DEF Quads
    <2>2. a.rbp = 4 * (2 * z) /\ a.rbp - 8 = 4 * (2 * z - 2)
        BY <2>1
    <2>3. 2 * z \in 1 .. MaxByte \div 4 /\ 2 * z - 2 \in 1 .. MaxByte \div 4
        BY <2>1, WordsAndSizes
    <2>4. a.rbp \in Nat
        BY <2>1, WordsAndSizes
    <2> QED
        BY <2>2, <2>3, <2>4 DEF Words
<1>5. n[a.rbp] = m[a.rbp] /\ n[a.rbp - 8] = m[a.rbp - 8]
    BY <1>2, <1>4
<1>6. ASSUME NEW v \in Locals[a.fn], NEW b \in Words,
             b > Slot(a.fn, v, a.rbp)[1] /\ b <= Slot(a.fn, v, a.rbp)[2]
      PROVE  n[b] = <<a.id, v>>
    <2>0. o[v] \in Nat /\ Size(v) \in Nat
        BY <1>2, WordsAndSizes
    <2>4. b <= a.rbp + o[v]
        BY <1>4, <1>6, <2>0 DEF Slot
    <2>1. b <= top
        <3> DEFINE r == a.rbp
                   s == frames[a.fn].reserved
                   x == o[v]
        <3>1. r \in Nat /\ s \in Nat /\ x \in Nat /\ b \in Nat /\ b <= r + x /\ x <= s /\ r + s <= top
            BY <1>2, <1>3, <1>4, <2>0, <2>4
        <3> HIDE DEF r, s, x
        <3> QED
            BY <3>1
    <2>2. n[b] = m[b]
        BY <2>1
    <2>3. m[b] = <<a.id, v>>
        BY <1>6 DEF Intact
    <2> QED
        BY <2>2, <2>3
<1>7. m[a.rbp] = <<a.id, "rbp">> /\ m[a.rbp - 8] = <<a.id, "ret">>
    BY DEF Intact
<1> QED
    BY <1>5, <1>6, <1>7 DEF Intact

(* What is intact is so in the next state too, of the same memory.          *)
LEMMA IntactNext ==
    ASSUME frames' = frames
    PROVE  \A m, c : Intact(m, c)' <=> Intact(m, c)
BY DEF Intact, Slot

(* A call keeps the invariant.                                              *)
LEMMA EnterStep ==
    ASSUME RunInv, ~ Generating, ~ lost, NEW f \in 1 .. Len(Functions), NEW n, n = calls + 1,
           n \in 1 .. MaxCalls, NEW top, active = <<>> => top = 0, active # <<>> => top = rsp,
           Enter(f, n, top, memory), UNCHANGED genVars
    PROVE  RunInv'
<1> DEFINE rbp == top + BytesPushed(f) + 16
           res == frames[f].reserved
           m0  == WithArguments(memory, f, n, top)
           m1  == WithLinks(m0, n, rbp - 16)
           m3  == WithLocals(WithParameters(m1, f, n, rbp), f, n, rbp)
           a   == [fn |-> f, id |-> n, rbp |-> rbp]
           L   == Len(active)
<1>0. /\ LayoutInv /\ TypeOK /\ CallsInOrder
      /\ ~ strayed => FramesLinked /\ BasesAligned /\ AllIntact
      /\ LayoutInv'
    <2>1. LayoutInv'
        BY LayoutStep DEF RunInv
    <2> QED
        BY <2>1 DEF RunInv
<1>1. /\ top >= 0 /\ rbp + res <= MaxByte
      /\ memory' = m3
      /\ active' = Append(active, a)
      /\ rsp' = rbp + res
      /\ passed' = {Params[f][i] : i \in {j \in 1 .. Len(Params[f]) :
                       ArgumentFound(m1, f, n, j, rbp) = <<n, Params[f][j]>>}}
      /\ calls' = n /\ strayed' = strayed /\ lost' = lost
    BY DEF Enter
<1>2. Complete(f) /\ frames[f] \in Frame /\ res \in Nat /\ SixteenFold(res)
    BY <1>0, AllComplete DEF Complete, Frame
<1>3. /\ top \in Nat /\ \E z \in Nat : top = 8 * z
      /\ \E z \in Nat : BytesPushed(f) = 8 * z
    <2>1. PICK z \in Int : rsp = 8 * z
        BY <1>0 DEF CallsInOrder
    <2>2. CASE active = <<>>
        <3>1. top = 8 * 0
            BY <2>2
        <3> QED
            BY <3>1, CountsFinite
    <2>3. CASE active # <<>>
        <3>1. top = 8 * z /\ z >= 0
            BY <1>1, <2>1, <2>3
        <3>2. z \in Nat /\ top \in Nat
            BY <3>1
        <3>3. \E y \in Nat : BytesPushed(f) = 8 * y
            BY CountsFinite
        <3> QED
            BY <3>1, <3>2, <3>3
    <2> QED
        BY <2>2, <2>3
<1>4. /\ rbp \in Nat /\ top + 16 <= rbp /\ rbp - 16 \in Nat /\ top <= rbp - 16
      /\ \E z \in Nat : rbp - 16 = 8 * z
      /\ MaxByte \in Nat /\ rbp <= MaxByte /\ rbp - 16 + 16 = rbp /\ rbp - 16 + 8 = rbp - 8
    <2>1. PICK x \in Nat : top = 8 * x
        BY <1>3
    <2>2. PICK y \in Nat : BytesPushed(f) = 8 * y
        BY <1>3
    <2>3. rbp - 16 = 8 * (x + y) /\ x + y \in Nat
        BY <2>1, <2>2
    <2>4. \E z \in Nat : rbp - 16 = 8 * z
        <3> HIDE DEF rbp
        <3> QED
            BY <2>3
    <2>5. rbp \in Nat /\ top + 16 <= rbp /\ top \in Nat
        BY <2>1, <2>2
    <2>6. res \in Nat /\ rbp + res <= MaxByte
        BY <1>1, <1>2
    <2> HIDE DEF rbp, res
    <2> QED
        BY <2>4, <2>5, <2>6, WordsAndSizes
<1>5. memory \in [Words -> Contents] /\ calls \in Nat /\ strayed \in BOOLEAN /\ lost \in BOOLEAN
      /\ active \in Seq([fn : 1 .. Len(Functions), id : 1 .. MaxCalls, rbp : Quads])
      /\ L \in Nat
    BY <1>0 DEF TypeOK
<1> HIDE DEF rbp, res
<1>6. /\ m0 \in [Words -> Contents]
      /\ \A b \in Words : b <= top => m0[b] = memory[b]
    BY <1>3, <1>5, ArgumentsMemory
<1> HIDE DEF m0
<1>7. /\ m1 \in [Words -> Contents]
      /\ \A b \in Words : b <= rbp - 16 => m1[b] = m0[b]
      /\ rbp \in Words /\ m1[rbp] = <<n, "rbp">>
      /\ rbp - 8 \in Words /\ m1[rbp - 8] = <<n, "ret">>
      /\ rbp \in Quads
    <2>1. PICK z \in Nat : rbp - 16 = 8 * z
        BY <1>4
    <2> DEFINE t == rbp - 16
    <2>2. t \in Nat /\ t = 8 * z /\ t + 16 <= MaxByte /\ t + 16 = rbp /\ t + 8 = rbp - 8
        BY <1>4, <2>1
    <2> HIDE DEF t
    <2>3. /\ WithLinks(m0, n, t) \in [Words -> Contents]
          /\ \A b \in Words : b <= t => WithLinks(m0, n, t)[b] = m0[b]
          /\ t + 16 \in Words /\ WithLinks(m0, n, t)[t + 16] = <<n, "rbp">>
          /\ t + 8 \in Words /\ WithLinks(m0, n, t)[t + 8] = <<n, "ret">>
          /\ t + 16 \in Quads
        BY <1>6, <2>2, LinksMemory
    <2> QED
        BY <2>2, <2>3 DEF t
<1> HIDE DEF m1
<1>8. /\ m3 \in [Words -> Contents]
      /\ \A b \in Words : b <= rbp => m3[b] = m1[b]
      /\ \A v \in Locals[f], b \in Words :
            b > Slot(f, v, rbp)[1] /\ b <= Slot(f, v, rbp)[2] => m3[b] = <<n, v>>
    BY <1>2, <1>4, <1>7, FrameMemory
<1> HIDE DEF m3
<1>9. Intact(m3, a) /\ \A b \in Words : b <= top => m3[b] = memory[b]
    <2>0. rbp <= rbp /\ rbp - 8 <= rbp
        BY <1>4
    <2>1. m3[rbp] = <<n, "rbp">> /\ m3[rbp - 8] = <<n, "ret">>
        BY <1>7, <1>8, <2>0
    <2>2. ASSUME NEW b \in Words, b <= top PROVE m3[b] = memory[b]
        <3>1. b <= rbp - 16 /\ b <= rbp
            BY <1>3, <1>4, <2>2, WordsAndSizes
        <3> QED
            BY <1>6, <1>7, <1>8, <2>2, <3>1
    <2>3. a.fn = f /\ a.id = n /\ a.rbp = rbp
        OBVIOUS
    <2> HIDE DEF a
    <2> QED
        BY <1>8, <2>1, <2>2, <2>3 DEF Intact
<1>10. /\ Len(active') = L + 1
       /\ active'[L + 1] = a
       /\ \A k \in 1 .. L : active'[k] = active[k]
       /\ active' \in Seq([fn : 1 .. Len(Functions), id : 1 .. MaxCalls, rbp : Quads])
       /\ active' # <<>>
       /\ a.fn = f /\ a.id = n /\ a.rbp = rbp
       /\ frames' = frames /\ at' = at
    <2>1. a \in [fn : 1 .. Len(Functions), id : 1 .. MaxCalls, rbp : Quads]
        BY <1>7
    <2>2. a.fn = f /\ a.id = n /\ a.rbp = rbp
        OBVIOUS
    <2> HIDE DEF a
    <2> QED
        BY <1>1, <1>5, <2>1, <2>2 DEF genVars
<1> HIDE DEF a
<1>11. TypeOK'
    <2>1. passed' \in SUBSET Values
        BY <1>1, FunctionsAssumption
    <2>2. rsp' \in Int
        BY <1>1, <1>2, <1>4
    <2>3. GenTypeOK'
        BY <1>0 DEF LayoutInv, Inv
    <2>4. calls' \in 0 .. MaxCalls
        BY <1>1, StackAssumption
    <2> QED
        BY <1>1, <1>5, <1>8, <1>10, <2>1, <2>2, <2>3, <2>4 DEF TypeOK
<1>12. /\ active'[L + 1].fn = f /\ active'[L + 1].rbp = rbp
       /\ \A k \in 1 .. L : active'[k].fn = Fn(k) /\ active'[k].rbp = Base(k)
    BY <1>10 DEF Fn, Base
<1>13. \A k \in 1 .. L : /\ Fn(k) \in 1 .. Len(Functions) /\ Base(k) \in Nat /\ Base(k) \in Quads
                         /\ Base(k) >= 16 /\ active[k].id \in Nat /\ active[k].id <= calls
                         /\ End(k) \in Nat /\ Base(k) <= End(k)
    <2> TAKE k \in 1 .. L
    <2>1. /\ Fn(k) \in 1 .. Len(Functions) /\ Base(k) \in Nat /\ Base(k) \in Quads
          /\ active[k].id \in Nat
        BY <1>0, ActiveTyped
    <2>2. frames[Fn(k)].reserved \in Nat
        BY <1>0, <2>1, AllComplete DEF Frame
    <2>3. Base(k) >= 16 /\ active[k].id <= calls
        BY <1>0 DEF CallsInOrder
    <2>4. End(k) = Base(k) + frames[Fn(k)].reserved
        BY DEF End
    <2> HIDE DEF End
    <2>5. End(k) \in Nat /\ Base(k) <= End(k)
        BY <2>1, <2>2, <2>4
    <2> QED
        BY <2>1, <2>3, <2>5
<1>14. CallsInOrder'
    <2>1. \E z \in Int : rsp' = 8 * z
        <3>1. PICK x \in Nat : rbp - 16 = 8 * x
            BY <1>4
        <3>2. PICK y \in Nat : res = 16 * y
            BY <1>2 DEF SixteenFold
        <3>3. rsp' = 8 * (x + 2 * y + 2) /\ x + 2 * y + 2 \in Int
            BY <1>1, <1>4, <3>1, <3>2
        <3> QED
            BY <3>3
    <2>2. ~ Generating'
        BY <1>10 DEF Generating
    <2>3. \A k \in 1 .. L + 1 : active'[k].id <= calls' /\ active'[k].rbp >= 16
        <3> TAKE k \in 1 .. L + 1
        <3>1. CASE k \in 1 .. L
            <4>1. active'[k].id = active[k].id /\ active'[k].rbp = Base(k)
                BY <1>10, <1>12, <3>1
            <4>2. active[k].id \in Nat /\ active[k].id <= calls /\ Base(k) >= 16 /\ calls' = calls + 1
                BY <1>1, <1>13, <3>1
            <4> QED
                BY <1>5, <4>1, <4>2
        <3>2. CASE k = L + 1
            <4>1. active'[k].id = n /\ active'[k].rbp = rbp /\ calls' = n
                BY <1>1, <1>10, <3>2
            <4> QED
                BY <1>4, <1>5, <4>1
        <3> QED
            BY <1>5, <3>1, <3>2
    <2>4. \A j, k \in 1 .. L + 1 : j < k => active'[j].id < active'[k].id
        <3> SUFFICES ASSUME NEW j \in 1 .. L + 1, NEW k \in 1 .. L + 1, j < k
                     PROVE  active'[j].id < active'[k].id
            OBVIOUS
        <3>1. j \in 1 .. L
            BY <1>5
        <3>2. CASE k \in 1 .. L
            <4>1. active'[j] = active[j] /\ active'[k] = active[k]
                BY <1>10, <3>1, <3>2
            <4>2. active[j].id < active[k].id
                BY <1>0, <3>1, <3>2 DEF CallsInOrder
            <4> QED
                BY <4>1, <4>2
        <3>3. CASE k = L + 1
            <4>1. active'[j].id = active[j].id /\ active'[k].id = calls + 1
                BY <1>10, <3>1, <3>3
            <4>2. active[j].id \in Nat /\ active[j].id <= calls
                BY <1>13, <3>1
            <4> QED
                BY <1>5, <4>1, <4>2
        <3>4. k \in 1 .. L \/ k = L + 1
            <4>1. L \in Nat /\ k \in 1 .. L + 1
                BY <1>5
            <4> HIDE DEF L
            <4> QED
                BY <4>1
        <3> QED
            BY <3>2, <3>3, <3>4
    <2> QED
        BY <1>10, <2>1, <2>2, <2>3, <2>4 DEF CallsInOrder, Base
<1>15. ASSUME ~ strayed PROVE FramesLinked' /\ BasesAligned' /\ AllIntact'
    <2>0. FramesLinked /\ BasesAligned /\ AllIntact
        BY <1>0, <1>15
    <2>1. active # <<>> => L \in 1 .. L /\ top = End(L)
        BY <1>5, <2>0 DEF FramesLinked
    <2>2. \A k \in 1 .. L : End(k) <= top
        <3> TAKE k \in 1 .. L
        <3>1. active # <<>>
            BY <1>5
        <3>2. CASE k = L
            BY <1>13, <2>1, <3>1, <3>2
        <3>3. CASE k # L
            <4>1. k < L
                BY <1>5, <3>3
            <4>2. End(k) <= Base(L) - 16
                BY <2>0, <2>1, <3>1, <4>1 DEF FramesLinked
            <4>3. End(k) \in Nat /\ Base(L) \in Nat /\ End(L) \in Nat /\ Base(L) <= End(L)
                BY <1>13, <2>1, <3>1
            <4> QED
                BY <2>1, <3>1, <4>2, <4>3
        <3> QED
            BY <3>2, <3>3
    <2>3. \A k \in 1 .. L : active'[k].rbp + frames'[active'[k].fn].reserved = End(k)
        BY <1>10, <1>12 DEF End
    <2>4. FramesLinked'
        <3>1. rsp' = active'[L + 1].rbp + frames'[active'[L + 1].fn].reserved
            BY <1>1, <1>10, <1>12 DEF res
        <3>2. active'[1].rbp = BytesPushed(active'[1].fn) + 16
            <4>1. CASE active = <<>>
                <5>1. L = 0 /\ top = 0
                    BY <4>1
                <5>2. active'[1].rbp = rbp /\ active'[1].fn = f
                    BY <1>12, <5>1
                <5>3. rbp = BytesPushed(f) + 16
                    BY <1>3, <5>1 DEF rbp
                <5> QED
                    BY <5>2, <5>3
            <4>2. CASE active # <<>>
                <5>1. 1 \in 1 .. L
                    BY <1>5, <4>2
                <5>2. Base(1) = BytesPushed(Fn(1)) + 16
                    BY <2>0, <4>2 DEF FramesLinked
                <5> QED
                    BY <1>12, <5>1, <5>2
            <4> QED
                BY <4>1, <4>2
        <3>3. \A k \in 2 .. L + 1 :
                  active'[k].rbp = active'[k - 1].rbp + frames'[active'[k - 1].fn].reserved
                                     + BytesPushed(active'[k].fn) + 16
            <4> TAKE k \in 2 .. L + 1
            <4>1. CASE k \in 2 .. L
                <5>1. k \in 1 .. L /\ k - 1 \in 1 .. L
                    BY <1>5, <4>1
                <5>2. Base(k) = End(k - 1) + BytesPushed(Fn(k)) + 16
                    BY <2>0, <4>1 DEF FramesLinked
                <5> QED
                    BY <1>12, <2>3, <5>1, <5>2
            <4>2. CASE k = L + 1
                <5>1. L \in 1 .. L /\ active # <<>> /\ k - 1 = L
                    BY <1>5, <4>2
                <5>2. active'[k].rbp = End(L) + BytesPushed(f) + 16
                    BY <1>10, <2>1, <4>2, <5>1 DEF rbp
                <5> QED
                    BY <1>10, <2>3, <4>2, <5>1, <5>2
            <4> QED
                BY <1>5, <4>1, <4>2
        <3>4. \A j, k \in 1 .. L + 1 : j < k =>
                  active'[j].rbp + frames'[active'[j].fn].reserved <= active'[k].rbp - 16
            <4> SUFFICES ASSUME NEW j \in 1 .. L + 1, NEW k \in 1 .. L + 1, j < k
                         PROVE  active'[j].rbp + frames'[active'[j].fn].reserved
                                    <= active'[k].rbp - 16
                OBVIOUS
            <4>1. j \in 1 .. L
                BY <1>5
            <4>2. CASE k \in 1 .. L
                <5>1. End(j) <= Base(k) - 16
                    BY <2>0, <4>1, <4>2 DEF FramesLinked
                <5> QED
                    BY <1>12, <2>3, <4>1, <4>2, <5>1
            <4>3. CASE k = L + 1
                <5>1. End(j) <= rbp - 16
                    <6>1. End(j) \in Nat /\ End(j) <= top
                        BY <1>13, <2>2, <4>1
                    <6>2. top \in Nat /\ BytesPushed(f) \in Nat
                        BY <1>3
                    <6>3. rbp - 16 = top + BytesPushed(f)
                        BY <6>2 DEF rbp
                    <6> QED
                        BY <6>1, <6>2, <6>3
                <5> QED
                    BY <1>10, <2>3, <4>1, <4>3, <5>1
            <4> QED
                BY <1>5, <4>2, <4>3
        <3>5. Len(active') = L + 1 /\ active' # <<>>
            BY <1>10
        <3> HIDE DEF L
        <3> QED
            BY <3>1, <3>2, <3>3, <3>4, <3>5 DEF FramesLinked, End, Base, Fn
    <2>5. BasesAligned'
        <3> SUFFICES ASSUME NEW k \in 1 .. L + 1,
                            \A j \in 1 .. k : Cardinality(Pushed(active'[j].fn)) % 2 = 0
                     PROVE  SixteenFold(active'[k].rbp)
            BY <1>10 DEF BasesAligned, Base, Fn
        <3>1. CASE k \in 1 .. L
            <4>1. \A j \in 1 .. k : j \in 1 .. L
                BY <1>5, <3>1
            <4>2. \A j \in 1 .. k : Cardinality(Pushed(Fn(j))) % 2 = 0
                BY <1>12, <4>1
            <4> QED
                BY <1>12, <2>0, <3>1, <4>2 DEF BasesAligned
        <3>2. CASE k = L + 1
            <4>1. Cardinality(Pushed(f)) % 2 = 0
                BY <1>10, <3>2
            <4>2. PICK y \in Nat : BytesPushed(f) = 16 * y
                <5>1. Pushed(f) \in SUBSET (1 .. Len(Params[f]))
                    BY DEF Pushed
                <5>2. Cardinality(Pushed(f)) \in Nat
                    BY <5>1, CountsFinite
                <5>3. BytesPushed(f) = 16 * (Cardinality(Pushed(f)) \div 2)
                    BY <4>1, <5>2 DEF BytesPushed
                <5> QED
                    BY <5>2, <5>3
            <4>3. PICK x \in Nat : top = 16 * x
                <5>1. CASE active = <<>>
                    <6>1. top = 16 * 0
                        BY <5>1
                    <6> QED
                        BY <6>1
                <5>2. CASE active # <<>>
                    <6>1. L \in 1 .. L /\ top = End(L)
                        BY <2>1, <5>2
                    <6>2. \A j \in 1 .. L : Cardinality(Pushed(Fn(j))) % 2 = 0
                        <7> TAKE j \in 1 .. L
                        <7>1. j \in 1 .. k /\ active'[j].fn = Fn(j)
                            BY <1>5, <1>12, <3>2
                        <7> QED
                            BY <7>1
                    <6>3. SixteenFold(Base(L))
                        BY <2>0, <6>1, <6>2 DEF BasesAligned
                    <6>4. SixteenFold(frames[Fn(L)].reserved)
                        BY <1>0, <1>13, <6>1, AllComplete DEF Complete
                    <6>5. PICK u \in Nat : Base(L) = 16 * u
                        BY <6>3 DEF SixteenFold
                    <6>6. PICK w \in Nat : frames[Fn(L)].reserved = 16 * w
                        BY <6>4 DEF SixteenFold
                    <6>7. top = 16 * (u + w) /\ u + w \in Nat
                        BY <6>1, <6>5, <6>6 DEF End
                    <6> QED
                        BY <6>7
                <5> QED
                    BY <5>1, <5>2
            <4>4. rbp = 16 * (x + y + 1)
                BY <4>2, <4>3 DEF rbp
            <4>5. x + y + 1 \in Nat
                OBVIOUS
            <4>6. active'[k].rbp = rbp
                BY <1>10, <3>2
            <4> QED
                BY <4>4, <4>5, <4>6 DEF SixteenFold
        <3> QED
            BY <1>5, <3>1, <3>2
    <2>6. AllIntact'
        <3>0. memory' = m3 /\ frames' = frames /\ Len(active') = L + 1
            BY <1>1, <1>10
        <3> SUFFICES ASSUME NEW k \in 1 .. L + 1 PROVE Intact(m3, active'[k])
            BY <3>0, IntactNext DEF AllIntact
        <3>1. CASE k = L + 1
            BY <1>9, <1>10, <3>1
        <3>2. CASE k \in 1 .. L
            <4>1. Intact(memory, active[k])
                BY <2>0, <3>2 DEF AllIntact
            <4>2. Fn(k) \in 1 .. Len(Functions) /\ Base(k) \in Quads /\ Base(k) >= 16 /\ End(k) <= top
                BY <1>13, <2>2, <3>2
            <4>3. top <= MaxByte
                BY <1>3, <1>4
            <4>4. Intact(m3, active[k])
                BY <1>0, <1>3, <1>9, <4>1, <4>2, <4>3, IntactStays DEF Fn, Base, End
            <4> QED
                BY <1>10, <3>2, <4>4
        <3> QED
            BY <1>5, <3>1, <3>2
    <2> QED
        BY <2>4, <2>5, <2>6
<1>16. RegisterArgumentsArrive'
    <2>1. Last(active') = a
        BY <1>10 DEF Last
    <2> SUFFICES ASSUME Pushed(f) = {} PROVE passed' = ToSet(Params[f])
        BY <1>10, <2>1 DEF RegisterArgumentsArrive, ArgumentsArrive
    <2>2. \A j \in 1 .. Len(Params[f]) : ArgumentFound(m1, f, n, j, rbp) = <<n, Params[f][j]>>
        BY AllArrive
    <2>3. passed' = {Params[f][i] : i \in 1 .. Len(Params[f])}
        BY <1>1, <2>2
    <2>4. DOMAIN Params[f] = 1 .. Len(Params[f])
        BY FunctionsAssumption
    <2> QED
        BY <2>3, <2>4 DEF ToSet
<1>17. ReturnsHome'
    BY <1>1 DEF ReturnsHome
<1> QED
    BY <1>0, <1>1, <1>11, <1>14, <1>15, <1>16, <1>17 DEF RunInv

(* What is left of a sequence without its last element.                     *)
LEMMA LastDropped ==
    ASSUME NEW D, NEW s \in Seq(D), Len(s) \in Nat \ {0}
    PROVE  LET t == SubSeq(s, 1, Len(s) - 1)
           IN  t \in Seq(D) /\ Len(t) = Len(s) - 1 /\ \A k \in 1 .. Len(s) - 1 : t[k] = s[k]
<1> DEFINE m == Len(s) - 1
           t == SubSeq(s, 1, m)
<1>1. m \in Nat /\ m \in Int /\ 1 \in Int
    OBVIOUS
<1>2. \A i \in 1 .. m : s[i] \in D
    <2> TAKE i \in 1 .. m
    <2>1. i \in 1 .. Len(s)
        OBVIOUS
    <2> QED
        BY <2>1
<1> HIDE DEF m
<1>3. /\ t \in Seq(D)
      /\ Len(t) = IF 1 <= m THEN m - 1 + 1 ELSE 0
      /\ \A i \in 1 .. m - 1 + 1 : t[i] = s[1 + i - 1]
    BY ONLY <1>1, <1>2, SubSeqProperties
<1>4. Len(t) = m /\ \A k \in 1 .. m : t[k] = s[k]
    BY <1>1, <1>3
<1> QED
    BY <1>3, <1>4 DEF m

(* A return keeps the invariant.                                            *)
LEMMA ReturnStep ==
    ASSUME RunInv, Return
    PROVE  RunInv'
<1> DEFINE L == Len(active)
           f == Fn(L)
           res == frames[f].reserved
<1>0. /\ LayoutInv /\ TypeOK /\ CallsInOrder
      /\ ~ strayed => FramesLinked /\ BasesAligned /\ AllIntact
      /\ LayoutInv'
    <2>1. LayoutInv'
        BY LayoutStep DEF RunInv, Return
    <2> QED
        BY <2>1 DEF RunInv
<1>1. /\ ~ lost /\ active # <<>> /\ UNCHANGED <<memory, calls, at, frames>>
      /\ passed' = {} /\ active' = Front(active)
      /\ strayed' = (strayed \/ Popped(f) # BytesPushed(f))
    BY DEF Return, Running, Last, Fn, genVars
<1>2. PICK s \in frames[f].freed :
          /\ lost' = ~ (/\ Read(memory, rsp - s) = <<active[L].id, "rbp">>
                        /\ Read(memory, rsp - s - 8) = <<active[L].id, "ret">>)
          /\ rsp' = rsp - s - 16 - Popped(f)
    BY DEF Return, Last, Fn
<1>3. active \in Seq([fn : 1 .. Len(Functions), id : 1 .. MaxCalls, rbp : Quads]) /\ L \in Nat \ {0}
      /\ calls \in Nat /\ strayed \in BOOLEAN /\ memory \in [Words -> Contents]
    <2> DEFINE C == [fn : 1 .. Len(Functions), id : 1 .. MaxCalls, rbp : Quads]
    <2>1. active \in Seq(C) /\ calls \in Nat /\ strayed \in BOOLEAN /\ memory \in [Words -> Contents]
        BY <1>0 DEF TypeOK
    <2> HIDE DEF C
    <2>2. L \in Nat \ {0}
        BY <1>1, <2>1
    <2> QED
        BY <2>1, <2>2 DEF C
<1>4. \A k \in 1 .. L : /\ Fn(k) \in 1 .. Len(Functions) /\ Base(k) \in Nat /\ Base(k) \in Quads
                        /\ Base(k) >= 16 /\ active[k].id \in Nat /\ active[k].id <= calls
    BY <1>0, ActiveTyped DEF CallsInOrder
<1>5. /\ Len(active') = L - 1
      /\ \A k \in 1 .. L - 1 : active'[k] = active[k]
      /\ active' \in Seq([fn : 1 .. Len(Functions), id : 1 .. MaxCalls, rbp : Quads])
    <2> DEFINE C == [fn : 1 .. Len(Functions), id : 1 .. MaxCalls, rbp : Quads]
    <2>1. active \in Seq(C) /\ active' = SubSeq(active, 1, L - 1)
        BY <1>1, <1>3 DEF Front
    <2> HIDE DEF C
    <2>2. active' \in Seq(C) /\ Len(active') = L - 1 /\ \A k \in 1 .. L - 1 : active'[k] = active[k]
        BY ONLY <1>3, <2>1, LastDropped DEF L
    <2> QED
        BY <2>2 DEF C
<1>6. ~ Generating /\ f \in 1 .. Len(Functions) /\ L \in 1 .. L
    BY <1>0, <1>1, <1>3, <1>4 DEF CallsInOrder
<1>7. Complete(f) /\ res \in Nat /\ SixteenFold(res) /\ s = res
    BY <1>0, <1>2, <1>6, AllComplete DEF Complete, Frame
<1> HIDE DEF L, f, res
<1>8. PICK z \in Int, x \in Nat, y \in Nat, w \in Nat :
          rsp = 8 * z /\ res = 16 * x /\ Popped(f) = 8 * y /\ BytesPushed(f) = 8 * w
    <2>1. PICK z \in Int : rsp = 8 * z
        BY <1>0 DEF CallsInOrder
    <2>2. PICK x \in Nat : res = 16 * x
        BY <1>7 DEF SixteenFold
    <2> QED
        BY <1>6, <2>1, <2>2, CountsFinite
<1>9. /\ rsp' = rsp - res - 16 - Popped(f) /\ rsp' \in Int
      /\ z - 2 * x - 2 - y \in Int /\ rsp' = 8 * (z - 2 * x - 2 - y)
    BY <1>2, <1>7, <1>8
<1>10. TypeOK'
    <2>1. GenTypeOK'
        BY <1>0 DEF LayoutInv, Inv
    <2>2. calls' \in 0 .. MaxCalls
        BY <1>0, <1>1 DEF TypeOK
    <2>3. lost' \in BOOLEAN /\ strayed' \in BOOLEAN
        BY <1>1, <1>2
    <2> QED
        BY <1>1, <1>3, <1>5, <1>9, <2>1, <2>2, <2>3 DEF TypeOK
<1>11. CallsInOrder'
    <2>1. \E q \in Int : rsp' = 8 * q
        BY <1>9
    <2>2. ~ Generating'
        BY <1>1, <1>6 DEF Generating
    <2>3. \A k \in 1 .. L - 1 : active'[k].id <= calls' /\ active'[k].rbp >= 16
        <3> TAKE k \in 1 .. L - 1
        <3>1. k \in 1 .. L
            BY <1>3
        <3> QED
            BY <1>1, <1>4, <1>5, <3>1 DEF Base
    <2>4. \A j, k \in 1 .. L - 1 : j < k => active'[j].id < active'[k].id
        <3> SUFFICES ASSUME NEW j \in 1 .. L - 1, NEW k \in 1 .. L - 1, j < k
                     PROVE  active'[j].id < active'[k].id
            OBVIOUS
        <3>1. j \in 1 .. L /\ k \in 1 .. L
            BY <1>3
        <3>2. active[j].id < active[k].id
            BY <1>0, <3>1 DEF CallsInOrder, L
        <3> QED
            BY <1>5, <3>2
    <2> QED
        BY <1>5, <2>1, <2>2, <2>3, <2>4 DEF CallsInOrder, Base
<1>12. ASSUME ~ strayed'
       PROVE  FramesLinked' /\ BasesAligned' /\ AllIntact' /\ ~ lost'
    <2>0. FramesLinked /\ BasesAligned /\ AllIntact /\ Popped(f) = BytesPushed(f)
        BY <1>0, <1>1, <1>12
    <2>1. /\ rsp = Base(L) + res
          /\ Base(L) \in Nat /\ Base(1) = BytesPushed(Fn(1)) + 16
          /\ \A k \in 2 .. L : Base(k) = End(k - 1) + BytesPushed(Fn(k)) + 16
          /\ \A j, k \in 1 .. L : j < k => End(j) <= Base(k) - 16
        BY <1>1, <1>4, <1>6, <2>0 DEF FramesLinked, End, L, f, res
    <2>2. rsp' = Base(L) - 16 - BytesPushed(f)
        <3>1. BytesPushed(f) \in Nat /\ res \in Nat
            BY <1>7, <1>8
        <3> QED
            BY <1>9, <2>0, <2>1, <3>1
    <2>3. \A k \in 1 .. L - 1 : k \in 1 .. L /\ active'[k].fn = Fn(k) /\ active'[k].rbp = Base(k)
                                /\ active'[k].rbp + frames'[active'[k].fn].reserved = End(k)
        <3> TAKE k \in 1 .. L - 1
        <3>1. k \in 1 .. L
            BY <1>3
        <3>2. active'[k] = active[k] /\ frames' = frames
            BY <1>1, <1>5
        <3> QED
            BY <3>1, <3>2 DEF Fn, Base, End
    <2>4. FramesLinked'
        <3>1. active' = <<>> => rsp' = 0
            <4> SUFFICES ASSUME active' = <<>> PROVE rsp' = 0
                OBVIOUS
            <4>1. L = 1
                BY <1>3, <1>5
            <4>2. f = Fn(1) /\ Base(L) = BytesPushed(f) + 16
                BY <2>1, <4>1 DEF f
            <4> QED
                BY <1>8, <2>2, <4>2
        <3>2. active' # <<>> =>
                  /\ rsp' = active'[L - 1].rbp + frames'[active'[L - 1].fn].reserved
                  /\ active'[1].rbp = BytesPushed(active'[1].fn) + 16
            <4> SUFFICES ASSUME active' # <<>>
                         PROVE  /\ rsp' = active'[L - 1].rbp + frames'[active'[L - 1].fn].reserved
                                /\ active'[1].rbp = BytesPushed(active'[1].fn) + 16
                OBVIOUS
            <4>1. Len(active') # 0
                BY <1>5
            <4>2. L \in 2 .. L /\ L - 1 \in 1 .. L - 1 /\ 1 \in 1 .. L - 1
                BY <1>3, <1>5, <4>1
            <4>3. Base(L) = End(L - 1) + BytesPushed(f) + 16
                BY <2>1, <4>2 DEF f
            <4>4. End(L - 1) \in Nat
                <5>1. L - 1 \in 1 .. L /\ Fn(L - 1) \in 1 .. Len(Functions) /\ Base(L - 1) \in Nat
                    BY <1>4, <2>3, <4>2
                <5>2. frames[Fn(L - 1)].reserved \in Nat
                    BY <1>0, <1>6, <5>1, AllComplete DEF Frame
                <5> QED
                    BY <5>1, <5>2 DEF End
            <4>5. rsp' = End(L - 1)
                BY <1>8, <2>2, <4>3, <4>4
            <4> QED
                BY <2>1, <2>3, <4>2, <4>5
        <3>3. \A k \in 2 .. L - 1 :
                  active'[k].rbp = active'[k - 1].rbp + frames'[active'[k - 1].fn].reserved
                                     + BytesPushed(active'[k].fn) + 16
            <4> TAKE k \in 2 .. L - 1
            <4>1. k \in 2 .. L /\ k \in 1 .. L - 1 /\ k - 1 \in 1 .. L - 1
                BY <1>3
            <4> QED
                BY <2>1, <2>3, <4>1
        <3>4. \A j, k \in 1 .. L - 1 : j < k =>
                  active'[j].rbp + frames'[active'[j].fn].reserved <= active'[k].rbp - 16
            BY <2>1, <2>3
        <3> QED
            BY <1>5, <3>1, <3>2, <3>3, <3>4 DEF FramesLinked, End, Base, Fn
    <2>5. BasesAligned'
        <3> SUFFICES ASSUME NEW k \in 1 .. L - 1,
                            \A j \in 1 .. k : Cardinality(Pushed(active'[j].fn)) % 2 = 0
                     PROVE  SixteenFold(active'[k].rbp)
            BY <1>5 DEF BasesAligned, Base, Fn
        <3>1. \A j \in 1 .. k : j \in 1 .. L - 1
            BY <1>3
        <3>2. \A j \in 1 .. k : Cardinality(Pushed(Fn(j))) % 2 = 0
            BY <2>3, <3>1
        <3> QED
            BY <2>0, <2>3, <3>2 DEF BasesAligned, L
    <2>6. AllIntact'
        <3>0. memory' = memory /\ frames' = frames /\ Len(active') = L - 1
            BY <1>1, <1>5
        <3> SUFFICES ASSUME NEW k \in 1 .. L - 1 PROVE Intact(memory, active'[k])
            BY <3>0, IntactNext DEF AllIntact
        <3> QED
            BY <1>5, <2>0, <2>3 DEF AllIntact, L
    <2>7. ~ lost'
        <3> DEFINE a == active[L]
        <3>1. Intact(memory, a) /\ a.rbp = Base(L) /\ Base(L) \in Quads /\ Base(L) >= 16
            BY <1>4, <1>6, <2>0 DEF AllIntact, Base, L
        <3>2. Base(L) \in Words /\ Base(L) - 8 \in Words
            <4>1. PICK q \in 0 .. MaxByte \div 8 : Base(L) = 8 * q
                BY <3>1 DEF Quads
            <4>2. Base(L) = 4 * (2 * q) /\ Base(L) - 8 = 4 * (2 * q - 2)
                BY <4>1
            <4>3. 2 * q \in 1 .. MaxByte \div 4 /\ 2 * q - 2 \in 1 .. MaxByte \div 4
                BY <3>1, <4>1, WordsAndSizes
            <4> QED
                BY <4>2, <4>3 DEF Words
        <3>3. memory[Base(L)] = <<a.id, "rbp">> /\ memory[Base(L) - 8] = <<a.id, "ret">>
            BY <3>1 DEF Intact
        <3>4. rsp - s = Base(L) /\ rsp - s - 8 = Base(L) - 8
            BY <1>7, <2>1
        <3> QED
            BY <1>2, <3>2, <3>3, <3>4 DEF Read
    <2> QED
        BY <2>4, <2>5, <2>6, <2>7
<1>13. RegisterArgumentsArrive'
    <2> SUFFICES ASSUME active' # <<>> PROVE calls' # Last(active').id
        BY DEF RegisterArgumentsArrive, ArgumentsArrive
    <2>1. Len(active') # 0
        BY <1>5
    <2>2. L - 1 \in 1 .. L - 1 /\ L - 1 \in 1 .. L /\ L \in 1 .. L /\ L - 1 < L
        BY <1>3, <1>5, <2>1
    <2>3. Last(active') = active[L - 1]
        BY <1>5, <2>2 DEF Last
    <2>4. active[L - 1].id < active[L].id /\ active[L].id <= calls
        BY <1>0, <1>4, <2>2 DEF CallsInOrder, L
    <2>5. active[L - 1].id \in Nat /\ active[L].id \in Nat
        BY <1>4, <2>2
    <2>6. calls' = calls /\ calls \in Nat
        BY <1>1, <1>3
    <2>7. \A i, j \in Nat : i < j /\ j <= calls => i # calls
        BY <2>6
    <2> QED
        BY <2>3, <2>4, <2>5, <2>6, <2>7
<1>14. ReturnsHome'
    BY <1>1, <1>12 DEF ReturnsHome
<1> QED
    BY <1>0, <1>10, <1>11, <1>12, <1>13, <1>14 DEF RunInv

(* Generating code keeps it, as nothing runs yet.                           *)
LEMMA GenerateStep ==
    ASSUME RunInv, Generate, UNCHANGED runVars
    PROVE  RunInv'
<1>1. LayoutInv' /\ TypeOK /\ CallsInOrder
    BY LayoutStep DEF RunInv
<1>2. UNCHANGED <<rsp, active, memory, calls, passed, strayed, lost>> /\ Generating
    BY DEF runVars, Generate, MoveParam, StartBlocks, Request, EndBlocks, EmitReturn,
           EmitPlainReturn, NextFunction
<1>3. active = <<>> /\ calls = 0
    BY <1>1, <1>2 DEF CallsInOrder
<1>4. TypeOK'
    BY <1>1, <1>2 DEF TypeOK, LayoutInv, Inv
<1>5. CallsInOrder'
    BY <1>1, <1>2, <1>3 DEF CallsInOrder
<1>6. ~ strayed' => FramesLinked' /\ BasesAligned' /\ AllIntact'
    BY <1>2, <1>3 DEF RunInv, FramesLinked, BasesAligned, AllIntact
<1>7. RegisterArgumentsArrive' /\ ReturnsHome'
    BY <1>2, <1>3 DEF RunInv, RegisterArgumentsArrive, ReturnsHome
<1> QED
    BY <1>1, <1>4, <1>5, <1>6, <1>7 DEF RunInv

(* RunInv holds at every step of the generation and of the execution, for   *)
(* all functions, parameters and values and every sequence of calls.        *)
THEOREM RunInvariant == Spec => []RunInv
<1>1. Init => RunInv
    <2> SUFFICES ASSUME Init PROVE RunInv
        OBVIOUS
    <2>1. LayoutInv /\ GenTypeOK
        BY LayoutInit DEF Init, LayoutInv, Inv
    <2>2. /\ active = <<>> /\ calls = 0 /\ rsp = 8 * 0 /\ passed = {} /\ strayed = FALSE /\ lost = FALSE
          /\ memory \in [Words -> Contents]
        BY DEF Init, Contents
    <2>3. TypeOK
        <3>1. rsp \in Int /\ calls \in 0 .. MaxCalls
            BY <2>2, StackAssumption
        <3>2. strayed \in BOOLEAN /\ lost \in BOOLEAN /\ passed \in SUBSET Values
            BY <2>2
        <3>3. active \in Seq([fn : 1 .. Len(Functions), id : 1 .. MaxCalls, rbp : Quads])
            BY <2>2
        <3> QED
            BY <2>1, <2>2, <3>1, <3>2, <3>3 DEF TypeOK
    <2>4. CallsInOrder
        BY <2>2 DEF CallsInOrder
    <2>5. FramesLinked /\ BasesAligned /\ AllIntact
        BY <2>2 DEF FramesLinked, BasesAligned, AllIntact
    <2>6. RegisterArgumentsArrive /\ ReturnsHome
        BY <2>2 DEF RegisterArgumentsArrive, ReturnsHome
    <2> QED
        BY <2>1, <2>3, <2>4, <2>5, <2>6 DEF RunInv
<1>2. RunInv /\ [Next]_vars => RunInv'
    <2> SUFFICES ASSUME RunInv, [Next]_vars PROVE RunInv'
        OBVIOUS
    <2>0. Running => ~ Generating /\ ~ lost
        <3>1. at \in Nat /\ Len(Functions) \in Nat
            BY StackAssumption DEF RunInv, TypeOK, GenTypeOK
        <3> QED
            BY <3>1 DEF Running, Generating
    <2>1. CASE Generate /\ UNCHANGED runVars
        BY <2>1, GenerateStep
    <2>2. CASE StartMain
        <3>1. 1 \in 1 .. Len(Functions) /\ 1 \in 1 .. MaxCalls
            BY StackAssumption
        <3>2. active = <<>> /\ 1 = calls + 1 /\ Enter(1, 1, 0, memory) /\ UNCHANGED genVars /\ Running
            BY <2>2 DEF StartMain
        <3> QED
            BY <2>0, <3>1, <3>2, EnterStep
    <2>3. CASE Call
        <3>1. PICK f \in 2 .. Len(Functions) : Enter(f, calls + 1, rsp, memory)
            BY <2>3 DEF Call
        <3>2. active # <<>> /\ calls < MaxCalls /\ UNCHANGED genVars /\ Running
            BY <2>3 DEF Call
        <3>3. f \in 1 .. Len(Functions) /\ calls + 1 \in 1 .. MaxCalls
            BY <3>2, StackAssumption DEF RunInv, TypeOK
        <3> QED
            BY <2>0, <3>1, <3>2, <3>3, EnterStep
    <2>4. CASE Return
        BY <2>4, ReturnStep
    <2>5. CASE UNCHANGED vars
        <3>1. UNCHANGED genVars /\ UNCHANGED <<rsp, active, memory, calls, passed, strayed, lost>>
              /\ frames' = frames /\ at' = at
            BY <2>5 DEF vars, runVars, genVars
        <3>2. LayoutInv'
            BY <3>1, LayoutStep DEF RunInv
        <3>3. TypeOK'
            BY <3>1, <3>2 DEF RunInv, TypeOK, LayoutInv, Inv
        <3>4. CallsInOrder'
            BY <3>1 DEF RunInv, CallsInOrder, Base, Generating
        <3>5. ~ strayed' => FramesLinked' /\ BasesAligned' /\ AllIntact'
            BY <3>1 DEF RunInv, FramesLinked, BasesAligned, AllIntact, Intact, Slot, End, Base, Fn
        <3>6. RegisterArgumentsArrive' /\ ReturnsHome'
            BY <3>1 DEF RunInv, RegisterArgumentsArrive, ArgumentsArrive, ReturnsHome
        <3> QED
            BY <3>2, <3>3, <3>4, <3>5, <3>6 DEF RunInv
    <2> QED
        BY <2>1, <2>2, <2>3, <2>4, <2>5 DEF Next
<1> QED
    BY <1>1, <1>2, PTL DEF Spec

(* A function whose arguments all find a register finds every argument.     *)
THEOREM ArgumentsInRegisters == Spec => []RegisterArgumentsArrive
<1>1. RunInv => RegisterArgumentsArrive
    BY DEF RunInv
<1> QED
    BY <1>1, RunInvariant, PTL

(* The words of a function in progress stay as it wrote them, whatever it   *)
(* calls, as long as every call pops what it pushed.                        *)
THEOREM FramesStayIntact == Spec => []FramesIntact
<1>1. RunInv => FramesIntact
    <2> SUFFICES ASSUME RunInv, ~ strayed, NEW a \in ToSet(active) PROVE Intact(memory, a)
        BY DEF RunInv, FramesIntact
    <2>1. PICK k \in 1 .. Len(active) : a = active[k]
        <3>1. DOMAIN active = 1 .. Len(active)
            BY DEF RunInv, TypeOK
        <3> QED
            BY <3>1 DEF ToSet
    <2> QED
        BY <2>1 DEF RunInv, AllIntact
<1> QED
    BY <1>1, RunInvariant, PTL

(* A return finds the return address and the saved %rbp of its own call.    *)
THEOREM CallsReturnHome == Spec => []ReturnsHome
<1>1. RunInv => ReturnsHome
    BY DEF RunInv
<1> QED
    BY <1>1, RunInvariant, PTL

(* %rsp is a multiple of 16 between calls that push nothing or an even      *)
(* number of arguments.                                                     *)
THEOREM StackStaysAligned == Spec => []CallsAligned
<1>1. RunInv => CallsAligned
    <2> SUFFICES ASSUME RunInv, ~ strayed,
                        \A a \in ToSet(active) : Cardinality(Pushed(a.fn)) % 2 = 0
                 PROVE  rsp % 16 = 0
        BY DEF CallsAligned
    <2>1. FramesLinked /\ BasesAligned /\ TypeOK /\ LayoutInv /\ CallsInOrder
        BY DEF RunInv
    <2>2. CASE active = <<>>
        BY <2>1, <2>2 DEF FramesLinked
    <2>3. CASE active # <<>>
        <3> DEFINE L == Len(active)
        <3>1. L \in Nat \ {0} /\ DOMAIN active = 1 .. L
            BY <2>1, <2>3 DEF TypeOK
        <3>2. \A j \in 1 .. L : Cardinality(Pushed(Fn(j))) % 2 = 0
            BY <3>1 DEF ToSet, Fn
        <3>3. L \in 1 .. L /\ rsp = End(L)
            BY <2>1, <2>3, <3>1 DEF FramesLinked
        <3>4. SixteenFold(Base(L))
            BY <2>1, <3>2, <3>3 DEF BasesAligned
        <3>5. Fn(L) \in 1 .. Len(Functions) /\ ~ Generating
            BY <2>1, <2>3, <3>3, ActiveTyped DEF CallsInOrder
        <3>6. SixteenFold(frames[Fn(L)].reserved)
            BY <2>1, <3>5, AllComplete DEF Complete
        <3>7. PICK x \in Nat : Base(L) = 16 * x
            BY <3>4 DEF SixteenFold
        <3>8. PICK y \in Nat : frames[Fn(L)].reserved = 16 * y
            BY <3>6 DEF SixteenFold
        <3>9. rsp = 16 * (x + y)
            BY <3>3, <3>7, <3>8 DEF End
        <3> QED
            BY <3>9
    <2> QED
        BY <2>2, <2>3
<1> QED
    BY <1>1, RunInvariant, PTL
=============================================================================
