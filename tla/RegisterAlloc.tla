--------------------------- MODULE RegisterAlloc ---------------------------
(****************************************************************************)
(* Register allocation of the x86-64 back end: the maps of                  *)
(* src/CodeGenerate/Position.hpp, getPosition, getAddress, getEmptyRegister *)
(* and stash of AsmInstruction.hpp, and the instruction generators of       *)
(* CodeGenerate.cpp that call them.                                         *)
(*                                                                          *)
(* The generator emits code and keeps, next to it, maps that say which      *)
(* register holds which IR value.  The model keeps those maps and, at the   *)
(* same time, what the registers and the stack slots would hold if the code *)
(* emitted so far were executed: the contents `reg` and `slot` name the     *)
(* value whose result is there.  A block is straight-line code, and no map  *)
(* survives a block, so one path through the function is enough.            *)
(*                                                                          *)
(* Constants are read as immediates or labels and touch nothing of this;    *)
(* operands are IR values only.                                             *)
(*                                                                          *)
(* A definition ...Bug is the one below it with a mistake the properties    *)
(* have to detect; nothing refers to it.                                    *)
(****************************************************************************)
EXTENDS Naturals, Sequences, FiniteSets, SequencesExt

CONSTANTS
    Values,       \* IR values: parameters, globals, arrays, instructions
    Params,       \* those that have their slot filled by argMoveInst
    Kind,         \* "int" (i32, i1), "float" or "ptr" of each value
    TempInt, TempFloat,            \* tempInt, tempFloat of AsmBlock
    IntRegs, FloatRegs,            \* sequences of the registers of a class
    MaxArgs,                       \* bound on the arguments of a call
    NoValue, NoReg, Junk           \* null Value*, null Register*, no content

Temps == {TempInt, TempFloat}
AllValues == Values \cup Temps
Kinds == {"int", "float", "ptr"}
Classes == {"int", "float"}

RegsOf(q) == {q[i] : i \in 1 .. Len(q)}
Regs == RegsOf(IntRegs) \cup RegsOf(FloatRegs)

ASSUME KindAssumption ==
    /\ Params \subseteq Values
    /\ Kind \in [Values -> Kinds]
    /\ TempInt # TempFloat
    /\ Temps \cap Values = {}
    /\ NoValue \notin AllValues /\ Junk \notin AllValues
ASSUME RegsAssumption ==
    /\ IntRegs \in Seq(Regs) /\ IntRegs # <<>>
    /\ FloatRegs \in Seq(Regs) /\ FloatRegs # <<>>
    /\ RegsOf(IntRegs) \cap RegsOf(FloatRegs) = {}
    /\ \A q \in {IntRegs, FloatRegs} :
         \A i, j \in 1 .. Len(q) : q[i] = q[j] => i = j
    /\ NoReg \notin Regs

VARIABLES
    alloc,      \* the maps of Position.hpp, with the machine's contents
    defined,    \* values whose instruction has been emitted
    lost,       \* ghost: values displaced from their register
    halved,     \* ghost: pointers in a register when it was stashed
    fresh,      \* ghost: registers handed out since the last stash
    misread,    \* ghost: operands the last instruction did not find
    ended       \* the function's return has been emitted

vars == <<alloc, defined, lost, halved, fresh, misread, ended>>

TypeOf(v) == IF v = TempInt THEN "int" ELSE IF v = TempFloat THEN "float" ELSE Kind[v]
Class(v) == IF TypeOf(v) = "float" THEN "float" ELSE "int"
ClassRegs(c) == IF c = "int" THEN IntRegs ELSE FloatRegs
Content == AllValues \cup {Junk}

Allocs == [lru  : [Classes -> Seq(Regs)],             \* leastRecent...Register
           held : [Regs -> AllValues \cup {NoValue}],  \* registerToValue
           in   : [AllValues -> Regs \cup {NoReg}],    \* valueToRegister
           reg  : [Regs -> Content],
           slot : [AllValues -> Content]]

(* The list of a class has each of its registers once.                      *)
ListsRegisters(q, c) ==
    /\ RegsOf(q) = RegsOf(ClassRegs(c))
    /\ Len(q) = Len(ClassRegs(c))
    /\ \A i, j \in 1 .. Len(q) : q[i] = q[j] => i = j

TypeOK ==
    /\ alloc \in Allocs
    /\ defined \in SUBSET Values
    /\ \A c \in Classes : ListsRegisters(alloc.lru[c], c)
    /\ lost \in SUBSET Values
    /\ halved \in SUBSET Values
    /\ \A c \in Classes : fresh[c] \in 0 .. Len(ClassRegs(c)) + 1
    /\ misread \in SUBSET Values
    /\ ended \in BOOLEAN

(* Parameters, and the pointers to arrays and globals, are moved to their   *)
(* slots at the head of the function; every register is unmapped.           *)
Init ==
    /\ alloc = [lru  |-> [c \in Classes |-> ClassRegs(c)],
                held |-> [r \in Regs |-> NoValue],
                in   |-> [v \in AllValues |-> NoReg],
                reg  |-> [r \in Regs |-> Junk],
                slot |-> [v \in AllValues |-> IF v \in Params THEN v ELSE Junk]]
    /\ defined = Params
    /\ lost = {}
    /\ halved = {}
    /\ fresh = [c \in Classes |-> 0]
    /\ misread = {}
    /\ ended = FALSE

-----------------------------------------------------------------------------
(* Position.hpp and AsmInstruction.hpp                                      *)

(* updateRegister: the register moves to the back of its class's list.      *)
Place(q, r) == CHOOSE i \in 1 .. Len(q) : q[i] = r
MoveToBack(q, r) == Append(RemoveAt(q, Place(q, r)), r)

updateRegister(s, v) ==
    [s EXCEPT !.lru[Class(v)] = MoveToBack(@, s.in[v])]

(* getPosition: a value in a register counts as used.                       *)
getPosition(s, v) == IF s.in[v] # NoReg THEN updateRegister(s, v) ELSE s

(* What the operand returned by getPosition holds.                          *)
Found(s, v) == IF s.in[v] # NoReg THEN s.reg[s.in[v]] ELSE s.slot[v]

(* A move emitted for v: movl for integers cuts an address in half, movq    *)
(* and movss keep what they move.                                           *)
Moved(v, c) ==
    IF TypeOf(v) = "int" /\ c \in Values /\ TypeOf(c) = "ptr" THEN Junk ELSE c

VictimBug(s, v) == Last(s.lru[Class(v)])
Victim(s, v) == Head(s.lru[Class(v)])

(* valueToRegister when v gets the register r that held the value old.      *)
RemappedBug(s, v, r, old) == [s.in EXCEPT ![v] = r]
Remapped(s, v, r, old) ==
    [x \in AllValues |-> IF x = v THEN r ELSE IF x = old THEN NoReg ELSE s.in[x]]

(* getEmptyRegister: the least recently used register of v's class.  If it  *)
(* holds a value, the register is stored at the address of v, the value is  *)
(* unmapped; the register is then loaded from the address of v.             *)
getEmptyRegister(s, v) ==
    LET r      == Victim(s, v)
        old    == s.held[r]
        stored == IF old = NoValue THEN s.slot[v] ELSE Moved(v, s.reg[r])
    IN  [s EXCEPT !.slot[v] = stored,
                  !.reg[r]  = Moved(v, stored),
                  !.in      = Remapped(s, v, r, old),
                  !.held[r] = v,
                  !.lru[Class(v)] = MoveToBack(@, r)]

(* The value the next getEmptyRegister(v) takes the register from.          *)
Displaced(s, v) == {s.held[Victim(s, v)]} \cap Values

(* The instruction of v leaves its result in the register of v.             *)
Result(s, v) == [s EXCEPT !.reg[s.in[v]] = v]

(* stash: every mapped register is stored at the address of its value, with *)
(* movl in the integer class, and unmapped.                                 *)
Mapped(s) == {r \in Regs : s.held[r] # NoValue}

(* valueToRegister afterwards.                                              *)
UnmappedBug(s) == s.in
Unmapped(s) ==
    [v \in AllValues |-> IF \E r \in Mapped(s) : s.held[r] = v THEN NoReg ELSE s.in[v]]

stash(s) ==
    LET cut(r)     == IF r \in RegsOf(IntRegs) THEN Moved(TempInt, s.reg[r]) ELSE s.reg[r]
        holders(v) == {r \in Mapped(s) : s.held[r] = v}
    IN  [s EXCEPT
           !.slot = [v \in AllValues |->
                       IF holders(v) = {} THEN @[v]
                       ELSE cut(CHOOSE r \in holders(v) : TRUE)],
           !.held = [r \in Regs |-> IF r \in Mapped(s) THEN NoValue ELSE @[r]],
           !.in   = Unmapped(s)]

(* A callee uses the same registers, and a block is entered from others:    *)
(* after a call and at a block's head they may hold anything.               *)
Clobbered(s) == [s EXCEPT !.reg = [r \in Regs |-> Junk]]

(* The pointers a stash stores in half.                                     *)
Halved(s) == {v \in Values : TypeOf(v) = "ptr" /\ \E r \in Regs : s.held[r] = v}

-----------------------------------------------------------------------------
(* CodeGenerate.cpp: each generator takes a register for its result first   *)
(* and looks its operands up afterwards.                                    *)

Avail(kind) == {v \in defined : TypeOf(v) = kind}
Fresh(kind) == {v \in Values \ defined : TypeOf(v) = kind}

(* One more register of the class is in use since the last stash; the count *)
(* stops one past the size of the class.                                    *)
Counted(f, c) == [f EXCEPT ![c] = IF @ > Len(ClassRegs(c)) THEN @ ELSE @ + 1]

(* Of the operands looked up, with what was found, those that were not      *)
(* there.                                                                   *)
Wrong(found) == {x[1] : x \in {y \in found : y[2] # y[1]}}

(* Common ending of a generator that computes v: s is the state of the maps *)
(* and the machine, found the operands it read.                             *)
Computed(s, v, found) ==
    /\ alloc' = Result(s, v)
    /\ defined' = defined \cup {v}
    /\ lost' = lost \cup Displaced(alloc, v)
    /\ fresh' = Counted(fresh, Class(v))
    /\ misread' = Wrong(found)
    /\ UNCHANGED <<halved, ended>>

(* binaryInstGenerate, add sub mul fadd fsub fmul fdiv: the first operand   *)
(* is moved to the result's register before the second is looked up.        *)
Binary(v, a, b) ==
    LET s0 == getEmptyRegister(alloc, v)
        s1 == getPosition(s0, a)
        s2 == [s1 EXCEPT !.reg[s1.in[v]] = Found(s1, a)]
        s3 == getPosition(s2, b)
    IN  Computed(s3, v, {<<a, Found(s1, a)>>, <<b, Found(s3, b)>>})

(* cmpInstGenerate, and the sdiv of binaryInstGenerate: the first operand   *)
(* goes to eax.                                                             *)
Compare(v, a, b) ==
    LET s1 == getPosition(getEmptyRegister(alloc, v), a)
        s2 == getPosition(s1, b)
    IN  Computed(s2, v, {<<a, Found(s1, a)>>, <<b, Found(s2, b)>>})

(* fcmpInstGenerate: a scratch register of the float class and one for the  *)
(* truth value.                                                             *)
FloatCompare(v, a, b) ==
    LET s0 == getEmptyRegister(alloc, TempFloat)
        s1 == getEmptyRegister(s0, v)
        s2 == getPosition(s1, a)
        s3 == [s2 EXCEPT !.reg[s2.in[TempFloat]] = Found(s2, a)]
        s4 == getPosition(s3, b)
    IN  /\ alloc' = Result(s4, v)
        /\ defined' = defined \cup {v}
        /\ lost' = lost \cup Displaced(alloc, TempFloat) \cup Displaced(s0, v)
        /\ fresh' = Counted(Counted(fresh, "float"), "int")
        /\ misread' = Wrong({<<a, Found(s2, a)>>, <<b, Found(s4, b)>>})
        /\ UNCHANGED <<halved, ended>>

(* zextInstGenerate, fpToSiInstGenerate, siToFpInstGenerate; and            *)
(* loadInstGenerate, whose operand is the address.                          *)
Convert(v, a) ==
    LET s1 == getPosition(getEmptyRegister(alloc, v), a)
    IN  Computed(s1, v, {<<a, Found(s1, a)>>})

(* gepInstGenerate: the pointer goes to the result's register, the index to *)
(* eax.                                                                     *)
Gep(v, p, i) ==
    LET s0 == getEmptyRegister(alloc, v)
        s1 == getPosition(s0, p)
        s2 == [s1 EXCEPT !.reg[s1.in[v]] = Found(s1, p)]
        s3 == getPosition(s2, i)
    IN  Computed(s3, v, {<<p, Found(s1, p)>>, <<i, Found(s3, i)>>})

(* storeInstGenerate: a scratch register of the class of what is stored.    *)
Store(a, p) ==
    LET t  == IF TypeOf(a) = "int" THEN TempInt ELSE TempFloat
        s0 == getEmptyRegister(alloc, t)
        s1 == getPosition(s0, p)
        s2 == getPosition(s1, a)
    IN  /\ alloc' = [s2 EXCEPT !.reg[s2.in[t]] = Found(s2, a)]
        /\ lost' = lost \cup Displaced(alloc, t)
        /\ fresh' = Counted(fresh, Class(t))
        /\ misread' = Wrong({<<p, Found(s1, p)>>, <<a, Found(s2, a)>>})
        /\ UNCHANGED <<defined, halved, ended>>

(* callInstGenerate: the arguments are looked up and moved to the argument  *)
(* registers or pushed, all registers are stashed, the result of the call   *)
(* gets a register afterwards.                                              *)
CallWith(args, s) ==
    /\ halved' = halved \cup Halved(s)
    /\ misread' = Wrong({<<args[i], Found(alloc, args[i])>> : i \in 1 .. Len(args)})
    /\ UNCHANGED <<ended>>

(* The maps after the look-ups, one argument after the other.               *)
LookUp(args) ==
    LET after[n \in 0 .. Len(args)] ==
            IF n = 0 THEN alloc ELSE getPosition(after[n - 1], args[n])
    IN  after[Len(args)]

Call(v, args) ==
    LET s0 == Clobbered(stash(LookUp(args)))
        s1 == getEmptyRegister(s0, v)
    IN  /\ CallWith(args, LookUp(args))
        /\ alloc' = Result(s1, v)
        /\ defined' = defined \cup {v}
        /\ lost' = lost \cup Displaced(s0, v)
        /\ fresh' = Counted([c \in Classes |-> 0], Class(v))

CallVoid(args) ==
    /\ CallWith(args, LookUp(args))
    /\ alloc' = Clobbered(stash(LookUp(args)))
    /\ fresh' = [c \in Classes |-> 0]
    /\ UNCHANGED <<defined, lost>>

(* brInstGenerate with a condition, then the stash that ends                *)
(* normalGenerate: endInstructions test the position found before it.       *)
BranchOn(c) ==
    LET s1 == getPosition(alloc, c)
        s2 == stash(s1)
    IN  /\ alloc' = Clobbered(s2)
        /\ misread' = Wrong({<<c, IF s1.in[c] # NoReg THEN s2.reg[s1.in[c]] ELSE s2.slot[c]>>})
        /\ halved' = halved \cup Halved(s1)
        /\ fresh' = [k \in Classes |-> 0]
        /\ UNCHANGED <<defined, lost, ended>>

(* An unconditional br.                                                     *)
Jump ==
    /\ alloc' = Clobbered(stash(alloc))
    /\ misread' = {}
    /\ halved' = halved \cup Halved(alloc)
    /\ fresh' = [k \in Classes |-> 0]
    /\ UNCHANGED <<defined, lost, ended>>

(* ret: normalGenerate only counts its operand as used; retInstGenerate     *)
(* looks it up again when every block has been generated.                   *)
Return(c) ==
    LET s1 == Clobbered(stash(getPosition(alloc, c)))
    IN  /\ alloc' = s1
        /\ misread' = Wrong({<<c, Found(s1, c)>>})
        /\ halved' = halved \cup Halved(alloc)
        /\ fresh' = [k \in Classes |-> 0]
        /\ ended' = TRUE
        /\ UNCHANGED <<defined, lost>>

ArgLists == UNION {[1 .. n -> defined] : n \in 0 .. MaxArgs}

Next ==
    /\ ~ ended
    /\ \/ \E k \in {"int", "float"} : \E v \in Fresh(k), a, b \in Avail(k) : Binary(v, a, b)
       \/ \E v \in Fresh("int"), a, b \in Avail("int") : Compare(v, a, b)
       \/ \E v \in Fresh("int"), a, b \in Avail("float") : FloatCompare(v, a, b)
       \/ \E v \in Fresh("int"), a \in defined : Convert(v, a)
       \/ \E v \in Fresh("float"), a \in Avail("int") \cup Avail("ptr") : Convert(v, a)
       \/ \E v \in Fresh("ptr"), p \in Avail("ptr"), i \in Avail("int") : Gep(v, p, i)
       \/ \E a \in Avail("int") \cup Avail("float"), p \in Avail("ptr") : Store(a, p)
       \/ \E v \in Fresh("int") \cup Fresh("float"), args \in ArgLists : Call(v, args)
       \/ \E args \in ArgLists : CallVoid(args)
       \/ \E c \in Avail("int") : BranchOn(c)
       \/ Jump
       \/ \E c \in Avail("int") \cup Avail("float") : Return(c)

Spec == Init /\ [][Next]_vars

-----------------------------------------------------------------------------
(* Properties                                                               *)

(* Each register stands in its list once (TypeOK); registerToValue and      *)
(* valueToRegister are each other's inverse for every IR value; a scratch   *)
(* value may be left behind in a register it no longer maps to, but never   *)
(* maps to a register another value holds.                                  *)
RegisterMapsAgree ==
    /\ TypeOK
    /\ \A v \in Values, r \in Regs : alloc.in[v] = r <=> alloc.held[r] = v
    /\ \A t \in Temps : alloc.in[t] # NoReg => alloc.held[alloc.in[t]] = t

(* Every operand an emitted instruction reads is found where getPosition    *)
(* says, across displacements, calls and block ends, unless its register    *)
(* was handed to another value or it is a pointer that a stash cut.         *)
OperandsFound == misread \subseteq lost \cup halved

(* A register is taken from a value only when every register of the class   *)
(* was handed out since the last stash: the least recently used one is      *)
(* empty as long as some register is.                                       *)
NoEarlyDisplacement ==
    [][\A v \in lost' \ lost :
          fresh[Class(v)] >= Len(ClassRegs(Class(v)))]_vars

(* What the slides say of a register that holds another value: the value is *)
(* moved to memory first.  Then no displaced value is ever missed.          *)
DisplacedIsSaved == misread \cap lost = {}
=============================================================================
