------------------------------ MODULE CallStack ------------------------------
(****************************************************************************)
(* The frames the module Frames lays out, when the code runs: what a call   *)
(* emitted by callInstGenerate, the prologue, argMoveInst and the epilogue  *)
(* do to %rsp, %rbp and the stack.                                          *)
(*                                                                          *)
(* The first function generated is main; a function may call any other      *)
(* while it runs.  Addresses are bytes below the stack's top, so the stack  *)
(* grows upwards here.  A word holds who wrote it: in activation n, <<n, v>>*)
(* for the value v of the function, <<n, "rbp">> for the saved %rbp and     *)
(* <<n, "ret">> for the return address.                                     *)
(*                                                                          *)
(* A call that would leave the stack, or whose %rsp has strayed below it,   *)
(* is not followed.                                                         *)
(****************************************************************************)
EXTENDS Frames, Integers, FiniteSets, SequencesExt

CONSTANTS
    NumIntRegs, NumFloatRegs,    \* argIntRegister.size(), argFloatRegister.size()
    MaxCalls,                    \* bound on the calls of an execution
    MaxDepth,                    \* bound on the calls in progress
    MaxByte,                     \* size of the stack
    Nothing                      \* a word never written

ASSUME StackAssumption ==
    /\ Len(Functions) \in Nat \ {0}
    /\ MaxCalls \in Nat \ {0}
    /\ MaxByte \in Nat
    /\ NumIntRegs \in Nat /\ NumFloatRegs \in Nat

VARIABLES
    rsp,       \* %rsp
    active,    \* calls in progress: function, activation, %rbp, saved %rbp
    memory,    \* the stack, by the byte at the lower end of each word
    calls,     \* activations so far
    passed,    \* ghost: arguments a call has put where the callee looks
    strayed,   \* ghost: a call popped more or less than it had pushed
    lost       \* ghost: a return read words that are not its own

runVars == <<rsp, active, memory, calls, passed, strayed, lost>>
vars == <<genVars, runVars>>

Words == {4 * k : k \in 1 .. MaxByte \div 4}
Quads == {8 * k : k \in 0 .. MaxByte \div 8}
Contents == ((1 .. MaxCalls) \X (Values \cup {"rbp", "ret"})) \cup {Nothing}

TypeOK ==
    /\ GenTypeOK
    /\ rsp \in Int
    /\ active \in Seq([fn : 1 .. Len(Functions), id : 1 .. MaxCalls, rbp : Quads])
    /\ memory \in [Words -> Contents]
    /\ calls \in 0 .. MaxCalls
    /\ passed \in SUBSET Values
    /\ strayed \in BOOLEAN
    /\ lost \in BOOLEAN

(* Each place, the bytes (from, to] below the top, gets its content; the    *)
(* places lie apart.                                                        *)
Written(m, place, content) ==
    [b \in Words |->
        LET here == {x \in DOMAIN place : b > place[x][1] /\ b <= place[x][2]}
        IN  IF here = {} THEN m[b] ELSE content[CHOOSE x \in here : TRUE]]

(* Of the eight bytes that end at b, one reads the lower word.              *)
Read(m, b) == IF b \in Words THEN m[b] ELSE Nothing

-----------------------------------------------------------------------------
(* The calling convention                                                   *)

Class(v) == IF Kind[v] = "float" THEN "float" ELSE "int"
NumRegs(c) == IF c = "float" THEN NumFloatRegs ELSE NumIntRegs

(* Where the caller puts the i-th argument: the next register of its class, *)
(* if there is one.                                                         *)
RegisterOf(f, i) ==
    LET p == Params[f]
    IN  <<Class(p[i]), Cardinality({j \in 1 .. i - 1 : Class(p[j]) = Class(p[i])})>>

(* Where the code of the callee looks for it.                               *)
ParameterRegisterBug(f, i) == <<Class(Params[f][i]), i - 1>>
ParameterRegister(f, i) ==
    LET earlier(c) == {j \in 1 .. i - 1 : (Kind[Params[f][j]] = "float") = (c = "float")}
        c == Class(Params[f][i])
    IN  <<c, Cardinality(earlier(c))>>

IsRegister(r) == r[2] < NumRegs(r[1])

(* The arguments pushed.                                                    *)
Pushed(f) == {i \in 1 .. Len(Params[f]) : ~ IsRegister(RegisterOf(f, i))}
BytesPushed(f) == 8 * Cardinality(Pushed(f))

(* callInstGenerate inserts the moves backwards: the last argument is       *)
(* pushed first.                                                            *)
ArgumentPlace(f, i, top) ==
    LET below == 8 * Cardinality({j \in Pushed(f) : j > i})
    IN  <<top + below, top + below + 8>>

WithArguments(m, f, n, top) ==
    Written(m, [i \in Pushed(f) |-> ArgumentPlace(f, i, top)],
               [i \in Pushed(f) |-> <<n, Params[f][i]>>])

(* callq and pushq %rbp                                                     *)
WithLinks(m, n, top) ==
    Written(m, [x \in {"ret", "rbp"} |-> IF x = "ret" THEN <<top, top + 8>>
                                         ELSE <<top + 8, top + 16>>],
               [x \in {"ret", "rbp"} |-> <<n, x>>])

(* The code of the callee reads the k-th of them, from 0, at 8k(%rbp).      *)
StackArgumentAt(rbp, k) == rbp - 8 * k

(* What addq adds to %rsp after the call: operandNumber counts the function *)
(* and the arguments.                                                       *)
Popped(f) == IF Len(Params[f]) + 1 >= 7 THEN 8 * (Len(Params[f]) + 1 - 7) ELSE 0

(* What argMoveInst finds for the i-th parameter of activation n.           *)
ArgumentFound(m, f, n, i, rbp) ==
    LET r == ParameterRegister(f, i)
        args == 1 .. Len(Params[f])
        onStack == {j \in 1 .. i - 1 : ~ IsRegister(ParameterRegister(f, j))}
    IN  IF ~ IsRegister(r) THEN Read(m, StackArgumentAt(rbp, Cardinality(onStack)))
        ELSE IF \E j \in args : RegisterOf(f, j) = r
             THEN <<n, Params[f][CHOOSE j \in args : RegisterOf(f, j) = r]>>
        ELSE Nothing

Slot(f, v, rbp) ==
    LET o == rbp + frames[f].offset[v]
    IN  <<o - Size(v), o>>

(* argMoveInst fills the parameters' slots.                                 *)
WithParameters(m, f, n, rbp) ==
    LET args == 1 .. Len(Params[f])
    IN  Written(m, [i \in args |-> Slot(f, Params[f][i], rbp)],
                   [i \in args |-> ArgumentFound(m, f, n, i, rbp)])

(* The function runs and writes its values; a pointer to an array or a      *)
(* global is only written by argMoveInst.                                   *)
Writes(f) == {v \in Locals[f] : Kind[v] \notin {"global", "array"}} \cup frames[f].pointed

WithLocals(m, f, n, rbp) ==
    Written(m, [v \in Writes(f) |-> Slot(f, v, rbp)], [v \in Writes(f) |-> <<n, v>>])

-----------------------------------------------------------------------------
Running == at > Len(Functions) /\ ~ lost

(* callq, pushq %rbp, movq %rsp, %rbp, subq: function f gets activation n.  *)
Enter(f, n, top, m) ==
    LET rbp == top + BytesPushed(f) + 16
        m1  == WithLinks(WithArguments(m, f, n, top), n, rbp - 16)
    IN  /\ top >= 0 /\ rbp + frames[f].reserved <= MaxByte
        /\ memory' = WithLocals(WithParameters(m1, f, n, rbp), f, n, rbp)
        /\ active' = Append(active, [fn |-> f, id |-> n, rbp |-> rbp])
        /\ rsp' = rbp + frames[f].reserved
        /\ passed' = {Params[f][i] : i \in {j \in 1 .. Len(Params[f]) :
                          ArgumentFound(m1, f, n, j, rbp) = <<n, Params[f][j]>>}}
        /\ calls' = n
        /\ UNCHANGED <<strayed, lost>>

StartMain ==
    /\ Running
    /\ active = <<>> /\ calls = 0
    /\ Enter(1, 1, 0, memory)
    /\ UNCHANGED genVars

Call ==
    /\ Running
    /\ active # <<>>
    /\ Len(active) < MaxDepth /\ calls < MaxCalls
    /\ \E f \in 2 .. Len(Functions) : Enter(f, calls + 1, rsp, memory)
    /\ UNCHANGED genVars

(* addq, popq %rbp, retq, and in the caller the addq after the call.        *)
Return ==
    /\ Running
    /\ active # <<>>
    /\ LET a == Last(active)
       IN  /\ strayed' = (strayed \/ Popped(a.fn) # BytesPushed(a.fn))
           /\ \E s \in frames[a.fn].freed :
             LET saved == rsp - s
             IN  /\ lost' = ~ (/\ Read(memory, saved) = <<a.id, "rbp">>
                               /\ Read(memory, saved - 8) = <<a.id, "ret">>)
                 /\ rsp' = saved - 16 - Popped(a.fn)
    /\ active' = Front(active)
    /\ passed' = {}
    /\ UNCHANGED <<memory, calls>>
    /\ UNCHANGED genVars

Init ==
    /\ GenInit
    /\ rsp = 0
    /\ active = <<>>
    /\ memory = [b \in Words |-> Nothing]
    /\ calls = 0
    /\ passed = {}
    /\ strayed = FALSE
    /\ lost = FALSE

Next == (Generate /\ UNCHANGED runVars) \/ StartMain \/ Call \/ Return

Spec == Init /\ [][Next]_vars

-----------------------------------------------------------------------------
(* Properties                                                               *)

(* What the report says of a call: an argument goes into a register of its  *)
(* class while there is one, and onto the stack otherwise.  Then every      *)
(* parameter of the function entered last has its argument.                 *)
ArgumentsArrive ==
    active # <<>> /\ calls = Last(active).id =>
        passed = ToSet(Params[Last(active).fn])

(* It does in functions whose arguments all find a register: the caller and *)
(* the callee count the registers of both classes alike.                    *)
RegisterArgumentsArrive ==
    active # <<>> /\ Pushed(Last(active).fn) = {} => ArgumentsArrive

(* The links and the locals of a frame are in memory.                       *)
Intact(m, a) ==
    /\ m[a.rbp] = <<a.id, "rbp">> /\ m[a.rbp - 8] = <<a.id, "ret">>
    /\ \A v \in Locals[a.fn], b \in Words :
         b > Slot(a.fn, v, a.rbp)[1] /\ b <= Slot(a.fn, v, a.rbp)[2] => m[b] = <<a.id, v>>

(* Registers and words hold what a frame puts there (TypeOK), and as long   *)
(* as every call pops what it pushed, the words of a function in progress   *)
(* stay as it wrote them whatever is called: frames lie apart, and the      *)
(* pointers to its arrays and globals were set in this very function.       *)
FramesIntact == TypeOK /\ (~ strayed => \A a \in ToSet(active) : Intact(memory, a))

(* A return then finds its own return address and saved %rbp.               *)
ReturnsHome == lost => strayed

(* %rsp is a multiple of 16 at every call, as the system's convention wants *)
(* it, unless an odd number of arguments is on the stack.                   *)
CallsAligned ==
    (~ strayed /\ \A a \in ToSet(active) : Cardinality(Pushed(a.fn)) % 2 = 0) => rsp % 16 = 0
=============================================================================
