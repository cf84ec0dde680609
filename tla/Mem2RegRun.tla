----------------------------- MODULE Mem2RegRun -----------------------------
(****************************************************************************)
(* What Mem2Reg promises: a program computes the same values before and     *)
(* after the pass.                                                          *)
(*                                                                          *)
(* After the pass, the original program and the result are executed side by *)
(* side along any path of the control-flow graph.  The original has a       *)
(* memory cell for each variable; the result has values, and takes the      *)
(* operands of a block's phis together, from the predecessor it came from.  *)
(* A name that is not a load gets a new value each time its block is        *)
(* entered, the same in both.                                               *)
(*                                                                          *)
(* Beside them runs the result as the backend translates it: every value    *)
(* has a slot, and the phis are copies at the end of the blocks their       *)
(* operands come from, executed one after the other (CodeGenerate.cpp) and  *)
(* before the branch, so for all successors, taken or not.                  *)
(****************************************************************************)
EXTENDS Mem2Reg

CONSTANT MaxSteps      \* blocks executed along a path

VARIABLES
    stage,    \* "start", "run" in the block, "copy" at its end
    here,     \* block being executed
    upto,     \* how many of its instructions have been
    steps,    \* blocks entered
    mem,      \* cells of the original program, Undef where never written
    old, new, \* values computed so far by the original, by the result
    differ,   \* loads whose value was not the same in both
    slots,    \* values computed so far by the backend's code
    missed,   \* loads whose value was not the same in the original and there
    copies,   \* phis whose copy at the end of the block is still to be made
    copied,   \* phis whose copy has been made there
    spoiled   \* a copy has overwritten a phi that was still needed

runVars == <<stage, here, upto, steps, mem, old, new, differ, slots, missed,
             copies, copied, spoiled>>

RunInit ==
    /\ Init
    /\ stage = "start" /\ here = Root /\ upto = 0 /\ steps = 0
    /\ mem = [x \in Vars |-> Undef]
    /\ old = << >> /\ new = << >> /\ slots = << >>
    /\ differ = {} /\ missed = {}
    /\ copies = {} /\ copied = {}
    /\ spoiled = FALSE

Value(env, n) == IF n \in DOMAIN env THEN env[n] ELSE Undef
With(env, more) ==
    [n \in DOMAIN env \cup DOMAIN more |-> IF n \in DOMAIN more THEN more[n] ELSE env[n]]

(* The values the block computes by other means than loads and phis.        *)
Computed(b) ==
    [n \in {m \in Names : prog.home[m] = b /\ \A l \in Loads(prog) : l.val # m} |-> <<n, steps>>]

(* The phis of the block, all read before any is written.                   *)
PhiValues(b) == [f \in {g \in phis : g[1] = b} |-> Value(new, args[f][here])]

(* The copies made for successors, b among them, have overwritten a phi     *)
(* that is current in b.                                                    *)
Lost(b) == \E f \in copied : f[1] # b /\ Dominates(Succ, f[1], b)

(* The entry, or a successor of the block whose end is reached.             *)
EnterSuccessor ==
    /\ pc = "done"
    /\ steps < MaxSteps
    /\ \E b \in Blocks :
         /\ \/ stage = "start" /\ b = Root
            \/ stage = "copy" /\ copies = {} /\ b \in Succ[here]
         /\ here' = b
         /\ old' = With(old, Computed(b))
         /\ new' = With(With(new, PhiValues(b)), Computed(b))
         /\ slots' = With(slots, Computed(b))
         /\ spoiled' = (spoiled \/ Lost(b))
    /\ stage' = "run"
    /\ upto' = 0
    /\ steps' = steps + 1
    /\ copied' = {}
    /\ UNCHANGED <<mem, differ, missed, copies>>

(* The next instruction of the original, with what the result has in its    *)
(* place.                                                                   *)
ExecuteLoad ==
    /\ stage = "run"
    /\ upto < Len(prog.code[here])
    /\ LET i == prog.code[here][upto + 1]
           cell == mem[i.var]
           without(bad, env) == IF cell \in {Undef, Value(env, Operand(i.val))}
                                THEN bad ELSE bad \cup {i.val}
       IN  /\ i.op = "load"
           /\ old' = With(old, [n \in {i.val} |-> cell])
           /\ differ' = without(differ, new)
           /\ missed' = without(missed, slots)
    /\ upto' = upto + 1
    /\ UNCHANGED <<stage, here, steps, mem, new, slots, copies, copied, spoiled>>

ExecuteStore ==
    /\ stage = "run"
    /\ upto < Len(prog.code[here])
    /\ LET i == prog.code[here][upto + 1]
       IN  /\ i.op = "store"
           /\ mem' = [mem EXCEPT ![i.var] = Value(old, i.val)]
    /\ upto' = upto + 1
    /\ UNCHANGED <<stage, here, steps, old, new, differ, slots, missed, copies, copied, spoiled>>

(* phiInstGenerate puts a copy at the end of the block for every operand    *)
(* that comes from it, each before those it has put there.  The phis of a   *)
(* block are in the order of a set of pointers: the copies run in any.      *)
CopiesAtBug(b) == {f \in phis : f[1] \in Succ[b] /\ args[f][b] \in Phis}
CopiesAt(b) == {f \in phis : f[1] \in Succ[b] /\ args[f][b] # Undef}

EndBlock ==
    /\ stage = "run"
    /\ upto = Len(prog.code[here])
    /\ stage' = "copy"
    /\ copies' = CopiesAt(here)
    /\ UNCHANGED <<here, upto, steps, mem, old, new, differ, slots, missed, copied, spoiled>>

CopyPhi ==
    /\ stage = "copy"
    /\ \E f \in copies :
         /\ slots' = With(slots, [g \in {f} |-> Value(slots, args[f][here])])
         /\ copies' = copies \ {f}
         /\ copied' = copied \cup {f}
         /\ spoiled' = (spoiled \/ args[f][here] \in copied)
    /\ UNCHANGED <<stage, here, upto, steps, mem, old, new, differ, missed>>

Execute == /\ EnterSuccessor \/ ExecuteLoad \/ ExecuteStore \/ EndBlock \/ CopyPhi
           /\ UNCHANGED vars

RunNext == (Pass /\ UNCHANGED runVars) \/ Execute

RunSpec == RunInit /\ [][RunNext]_<<vars, runVars>>

(* Every load of a variable that has been written reads, in the original,   *)
(* what its users get in the result: phis stand where definitions meet, and *)
(* each takes along each edge the value the variable has there.             *)
LoadsPreserved == differ = {}

(* The backend's copies have the effect of the phis as long as none         *)
(* overwrites a phi that a later copy at the same place reads, which the    *)
(* exchange of two variables in a loop makes it do, or one that is current  *)
(* in another successor, which takes a branch back out of a loop.           *)
CopiesSuffice == ~ spoiled => missed = {}
=============================================================================
