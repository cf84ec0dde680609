----------------------------- MODULE BuilderRun -----------------------------
(****************************************************************************)
(* What CminusfBuilder promises: the blocks it generates do what the        *)
(* program says.  Both are run on symbolic values, every test with either   *)
(* outcome, and what they do is recorded: the tests, stores, calls and      *)
(* returns, in order, with the terms they apply to.  A load is a term that  *)
(* says how much had happened when it was made.                             *)
(*                                                                          *)
(* The language is the one of Documentations/common/cminusf.md; the blocks  *)
(* are run as clang reads them, up to the first terminator of each, or in   *)
(* the order in which CodeGenerate lays out their instructions.             *)
(****************************************************************************)
EXTENDS BuilderTypes, Parser

CONSTANT Depth      \* how many tests of a run are given an outcome

Outcomes == [1 .. Depth -> BOOLEAN]

-----------------------------------------------------------------------------
(* Runs                                                                     *)

(* ev: what happened; left: the outcomes to come; over: the run has ended.  *)
Started(o) == [ev |-> <<>>, left |-> o, over |-> FALSE]
Happens(st, e) == IF st.over THEN st ELSE [st EXCEPT !.ev = Append(@, e)]
Over(st) == [st EXCEPT !.over = TRUE]

(* A run that has no outcome left for a test ends there.                    *)
Tested(st, t) ==
    IF st.over \/ st.left = <<>>
    THEN Over(Happens(st, <<"test", t>>))
    ELSE [Happens(st, <<"test", t, Head(st.left)>>) EXCEPT !.left = Tail(@)]
Outcome(st) == Head(st.left)

(* A pointer parameter is never assigned to, any other cell may be.         *)
LoadOf(st, a, ty) == <<"load", a, IF ty \in {"i32*", "float*"} THEN 0 ELSE Len(st.ev)>>
NotZero(v) == IF v[1] = "rel" THEN v ELSE <<"ne0", v>>

-----------------------------------------------------------------------------
(* The program                                                              *)

Converted(v, from, to) ==
    CASE from = "i32" /\ to = "float" -> <<"sitofp", v>>
      [] from = "float" /\ to = "i32" -> <<"fptosi", v>>
      [] OTHER -> v

Declared(env, ds) ==
    [n \in DOMAIN env \cup {ds[i].id : i \in DOMAIN ds} |->
        IF \E i \in DOMAIN ds : ds[i].id = n
        THEN ds[CHOOSE i \in DOMAIN ds : ds[i].id = n] ELSE env[n]]

RECURSIVE Eval(_, _, _), AddressOf(_, _, _), Arguments(_, _, _, _)

(* The address of a variable, after the test of a negative index.           *)
AddressOf(e, env, st) ==
    LET d == env[e.id]
        cell == <<"cell", d.cell>>
    IN  IF e.k = "var"
        THEN [st |-> st, v |-> cell, ty |-> d.ty]
        ELSE LET i == Eval(e.index, env, st)
                 n == Converted(i.v, i.ty, "i32")
                 t == Tested(i.st, <<"neg", n>>)
                 base == IF IsArray(d.ty) THEN cell ELSE LoadOf(st, cell, d.ty)
             IN  [st |-> IF t.over \/ ~ Outcome(i.st) THEN t
                         ELSE Over(Happens(t, <<"call", "neg_idx_except", <<>>>>)),
                  v  |-> <<"elem", base, n>>,
                  ty |-> ElemOf(d.ty)]

Arguments(es, tys, env, st) ==
    IF es = <<>>
    THEN [st |-> st, vs |-> <<>>]
    ELSE LET a == Eval(Head(es), env, st)
             r == Arguments(Tail(es), Tail(tys), env, a.st)
         IN  [st |-> r.st, vs |-> <<Converted(a.v, a.ty, Head(tys))>> \o r.vs]

Eval(e, env, st) ==
    IF st.over THEN [st |-> st, v |-> <<"none">>, ty |-> "void"]
    ELSE
    CASE e.k = "num" -> [st |-> st, v |-> <<"const", e.ty>>, ty |-> e.ty]
      [] e.k \in {"var", "elem"} ->
            LET a == AddressOf(e, env, st)
            IN  IF IsArray(a.ty)
                THEN [a EXCEPT !.v = <<"elem", @, <<"const", "i32">> >>, !.ty = PointerTo(@)]
                ELSE [a EXCEPT !.v = LoadOf(a.st, @, a.ty)]
      [] e.k = "assign" ->
            LET a == AddressOf(e.var, env, st)
                r == Eval(e.rhs, env, a.st)
                v == Converted(r.v, r.ty, a.ty)
            IN  [st |-> Happens(r.st, <<"store", v, a.v>>),
                 v  |-> v,
                 ty |-> a.ty]
      [] e.k = "binary" ->
            LET l == Eval(e.l, env, st)
                r == Eval(e.r, env, l.st)
                ty == IF l.ty = "i32" /\ r.ty = "i32" THEN "i32" ELSE "float"
            IN  [st |-> r.st,
                 v  |-> <<e.op, ty, Converted(l.v, l.ty, ty), Converted(r.v, r.ty, ty)>>,
                 ty |-> IF e.op = "rel" THEN "i32" ELSE ty]
      [] e.k = "call" ->
            LET f == env[e.id]
                a == Arguments(e.args, f.params, env, st)
            IN  [st |-> Happens(a.st, <<"call", e.id, a.vs>>),
                 v  |-> <<"result", Len(a.st.ev)>>,
                 ty |-> f.ret]

RECURSIVE Exec(_, _, _), ExecAll(_, _, _)

ExecAll(ss, env, st) ==
    IF ss = <<>> THEN st ELSE ExecAll(Tail(ss), env, Exec(Head(ss), env, st))

Exec(s, env, st) ==
    IF st.over THEN st
    ELSE
    CASE s.k = "block" -> ExecAll(s.stmts, Declared(env, s.decls), st)
      [] s.k \in {"if", "while"} ->
            LET c == Eval(s.cond, env, st)
                t == Tested(c.st, NotZero(c.v))
            IN  IF t.over THEN t
                ELSE IF s.k = "if" THEN ExecAll(IF Outcome(c.st) THEN s.yes ELSE s.no, env, t)
                ELSE IF Outcome(c.st) THEN Exec(s, env, ExecAll(s.body, env, t))
                ELSE t
      [] s.k = "return" ->
            IF s.value = <<>> THEN Over(Happens(st, <<"ret", <<>>>>))
            ELSE LET r == Eval(s.value[1], env, st)
                 IN  Over(Happens(r.st, <<"ret", <<Converted(r.v, r.ty, prog.fun.ret)>> >>))
      [] s.k = "empty" -> st
      [] OTHER -> Eval(s, env, st).st

(* The arguments are put in the parameters' cells, the body runs, and what  *)
(* comes to its end returns.                                                *)
ProgramRun(o) ==
    LET f == prog.fun
        funs == [n \in DOMAIN Functions \cup {f.id} |->
                    IF n = f.id THEN [ret |-> f.ret, params |-> [i \in DOMAIN f.params |-> f.params[i].ty]]
                    ELSE [ret |-> Functions[n].ret, params |-> Functions[n].params]]
        env == Declared(Declared(funs, prog.globals), f.params)
        called == FoldLeft(LAMBDA st, p : Happens(st, <<"store", <<"arg", p.cell>>, <<"cell", p.cell>> >>),
                           Started(o), f.params)
        st == Exec(f.body, env, called)
        value == IF f.ret = "void" THEN <<>> ELSE << <<"const", f.ret>> >>
    IN  Happens(st, <<"ret", value>>).ev

-----------------------------------------------------------------------------
(* The blocks                                                               *)

(* The order in which the instructions of a block are run: as they stand,   *)
(* or as AsmBlock::normalGenerate and endGenerate emit them, the branches   *)
(* after all other instructions and the returns after the branches.         *)
AsWritten(block) == [i \in DOMAIN block |-> i]
BranchesFirst(block) ==
    LET at == AsWritten(block)
    IN  SelectSeq(at, LAMBDA i : IsBr(block[i])) \o SelectSeq(at, LAMBDA i : ~ IsBr(block[i]))
AsGenerated(block) ==
    LET at == AsWritten(block)
    IN  SelectSeq(at, LAMBDA i : ~ IsBr(block[i]) /\ ~ IsRet(block[i]))
          \o SelectSeq(at, LAMBDA i : IsBr(block[i]))
          \o SelectSeq(at, LAMBDA i : IsRet(block[i]))

(* A value, given what the instructions run so far have computed.           *)
Term(v, vals) ==
    CASE v.from[1] = "const" -> <<"const", v.ty>>
      [] v.from[1] = "global" -> <<"cell", v.from[2]>>
      [] v.from[1] = "arg" -> v.from
      [] OTHER -> IF v.from \in DOMAIN vals THEN vals[v.from] ELSE <<"undefined">>

RECURSIVE RunFrom(_, _, _, _, _)

(* The run st of block bb from the k-th of its instructions, in the order   *)
(* given.                                                                   *)
RunFrom(order, bb, k, vals, st) ==
    IF st.over THEN st
    ELSE IF k > Len(order[bb]) THEN Over(Happens(st, <<"falls off", bb>>))
    ELSE
    LET i    == order[bb][k]
        inst == code[bb][i]
        args == [n \in DOMAIN inst.args |-> Term(inst.args[n], vals)]
        next(v, s) ==
            LET at == <<"at", bb, i>>
            IN  RunFrom(order, bb, k + 1,
                        [n \in DOMAIN vals \cup {at} |-> IF n = at THEN v ELSE vals[n]], s)
        tested == Tested(st, args[1])
        called == Happens(st, <<"call", inst.tag, args>>)
    IN
    CASE IsRet(inst) -> Over(Happens(st, <<"ret", args>>))
      [] IsBr(inst) /\ Len(inst.to) = 1 -> RunFrom(order, inst.to[1], 1, vals, st)
      [] IsBr(inst) /\ Len(inst.to) = 2 ->
            IF tested.over THEN tested
            ELSE RunFrom(order, inst.to[IF Outcome(st) THEN 1 ELSE 2], 1, vals, tested)
      [] inst.op = "alloca" -> next(<<"cell", inst.tag>>, st)
      [] inst.op = "load"   -> next(LoadOf(st, args[1], inst.ty), st)
      [] inst.op = "store"  -> next(<<"none">>, Happens(st, <<"store", args[1], args[2]>>))
      [] inst.op = "gep"    -> next(<<"elem", args[1], args[2]>>, st)
      [] inst.op = "zext"   -> next(args[1], st)
      [] inst.op = "ne0"    -> next(NotZero(args[1]), st)
      [] inst.op \in {"neg", "sitofp", "fptosi"} -> next(<<inst.op, args[1]>>, st)
      [] inst.op \in {"rel", "add", "mul"} -> next(<<inst.op, inst.tag, args[1], args[2]>>, st)
      [] inst.op = "call"   ->
            IF inst.tag = "neg_idx_except" THEN Over(called)
            ELSE next(<<"result", Len(st.ev)>>, called)

CodeRun(Order(_), o) ==
    RunFrom([bb \in DOMAIN code |-> Order(code[bb])], 1, 1, [n \in {} |-> n], Started(o)).ev

-----------------------------------------------------------------------------
(* Properties                                                               *)

(* The visitor is given the program that was written: transform_node_iter   *)
(* finds everything in its place in the tree of productions, lists in order *)
(* and optional parts where they are.                                       *)
TreeRead == Transformed(ParseTree(prog)) = prog

(* The blocks do what the program says, whatever its tests give: the same   *)
(* tests, stores, calls and return value, in the same order.                *)
SameBehaviour ==
    Done => \A o \in Outcomes : CodeRun(AsWritten, o) = ProgramRun(o)

(* So does the code CodeGenerate lays out block by block.                   *)
GeneratedBehaviour ==
    Done => \A o \in Outcomes : CodeRun(AsGenerated, o) = ProgramRun(o)

(* It does when nothing but the function's last return follows a return in  *)
(* its block: a block's calls and stores come before what leaves it.        *)
ReturnsLast ==
    \A bb \in DOMAIN code : \A i, j \in DOMAIN code[bb] :
        i < j /\ IsRet(code[bb][i]) => IsRet(code[bb][j])
GeneratedBehaviourIfLast == ReturnsLast => GeneratedBehaviour
=============================================================================
