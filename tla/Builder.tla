------------------------------- MODULE Builder -------------------------------
(****************************************************************************)
(* CminusfBuilder (src/cminusfc/cminusf_builder.cpp) and Scope              *)
(* (include/cminusf_builder.hpp): the visitor that turns the syntax tree of *)
(* a program with one function into lightir.                                *)
(*                                                                          *)
(* The recursion of the visits is the agenda: what the visits in progress   *)
(* have still to do, first thing first.  A node on it is a call of accept;  *)
(* the other items are what a visit does after its children returned.       *)
(*                                                                          *)
(* Syntax-tree nodes are the ones of the module Ast.                        *)
(* Constants, names of operators and array sizes are not kept.  An          *)
(* instruction is identified by its place, a value by the instruction that  *)
(* computes it.                                                             *)
(****************************************************************************)
EXTENDS Ast, SequencesExt

CONSTANT Programs    \* [globals : declarations, fun : function declaration]

VARIABLES
    prog,       \* the syntax tree
    agenda,     \* what the visits in progress have still to do
    code,       \* the function's blocks in creation order, instructions of each
    cur,        \* the builder's insert point BB_ (0 before the first block)
    scope,      \* Scope::inner, innermost last: from names to bindings
    val,        \* expressionValue
    addr,       \* varAddress
    aborted     \* an assertion has failed

vars == <<prog, agenda, code, cur, scope, val, addr, aborted>>

(* A value: its type, and where it comes from, a place in the code or a     *)
(* constant, a global, a parameter.  The pointee of an address is "i32",    *)
(* "float", or an array or a pointer of these.                              *)
Const(ty) == [ty |-> ty, from |-> <<"const">>]
NoVal == [ty |-> "void", from |-> <<"none">>]

ElemOf(ty) == IF ty \in {"float", "float[]", "float*"} THEN "float" ELSE "i32"
IsArray(ty) == ty \in {"i32[]", "float[]"}
PointerTo(ty) == IF ElemOf(ty) = "float" THEN "float*" ELSE "i32*"

(* A binding that is no address: a function.                                *)
Functions ==
    [input |-> [kind |-> "fun", ret |-> "i32", params |-> <<>>],
     output |-> [kind |-> "fun", ret |-> "void", params |-> <<"i32">>],
     outputFloat |-> [kind |-> "fun", ret |-> "void", params |-> <<"float">>],
     neg_idx_except |-> [kind |-> "fun", ret |-> "void", params |-> <<>>]]

Init ==
    /\ prog \in Programs
    /\ agenda = Append(prog.globals, prog.fun)
    /\ code = <<>>
    /\ cur = 0
    /\ scope = <<Functions>>
    /\ val = NoVal
    /\ addr = NoVal
    /\ aborted = FALSE

-----------------------------------------------------------------------------
(* Scope                                                                    *)

(* push: a name already bound in the innermost scope keeps its binding.     *)
Bound(s, name, b) ==
    LET top == s[Len(s)]
    IN  [s EXCEPT ![Len(s)] =
            [n \in DOMAIN top \cup {name} |-> IF n \in DOMAIN top THEN top[n] ELSE b]]

(* find: the innermost scope that binds the name.                           *)
Outermost(s, name) ==
    CHOOSE k \in 1 .. Len(s) : /\ name \in DOMAIN s[k]
                               /\ \A j \in 1 .. k - 1 : name \notin DOMAIN s[j]
Innermost(s, name) ==
    CHOOSE k \in 1 .. Len(s) : /\ name \in DOMAIN s[k]
                               /\ \A j \in k + 1 .. Len(s) : name \notin DOMAIN s[j]
Find(name) == scope[Innermost(scope, name)][name]

-----------------------------------------------------------------------------
(* IRBuilder: instructions go to the end of the block of the insert point.  *)

Inst(op, ty, args, to, tag) ==
    [op |-> op, ty |-> ty, args |-> args, to |-> to, tag |-> tag]

Put(c, bb, i) == [c EXCEPT ![bb] = Append(@, i)]

(* The value of the last instruction of the block.                          *)
LastOf(c, bb) == [ty |-> c[bb][Len(c[bb])].ty, from |-> <<"at", bb, Len(c[bb])>>]

(* An instruction o on the value v, and no, one or two instructions each on *)
(* the result of the last.                                                  *)
Converting(c, bb, v, o) ==
    LET d == Put(c, bb, Inst(o[1], o[2], <<v>>, <<>>, ""))
    IN  [c |-> d, v |-> LastOf(d, bb)]
Chained(c, bb, v, ops) ==
    LET s == Converting(c, bb, v, ops[1])
    IN  CASE Len(ops) = 0 -> [c |-> c, v |-> v]
          [] Len(ops) = 1 -> s
          [] Len(ops) = 2 -> Converting(s.c, bb, s.v, ops[2])

(* typeConvert: the conversions it knows; the assertion fails for others.   *)
ConversionBug(from, to) ==
    CASE from = "i32" /\ to = "float" -> << <<"sitofp", "float">> >>
      [] from = "float" /\ to = "i32" -> << <<"fptosi", "i32">> >>
      [] OTHER -> <<>>
Conversion(from, to) ==
    CASE from = "i32" /\ to = "float" -> << <<"sitofp", "float">> >>
      [] from = "float" /\ to = "i32" -> << <<"fptosi", "i32">> >>
      [] from = "i1" /\ to = "i32"    -> << <<"zext", "i32">> >>
      [] from = "i1" /\ to = "float"  -> << <<"zext", "i32">>, <<"sitofp", "float">> >>
      [] OTHER -> <<>>
Convertible(from, to) == from = to \/ Conversion(from, to) # <<>>
typeConvert(c, bb, v, to) == Chained(c, bb, v, Conversion(v.ty, to))

(* compareWith0                                                             *)
compareWith0Bug(c, bb, v) == [c |-> c, v |-> v]
compareWith0(c, bb, v) ==
    Chained(c, bb, v, IF v.ty = "i1" THEN <<>> ELSE << <<"ne0", "i1">> >>)

Fresh(k) == Len(code) + k
WithBlocks(c, n) == c \o [k \in 1 .. n |-> <<>>]

Br(to) == Inst("br", "void", <<>>, <<to>>, "")
CondBr(c, yes, no) == Inst("br", "void", <<c>>, <<yes, no>>, "")

-----------------------------------------------------------------------------
(* The agenda                                                               *)

Now == Head(agenda)
At(kind) == /\ ~ aborted
            /\ agenda # <<>>
            /\ Now.k = kind

(* The visit at the head is replaced by what it still has to do.            *)
Then(items) == agenda' = items \o Tail(agenda)

Keep == UNCHANGED <<prog, aborted>>

(* A visit that only calls other visits.                                    *)
Plan(items) ==
    /\ Then(items)
    /\ Keep /\ UNCHANGED <<code, cur, scope, val, addr>>

(* A visit that ends with the value v, computed in code c at the insert     *)
(* point.                                                                   *)
Yield(c, v) ==
    /\ code' = c
    /\ val' = v
    /\ Then(<<>>)
    /\ Keep /\ UNCHANGED <<cur, scope, addr>>

(* assert in typeConvert.                                                   *)
Abort ==
    /\ aborted' = TRUE
    /\ UNCHANGED <<prog, agenda, code, cur, scope, val, addr>>

(* scope.enter() ... scope.exit()                                           *)
ScopedBug(items) == items
Scoped(items) == Append(items, [k |-> "exit"])

Goto(bb)  == [k |-> "br", to |-> bb]
Place(bb) == [k |-> "at", bb |-> bb]

(* builder->create_br                                                       *)
CreateBr ==
    /\ At("br")
    /\ code' = Put(code, cur, Br(Now.to))
    /\ Then(<<>>)
    /\ Keep /\ UNCHANGED <<cur, scope, val, addr>>

(* builder->set_insert_point                                                *)
SetInsertPoint ==
    /\ At("at")
    /\ cur' = Now.bb
    /\ Then(<<>>)
    /\ Keep /\ UNCHANGED <<code, scope, val, addr>>

ExitScope ==
    /\ At("exit")
    /\ scope' = Front(scope)
    /\ Then(<<>>)
    /\ Keep /\ UNCHANGED <<code, cur, val, addr>>

-----------------------------------------------------------------------------
(* Declarations                                                             *)

VarBinding(ty, from) == [kind |-> "var", ty |-> ty, from |-> from]

VisitVarDeclaration ==
    /\ At("decl")
    /\ IF Len(scope) = 1
       THEN /\ scope' = Bound(scope, Now.id, VarBinding(Now.ty, <<"global", Now.cell>>))
            /\ UNCHANGED code
       ELSE LET c == Put(code, cur, Inst("alloca", Now.ty, <<>>, <<>>, Now.cell))
            IN  /\ code' = c
                /\ scope' = Bound(scope, Now.id, VarBinding(Now.ty, LastOf(c, cur).from))
    /\ Then(<<>>)
    /\ Keep /\ UNCHANGED <<cur, val, addr>>

(* The function's name is bound in the enclosing scope, its parameters in a *)
(* scope of their own around the body's.                                    *)
VisitFunDeclaration ==
    /\ At("fundecl")
    /\ LET f == [kind |-> "fun", ret |-> Now.ret,
                 params |-> [i \in 1 .. Len(Now.params) |-> Now.params[i].ty]]
       IN  scope' = Append(Bound(scope, Now.id, f), << >>)
    /\ code' = << <<>> >>
    /\ cur' = 1
    /\ Then(Scoped(Append(Now.params, Now.body)) \o << [k |-> "implicit", ret |-> Now.ret] >>)
    /\ Keep /\ UNCHANGED <<val, addr>>

(* ASTParam, and the store that follows it.                                 *)
VisitParam ==
    /\ At("param")
    /\ LET c == Put(code, cur, Inst("alloca", Now.ty, <<>>, <<>>, Now.cell))
           p == LastOf(c, cur)
           a == [ty |-> Now.ty, from |-> <<"arg", Now.cell>>]
       IN  /\ scope' = Bound(scope, Now.id, VarBinding(Now.ty, p.from))
           /\ code' = Put(c, cur, Inst("store", "void", <<a, p>>, <<>>, ""))
    /\ Then(<<>>)
    /\ Keep /\ UNCHANGED <<cur, val, addr>>

(* The return at the end of every function.                                 *)
ImplicitReturn ==
    /\ At("implicit")
    /\ code' = Put(code, cur, Inst("ret", "void",
                    IF Now.ret = "void" THEN <<>> ELSE <<Const(Now.ret)>>, <<>>, ""))
    /\ Then(<<>>)
    /\ Keep /\ UNCHANGED <<cur, scope, val, addr>>

-----------------------------------------------------------------------------
(* Statements                                                               *)

VisitCompoundStmt ==
    /\ At("block")
    /\ scope' = Append(scope, << >>)
    /\ Then(Scoped(Now.decls \o Now.stmts))
    /\ Keep /\ UNCHANGED <<code, cur, val, addr>>

(* What is generated in a block of its own, before the branch that ends it. *)
ArmFallsThrough(bb, stmts, to) == <<Place(bb)>> \o stmts
Arm(bb, stmts, to) == <<Place(bb)>> \o stmts \o <<Goto(to)>>

(* A statement without expression does nothing.                             *)
VisitExpressionStmt ==
    /\ At("empty")
    /\ Plan(<<>>)

(* The condition first; the blocks are made afterwards.                     *)
VisitSelectionStmt ==
    /\ At("if")
    /\ Plan(<<Now.cond, [k |-> "branch", yes |-> Now.yes, no |-> Now.no]>>)

Branch ==
    /\ At("branch")
    /\ LET s         == compareWith0(code, cur, val)
           true      == Fresh(1)
           following == Fresh(2)
           false     == Fresh(3)
       IN  IF Now.no = <<>>
           THEN /\ code' = Put(WithBlocks(s.c, 2), cur, CondBr(s.v, true, following))
                /\ Then(Arm(true, Now.yes, following) \o <<Place(following)>>)
           ELSE /\ code' = Put(WithBlocks(s.c, 3), cur, CondBr(s.v, true, false))
                /\ Then(Arm(true, Now.yes, following) \o Arm(false, Now.no, following)
                            \o <<Place(following)>>)
    /\ Keep /\ UNCHANGED <<cur, scope, val, addr>>

VisitIterationStmt ==
    /\ At("while")
    /\ code' = Put(WithBlocks(code, 1), cur, Br(Fresh(1)))
    /\ cur' = Fresh(1)
    /\ Then(<<Now.cond, [k |-> "body", head |-> Fresh(1), body |-> Now.body]>>)
    /\ Keep /\ UNCHANGED <<scope, val, addr>>

(* The condition is compared where it was computed; the body gets a block.  *)
LoopBody ==
    /\ At("body")
    /\ LET s == compareWith0(code, cur, val)
       IN  /\ code' = WithBlocks(s.c, 1)
           /\ Then(Arm(Fresh(1), Now.body, Now.head)
                     \o << [k |-> "loop", head |-> Now.head, body |-> Fresh(1), cond |-> s.v] >>)
    /\ Keep /\ UNCHANGED <<cur, scope, val, addr>>

(* The branch on the condition is put into the block the loop began with.   *)
LoopBranch ==
    /\ At("loop")
    /\ code' = Put(WithBlocks(code, 1), Now.head, CondBr(Now.cond, Now.body, Fresh(1)))
    /\ cur' = Fresh(1)
    /\ Then(<<>>)
    /\ Keep /\ UNCHANGED <<scope, val, addr>>

VisitReturnStmt ==
    /\ At("return")
    /\ IF Now.value = <<>>
       THEN /\ code' = Put(code, cur, Inst("ret", "void", <<>>, <<>>, ""))
            /\ Then(<<>>)
       ELSE /\ Then(Now.value \o << [k |-> "returned"] >>)
            /\ UNCHANGED code
    /\ Keep /\ UNCHANGED <<cur, scope, val, addr>>

returnValueType == prog.fun.ret

Returned ==
    /\ At("returned")
    /\ IF Convertible(val.ty, returnValueType)
       THEN LET s == typeConvert(code, cur, val, returnValueType)
            IN  Yield(Put(s.c, cur, Inst("ret", "void", <<s.v>>, <<>>, "")), s.v)
       ELSE Abort

-----------------------------------------------------------------------------
(* Expressions                                                              *)

VisitNum ==
    /\ At("num")
    /\ Yield(code, Const(Now.ty))

(* The end of ASTVar: the variable is loaded, and an array gives way to the *)
(* address of its first element.                                            *)
Loaded(c, a) ==
    LET d == Put(c, cur, Inst("load", a.ty, <<a>>, <<>>, ""))
        e == Put(d, cur, Inst("gep", PointerTo(a.ty), <<a, Const("i32")>>, <<>>, ""))
        r == IF IsArray(a.ty) THEN e ELSE d
    IN  /\ addr' = a
        /\ code' = r
        /\ val' = LastOf(r, cur)

VisitVar ==
    /\ At("var")
    /\ LET b == Find(Now.id) IN Loaded(code, [ty |-> b.ty, from |-> b.from])
    /\ Then(<<>>)
    /\ Keep /\ UNCHANGED <<cur, scope>>

(* The array is looked up before the index is visited.                      *)
VisitElement ==
    /\ At("elem")
    /\ Plan(<<Now.index, [k |-> "checked", array |-> Find(Now.id)]>>)

(* The index is tested in the block it was computed in, a negative one      *)
(* calls neg_idx_except; the element is addressed in a block of its own,    *)
(* where the insert point stays.                                            *)
Element ==
    /\ At("checked")
    /\ IF Convertible(val.ty, "i32")
       THEN LET s == typeConvert(code, cur, val, "i32")
                t == Put(s.c, cur, Inst("neg", "i1", <<s.v>>, <<>>, ""))
                u == Put(WithBlocks(t, 2), cur, CondBr(LastOf(t, cur), Fresh(1), Fresh(2)))
            IN  /\ code' = Put(Put(u, Fresh(1), Inst("call", "void", <<>>, <<>>, "neg_idx_except")),
                               Fresh(1), Br(Fresh(2)))
                /\ val' = s.v
                /\ cur' = Fresh(2)
                /\ Then(<< [k |-> "address", array |-> Now.array] >>)
                /\ Keep /\ UNCHANGED <<scope, addr>>
       ELSE Abort

Address ==
    /\ At("address")
    /\ LET a == [ty |-> Now.array.ty, from |-> Now.array.from]
           p == Put(code, cur, Inst("load", a.ty, <<a>>, <<>>, ""))
           base == IF IsArray(a.ty) THEN [c |-> code, v |-> a] ELSE [c |-> p, v |-> LastOf(p, cur)]
           g == Put(base.c, cur, Inst("gep", ElemOf(a.ty), <<base.v, val>>, <<>>, ""))
       IN  Loaded(g, LastOf(g, cur))
    /\ Then(<<>>)
    /\ Keep /\ UNCHANGED <<cur, scope>>

(* The address of the variable first, then the right-hand side.             *)
VisitAssign ==
    /\ At("assign")
    /\ Plan(<<Now.var, [k |-> "target", rhs |-> Now.rhs]>>)

Target ==
    /\ At("target")
    /\ Plan(<<Now.rhs, [k |-> "store", to |-> addr]>>)

Store ==
    /\ At("store")
    /\ IF Convertible(val.ty, Now.to.ty)
       THEN LET s == typeConvert(code, cur, val, Now.to.ty)
            IN  Yield(Put(s.c, cur, Inst("store", "void", <<s.v, Now.to>>, <<>>, "")), s.v)
       ELSE Abort

(* ASTSimpleExpression, ASTAdditiveExpression, ASTTerm with two operands:   *)
(* op is "rel", "add" or "mul".                                             *)
VisitBinary ==
    /\ At("binary")
    /\ Plan(<<Now.l, [k |-> "right", op |-> Now.op, r |-> Now.r]>>)

Right ==
    /\ At("right")
    /\ Plan(<<Now.r, [k |-> "combine", op |-> Now.op, l |-> val]>>)

(* Both i32: the integer instruction; otherwise both are made float.        *)
Combine ==
    /\ At("combine")
    /\ LET type == IF Now.l.ty = "i32" /\ val.ty = "i32" THEN "i32" ELSE "float"
           l == typeConvert(code, cur, Now.l, type)
           r == typeConvert(l.c, cur, val, type)
           c == Put(r.c, cur, Inst(Now.op, IF Now.op = "rel" THEN "i1" ELSE type,
                                   <<l.v, r.v>>, <<>>, type))
       IN  IF Convertible(Now.l.ty, type) /\ Convertible(val.ty, type)
           THEN Yield(c, LastOf(c, cur))
           ELSE Abort

(* ASTCall: the arguments in turn, each converted before the next one.      *)
VisitCall ==
    /\ At("call")
    /\ Plan(<< [k |-> "args", id |-> Now.id, fun |-> Find(Now.id),
                todo |-> Now.args, done |-> <<>>] >>)

NextArgument ==
    /\ At("args")
    /\ Now.todo # <<>>
    /\ Plan(<<Head(Now.todo), [Now EXCEPT !.k = "arg"]>>)

Argument ==
    /\ At("arg")
    /\ LET ty == Now.fun.params[Len(Now.done) + 1]
           s  == typeConvert(code, cur, val, ty)
       IN  IF Convertible(val.ty, ty)
           THEN /\ code' = s.c
                /\ val' = s.v
                /\ Then(<< [Now EXCEPT !.k = "args", !.todo = Tail(@),
                                       !.done = Append(@, s.v)] >>)
                /\ Keep /\ UNCHANGED <<cur, scope, addr>>
           ELSE Abort

CreateCall ==
    /\ At("args")
    /\ Now.todo = <<>>
    /\ LET c == Put(code, cur, Inst("call", Now.fun.ret, Now.done, <<>>, Now.id))
       IN  Yield(c, LastOf(c, cur))

Next ==
    \/ CreateBr \/ SetInsertPoint \/ ExitScope
    \/ VisitVarDeclaration \/ VisitFunDeclaration \/ VisitParam \/ ImplicitReturn
    \/ VisitCompoundStmt \/ VisitExpressionStmt \/ VisitSelectionStmt \/ Branch
    \/ VisitIterationStmt \/ LoopBody \/ LoopBranch
    \/ VisitReturnStmt \/ Returned
    \/ VisitNum \/ VisitVar \/ VisitElement \/ Element \/ Address
    \/ VisitAssign \/ Target \/ Store
    \/ VisitBinary \/ Right \/ Combine
    \/ VisitCall \/ NextArgument \/ Argument \/ CreateCall

Spec == Init /\ [][Next]_vars
=============================================================================
