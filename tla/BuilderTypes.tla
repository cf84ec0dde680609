---------------------------- MODULE BuilderTypes ----------------------------
(****************************************************************************)
(* The types of what CminusfBuilder is given and of what it generates:      *)
(* which programs the language admits, and what makes the instructions of   *)
(* the module Builder ones lightir can have (module Ir).                    *)
(*                                                                          *)
(* The types of a program's parts are given as a set of judgements that     *)
(* holds, with every judgement, those it follows from.                      *)
(****************************************************************************)
EXTENDS Builder, FiniteSets

I == INSTANCE Ir

CONSTANTS
    Typing,     \* the judgements
    Straight    \* expressions that index no array

-----------------------------------------------------------------------------
(* Well-typed programs: the language's rules, and what the visits take for  *)
(* granted.  None of them checks that a name is bound (Scope::find returns  *)
(* a null pointer), that a call has as many arguments as parameters, that   *)
(* what is indexed is an array, or that a function returns what it says.    *)

Types == {"void", "i1", "i32", "float", "i32[]", "float[]", "i32*", "float*"}
Numeric == {"i1", "i32", "float"}
LocalTypes == {"i32", "float", "i32[]", "float[]"}
ParamTypes == {"i32", "float", "i32*", "float*"}
VarTypes == LocalTypes \cup ParamTypes

IsList(s) == s \in Seq({s[i] : i \in DOMAIN s})

(* What the scopes bind names to, without the addresses.                    *)
VarSig(ty) == [kind |-> "var", ty |-> ty]
FunSig(f) == [kind |-> "fun", ret |-> f.ret, params |-> [i \in 1 .. Len(f.params) |-> f.params[i].ty]]
Signature(b) == IF b.kind = "fun" THEN b ELSE VarSig(b.ty)
Signatures(s) == [k \in DOMAIN s |-> [n \in DOMAIN s[k] |-> Signature(s[k][n])]]

(* The functions a program can call.                                        *)
Callee(p, id) == IF id = p.fun.id THEN FunSig(p.fun) ELSE Functions[id]

(* The scope b after the first k of the declarations ds.                    *)
Opened(b, ds, k) ==
    [n \in DOMAIN b \cup {ds[i].id : i \in 1 .. k} |->
        IF n \in DOMAIN b THEN b[n]
        ELSE VarSig(ds[CHOOSE i \in 1 .. k : ds[i].id = n /\ \A j \in 1 .. i - 1 : ds[j].id # n].ty)]
Inside(ds) == Opened(<< >>, ds, Len(ds))

IsBound(s, id) ==
    \E k \in 1 .. Len(s) : /\ id \in DOMAIN s[k]
                           /\ \A j \in k + 1 .. Len(s) : id \notin DOMAIN s[j]
Meaning(s, id) == s[Innermost(s, id)][id]
IsVar(s, id) ==
    /\ IsBound(s, id)
    /\ Meaning(s, id).kind = "var"
    /\ Meaning(s, id).ty \in VarTypes

(* The type of the variable, or the element of one, that e names.           *)
PlaceType(s, e) == IF e.k = "var" THEN Meaning(s, e.id).ty ELSE ElemOf(Meaning(s, e.id).ty)
BinaryType(op, l, r) ==
    IF op = "rel" THEN "i1" ELSE IF l = "i32" /\ r = "i32" THEN "i32" ELSE "float"

(* Numbers, and the results of comparisons, are converted into each other.  *)
Admitted(from, to) == from = to \/ (from \in Numeric /\ to \in {"i32", "float"})

(* In program p, where the scopes s are, node e has type ty: a statement    *)
(* has the type "any".                                                      *)
Typed(p, s, e, ty) == [prog |-> p, scopes |-> s, node |-> e, ty |-> ty] \in Typing
Has(p, s, e, tys) == \E ty \in tys : Typed(p, s, e, ty)
Converts(p, s, e, to) == \E ty \in Types : Typed(p, s, e, ty) /\ Admitted(ty, to)
Statements(p, s, es) == IsList(es) /\ \A i \in DOMAIN es : Has(p, s, es[i], Types \cup {"any"})

(* The rule of each kind of node.                                           *)
Rule(p, s, e, ty) ==
    CASE e.k = "num" -> ty = e.ty /\ ty \in {"i32", "float"}
      [] e.k = "var" ->
            /\ IsVar(s, e.id)
            /\ LET t == Meaning(s, e.id).ty IN ty = (IF IsArray(t) THEN PointerTo(t) ELSE t)
      [] e.k = "elem" ->
            /\ IsVar(s, e.id)
            /\ Meaning(s, e.id).ty \notin {"i32", "float"}
            /\ Converts(p, s, e.index, "i32")
            /\ ty = PlaceType(s, e)
      [] e.k = "assign" ->
            /\ e.var.k \in {"var", "elem"}
            /\ Has(p, s, e.var, Types)
            /\ Converts(p, s, e.rhs, PlaceType(s, e.var))
            /\ ty = PlaceType(s, e.var)
      [] e.k = "binary" ->
            /\ e.op \in {"rel", "add", "mul"}
            /\ \E l, r \in Numeric : /\ Typed(p, s, e.l, l)
                                     /\ Typed(p, s, e.r, r)
                                     /\ ty = BinaryType(e.op, l, r)
      [] e.k = "call" ->
            /\ IsBound(s, e.id)
            /\ LET f == Meaning(s, e.id)
               IN  /\ f.kind = "fun"
                   /\ IsList(e.args)
                   /\ Len(e.args) = Len(f.params)
                   /\ \A i \in DOMAIN e.args : Converts(p, s, e.args[i], f.params[i])
                   /\ ty = f.ret
      [] e.k = "block" ->
            /\ IsList(e.decls)
            /\ \A i \in DOMAIN e.decls : e.decls[i].k = "decl" /\ e.decls[i].ty \in LocalTypes
            /\ Statements(p, Append(s, Inside(e.decls)), e.stmts)
            /\ ty = "any"
      [] e.k = "empty" -> ty = "any"
      [] e.k = "if" ->
            Has(p, s, e.cond, Numeric) /\ Statements(p, s, e.yes) /\ Statements(p, s, e.no) /\ ty = "any"
      [] e.k = "while" -> Has(p, s, e.cond, Numeric) /\ Statements(p, s, e.body) /\ ty = "any"
      [] e.k = "return" ->
            /\ \/ e.value = <<>> /\ p.fun.ret = "void"
               \/ Len(e.value) = 1 /\ p.fun.ret # "void"
            /\ IsList(e.value)
            /\ \A i \in DOMAIN e.value : Converts(p, s, e.value[i], p.fun.ret)
            /\ ty = "any"
      [] OTHER -> FALSE

ProgramRule(p) ==
    LET f    == p.fun
        outer == Opened(Functions, p.globals, Len(p.globals))
    IN  /\ IsList(p.globals)
        /\ \A i \in DOMAIN p.globals : p.globals[i].k = "decl" /\ p.globals[i].ty \in LocalTypes
        /\ f.k = "fundecl"
        /\ f.ret \in {"i32", "float", "void"}
        /\ f.id \notin DOMAIN outer
        /\ IsList(f.params)
        /\ \A i \in DOMAIN f.params : f.params[i].k = "param" /\ f.params[i].ty \in ParamTypes
        /\ Typed(p, << [n \in DOMAIN outer \cup {f.id} |-> IF n = f.id THEN FunSig(f) ELSE outer[n]],
                       Inside(f.params)>>, f.body, "any")

ASSUME TypingAssumption ==
    /\ \A p \in Programs : ProgramRule(p)
    /\ \A j \in Typing : Rule(j.prog, j.scopes, j.node, j.ty)

StraightRule(e) ==
    \/ e.k \in {"num", "var"}
    \/ e.k = "assign" /\ e.var.k = "var" /\ e.rhs \in Straight
    \/ e.k = "binary" /\ {e.l, e.r} \subseteq Straight
    \/ e.k = "call" /\ \A i \in DOMAIN e.args : e.args[i] \in Straight

ASSUME StraightAssumption == \A e \in Straight : StraightRule(e)

(* No loop of p is tested on an expression that indexes an array.           *)
LoopsTestStraight(p) ==
    \A j \in Typing : j.prog = p /\ j.node.k = "while" => j.node.cond \in Straight

-----------------------------------------------------------------------------
(* The instructions as lightir has them                                     *)

IrType(ty) ==
    CASE ty = "i32" -> I!Int32
      [] ty = "i1" -> I!Int1
      [] ty = "float" -> I!Float
      [] ty = "void" -> I!Void
      [] ty \in {"i32*", "float*"} -> I!Pointer(IF ty = "i32*" THEN I!Int32 ELSE I!Float)
      [] IsArray(ty) -> I!ArrayOf(IF ty = "i32[]" THEN I!Int32 ELSE I!Float)

Operation(inst) ==
    CASE inst.op \in {"rel", "ne0", "neg"} ->
            IF (inst.op = "rel" /\ inst.tag = "float") \/ (inst.op = "ne0" /\ inst.args[1].ty = "float")
            THEN "fcmp" ELSE "cmp"
      [] inst.op = "gep" -> "getelementptr"
      [] OTHER -> inst.op

(* The type of an instruction.  That a constructor gives it this type, for  *)
(* the operands it has, is part of Fits.                                    *)
TypeOfInst(inst) ==
    CASE inst.op \in {"rel", "ne0", "neg"} -> I!Int1
      [] inst.op \in {"br", "ret", "store"} -> I!Void
      [] inst.op = "alloca" -> I!Pointer(IrType(inst.ty))
      [] inst.op = "gep" -> I!Pointer(IrType(ElemOf(inst.ty)))
      [] OTHER -> IrType(inst.ty)

TypeOfValue(c, v) ==
    CASE v.from[1] = "global" -> I!Pointer(IrType(v.ty))
      [] v.from[1] = "at" -> TypeOfInst(c[v.from[2]][v.from[3]])
      [] OTHER -> IrType(v.ty)

(* The types of the operands lightir has: comparisons with zero have one    *)
(* more, an element of an array is addressed through index zero.            *)
OperandTypes(c, inst) ==
    LET tys == [n \in DOMAIN inst.args |-> TypeOfValue(c, inst.args[n])]
    IN  CASE inst.op = "ne0" -> Append(tys, IF Operation(inst) = "fcmp" THEN I!Float ELSE I!Int32)
          [] inst.op = "neg" -> Append(tys, I!Int32)
          [] inst.op = "gep" /\ I!is_array_type(I!get_pointer_element_type(tys[1])) ->
                <<tys[1], I!Int32, tys[2]>>
          [] OTHER -> tys

(* The instruction is one, in the code c of program p.                      *)
Fits(p, c, inst) ==
    LET ty  == IrType(inst.ty)
        tys == OperandTypes(c, inst)
        op  == Operation(inst)
    IN  /\ TypeOfInst(inst) = I!ResultType(op, ty, tys)
        /\ CASE op \in {"add", "mul"} -> I!BinaryInst(ty, tys)
             [] op = "cmp" -> I!CmpInst(tys)
             [] op = "fcmp" -> I!FCmpInst(tys)
             [] op = "call" ->
                   LET f == Callee(p, inst.tag).params
                   IN  I!CallInst([i \in DOMAIN f |-> IrType(f[i])], tys)
             [] op = "br" -> I!BranchInst(tys)
             [] op = "ret" -> I!ReturnInst(IrType(p.fun.ret), tys)
             [] op = "getelementptr" -> I!GetElementPtrInst(tys)
             [] op = "store" -> I!StoreInst(tys)
             [] op = "load" -> I!LoadInst(ty, tys)
             [] op = "alloca" -> I!AllocaInst(ty, tys) /\ I!ArrayTypeFits(ty)
             [] op = "zext" -> I!ZextInst(ty, tys)
             [] op = "fptosi" -> I!FpToSiInst(ty, tys)
             [] op = "sitofp" -> I!SiToFpInst(ty, tys)

IsBr(i) == i.op = "br"
IsRet(i) == i.op = "ret"

-----------------------------------------------------------------------------
(* Properties                                                               *)

Done == agenda = <<>> /\ ~ aborted

(* The insert point is a block of the function, what instructions use was   *)
(* computed before in some block, and branches lead to blocks.              *)
TypeOK ==
    /\ cur \in 0 .. Len(code)
    /\ (code # <<>>) => cur # 0
    /\ {val.ty, addr.ty} \subseteq Types
    /\ \A bb \in DOMAIN code : \A i \in DOMAIN code[bb] :
            LET inst == code[bb][i]
            IN  /\ inst.ty \in Types
                /\ \A n \in DOMAIN inst.to : inst.to[n] \in DOMAIN code
                /\ \A n \in DOMAIN inst.args : inst.args[n].from[1] = "at" =>
                        LET at == inst.args[n].from
                        IN  at[2] \in DOMAIN code /\ at[3] \in DOMAIN code[at[2]]

(* The code is well formed all along (TypeOK), and every scope a visit      *)
(* enters is left by that visit, whatever the visits it makes do:           *)
(* Scope::inner holds the global scope and one scope for each visit of a    *)
(* function or a compound statement in progress.                            *)
ScopesFollowVisits ==
    /\ TypeOK
    /\ Len(scope) = 1 + Cardinality({i \in DOMAIN agenda : agenda[i].k = "exit"})

(* The assertion of typeConvert: whatever the operands of a program that    *)
(* uses no array as a number, there is a conversion for them.               *)
ConversionsHold == ~ aborted

(* All instructions are ones lightir can have and its reader will take: the *)
(* types of operands agree with each other, with the called function's      *)
(* parameters, the pointer stored to, the result returned.                  *)
InstructionsFit ==
    Done => /\ \A bb \in DOMAIN code : \A i \in DOMAIN code[bb] : Fits(prog, code, code[bb][i])
            /\ I!FunctionTypeFits(IrType(prog.fun.ret),
                                  [i \in DOMAIN prog.fun.params |-> IrType(prog.fun.params[i].ty)])

(* When the visitor has finished, every block ends with a terminator, what  *)
(* BasicBlock::get_terminator and the passes look for, unless a loop of the *)
(* program is tested on an array element.                                   *)
EveryBlockEnds ==
    Done /\ LoopsTestStraight(prog) =>
        \A bb \in DOMAIN code :
            code[bb] # <<>> /\ (IsBr(code[bb][Len(code[bb])]) \/ IsRet(code[bb][Len(code[bb])]))
=============================================================================
