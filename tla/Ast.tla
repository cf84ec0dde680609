-------------------------------- MODULE Ast --------------------------------
(****************************************************************************)
(* The nodes of the syntax tree (include/ast.hpp) that the visitor of the   *)
(* module Builder is given.                                                 *)
(*                                                                          *)
(* Optional children are sequences of at most one; the type of a            *)
(* declaration tells an array.  A cell tells apart declarations of a name.  *)
(* Texts of numbers and the three or six operators of a kind are not told   *)
(* apart.  An expression of one operand has no node of its own.             *)
(****************************************************************************)
Decl(id, ty, cell)  == [k |-> "decl", id |-> id, ty |-> ty, cell |-> cell]
Param(id, ty, cell) == [k |-> "param", id |-> id, ty |-> ty, cell |-> cell]
FunDecl(id, ret, params, body) ==
    [k |-> "fundecl", id |-> id, ret |-> ret, params |-> params, body |-> body]
Block(decls, stmts) == [k |-> "block", decls |-> decls, stmts |-> stmts]
Empty               == [k |-> "empty"]
If(cond, yes, no)   == [k |-> "if", cond |-> cond, yes |-> yes, no |-> no]
While(cond, body)   == [k |-> "while", cond |-> cond, body |-> body]
Return(value)       == [k |-> "return", value |-> value]
Assign(var, rhs)    == [k |-> "assign", var |-> var, rhs |-> rhs]
Binary(op, l, r)    == [k |-> "binary", op |-> op, l |-> l, r |-> r]
Var(id)             == [k |-> "var", id |-> id]
Elem(id, index)     == [k |-> "elem", id |-> id, index |-> index]
Num(ty)             == [k |-> "num", ty |-> ty]
CallOf(id, args)    == [k |-> "call", id |-> id, args |-> args]
=============================================================================
