--------------------------------- MODULE Ir ---------------------------------
(****************************************************************************)
(* The types of lightir (src/lightir/Type.cpp) and its instructions         *)
(* (Instruction.cpp): the type a constructor gives the instruction, and     *)
(* what the operands' types have to be for it to be one.  Part of that the  *)
(* constructors assert; part assertValid says, which no constructor calls;  *)
(* the rest follows from what print writes: it names the type of an operand *)
(* once, and the reader of the text takes it for all.                       *)
(*                                                                          *)
(* tys are the types of an instruction's operands, ty the type a create_... *)
(* function is given.                                                       *)
(****************************************************************************)
EXTENDS Naturals, Sequences

Void  == <<"void">>
Int1  == <<"int1">>
Int32 == <<"int32">>
Float == <<"float">>
Pointer(contained) == <<"pointer", contained>>
ArrayOf(contained) == <<"array", contained>>

is_integer_type(t) == t \in {Int1, Int32}
is_pointer_type(t) == t[1] = "pointer"
is_array_type(t)   == t[1] = "array"
get_pointer_element_type(t) == IF is_pointer_type(t) THEN t[2] ELSE Void

(* The assertions of FunctionType and ArrayType.                            *)
FunctionTypeFits(result, params) ==
    /\ is_integer_type(result) \/ result \in {Void, Float}
    /\ \A i \in DOMAIN params :
          is_integer_type(params[i]) \/ is_pointer_type(params[i]) \/ params[i] = Float
ArrayTypeFits(t) == is_array_type(t) => is_integer_type(t[2]) \/ is_array_type(t[2]) \/ t[2] = Float

(* GetElementPtrInst::get_element_type with n indices: an array's element   *)
(* is reached by the second.                                                *)
get_element_type(t, n) ==
    LET pointee == get_pointer_element_type(t)
    IN  IF is_array_type(pointee) /\ n > 1 THEN pointee[2] ELSE pointee

BinaryInst(ty, tys) == tys[1] = ty /\ tys[2] = ty /\ ty \in {Int32, Float}
CmpInst(tys)        == is_integer_type(tys[1]) /\ tys[2] = tys[1]
FCmpInst(tys)       == tys = <<Float, Float>>
CallInst(params, tys) == tys = params
BranchInst(tys)     == tys \in {<<>>, <<Int1>>}
ReturnInst(result, tys) == tys = (IF result = Void THEN <<>> ELSE <<result>>)
GetElementPtrInst(tys) ==
    LET pointee == get_pointer_element_type(tys[1])
    IN  /\ is_pointer_type(tys[1])
        /\ is_array_type(pointee) \/ is_integer_type(pointee) \/ pointee = Float
        /\ \A i \in 2 .. Len(tys) : tys[i] = Int32
StoreInst(tys)      == tys[2] = Pointer(tys[1])
LoadInst(ty, tys)   == is_pointer_type(tys[1]) /\ ty = tys[1][2]
AllocaInst(ty, tys) == ty # Void /\ tys = <<>>
ZextInst(ty, tys)   == tys = <<Int1>> /\ ty = Int32
FpToSiInst(ty, tys) == tys = <<Float>> /\ ty = Int32
SiToFpInst(ty, tys) == is_integer_type(tys[1]) /\ ty = Float

(* The type of the instruction.                                             *)
ResultType(op, ty, tys) ==
    CASE op \in {"cmp", "fcmp"} -> Int1
      [] op \in {"br", "ret", "store"} -> Void
      [] op = "alloca" -> Pointer(ty)
      [] op = "getelementptr" -> Pointer(get_element_type(tys[1], Len(tys) - 1))
      [] OTHER -> ty
=============================================================================
