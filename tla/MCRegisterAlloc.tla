-------------------------- MODULE MCRegisterAlloc --------------------------
(****************************************************************************)
(* A small register file, and a few values of each kind.                    *)
(****************************************************************************)
EXTENDS RegisterAlloc, TLC

TwoIntRegs == <<"r10d", "r11d">>
OneFloatReg == <<"xmm8">>

(* An array parameter, the address of an element, floats, integers.         *)
ValueKind == [v \in Values |->
                 CASE v \in {"arr", "elt"} -> "ptr"
                   [] v \in {"f", "g"}     -> "float"
                   [] OTHER                -> "int"]
=============================================================================
