----------------------------- MODULE MCCallStack -----------------------------
(****************************************************************************)
(* Four functions: main, with an array and a global variable; one with      *)
(* arguments of every kind, all of them in registers, and an array; one     *)
(* with two integers too many, and main's global; one with seven arguments  *)
(* that all find a register.                                                *)
(****************************************************************************)
EXTENDS CallStack, TLC

MCFunctions == <<"main", "mixed", "many", "seven">>

Mixed == <<"a1", "a2", "x1", "p">>
Many  == <<"b1", "b2", "b3", "b4", "b5", "b6", "b7", "b8">>
Seven == <<"c1", "y1", "y2", "c2", "y3", "y4", "c3">>
MCParams == << <<>>, Mixed, Many, Seven >>
MCLocals == << {"i", "arr", "g", "f"}, {"r", "small"}, {"g", "e"}, {"h"} >>
MCReturned == << {}, {"r"}, {}, {} >>

MCValues == ToSet(Mixed) \cup ToSet(Many) \cup ToSet(Seven) \cup UNION {MCLocals[f] : f \in 1 .. 4}
MCKind == [v \in MCValues |-> CASE v \in {"x1", "y1", "y2", "y3", "y4", "f"} -> "float"
                                [] v \in {"p", "e"} -> "ptr"
                                [] v = "g" -> "global"
                                [] v \in {"arr", "small"} -> "array"
                                [] OTHER -> "int"]
MCLength == [v \in MCValues |-> CASE v = "arr" -> 3 [] v = "small" -> 1 [] OTHER -> 0]
=============================================================================
