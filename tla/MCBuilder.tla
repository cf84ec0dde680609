------------------------------ MODULE MCBuilder ------------------------------
(* Programs for BuilderRun.  Every declaration has a cell of its own, by    *)
(* which the runs tell apart variables of the same name.                    *)
EXTENDS BuilderRun

(* Globals x, y, a and t; f(float x, int b[], int n), whose x hides the     *)
(* global; decls hide again.                                                *)
Program(ret, decls, stmts) ==
    [globals |-> <<Decl("x", "i32", "x global"), Decl("y", "float", "y global"),
                   Decl("a", "i32[]", "a global"), Decl("t", "float[]", "t global")>>,
     fun |-> FunDecl("f", ret, <<Param("x", "float", "x param"), Param("b", "i32*", "b param"),
                                 Param("n", "i32", "n param")>>,
                     Block(decls, stmts))]

x == Var("x")
y == Var("y")
n == Var("n")

(* Expressions over the variables, without and with relations, and with     *)
(* assignments, calls and elements inside.                                  *)
Simple == {x, y, n, Num("i32"), Elem("a", n), Elem("b", Num("i32")), Elem("t", y),
           Elem("a", Elem("b", x)), CallOf("input", <<>>),
           CallOf("f", <<n, Var("a"), x>>), Assign(n, x), Assign(y, n)}
Arithmetic == {Binary("add", l, r) : l \in {x, n, Elem("a", n), CallOf("input", <<>>), Assign(n, y)},
                                     r \in {y, n, Elem("b", x), Assign(x, n)}}
                \cup {Binary("mul", Binary("add", x, n), n), Binary("add", n, Binary("mul", n, y))}
Relations == {Binary("rel", l, r) : l \in {x, n, Elem("b", n)},
                                    r \in {y, n, Binary("mul", n, x), CallOf("input", <<>>)}}
Expressions == Simple \cup Arithmetic \cup Relations

(* Each expression where it is assigned, passed, tested, used as an index   *)
(* and returned; a void call is not used as a value.                        *)
ExpressionPrograms ==
    {Program("i32", <<Decl("y", "i32", "y local")>>, <<Assign(y, e), Return(<<e>>)>>) : e \in Expressions}
    \cup {Program("float", <<>>, <<CallOf("output", <<e>>), CallOf("outputFloat", <<e>>), Assign(x, e)>>) : e \in Expressions}
    \cup {Program("void", <<Decl("a", "i32[]", "a local")>>,
                  <<If(e, <<Assign(Elem("a", e), n)>>, <<>>), Return(<<>>)>>) :
                e \in {i \in Expressions : i.k = "call" => i.id # "f"}}

(* Statements inside one another: conditionals, loops, blocks that hide     *)
(* names, returns in the middle.                                            *)
Leaves == {Assign(x, n), Empty, CallOf("output", <<Elem("a", x)>>), Return(<<x>>),
           Block(<<Decl("x", "i32", "x inner")>>, <<Assign(x, Elem("b", n))>>)}
Branches(s, u) == {If(Binary("rel", x, n), <<s>>, <<>>), If(n, <<s>>, <<u>>),
                   While(Binary("rel", n, x), <<s>>), While(CallOf("input", <<>>), <<Block(<<>>, <<s, u>>)>>),
                   Block(<<Decl("n", "float", "n inner")>>, <<s, u>>)}
Nested == UNION {Branches(s, u) : s \in Leaves, u \in Leaves}
StatementPrograms ==
    {Program("i32", <<>>, <<s, Assign(n, x)>>) : s \in UNION {Branches(i, Assign(n, x)) : i \in Nested}}

AllPrograms == ExpressionPrograms \cup StatementPrograms

(* A loop tested on an element.                                             *)
IndexedLoops == {Program("void", <<>>, <<While(Elem("a", n), <<Assign(n, x)>>)>>)}

-----------------------------------------------------------------------------
(* The typing of these programs: the body's judgement and those it follows  *)
(* from.                                                                    *)

RECURSIVE TypeIn(_, _), Judgements(_, _, _)
TypeIn(s, e) ==
    CASE e.k = "num" -> e.ty
      [] e.k = "var" -> LET t == Meaning(s, e.id).ty IN IF IsArray(t) THEN PointerTo(t) ELSE t
      [] e.k = "elem" -> PlaceType(s, e)
      [] e.k = "assign" -> PlaceType(s, e.var)
      [] e.k = "binary" -> BinaryType(e.op, TypeIn(s, e.l), TypeIn(s, e.r))
      [] e.k = "call" -> Meaning(s, e.id).ret
      [] OTHER -> "any"

Parts(e) ==
    CASE e.k = "elem" -> {e.index}
      [] e.k = "assign" -> {e.var, e.rhs}
      [] e.k = "binary" -> {e.l, e.r}
      [] e.k = "call" -> Range(e.args)
      [] e.k = "block" -> Range(e.stmts)
      [] e.k = "if" -> {e.cond} \cup Range(e.yes) \cup Range(e.no)
      [] e.k = "while" -> {e.cond} \cup Range(e.body)
      [] e.k = "return" -> Range(e.value)
      [] OTHER -> {}

Judgements(p, s, e) ==
    LET inner == IF e.k = "block" THEN Append(s, Inside(e.decls)) ELSE s
    IN  {[prog |-> p, scopes |-> s, node |-> e, ty |-> TypeIn(s, e)]}
            \cup UNION {Judgements(p, inner, d) : d \in Parts(e)}

JudgementsOfPrograms ==
    UNION {LET outer == Bound(<<Opened(Functions, p.globals, Len(p.globals))>>, p.fun.id, FunSig(p.fun))
           IN  Judgements(p, Append(outer, Inside(p.fun.params)), p.fun.body) : p \in Programs}

RECURSIVE IsStraight(_)
IsStraight(e) == e.k # "elem" /\ \A d \in Parts(e) : IsStraight(d)
StraightNodes == {e \in {j.node : j \in {j \in JudgementsOfPrograms : j.ty # "any"}} : IsStraight(e)}

(* Names for the constants of BuilderTypes: TLC keeps the values of the     *)
(* definitions above, and not of these.                                     *)
TypingOfPrograms == JudgementsOfPrograms
StraightExpressions == StraightNodes
=============================================================================
