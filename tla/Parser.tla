------------------------------- MODULE Parser -------------------------------
(****************************************************************************)
(* From the source to the visitor: the tree of productions that the actions *)
(* of parser/syntax_analyzer.y build, and AST::transform_node_iter          *)
(* (common/ast.cpp), which makes the nodes of the module Ast of it.         *)
(*                                                                          *)
(* Which tree a text has is bison's work: a program here is given by its    *)
(* structure, ParseTree being the tree of the grammar for it.               *)
(*                                                                          *)
(* A definition ...Bug is the one below it with a mistake the properties    *)
(* have to detect; nothing refers to it.                                    *)
(****************************************************************************)
EXTENDS Ast, Naturals, Sequences

-----------------------------------------------------------------------------
(* Trees of productions                                                     *)

(* node(): a production without symbols gets a child all the same.          *)
Tok(text) == [n |-> text, c |-> <<>>]
Node(name, children) ==
    [n |-> name, c |-> IF children = <<>> THEN <<Tok("epsilon")>> ELSE children]

Id(d) == [n |-> d.id, c |-> <<>>, cell |-> d.cell]
Specifier(ty) == Node("type-specifier",
    <<Tok(CASE ty \in {"i32", "i32[]", "i32*"} -> "int"
            [] ty \in {"float", "float[]", "float*"} -> "float"
            [] OTHER -> "void")>>)

(* A left-recursive list, with sep between items, of at least one item or   *)
(* of none.                                                                 *)
RECURSIVE ListTree(_, _, _), OptionalTree(_, _)
ListTree(name, ts, sep) ==
    IF Len(ts) = 1 THEN Node(name, ts)
    ELSE Node(name, <<ListTree(name, SubSeq(ts, 1, Len(ts) - 1), sep)>> \o sep \o <<ts[Len(ts)]>>)
OptionalTree(name, ts) ==
    IF ts = <<>> THEN Node(name, <<>>)
    ELSE Node(name, <<OptionalTree(name, SubSeq(ts, 1, Len(ts) - 1)), ts[Len(ts)]>>)

VarTree(d) ==
    Node("var-declaration", <<Specifier(d.ty), Id(d)>>
        \o (IF d.ty \in {"i32[]", "float[]"} THEN <<Tok("["), Tok("3"), Tok("]")>> ELSE <<>>)
        \o <<Tok(";")>>)

ParamTree(p) ==
    Node("param", <<Specifier(p.ty), Id(p)>>
        \o (IF p.ty \in {"i32*", "float*"} THEN <<Tok("["), Tok("]")>> ELSE <<>>))

RECURSIVE ExprTree(_), SimpleTree(_), AdditiveTree(_), TermTree(_), FactorTree(_),
          PlaceTree(_), StmtTree(_), BlockTree(_)

ExprTree(e) ==
    IF e.k = "assign"
    THEN Node("expression", <<PlaceTree(e.var), Tok("="), ExprTree(e.rhs)>>)
    ELSE Node("expression", <<SimpleTree(e)>>)

PlaceTree(e) ==
    IF e.k = "var" THEN Node("var", <<Tok(e.id)>>)
    ELSE Node("var", <<Tok(e.id), Tok("["), ExprTree(e.index), Tok("]")>>)

SimpleTree(e) ==
    IF e.k = "binary" /\ e.op = "rel"
    THEN Node("simple-expression",
              <<AdditiveTree(e.l), Node("relop", <<Tok("<")>>), AdditiveTree(e.r)>>)
    ELSE Node("simple-expression", <<AdditiveTree(e)>>)

AdditiveTree(e) ==
    IF e.k = "binary" /\ e.op = "add"
    THEN Node("additive-expression",
              <<AdditiveTree(e.l), Node("addop", <<Tok("+")>>), TermTree(e.r)>>)
    ELSE Node("additive-expression", <<TermTree(e)>>)

TermTree(e) ==
    IF e.k = "binary" /\ e.op = "mul"
    THEN Node("term", <<TermTree(e.l), Node("mulop", <<Tok("*")>>), FactorTree(e.r)>>)
    ELSE Node("term", <<FactorTree(e)>>)

FactorTree(e) ==
    Node("factor",
        CASE e.k \in {"var", "elem"} -> <<PlaceTree(e)>>
          [] e.k = "num" -> <<Node(IF e.ty = "i32" THEN "integer" ELSE "float", <<Tok("3")>>)>>
          [] e.k = "call" ->
                LET args == IF e.args = <<>> THEN <<>>
                            ELSE <<ListTree("arg-list", [i \in DOMAIN e.args |-> ExprTree(e.args[i])],
                                            <<Tok(",")>>)>>
                IN  <<Node("call", <<Tok(e.id), Tok("("), Node("args", args), Tok(")")>>)>>
          [] OTHER -> <<Tok("("), ExprTree(e), Tok(")")>>)

BlockTree(s) ==
    Node("compound-stmt",
        <<Tok("{"),
          OptionalTree("local-declarations", [i \in DOMAIN s.decls |-> VarTree(s.decls[i])]),
          OptionalTree("statement-list", [i \in DOMAIN s.stmts |-> StmtTree(s.stmts[i])]),
          Tok("}")>>)

StmtTree(s) ==
    Node("statement",
        <<CASE s.k = "block" -> BlockTree(s)
            [] s.k = "empty" -> Node("expression-stmt", <<Tok(";")>>)
            [] s.k = "if" ->
                 Node("selection-stmt",
                      <<Tok("if"), Tok("("), ExprTree(s.cond), Tok(")"), StmtTree(s.yes[1])>>
                      \o (IF s.no = <<>> THEN <<>> ELSE <<Tok("else"), StmtTree(s.no[1])>>))
            [] s.k = "while" ->
                 Node("iteration-stmt",
                      <<Tok("while"), Tok("("), ExprTree(s.cond), Tok(")"), StmtTree(s.body[1])>>)
            [] s.k = "return" ->
                 Node("return-stmt", <<Tok("return")>> \o [i \in DOMAIN s.value |-> ExprTree(s.value[i])]
                                       \o <<Tok(";")>>)
            [] OTHER -> Node("expression-stmt", <<ExprTree(s), Tok(";")>>)>>)

FunTree(f) ==
    LET params == IF f.params = <<>> THEN Tok("void")
                  ELSE ListTree("param-list", [i \in DOMAIN f.params |-> ParamTree(f.params[i])],
                                <<Tok(",")>>)
    IN  Node("fun-declaration", <<Specifier(f.ret), Tok(f.id), Tok("("), Node("params", <<params>>),
                                  Tok(")"), BlockTree(f.body)>>)

(* declaration_list, with the globals before the function.                  *)
ParseTree(p) ==
    LET decls == Append([i \in DOMAIN p.globals |-> VarTree(p.globals[i])], FunTree(p.fun))
    IN  Node("program", <<ListTree("declaration-list",
                                   [i \in DOMAIN decls |-> Node("declaration", <<decls[i]>>)], <<>>)>>)

-----------------------------------------------------------------------------
(* transform_node_iter                                                      *)

(* The stack of the last children, unwound; size is the number of children  *)
(* of a list that goes on.                                                  *)
RECURSIVE Flatten(_, _), FlattenOptional(_)
Flatten(l, size) ==
    IF Len(l.c) = size THEN Append(Flatten(l.c[1], size), l.c[size]) ELSE <<l.c[1]>>
FlattenOptional(l) ==
    IF Len(l.c) = 2 THEN Append(FlattenOptional(l.c[1]), l.c[2]) ELSE <<>>

TypeOf(n) == IF n.c[1].c[1].n = "int" THEN "i32" ELSE "float"

VarDeclaration(n) ==
    Decl(n.c[2].n,
         IF Len(n.c) = 6 THEN (IF TypeOf(n) = "i32" THEN "i32[]" ELSE "float[]") ELSE TypeOf(n),
         n.c[2].cell)

ParamOf(n) ==
    Param(n.c[2].n,
          IF Len(n.c) > 2 THEN (IF TypeOf(n) = "i32" THEN "i32*" ELSE "float*") ELSE TypeOf(n),
          n.c[2].cell)

RECURSIVE Expression(_), Operands(_, _), Factor(_), VarOf(_), Statement(_), CompoundStmt(_)

Expression(n) ==
    IF Len(n.c) = 1 THEN Operands(n.c[1], "rel") ELSE Assign(VarOf(n.c[1]), Expression(n.c[3]))

VarOf(n) == IF Len(n.c) = 4 THEN Elem(n.c[1].n, Expression(n.c[3])) ELSE Var(n.c[1].n)

(* simple-expression, additive-expression and term, operator op.            *)
Operands(n, op) ==
    LET left(m) == CASE op = "rel" -> Operands(m, "add")
                     [] op = "add" -> Operands(m, IF m.n = "term" THEN "mul" ELSE "add")
                     [] op = "mul" -> IF m.n = "factor" THEN Factor(m) ELSE Operands(m, "mul")
        right(m) == CASE op = "rel" -> Operands(m, "add")
                      [] op = "add" -> Operands(m, "mul")
                      [] op = "mul" -> Factor(m)
    IN  IF Len(n.c) = 3 THEN Binary(op, left(n.c[1]), right(n.c[3])) ELSE left(n.c[1])

Factor(n) ==
    LET m == n.c[IF Len(n.c) = 3 THEN 2 ELSE 1]
    IN  CASE m.n = "expression" -> Expression(m)
          [] m.n = "var" -> VarOf(m)
          [] m.n = "call" ->
                LET args == m.c[3].c[1]
                IN  CallOf(m.c[1].n,
                           IF args.n = "arg-list"
                           THEN LET es == Flatten(args, 3) IN [i \in DOMAIN es |-> Expression(es[i])]
                           ELSE <<>>)
          [] m.n = "integer" -> Num("i32")
          [] m.n = "float" -> Num("float")

CompoundStmt(n) ==
    LET ds == FlattenOptional(n.c[2])
        ss == FlattenOptional(n.c[3])
    IN  Block([i \in DOMAIN ds |-> VarDeclaration(ds[i])], [i \in DOMAIN ss |-> Statement(ss[i])])

(* The else branch, there if there are seven children.                      *)
ElseBug(n) == <<>>
Else(n) == IF Len(n.c) = 7 THEN <<n.c[7]>> ELSE <<>>

Statement(n) ==
    LET m == n.c[1]
    IN  CASE m.n = "compound-stmt" -> CompoundStmt(m)
          [] m.n = "expression-stmt" -> IF Len(m.c) = 2 THEN Expression(m.c[1]) ELSE Empty
          [] m.n = "selection-stmt" ->
                If(Expression(m.c[3]), <<Statement(m.c[5])>>,
                   [i \in DOMAIN Else(m) |-> Statement(Else(m)[i])])
          [] m.n = "iteration-stmt" -> While(Expression(m.c[3]), <<Statement(m.c[5])>>)
          [] m.n = "return-stmt" ->
                Return(IF Len(m.c) = 3 THEN <<Expression(m.c[2])>> ELSE <<>>)

(* No parameters are the token void, which has no children.                 *)
FunDeclaration(n) ==
    LET list == n.c[4].c[1]
        ps   == IF list.c = <<>> THEN <<>> ELSE Flatten(list, 3)
        ret  == n.c[1].c[1].n
    IN  FunDecl(n.c[2].n, IF ret = "void" THEN "void" ELSE TypeOf(n),
                [i \in DOMAIN ps |-> ParamOf(ps[i])], CompoundStmt(n.c[6]))

(* The program, as the visitor takes it: globals, and the last declaration. *)
Transformed(n) ==
    LET ds == Flatten(n.c[1], 2)
    IN  [globals |-> [i \in 1 .. Len(ds) - 1 |-> VarDeclaration(ds[i].c[1])],
         fun |-> FunDeclaration(ds[Len(ds)].c[1])]
=============================================================================
