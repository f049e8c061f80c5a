----------------------------- MODULE MCGrammar ------------------------------
(***************************************************************************)
(* The files Grammar is checked on: every operator and expression form as  *)
(* an operand of every other one, every statement form around every other, *)
(* the top-level declarations, and the files the machine is checked on.    *)
(***************************************************************************)
EXTENDS Grammar, LpcSamples

a == VarRef("a")
b == VarRef("b")
c == VarRef("c")
One(es) == [i \in DOMAIN es |-> FALSE]
Word0   == StringLiteral(<<"say">>)

Operators == <<"Or", "And", "BitOr", "BitXor", "BitAnd", "Eq", "Neq", "Lt", "Lte",
               "Gt", "Gte", "Shl", "Shr", "Add", "Sub", "Mul", "Div", "Mod">>

\* The expressions with x in one of their places.
OperatorShapes(x, ops) ==
    FlattenSeq([i \in DOMAIN ops |-> <<Bin(ops[i], x, b), Bin(ops[i], b, x)>>])

UnaryShapes(x) ==
    <<Unary("Not", x), Unary("Neg", x), Unary("BitNot", x), Ternary(x, b, c),
      Ternary(b, x, c), Ternary(b, c, x), Comma(x, b), Comma(b, x),
      AssignExpr("a", "", x), AssignExpr("a", "Add", x), Catch(x)>>

ElementShapes(x) ==
    <<IndexAssignExpr(a, x, "", b), IndexAssignExpr(x, b, "Sub", c),
      IndexAssignExpr(a, b, "Shl", x), IndexIncDec("Add", TRUE, x, b),
      IndexIncDec("Sub", FALSE, a, x), IndexExpr(x, b, FALSE),
      IndexExpr(a, x, TRUE), RangeExpr(x, b, c, FALSE, FALSE),
      RangeExpr(a, x, b, TRUE, FALSE), RangeExpr(a, b, x, FALSE, TRUE),
      RangeExpr(x, b, IntLiteral(2000000000), TRUE, FALSE)>>

CallShapes(x) ==
    <<ArrayLiteral(<<x, b>>, <<TRUE, FALSE>>), ArrayLiteral(<<b, x>>, <<FALSE, TRUE>>),
      MappingLiteral(<< <<x, b>>, <<c, x>> >>),
      CallExpr("plain", "f", <<x, b>>, <<FALSE, TRUE>>, 0),
      CallExpr("parent", "f", <<x>>, <<TRUE>>, 0),
      CallExpr("parent", "f", <<x>>, <<FALSE>>, 2),
      CallExpr("efun", "evaluate", <<x, b>>, <<FALSE, TRUE>>, 0),
      CallExpr("efun", "sizeof", <<x>>, <<FALSE>>, 0),
      CallOther(x, Word0, <<b>>, <<TRUE>>), CallOther(a, Word0, <<x>>, <<FALSE>>),
      CallOther(a, x, <<>>, <<>>), Sscanf(x, Word0, <<a, IndexExpr(b, x, FALSE)>>),
      ClosureLiteral("f", <<x, b>>), InlineLambda(0, <<>>, <<x, b>>),
      InlineLambda(2, <<x>>, <<LambdaParam(2, FALSE), LambdaParam(1, TRUE)>>),
      AnonFunction(<<"a", "b">>, TRUE, Block(<<ReturnStmt(x)>>)),
      TimeExpression(Block(<<ExprStmt(x)>>))>>

FluffShapes(x) ==
    <<IndexExpr(x, MemberName("m"), FALSE), TypeCast("box", x),
      IndexAssignExpr(x, MemberName("m"), "", b),
      NewClass("box", << <<"m", x>>, <<"n", b>> >>)>>

LdmudShapes(x) ==
    <<IndexExpr(a, Column(x, b), FALSE), IndexExpr(x, Column(b, x), FALSE),
      IndexAssignExpr(a, Column(b, x), "Add", c),
      MappingLiteral(<< <<x, b, c>>, <<c, x, b>> >>)>>

Shapes(x, dialect) ==
    OperatorShapes(x, Operators) \o UnaryShapes(x) \o ElementShapes(x)
      \o CallShapes(x)
      \o CASE dialect = "FluffOS" -> FluffShapes(x)
           [] dialect = "LDMud"   -> LdmudShapes(x)
           [] OTHER               -> <<>>

\* What is put into those places: one operator of every row, and the rest.
Inner(dialect) ==
    OperatorShapes(a, <<"Or", "And", "BitOr", "BitXor", "BitAnd", "Eq", "Lt", "Shr",
                        "Sub", "Mod">>)
      \o UnaryShapes(a) \o ElementShapes(a) \o CallShapes(a)
      \o CASE dialect = "FluffOS" -> FluffShapes(a)
           [] dialect = "LDMud"   -> LdmudShapes(a) \o
                <<SymbolLiteral("name"), ClosureLiteral("f", <<>>), EfunClosure("f")>>
           [] OTHER -> <<NilLiteral>>

Literals ==
    <<IntLiteral(0), IntLiteral(7), IntLiteral(120), FloatLiteral("0.5"),
      StringLiteral(<<>>), StringLiteral(<<"one", "two">>),
      StringLiteral(<<"say \"hi\\">>), StringLiteral(<<"line\n">>),
      IncDec("Add", TRUE, "a"), IncDec("Sub", FALSE, "a"), ClosureLiteral("f", <<>>),
      ArrayLiteral(<<>>, <<>>), MappingLiteral(<<>>)>>

-----------------------------------------------------------------------------
(* Statements *)


Leaf == <<ExprStmt(Unary("Not", a)), ExprStmt(IndexExpr(a, b, FALSE)),
          ExprStmt(CallOther(a, Word0, <<>>, <<>>)),
          ReturnStmt(None), ReturnStmt(Comma(a, b)), Break, Continue, VarDecl("x", None),
          Group(<<VarDecl("x", a), VarDecl("y", None)>>), AssignStmt("a", b),
          IndexAssignStmt(a, b, "", c), IndexAssignStmt(a, MemberName("m"), "Add", c),
          Group(<<AssignStmt("a", b), ExprStmt(AssignExpr("b", "", c))>>),
          Group(<<IndexAssignStmt(a, b, "Mul", c), ExprStmt(IncDec("Add", FALSE, "b"))>>),
          Group(<<ExprStmt(IncDec("Sub", TRUE, "a")), ExprStmt(b)>>), Block(<<>>),
          ExprStmt(AssignExpr("a", "", b)), ExprStmt(AssignExpr("a", "Mod", b)),
          ExprStmt(IndexAssignExpr(a, b, "", c))>>

\* The control statements with s in one of their places.  (A then-branch that
\* is an "if" of its own needs braces.)
Around(s) ==
    LET body == IF s.k = "Block" /\ s.isRealScope THEN s ELSE Group(<<s>>)
        then == IF s.k = "If" THEN Block(<<s>>) ELSE body
    IN  <<If(a, then, None), If(a, Block(<<b>>), body), While(a, body),
          DoWhile(body, Comma(a, b)),
          For(None, None, None, body), For(VarDecl("i", a), b, c, body),
          For(AssignExpr("a", "", b), b,
              Group(<<ExprStmt(IncDec("Add", FALSE, "a")),
                      ExprStmt(AssignExpr("b", "Add", c))>>), body),
          Foreach("x", "", TRUE, a, body), Foreach("x", "y", FALSE, a, body),
          ForeachStmt("x", TRUE, "y", FALSE, a, body),
          Switch(a, <<CaseLabel(b, None), CaseLabel(IntLiteral(1), IntLiteral(2)), s,
                      CaseLabel(None, None)>>),
          Block(<<s, Break>>)>>

\* ("if" takes blocks of statements, not of expressions.)
Blocks(s) == LET ts == Around(s)
             IN  [ts EXCEPT ![2] = If(a, Block(<<Break>>), @.else)]

-----------------------------------------------------------------------------

CaseOf(file, dialect) == [file |-> file, dialect |-> dialect, styles |-> BOOLEAN]
ExprCase(e, dialect)  == CaseOf(File(<<>>, <<>>, <<Def("f", <<>>, <<ReturnStmt(e)>>)>>), dialect)
StmtCase(s)           == CaseOf(File(<<>>, <<>>, <<Def("f", <<>>, <<s>>)>>), "FluffOS")

Nested(dialect) ==
    FlattenSeq([i \in DOMAIN Inner(dialect) |-> Shapes(Inner(dialect)[i], dialect)])

ExprCases(es, dialect) == [i \in DOMAIN es |-> ExprCase(es[i], dialect)]
StmtCases(ss)          == [i \in DOMAIN ss |-> StmtCase(ss[i])]

NestedStatements ==
    LET once == FlattenSeq([i \in DOMAIN Leaf |-> Blocks(Leaf[i])])
    IN  Leaf \o once \o FlattenSeq([i \in DOMAIN Blocks(Break) |->
                                      Blocks(Blocks(Break)[i])])

TopLevel ==
    ProgramTree(<<2, 1>>, <<ClassDecl("box", <<"m", "n">>), ClassDecl("none", <<>>)>>,
            <<ObjectVar("a", TRUE, IntLiteral(1)), ObjectVar("b", FALSE, None)>>,
            <<Function("g", <<"a", "b">>, TRUE, None),
              Function("h", <<"a">>, FALSE, Block(<<>>)), Def("f", <<>>, <<ReturnStmt(a)>>)>>)

\* Longer files in the plain style only; of a source the object's own file.
PlainCase(file)    == [CaseOf(file, "FluffOS") EXCEPT !.styles = {FALSE}]
SampleCase(source) == PlainCase(source.files[source.object])

MCCases ==
    ExprCases(Literals, "FluffOS") \o ExprCases(Nested("FluffOS"), "FluffOS")
      \o ExprCases(Shapes(NilLiteral, "DGD"), "DGD")
      \o ExprCases(FlattenSeq([i \in DOMAIN LdmudShapes(a) |->
                                 Shapes(LdmudShapes(a)[i], "LDMud")]), "LDMud")
      \o ExprCases(FlattenSeq([i \in DOMAIN Inner("LDMud") |->
                                 LdmudShapes(Inner("LDMud")[i])]), "LDMud")
      \o StmtCases(NestedStatements)
      \o <<CaseOf(TopLevel, "FluffOS"),
           CaseOf([TopLevel EXCEPT !.classes = <<>>], "DGD")>>
      \o Each(PlainCase, InheritSource.files) \o Each(SampleCase, MachineSources)

=============================================================================
