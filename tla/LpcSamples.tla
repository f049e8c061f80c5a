----------------------------- MODULE LpcSamples -----------------------------
(***************************************************************************)
(* The LPC files the machine is checked on.  They are families rather than *)
(* single programs: every loop form with every way to leave it, every kind *)
(* of error at every depth of pending operands, and so on.                 *)
(***************************************************************************)
EXTENDS LpcSyntax, SequencesExt

N(n)           == IntLiteral(n)
V(x)           == VarRef(x)
NoSpread(es)   == [i \in DOMAIN es |-> FALSE]
List(es)       == ArrayLiteral(es, NoSpread(es))
Do(f, es)      == CallExpr("plain", f, es, NoSpread(es), 0)
Set(x, e)      == ExprStmt(AssignExpr(x, "", e))
AddTo(x, e)    == ExprStmt(AssignExpr(x, "Add", e))
Log(e)         == AddTo("log", List(<<e>>))
Piece(s)       == StringLiteral(<<s>>)
Def(f, ps, ss) == Function(f, ps, FALSE, Block(ss))
OneFile(fs)    == [files |-> <<File(<<>>, <<ObjectVar("log", FALSE, List(<<>>))>>,
                                    fs)>>,
                   object |-> 1, simul |-> 0, endless |-> FALSE]

\* The family F(x, y) over two sequences, and F(x) over one.
Each(F(_), xs)        == [i \in DOMAIN xs |-> F(xs[i])]
EachPair(F(_, _), xs, ys) ==
    FlattenSeq([i \in DOMAIN xs |-> [j \in DOMAIN ys |-> F(xs[i], ys[j])]])

-----------------------------------------------------------------------------
(* Loops *)

Exits == <<Break, Continue, ReturnStmt(N(7)), ExprStmt(Do("throw", <<V("i")>>)),
           Block(<<>>)>>

Round(exit) ==
    Block(<<Log(V("i")), If(Bin("Eq", V("i"), N(1)), Block(<<exit>>), None),
            Log(Bin("Mul", V("i"), N(10)))>>)

SwitchRound(exit) ==
    Block(<<Switch(V("i"),
              <<CaseLabel(N(0), None), Log(Piece("zero")), Break,
                CaseLabel(N(1), N(2)), Log(Piece("low")), exit,
                CaseLabel(None, None), Log(Piece("other")),
                CaseLabel(N(9), None), Log(Piece("fell"))>>),
            Log(V("i"))>>)

Pairs == MappingLiteral(<< <<Piece("a"), N(0)>>, <<Piece("b"), N(1)>>,
                           <<Piece("c"), N(2)>> >>)

Loops(exit) ==
    <<<<VarDecl("i", N(0)),
        While(Bin("Lt", IncDec("Add", FALSE, "i"), N(3)), Round(exit))>>,
      <<VarDecl("i", N(0)),
        DoWhile(Round(exit), Bin("Lt", IncDec("Add", TRUE, "i"), N(3)))>>,
      <<For(VarDecl("i", N(0)), Bin("Lt", V("i"), N(3)),
            IncDec("Add", FALSE, "i"), Round(exit))>>,
      <<Group(<<VarDecl("i", None), VarDecl("j", None)>>),
        For(Group(<<Set("i", N(3)), Set("j", N(0))>>), V("i"),
            Group(<<AddTo("j", N(2)), ExprStmt(IncDec("Sub", TRUE, "i"))>>),
            Round(exit))>>,
      <<Foreach("i", "", TRUE, List(<<N(0), N(1), N(2)>>), Round(exit))>>,
      <<VarDecl("i", None), VarDecl("k", None),
        Foreach("k", "i", FALSE, Pairs, Round(exit)), Log(V("k"))>>,
      <<For(VarDecl("i", N(0)), Bin("Lte", V("i"), N(3)),
            IncDec("Add", FALSE, "i"), SwitchRound(exit))>>>>

LoopSource(loop, call) ==
    OneFile(<<Def("create", <<>>,
                  <<ReturnStmt(List(<<N(1), call, V("log")>>))>>),
              Def("f", <<>>, Append(loop, Log(N(99))))>>)

LoopSources ==
    EachPair(LoopSource, FlattenSeq(Each(Loops, Exits)),
             <<Do("f", <<>>), Catch(Do("f", <<>>))>>)

-----------------------------------------------------------------------------
(* Errors under pending operands *)

Errors ==
    <<Do("error", <<Piece("e")>>), Do("throw", <<N(5)>>), Do("nosuch", <<>>),
     Bin("Div", N(1), N(0)), Bin("Sub", Piece("s"), N(1)),
     IndexExpr(List(<<>>), N(0), FALSE), Do("g", <<>>),
     CallExpr("parent", "g", <<>>, <<>>, 0),
     IndexAssignExpr(List(<<>>), N(0), "", N(1)),
     ArrayLiteral(<<N(1), N(2)>>, <<FALSE, TRUE>>),
     List(<<Catch(Do("g", <<>>)), Do("h", <<N(4), Do("g", <<>>)>>)>>)>>

\* An expression e, with values below it on the operand stack.
Pending(e) ==
    <<Bin("Add", N(1), e), List(<<N(1), N(2), e, N(3)>>), Do("h", <<N(1), e>>),
     Ternary(e, N(1), N(2)), Bin("And", N(1), e), Bin("Or", N(0), e),
     MappingLiteral(<< <<N(1), e>> >>), Comma(e, N(3)),
     AssignExpr("log", "", e)>>

CatchSource(e) ==
    OneFile(<<Def("g", <<>>,
                  <<Log(N(1)),
                    ReturnStmt(Bin("Add", N(2), Do("throw", <<Piece("t")>>)))>>),
              Def("h", <<"a", "b">>, <<ReturnStmt(List(<<V("b"), V("a")>>))>>),
              Def("create", <<>>,
                  <<VarDecl("x", List(<<N(8), Catch(e), N(9)>>)),
                    ReturnStmt(List(<<V("x"), V("log")>>))>>)>>)

CatchSources == Each(CatchSource, FlattenSeq(Each(Pending, Errors)))

-----------------------------------------------------------------------------
(* Values, elements, spreads *)

Samples == <<N(7), Unary("Neg", N(3)), N(0), Piece("s"), List(<<N(1), N(2)>>),
             Pairs>>

BinaryOperators == <<"Eq", "Neq", "Lt", "Lte", "Gt", "Gte", "Add", "Sub", "Mul", "Div",
               "Mod", "BitAnd", "BitOr", "BitXor">>

OperatorSource(op, right) ==
    OneFile(<<Def("create", <<>>,
        <<Foreach("l", "", TRUE, List(Samples), Block(<<
            Log(Catch(Log(Bin(op, V("l"), right)).expr))>>)),
          ReturnStmt(N(1))>>)>>)

ElementSource(op, key) ==
    OneFile(<<Def("create", <<>>,
        <<VarDecl("a", List(<<N(1), N(2), N(3)>>)), VarDecl("b", V("a")),
          VarDecl("m", Pairs),
          ExprStmt(IndexAssignExpr(V("a"), N(1), op, N(5))),
          IndexAssignStmt(V("b"), N(2), op, N(6)),
          IndexAssignStmt(V("m"), key, "", IndexExpr(V("a"), N(1), TRUE)),
          Log(IndexIncDec("Add", TRUE, V("a"), N(0))),
          Log(IndexIncDec("Sub", FALSE, V("m"), Piece("c"))),
          Log(RangeExpr(V("a"), N(1), N(1), FALSE, TRUE)),
          Log(RangeExpr(V("a"), N(2), N(5), TRUE, FALSE)),
          Log(Do("sizeof", <<V("m")>>)),
          Log(AssignExpr("b", "Sub", List(<<N(6)>>))),
          Log(Unary("Not", IndexExpr(V("m"), Piece("z"), FALSE))),
          Log(Unary("BitNot", IndexExpr(V("a"), N(2), FALSE))),
          Log(Catch(Unary("BitNot", V("m")))),
          ReturnStmt(List(<<V("a"), V("b"), V("m")>>))>>)>>)

ElementSources ==
    EachPair(ElementSource, <<"", "Add", "Mul">>, <<Piece("b"), Piece("new")>>)

Spreads == <<<<TRUE, FALSE, TRUE>>, <<FALSE, TRUE, TRUE>>, <<TRUE, TRUE, TRUE>>,
             <<FALSE, FALSE, FALSE>>>>

SpreadSource(xs, spread) ==
    LET es      == Each(V, xs)
        CallOf(f) == CallExpr("plain", f, es, spread, 0)
    IN  OneFile(<<
          Function("rest", <<"a", "b", "c">>, TRUE,
                   Block(<<ReturnStmt(List(<<V("a"), V("b"), V("c")>>))>>)),
          Def("two", <<"a", "b">>, <<ReturnStmt(List(<<V("b"), V("a")>>))>>),
          Def("create", <<>>,
              <<VarDecl("e", List(<<>>)), VarDecl("x", List(<<N(1), N(2)>>)),
                ReturnStmt(List(<<CallOf("rest"), CallOf("two"),
                                  ArrayLiteral(es, spread),
                                  Do("rest", <<N(4)>>), Do("two", <<N(4)>>)>>))>>)>>)

SpreadSources ==
    EachPair(SpreadSource, <<<<"e", "x", "x">>, <<"x", "x", "e">>,
                             <<"e", "e", "e">>>>, Spreads)

-----------------------------------------------------------------------------
(* Closures *)

ClosureSource ==
    OneFile(<<Def("two", <<"a", "b">>, <<ReturnStmt(List(<<V("a"), V("b")>>))>>),
              Def("make", <<"n">>,
                  <<ReturnStmt(InlineLambda(2, <<V("n"), Bin("Add", V("n"), N(1))>>,
                     <<Log(LambdaParam(1, FALSE)).expr,
                       List(<<LambdaParam(1, TRUE), LambdaParam(2, TRUE),
                              LambdaParam(1, FALSE), LambdaParam(2, FALSE)>>)>>))>>),
              Def("create", <<>>,
                  <<VarDecl("f", Do("make", <<N(5)>>)),
                    VarDecl("k", AnonFunction(<<"a">>, FALSE, Block(<<
                       VarDecl("u", AnonFunction(<<"y", "z">>, TRUE,
                          Block(<<ReturnStmt(Bin("Add", V("z"),
                                     List(<<Bin("Mul", V("y"), N(3))>>)))>>))),
                       VarDecl("w", InlineLambda(1, <<V("a")>>,
                          <<Bin("Sub", LambdaParam(1, TRUE),
                                LambdaParam(1, FALSE))>>)),
                       ReturnStmt(List(<<Do("evaluate", <<V("u"), V("a"), N(2), N(4)>>),
                                         Do("evaluate", <<V("w"), N(1)>>)>>))>>))),
                    ReturnStmt(List(<<
                       Do("evaluate", <<V("f"), N(1), N(2), N(3)>>),
                       Do("evaluate", <<Do("make", <<N(6)>>)>>),
                       Do("evaluate", <<V("k"), N(8)>>),
                       Do("evaluate", <<ClosureLiteral("two", <<N(1)>>), N(2)>>),
                       Do("evaluate", <<ClosureLiteral("sizeof", <<>>), V("log")>>),
                       Do("evaluate", <<N(3)>>)>>))>>)>>)

-----------------------------------------------------------------------------
(* Inheritance and the simul_efun object *)

Base1 == File(<<>>,
    <<ObjectVar("p", TRUE, N(1)), ObjectVar("log", FALSE, List(<<N(0)>>))>>,
    <<Def("who", <<>>, <<ExprStmt(IncDec("Add", FALSE, "p")),
                         ReturnStmt(List(<<Piece("b1"), V("p")>>))>>),
      Def("ask", <<>>, <<ReturnStmt(Do("who", <<>>))>>),
      Function("proto", <<>>, FALSE, None)>>)

Base2 == File(<<>>,
    <<ObjectVar("q", FALSE, Comma(Do("note", <<Piece("q")>>), N(3)))>>,
    <<Def("who", <<>>, <<ReturnStmt(List(<<Piece("b2"), V("q")>>))>>),
      Def("note", <<"x">>, <<ReturnStmt(V("x"))>>)>>)

Middle == File(<<1, 2>>,
    <<ObjectVar("p", FALSE, Piece("mid")), ObjectVar("q", FALSE, None)>>,
    <<Def("who", <<>>, <<AddTo("q", N(1)),
         ReturnStmt(List(<<V("p"), V("q"),
            CallExpr("parent", "who", <<>>, <<>>, 0),
            CallExpr("parent", "who", <<>>, <<>>, 2)>>))>>)>>)

Simul == File(<<>>, <<ObjectVar("calls", FALSE, None)>>,
    <<Def("helper", <<"x">>, <<ExprStmt(IncDec("Add", FALSE, "calls")),
         ReturnStmt(List(<<V("x"), V("calls"), Do("inner", <<>>)>>))>>),
      Def("inner", <<>>, <<ReturnStmt(Piece("simul"))>>)>>)

Heir == File(<<3>>, <<ObjectVar("own", FALSE, Do("helper", <<N(2)>>))>>,
    <<Def("note", <<"x">>, <<AssignStmt("own", V("x")), ReturnStmt(N(0))>>),
      Def("inner", <<>>, <<ReturnStmt(Piece("heir"))>>),
      Def("create", <<>>,
          <<Log(Do("ask", <<>>)), Log(Do("who", <<>>)),
            Log(CallExpr("parent", "ask", <<>>, <<>>, 0)),
            Log(Catch(CallExpr("parent", "helper", <<>>, <<>>, 0))),
            Log(Do("helper", <<V("own")>>)),
            Log(CallExpr("efun", "sizeof", <<V("log")>>, <<FALSE>>, 0)),
            Set("p", N(4)),
            ReturnStmt(V("log"))>>)>>)

InheritSource == [files |-> <<Base1, Base2, Middle, Simul, Heir>>,
                  object |-> 5, simul |-> 4, endless |-> FALSE]

-----------------------------------------------------------------------------
(* time_expression, uncaught errors, endless programs *)

TimeSource ==
    OneFile(<<Def("g", <<>>, <<ReturnStmt(TimeExpression(Block(<<Log(N(3))>>)))>>),
              Def("create", <<>>,
                  <<VarDecl("t", TimeExpression(Block(<<
                      Log(N(1)), ExprStmt(Do("g", <<>>)),
                      Log(TimeExpression(Block(<<VarDecl("y", N(2)), Log(V("y"))>>))),
                      Log(Catch(Do("throw", <<N(6)>>)))>>))),
                    ReturnStmt(V("t"))>>)>>)

UncaughtSource ==
    OneFile(<<Def("create", <<>>, <<Log(N(1)),
                 Log(Bin("Add", N(1), Do("throw", <<V("log")>>)))>>)>>)

Forever == While(N(1), Block(<<Log(N(1)), Set("log", List(<<>>))>>))

Endless(functions) == [OneFile(functions) EXCEPT !.endless = TRUE]

EndlessSources ==
    <<Endless(<<Def("create", <<>>, <<While(N(1), Block(<<>>))>>)>>),
      Endless(<<Def("create", <<>>, <<Forever>>)>>),
      Endless(<<Def("f", <<>>, <<ReturnStmt(Do("f", <<>>))>>),
                Def("create", <<>>, <<ReturnStmt(Catch(Do("f", <<>>)))>>)>>),
      Endless(<<Def("f", <<>>, <<ReturnStmt(Catch(Do("g", <<>>)))>>),
                Def("g", <<>>, <<Forever>>),
                Def("create", <<>>,
                    <<While(N(1), Block(<<Log(Catch(Do("f", <<>>)))>>))>>)>>)>>

-----------------------------------------------------------------------------

MachineSources ==
    LoopSources \o CatchSources \o EachPair(OperatorSource, BinaryOperators, Samples)
      \o EachPair(OperatorSource, <<"Shl", "Shr">>, <<N(0), N(2), Piece("s")>>)
      \o ElementSources \o SpreadSources \o EndlessSources
      \o <<ClosureSource, InheritSource, TimeSource, UncaughtSource>>

=============================================================================
