------------------------------- MODULE Parser -------------------------------
(***************************************************************************)
(* Parser.cpp: recursive descent from tokens to syntax trees.              *)
(*                                                                         *)
(* A parser is a record s: its tokens and dialect, the position pos, the   *)
(* stack lambdas of the "(: :)" it is inside of (the highest $N seen and   *)
(* the $(...) values, lambdaParamMaxStack_ and lambdaBoundValuesStack_),   *)
(* and node, the tree the last parse function returned.  A parse function  *)
(* takes the parser before to the parser after.                            *)
(*                                                                         *)
(* A throw abandons the parse: Fail moves pos behind the End token, where  *)
(* no check succeeds and nothing is consumed, so the rules still open run  *)
(* to their ends without effect.                                           *)
(*                                                                         *)
(* A file's path (inherit, qualifier::) is the number of the file.         *)
(***************************************************************************)
EXTENDS LpcSyntax, Lexer, TLC

FilePath(i) == "f" \o Decimal(i)
MaxFiles == 9
\* 0 stands for a path no file has.
FileOf(path) == Max({0} \cup {i \in 1 .. MaxFiles : FilePath(i) = path})

NewParser(toks, dialect) ==
    [toks |-> toks, dialect |-> dialect, pos |-> 1, lambdas |-> <<>>,
     node |-> None]

With(s, node) == [s EXCEPT !.node = node]
Fail(s)       == [s EXCEPT !.pos = Len(s.toks) + 1]
Failed(s)     == s.pos > Len(s.toks)

peekAt(s, offset) ==
    IF Failed(s) THEN [type |-> "Failed", text |-> ""]
    ELSE s.toks[Min({s.pos + offset, Len(s.toks)})]

Type(s, offset) == peekAt(s, offset).type
Text(s, offset) == peekAt(s, offset).text

atEnd(s)   == s.pos >= Len(s.toks)
advance(s) == IF atEnd(s) THEN s ELSE [s EXCEPT !.pos = @ + 1]
Skip(s, n) == [s EXCEPT !.pos = @ + n]

check(s, type)     == s.pos <= Len(s.toks) /\ s.toks[s.pos].type = type
checkText(s, text) == /\ s.pos <= Len(s.toks)
                      /\ s.toks[s.pos].type \in {"Symbol", "Keyword"}
                      /\ s.toks[s.pos].text = text

expect(s, type)     == IF check(s, type) THEN advance(s) ELSE Fail(s)
expectText(s, text) == IF checkText(s, text) THEN advance(s) ELSE Fail(s)

NonTypeKeywords ==
    {"return", "if", "else", "while", "for", "do", "inherit", "break",
     "continue", "foreach", "in", "switch", "case", "default", "static",
     "private", "public", "protected", "nomask", "varargs", "atomic", "nil"}

isTypeKeyword(tok) == tok.type = "Keyword" /\ tok.text \notin NonTypeKeywords

isModifierKeyword(s, tok) ==
    /\ tok.type = "Keyword"
    /\ \/ tok.text \in {"static", "private", "public", "protected", "nomask",
                        "varargs"}
       \/ s.dialect = "DGD" /\ tok.text = "atomic"

IsArrayWord(s) == check(s, "Ident") /\ Text(s, 0) = "array"

\* "*" or "array" in front of a declared name.
consumeArrayMarker(s) ==
    IF checkText(s, "*") \/ IsArrayWord(s) THEN advance(s) ELSE s

startsClassType(s) ==
    /\ s.dialect = "FluffOS"
    /\ check(s, "Ident") /\ Text(s, 0) = "class" /\ Type(s, 1) = "Ident"

startsType(s) ==
    \/ isTypeKeyword(peekAt(s, 0)) /\ Text(s, 1) # "::"
    \/ startsClassType(s)
    \/ IsArrayWord(s)

\* (The type is read and, like every declared type, not kept.)
parseTypeToken(s) ==
    CASE startsClassType(s) -> consumeArrayMarker(Skip(s, 2))
      [] IsArrayWord(s)     -> advance(s)
      [] OTHER              -> consumeArrayMarker(expect(s, "Keyword"))

\* Parse(rule, s) is the parse function named by rule.
RECURSIVE Parse(_, _)

-----------------------------------------------------------------------------
(* Lists *)

\* "e, e..., e" up to close; a comma may stand before close.  The node is
\* [es, spread].
RECURSIVE Elements(_, _, _, _)
Elements(s, close, es, spread) ==
    LET elem  == Parse("expr", s)
        dots  == checkText(elem, "...")
        after == IF dots THEN advance(elem) ELSE elem
        list  == [es |-> Append(es, elem.node), spread |-> Append(spread, dots)]
    IN  CASE checkText(after, ",") /\ ~checkText(advance(after), close) ->
               Elements(advance(after), close, list.es, list.spread)
          [] checkText(after, ",") -> With(advance(after), list)
          [] OTHER -> With(after, list)

ElementsUpTo(s, close) ==
    IF checkText(s, close) THEN With(s, [es |-> <<>>, spread |-> <<>>])
    ELSE Elements(s, close, <<>>, <<>>)

parseArgList(s) == ElementsUpTo(s, ")")

\* "(args)", opening and closing parenthesis included.
Arguments(s) == expectText(parseArgList(expectText(s, "(")), ")")

\* "e, e, e": the node is the sequence of the trees.
RECURSIVE ExprList(_, _)
ExprList(s, es) ==
    LET e == Parse("expr", s)
    IN  IF checkText(e, ",") THEN ExprList(advance(e), Append(es, e.node))
        ELSE With(e, Append(es, e.node))

-----------------------------------------------------------------------------
(* Primary expressions *)

RECURSIVE AdjacentStrings(_, _)
AdjacentStrings(s, pieces) ==
    IF ~check(s, "String") THEN With(s, StringLiteral(pieces))
    ELSE AdjacentStrings(advance(s), IF Text(s, 0) = "" THEN pieces
                                     ELSE Append(pieces, Text(s, 0)))

DigitValue(c) == CHOOSE i \in 0 .. 15 : DigitNames[i] = c

RECURSIVE IntOf(_, _)
IntOf(text, base) ==
    IF text = "" THEN 0
    ELSE DigitValue(At(text, Len(text)))
           + base * IntOf(Slice(text, 1, Len(text) - 1), base)

NumberLiteral(s) ==
    LET text  == Text(s, 0)
        isHex == Len(text) > 2 /\ Slice(text, 1, 2) \in {"0x", "0X"}
    IN  With(advance(s),
             CASE "." \in CharsOf(text) -> FloatLiteral(text)
               [] isHex -> IntLiteral(IntOf(Slice(text, 3, Len(text)), 16))
               [] OTHER -> IntLiteral(IntOf(text, 10)))

\* "$(e)": the next bound value of the innermost lambda.
BoundValue(s) ==
    LET e   == expectText(Parse("commaExpr", Skip(s, 2)), ")")
        n   == Len(e.lambdas)
        new == [e EXCEPT !.lambdas[n].bound = Append(@, e.node)]
    IN  IF s.lambdas = <<>> THEN Fail(s)
        ELSE With(new, LambdaParam(Len(new.lambdas[n].bound), TRUE))

\* The values of a mapping entry: "v", and in LDMud "v; v; ...".
RECURSIVE EntryValues(_, _)
EntryValues(s, entry) ==
    LET v == Parse("expr", s)
    IN  IF v.dialect = "LDMud" /\ checkText(v, ";")
        THEN EntryValues(advance(v), Append(entry, v.node))
        ELSE With(v, Append(entry, v.node))

RECURSIVE Entries(_, _)
Entries(s, es) ==
    LET key   == Parse("expr", s)
        entry == EntryValues(expectText(key, ":"), <<key.node>>)
        all   == Append(es, entry.node)
    IN  CASE es # <<>> /\ Len(entry.node) # Len(es[1]) -> Fail(s)
          [] checkText(entry, ",") /\ ~checkText(advance(entry), "]") ->
               Entries(advance(entry), all)
          [] checkText(entry, ",") -> With(advance(entry), all)
          [] OTHER -> With(entry, all)

MappingLiteralExpr(s) ==
    LET es == IF checkText(s, "]") THEN With(s, <<>>) ELSE Entries(s, <<>>)
    IN  With(expectText(expectText(es, "]"), ")"), MappingLiteral(es.node))

\* LDMud's "#'name" and "#'efun::name".
HashQuote(s) ==
    IF check(s, "Ident") /\ Text(s, 0) = "efun" /\ Text(s, 1) = "::"
    THEN With(expect(Skip(s, 2), "Ident"), EfunClosure(Text(s, 2)))
    ELSE With(expect(s, "Ident"), ClosureLiteral(Text(s, 0), <<>>))

\* "(: f, args :)".
NamedClosure(s) ==
    LET name  == Skip(s, 2)
        bound == IF Text(name, 1) = "," THEN ExprList(Skip(name, 2), <<>>)
                 ELSE With(Skip(name, 1), <<>>)
    IN  With(expectText(expectText(bound, ":"), ")"),
             ClosureLiteral(Text(name, 0), bound.node))

\* Mutant: the enclosing lambda's counters are not back on top afterwards.
LambdaStaysOpen(s) ==
    LET open == [Skip(s, 2) EXCEPT !.lambdas =
                   Append(@, [params |-> 0, bound |-> <<>>])]
        body == ExprList(open, <<>>)
        own  == body.lambdas[Len(body.lambdas)]
    IN  With(expectText(expectText(body, ":"), ")"),
             InlineLambda(own.params, own.bound, body.node))

\* "(: e, e :)".
LambdaExpr(s) ==
    LET open == [Skip(s, 2) EXCEPT !.lambdas =
                   Append(@, [params |-> 0, bound |-> <<>>])]
        body == ExprList(open, <<>>)
        own  == body.lambdas[Len(body.lambdas)]
        shut == [body EXCEPT !.lambdas = SubSeq(@, 1, Len(@) - 1)]
    IN  With(expectText(expectText(shut, ":"), ")"),
             InlineLambda(own.params, own.bound, body.node))

IsBareName(s) ==
    /\ Type(s, 2) = "Ident" /\ At(Text(s, 2), 1) # "$"
    /\ Type(s, 3) = "Symbol" /\ Text(s, 3) \in {",", ":"}

AnonFunctionExpr(s) ==
    LET params == expectText(Parse("paramList", Skip(s, 2)), ")")
        body   == Parse("block", params)
    IN  With(body, AnonFunction(params.node.names, params.node.isVarargs, body.node))

\* "q::f(args)", from the "::" on.
parseQualifiedParentCall(s, qualifier) ==
    LET args == Parse("arguments", expect(advance(s), "Ident"))
    IN  With(args, CallExpr("parent", Text(s, 1), args.node.es,
                            args.node.spread, FileOf(qualifier)))

\* "(*f)(args)".
PointerCall(s) ==
    LET f    == expectText(Parse("expr", Skip(s, 2)), ")")
        args == Parse("arguments", f)
    IN  With(args, CallExpr("efun", "evaluate", <<f.node>> \o args.node.es,
                            <<FALSE>> \o args.node.spread, 0))

ArrayLiteralExpr(s) ==
    LET es == ElementsUpTo(s, "}")
    IN  With(expectText(expectText(es, "}"), ")"),
             ArrayLiteral(es.node.es, es.node.spread))

\* Everything that starts with "(".  (The look-ahead compares the text of the
\* next token, whatever its type.)
Parenthesized(s) ==
    CASE Text(s, 1) = "[" -> MappingLiteralExpr(Skip(s, 2))
      [] Text(s, 1) = ":" -> IF IsBareName(s) THEN NamedClosure(s)
                             ELSE LambdaExpr(s)
      [] Text(s, 1) = "*" -> PointerCall(s)
      [] Text(s, 1) = "{" -> ArrayLiteralExpr(Skip(s, 2))
      [] OTHER -> expectText(Parse("commaExpr", advance(s)), ")")

\* "$N", from the token on.
NumberedParam(s) ==
    LET n == IntOf(Slice(Text(s, 0), 2, Len(Text(s, 0))), 10)
        k == Len(s.lambdas)
    IN  IF s.lambdas = <<>> \/ n < 1 THEN Fail(s)
        ELSE With([advance(s) EXCEPT !.lambdas[k].params = Max({@, n})],
                  LambdaParam(n, FALSE))

\* "field: e, field: e" of a new(class ...).
RECURSIVE FieldInits(_, _)
FieldInits(s, inits) ==
    LET e   == Parse("expr", expectText(expect(s, "Ident"), ":"))
        all == Append(inits, <<Text(s, 0), e.node>>)
    IN  IF checkText(e, ",") THEN FieldInits(advance(e), all) ELSE With(e, all)

NewClassExpr(s) ==
    LET class == expect(Skip(s, 3), "Ident")
        inits == IF checkText(class, ")") THEN With(class, <<>>)
                 ELSE FieldInits(class, <<>>)
    IN  With(expectText(inits, ")"), NewClass(Text(s, 3), inits.node))

IsOutput(e) == e.k \in {"VarRef", "Index"}

SscanfExpr(s, list) ==
    LET outs == SubSeq(list.es, 3, Len(list.es))
    IN  IF /\ Len(list.es) >= 2
           /\ \A i \in DOMAIN list.spread : ~list.spread[i]
           /\ \A i \in DOMAIN outs : IsOutput(outs[i])
        THEN With(s, Sscanf(list.es[1], list.es[2], outs))
        ELSE Fail(s)

CallOtherExpr(s, list) ==
    IF Len(list.es) < 2 THEN Fail(s)
    ELSE IF list.spread[1] \/ list.spread[2] THEN Fail(s)
    ELSE With(s, CallOther(list.es[1], list.es[2], SubSeq(list.es, 3, Len(list.es)),
                           SubSeq(list.spread, 3, Len(list.spread))))

NamedCall(s) ==
    LET name == Text(s, 0)
        args == Parse("arguments", advance(s))
    IN  CASE Failed(args) -> args
          [] name = "sscanf"     -> SscanfExpr(args, args.node)
          [] name = "call_other" -> CallOtherExpr(args, args.node)
          [] OTHER -> With(args, CallExpr("plain", name, args.node.es,
                                          args.node.spread, 0))

\* "efun::f(args)", from the "efun" on.
ForcedEfun(s) ==
    LET args == Parse("arguments", expect(Skip(s, 2), "Ident"))
    IN  With(args, CallExpr("efun", Text(s, 2), args.node.es, args.node.spread, 0))

CatchExpr(s) ==
    LET e == Parse("commaExpr", Skip(s, 2))
    IN  With(expectText(e, ")"), Catch(e.node))

TimeExpressionExpr(s) ==
    LET body == Parse("block", advance(s))
    IN  With(body, TimeExpression(body.node))

Identifier(s) ==
    LET name == Text(s, 0)
        next == advance(s)
    IN  CASE At(name, 1) = "$" -> NumberedParam(s)
          [] At(name, 1) # "$" /\ checkText(next, "::") ->
               IF name = "efun" THEN ForcedEfun(s)
               ELSE parseQualifiedParentCall(next, name)
          [] At(name, 1) # "$" /\ checkText(next, "(") ->
               CASE name = "new" /\ s.dialect = "FluffOS" /\ Text(next, 1) = "class" ->
                      NewClassExpr(s)
                 [] name = "catch" -> CatchExpr(s)
                 [] OTHER -> NamedCall(s)
          [] name = "time_expression" /\ checkText(next, "{") ->
               TimeExpressionExpr(s)
          [] OTHER -> With(next, VarRef(name))

parsePrimary(s) ==
    CASE check(s, "String") -> AdjacentStrings(s, <<>>)
      [] check(s, "Number") -> NumberLiteral(s)
      [] check(s, "Keyword") /\ Text(s, 0) = "nil" /\ s.dialect = "DGD" ->
           With(advance(s), NilLiteral)
      [] check(s, "QuotedSymbol") -> With(advance(s), SymbolLiteral(Text(s, 0)))
      [] checkText(s, "$") /\ Text(s, 1) = "(" -> BoundValue(s)
      [] checkText(s, "#'") /\ s.dialect = "LDMud" -> HashQuote(advance(s))
      [] checkText(s, "function") /\ Text(s, 1) = "(" -> AnonFunctionExpr(s)
      [] isTypeKeyword(peekAt(s, 0)) /\ Text(s, 1) = "::" ->
           parseQualifiedParentCall(advance(s), Text(s, 0))
      [] checkText(s, "(") -> Parenthesized(s)
      [] checkText(s, "::") -> parseQualifiedParentCall(s, "")
      [] check(s, "Ident") -> Identifier(s)
      [] OTHER -> Fail(s)

-----------------------------------------------------------------------------
(* Postfix, unary and assignment *)

\* "->f(args)", or "->member" in FluffOS.
Arrow(s, target) ==
    LET name == expect(s, "Ident")
        args == Parse("arguments", name)
    IN  IF s.dialect = "FluffOS" /\ ~checkText(name, "(")
        THEN With(name, IndexExpr(target, MemberName(Text(s, 0)), FALSE))
        ELSE With(args, CallOther(target, StringLiteral(<<Text(s, 0)>>),
                                  args.node.es, args.node.spread))

\* The end of a range nobody wrote.
OpenEnd == IntLiteral(2000000000)

\* From the "[" on.
Subscript(s, target) ==
    LET fromEnd == checkText(advance(s), "<")
        start == Parse(IF s.dialect = "LDMud" THEN "expr" ELSE "commaExpr",
                       IF fromEnd THEN Skip(s, 2) ELSE advance(s))
        dots  == advance(start)
        open  == checkText(dots, "]")
        back  == checkText(dots, "<")
        end   == IF open THEN With(dots, OpenEnd)
                 ELSE Parse("expr", IF back THEN advance(dots) ELSE dots)
        column == Parse("expr", dots)
    IN  CASE checkText(start, ",") /\ s.dialect = "LDMud" ->
               With(expectText(column, "]"),
                    IndexExpr(target, Column(start.node, column.node), fromEnd))
          [] checkText(start, "..") ->
               With(expectText(end, "]"),
                    RangeExpr(target, start.node, end.node, fromEnd, back))
          [] OTHER -> With(expectText(start, "]"),
                           IndexExpr(target, start.node, fromEnd))

RECURSIVE PostfixRest(_)
PostfixRest(s) ==
    CASE checkText(s, "->") -> PostfixRest(Arrow(advance(s), s.node))
      [] checkText(s, "[")  -> PostfixRest(Subscript(s, s.node))
      [] OTHER -> s

IncDecOf(s, prefix, op, e) ==
    CASE Failed(s) -> s
      [] ~Failed(s) /\ e.k = "VarRef" -> With(s, IncDec(op, prefix, e.name))
      [] ~Failed(s) /\ e.k = "Index" ->
           With(s, IndexIncDec(op, prefix, e.target, e.index))
      [] OTHER -> Fail(s)

IncDecOps == [t \in {"++", "--"} |-> IF t = "++" THEN "Add" ELSE "Sub"]

parsePostfix(s) ==
    LET e == PostfixRest(Parse("primary", s))
    IN  IF checkText(e, "++") \/ checkText(e, "--")
        THEN IncDecOf(advance(e), FALSE, IncDecOps[Text(e, 0)], e.node)
        ELSE e

CompoundOps ==
    [t \in {"+=", "-=", "*=", "/=", "%=", "|=", "&=", "^=", "<<=", ">>="} |->
       CASE t = "+=" -> "Add"   [] t = "-=" -> "Sub"    [] t = "*=" -> "Mul"
         [] t = "/=" -> "Div"   [] t = "%=" -> "Mod"    [] t = "|=" -> "BitOr"
         [] t = "&=" -> "BitAnd" [] t = "^=" -> "BitXor" [] t = "<<=" -> "Shl"
         [] t = ">>=" -> "Shr"]

SawAssignOp(s) == checkText(s, "=") \/ \E t \in DOMAIN CompoundOps : checkText(s, t)
AssignOp(s)    == IF checkText(s, "=") THEN "" ELSE CompoundOps[Text(s, 0)]

\* "lvalue op= e", from the operator on.
Assignment(s) ==
    LET value == Parse("expr", advance(s))
    IN  CASE s.node.k = "VarRef" ->
               With(value, AssignExpr(s.node.name, AssignOp(s), value.node))
          [] s.node.k = "Index" ->
               With(value, IndexAssignExpr(s.node.target, s.node.index,
                                           AssignOp(s), value.node))
          [] OTHER -> Fail(s)

UnaryOps == [t \in {"!", "-", "~"} |->
               CASE t = "!" -> "Not" [] t = "-" -> "Neg" [] t = "~" -> "BitNot"]

\* The position after "(type)" or "(class c)" at s, which is a cast; 0 if not.
AfterCast(s, n) ==
    LET star == IF checkText(Skip(s, n), "*") THEN 1 ELSE 0
    IN  IF checkText(Skip(s, n + star), ")") THEN n + star + 1 ELSE 0

IsTypeCast(s) == /\ checkText(s, "(") /\ isTypeKeyword(peekAt(s, 1))
                 /\ AfterCast(s, 2) # 0
IsClassCast(s) == /\ s.dialect = "FluffOS" /\ checkText(s, "(")
                  /\ startsClassType(advance(s)) /\ AfterCast(s, 3) # 0

parseUnary(s) ==
    LET operand == Parse("unary", advance(s))
        cast    == Parse("unary", Skip(s, AfterCast(s, 3)))
        plain   == Parse("postfix", s)
    IN  CASE IsTypeCast(s)  -> Parse("unary", Skip(s, AfterCast(s, 2)))
          [] IsClassCast(s) -> IF AfterCast(s, 3) = 5 THEN cast
                               ELSE With(cast, TypeCast(Text(s, 2), cast.node))
          [] \E t \in DOMAIN UnaryOps : checkText(s, t) ->
               With(operand, Unary(UnaryOps[Text(s, 0)], operand.node))
          [] checkText(s, "++") \/ checkText(s, "--") ->
               IncDecOf(operand, TRUE, IncDecOps[Text(s, 0)], operand.node)
          [] OTHER -> IF SawAssignOp(plain) THEN Assignment(plain) ELSE plain

-----------------------------------------------------------------------------
(* Binary operators *)

LogicalOrOps      == ("||" :> "Or")
LogicalAndOps     == ("&&" :> "And")
BitOrOps          == ("|" :> "BitOr")
BitXorOps         == ("^" :> "BitXor")
BitAndOps         == ("&" :> "BitAnd")
EqualityOps       == ("==" :> "Eq") @@ ("!=" :> "Neq")
ComparisonOps     == ("<" :> "Lt") @@ ("<=" :> "Lte") @@ (">" :> "Gt") @@ (">=" :> "Gte")
ShiftOps          == ("<<" :> "Shl") @@ (">>" :> "Shr")
AdditiveOps       == ("+" :> "Add") @@ ("-" :> "Sub")
MultiplicativeOps == ("*" :> "Mul") @@ ("/" :> "Div") @@ ("%" :> "Mod")

\* The parse functions of binary operators, each calling the next.
Levels == <<LogicalOrOps, LogicalAndOps, BitOrOps, BitXorOps, BitAndOps,
            EqualityOps, ComparisonOps, ShiftOps, AdditiveOps,
            MultiplicativeOps>>

RECURSIVE ParseLevel(_, _), LeftChain(_, _)
ParseLevel(n, s) == IF n > Len(Levels) THEN Parse("unary", s)
                    ELSE LeftChain(ParseLevel(n + 1, s), n)

\* "left op right op right ...", from the first operator on.
LeftChain(left, n) ==
    LET right == ParseLevel(n + 1, advance(left))
        op    == Levels[n][Text(left, 0)]
    IN  IF left.pos < Len(left.toks) /\ Type(left, 0) = "Symbol"
           /\ Text(left, 0) \in DOMAIN Levels[n]
        THEN LeftChain(With(right, Bin(op, left.node, right.node)), n)
        ELSE left

parseTernary(s) ==
    LET cond == ParseLevel(1, s)
        then == Parse("expr", advance(cond))
        else == Parse("expr", expectText(then, ":"))
    IN  IF checkText(cond, "?")
        THEN With(else, Ternary(cond.node, then.node, else.node))
        ELSE cond

RECURSIVE CommaRest(_)
CommaRest(left) ==
    LET right == Parse("expr", advance(left))
    IN  IF checkText(left, ",")
        THEN CommaRest(With(right, Comma(left.node, right.node)))
        ELSE left

parseCommaExpr(s) == CommaRest(Parse("expr", s))

Wrapped(es) == [i \in DOMAIN es |-> ExprStmt(es[i])]

\* A clause of "for": one expression, or a chain of them as a Group.
parseCommaExprChain(s) ==
    LET list == ExprList(s, <<>>)
    IN  With(list, IF Len(list.node) = 1 THEN list.node[1]
                   ELSE Group(Wrapped(list.node)))

-----------------------------------------------------------------------------
(* Statements *)

\* "stmt, e, e" where stmt has been read.
continueStatementCommaChain(s) ==
    LET rest == ExprList(advance(s), <<>>)
    IN  IF checkText(s, ",")
        THEN With(rest, Group(<<s.node>> \o Wrapped(rest.node)))
        ELSE s

parseReturnStatement(s) ==
    LET e == IF checkText(s, ";") THEN With(s, None) ELSE Parse("commaExpr", s)
    IN  With(expectText(e, ";"), ReturnStmt(e.node))

\* "name" or "name = e".
parseSingleVarDecl(s) ==
    LET name == expect(s, "Ident")
        init == IF checkText(name, "=") THEN Parse("expr", advance(name))
                ELSE With(name, None)
    IN  With(init, VarDecl(Text(s, 0), init.node))

RECURSIVE VarDecls(_, _)
VarDecls(s, decls) ==
    LET d   == Parse("varDecl", s)
        all == Append(decls, d.node)
    IN  IF checkText(d, ",") THEN VarDecls(consumeArrayMarker(advance(d)), all)
        ELSE With(d, all)

parseVarDeclStatement(s) ==
    LET list == VarDecls(Parse("type", s), <<>>)
    IN  With(expectText(list, ";"), IF Len(list.node) = 1 THEN list.node[1]
                                    ELSE Group(list.node))

parseAssignStatement(s) ==
    LET value == Parse("expr", Skip(s, 2))
    IN  expectText(continueStatementCommaChain(
                     With(value, AssignStmt(Text(s, 0), value.node))), ";")

parseBranch(s) ==
    LET stmt == Parse("statement", s)
    IN  IF checkText(s, "{") THEN Parse("block", s)
        ELSE With(stmt, Group(<<stmt.node>>))

\* "(e)" of a control statement.
Condition(s) == expectText(Parse("commaExpr", expectText(s, "(")), ")")

parseIfStatement(s) ==
    LET cond == Parse("condition", s)
        then == Parse("branch", cond)
        else == IF checkText(then, "else") THEN Parse("branch", advance(then))
                ELSE With(then, None)
    IN  With(else, If(cond.node, then.node, else.node))

parseWhileStatement(s) ==
    LET cond == Parse("condition", s)
        body == Parse("branch", cond)
    IN  With(body, While(cond.node, body.node))

parseDoWhileStatement(s) ==
    LET body == Parse("branch", s)
        cond == Parse("condition", expectText(body, "while"))
    IN  With(expectText(cond, ";"), DoWhile(body.node, cond.node))

\* The clauses of "for(init; cond; update)", each None when empty.
ForInit(s) ==
    CASE checkText(s, ";") -> With(s, None)
      [] startsType(s)     -> Parse("varDecl", Parse("type", s))
      [] OTHER             -> Parse("commaExprChain", s)

parseForStatement(s) ==
    LET init   == Parse("forInit", expectText(s, "("))
        second == expectText(init, ";")
        cond   == IF checkText(second, ";") THEN With(second, None)
                  ELSE Parse("commaExpr", second)
        third  == expectText(cond, ";")
        update == IF checkText(third, ")") THEN With(third, None)
                  ELSE Parse("commaExprChain", third)
        body   == Parse("branch", expectText(update, ")"))
    IN  With(body, For(init.node, cond.node, update.node, body.node))

\* The name follows an optional type; the node is [name, isNewDecl].
parseForeachVar(s) ==
    LET name == IF startsType(s) THEN Parse("type", s) ELSE s
    IN  With(expect(name, "Ident"),
             [name |-> Text(name, 0), isNewDecl |-> startsType(s)])

parseForeachStatement(s) ==
    LET first  == Parse("foreachVar", expectText(s, "("))
        second == IF checkText(first, ",") THEN Parse("foreachVar", advance(first))
                  ELSE With(first, [name |-> "", isNewDecl |-> FALSE])
        coll   == Parse("expr", expectText(second, "in"))
        body   == Parse("branch", expectText(coll, ")"))
    IN  With(body, ForeachStmt(first.node.name, first.node.isNewDecl,
                               second.node.name, second.node.isNewDecl,
                               coll.node, body.node))

\* "e:" or "e..e:" after "case".
CaseRest(s) ==
    LET value == Parse("expr", s)
        end   == IF checkText(value, "..") THEN Parse("expr", advance(value))
                 ELSE With(value, None)
    IN  With(expectText(end, ":"), CaseLabel(value.node, end.node))

SwitchItem(s) ==
    CASE checkText(s, "case") -> CaseRest(advance(s))
      [] checkText(s, "default") ->
           With(expectText(advance(s), ":"), CaseLabel(None, None))
      [] OTHER -> Parse("statement", s)

RECURSIVE SwitchItems(_, _)
SwitchItems(s, items) ==
    LET item == SwitchItem(s)
    IN  CASE checkText(s, "}") -> With(s, items)
          [] atEnd(s)          -> With(Fail(s), items)
          [] OTHER             -> SwitchItems(item, Append(items, item.node))

parseSwitchStatement(s) ==
    LET subject == Parse("condition", s)
        body    == SwitchItems(expectText(subject, "{"), <<>>)
    IN  With(expectText(body, "}"), Switch(subject.node, body.node))

\* An indexed assignment as a statement of its own; the position of s if the
\* statement is not one.
IndexedAssignment(s) ==
    LET target == Parse("postfix", s)
        value  == Parse("expr", advance(target))
        assign == IndexAssignStmt(target.node.target, target.node.index,
                                  AssignOp(target), value.node)
    IN  IF ~Failed(target) /\ target.node.k \in {"Index", "Range"}
           /\ SawAssignOp(target)
        THEN expectText(continueStatementCommaChain(With(value, assign)), ";")
        ELSE IF Failed(target) THEN target ELSE [target EXCEPT !.pos = s.pos]

ExpressionStatement(s) ==
    LET e == Parse("expr", s)
    IN  expectText(continueStatementCommaChain(With(e, ExprStmt(e.node))), ";")

StartsElement(s) == check(s, "Ident") /\ Type(s, 1) = "Symbol"
                    /\ Text(s, 1) \in {"[", "->"}

PlainStatement(s) ==
    LET element == Parse("indexedAssignment", s)
    IN  CASE startsType(s) -> parseVarDeclStatement(s)
          [] ~startsType(s) /\ check(s, "Ident") /\ Type(s, 1) = "Symbol"
             /\ Text(s, 1) = "=" -> parseAssignStatement(s)
          [] ~startsType(s) /\ StartsElement(s) ->
               IF element.pos = s.pos THEN Parse("expressionStatement", element) ELSE element
          [] OTHER -> Parse("expressionStatement", s)

parseStatement(s) ==
    CASE checkText(s, ";")       -> With(advance(s), Block(<<>>))
      [] checkText(s, "{")       -> Parse("block", s)
      [] checkText(s, "if")      -> parseIfStatement(advance(s))
      [] checkText(s, "while")   -> parseWhileStatement(advance(s))
      [] checkText(s, "do")      -> parseDoWhileStatement(advance(s))
      [] checkText(s, "for")     -> parseForStatement(advance(s))
      [] checkText(s, "foreach") -> parseForeachStatement(advance(s))
      [] checkText(s, "switch")  -> parseSwitchStatement(advance(s))
      [] checkText(s, "return")  -> parseReturnStatement(advance(s))
      [] checkText(s, "break")   -> With(expectText(advance(s), ";"), Break)
      [] checkText(s, "continue") -> With(expectText(advance(s), ";"), Continue)
      [] OTHER -> PlainStatement(s)

RECURSIVE BlockItems(_, _)
BlockItems(s, stmts) ==
    LET stmt == Parse("statement", s)
    IN  CASE checkText(s, "}") -> With(s, stmts)
          [] atEnd(s)          -> With(Fail(s), stmts)
          [] OTHER             -> BlockItems(stmt, Append(stmts, stmt.node))

parseBlock(s) ==
    LET items == BlockItems(expectText(s, "{"), <<>>)
    IN  With(expectText(items, "}"), Block(items.node))

-----------------------------------------------------------------------------
(* Declarations *)

\* "type name, type name"; a prototype may leave the names out.
RECURSIVE Params(_, _)
Params(s, names) ==
    LET type == Parse("type", s)
        name == IF check(type, "Ident") THEN Text(type, 0) ELSE ""
        next == IF check(type, "Ident") THEN advance(type) ELSE type
    IN  IF checkText(next, ",") THEN Params(advance(next), Append(names, name))
        ELSE With(next, Append(names, name))

\* The node is [names, isVarargs].
parseParamList(s) ==
    LET list == Params(s, <<>>)
        dots == checkText(list, "...")
    IN  IF checkText(s, ")") THEN With(s, [names |-> <<>>, isVarargs |-> FALSE])
        ELSE With(IF dots THEN advance(list) ELSE list,
                  [names |-> list.node, isVarargs |-> dots])

\* How many modifiers stand at s.
RECURSIVE Modifiers(_, _)
Modifiers(s, n) == IF isModifierKeyword(s, peekAt(s, n)) THEN Modifiers(s, n + 1)
                   ELSE n

\* Modifiers, an optional type and the name, which is not consumed.
parseDeclPrefix(s) ==
    LET type == Skip(s, Modifiers(s, 0))
        name == CASE startsClassType(type) -> consumeArrayMarker(Skip(type, 2))
                  [] IsArrayWord(type)     -> advance(type)
                  [] check(type, "Keyword") -> consumeArrayMarker(advance(type))
                  [] OTHER                 -> type
    IN  With(IF check(name, "Ident") THEN name ELSE Fail(name),
             \E i \in 0 .. Modifiers(s, 0) - 1 : Text(s, i) = "private")

\* From the name of the function on.
parseFunctionRest(s) ==
    LET params == expectText(Parse("paramList", Skip(s, 2)), ")")
        body   == IF checkText(params, ";") THEN With(advance(params), None)
                  ELSE Parse("block", params)
    IN  With(body, Function(Text(s, 0), params.node.names, params.node.isVarargs,
                            body.node))

RECURSIVE ObjectVars(_, _, _)
ObjectVars(s, isPrivate, decls) ==
    LET d   == Parse("varDecl", s)
        all == Append(decls, ObjectVar(d.node.name, isPrivate, d.node.init))
    IN  IF checkText(d, ",")
        THEN ObjectVars(consumeArrayMarker(advance(d)), isPrivate, all)
        ELSE With(expectText(d, ";"), all)

parseObjectVarDeclRest(s, isPrivate) == ObjectVars(s, isPrivate, <<>>)

\* A path, in pieces put side by side or joined by "+".
RECURSIVE PathRest(_, _)
PathRest(s, path) ==
    CASE check(s, "String") -> PathRest(advance(s), path \o Text(s, 0))
      [] checkText(s, "+")  -> PathRest(expect(advance(s), "String"),
                                        path \o Text(s, 1))
      [] OTHER -> With(s, path)

parseInheritPathString(s) == PathRest(expect(s, "String"), Text(s, 0))

parseInheritStatement(s) ==
    LET path == parseInheritPathString(expectText(s, "inherit"))
    IN  With(expectText(path, ";"), FileOf(path.node))

\* "type name, name; type name;" up to the closing brace.
RECURSIVE Members(_, _)
Members(s, names) ==
    LET name == consumeArrayMarker(s)
        next == expect(name, "Ident")
        all  == Append(names, Text(name, 0))
        end  == expectText(next, ";")
    IN  CASE checkText(next, ",") -> Members(advance(next), all)
          [] checkText(end, "}")  -> With(end, all)
          [] OTHER -> IF atEnd(end) THEN With(Fail(end), all)
                      ELSE Members(Parse("type", end), all)

\* From the name of the class on.
parseClassDecl(s) ==
    LET open    == expectText(expect(s, "Ident"), "{")
        members == IF checkText(open, "}") THEN With(open, <<>>)
                   ELSE Members(Parse("type", open), <<>>)
    IN  With(expectText(members, "}"), ClassDecl(Text(s, 0), members.node))

\* After n modifiers: a class declaration?
StartsClassDecl(s, n) ==
    /\ s.dialect = "FluffOS"
    /\ Type(s, n) = "Ident" /\ Text(s, n) = "class"
    /\ Type(s, n + 1) = "Ident" /\ Text(s, n + 2) = "{"

\* One top-level item, added to the program.
Item(s, program) ==
    LET n       == Modifiers(s, 0)
        inherit == Parse("inherit", Skip(s, n))
        class   == Parse("class", Skip(s, n + 1))
        prefix  == Parse("declPrefix", s)
        fn      == Parse("function", prefix)
        decls   == parseObjectVarDeclRest(prefix, prefix.node)
    IN  CASE checkText(s, "inherit") \/ (n > 0 /\ Text(s, n) = "inherit") ->
               With(inherit, [program EXCEPT !.inherits = Append(@, inherit.node)])
          [] StartsClassDecl(s, n) ->
               With(class, [program EXCEPT !.classes = Append(@, class.node)])
          [] checkText(advance(prefix), "(") ->
               With(fn, [program EXCEPT !.functions = Append(@, fn.node)])
          [] OTHER ->
               With(decls, [program EXCEPT !.objectVars = @ \o decls.node])

RECURSIVE Items(_, _)
Items(s, program) ==
    LET item == Item(s, program)
    IN  IF atEnd(s) THEN With(s, program) ELSE Items(item, item.node)

-----------------------------------------------------------------------------

parseExpr(s) == parseTernary(s)

Parse(rule, s) ==
    CASE rule = "primary"        -> parsePrimary(s)
      [] rule = "unary"          -> parseUnary(s)
      [] rule = "expr"           -> parseExpr(s)
      [] rule = "commaExpr"      -> parseCommaExpr(s)
      [] rule = "paramList"      -> parseParamList(s)
      [] rule = "block"          -> parseBlock(s)
      [] rule = "statement"      -> parseStatement(s)
      [] rule = "postfix"        -> parsePostfix(s)
      [] rule = "arguments"      -> Arguments(s)
      [] rule = "branch"         -> parseBranch(s)
      [] rule = "condition"      -> Condition(s)
      [] rule = "commaExprChain" -> parseCommaExprChain(s)
      [] rule = "varDecl"        -> parseSingleVarDecl(s)
      [] rule = "forInit"        -> ForInit(s)
      [] rule = "foreachVar"     -> parseForeachVar(s)
      [] rule = "indexedAssignment"   -> IndexedAssignment(s)
      [] rule = "expressionStatement" -> ExpressionStatement(s)
      [] rule = "type"           -> parseTypeToken(s)
      [] rule = "declPrefix"     -> parseDeclPrefix(s)
      [] rule = "inherit"        -> parseInheritStatement(s)
      [] rule = "class"          -> parseClassDecl(s)
      [] rule = "function"       -> parseFunctionRest(s)
      [] rule = "program"        -> Items(s, ProgramTree(<<>>, <<>>, <<>>, <<>>))

NoProgram == [k |-> "ParseError"]

parseProgram(toks, dialect) ==
    LET end == Parse("program", NewParser(toks, dialect))
    IN  IF Failed(end) THEN NoProgram ELSE end.node
=============================================================================
