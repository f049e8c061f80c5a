------------------------------ MODULE LpcText -------------------------------
(***************************************************************************)
(* How a syntax tree is written in LPC: the reference the lexer and the    *)
(* parser are checked against.  It is written from the precedence table    *)
(* and the forms of the language, weakest operator first, and knows        *)
(* nothing of how the parser works.                                        *)
(*                                                                         *)
(* A style is "plain" (the fewest parentheses, the usual spelling) or      *)
(* "full" (parentheses around every operand, and the other spelling where  *)
(* the language has two: trailing commas, calls by pointer, call_other(),  *)
(* hex and character constants, heredocs, strings in pieces, modifiers).   *)
(***************************************************************************)
EXTENDS LpcSyntax, Lexer, SequencesExt

\* A token as the lexer should give it, with how it is spelled.
Tok(type, text, spelling) == [type |-> type, text |-> text, spelling |-> spelling]
Sym(x)    == Tok("Symbol", x, x)
Word(x)   == Tok(IF x \in Keywords THEN "Keyword" ELSE "Ident", x, x)
Syms(xs)  == [i \in DOMAIN xs |-> Sym(xs[i])]
Parens(t) == <<Sym("(")>> \o t \o <<Sym(")")>>

Joined(ts, separator) ==
    FlattenSeq([i \in DOMAIN ts |->
        IF i = 1 THEN ts[i] ELSE <<Sym(separator)>> \o ts[i]])

\* Literals.
EscapeChar(c) == CASE c = "\"" -> "\\\"" [] c = "\\" -> "\\\\"
                   [] c = "\n" -> "\\n"  [] c = "\t" -> "\\t" [] OTHER -> c

RECURSIVE Escape(_)
Escape(text) == IF text = "" THEN ""
                ELSE EscapeChar(At(text, 1)) \o Escape(Slice(text, 2, Len(text)))

IsLines(text) == text # "" /\ At(text, Len(text)) = "\n"

StringTok(text, full) ==
    Tok("String", text,
        IF full /\ IsLines(text) THEN "@END\n" \o text \o "END"
        ELSE "\"" \o Escape(text) \o "\"")

RECURSIVE Hex(_)
Hex(n) == IF n < 16 THEN DigitNames[n] ELSE Hex(n \div 16) \o DigitNames[n % 16]

\* In full style the number is a character constant or hexadecimal.
NumberTok(n, full) ==
    CASE full /\ n \in 97 .. 122 ->
           Tok("Number", Decimal(n),
               "'" \o SubSeq("abcdefghijklmnopqrstuvwxyz", n - 96, n - 96) \o "'")
      [] full /\ n \notin 97 .. 122 -> Tok("Number", "0x" \o Hex(n), "0x" \o Hex(n))
      [] OTHER -> Tok("Number", Decimal(n), Decimal(n))

-----------------------------------------------------------------------------
(* Precedence *)

BinaryText ==
    [Or |-> "||", And |-> "&&", BitOr |-> "|", BitXor |-> "^", BitAnd |-> "&",
     Eq |-> "==", Neq |-> "!=", Lt |-> "<", Lte |-> "<=", Gt |-> ">",
     Gte |-> ">=", Shl |-> "<<", Shr |-> ">>", Add |-> "+", Sub |-> "-",
     Mul |-> "*", Div |-> "/", Mod |-> "%"]

UnaryText == [Not |-> "!", Neg |-> "-", BitNot |-> "~"]

\* Rows of the table, weakest first; all binary operators associate to the left.
Table == <<{"Or"}, {"And"}, {"BitOr"}, {"BitXor"}, {"BitAnd"}, {"Eq", "Neq"},
           {"Lt", "Lte", "Gt", "Gte"}, {"Shl", "Shr"}, {"Add", "Sub"},
           {"Mul", "Div", "Mod"}>>

Row(op) == CHOOSE i \in DOMAIN Table : op \in Table[i]

Sequence   == 0                 \* a, b
Whole      == 1                 \* a = b, a ? b : c
Prefixed   == 2 + Len(Table)    \* !a
Postfixed  == Prefixed + 1      \* a++
Operand    == Prefixed + 2      \* a[b], f(a), literals

Level(e) ==
    CASE e.k = "Comma" -> Sequence
      [] e.k \in {"Ternary", "Assign", "IndexAssign"} -> Whole
      [] e.k = "Binary" -> 1 + Row(e.op)
      [] e.k \in {"Unary", "TypeCast"} \/ (e.k = "IncDec" /\ e.prefix) -> Prefixed
      [] e.k = "IncDec" /\ ~e.prefix -> Postfixed
      [] OTHER -> Operand

AssignSym(op) == Sym(IF op = "" THEN "=" ELSE BinaryText[op] \o "=")

-----------------------------------------------------------------------------

\* The tokens of tree n.  c: [full, dialect, bound], the last the $(...)
\* values of the innermost lambda.
RECURSIVE Toks(_, _)

\* An expression where one of at least this level is due.
Sub(e, level, c) ==
    IF Level(e) < level \/ (c.full /\ Level(e) < Operand)
    THEN Parens(Toks(e, c)) ELSE Toks(e, c)

Subs(es, c) == [i \in DOMAIN es |-> Sub(es[i], Whole, c)]

TrailingComma(ts, c) == IF c.full /\ ts # <<>> THEN <<Sym(",")>> ELSE <<>>

\* "a, b..., c".
Elems(es, spread, c) ==
    LET ts == [i \in DOMAIN es |->
                 Sub(es[i], Whole, c) \o IF spread[i] THEN <<Sym("...")>> ELSE <<>>]
    IN  Joined(ts, ",") \o TrailingComma(ts, c)

Args(es, spread, c) == Parens(Elems(es, spread, c))

ParamToks(names, isVarargs) ==
    Parens(Joined([i \in DOMAIN names |-> <<Word("mixed"), Word(names[i])>>], ",")
             \o IF isVarargs THEN <<Sym("...")>> ELSE <<>>)

Name(i) == "f" \o Decimal(i)

CallToks(e, c) ==
    LET plain == Args(e.args, e.spread, c)
    IN  CASE e.form = "plain" -> <<Word(e.callee)>> \o plain
          [] e.form = "parent" ->
               (IF e.qualifier = 0 THEN <<>> ELSE <<Word(Name(e.qualifier))>>)
                 \o <<Sym("::"), Word(e.callee)>> \o plain
          [] e.form = "efun" /\ c.full /\ e.callee = "evaluate" ->
               Parens(<<Sym("*")>> \o Sub(e.args[1], Whole, c))
                 \o Args(Tail(e.args), Tail(e.spread), c)
          [] OTHER -> <<Word("efun"), Sym("::"), Word(e.callee)>> \o plain

\* The index of a[i], a->m and a[i, n].
IndexStart(fromEnd) == Syms(IF fromEnd THEN <<"[", "<">> ELSE <<"[">>)
IndexLevel(c) == IF c.dialect = "LDMud" THEN Whole ELSE Sequence

ElementToks(t, i, fromEnd, c) ==
    Sub(t, Operand, c) \o
    CASE i.k = "MemberName" -> <<Sym("->"), Word(i.name)>>
      [] i.k = "Column" -> IndexStart(fromEnd) \o Sub(i.index, Whole, c)
                             \o <<Sym(",")>> \o Sub(i.column, Whole, c)
                             \o <<Sym("]")>>
      [] OTHER -> IndexStart(fromEnd) \o Sub(i, IndexLevel(c), c) \o <<Sym("]")>>

\* A range to the end may be left open.
RangeToks(e, c) ==
    Sub(e.target, Operand, c) \o IndexStart(e.fromEnd)
      \o Sub(e.index, IndexLevel(c), c) \o <<Sym("..")>>
      \o (IF e.endFromEnd THEN <<Sym("<")>> ELSE <<>>)
      \o (IF e.rangeEnd = IntLiteral(2000000000) THEN <<>>
          ELSE Sub(e.rangeEnd, Whole, c))
      \o <<Sym("]")>>

Lvalue(e, c) == IF e.target = None THEN <<Word(e.name)>>
                ELSE ElementToks(e.target, e.index, FALSE, c)

\* A lambda whose body starts with a name is not a closure of that name.
LambdaToks(e, c) ==
    LET inner == [c EXCEPT !.bound = e.bound]
        Body(i) == IF i = 1 /\ e.body[1].k = "VarRef"
                   THEN Parens(Toks(e.body[1], inner))
                   ELSE Sub(e.body[i], Whole, inner)
    IN  Parens(<<Sym(":")>> \o Joined([i \in DOMAIN e.body |-> Body(i)], ",")
                 \o <<Sym(":")>>)

EntryToks(entry, c) ==
    Sub(entry[1], Whole, c) \o <<Sym(":")>> \o Joined(Subs(Tail(entry), c), ";")

ArrowCall(e, c) ==
    Sub(e.target, Operand, c) \o <<Sym("->"), Word(e.function.value[1])>>
      \o Args(e.args, e.spread, c)

IsName(e) == e.k = "StringLiteral" /\ Len(e.value) = 1

ExprToks(e, c) ==
    CASE e.k = "IntLiteral"    -> <<NumberTok(e.value, c.full)>>
      [] e.k = "FloatLiteral"  -> <<Tok("Number", e.text, e.text)>>
      [] e.k = "NilLiteral"    -> <<Tok("Keyword", "nil", "nil")>>
      [] e.k = "SymbolLiteral" -> <<Tok("QuotedSymbol", e.name, "'" \o e.name)>>
      [] e.k = "StringLiteral" ->
           [i \in DOMAIN e.value |-> StringTok(e.value[i], c.full)]
             \o IF c.full \/ e.value = <<>> THEN <<StringTok("", FALSE)>> ELSE <<>>
      [] e.k = "VarRef" -> <<Word(e.name)>>
      [] e.k = "LambdaParam" ->
           IF e.isBound THEN <<Sym("$")>> \o Parens(Toks(c.bound[e.index], c))
           ELSE <<Tok("Ident", "$" \o Decimal(e.index), "$" \o Decimal(e.index))>>
      [] e.k = "Comma" -> Sub(e.left, Sequence, c) \o <<Sym(",")>>
                            \o Sub(e.right, Whole, c)
      [] e.k = "Ternary" -> Sub(e.cond, 2, c) \o <<Sym("?")>> \o Sub(e.then, Whole, c)
                              \o <<Sym(":")>> \o Sub(e.else, Whole, c)
      [] e.k = "Binary" -> Sub(e.left, Level(e), c) \o <<Sym(BinaryText[e.op])>>
                             \o Sub(e.right, Level(e) + 1, c)
      [] e.k = "Unary" -> <<Sym(UnaryText[e.op])>> \o Sub(e.operand, Prefixed, c)
      [] e.k = "TypeCast" -> Parens(<<Word("class"), Word(e.class)>>)
                               \o Sub(e.inner, Prefixed, c)
      [] e.k = "Assign" -> <<Word(e.name), AssignSym(e.op)>> \o Sub(e.value, Whole, c)
      [] e.k = "IndexAssign" -> ElementToks(e.target, e.index, FALSE, c)
                                  \o <<AssignSym(e.op)>> \o Sub(e.value, Whole, c)
      [] e.k = "IncDec" ->
           LET op == <<Sym(IF e.op = "Add" THEN "++" ELSE "--")>>
           IN  IF e.prefix THEN op \o Lvalue(e, c) ELSE Lvalue(e, c) \o op
      [] e.k = "Index" -> ElementToks(e.target, e.index, e.fromEnd, c)
      [] e.k = "Range" -> RangeToks(e, c)
      [] e.k = "ArrayLiteral" ->
           Parens(<<Sym("{")>> \o Elems(e.elements, e.spread, c) \o <<Sym("}")>>)
      [] e.k = "MappingLiteral" ->
           LET ts == [i \in DOMAIN e.entries |-> EntryToks(e.entries[i], c)]
           IN  Parens(<<Sym("[")>> \o Joined(ts, ",") \o TrailingComma(ts, c)
                        \o <<Sym("]")>>)
      [] e.k = "Call" -> CallToks(e, c)
      [] e.k = "CallOther" ->
           IF IsName(e.function) /\ ~c.full THEN ArrowCall(e, c)
           ELSE <<Word("call_other")>> \o
                Args(<<e.target, e.function>> \o e.args, <<FALSE, FALSE>> \o e.spread, c)
      [] e.k = "Sscanf" ->
           <<Word("sscanf")>> \o
             Parens(Joined(Subs(<<e.target, e.format>> \o e.outs, c), ","))
      [] e.k = "NewClass" ->
           <<Word("new")>> \o Parens(<<Word("class"), Word(e.class)>>
             \o Joined([i \in DOMAIN e.inits |->
                          <<Word(e.inits[i][1]), Sym(":")>>
                            \o Sub(e.inits[i][2], Whole, c)], ","))
      [] e.k = "ClosureLiteral" ->
           Parens(<<Sym(":"), Word(e.name)>>
             \o FlattenSeq([i \in DOMAIN e.bound |->
                              <<Sym(",")>> \o Sub(e.bound[i], Whole, c)])
             \o <<Sym(":")>>)
      [] e.k = "EfunClosure" -> <<Sym("#'"), Word("efun"), Sym("::"), Word(e.name)>>
      [] e.k = "InlineLambda" -> LambdaToks(e, c)
      [] e.k = "AnonFunction" ->
           <<Word("function")>> \o ParamToks(e.params, e.isVarargs) \o Toks(e.body, c)
      [] e.k = "Catch" -> <<Word("catch")>> \o Parens(Toks(e.guarded, c))
      [] e.k = "TimeExpression" -> <<Word("time_expression")>> \o Toks(e.body, c)

-----------------------------------------------------------------------------
(* Statements and files *)

Semi == <<Sym(";")>>

DeclToks(d, c) ==
    <<Word(d.name)>> \o
    IF d.init = None THEN <<>> ELSE <<Sym("=")>> \o Sub(d.init, Whole, c)

\* A statement without its ";", where it may start a chain "a = 1, b++".  An
\* assignment that is an expression, and an expression that would start like a
\* declaration, are written in parentheses.
Simple(s, c) ==
    CASE s.k = "AssignStmt" -> <<Word(s.name), Sym("=")>> \o Sub(s.value, Whole, c)
      [] s.k = "IndexAssignStmt" ->
           ElementToks(s.target, s.index, FALSE, c) \o <<AssignSym(s.op)>>
             \o Sub(s.value, Whole, c)
      [] s.k = "ExprStmt" ->
           IF \/ s.expr.k = "IndexAssign" \/ (s.expr.k = "Assign" /\ s.expr.op = "")
              \/ Toks(s.expr, c)[1].type = "Keyword"
           THEN Parens(Toks(s.expr, c)) ELSE Sub(s.expr, Whole, c)

Chain(ss, c) ==
    Simple(ss[1], c) \o
    FlattenSeq([i \in 1 .. Len(ss) - 1 |->
                  <<Sym(",")>> \o Sub(ss[i + 1].expr, Whole, c)])

GroupToks(ss, c) ==
    IF ss[1].k = "VarDecl"
    THEN <<Word("mixed")>> \o Joined([i \in DOMAIN ss |-> DeclToks(ss[i], c)], ",")
           \o Semi
    ELSE Chain(ss, c) \o Semi

\* The body of a control statement.
Branch(b, c) == IF b.isRealScope THEN Toks(b, c) ELSE Toks(b.stmts[1], c)

Clause(n, c) ==
    CASE n.k = "None"    -> <<>>
      [] n.k = "VarDecl" -> <<Word("int")>> \o DeclToks(n, c)
      [] n.k = "Block"   -> Joined([i \in DOMAIN n.stmts |->
                                      Sub(n.stmts[i].expr, Whole, c)], ",")
      [] OTHER           -> Sub(n, Whole, c)

LoopVar(x, isNew) == (IF isNew THEN <<Word("mixed")>> ELSE <<>>) \o <<Word(x)>>

StmtToks(s, c) ==
    CASE s.k \in {"ExprStmt", "AssignStmt", "IndexAssignStmt"} -> Simple(s, c) \o Semi
      [] s.k = "Return" -> <<Word("return")>>
           \o (IF s.expr = None THEN <<>> ELSE Toks(s.expr, c)) \o Semi
      [] s.k = "VarDecl" -> <<Word("mixed")>> \o DeclToks(s, c) \o Semi
      [] s.k = "If" ->
           <<Word("if")>> \o Parens(Toks(s.cond, c)) \o Branch(s.then, c)
             \o IF s.else = None THEN <<>> ELSE <<Word("else")>> \o Branch(s.else, c)
      [] s.k = "While" -> <<Word("while")>> \o Parens(Toks(s.cond, c)) \o Branch(s.body, c)
      [] s.k = "DoWhile" -> <<Word("do")>> \o Branch(s.body, c) \o <<Word("while")>>
                              \o Parens(Toks(s.cond, c)) \o Semi
      [] s.k = "For" ->
           <<Word("for")>> \o
             Parens(Clause(s.init, c) \o Semi
                      \o (IF s.cond = None THEN <<>> ELSE Toks(s.cond, c))
                      \o Semi \o Clause(s.update, c))
             \o Branch(s.body, c)
      [] s.k = "Foreach" ->
           <<Word("foreach")>> \o
             Parens(LoopVar(s.name, s.declare)
                      \o (IF s.valueVar = "" THEN <<>>
                          ELSE <<Sym(",")>> \o LoopVar(s.valueVar, s.declareValue))
                      \o <<Word("in")>> \o Sub(s.collection, Whole, c))
             \o Branch(s.body, c)
      [] s.k = "Switch" ->
           <<Word("switch")>> \o Parens(Toks(s.subject, c)) \o <<Sym("{")>>
             \o FlattenSeq([i \in DOMAIN s.items |-> Toks(s.items[i], c)])
             \o <<Sym("}")>>
      [] s.k = "CaseLabel" ->
           IF s.value = None THEN <<Word("default"), Sym(":")>>
           ELSE <<Word("case")>> \o Sub(s.value, Whole, c)
                  \o (IF s.rangeEnd = None THEN <<>>
                      ELSE <<Sym("..")>> \o Sub(s.rangeEnd, Whole, c))
                  \o <<Sym(":")>>
      [] s.k = "Break" -> <<Word("break")>> \o Semi
      [] s.k = "Continue" -> <<Word("continue")>> \o Semi
      [] s.k = "Block" ->
           IF s.isRealScope
           THEN <<Sym("{")>> \o FlattenSeq([i \in DOMAIN s.stmts |-> Toks(s.stmts[i], c)])
                  \o <<Sym("}")>>
           ELSE GroupToks(s.stmts, c)

Toks(n, c) == IF n.k \in Statements \cup {"CaseLabel"} THEN StmtToks(n, c)
              ELSE ExprToks(n, c)

InheritToks(i, c) ==
    (IF c.full THEN <<Word("private")>> ELSE <<>>) \o <<Word("inherit")>> \o
    (IF c.full THEN <<StringTok("f", FALSE), Sym("+"), StringTok(Decimal(i), FALSE)>>
     ELSE <<StringTok(Name(i), FALSE)>>) \o Semi

ClassToks(d, c) ==
    <<Word("class"), Word(d.name), Sym("{")>> \o
    (IF d.members = <<>> THEN <<>>
     ELSE IF c.full
          THEN <<Word("int")>> \o Joined([i \in DOMAIN d.members |->
                                   <<Sym("*"), Word(d.members[i])>>], ",") \o Semi
          ELSE FlattenSeq([i \in DOMAIN d.members |->
                             <<Word("mixed"), Word(d.members[i])>> \o Semi]))
      \o <<Sym("}")>>

VarToks(v, c) ==
    (IF v.isPrivate THEN <<Word("private")>> ELSE <<>>)
      \o (IF c.full THEN <<Word("static"), Word("int"), Sym("*")>>
          ELSE <<Word("mixed")>>)
      \o DeclToks(v, c) \o Semi

FunctionToks(f, c) ==
    (IF c.full THEN <<Word("nomask")>> ELSE <<Word("mixed")>>)
      \o <<Word(f.name)>> \o ParamToks(f.params, f.isVarargs)
      \o IF f.body = None THEN Semi ELSE Toks(f.body, c)

Context(full, dialect) == [full |-> full, dialect |-> dialect, bound |-> <<>>]

\* The tokens of a file.
Written(file, full, dialect) ==
    LET c == Context(full, dialect)
    IN  FlattenSeq([i \in DOMAIN file.inherits |-> InheritToks(file.inherits[i], c)])
          \o FlattenSeq([i \in DOMAIN file.classes |-> ClassToks(file.classes[i], c)])
          \o FlattenSeq([i \in DOMAIN file.objectVars |-> VarToks(file.objectVars[i], c)])
          \o FlattenSeq([i \in DOMAIN file.functions |->
                           FunctionToks(file.functions[i], c)])

-----------------------------------------------------------------------------
(* Layout *)

\* Characters that would be read as one token, or as a comment, side by side.
Clash == {Slice(x, 1, 2) : x \in LongSymbols} \cup {"//", "/*"}

Touch(a, b) ==
    LET last  == At(a.spelling, Len(a.spelling))
        first == At(b.spelling, 1)
    IN  (last \in NameChars /\ first \in NameChars) \/ last \o first \in Clash

\* full: every token is followed by a comment; plain: by a space where one is
\* needed, by nothing elsewhere.
RECURSIVE TextOf(_, _)
TextOf(ts, full) ==
    IF ts = <<>> THEN ""
    ELSE Head(ts).spelling
           \o (IF full THEN " /* ; */ // \"\n"
               ELSE IF Len(ts) > 1 /\ Touch(ts[1], ts[2]) THEN " " ELSE "")
           \o TextOf(Tail(ts), full)
=============================================================================
