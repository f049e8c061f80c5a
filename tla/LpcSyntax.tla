----------------------------- MODULE LpcSyntax ------------------------------
(***************************************************************************)
(* The syntax trees of Ast.hpp, as records.  An absent child (a null       *)
(* AstPtr) is None; a list is a sequence; a string is the sequence of the  *)
(* pieces it was joined from.                                              *)
(*                                                                         *)
(* Left out: declared types, which nothing but member access reads.        *)
(***************************************************************************)
EXTENDS Naturals, Sequences

None == [k |-> "None"]

\* Expressions.
IntLiteral(n)            == [k |-> "IntLiteral", value |-> n]
StringLiteral(s)         == [k |-> "StringLiteral", value |-> s]
FloatLiteral(text)       == [k |-> "FloatLiteral", text |-> text]
NilLiteral               == [k |-> "NilLiteral"]
SymbolLiteral(x)         == [k |-> "SymbolLiteral", name |-> x]
VarRef(x)                == [k |-> "VarRef", name |-> x]
Bin(op, l, r)            == [k |-> "Binary", op |-> op, left |-> l, right |-> r]
Unary(op, e)             == [k |-> "Unary", op |-> op, operand |-> e]
Ternary(c, a, b)         == [k |-> "Ternary", cond |-> c, then |-> a, else |-> b]
Comma(l, r)              == [k |-> "Comma", left |-> l, right |-> r]
Catch(e)                 == [k |-> "Catch", guarded |-> e]
TimeExpression(b)        == [k |-> "TimeExpression", body |-> b]

\* op = "" is plain assignment; any other op is the compound "op=".
AssignExpr(x, op, e)     == [k |-> "Assign", name |-> x, op |-> op, value |-> e]
IndexAssignExpr(t, i, op, e) == [k |-> "IndexAssign", target |-> t, index |-> i,
                             op |-> op, value |-> e]

\* op is "Add" or "Sub"; a target of None means the variable `name`.
IncDec(op, prefix, x)         == [k |-> "IncDec", op |-> op, prefix |-> prefix,
                                  name |-> x, target |-> None, index |-> None]
IndexIncDec(op, prefix, t, i) == [k |-> "IncDec", op |-> op, prefix |-> prefix,
                                  name |-> "", target |-> t, index |-> i]

\* spread[i]: the i-th element is written "expr...".
ArrayLiteral(es, spread) == [k |-> "ArrayLiteral", elements |-> es,
                             spread |-> spread]
\* An entry is its key followed by its values (more than one in LDMud).
MappingLiteral(es)       == [k |-> "MappingLiteral", entries |-> es]
IndexExpr(t, i, fromEnd) == [k |-> "Index", target |-> t, index |-> i,
                             fromEnd |-> fromEnd]
RangeExpr(t, i, j, fromEnd, endFromEnd) ==
    [k |-> "Range", target |-> t, index |-> i, rangeEnd |-> j,
     fromEnd |-> fromEnd, endFromEnd |-> endFromEnd]

\* LDMud's map[key, n]: the pair that stands where the index does.
Column(i, c)             == [k |-> "Column", index |-> i, column |-> c]

\* Classes: "t->member" is an IndexExpr with a MemberName for its index.
MemberName(x)            == [k |-> "MemberName", name |-> x]
NewClass(c, inits)       == [k |-> "NewClass", class |-> c, inits |-> inits]
TypeCast(c, e)           == [k |-> "TypeCast", class |-> c, inner |-> e]

CallOther(t, f, args, spread) ==
    [k |-> "CallOther", target |-> t, function |-> f, args |-> args,
     spread |-> spread]
\* outs: the lvalues the matches are stored in.
Sscanf(t, format, outs)  == [k |-> "Sscanf", target |-> t, format |-> format,
                             outs |-> outs]

\* form: "plain", "efun" (efun::f) or "parent" (::f, or q::f with qualifier
\* the inherited program, 0 for none).
CallExpr(form, f, args, spread, qualifier) ==
    [k |-> "Call", form |-> form, callee |-> f, args |-> args,
     spread |-> spread, qualifier |-> qualifier]

ClosureLiteral(f, bound) == [k |-> "ClosureLiteral", name |-> f, bound |-> bound]

\* LDMud's #'efun::f.
EfunClosure(f)           == [k |-> "EfunClosure", name |-> f]

\* "(: body :)": paramCount counts "$1".., bound are the "$(expr)".
InlineLambda(paramCount, bound, body) ==
    [k |-> "InlineLambda", paramCount |-> paramCount, bound |-> bound,
     body |-> body]
LambdaParam(i, isBound)  == [k |-> "LambdaParam", index |-> i,
                             isBound |-> isBound]
AnonFunction(params, isVarargs, body) ==
    [k |-> "AnonFunction", params |-> params, isVarargs |-> isVarargs,
     body |-> body]

\* Statements.
ExprStmt(e)              == [k |-> "ExprStmt", expr |-> e]
ReturnStmt(e)            == [k |-> "Return", expr |-> e]
VarDecl(x, e)            == [k |-> "VarDecl", name |-> x, init |-> e]
AssignStmt(x, e)         == [k |-> "AssignStmt", name |-> x, value |-> e]
IndexAssignStmt(t, i, op, e) ==
    [k |-> "IndexAssignStmt", target |-> t, index |-> i, op |-> op, value |-> e]
If(c, a, b)              == [k |-> "If", cond |-> c, then |-> a, else |-> b]
While(c, b)              == [k |-> "While", cond |-> c, body |-> b]
DoWhile(b, c)            == [k |-> "DoWhile", cond |-> c, body |-> b]
For(i, c, u, b)          == [k |-> "For", init |-> i, cond |-> c, update |-> u,
                             body |-> b]
\* valueVar is "" for the one-variable form; declare, declareValue: the
\* variable is new.
ForeachStmt(x, declare, valueVar, declareValue, coll, b) ==
    [k |-> "Foreach", name |-> x, declare |-> declare, valueVar |-> valueVar,
     declareValue |-> declareValue, collection |-> coll, body |-> b]
Foreach(x, valueVar, declare, coll, b) ==
    ForeachStmt(x, declare, valueVar, declare /\ valueVar # "", coll, b)
Switch(e, items)         == [k |-> "Switch", subject |-> e, items |-> items]
\* value None is "default:"; rangeEnd None is a plain "case v:".
CaseLabel(v, rangeEnd)   == [k |-> "CaseLabel", value |-> v, rangeEnd |-> rangeEnd]
Break                    == [k |-> "Break"]
Continue                 == [k |-> "Continue"]
Block(stmts)             == [k |-> "Block", stmts |-> stmts, isRealScope |-> TRUE]
\* A Block the parser builds for "int a, b;" or a comma chain: no scope.
Group(stmts)             == [k |-> "Block", stmts |-> stmts, isRealScope |-> FALSE]

Statements == {"Block", "ExprStmt", "Return", "VarDecl", "AssignStmt",
               "IndexAssignStmt", "If", "While", "DoWhile", "For", "Foreach",
               "Switch", "Break", "Continue"}

\* Files.  body None is a prototype.
Function(f, params, isVarargs, body) ==
    [name |-> f, params |-> params, isVarargs |-> isVarargs, body |-> body]
ObjectVar(x, isPrivate, e) ==
    [name |-> x, isPrivate |-> isPrivate, init |-> e]
ClassDecl(c, members) == [name |-> c, members |-> members]
ProgramTree(inherits, classes, objectVars, functions) ==
    [inherits |-> inherits, classes |-> classes, objectVars |-> objectVars,
     functions |-> functions]
File(inherits, objectVars, functions) ==
    ProgramTree(inherits, <<>>, objectVars, functions)
=============================================================================
