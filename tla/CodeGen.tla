------------------------------ MODULE CodeGen -------------------------------
(***************************************************************************)
(* The bytecode generator (CodeGen.cpp) and the linking of a file with the *)
(* programs it inherits (ObjectManager::compile()).                        *)
(*                                                                         *)
(* CodeGen's member variables are one record g: every emit operator takes  *)
(* a node and g and gives the g after the code's emit function has run, so *)
(* emission order, jump patching, slot numbers and the queues of closure   *)
(* bodies are the code's.  Positions and slots are 1-based; an instruction *)
(* holds its string or constant itself instead of a pool index.            *)
(*                                                                         *)
(* The C++ locals that an emit function keeps across the emission of a     *)
(* child (jump indices, loop tops, hidden slots, a loop's context) are the *)
(* stack g.saved; Saved(k, g) is the k-th most recent of them.             *)
(*                                                                         *)
(* The definitions are recursive over the tree: this module is for TLC.    *)
(***************************************************************************)
EXTENDS LpcSyntax, Values, FiniteSets

Fresh(objVars) ==
    [code |-> <<>>, locals |-> <<>>, next |-> 0, scopes |-> <<>>,
     loops |-> <<>>, lambdas |-> <<>>, anons |-> <<>>, lambdaId |-> 0,
     anonId |-> 0, boundCount |-> 0, objVars |-> objVars, functions |-> <<>>,
     saved |-> <<>>, error |-> FALSE]

\* Instruction{op, operand, argCount}
Emit(op, a, n, g) == [g EXCEPT !.code = Append(@, [op |-> op, a |-> a, n |-> n])]

Here(g) == Len(g.code) + 1

Save(x, g)  == [g EXCEPT !.saved = Append(@, x)]
Saved(k, g) == g.saved[Len(g.saved) + 1 - k]
Forget(k, g) == [g EXCEPT !.saved = SubSeq(@, 1, Len(@) - k)]

\* The index emitJumpPlaceholder() returns is saved.
emitJumpPlaceholder(op, g) == Emit(op, 0, 0, Save(Here(g), g))

\* Patches, and forgets, the k-th most recently saved jump.
patchJumpToHere(k, g) ==
    [g EXCEPT !.code[Saved(k, g)].a = Here(g),
              !.saved = RemoveAt(@, Len(@) + 1 - k)]

PatchAll(jumps, target, g) ==
    FoldLeft(LAMBDA acc, j : [acc EXCEPT !.code[j].a = target], g, jumps)

\* A child of either kind: emitExpr() or emitStatement().
RECURSIVE emit(_, _)

RECURSIVE EmitEach(_, _)
EmitEach(nodes, g) ==
    IF nodes = <<>> THEN g ELSE EmitEach(Tail(nodes), emit(Head(nodes), g))

-----------------------------------------------------------------------------
(* Names *)

\* A named local fails if the name is visible; every declaration takes a new
\* slot, which g.next names afterwards.  Slots are not reused.
declareLocal(name, g) ==
    IF name \in DOMAIN g.locals THEN [g EXCEPT !.error = TRUE]
    ELSE [g EXCEPT !.next = @ + 1,
                   !.locals = (name :> g.next + 1) @@ @,
                   !.scopes = IF @ = <<>> THEN @
                              ELSE Append(Front(@), Append(Last(@), name))]

\* A hidden temporary: its name is never looked up, its slot is saved.
DeclareHidden(g) == [g EXCEPT !.next = @ + 1, !.saved = Append(@, g.next + 1)]

\* PushLocal or StoreLocal on the k-th most recently saved slot.
Hidden(op, k, g) == Emit(op, Saved(k, g), 0, g)

OpenScope(g) == [g EXCEPT !.scopes = Append(@, <<>>)]

CloseScope(g) ==
    [g EXCEPT !.scopes = Front(@),
              !.locals = [x \in DOMAIN @ \ ToSet(Last(g.scopes)) |-> @[x]]]

\* A local hides an object variable of the same name.
resolveVariable(name, g) ==
    CASE name \in DOMAIN g.locals  -> [kind |-> "Local", slot |-> g.locals[name]]
      [] name \notin DOMAIN g.locals /\ name \in DOMAIN g.objVars ->
            [kind |-> "ObjectVar", slot |-> g.objVars[name]]
      [] OTHER -> [kind |-> "Undeclared", slot |-> 0]

Access(action, name, g) ==
    LET var == resolveVariable(name, g)
    IN  IF var.kind = "Undeclared" THEN [g EXCEPT !.error = TRUE]
        ELSE Emit(action \o var.kind, var.slot, 0, g)

PushVar(name, g)  == Access("Push", name, g)
StoreVar(name, g) == Access("Store", name, g)

RECURSIVE EmitStatements(_, _)
EmitStatements(stmts, g) ==
    IF stmts = <<>> THEN g
    ELSE EmitStatements(Tail(stmts), emit(Head(stmts), g))

\* Names declared in a block are gone after it.
emitBlock(b, g) == CloseScope(EmitStatements(b.stmts, OpenScope(g)))

-----------------------------------------------------------------------------
(* Expressions *)

emitBinaryExpr(e, g) ==
    Emit(e.op, 0, 0, emit(e.right, emit(e.left, g)))

\* The end of a first alternative: jump over the second, which starts here.
Otherwise(g) == patchJumpToHere(2, emitJumpPlaceholder("Jump", g))

emitLogicalExpr(e, g) ==
    LET test  == emitJumpPlaceholder("JumpIfFalse",
                                     Emit("Dup", 0, 0, emit(e.left, g)))
        other == IF e.op = "And" THEN test
                 ELSE Otherwise(test)
    IN  patchJumpToHere(1, emit(e.right, Emit("Pop", 0, 0, other)))

emitTernaryExpr(e, g) ==
    LET then == emit(e.then,
                         emitJumpPlaceholder("JumpIfFalse", emit(e.cond, g)))
    IN  patchJumpToHere(1, emit(e.else, Otherwise(then)))

emitCatchExpr(e, g) ==
    LET body == emit(e.guarded, emitJumpPlaceholder("PushCatchFrame", g))
    IN  patchJumpToHere(1, Emit("PopCatchFrame", 0, 0, Emit("Pop", 0, 0, body)))

emitTimeExpressionExpr(e, g) ==
    Emit("TimeExpressionEnd", 0, 0,
         emitBlock(e.body, Emit("TimeExpressionStart", 0, 0, g)))

emitAssignExpr(e, g) ==
    LET value == IF e.op = "" THEN emit(e.value, g)
                 ELSE Emit(e.op, 0, 0, emit(e.value, PushVar(e.name, g)))
    IN  StoreVar(e.name, Emit("Dup", 0, 0, value))

\* target[index], pushed for a read or for an IndexAssign.
PushElement(target, index, g) == emit(index, emit(target, g))

ReadElement(target, index, g) == Emit("Index", 0, 0, PushElement(target, index, g))

\* target[index] = the k-th most recently saved slot.
WriteElement(target, index, k, g) ==
    Emit("IndexAssign", 0, 0,
         Hidden("PushLocal", k, PushElement(target, index, g)))

\* On an element: the old and the new value go to two hidden locals, and
\* target and index are evaluated once for the read and once for the write.
IncDecElement(e, g) ==
    LET read  == ReadElement(e.target, e.index, DeclareHidden(DeclareHidden(g)))
        old   == Hidden("PushLocal", 2, Hidden("StoreLocal", 2, read))
        new   == Emit(e.op, 0, 0, Emit("PushInt", Num(1), 0, old))
        write == WriteElement(e.target, e.index, 1, Hidden("StoreLocal", 1, new))
    IN  Forget(2, Hidden("PushLocal", IF e.prefix THEN 1 ELSE 2, write))

IncDecVar(e, g) ==
    LET Step(h) == Emit(e.op, 0, 0, Emit("PushInt", Num(1), 0, h))
        Keep(h) == Emit("Dup", 0, 0, h)
        Both(h) == IF e.prefix THEN Keep(Step(h)) ELSE Step(Keep(h))
    IN  StoreVar(e.name, Both(PushVar(e.name, g)))

emitIncDecExpr(e, g) ==
    IF e.target = None THEN IncDecVar(e, g) ELSE IncDecElement(e, g)

\* One ExpandVarargs per spread element, its operand the number of elements
\* that follow it in the list.
emitSpreadExpansions(spread, g) ==
    FoldLeft(LAMBDA acc, i : IF spread[i]
                             THEN Emit("ExpandVarargs", Len(spread) - i, 0, acc)
                             ELSE acc,
             g, [i \in DOMAIN spread |-> i])

emitCallExpr(e, g) ==
    LET CallWith(h) ==
          CASE e.form = "parent" ->
                 Emit("CallParentQualifierSlot", e.qualifier, 0,
                      Emit("CallParent", e.callee, Len(e.args), h))
            [] e.form = "efun"  -> Emit("CallEfun", e.callee, Len(e.args), h)
            [] e.form = "plain" -> Emit("Call", e.callee, Len(e.args), h)
    IN  CallWith(emitSpreadExpansions(e.spread, EmitEach(e.args, g)))

emitArrayLiteral(e, g) ==
    Emit("MakeArray", 0, Len(e.elements),
         emitSpreadExpansions(e.spread, EmitEach(e.elements, g)))

emitMappingLiteral(e, g) ==
    Emit("MakeMapping", 1, Len(e.entries), EmitEach(FlattenSeq(e.entries), g))

emitIndexExpr(e, g) ==
    Emit("Index", 0, IF e.fromEnd THEN 1 ELSE 0,
         PushElement(e.target, e.index, g))

emitRangeExpr(e, g) ==
    Emit("RangeIndex", 0,
         (IF e.fromEnd THEN 1 ELSE 0) + (IF e.endFromEnd THEN 2 ELSE 0),
         emit(e.rangeEnd, PushElement(e.target, e.index, g)))

\* The value of "t[i] = e" or "t[i] op= e".
NewElement(e, g) ==
    IF e.op = "" THEN emit(e.value, g)
    ELSE Emit(e.op, 0, 0, emit(e.value, ReadElement(e.target, e.index, g)))

emitIndexAssignExpr(e, g) ==
    LET value == Hidden("StoreLocal", 1, NewElement(e, DeclareHidden(g)))
    IN  Forget(1, Hidden("PushLocal", 1,
                         WriteElement(e.target, e.index, 1, value)))

emitUnaryExpr(e, g) ==
    IF e.op # "Neg" THEN Emit(e.op, 0, 0, emit(e.operand, g))
    ELSE Emit("Sub", 0, 0,
              emit(e.operand, Emit("PushInt", Num(0), 0, g)))

\* The bodies are queued: they are compiled after the enclosing function.
\* The generated names are numbered within this file.
LambdaName(i) == "$lambda#" \o ToString(i)
AnonName(i)   == "$anonfunc#" \o ToString(i)

QueueLambda(e, g) ==
    Emit("PushClosure", LambdaName(g.lambdaId), Len(e.bound),
         [g EXCEPT !.lambdaId = @ + 1,
                   !.lambdas = Append(@, [name |-> LambdaName(g.lambdaId),
                                          node |-> e])])

emitInlineLambda(e, g) == QueueLambda(e, EmitEach(e.bound, g))

emitAnonFunction(e, g) ==
    Emit("PushClosure", AnonName(g.anonId), 0,
         [g EXCEPT !.anonId = @ + 1,
                   !.anons = Append(@, [name |-> AnonName(g.anonId),
                                        node |-> e])])

\* "$(expr)" values come first in the lambda's slots, then "$1", "$2"...
emitLambdaParam(e, g) ==
    Emit("PushLocal", e.index + (IF e.isBound THEN 0 ELSE g.boundCount), 0, g)

\* A compile error is an exception: nothing is emitted after it.
emitExpr(e, g) ==
    CASE g.error                -> g
      [] e.k = "IntLiteral"     -> Emit("PushInt", Num(e.value), 0, g)
      [] e.k = "StringLiteral"  -> Emit("PushConst", Str(e.value), 0, g)
      [] e.k = "VarRef"         -> PushVar(e.name, g)
      [] e.k = "Binary"         -> IF e.op \in {"And", "Or"}
                                   THEN emitLogicalExpr(e, g)
                                   ELSE emitBinaryExpr(e, g)
      [] e.k = "Unary"          -> emitUnaryExpr(e, g)
      [] e.k = "Ternary"        -> emitTernaryExpr(e, g)
      [] e.k = "Comma"          -> emit(e.right,
                                     Emit("Pop", 0, 0, emit(e.left, g)))
      [] e.k = "Catch"          -> emitCatchExpr(e, g)
      [] e.k = "TimeExpression" -> emitTimeExpressionExpr(e, g)
      [] e.k = "Assign"         -> emitAssignExpr(e, g)
      [] e.k = "IndexAssign"    -> emitIndexAssignExpr(e, g)
      [] e.k = "IncDec"         -> emitIncDecExpr(e, g)
      [] e.k = "ArrayLiteral"   -> emitArrayLiteral(e, g)
      [] e.k = "MappingLiteral" -> emitMappingLiteral(e, g)
      [] e.k = "Index"          -> emitIndexExpr(e, g)
      [] e.k = "Range"          -> emitRangeExpr(e, g)
      [] e.k = "Call"           -> emitCallExpr(e, g)
      [] e.k = "ClosureLiteral" -> Emit("PushClosure", e.name, Len(e.bound),
                                        EmitEach(e.bound, g))
      [] e.k = "InlineLambda"   -> emitInlineLambda(e, g)
      [] e.k = "AnonFunction"   -> emitAnonFunction(e, g)
      [] e.k = "LambdaParam"    -> emitLambdaParam(e, g)

-----------------------------------------------------------------------------
(* Statements *)

NewLoop(isSwitch) == [breaks |-> <<>>, continues |-> <<>>, isSwitch |-> isSwitch]

\* The loop's context, its break and continue jumps collected, is saved.
LeaveLoop(g) == Save(Last(g.loops), [g EXCEPT !.loops = Front(@)])

LoopBody(body, g) ==
    LeaveLoop(emitBlock(body, [g EXCEPT !.loops = Append(@, NewLoop(FALSE))]))

emitBreakStmt(g) ==
    IF g.loops = <<>> THEN [g EXCEPT !.error = TRUE]
    ELSE Emit("Jump", 0, 0,
              [g EXCEPT !.loops[Len(g.loops)].breaks = Append(@, Here(g))])

\* The innermost context that is not a switch.
emitContinueStmt(g) ==
    LET enclosing == {i \in DOMAIN g.loops : ~g.loops[i].isSwitch}
    IN  IF enclosing = {} THEN [g EXCEPT !.error = TRUE]
        ELSE Emit("Jump", 0, 0,
                  [g EXCEPT !.loops[Max(enclosing)].continues =
                      Append(@, Here(g))])

emitReturnStmt(s, g) ==
    Emit("Return", 0, 0, IF s.expr = None THEN g ELSE emit(s.expr, g))

\* The slot is taken before the initialiser is emitted.
Initialise(init, g) ==
    IF init = None THEN g
    ELSE Forget(1, Hidden("StoreLocal", 1, emit(init, Save(g.next, g))))

emitVarDeclStmt(s, g) == Initialise(s.init, declareLocal(s.name, g))

\* The target is pushed before the value is read or computed.
emitIndexAssignStmt(s, g) ==
    Emit("IndexAssign", 0, 0, NewElement(s, PushElement(s.target, s.index, g)))

emitIfStmt(s, g) ==
    LET then == emitBlock(s.then,
                   emitJumpPlaceholder("JumpIfFalse", emit(s.cond, g)))
    IN  patchJumpToHere(1, IF s.else = None THEN then
                           ELSE emitBlock(s.else, Otherwise(then)))

\* A loop saves its top, its exit jump and its context.
LoopTop(g)  == Save(Here(g), g)
LoopExit(g) == Emit("JumpIfFalse", 0, 0, Save([breaks |-> <<Here(g)>>], g))
NoExit(g)   == Save([breaks |-> <<>>], g)

ContinueHere(g) == PatchAll(Saved(1, g).continues, Here(g), g)

\* The tail of every loop: jump back, and all exits land behind it.
Land(g) == Forget(3, PatchAll(Saved(1, g).breaks \o Saved(2, g).breaks,
                              Here(g), g))
CloseLoop(g) == Land(Emit("Jump", Saved(3, g), 0, g))

\* continue goes to the top.
ContinueTop(g) == PatchAll(Saved(1, g).continues, Saved(3, g), g)

emitWhileStmt(s, g) ==
    LET test == LoopExit(emit(s.cond, LoopTop(g)))
    IN  CloseLoop(ContinueTop(LoopBody(s.body, test)))

\* continue goes to the condition.
emitDoWhileStmt(s, g) ==
    LET body == ContinueHere(LoopBody(s.body, LoopTop(g)))
    IN  CloseLoop(LoopExit(emit(s.cond, body)))

\* An init or update clause: a declaration, a comma chain, or one expression.
ForClause(c, g) ==
    CASE c = None          -> g
      [] c.k = "VarDecl"   -> emitVarDeclStmt(c, g)
      [] c.k = "Block"     -> emitBlock(c, g)
      [] OTHER             -> Emit("Pop", 0, 0, emit(c, g))

\* continue goes to the update clause.
emitForStmt(s, g) ==
    LET top    == LoopTop(ForClause(s.init, OpenScope(g)))
        test   == IF s.cond = None THEN NoExit(top)
                  ELSE LoopExit(emit(s.cond, top))
        body   == ContinueHere(LoopBody(s.body, test))
    IN  CloseScope(CloseLoop(ForClause(s.update, body)))

DeclareLoopVar(name, declare, g) == IF declare THEN declareLocal(name, g) ELSE g

\* The second variable of "foreach (k, v in m)".
ForeachValue(s, g) ==
    LET Read(h) == Emit("Index", 0, 0, PushVar(s.name, Hidden("PushLocal", 5, h)))
    IN  IF s.valueVar = "" THEN g
        ELSE StoreVar(s.valueVar, Read(DeclareLoopVar(s.valueVar, s.declareValue, g)))

\* Hidden locals hold the collection, the array to walk and the position;
\* the size is asked again, by a bare call of sizeof(), on every iteration.
\* Saved: collection, array, position, then what every loop saves.
emitForeachStmt(s, g) ==
    LET coll  == DeclareHidden(OpenScope(g))
        array == DeclareHidden(Hidden("StoreLocal", 1, emit(s.collection, coll)))
        keys  == Emit("ForeachKeys", 0, 0, Hidden("PushLocal", 2, array))
        pos   == DeclareHidden(Hidden("StoreLocal", 1, keys))
        top   == LoopTop(Hidden("StoreLocal", 1, Emit("PushInt", Num(0), 0, pos)))
        size  == Emit("Call", "sizeof", 1,
                      Hidden("PushLocal", 3, Hidden("PushLocal", 2, top)))
        test  == LoopExit(Emit("Lt", 0, 0, size))
        key   == Emit("Index", 0, 0, Hidden("PushLocal", 3,
                    Hidden("PushLocal", 4, DeclareLoopVar(s.name, s.declare, test))))
        body  == ContinueHere(LoopBody(s.body,
                    ForeachValue(s, StoreVar(s.name, key))))
        next  == Emit("Add", 0, 0,
                      Emit("PushInt", Num(1), 0, Hidden("PushLocal", 4, body)))
    IN  Forget(3, CloseScope(CloseLoop(Hidden("StoreLocal", 4, next))))

\* The test of one case label against the subject; the jump behind it is
\* taken when it matches, there being no JumpIfTrue.
\* Saved: the subject's slot, the jumps of the labels so far.
RangeTest(label, g) ==
    LET low  == Emit("Gte", 0, 0, emit(label.value, Hidden("PushLocal", 2, g)))
        skip == emitJumpPlaceholder("JumpIfFalse", Emit("Dup", 0, 0, low))
        high == emit(label.rangeEnd,
                         Hidden("PushLocal", 3, Emit("Pop", 0, 0, skip)))
    IN  patchJumpToHere(1, Emit("Lte", 0, 0, high))

EqualTest(label, g) ==
    Emit("Eq", 0, 0, emit(label.value, Hidden("PushLocal", 2, g)))

CaseTest(label, i, g) ==
    LET test == IF label.rangeEnd = None THEN EqualTest(label, g)
                ELSE RangeTest(label, g)
        Note(h) == [h EXCEPT !.saved[Len(h.saved)] = (i :> Here(h)) @@ @]
    IN  Emit("JumpIfFalse", 0, 0, Note(Emit("Not", 0, 0, test)))

IsLabel(item)   == item.k = "CaseLabel"
IsDefault(item) == item.k = "CaseLabel" /\ item.value = None

HasDefault(items) == \E i \in DOMAIN items : IsDefault(items[i])

\* One item of the body: a label is where its jump lands.  Saved: the
\* subject's slot, the jumps of the labels, the jump taken without a match.
SwitchItem(item, i, g) ==
    CASE IsDefault(item) -> PatchAll(<<Saved(1, g)>>, Here(g), g)
      [] IsLabel(item) /\ ~IsDefault(item) ->
            PatchAll(<<Saved(2, g)[i]>>, Here(g), g)
      [] OTHER -> emit(item, g)

BreakHere(g) == Forget(4, PatchAll(Saved(1, g).breaks, Here(g), g))

NoMatchHere(g) == PatchAll(<<Saved(1, g)>>, Here(g), g)

RECURSIVE CaseTests(_, _, _)
CaseTests(items, i, g) ==
    IF i > Len(items) THEN g
    ELSE CaseTests(items, i + 1,
                   IF IsLabel(items[i]) /\ ~IsDefault(items[i])
                   THEN CaseTest(items[i], i, g) ELSE g)

RECURSIVE SwitchItems(_, _, _)
SwitchItems(items, i, g) ==
    IF i > Len(items) THEN g
    ELSE SwitchItems(items, i + 1, SwitchItem(items[i], i, g))

\* First all tests, then the bodies in source order, each label patched to
\* the code that follows it; a switch without default skips to its end.
emitSwitchStmt(s, g) ==
    LET subject == Hidden("StoreLocal", 1, emit(s.subject, DeclareHidden(g)))
        tests   == CaseTests(s.items, 1, Save(<<>>, subject))
        enter   == [emitJumpPlaceholder("Jump", tests) EXCEPT
                      !.loops = Append(@, NewLoop(TRUE))]
        End(h)  == IF HasDefault(s.items) THEN h ELSE NoMatchHere(h)
    IN  BreakHere(LeaveLoop(End(SwitchItems(s.items, 1, enter))))

emitStatement(s, g) ==
    CASE g.error                 -> g
      [] s.k = "Block"           -> IF s.isRealScope THEN emitBlock(s, g)
                                    ELSE EmitStatements(s.stmts, g)
      [] s.k = "ExprStmt"        -> Emit("Pop", 0, 0, emit(s.expr, g))
      [] s.k = "Return"          -> emitReturnStmt(s, g)
      [] s.k = "VarDecl"         -> emitVarDeclStmt(s, g)
      [] s.k = "AssignStmt"      -> StoreVar(s.name, emit(s.value, g))
      [] s.k = "IndexAssignStmt" -> emitIndexAssignStmt(s, g)
      [] s.k = "If"              -> emitIfStmt(s, g)
      [] s.k = "While"           -> emitWhileStmt(s, g)
      [] s.k = "DoWhile"         -> emitDoWhileStmt(s, g)
      [] s.k = "For"             -> emitForStmt(s, g)
      [] s.k = "Foreach"         -> emitForeachStmt(s, g)
      [] s.k = "Switch"          -> emitSwitchStmt(s, g)
      [] s.k = "Break"           -> emitBreakStmt(g)
      [] s.k = "Continue"        -> emitContinueStmt(g)


emit(n, g) == IF n.k \in Statements THEN emitStatement(n, g) ELSE emitExpr(n, g)

-----------------------------------------------------------------------------
(* Functions and files *)

\* The per-function reset of CodeGen's members.
ResetFunction(g) == [g EXCEPT !.locals = <<>>, !.next = 0, !.scopes = <<>>,
                              !.loops = <<>>]

SlotModulus == 256   \* numLocals is a uint8_t

\* The saved value is the entry point.
AddFunction(name, numArgs, isVarargs, g) ==
    [g EXCEPT !.saved = Front(@),
              !.functions = Append(@,
        [name |-> name, entryPoint |-> Saved(1, g), numArgs |-> numArgs,
         numLocals |-> g.next % SlotModulus, isVarargs |-> isVarargs])]

Entry(g) == Save(Here(g), g)

DeclareParams(params, g) ==
    FoldLeft(LAMBDA acc, p : declareLocal(p, acc), g, params)

\* A named function or a "function(){}" body.
CompileBody(name, params, isVarargs, body, g) ==
    LET entry == Entry(DeclareParams(params, ResetFunction(g)))
    IN  AddFunction(name, Len(params), isVarargs,
                    Emit("Return", 0, 0, emitBlock(body, entry)))

\* Every expression of a lambda but the last is dropped.
RECURSIVE LambdaBody(_, _)
LambdaBody(body, g) ==
    IF Len(body) = 1 THEN emit(Head(body), g)
    ELSE LambdaBody(Tail(body), Emit("Pop", 0, 0, emit(Head(body), g)))

CompileLambda(name, e, g) ==
    LET entry == Entry([ResetFunction(g) EXCEPT !.boundCount = Len(e.bound),
                          !.next = Len(e.bound) + e.paramCount])
    IN  AddFunction(name, e.paramCount, FALSE,
                    Emit("Return", 0, 0, LambdaBody(e.body, entry)))

\* Compiling one body may queue more of them behind it.
RECURSIVE emitPendingLambdas(_)
emitPendingLambdas(g) ==
    IF g.lambdas = <<>> THEN g
    ELSE emitPendingLambdas(CompileLambda(Head(g.lambdas).name,
            Head(g.lambdas).node, [g EXCEPT !.lambdas = Tail(@)]))

RECURSIVE emitPendingAnonFuncs(_)
emitPendingAnonFuncs(g) ==
    IF g.anons = <<>> THEN g
    ELSE LET e == Head(g.anons).node
         IN  emitPendingAnonFuncs(
                 CompileBody(Head(g.anons).name, e.params, e.isVarargs, e.body,
                             [g EXCEPT !.anons = Tail(@)]))

RECURSIVE DrainPending(_)
DrainPending(g) ==
    IF g.lambdas = <<>> /\ g.anons = <<>> THEN g
    ELSE DrainPending(emitPendingAnonFuncs(emitPendingLambdas(g)))

RECURSIVE InitialiseEach(_, _)
InitialiseEach(inits, g) ==
    IF inits = <<>> THEN g
    ELSE InitialiseEach(Tail(inits), Emit("StoreObjectVar", Head(inits).slot, 0,
                                          emit(Head(inits).init, g)))

\* "$objvarinit": only the queued lambdas are compiled behind it.
EmitInitializers(inits, g) ==
    LET stores == InitialiseEach(inits, Entry(ResetFunction(g)))
    IN  IF inits = <<>> THEN g
        ELSE emitPendingLambdas(AddFunction("$objvarinit", 0, FALSE,
                                            Emit("Return", 0, 0, stores)))

RECURSIVE CompileFunctions(_, _)
CompileFunctions(functions, g) ==
    IF functions = <<>> THEN g
    ELSE LET f == Head(functions)
         IN  CompileFunctions(Tail(functions), DrainPending(
                CompileBody(f.name, f.params, f.isVarargs, f.body, g)))

\* Inherited names take the first slots, own variables the next; an own
\* variable hides an inherited one, a private one is invisible to heirs.
generate(file, inherited) ==
    LET own     == [i \in DOMAIN file.objectVars |->
                      [slot |-> Len(inherited) + i,
                       name |-> file.objectVars[i].name,
                       init |-> file.objectVars[i].init]]
        visible == inherited \o [i \in DOMAIN own |-> own[i].name]
        objVars == [x \in ToSet(visible) |->
                      Max({i \in DOMAIN visible : visible[i] = x})]
        names   == inherited \o [i \in DOMAIN own |->
                      IF file.objectVars[i].isPrivate
                      THEN "$private#" \o ToString(own[i].slot) ELSE own[i].name]
        inits   == SelectSeq(own, LAMBDA v : v.init # None)
        defined == SelectSeq(file.functions, LAMBDA f : f.body # None)
        Program(g) == [code |-> g.code, functions |-> g.functions, names |-> names,
                       inherits |-> file.inherits, error |-> g.error]
    IN  Program(CompileFunctions(defined,
                                 EmitInitializers(inits, Fresh(objVars))))

\* ObjectManager::compile() over files given parents first: the parents'
\* variables are flattened in inherit order, and each ancestor's offset is
\* the offset of the parent that brings it plus its offset in that parent.
\* An ancestor reached twice keeps the last offset.
Link(file, programs) ==
    LET parents == file.inherits
        Flat(n) == FlattenSeq([j \in 1 .. n |-> programs[parents[j]].names])
        offsets == FoldLeft(LAMBDA acc, j :
              LET start == Len(Flat(j - 1))
                  base  == programs[parents[j]].base
              IN  [a \in DOMAIN base |-> start + base[a]]
                    @@ (parents[j] :> start) @@ acc,
              <<>>, [j \in DOMAIN parents |-> j])
    IN  generate(file, Flat(Len(parents))) @@ [base |-> offsets]

RECURSIVE CompileFiles(_, _)
CompileFiles(files, programs) ==
    IF files = <<>> THEN programs
    ELSE CompileFiles(Tail(files), Append(programs, Link(Head(files), programs)))

compile(files) == CompileFiles(files, <<>>)
=============================================================================
