----------------------------- MODULE LpcMeaning -----------------------------
(***************************************************************************)
(* What an LPC program means: a big-step evaluator over the syntax trees,  *)
(* written without stacks, slots, jumps or lookup tables.  It is the       *)
(* reference the generated code is compared with; it models no source.     *)
(*                                                                         *)
(* A run yields an outcome r: r.out is "ok", "error", "return", "break" or *)
(* "continue", r.v the value that goes with it and r.s the state after.    *)
(* A state has the locals by name, the object variables by owner, file and *)
(* name, and the heap.  A context c says which file's code runs, for which *)
(* object, and with which "$(..)" and "$n" values.                         *)
(***************************************************************************)
EXTENDS LpcSyntax, Values, FiniteSets

Outcome(out, v, s) == [out |-> out, v |-> v, s |-> s]
Value(v, s)        == Outcome("ok", v, s)
Error(s)           == Outcome("error", ErrorText, s)

Then(r, K(_)) == IF r.out = "ok" THEN K(r) ELSE r

OfResult(res, s) ==
    CASE res.kind = "ok"    -> Value(res.value, s)
      [] res.kind = "alloc" ->
            Value(<<res.cell.kind, Len(s.heap) + 1>>,
                  [s EXCEPT !.heap = Append(@, res.cell)])
      [] res.kind = "fail"  -> Error(s)

-----------------------------------------------------------------------------
(* Names *)

\* The file whose function f a call finds in the chain of file i; 0: none.
RECURSIVE DefiningFile(_, _, _)
DefiningFile(files, i, f) ==
    LET own    == \E d \in DOMAIN files[i].functions :
                     /\ files[i].functions[d].name = f
                     /\ files[i].functions[d].body # None
        inPar  == {j \in DOMAIN files[i].inherits :
                     DefiningFile(files, files[i].inherits[j], f) # 0}
    IN  CASE own -> i
          [] ~own /\ inPar # {} ->
                DefiningFile(files, files[i].inherits[Min(inPar)], f)
          [] OTHER -> 0

Definition(file, f) ==
    LET hit == {d \in DOMAIN file.functions : /\ file.functions[d].name = f
                                              /\ file.functions[d].body # None}
    IN  file.functions[Min(hit)]

\* The file that owns the object variable x as file i sees it (the nearest
\* declaration; of several parents, the last); 0: none.  Heirs do not see
\* private variables.
RECURSIVE OwnerFile(_, _, _, _)
OwnerFile(files, i, x, asHeir) ==
    LET own   == \E d \in DOMAIN files[i].objectVars :
                    /\ files[i].objectVars[d].name = x
                    /\ ~(asHeir /\ files[i].objectVars[d].isPrivate)
        inPar == {j \in DOMAIN files[i].inherits :
                    OwnerFile(files, files[i].inherits[j], x, TRUE) # 0}
    IN  CASE own -> i
          [] ~own /\ inPar # {} ->
                OwnerFile(files, files[i].inherits[Max(inPar)], x, TRUE)
          [] OTHER -> 0

\* All variables of an object, <<file, name>>, in the order of its layout.
RECURSIVE Layout(_, _)
Layout(files, i) ==
    FlattenSeq([j \in DOMAIN files[i].inherits |->
                  Layout(files, files[i].inherits[j])])
      \o [d \in DOMAIN files[i].objectVars |-> <<i, files[i].objectVars[d].name>>]

ReadVar(x, c, s) ==
    IF x \in DOMAIN s.loc THEN s.loc[x]
    ELSE s.ov[<<c.obj, OwnerFile(c.files, c.file, x, FALSE), x>>]

WriteVar(x, v, c, s) ==
    IF x \in DOMAIN s.loc THEN [s EXCEPT !.loc[x] = v]
    ELSE [s EXCEPT !.ov[<<c.obj, OwnerFile(c.files, c.file, x, FALSE), x>>] = v]

\* A declaration: a new variable, 0 until it is given a value.
Declare(x, v, s) == [s EXCEPT !.loc = (x :> v) @@ @]

-----------------------------------------------------------------------------
\* Eval runs any node, an expression or a statement.
RECURSIVE Eval(_, _, _), ExecAll(_, _, _, _)

\* A list of expressions, left to right: the values are r.vs.
RECURSIVE EvalFrom(_, _, _, _, _)
EvalFrom(es, i, vs, c, s) ==
    IF i > Len(es) THEN [out |-> "ok", v |-> Void, vs |-> vs, s |-> s]
    ELSE LET r == Eval(es[i], c, s)
         IN  IF r.out # "ok" THEN [out |-> r.out, v |-> r.v, vs |-> vs, s |-> r.s]
             ELSE EvalFrom(es, i + 1, Append(vs, r.v), c, r.s)

\* The same, with every spread element replaced by the items of its array.
EvalSpread(es, spread, c, s) ==
    LET r   == EvalFrom(es, 1, <<>>, c, s)
        bad == \E i \in DOMAIN spread : spread[i] /\ ~IsTag(r.vs[i], "arr")
    IN  IF r.out # "ok" THEN r
        ELSE IF bad THEN [out |-> "error", v |-> ErrorText, vs |-> <<>>, s |-> r.s]
        ELSE [r EXCEPT !.vs = FlattenSeq([i \in DOMAIN es |->
                 IF i \in DOMAIN spread /\ spread[i]
                 THEN r.s.heap[r.vs[i][2]].items ELSE <<r.vs[i]>>])]

\* The end of a call: what the body came to, in the caller's locals.
Returned(r, s) ==
    LET after == [r.s EXCEPT !.loc = s.loc]
    IN  CASE r.out = "return" -> Value(r.v, after)
          [] r.out = "error"  -> Outcome("error", r.v, after)
          [] OTHER            -> Value(Void, after)

\* A call: fresh locals, missing arguments 0, surplus ones dropped; the
\* caller's locals come back with its state.
Invoke(params, isVarargs, body, args, c, s) ==
    LET n     == Len(params)
        rest  == isVarargs /\ n > 0
        s0    == IF rest
                 THEN [s EXCEPT !.heap =
                         Append(@, ArrayCell(SubSeq(args, n, Len(args))))]
                 ELSE s
        loc   == [x \in ToSet(params) |->
                    LET i == CHOOSE j \in DOMAIN params : params[j] = x
                    IN  CASE rest /\ i = n -> Arr(Len(s0.heap))
                          [] ~(rest /\ i = n) /\ i <= Len(args) -> args[i]
                          [] OTHER -> Num(0)]
    IN  Returned(ExecAll(body.stmts, 1, c, [s0 EXCEPT !.loc = loc]), s)

Efun(f, args, s) ==
    CASE f = "sizeof" -> Value(Num(IF IsTag(args[1], "str") THEN Len(args[1][2])
                                   ELSE Len(s.heap[args[1][2]].items)), s)
      [] f = "throw"  -> Outcome("error", args[1], s)
      [] OTHER        -> Error(s)

\* A call by name on behalf of object obj: its chain, the simul_efuns, the
\* efuns.
InvokeName(f, args, obj, c, s) ==
    LET top   == IF obj = "self" THEN c.self ELSE c.simul
        own   == DefiningFile(c.files, top, f)
        simul == IF c.simul = 0 THEN 0 ELSE DefiningFile(c.files, c.simul, f)
        file  == IF own # 0 THEN own ELSE simul
        d     == Definition(c.files[file], f)
    IN  IF file = 0 THEN Efun(f, args, s)
        ELSE Invoke(d.params, d.isVarargs, d.body, args,
                    [c EXCEPT !.file = file,
                              !.obj = IF own # 0 THEN obj ELSE "simul"], s)

\* A closure value runs the body that was written in its literal.
InvokeClosure(cell, extra, c, s) ==
    LET node == cell.name
        args == cell.items \o extra
        home == [c EXCEPT !.file = cell.home, !.obj = cell.owner]
    IN  CASE node.k = "ClosureLiteral" ->
                InvokeName(node.name, args, cell.owner, c, s)
          [] node.k = "AnonFunction" ->
                Invoke(node.params, node.isVarargs, node.body, args, home, s)
          [] node.k = "InlineLambda" ->
                LET r == EvalFrom(node.body, 1, <<>>,
                           [home EXCEPT !.bound = cell.items, !.args = extra],
                           [s EXCEPT !.loc = <<>>])
                IN  Outcome(r.out, IF r.out = "ok" THEN Last(r.vs) ELSE r.v,
                            [r.s EXCEPT !.loc = s.loc])

EvalCall(e, c, s) ==
    LET r == EvalSpread(e.args, e.spread, c, s)
        usable == {j \in DOMAIN c.files[c.file].inherits :
                     LET p == c.files[c.file].inherits[j]
                     IN  IF e.qualifier = 0
                         THEN DefiningFile(c.files, p, e.callee) # 0
                         ELSE p = e.qualifier}
        parent == DefiningFile(c.files, c.files[c.file].inherits[Min(usable)],
                               e.callee)
        d      == Definition(c.files[parent], e.callee)
        isEval == e.callee = "evaluate" /\ e.form # "parent"
    IN  IF r.out # "ok" THEN Outcome(r.out, r.v, r.s)
        ELSE CASE isEval /\ IsTag(r.vs[1], "fun") ->
                     InvokeClosure(r.s.heap[r.vs[1][2]], Tail(r.vs), c, r.s)
               [] isEval /\ ~IsTag(r.vs[1], "fun") -> Value(Void, r.s)
               [] ~isEval /\ e.form = "plain" ->
                     InvokeName(e.callee, r.vs, c.obj, c, r.s)
               [] ~isEval /\ e.form = "efun" -> Efun(e.callee, r.vs, r.s)
               [] e.form = "parent" ->
                     IF usable = {} \/ parent = 0 THEN Error(r.s)
                     ELSE Invoke(d.params, d.isVarargs, d.body, r.vs,
                                 [c EXCEPT !.file = parent], r.s)

EvalElement(t, i, c, s, K(_, _, _)) ==
    Then(Eval(t, c, s), LAMBDA a :
        Then(Eval(i, c, a.s), LAMBDA b : K(a.v, b.v, b.s)))

SetElement(t, i, v, s) ==
    LET res == IndexAssignResult(t, i, v, s.heap)
    IN  IF res.kind = "fail" THEN Error(s)
        ELSE Value(v, [s EXCEPT !.heap[t[2]] = res.cell])

\* "target[index] op= value", evaluating target and index once.
EvalIndexAssign(e, c, s) ==
    EvalElement(e.target, e.index, c, s, LAMBDA t, i, s1 :
        Then(Eval(e.value, c, s1), LAMBDA r :
            IF e.op = "" THEN SetElement(t, i, r.v, r.s)
            ELSE Then(OfResult(IndexResult(t, i, FALSE, r.s.heap), r.s),
                   LAMBDA old : Then(OfResult(BinaryResult(e.op, old.v, r.v,
                                                old.s.heap), old.s),
                     LAMBDA new : SetElement(t, i, new.v, new.s)))))

Stepped(old, e, s) == OfResult(BinaryResult(e.op, old, Num(1), s.heap), s)

EvalIncDec(e, c, s) ==
    IF e.target = None
    THEN LET old == ReadVar(e.name, c, s)
         IN  Then(Stepped(old, e, s), LAMBDA new :
                Value(IF e.prefix THEN new.v ELSE old,
                      WriteVar(e.name, new.v, c, new.s)))
    ELSE EvalElement(e.target, e.index, c, s, LAMBDA t, i, s1 :
            Then(OfResult(IndexResult(t, i, FALSE, s1.heap), s1), LAMBDA old :
                Then(Stepped(old.v, e, old.s), LAMBDA new :
                    Then(SetElement(t, i, new.v, new.s), LAMBDA w :
                        Value(IF e.prefix THEN new.v ELSE old.v, w.s)))))

NewClosure(e, bound, c, s) ==
    OfResult(Alloc(ClosureCell(c.obj, e, bound, c.file)), s)

EvalExpression(e, c, s) ==
    CASE e.k = "IntLiteral"    -> Value(Num(e.value), s)
      [] e.k = "StringLiteral" -> Value(Str(e.value), s)
      [] e.k = "VarRef"        -> Value(ReadVar(e.name, c, s), s)
      [] e.k = "Binary" /\ e.op \in {"And", "Or"} ->
            Then(Eval(e.left, c, s), LAMBDA l :
                IF isTruthy(l.v) = (e.op = "Or") THEN l
                ELSE Eval(e.right, c, l.s))
      [] e.k = "Binary" /\ e.op \notin {"And", "Or"} ->
            Then(Eval(e.left, c, s), LAMBDA l :
                Then(Eval(e.right, c, l.s), LAMBDA r :
                    OfResult(BinaryResult(e.op, l.v, r.v, r.s.heap), r.s)))
      [] e.k = "Unary" ->
            Then(Eval(e.operand, c, s), LAMBDA r :
                CASE e.op = "Not"    -> Value(Bool(~isTruthy(r.v)), r.s)
                  [] e.op = "BitNot" -> OfResult(BitNotResult(r.v), r.s)
                  [] e.op = "Neg"    -> OfResult(
                       BinaryResult("Sub", Num(0), r.v, r.s.heap), r.s))
      [] e.k = "Ternary" ->
            Then(Eval(e.cond, c, s), LAMBDA r :
                Eval(IF isTruthy(r.v) THEN e.then ELSE e.else, c, r.s))
      [] e.k = "Comma" ->
            Then(Eval(e.left, c, s), LAMBDA r : Eval(e.right, c, r.s))
      [] e.k = "Catch" ->
            LET r == Eval(e.guarded, c, s)
            IN  Value(IF r.out = "error" THEN r.v ELSE Num(0), r.s)
      [] e.k = "TimeExpression" ->
            Then(ExecAll(e.body.stmts, 1, c, s), LAMBDA r : Value(Num(0), r.s))
      [] e.k = "Assign" ->
            LET old == ReadVar(e.name, c, s)
            IN  Then(Eval(e.value, c, s), LAMBDA r :
                  Then(IF e.op = "" THEN r
                       ELSE OfResult(BinaryResult(e.op, old, r.v, r.s.heap), r.s),
                       LAMBDA w : Value(w.v, WriteVar(e.name, w.v, c, w.s))))
      [] e.k = "IndexAssign"   -> EvalIndexAssign(e, c, s)
      [] e.k = "IncDec"        -> EvalIncDec(e, c, s)
      [] e.k = "ArrayLiteral"  ->
            LET r == EvalSpread(e.elements, e.spread, c, s)
            IN  IF r.out # "ok" THEN Outcome(r.out, r.v, r.s)
                ELSE OfResult(Alloc(ArrayCell(r.vs)), r.s)
      [] e.k = "MappingLiteral" ->
            LET r == EvalFrom(FlattenSeq(e.entries), 1, <<>>, c, s)
            IN  IF r.out # "ok" THEN Outcome(r.out, r.v, r.s)
                ELSE OfResult(Alloc(MappingCell([i \in DOMAIN e.entries |->
                        <<r.vs[2 * i - 1], r.vs[2 * i]>>])), r.s)
      [] e.k = "Index" ->
            EvalElement(e.target, e.index, c, s, LAMBDA t, i, s1 :
                OfResult(IndexResult(t, i, e.fromEnd, s1.heap), s1))
      [] e.k = "Range" ->
            EvalElement(e.target, e.index, c, s, LAMBDA t, i, s1 :
                Then(Eval(e.rangeEnd, c, s1), LAMBDA j :
                    OfResult(RangeResult(t, i, j.v, e.fromEnd, e.endFromEnd,
                                         j.s.heap), j.s)))
      [] e.k = "Call"           -> EvalCall(e, c, s)
      [] e.k \in {"ClosureLiteral", "InlineLambda"} ->
            LET r == EvalFrom(e.bound, 1, <<>>, c, s)
            IN  IF r.out # "ok" THEN Outcome(r.out, r.v, r.s)
                ELSE NewClosure(e, r.vs, c, r.s)
      [] e.k = "AnonFunction"   -> NewClosure(e, <<>>, c, s)
      [] e.k = "LambdaParam"    ->
            LET given == IF e.isBound THEN c.bound ELSE c.args
            IN  Value(IF e.index <= Len(given) THEN given[e.index] ELSE Num(0), s)

-----------------------------------------------------------------------------
(* Statements *)

ExecAll(stmts, i, c, s) ==
    IF i > Len(stmts) THEN Value(Void, s)
    ELSE Then(Eval(stmts[i], c, s), LAMBDA r : ExecAll(stmts, i + 1, c, r.s))

\* A block's own variables are gone after it.
ExecBlock(b, c, s) ==
    LET r == ExecAll(b.stmts, 1, c, s)
    IN  [r EXCEPT !.s.loc = [x \in DOMAIN s.loc |-> r.s.loc[x]]]

Clause(n, c, s) ==
    CASE n = None                             -> Value(Void, s)
      [] n # None /\ n.k \in {"VarDecl"}      -> Eval(n, c, s)
      [] n # None /\ n.k = "Block"            -> ExecBlock(n, c, s)
      [] OTHER                                -> Eval(n, c, s)

\* One round of a loop: the body, the update, the next test.
RECURSIVE Rounds(_, _, _, _, _)
Rounds(cond, update, body, c, s) ==
    Then(IF cond = None THEN Value(Num(1), s) ELSE Eval(cond, c, s), LAMBDA t :
        IF ~isTruthy(t.v) THEN Value(Void, t.s)
        ELSE LET r == ExecBlock(body, c, t.s)
             IN  CASE r.out = "break" -> Value(Void, r.s)
                   [] r.out \in {"ok", "continue"} ->
                         Then(Clause(update, c, r.s), LAMBDA u :
                             Rounds(cond, update, body, c, u.s))
                   [] OTHER -> r)

RECURSIVE Walk(_, _, _, _, _)
Walk(n, items, i, c, s) ==
    IF i > Len(s.heap[items].items) THEN Value(Void, s)
    ELSE LET key == s.heap[items].items[i]
             s1  == WriteVar(n.name, key, c, s)
             val == IndexResult(s.loc["$coll"], key, FALSE, s1.heap)
             s2  == IF n.valueVar = "" THEN s1
                    ELSE WriteVar(n.valueVar, val.value, c, s1)
             r   == ExecBlock(n.body, c, s2)
         IN  CASE r.out = "break" -> Value(Void, r.s)
               [] r.out \in {"ok", "continue"} -> Walk(n, items, i + 1, c, r.s)
               [] OTHER -> r

ExecForeach(n, c, s) ==
    Then(Eval(n.collection, c, s), LAMBDA coll :
        Then(OfResult(ForeachKeysResult(coll.v, coll.s.heap), coll.s), LAMBDA it :
            LET new == (IF n.declare THEN {n.name} ELSE {})
                         \cup (IF n.declareValue THEN {n.valueVar} ELSE {})
                s1  == [it.s EXCEPT !.loc = ("$coll" :> coll.v)
                          @@ [x \in new |-> Num(0)] @@ @]
                r   == Walk(n, it.v[2], 1, c, s1)
            IN  [r EXCEPT !.s.loc = [x \in DOMAIN s.loc |-> r.s.loc[x]]]))

\* The first label that matches, else default, else none: 0.
RECURSIVE MatchFrom(_, _, _, _, _)
MatchFrom(items, i, v, c, s) ==
    LET defaults == {j \in DOMAIN items : /\ items[j].k = "CaseLabel"
                                          /\ items[j].value = None}
    IN  IF i > Len(items)
        THEN Value(Num(IF defaults = {} THEN 0 ELSE Max(defaults)), s)
        ELSE IF items[i].k # "CaseLabel" \/ i \in defaults
        THEN MatchFrom(items, i + 1, v, c, s)
        ELSE Then(Eval(items[i].value, c, s), LAMBDA low :
               Then(IF items[i].rangeEnd = None THEN low
                    ELSE Eval(items[i].rangeEnd, c, low.s), LAMBDA high :
                 LET hit == IF items[i].rangeEnd = None THEN valuesEqual(v, low.v)
                            ELSE /\ Numeric(low.v) <= Numeric(v)
                                 /\ Numeric(v) <= Numeric(high.v)
                 IN  IF hit THEN Value(Num(i), high.s)
                     ELSE MatchFrom(items, i + 1, v, c, high.s)))

ExecSwitch(n, c, s) ==
    Then(Eval(n.subject, c, s), LAMBDA v :
        Then(MatchFrom(n.items, 1, v.v, c, v.s), LAMBDA m :
            IF m.v = Num(0) THEN Value(Void, m.s)
            ELSE LET from == SelectSeq(SubSeq(n.items, m.v[2], Len(n.items)),
                               LAMBDA x : x.k # "CaseLabel")
                     r    == ExecAll(from, 1, c, m.s)
                 IN  IF r.out = "break" THEN Value(Void, r.s) ELSE r))

ExecStatement(n, c, s) ==
    CASE n.k = "Block"    -> IF n.isRealScope THEN ExecBlock(n, c, s)
                             ELSE ExecAll(n.stmts, 1, c, s)
      [] n.k = "ExprStmt" -> Eval(n.expr, c, s)
      [] n.k = "Return"   ->
            IF n.expr = None THEN Outcome("return", Void, s)
            ELSE Then(Eval(n.expr, c, s), LAMBDA r : Outcome("return", r.v, r.s))
      [] n.k = "VarDecl"  ->
            IF n.init = None THEN Value(Void, Declare(n.name, Num(0), s))
            ELSE Then(Eval(n.init, c, Declare(n.name, Num(0), s)), LAMBDA r :
                    Value(r.v, WriteVar(n.name, r.v, c, r.s)))
      [] n.k = "AssignStmt" ->
            Then(Eval(n.value, c, s), LAMBDA r :
                Value(r.v, WriteVar(n.name, r.v, c, r.s)))
      [] n.k = "IndexAssignStmt" -> EvalIndexAssign(n, c, s)
      [] n.k = "If" ->
            Then(Eval(n.cond, c, s), LAMBDA r :
                CASE isTruthy(r.v) -> ExecBlock(n.then, c, r.s)
                  [] ~isTruthy(r.v) /\ n.else # None ->
                        ExecBlock(n.else, c, r.s)
                  [] OTHER -> Value(Void, r.s))
      [] n.k = "While"    -> Rounds(n.cond, None, n.body, c, s)
      [] n.k = "DoWhile"  ->
            LET r == ExecBlock(n.body, c, s)
            IN  CASE r.out = "break" -> Value(Void, r.s)
                  [] r.out \in {"ok", "continue"} ->
                        Rounds(n.cond, None, n.body, c, r.s)
                  [] OTHER -> r
      [] n.k = "For"      ->
            LET r == Then(Clause(n.init, c, s), LAMBDA i :
                        Rounds(n.cond, n.update, n.body, c, i.s))
            IN  [r EXCEPT !.s.loc = [x \in DOMAIN s.loc |-> r.s.loc[x]]]
      [] n.k = "Foreach"  -> ExecForeach(n, c, s)
      [] n.k = "Switch"   -> ExecSwitch(n, c, s)
      [] n.k = "Break"    -> Outcome("break", Void, s)
      [] n.k = "Continue" -> Outcome("continue", Void, s)

Eval(n, c, s) == IF n.k \in Statements THEN ExecStatement(n, c, s)
                 ELSE EvalExpression(n, c, s)

-----------------------------------------------------------------------------
(* Loading an object *)

\* Initialisers of file i and of everything it inherits, parents first.
RECURSIVE Initialize(_, _, _)
Initialize(i, c, s) ==
    LET here == [c EXCEPT !.file = i]
        up   == FoldLeft(LAMBDA r, p : Then(r, LAMBDA q : Initialize(p, c, q.s)),
                         Value(Void, s), c.files[i].inherits)
    IN  FoldLeft(LAMBDA r, d :
                   IF d.init = None THEN r
                   ELSE Then(r, LAMBDA q :
                          Then(Eval(d.init, here, [q.s EXCEPT !.loc = <<>>]),
                               LAMBDA v : Value(v.v,
                                  [v.s EXCEPT !.ov[<<c.obj, i, d.name>>] = v.v]))),
                 up, c.files[i].objectVars)

Variables(files, i) == ToSet(Layout(files, i))

\* The outcome of loading: initialisers, then create().
Load(source) ==
    LET c == [files |-> source.files, self |-> source.object,
              file |-> source.object, obj |-> "self", simul |-> source.simul,
              bound |-> <<>>, args |-> <<>>]
        owned == {<<"self", v[1], v[2]>> :
                    v \in Variables(source.files, source.object)}
                 \cup (IF source.simul = 0 THEN {}
                       ELSE {<<"simul", v[1], v[2]>> :
                               v \in Variables(source.files, source.simul)})
        s == [loc |-> <<>>, ov |-> [v \in owned |-> Num(0)], heap |-> <<>>]
    IN  Then(Initialize(source.object, c, s), LAMBDA r :
            IF DefiningFile(source.files, source.object, "create") = 0 THEN r
            ELSE InvokeName("create", <<>>, "self", c, r.s))

\* A value without references: equal structure, not equal cells.
RECURSIVE Deep(_, _)
Deep(v, heap) ==
    CASE Tag(v) = "arr" -> <<"arr", [i \in DOMAIN heap[v[2]].items |->
                                       Deep(heap[v[2]].items[i], heap)]>>
      [] Tag(v) = "map" -> <<"map", [i \in DOMAIN heap[v[2]].items |->
                              <<Deep(heap[v[2]].items[i][1], heap),
                                Deep(heap[v[2]].items[i][2], heap)>>]>>
      [] Tag(v) = "fun" -> <<"fun", 0>>
      [] OTHER          -> v
=============================================================================
