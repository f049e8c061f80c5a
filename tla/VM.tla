--------------------------------- MODULE VM ---------------------------------
(***************************************************************************)
(* The synchronous bytecode interpreter, VM::run(), with the function      *)
(* lookup, closure call and error paths it uses.                           *)
(*                                                                         *)
(* run() recurses in C++ for every LPC call.  Its locals (ip, localStack,  *)
(* locals, catchFrames, pendingVarargsDelta) are one record of `frames`;   *)
(* the caller's ip stays on its call instruction until the callee is       *)
(* back.  A C++ exception in flight is `exc`: it is caught by the top      *)
(* frame's innermost catch frame or it ends that run() call, one frame at  *)
(* a time.  Positions in `code` are 1-based here.                          *)
(*                                                                         *)
(* An image is what the compiler and ObjectManager::compile() leave: the   *)
(* compiled programs (a parent before its heirs), the program of the       *)
(* running object and the program of the simul_efun object (0: none).  The *)
(* run is the load of one object: the variable initialisers, then create() *)
(*                                                                         *)
(* Left out: the opcodes over values that Values leaves out, sscanf, the   *)
(* coroutine opcodes of runAsync(), the object and origin stacks, every    *)
(* efun but sizeof, error, throw and evaluate.                             *)
(***************************************************************************)
EXTENDS Values, FiniteSets

CONSTANTS
    Images,       \* a sequence of images
    MaxEvalCost   \* the per-dispatch instruction limit

ASSUME MaxEvalCostAssumption == MaxEvalCost \in Nat

VARIABLES
    img,        \* which image runs
    image,      \* that image; it never changes
    pending,    \* the calls loadObject() has still to make
    frames,     \* the run() activations, innermost last
    heap,       \* arrays, mappings and closures
    vars,       \* object -> its variables
    exc,        \* the exception in flight
    evalCost,   \* evalCost_
    times,      \* timeExpressionStack_, each entry naming its start
    internal,   \* an internal-consistency throw has happened (a ghost)
    result      \* what the driver's call came back with

vmVars == <<img, image, pending, frames, heap, vars, exc, evalCost, times, internal,
            result>>

NoExc       == [kind |-> "none", value |-> Void]
RuntimeErr  == [kind |-> "error", value |-> ErrorText]   \* LpcRuntimeError
Thrown(v)   == [kind |-> "error", value |-> v]           \* LpcThrownValue
EvalCostErr == [kind |-> "evalcost", value |-> Void]     \* EvalCostError

-----------------------------------------------------------------------------
(* Function lookup *)

NotFound == <<0, 0>>

\* Index of the first of `fns` with this name, 0 when there is none.
EntryIndex(fns, name) ==
    LET hit == {i \in DOMAIN fns : fns[i].name = name}
    IN  IF hit = {} THEN 0 ELSE Min(hit)

\* Own functions first, then each parent's chain in inherit order.  `find`
\* gives what the parents' chains hold.
OwnOrInherited(programs, name, find, p) ==
    LET own     == EntryIndex(programs[p].functions, name)
        parents == programs[p].inherits
        hit     == {i \in DOMAIN parents : find[parents[i]] # NotFound}
    IN  IF own # 0 THEN <<p, own>>
        ELSE IF hit # {} THEN find[parents[Min(hit)]]
        ELSE NotFound

\* The per-program cache of this search is a memo of an immutable table.
findFunctionInChain(programs, program, name) ==
    LET find[p \in DOMAIN programs] == OwnOrInherited(programs, name, find, p)
    IN  find[program]

\* "::name()" (qualifier 0) searches the parents in order; "q::name()" only
\* the first parent called q.
findParentFunction(programs, program, name, qualifier) ==
    LET parents == programs[program].inherits
        usable  == {i \in DOMAIN parents :
                      IF qualifier = 0
                      THEN findFunctionInChain(programs, parents[i], name)
                             # NotFound
                      ELSE parents[i] = qualifier}
    IN  IF usable = {} THEN NotFound
        ELSE findFunctionInChain(programs, parents[Min(usable)], name)

Programs == image.programs

ProgramOf(obj) == IF obj = "self" THEN image.object ELSE image.simul

\* A bare call: the object's whole chain, then the simul_efun object's.
ResolveCall(obj, name) ==
    LET own   == findFunctionInChain(Programs, ProgramOf(obj), name)
        simul == IF image.simul = 0 THEN NotFound
                 ELSE findFunctionInChain(Programs, image.simul, name)
    IN  IF own # NotFound THEN [obj |-> obj, ref |-> own]
        ELSE [obj |-> "simul", ref |-> simul]

-----------------------------------------------------------------------------
(* Frames *)

Top   == frames[Len(frames)]
Code  == Programs[Top.prog].code
Instr == Code[Top.ip]

WithTop(f) == [frames EXCEPT ![Len(frames)] = f]

\* The last n values of the operand stack, and the stack without them.
Operands(n) == SubSeq(Top.stack, Len(Top.stack) - n + 1, Len(Top.stack))
Below(n)    == SubSeq(Top.stack, 1, Len(Top.stack) - n)

\* Mutant: inherited code uses its own slot numbers.
NoVarBase(f) == 0

\* Where this program's own variables start in the object's variables.
ObjectVarBase(f) ==
    IF f.prog = ProgramOf(f.obj) THEN 0
    ELSE Programs[ProgramOf(f.obj)].base[f.prog]

\* The locals a call starts with: 0 in every slot, then the arguments by
\* position, surplus ones dropped; a varargs function's last parameter is
\* bound to `rest` instead.
BindArguments(fn, args, rest) ==
    LET positional == IF fn.isVarargs /\ fn.numArgs > 0
                      THEN fn.numArgs - 1 ELSE Len(args)
    IN  [i \in 1 .. fn.numLocals |->
            CASE i <= positional /\ i <= Len(args) -> args[i]
              [] fn.isVarargs /\ fn.numArgs > 0 /\ i = fn.numArgs -> rest
              [] OTHER -> Num(0)]

RestArguments(fn, args) == SubSeq(args, fn.numArgs, Len(args))

NewFrame(ref, obj, args, rest) ==
    LET fn == Programs[ref[1]].functions[ref[2]]
    IN  [prog |-> ref[1], obj |-> obj, ip |-> fn.entryPoint,
         stack |-> <<>>, locals |-> BindArguments(fn, args, rest),
         catches |-> <<>>, delta |-> 0]

-----------------------------------------------------------------------------
(* One instruction *)

\* Mutant: instructions are free.
FetchFree(ops) ==
    /\ frames # <<>> /\ exc = NoExc
    /\ Instr.op \in ops
    /\ evalCost < MaxEvalCost
    /\ UNCHANGED <<img, image, pending, evalCost>>

\* The loop header: the instruction at ip is charged and dispatched.
Fetch(ops) ==
    /\ frames # <<>> /\ exc = NoExc
    /\ Instr.op \in ops
    /\ evalCost < MaxEvalCost
    /\ evalCost' = evalCost + 1
    /\ UNCHANGED <<img, image, pending>>

\* The instruction replaces its n operands by the result and moves on.
\* `sound` is the conjunction of its internal checks (stack underflow, slot
\* and argument-count range); when one fails it throws before it pops, while
\* an operand of the wrong type is refused after the operands are popped.
Finish(n, sound, res) ==
    LET outcome == IF sound THEN res ELSE Fail
        pushed  == IF outcome.kind = "alloc"
                   THEN <<outcome.cell.kind, Len(heap) + 1>>
                   ELSE outcome.value
    IN  /\ internal' = (internal \/ ~sound)
        /\ IF outcome.kind = "fail"
           THEN /\ exc' = RuntimeErr
                /\ frames' = IF sound THEN WithTop([Top EXCEPT !.stack = Below(n)])
                             ELSE frames
                /\ UNCHANGED heap
           ELSE /\ frames' = WithTop([Top EXCEPT !.ip = @ + 1,
                                        !.stack = Append(Below(n), pushed)])
                /\ heap' = IF outcome.kind = "alloc"
                           THEN Append(heap, outcome.cell) ELSE heap
                /\ UNCHANGED exc

Holds(n) == Len(Top.stack) >= n

\* An instruction that only moves values between the stack and `locals`,
\* the code position or the catch frames.
Rewrite(sound, f) ==
    /\ internal' = (internal \/ ~sound)
    /\ IF sound THEN frames' = WithTop(f) /\ UNCHANGED exc
       ELSE exc' = RuntimeErr /\ UNCHANGED frames
    /\ UNCHANGED heap

PushConst ==
    /\ Fetch({"PushConst", "PushInt"})
    /\ Finish(0, TRUE, Ok(Instr.a))
    /\ UNCHANGED <<vars, times, result>>

PushLocal ==
    /\ Fetch({"PushLocal"})
    /\ LET sound == Instr.a \in DOMAIN Top.locals
       IN  Finish(0, sound, Ok(IF sound THEN Top.locals[Instr.a] ELSE Void))
    /\ UNCHANGED <<vars, times, result>>

StoreLocal ==
    /\ Fetch({"StoreLocal"})
    /\ Rewrite(Instr.a \in DOMAIN Top.locals /\ Holds(1),
               [Top EXCEPT !.ip = @ + 1, !.stack = Below(1),
                           !.locals[Instr.a] = Top.stack[Len(Top.stack)]])
    /\ UNCHANGED <<vars, times, result>>

PushObjectVar ==
    /\ Fetch({"PushObjectVar"})
    /\ LET slot  == ObjectVarBase(Top) + Instr.a
           sound == slot \in DOMAIN vars[Top.obj]
       IN  Finish(0, sound, Ok(IF sound THEN vars[Top.obj][slot] ELSE Void))
    /\ UNCHANGED <<vars, times, result>>

StoreObjectVar ==
    /\ Fetch({"StoreObjectVar"})
    /\ LET slot  == ObjectVarBase(Top) + Instr.a
           sound == slot \in DOMAIN vars[Top.obj] /\ Holds(1)
       IN  /\ Rewrite(sound, [Top EXCEPT !.ip = @ + 1, !.stack = Below(1)])
           /\ vars' = IF sound
                      THEN [vars EXCEPT ![Top.obj][slot] =
                              Top.stack[Len(Top.stack)]]
                      ELSE vars
    /\ UNCHANGED <<times, result>>

Binary ==
    /\ Fetch(BinaryOps)
    /\ Finish(2, Holds(2),
              BinaryResult(Instr.op, Operands(2)[1], Operands(2)[2], heap))
    /\ UNCHANGED <<vars, times, result>>

Not ==
    /\ Fetch({"Not"})
    /\ Finish(1, Holds(1), Ok(Bool(~isTruthy(Operands(1)[1]))))
    /\ UNCHANGED <<vars, times, result>>

BitNot ==
    /\ Fetch({"BitNot"})
    /\ Finish(1, Holds(1), BitNotResult(Operands(1)[1]))
    /\ UNCHANGED <<vars, times, result>>

\* Harmless on an empty stack.
Pop ==
    /\ Fetch({"Pop"})
    /\ Rewrite(TRUE, [Top EXCEPT !.ip = @ + 1,
                        !.stack = IF Holds(1) THEN Below(1) ELSE @])
    /\ UNCHANGED <<vars, times, result>>

Dup ==
    /\ Fetch({"Dup"})
    /\ Finish(0, Holds(1), Ok(Top.stack[Len(Top.stack)]))
    /\ UNCHANGED <<vars, times, result>>

InCode(target) == target \in 1 .. Len(Code) + 1

Jump ==
    /\ Fetch({"Jump"})
    /\ Rewrite(InCode(Instr.a), [Top EXCEPT !.ip = Instr.a])
    /\ UNCHANGED <<vars, times, result>>

JumpIfFalse ==
    /\ Fetch({"JumpIfFalse"})
    /\ LET taken == ~isTruthy(Operands(1)[1])
       IN  Rewrite(Holds(1) /\ (taken => InCode(Instr.a)),
                   [Top EXCEPT !.stack = Below(1),
                               !.ip = IF taken THEN Instr.a ELSE @ + 1])
    /\ UNCHANGED <<vars, times, result>>

-----------------------------------------------------------------------------
(* Compound values *)

ForeachKeys ==
    /\ Fetch({"ForeachKeys"})
    /\ Finish(1, Holds(1), ForeachKeysResult(Operands(1)[1], heap))
    /\ UNCHANGED <<vars, times, result>>

Index ==
    /\ Fetch({"Index"})
    /\ Finish(2, Holds(2),
              IndexResult(Operands(2)[1], Operands(2)[2], Instr.n = 1, heap))
    /\ UNCHANGED <<vars, times, result>>

RangeIndex ==
    /\ Fetch({"RangeIndex"})
    /\ Finish(3, Holds(3),
              RangeResult(Operands(3)[1], Operands(3)[2], Operands(3)[3],
                          Instr.n \in {1, 3}, Instr.n \in {2, 3}, heap))
    /\ UNCHANGED <<vars, times, result>>

IndexAssign ==
    /\ Fetch({"IndexAssign"})
    /\ LET target == Operands(3)[1]
           res    == IF Holds(3)
                     THEN IndexAssignResult(target, Operands(3)[2],
                                            Operands(3)[3], heap)
                     ELSE Fail
       IN  /\ internal' = (internal \/ ~Holds(3))
           /\ IF res.kind = "fail"
              THEN /\ exc' = RuntimeErr
                   /\ frames' = IF Holds(3)
                                THEN WithTop([Top EXCEPT !.stack = Below(3)])
                                ELSE frames
                   /\ UNCHANGED heap
              ELSE /\ heap' = [heap EXCEPT ![target[2]] = res.cell]
                   /\ frames' = WithTop([Top EXCEPT !.ip = @ + 1,
                                                    !.stack = Below(3)])
                   /\ UNCHANGED exc
    /\ UNCHANGED <<vars, times, result>>

\* "expr...": the array n slots below the top is replaced by its items, and
\* the count the next MakeArray or call takes grows by size - 1.
ExpandVarargs ==
    /\ Fetch({"ExpandVarargs"})
    /\ LET slot  == Len(Top.stack) - Instr.a
           sound == slot >= 1
       IN  /\ internal' = (internal \/ ~sound)
           /\ IF sound /\ IsTag(Top.stack[slot], "arr")
              THEN LET items == heap[Top.stack[slot][2]].items
                   IN  /\ frames' = WithTop([Top EXCEPT !.ip = @ + 1,
                                      !.delta = @ + Len(items) - 1,
                                      !.stack = SubSeq(@, 1, slot - 1) \o items
                                         \o SubSeq(@, slot + 1, Len(@))])
                       /\ UNCHANGED exc
              ELSE exc' = RuntimeErr /\ UNCHANGED frames
    /\ UNCHANGED <<heap, vars, times, result>>

\* The argument count of an instruction that takes the spread into account.
\* The pending delta is consumed even if the count is then refused.
ArgCount == Instr.n + Top.delta

SpreadTaken == [Top EXCEPT !.delta = 0]

MakeCompound(n, cell) ==
    LET sound == ArgCount >= 0 /\ Holds(n)
    IN  /\ internal' = (internal \/ ~sound)
        /\ IF sound
           THEN /\ heap' = Append(heap, cell)
                /\ frames' = WithTop([SpreadTaken EXCEPT !.ip = @ + 1,
                     !.stack = Append(Below(n), <<cell.kind, Len(heap) + 1>>)])
                /\ UNCHANGED exc
           ELSE /\ exc' = RuntimeErr
                /\ frames' = WithTop(SpreadTaken)
                /\ UNCHANGED heap

MakeArray ==
    /\ Fetch({"MakeArray"})
    /\ MakeCompound(ArgCount, ArrayCell(Operands(ArgCount)))
    /\ UNCHANGED <<vars, times, result>>

\* Entries are appended as written: a repeated key is kept twice.
MakeMapping ==
    /\ Fetch({"MakeMapping"})
    /\ LET n == 2 * ArgCount
       IN  MakeCompound(n, MappingCell([i \in 1 .. ArgCount |->
                <<Operands(n)[2 * i - 1], Operands(n)[2 * i]>>]))
    /\ UNCHANGED <<vars, times, result>>

\* A closure is bound to the object that runs, and names its function; the
\* body is looked up when it is called.  `home` is a ghost: the program
\* whose code holds the literal.
PushClosure ==
    /\ Fetch({"PushClosure"})
    /\ Finish(Instr.n, Holds(Instr.n),
              Alloc(ClosureCell(Top.obj, Instr.a, Operands(Instr.n), Top.prog)))
    /\ UNCHANGED <<vars, times, result>>

-----------------------------------------------------------------------------
(* Calls *)

\* The caller's frame with argc arguments popped; run() is entered.
Enter(argc, ref, obj, args) ==
    LET fn      == Programs[ref[1]].functions[ref[2]]
        hasRest == fn.isVarargs /\ fn.numArgs > 0
        caller  == [SpreadTaken EXCEPT !.stack = Below(argc)]
    IN  /\ heap' = IF hasRest
                   THEN Append(heap, ArrayCell(RestArguments(fn, args)))
                   ELSE heap
        /\ frames' = Append(WithTop(caller),
                            NewFrame(ref, obj, args, Arr(Len(heap) + 1)))
        /\ UNCHANGED <<exc, internal>>

sizeofImpl(args, cells) ==
    Num(IF args = <<>> THEN 0
        ELSE CASE Tag(args[1]) \in {"arr", "map"} ->
                      Len(cells[args[1][2]].items)
               [] IsTag(args[1], "str") -> Len(args[1][2])
               [] OTHER -> 0)

\* The efuns of the model that return or throw without calling back.
EfunResult(name, args) ==
    CASE name = "sizeof" -> Ok(sizeofImpl(args, heap))
      [] name = "throw" /\ Len(args) = 1 -> [kind |-> "throw", value |-> args[1]]
      [] OTHER -> Fail   \* error(), a bad throw(), an undefined name

\* The instruction ends with the efun's value, or its exception leaves it.
EfunDone(argc, res) ==
    LET caller == [SpreadTaken EXCEPT !.stack = Below(argc)]
    IN  /\ frames' = WithTop(IF res.kind = "ok"
                             THEN [caller EXCEPT !.ip = @ + 1,
                                     !.stack = Append(@, res.value)]
                             ELSE caller)
        /\ exc' = CASE res.kind = "ok"    -> exc
                    [] res.kind = "throw" -> Thrown(res.value)
                    [] OTHER              -> RuntimeErr
        /\ UNCHANGED <<heap, internal>>

\* evaluate(f, extra...): bound arguments first, then the owner's chain, the
\* simul_efun object and the efuns, as for a bare call.  The name of an
\* inline lambda goes through the same lookup.  (Of a closure on the efun
\* evaluate itself no program makes a call.)
callClosure(argc, closure, extra) ==
    LET args == closure.items \o extra
        call == ResolveCall(closure.owner, closure.name)
    IN  IF call.ref # NotFound
        THEN Enter(argc, call.ref, call.obj, args)
        ELSE EfunDone(argc, EfunResult(closure.name, args))

CallEfunByName(argc, name, args) ==
    IF name # "evaluate" THEN EfunDone(argc, EfunResult(name, args))
    ELSE IF args = <<>> \/ ~IsTag(args[1], "fun") THEN EfunDone(argc, Ok(Void))
    ELSE callClosure(argc, heap[args[1][2]], Tail(args))

BadArgCount ==
    /\ internal' = TRUE
    /\ exc' = RuntimeErr
    /\ frames' = WithTop(SpreadTaken)
    /\ UNCHANGED heap

\* A sound argument count, or the throw for a bad one.
WithArguments(Do(_, _)) ==
    IF ArgCount >= 0 /\ Holds(ArgCount)
    THEN Do(ArgCount, Operands(ArgCount))
    ELSE BadArgCount

\* A bare call resolves against the object's own program, not the program
\* whose code runs: an heir's redefinition wins inside its ancestor too.
Call ==
    /\ Fetch({"Call"})
    /\ LET call == ResolveCall(Top.obj, Instr.a)
           Do(argc, args) ==
               IF call.ref # NotFound
               THEN Enter(argc, call.ref, call.obj, args)
               ELSE CallEfunByName(argc, Instr.a, args)
       IN  WithArguments(Do)
    /\ UNCHANGED <<vars, times, result>>

\* "::name()", looked up among the parents of the program whose code runs.
\* The qualifier sits in the data instruction that follows.
CallParent ==
    /\ Fetch({"CallParent"})
    /\ LET ref == findParentFunction(Programs, Top.prog, Instr.a,
                                     Code[Top.ip + 1].a)
           Do(argc, args) ==
               IF ref # NotFound
               THEN Enter(argc, ref, Top.obj, args)
               ELSE EfunDone(argc, Fail)
       IN  WithArguments(Do)
    /\ UNCHANGED <<vars, times, result>>

CallEfun ==
    /\ Fetch({"CallEfun"})
    /\ LET Do(argc, args) == CallEfunByName(argc, Instr.a, args)
       IN  WithArguments(Do)
    /\ UNCHANGED <<vars, times, result>>

\* The whole stack of the callee goes; the caller gets the top value and
\* moves past its call (a CallParent spans two instructions).
Return ==
    /\ Fetch({"Return"})
    /\ LET value  == IF Top.stack = <<>> THEN Void
                     ELSE Top.stack[Len(Top.stack)]
           caller == frames[Len(frames) - 1]
           call   == Programs[caller.prog].code[caller.ip].op
       IN  IF Len(frames) = 1
           THEN frames' = <<>> /\ result' = [kind |-> "value", value |-> value]
           ELSE /\ frames' = Append(SubSeq(frames, 1, Len(frames) - 2),
                      [caller EXCEPT !.stack = Append(@, value),
                         !.ip = @ + (IF call = "CallParent" THEN 2 ELSE 1)])
                /\ UNCHANGED result
    /\ UNCHANGED <<heap, vars, exc, times, internal>>

-----------------------------------------------------------------------------
(* Errors, catch() and time_expression *)

PushCatchFrame ==
    /\ Fetch({"PushCatchFrame"})
    /\ Rewrite(InCode(Instr.a),
               [Top EXCEPT !.ip = @ + 1,
                  !.catches = Append(@, [resumeIp   |-> Instr.a,
                                         stackDepth |-> Len(Top.stack)])])
    /\ UNCHANGED <<vars, times, result>>

PopCatchFrame ==
    /\ Fetch({"PopCatchFrame"})
    /\ Rewrite(Top.catches # <<>>,
               [Top EXCEPT !.ip = @ + 1, !.catches = Front(@),
                           !.stack = Append(@, Num(0))])
    /\ UNCHANGED <<vars, times, result>>

\* Each timestamp is kept as the place it was taken at.
TimeExpressionStart ==
    /\ Fetch({"TimeExpressionStart"})
    /\ times' = Append(times, <<Len(frames), Top.ip>>)
    /\ Rewrite(TRUE, [Top EXCEPT !.ip = @ + 1])
    /\ UNCHANGED <<vars, result>>

\* The elapsed time is read as 0.
TimeExpressionEnd ==
    /\ Fetch({"TimeExpressionEnd"})
    /\ Finish(0, times # <<>>, Ok(Num(0)))
    /\ times' = IF times = <<>> THEN times ELSE Front(times)
    /\ UNCHANGED <<vars, result>>

\* The loop header when the limit is passed.
EvalCostExceeded ==
    /\ frames # <<>> /\ exc = NoExc
    /\ evalCost >= MaxEvalCost
    /\ evalCost' = evalCost + 1
    /\ exc' = EvalCostErr
    /\ UNCHANGED <<img, image, pending, frames, heap, vars, times, internal, result>>

\* vector::resize(): cut, or filled up with monostate.
Resize(stack, n) ==
    [i \in 1 .. n |-> IF i <= Len(stack) THEN stack[i] ELSE Void]

\* Mutant: catch() takes every exception.
CatchAny ==
    /\ frames # <<>> /\ exc # NoExc
    /\ Top.catches # <<>>
    /\ LET c == Last(Top.catches)
       IN  frames' = WithTop([Top EXCEPT !.ip = c.resumeIp,
                        !.catches = Front(@),
                        !.stack = Append(Resize(@, c.stackDepth), exc.value)])
    /\ exc' = NoExc
    /\ UNCHANGED <<img, image, pending, heap, vars, evalCost, times, internal,
                   result>>

\* Mutant: catch() does not cut the stack back.
CatchKeepsStack ==
    /\ frames # <<>> /\ exc.kind = "error"
    /\ Top.catches # <<>>
    /\ frames' = WithTop([Top EXCEPT !.ip = Last(Top.catches).resumeIp,
                     !.catches = Front(@), !.stack = Append(@, exc.value)])
    /\ exc' = NoExc
    /\ UNCHANGED <<img, image, pending, heap, vars, evalCost, times, internal,
                   result>>

\* Both handlers of run(): the innermost catch frame of the activation takes
\* the exception, the stack is cut back to its depth and the value or the
\* message pushed.  An EvalCostError has no handler.
CatchError ==
    /\ frames # <<>> /\ exc.kind = "error"
    /\ Top.catches # <<>>
    /\ LET c == Last(Top.catches)
       IN  frames' = WithTop([Top EXCEPT !.ip = c.resumeIp,
                        !.catches = Front(@),
                        !.stack = Append(Resize(@, c.stackDepth), exc.value)])
    /\ exc' = NoExc
    /\ UNCHANGED <<img, image, pending, heap, vars, evalCost, times, internal,
                   result>>

\* No catch frame, or an EvalCostError: this run() call is left.
Unwind ==
    /\ frames # <<>> /\ exc # NoExc
    /\ Top.catches = <<>> \/ exc.kind = "evalcost"
    /\ frames' = Front(frames)
    /\ IF Len(frames) = 1
       THEN exc' = NoExc /\ result' = exc /\ pending' = <<>>
       ELSE UNCHANGED <<exc, result, pending>>
    /\ UNCHANGED <<img, image, heap, vars, evalCost, times, internal>>

-----------------------------------------------------------------------------

\* runObjectVarInitializers(): the "$objvarinit" of every inherited program,
\* parents first, a program inherited twice twice.
OwnAfterInherited(programs, walk, p) ==
    LET own     == EntryIndex(programs[p].functions, "$objvarinit")
        parents == programs[p].inherits
    IN  FlattenSeq([i \in DOMAIN parents |-> walk[parents[i]]])
          \o (IF own = 0 THEN <<>> ELSE << <<p, own>> >>)

InitializerCalls(programs, program) ==
    LET walk[p \in DOMAIN programs] == OwnAfterInherited(programs, walk, p)
    IN  walk[program]

\* loadObject(): the initialisers, then create() if the chain has one, on
\* fresh variables.
LoadCalls ==
    LET create == findFunctionInChain(Programs, image.object, "create")
    IN  InitializerCalls(Programs, image.object)
          \o (IF create = NotFound THEN <<>> ELSE <<create>>)

\* (A definition, so that TLC evaluates the constant once.)
ImageTable == Images

Init ==
    /\ img \in DOMAIN ImageTable
    /\ image = ImageTable[img]
    /\ pending = LoadCalls
    /\ frames = <<>>
    /\ heap = <<>>
    /\ vars = [o \in {"self", "simul"} |->
                 IF o = "simul" /\ image.simul = 0 THEN <<>>
                 ELSE [i \in DOMAIN Programs[ProgramOf(o)].names |-> Num(0)]]
    /\ exc = NoExc
    /\ evalCost = 0
    /\ times = <<>>
    /\ internal = FALSE
    /\ result = [kind |-> "none", value |-> Void]

\* The next call of loadObject().  An exception that left the previous one
\* has already ended the load.
DriverCall ==
    /\ frames = <<>> /\ pending # <<>>
    /\ frames' = <<NewFrame(Head(pending), "self", <<>>, Void)>>
    /\ pending' = Tail(pending)
    /\ UNCHANGED <<img, image, heap, vars, exc, evalCost, times, internal, result>>

Instruction ==
    \/ PushConst \/ PushLocal \/ StoreLocal \/ PushObjectVar \/ StoreObjectVar
    \/ Binary \/ Not \/ BitNot \/ Pop \/ Dup \/ Jump \/ JumpIfFalse
    \/ ForeachKeys \/ Index \/ RangeIndex \/ IndexAssign
    \/ ExpandVarargs \/ MakeArray \/ MakeMapping \/ PushClosure
    \/ Call \/ CallParent \/ CallEfun \/ Return
    \/ PushCatchFrame \/ PopCatchFrame
    \/ TimeExpressionStart \/ TimeExpressionEnd

Next == DriverCall \/ Instruction \/ EvalCostExceeded \/ CatchError \/ Unwind

Spec == Init /\ [][Next]_vmVars

\* run() executes until it returns or throws: nothing can hold it up.
FairSpec == Spec /\ WF_vmVars(Next)

Done == frames = <<>> /\ pending = <<>>

-----------------------------------------------------------------------------

\* An EvalCostError is never absorbed: from the moment it is thrown no
\* instruction runs, no variable or heap cell changes, and the activations
\* only unwind until the driver gets it.
EvalCostFinal ==
    [][exc = EvalCostErr =>
         /\ exc' = EvalCostErr \/ (frames' = <<>> /\ result' = EvalCostErr)
         /\ Len(frames') < Len(frames)
         /\ UNCHANGED <<heap, vars, evalCost>>]_vmVars

\* The limit is passed at most once, by one: no instruction is dispatched
\* after it, in this call of loadObject() or in a later one.
EvalCostBounded ==
    /\ evalCost \in 0 .. MaxEvalCost + 1
    /\ evalCost > MaxEvalCost => exc = EvalCostErr \/ Done

\* No internal-consistency check of run() ever fires (an operand, a local, an
\* object variable, a catch frame or a timestamp is always there); a catch
\* frame never asks for a deeper stack than there is, so an error never
\* invents operands; a function returns with nothing but its value on the
\* stack and every catch() left.
StackDiscipline ==
    /\ ~internal
    /\ \A k \in DOMAIN frames :
         LET f == frames[k]
         IN  \A i \in DOMAIN f.catches :
               /\ f.catches[i].stackDepth <= Len(f.stack)
               /\ i > 1 => f.catches[i - 1].stackDepth <= f.catches[i].stackDepth
    /\ frames # <<>> /\ exc = NoExc /\ Instr.op = "Return" =>
         Len(Top.stack) <= 1 /\ Top.catches = <<>>
=============================================================================
