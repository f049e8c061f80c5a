----------------------------- MODULE StackMaps ------------------------------
(***************************************************************************)
(* What the code generator has to get right for run() to keep its stacks   *)
(* in order, as a condition on an image alone.                             *)
(*                                                                         *)
(* A stack map gives every code position that can be reached its shape:    *)
(* the depth of the operand stack, the catch frames, how many spreads of   *)
(* the argument list are already expanded, the number of local slots, and  *)
(* how many time_expressions are open at least.  An image fits a map when  *)
(* every instruction finds what it needs and hands the shape it makes to   *)
(* each position it leads to.                                              *)
(***************************************************************************)
EXTENDS VM

CatchFrames == [resumeIp : Nat, stackDepth : Nat]

Shapes == [depth : Nat, catches : Seq(CatchFrames), spread : Nat, slots : Nat,
           timers : Nat]

-----------------------------------------------------------------------------
(* The stack effect of an instruction *)

Calls == {"Call", "CallParent", "CallEfun"}

SpreadTakers == Calls \union {"MakeArray"}

Pops(i) ==
    CASE i.op \in {"StoreLocal", "StoreObjectVar", "Not", "BitNot", "Pop",
                   "JumpIfFalse", "ForeachKeys"}       -> 1
      [] i.op \in BinaryOps \union {"Index"}           -> 2
      [] i.op \in {"RangeIndex", "IndexAssign"}        -> 3
      [] i.op \in SpreadTakers \union {"PushClosure"}  -> i.n
      [] i.op = "MakeMapping"                          -> 2 * i.n
      [] OTHER                                         -> 0

Needs(i) == IF i.op = "Dup" THEN 1 ELSE Pops(i)

Pushes(i) ==
    IF i.op \in {"StoreLocal", "StoreObjectVar", "Pop", "Jump", "JumpIfFalse",
                 "IndexAssign", "ExpandVarargs", "Return", "PushCatchFrame",
                 "TimeExpressionStart"}
    THEN 0 ELSE 1

CatchesAfter(m, i) ==
    CASE i.op = "PushCatchFrame" ->
           Append(m.catches, [resumeIp |-> i.a, stackDepth |-> m.depth])
      [] i.op = "PopCatchFrame" -> Front(m.catches)
      [] OTHER -> m.catches

TimersAfter(m, i) ==
    CASE i.op = "TimeExpressionStart" -> m.timers + 1
      [] i.op = "TimeExpressionEnd" -> m.timers - 1
      [] OTHER -> m.timers

\* The shape an instruction makes of the shape it is reached with.
After(m, i) ==
    [depth   |-> m.depth - Pops(i) + Pushes(i),
     catches |-> CatchesAfter(m, i),
     spread  |-> IF i.op = "ExpandVarargs" THEN m.spread + 1 ELSE 0,
     slots   |-> m.slots,
     timers  |-> TimersAfter(m, i)]

\* Where it goes next.
Targets(i, ip) ==
    CASE i.op = "Jump"        -> {i.a}
      [] i.op = "JumpIfFalse" -> {i.a, ip + 1}
      [] i.op = "CallParent"  -> {ip + 2}
      [] i.op = "Return"      -> {}
      [] OTHER                -> {ip + 1}

\* The shape at the end of the innermost catch() when an error is caught.
Resumed(m) ==
    [m EXCEPT !.depth = Last(m.catches).stackDepth + 1, !.catches = Front(@),
              !.spread = 0]

-----------------------------------------------------------------------------

\* Position ip of the map is there and expects shape m; an error, a break or
\* a return may have left timestamps behind.
Expects(map, ip, m) ==
    /\ ip \in DOMAIN map
    /\ map[ip].depth = m.depth /\ map[ip].catches = m.catches
    /\ map[ip].spread = m.spread /\ map[ip].slots = m.slots
    /\ map[ip].timers <= m.timers

\* What an instruction needs besides operands.  A spread that is expanded
\* after another one has no catch() around it in its function: an error of
\* the second would leave the count of the first behind (README, section 3).
NeedsMet(m, i) ==
    /\ m.spread > 0 => i.op \in SpreadTakers \union {"ExpandVarargs"}
    /\ i.op \in SpreadTakers => m.spread <= i.n
    /\ i.op = "ExpandVarargs" =>
         /\ i.a \in Nat /\ m.spread + i.a < m.depth
         /\ m.spread > 0 => m.catches = <<>>
    /\ i.op \in {"PushConst", "PushInt"} => Tag(i.a) \notin {"arr", "map", "fun"}
    /\ i.op \in {"PushLocal", "StoreLocal"} => i.a \in 1 .. m.slots
    /\ i.op = "PopCatchFrame" => m.catches # <<>>
    /\ i.op = "TimeExpressionEnd" => m.timers > 0
    /\ i.op = "Return" => m.depth <= 1 /\ m.catches = <<>>

FitsAt(code, map, ip) ==
    LET m == map[ip]
        i == code[ip]
    IN  /\ ip \in DOMAIN code /\ m \in Shapes /\ i.n \in Nat
        /\ Needs(i) <= m.depth
        /\ NeedsMet(m, i)
        /\ \A t \in Targets(i, ip) : Expects(map, t, After(m, i))
        /\ \A j, k \in DOMAIN m.catches :
             j <= k => m.catches[j].stackDepth <= m.catches[k].stackDepth
        /\ m.catches # <<>> =>
             /\ Last(m.catches).stackDepth + Pops(i) <= m.depth
             /\ Expects(map, Last(m.catches).resumeIp, Resumed(m))

\* The shape a function is entered with.
Entered(fn) == [depth |-> 0, catches |-> <<>>, spread |-> 0,
                slots |-> fn.numLocals, timers |-> 0]

\* Parents come before heirs, every function starts at a position of the map,
\* and every position of the map fits.
ProgramFits(programs, p, map) ==
    LET prog == programs[p]
    IN  /\ prog.code \in Seq(Range(prog.code))
        /\ prog.functions \in Seq(Range(prog.functions))
        /\ prog.inherits \in Seq(1 .. p - 1)
        /\ \A j \in DOMAIN prog.functions :
             LET fn == prog.functions[j]
             IN  /\ fn.numLocals \in Nat /\ fn.numArgs \in Nat
                 /\ Expects(map, fn.entryPoint, Entered(fn))
        /\ \A ip \in DOMAIN map : FitsAt(prog.code, map, ip)

-----------------------------------------------------------------------------
(* Object variables *)

Main(im, o) == IF o = "self" THEN im.object ELSE im.simul

\* The objects whose code can run.
ObjectsOf(im) == IF im.simul = 0 THEN {"self"} ELSE {"self", "simul"}

\* Slot a of program p, counted among the variables of object o.
VarSlot(im, o, p, a) ==
    (IF p = Main(im, o) THEN 0 ELSE im.programs[Main(im, o)].base[p]) + a

\* linked holds the object's program and, with a program, its parents; each
\* finds its variables among the object's.
LinkFits(im, maps, o, linked) ==
    /\ linked \subseteq DOMAIN im.programs
    /\ Main(im, o) \in linked
    /\ \A p \in linked :
         /\ Range(im.programs[p].inherits) \subseteq linked
         /\ \A ip \in DOMAIN maps[p] :
              LET i == im.programs[p].code[ip]
              IN  i.op \in {"PushObjectVar", "StoreObjectVar"}
                    => VarSlot(im, o, p, i.a)
                         \in DOMAIN im.programs[Main(im, o)].names

\* maps[p] is the map of program p, linked[o] the programs of object o.
Fits(im, maps, linked) ==
    /\ im.programs \in Seq(Range(im.programs))
    /\ \A p \in DOMAIN im.programs : ProgramFits(im.programs, p, maps[p])
    /\ \A o \in ObjectsOf(im) : LinkFits(im, maps, o, linked[o])

\* The image has a stack map.
Verified(im) == \E maps, linked : Fits(im, maps, linked)
=============================================================================
