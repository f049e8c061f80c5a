------------------------------ MODULE Machine -------------------------------
(***************************************************************************)
(* The compiler and the machine together: VM runs what CodeGen makes of    *)
(* the trees of LPC files, and the outcome is compared with what           *)
(* LpcMeaning says the files mean.  (Grammar shows that the trees are what *)
(* the parser makes of the files' text.)                                   *)
(*                                                                         *)
(* A source is [files, object, simul, endless]: the files parents first,   *)
(* the file of the object that is loaded, the file of the simul_efun       *)
(* object (0: none), and whether the load is meant to run for ever.        *)
(***************************************************************************)
EXTENDS StackMaps, CodeGen, LpcMeaning

CONSTANT Sources

\* What ObjectManager::compile() leaves for a source.
ImageOf(source) ==
    [programs |-> compile(source.files), object |-> source.object,
     simul |-> source.simul]

ASSUME ImagesAssumption == Images = [i \in DOMAIN Sources |-> ImageOf(Sources[i])]

-----------------------------------------------------------------------------

(* The stack maps of compiled code, found by following it from its entries *)

Leads(m, i, ip) ==
    {<<t, After(m, i)>> : t \in Targets(i, ip)}
      \union (IF m.catches = <<>> THEN {}
              ELSE {<<Last(m.catches).resumeIp, Resumed(m)>>})

RECURSIVE Follow(_, _, _)
Follow(code, map, work) ==
    IF work = {} THEN map
    ELSE LET w    == CHOOSE x \in work : TRUE
             rest == work \ {w}
         IN  IF w[1] \in DOMAIN map \/ w[1] \notin DOMAIN code
             THEN Follow(code, map, rest)
             ELSE Follow(code, (w[1] :> w[2]) @@ map,
                         rest \union Leads(w[2], code[w[1]], w[1]))

MapOf(prog) ==
    Follow(prog.code, <<>>, {<<fn.entryPoint, Entered(fn)>> : fn \in Range(prog.functions)})

RECURSIVE Ancestry(_, _)
Ancestry(programs, p) ==
    {p} \union UNION {Ancestry(programs, q) : q \in Range(programs[p].inherits)}

\* The code of a source that compiles keeps the stacks in order: this is the
\* condition under which VMProofs proves StackDiscipline.
CompilesToFit(im) ==
    Fits(im, [p \in DOMAIN im.programs |-> MapOf(im.programs[p])],
         [o \in ObjectsOf(im) |-> Ancestry(im.programs, Main(im, o))])

ASSUME CompiledCodeAssumption == \A i \in DOMAIN Images : CompilesToFit(Images[i])

-----------------------------------------------------------------------------

IsValue(v) ==
    \/ Tag(v) = "int" /\ v[2] \in Int
    \/ Tag(v) \in {"void", "str"}
    \/ /\ Tag(v) \in {"arr", "map", "fun"}
       /\ v[2] \in DOMAIN heap
       /\ heap[v[2]].kind = Tag(v)

\* Every activation points at an instruction of its own program, and every
\* reference on a stack, in a local or in an object variable points at a
\* heap cell of its kind.
TypeOK ==
    /\ \A p \in DOMAIN Programs : ~Programs[p].error   \* legal LPC
    /\ \A k \in DOMAIN frames :
         LET f == frames[k]
         IN  /\ f.prog \in DOMAIN Programs
             /\ f.obj \in {"self", "simul"}
             /\ f.ip \in DOMAIN Programs[f.prog].code
             /\ f.delta \in Int
             /\ \A i \in DOMAIN f.stack : IsValue(f.stack[i])
             /\ \A i \in DOMAIN f.locals : IsValue(f.locals[i])
    /\ \A o \in DOMAIN vars : \A i \in DOMAIN vars[o] : IsValue(vars[o][i])
    /\ exc.kind \in {"none", "error", "evalcost"}
    /\ EvalCostBounded
    /\ internal \in BOOLEAN
    /\ result.kind \in {"none", "value", "error", "evalcost"}

\* (Concatenation makes TLC compute the sequence once.)
SourceTable == Sources

Reference ==
    <<>> \o [i \in DOMAIN Sources |->
               IF Sources[i].endless THEN Value(Void, <<>>) ELSE Load(Sources[i])]

\* The variables of object o hold what the reference evaluator says.
SameVariables(o, file, s) ==
    LET layout == Layout(SourceTable[img].files, file)
    IN  /\ Len(vars[o]) = Len(layout)
        /\ \A i \in DOMAIN layout :
             Deep(vars[o][i], heap) =
               Deep(s.ov[<<o, layout[i][1], layout[i][2]>>], s.heap)

\* A time_expression measures from its own start.
OwnTimestamps ==
    /\ frames # <<>> /\ exc = NoExc /\ Instr.op = "TimeExpressionEnd" =>
         Last(times)[1] = Len(frames)
    /\ Done /\ result.kind = "value" => times = <<>>

\* When the driver's call is over, the value or error it came back with and
\* all object variables are those of the source's meaning: emission order,
\* jump targets, slots, inherited offsets and stack cuts change nothing; and
\* every time_expression measured from its own start.
CompiledMeaning ==
    /\ OwnTimestamps
    /\ Done =>
      LET ref == Reference[img]
      IN  IF SourceTable[img].endless THEN result.kind = "evalcost"
          ELSE /\ result.kind = IF ref.out = "ok" THEN "value" ELSE "error"
               /\ Deep(result.value, heap) = Deep(ref.v, ref.s.heap)
               /\ SameVariables("self", SourceTable[img].object, ref.s)
               /\ SourceTable[img].simul # 0 =>
                    SameVariables("simul", SourceTable[img].simul, ref.s)

\* Whatever the program does, loops and recursion without end included, the
\* driver's call comes back.
Terminates == <>Done

=============================================================================
