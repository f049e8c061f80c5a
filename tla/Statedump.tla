------------------------------ MODULE Statedump ------------------------------
(* dump_state() and restore_state(): the whole world written to one file and  *)
(* rebuilt from it, possibly by another process (StateSerializer.cpp), over   *)
(* the objects as ObjectManager keeps them.                                   *)
(*                                                                            *)
(* Objects are counted references: a slot is free again as soon as no strong  *)
(* reference to it is left.  loaded_ and restoredObjects_ of the              *)
(* ObjectManager, inventories and variables are strong; the environment, the  *)
(* live-object registry and a closure's owner are weak.  A destructed object  *)
(* stays in memory while something still refers to it.                        *)
(*                                                                            *)
(* Both calls run inside one efun, so nothing interleaves with dump_state()   *)
(* but a crash of the process; restore_state() runs the create() of every     *)
(* object it makes.  The file is a sequence of tokens and is cut between      *)
(* tokens; each object has one variable.                                      *)
EXTENDS Integers, Sequences, FiniteSets, SequencesExt

CONSTANTS
    Slots,      \* memory for objects, 1..n
    Files,      \* the source files of the mudlib
    Master,     \* the file loaded at every boot
    Room,       \* the file whose object create() enters
    Entering,   \* the files whose create() moves the new object into Room
    Kinds,      \* the kinds of value LPC code stores in a variable
    MaxOps,     \* calls LPC code makes besides the two below
    MaxDumps, MaxRestores, MaxCrashes

ASSUME StatedumpAssumption ==
    /\ Slots = 1..Cardinality(Slots)
    /\ {Master, Room} \subseteq Files /\ Entering \subseteq Files
    /\ Kinds \subseteq {"int", "obj", "arr", "clo", "wide"}

VARIABLES
    w,          \* the objects in memory
    disk,       \* the statedump file, a sequence of tokens
    job,        \* the restore_state() call under way
    snap,       \* ghost: the world the last dump_state() saw, and if it returned
    owed,       \* ghost: the restored objects nobody has destructed
    ops         \* calls made of each bounded kind

vars == <<w, disk, job, snap, owed, ops>>

None == 0

----------------------------------------------------------------------------
(* Values *)

\* "wide" stands for what the format refuses: a mapping of several columns or
\* an unbound lambda.  "arr" stands for arrays and mappings.
Value(kind, ref, items) == [kind |-> kind, ref |-> ref, items |-> items]
Void == Value("void", None, <<>>)

ValueOf(kind, o) ==
    CASE kind \in {"int", "wide"} -> Value(kind, None, <<>>)
      [] kind = "obj" -> Value("obj", o, <<>>)
      [] kind = "arr" -> Value("arr", None, <<Value("int", None, <<>>),
                                              Value("obj", o, <<>>)>>)
      [] kind = "clo" -> Value("clo", o, <<Value("obj", o, <<>>)>>)

RECURSIVE Holds(_)
Holds(v) == (IF v.kind = "obj" THEN {v.ref} ELSE {})
            \cup UNION {Holds(v.items[i]) : i \in DOMAIN v.items}

\* v with every reference (every weak one only) replaced through f.
RECURSIVE Mapped(_, _)
Mapped(v, f) ==
    [v EXCEPT !.ref = IF @ = None THEN None ELSE f[@],
              !.items = [i \in DOMAIN @ |-> Mapped(@[i], f)]]

RECURSIVE Expired(_, _)
Expired(v, gone) ==
    [v EXCEPT !.ref = IF v.kind = "clo" /\ @ \in gone THEN None ELSE @,
              !.items = [i \in DOMAIN @ |-> Expired(@[i], gone)]]

----------------------------------------------------------------------------
(* The objects in memory *)

Blank == [file |-> Master, clone |-> FALSE, env |-> None, inv |-> <<>>,
          var |-> Void, life |-> "free"]

Live(u) == {o \in Slots : u.obj[o].life = "live"}

\* Nobody holds the object: ObjectManager::loaded_, restoredObjects_, an
\* inventory, a variable, or a local of the C++ code.
Unheld(u, held) ==
    {o \in Slots : /\ u.obj[o].life # "free"
                   /\ o \notin held \cup u.kept \cup Range(u.loaded)
                   /\ \A p \in Slots : /\ o \notin Range(u.obj[p].inv)
                                       /\ o \notin Holds(u.obj[p].var)}

RECURSIVE Collect(_, _)
Collect(u, held) ==
    LET gone == Unheld(u, held) IN
    IF gone = {} THEN u
    ELSE Collect([u EXCEPT
           !.obj = [o \in Slots |->
                      IF o \in gone THEN Blank
                      ELSE [u.obj[o] EXCEPT !.env = IF @ \in gone THEN None ELSE @,
                                            !.var = Expired(@, gone)]],
           !.reg = SelectSeq(@, LAMBDA o : o \notin gone)], held)

Without(seq, o) == SelectSeq(seq, LAMBDA p : p # o)

moveObject(u, item, dest) ==
    IF item = dest \/ {item, dest} \cap Live(u) # {item, dest} THEN u
    ELSE LET old == u.obj[item].env
             out == IF old = None THEN u
                    ELSE [u EXCEPT !.obj[old].inv = Without(@, item)]
         IN  [out EXCEPT !.obj[item].env = dest, !.obj[dest].inv = Append(@, item)]

FreeSlots(u) == {o \in Slots : u.obj[o].life = "free"}
NewSlot(u) == CHOOSE o \in FreeSlots(u) : \A p \in FreeSlots(u) : o <= p

\* A new object with its create(), which may move it into the loaded Room and
\* may throw.  The caller still holds it.
Created(u, o, file, clone) ==
    LET new  == [u EXCEPT !.obj[o] = [Blank EXCEPT !.file = file, !.clone = clone,
                                                   !.life = "live"],
                          !.reg = Append(@, o),
                          !.loaded[file] = IF clone THEN @ ELSE o]
    IN  IF file \in Entering /\ new.loaded[Room] # None
        THEN moveObject(new, o, new.loaded[Room]) ELSE new

loadObject(u, o, file, throws) ==
    LET new == Created(u, o, file, FALSE)
    IN  IF throws THEN [new EXCEPT !.loaded[file] = None] ELSE new

cloneObject(u, o, file) == Created(u, o, file, TRUE)

destructObject(u, o) ==
    LET env == u.obj[o].env
        out == IF env = None THEN u ELSE [u EXCEPT !.obj[env].inv = Without(@, o)]
    IN  [out EXCEPT !.obj[o].life = "destructed", !.obj[o].env = None,
                    !.reg = Without(@, o), !.kept = @ \ {o},
                    !.loaded[u.obj[o].file] = None]

\* Mutant: the table is dropped when the call returns.
RetainsNothing(u, objs) == u

retainRestoredObjects(u, objs) == [u EXCEPT !.kept = @ \cup objs]

EmptyWorld == [obj |-> [o \in Slots |-> Blank], reg |-> <<>>,
               loaded |-> [f \in Files |-> None], kept |-> {}]

\* What a process has when it has booted: the master object.
FreshWorld == loadObject(EmptyWorld, 1, Master, FALSE)

----------------------------------------------------------------------------
(* Writing *)

\* The index of each live object in LiveObjectRegistry::all(), None for others.
IdTable(u) == [o \in Slots |-> IF o \in Range(u.reg)
                               THEN CHOOSE i \in DOMAIN u.reg : u.reg[i] = o ELSE None]

IdOf(ids, o) == IF o = None THEN None ELSE ids[o]

\* What is written of a value, and whether the writer got to its end.
RECURSIVE serializeWorldValue(_, _)
serializeWorldValue(v, ids) ==
    LET Head1 == [tok |-> "value", kind |-> v.kind, ref |-> IdOf(ids, v.ref),
                  n |-> Len(v.items)]
        Add(acc, item) ==
            IF ~acc.ok THEN acc
            ELSE LET part == serializeWorldValue(item, ids)
                 IN  [toks |-> acc.toks \o part.toks, ok |-> part.ok]
    IN  IF v.kind = "wide" \/ (v.kind = "obj" /\ IdOf(ids, v.ref) = None)
        THEN [toks |-> <<>>, ok |-> FALSE]
        ELSE FoldLeft(Add, [toks |-> <<Head1>>, ok |-> TRUE], v.items)

\* One placement entry.  listed is the size of the inventory, inv the ids that
\* are written: an item that is not in the table is skipped.
PlacementEntry(u, o, ids) ==
    [tok |-> "entry", id |-> ids[o], clone |-> u.obj[o].clone,
     env |-> IdOf(ids, u.obj[o].env), listed |-> Len(u.obj[o].inv),
     inv |-> SelectSeq([i \in DOMAIN u.obj[o].inv |-> ids[u.obj[o].inv[i]]],
                       LAMBDA i : i # None),
     file |-> u.obj[o].file]

\* The whole file, up to the first value that cannot be written.
Written(u) ==
    LET ids == IdTable(u)
        placed == [i \in DOMAIN u.reg |-> PlacementEntry(u, u.reg[i], ids)]
        Variables(acc, o) ==
            IF ~acc.ok THEN acc
            ELSE LET part == serializeWorldValue(u.obj[o].var, ids)
                 IN  [toks |-> Append(acc.toks, [tok |-> "vars", id |-> ids[o]]) \o part.toks,
                      ok |-> part.ok]
    IN  FoldLeft(Variables,
                 [toks |-> <<[tok |-> "magic"], [tok |-> "count", n |-> Len(u.reg)]>> \o placed,
                  ok |-> TRUE],
                 u.reg)

----------------------------------------------------------------------------
(* Reading *)

\* The value at pos, void at the end of the file, and where it ends.  A
\* reference to an id that is not in the table reads as void, an owner as none.
RECURSIVE deserializeWorldValue(_, _, _)
deserializeWorldValue(s, pos, table) ==
    IF pos > Len(s) THEN [v |-> Void, pos |-> pos]
    ELSE LET t == s[pos]
             Add(acc, i) == LET part == deserializeWorldValue(s, acc.pos, table)
                            IN  [v |-> [acc.v EXCEPT !.items = Append(@, part.v)],
                                 pos |-> part.pos]
             ref == IF t.ref \in DOMAIN table THEN table[t.ref] ELSE None
         IN  FoldLeft(Add,
                 [v |-> IF t.kind = "obj" /\ ref = None THEN Void
                        ELSE Value(t.kind, ref, <<>>),
                  pos |-> pos + 1],
                 [i \in 1..t.n |-> i])

HasMagic(s) == Len(s) > 0 /\ s[1].tok = "magic"

Entries(s) == SubSeq(s, 3, 2 + s[2].n)

\* The placement section can be read to its end; an entry that lists fewer
\* items than it counts makes the reader parse an empty number.
PlacementReadable(s) ==
    /\ Len(s) >= 2 /\ Len(s) >= 2 + s[2].n
    /\ \A i \in DOMAIN Entries(s) : Entries(s)[i].listed = Len(Entries(s)[i].inv)

----------------------------------------------------------------------------
(* LPC code at work *)

Idle == [phase |-> "idle", table |-> <<>>, pos |-> 0, next |-> 0]

Calm == job.phase \in {"idle", "refused", "thrown", "done"}

Does(u) ==
    /\ w' = Collect(u, {})
    /\ job' = Idle
    /\ UNCHANGED <<disk, snap>>

Op == Calm /\ ops.op < MaxOps /\ ops' = [ops EXCEPT !.op = @ + 1]

Load(f) ==
    /\ Op /\ w.loaded[f] = None /\ FreeSlots(w) # {}
    /\ Does(loadObject(w, NewSlot(w), f, FALSE))
    /\ UNCHANGED owed

\* o = clone_object(f) in an object that keeps the result in its variable.
Clone(by, f) ==
    /\ Op /\ by \in Live(w) /\ FreeSlots(w) # {}
    /\ Does([cloneObject(w, NewSlot(w), f) EXCEPT !.obj[by].var = ValueOf("obj", NewSlot(w))])
    /\ UNCHANGED owed

Move(item, dest) ==
    /\ Op /\ item # dest /\ {item, dest} \subseteq Live(w)
    /\ Does(moveObject(w, item, dest))
    /\ UNCHANGED owed

Store(by, kind, o) ==
    /\ Op /\ {by, o} \subseteq Live(w)
    /\ Does([w EXCEPT !.obj[by].var = ValueOf(kind, o)])
    /\ UNCHANGED owed

Destruct(o) ==
    /\ Op /\ o \in Live(w)
    /\ Does(destructObject(w, o))
    /\ owed' = owed \ {o}

----------------------------------------------------------------------------
(* dump_state() *)

\* The file is truncated and rewritten in place; an error leaves the part that
\* was written before it.
Dump ==
    /\ Calm /\ ops.dump < MaxDumps
    /\ ops' = [ops EXCEPT !.dump = @ + 1]
    /\ LET out == Written(w) IN
          /\ disk' = out.toks
          /\ snap' = [world |-> w, whole |-> out.ok]
    /\ job' = Idle
    /\ UNCHANGED <<w, owed>>

\* The process dies inside dump_state(): some prefix has reached the disk.
CrashInDump ==
    /\ Calm /\ ops.dump < MaxDumps /\ ops.crash < MaxCrashes
    /\ ops' = [ops EXCEPT !.dump = @ + 1, !.crash = @ + 1]
    /\ LET out == Written(w) IN
          \E n \in 0..Len(out.toks) :
             /\ disk' = SubSeq(out.toks, 1, n)
             /\ snap' = [world |-> w, whole |-> out.ok /\ n = Len(out.toks)]
    /\ w' = FreshWorld /\ owed' = {} /\ job' = Idle

\* The process ends at any other moment and boots again.
Reboot ==
    /\ ops.crash < MaxCrashes
    /\ ops' = [ops EXCEPT !.crash = @ + 1]
    /\ w' = FreshWorld /\ owed' = {} /\ job' = Idle
    /\ UNCHANGED <<disk, snap>>

----------------------------------------------------------------------------
(* restore_state() *)

Ends(phase) == [Idle EXCEPT !.phase = phase]

StartRestore ==
    /\ Calm /\ ops.restore < MaxRestores
    /\ ops' = [ops EXCEPT !.restore = @ + 1]
    /\ job' = IF ~HasMagic(disk) THEN Ends("refused")
              ELSE IF ~PlacementReadable(disk) THEN Ends("thrown")
              ELSE [phase |-> "make", table |-> <<>>, pos |-> 3 + disk[2].n, next |-> 1]
    /\ UNCHANGED <<w, disk, snap, owed>>

Table == Range(job.table)

\* Pass 1, one object: a clone is cloned again, a blueprint is looked up among
\* the loaded ones or loaded.  A create() that throws ends the call.
MakeObject(throws) ==
    /\ job.phase = "make" /\ job.next <= Len(Entries(disk))
    /\ LET e     == Entries(disk)[job.next]
           found == IF e.clone THEN None ELSE w.loaded[e.file]
           Put(u, o) == /\ w' = Collect(u, Table \cup {o})
                        /\ job' = [job EXCEPT !.table = Append(@, o), !.next = @ + 1]
       IN  \/ /\ found # None /\ ~throws
              /\ Put(w, found)
           \/ /\ found = None /\ FreeSlots(w) # {}
              /\ LET o == NewSlot(w)
                     u == IF e.clone THEN cloneObject(w, o, e.file)
                          ELSE loadObject(w, o, e.file, throws)
                 IN  \/ ~throws /\ Put(u, o)
                     \/ throws /\ w' = Collect(u, {}) /\ job' = Ends("thrown")
    /\ UNCHANGED <<disk, snap, owed, ops>>

\* Every object made is retained; then each entry is placed: the environment
\* only if it had one, the inventory always.
\* Mutant: the old contents stay, so what create() moved in is listed twice.
PlacedOnTop(u, e, table) ==
    [u EXCEPT !.obj[table[e.id]].env = IF e.env = None THEN @ ELSE table[e.env],
              !.obj[table[e.id]].inv = @ \o [i \in DOMAIN e.inv |-> table[e.inv[i]]]]

Placed(u, e, table) ==
    [u EXCEPT !.obj[table[e.id]].env = IF e.env = None THEN @ ELSE table[e.env],
              !.obj[table[e.id]].inv = [i \in DOMAIN e.inv |-> table[e.inv[i]]]]

PlaceAll ==
    /\ job.phase = "make" /\ job.next > Len(Entries(disk))
    /\ LET u == FoldLeft(LAMBDA x, e : Placed(x, e, job.table),
                         retainRestoredObjects(w, Table), Entries(disk))
       IN  w' = Collect(u, Table)
    /\ owed' = owed \cup Table
    /\ job' = [job EXCEPT !.phase = "vars", !.next = 1]
    /\ UNCHANGED <<disk, snap, ops>>

\* Pass 2, one object: its header must be there, its values need not be.
RestoreVars ==
    /\ job.phase = "vars" /\ job.next <= Len(Entries(disk))
    /\ IF job.pos > Len(disk)
       THEN /\ job' = Ends("thrown")
            /\ w' = Collect(w, {})
       ELSE LET val == deserializeWorldValue(disk, job.pos + 1, job.table) IN
            /\ w' = Collect([w EXCEPT !.obj[job.table[disk[job.pos].id]].var = val.v], Table)
            /\ job' = [job EXCEPT !.next = @ + 1, !.pos = val.pos]
    /\ UNCHANGED <<disk, snap, owed, ops>>

RestoreReturns ==
    /\ job.phase = "vars" /\ job.next > Len(Entries(disk))
    /\ w' = Collect(w, {})
    /\ job' = [Ends("done") EXCEPT !.table = job.table]
    /\ UNCHANGED <<disk, snap, owed, ops>>

----------------------------------------------------------------------------
Init ==
    /\ w = FreshWorld
    /\ disk = <<>>
    /\ job = Idle
    /\ snap = [world |-> FreshWorld, whole |-> FALSE]
    /\ owed = {}
    /\ ops = [op |-> 0, dump |-> 0, restore |-> 0, crash |-> 0]

Next ==
    \/ \E f \in Files : Load(f)
    \/ \E by \in Slots, f \in Files : Clone(by, f)
    \/ \E item, dest \in Slots : Move(item, dest)
    \/ \E by, o \in Slots, kind \in Kinds : Store(by, kind, o)
    \/ \E o \in Slots : Destruct(o)
    \/ Dump \/ CrashInDump \/ Reboot
    \/ StartRestore \/ (\E throws \in BOOLEAN : MakeObject(throws))
    \/ PlaceAll \/ RestoreVars \/ RestoreReturns

Spec == Init /\ [][Next]_vars

----------------------------------------------------------------------------
(* Properties *)

\* Blueprints are found again by their filename: two of them in one dump (the
\* first replaced in loaded_ while something still holds it) become one object.
DistinctBlueprints(u) ==
    \A o, p \in Live(u) : o # p /\ ~u.obj[o].clone /\ ~u.obj[p].clone
                          => u.obj[o].file # u.obj[p].file

\* restore_state() returned 1 from a dump that dump_state() finished: whatever
\* create() did to the new objects meanwhile, each has the inventory, the
\* environment (if it had one) and the variable of the object it stands for,
\* every reference leading to the one object made for its target.
RestoredAsDumped ==
    job.phase = "done" /\ snap.whole /\ DistinctBlueprints(snap.world) =>
        LET u == snap.world
            New(o) == IF o \in Range(u.reg) THEN job.table[IdTable(u)[o]] ELSE None
            new == [o \in Slots |-> New(o)]
        IN  \A o \in Range(u.reg) :
              LET was == u.obj[o]
                  now == w.obj[new[o]]
              IN  /\ now.life = "live" /\ now.file = was.file /\ now.clone = was.clone
                  /\ now.inv = [i \in DOMAIN was.inv |-> new[was.inv[i]]]
                  /\ was.env \in Range(u.reg) => now.env = new[was.env]
                  /\ now.var = Mapped(was.var, new)

\* A restored object lives until somebody destructs it, even if nothing in the
\* restored world refers to it.
RestoredStayAlive == owed \subseteq Live(w)

=============================================================================
