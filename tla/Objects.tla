------------------------------ MODULE Objects ------------------------------
(***************************************************************************)
(* The object table (ObjectManager) and the containment tree of LPC        *)
(* objects.  A blueprint is loaded from a path and entered in loaded_; a   *)
(* clone has its blueprint's path as filename() and is in no table; a      *)
(* virtual object is whatever the master's compile_object() returned for a *)
(* path without source, renamed to that path.                              *)
(*                                                                         *)
(* Every load, clone and compile_object() runs LPC in its middle, which    *)
(* loads, clones, moves and destructs again: `frames' is the C++ stack of  *)
(* the calls in progress.  The driver has booted; the master and simul_efun*)
(* objects are not among Obj.                                              *)
(***************************************************************************)
EXTENDS Naturals, Sequences

CONSTANTS
    Obj,            \* LpcObject instances
    File,           \* normalized paths
    FreshVirtual,   \* compile_object() returns a new clone, as the mudlib's does
    CreateMayFail,  \* may create() or an initializer throw?
    Loose,          \* bound: the objects LPC moves with set_environment()
    Editable,       \* bound: the paths whose source LPC writes and removes
    MaxFrames,      \* bound: loads, clones and compile_object() calls in progress
    None

ASSUME NoneAssumption  == None \notin Obj /\ None \notin File
ASSUME FlagsAssumption == {FreshVirtual, CreateMayFail} \subseteq BOOLEAN
ASSUME BoundAssumption == MaxFrames \in Nat \ {0} /\ Loose \subseteq Obj /\ Editable \subseteq File

VARIABLES
    life,         \* unborn, live, destructed (isDestructed()) or gone (freed)
    filename,     \* LpcObject::filename_
    isClone,      \* LpcObject::isClone_
    loaded,       \* ObjectManager::loaded_
    listed,       \* LiveObjectRegistry
    environment,  \* LpcObject::environment_, a weak pointer
    inventory,    \* LpcObject::inventory_
    sources,      \* paths with a source file on disk
    programs,     \* paths with an entry in programCache_
    frames,       \* calls in progress, innermost last
    disturbed,    \* history: paths whose table entry was taken from its blueprint
    relinked      \* history: destructed objects that LPC put somewhere again

vars == <<life, filename, isClone, loaded, listed, environment, inventory,
          sources, programs, frames, disturbed, relinked>>
table == <<loaded, filename, isClone, listed, disturbed>>
world == <<environment, inventory, relinked>>
disk  == <<sources, programs>>

Kind  == {"load", "clone", "virtual"}
Frame == [kind : Kind, ob : Obj \union {None}, file : File]

Live == {o \in Obj : life[o] = "live"}

\* Objects whose memory is still there.
Present == {o \in Obj : life[o] \in {"live", "destructed"}}

Init ==
    /\ life = [o \in Obj |-> "unborn"]
    /\ filename = [o \in Obj |-> None]
    /\ isClone = [o \in Obj |-> FALSE]
    /\ loaded = [f \in File |-> None]
    /\ listed = {}
    /\ environment = [o \in Obj |-> None]
    /\ inventory = [o \in Obj |-> {}]
    /\ sources \in SUBSET File
    /\ programs = {}
    /\ frames = <<>>
    /\ disturbed = {} /\ relinked = {}

-----------------------------------------------------------------------------
Room == Len(frames) < MaxFrames
Top  == frames[Len(frames)]
Push(kind, o, f) == frames' = Append(frames, [kind |-> kind, ob |-> o, file |-> f])
Pop  == frames' = SubSeq(frames, 1, Len(frames) - 1)

\* compile(f) succeeds: from the source, when there is one (it may also fail),
\* else from the last good program.  Inherited files are cached on the way.
Compile(f) ==
    /\ f \in sources \union programs
    /\ \E inherited \in SUBSET sources :
          programs' = programs \union (IF f \in sources THEN inherited \union {f} ELSE {})
    /\ UNCHANGED sources

\* make_shared<LpcObject>(filename, program), LiveObjectRegistry::add
Create(o, f, clone) ==
    /\ life[o] = "unborn"
    /\ life' = [life EXCEPT ![o] = "live"]
    /\ filename' = [filename EXCEPT ![o] = f]
    /\ isClone' = [isClone EXCEPT ![o] = clone]
    /\ listed' = listed \union {o}

\* loadObject(f) of a path with a source: the object is in the table before the
\* master's privs_file() and creator_file(), its initializers and its create()
\* run.
Load(o, f) ==
    /\ Room /\ loaded[f] = None /\ f \in sources
    /\ Compile(f)
    /\ Create(o, f, FALSE)
    /\ loaded' = [loaded EXCEPT ![f] = o]
    /\ Push("load", o, f)
    /\ UNCHANGED <<world, disturbed>>

\* Mutant: the clone is entered in the table.
CloneRegisters(o, f) ==
    /\ Room
    /\ Compile(f)
    /\ Create(o, f, TRUE)
    /\ loaded' = [loaded EXCEPT ![f] = o]
    /\ Push("clone", o, f)
    /\ UNCHANGED <<world, disturbed>>

\* cloneObject(f): the blueprint itself need not be loaded.
Clone(o, f) ==
    /\ Room
    /\ Compile(f)
    /\ Create(o, f, TRUE)
    /\ Push("clone", o, f)
    /\ UNCHANGED <<loaded, world, disturbed>>

\* The create() of the innermost load or clone returns.
CreateReturns ==
    /\ frames # <<>> /\ Top.kind # "virtual"
    /\ Pop
    /\ UNCHANGED <<life, table, world, disk>>

\* create() throws.  The object is not destructed: it stays listed, and any
\* room it has moved to keeps it.  loaded_.erase(filename) does not ask whom the
\* entry is for.
CreateThrows ==
    /\ CreateMayFail
    /\ frames # <<>> /\ Top.kind # "virtual"
    /\ Pop
    /\ \/ /\ Top.kind = "clone"
          /\ UNCHANGED <<loaded, disturbed>>
       \/ /\ Top.kind = "load"
          /\ loaded' = [loaded EXCEPT ![Top.file] = None]
          /\ disturbed' = disturbed \union {Top.file}
    /\ UNCHANGED <<life, filename, isClone, listed, world, disk>>

VirtualCompiling == {frames[i].file : i \in {j \in DOMAIN frames : frames[j].kind = "virtual"}}

\* loadObject(f) of a path without source asks the master's compile_object(),
\* unless it is already doing so for that path.
AskVirtual(f) ==
    /\ Room /\ loaded[f] = None /\ f \notin sources
    /\ f \notin VirtualCompiling
    /\ Push("virtual", None, f)
    /\ UNCHANGED <<life, table, world, disk>>

\* What compile_object() may return.  An object is not read through a variable
\* on the way, so it can be destructed.
VirtualCandidate(o) ==
    /\ o \in Present
    /\ FreshVirtual => o \in Live /\ isClone[o] /\ \A f \in File : loaded[f] # o

\* Mutant: the object keeps its own name.
KeepFilename(o, f) == UNCHANGED filename

RebindFilename(o, f) == filename' = [filename EXCEPT ![o] = f]

\* compile_object() returned o: it takes over the path, also from a blueprint
\* that LPC loaded there meanwhile.
VirtualReturns(o) ==
    /\ frames # <<>> /\ Top.kind = "virtual"
    /\ VirtualCandidate(o)
    /\ RebindFilename(o, Top.file)
    /\ loaded' = [loaded EXCEPT ![Top.file] = o]
    /\ disturbed' = IF loaded[Top.file] = None THEN disturbed ELSE disturbed \union {Top.file}
    /\ Pop
    /\ UNCHANGED <<life, isClone, listed, world, disk>>

\* compile_object() returned no object, or threw.
VirtualRefused ==
    /\ frames # <<>> /\ Top.kind = "virtual"
    /\ Pop
    /\ UNCHANGED <<life, table, world, disk>>

-----------------------------------------------------------------------------
\* The inventories once o has left its environment.
LeaveEnvironment(o) ==
    [e \in Obj |-> IF e = environment[o] THEN inventory[e] \ {o} ELSE inventory[e]]

\* destructObject(o): the contents stay where they are.  A shadow chain goes
\* down object by object, each of them through this.
Destruct(o) ==
    /\ o \in Live
    /\ life' = [life EXCEPT ![o] = "destructed"]
    /\ listed' = listed \ {o}
    /\ inventory' = LeaveEnvironment(o)
    /\ environment' = [environment EXCEPT ![o] = None]
    /\ loaded' = [loaded EXCEPT ![filename[o]] = None]
    /\ disturbed' = IF loaded[filename[o]] \in {None, o} THEN disturbed
                    ELSE disturbed \union {filename[o]}
    /\ UNCHANGED <<filename, isClone, disk, frames, relinked>>

\* Mutant: move_object() trusts its arguments.
MayMoveAny(item, dest) == item \in Present /\ dest \in Present /\ item # dest

\* The guard of moveObject().  Nothing keeps dest from being inside item.
MayMove(item, dest) == item \in Live /\ dest \in Live /\ item # dest

Relink(item, dest) ==
    /\ inventory' = [e \in Obj |->
          IF e = dest THEN LeaveEnvironment(item)[e] \union {item} ELSE LeaveEnvironment(item)[e]]
    /\ environment' = [environment EXCEPT ![item] = dest]

\* move_object(): the init() calls that follow are LPC.
MoveObject(item, dest) ==
    /\ MayMove(item, dest)
    /\ Relink(item, dest)
    /\ UNCHANGED <<life, table, disk, frames, relinked>>

\* set_environment(): no guard at all (this_object() and an argument evaluated
\* before a later one destructs it can be destructed); no destination unlinks.
SetEnvironment(item, dest) ==
    /\ item \in Present \intersect Loose /\ dest \in Present \union {None}
    /\ Relink(item, dest)
    /\ relinked' = IF item \in Live THEN relinked ELSE relinked \union {item}
    /\ UNCHANGED <<life, table, disk, frames>>

\* The last strong reference to o goes: the table, inventories and calls in
\* progress hold such references, weak ones to o read as none from now on.
Free(o) ==
    /\ o \in Present
    /\ \A f \in File : loaded[f] # o
    /\ \A e \in Obj : o \notin inventory[e]
    /\ \A i \in DOMAIN frames : frames[i].ob # o
    /\ life' = [life EXCEPT ![o] = "gone"]
    /\ listed' = listed \ {o}
    /\ inventory' = [inventory EXCEPT ![o] = {}]
    /\ environment' = [x \in Obj |-> IF x = o \/ environment[x] = o THEN None ELSE environment[x]]
    /\ UNCHANGED <<filename, isClone, loaded, disturbed, relinked, disk, frames>>

\* write_file() and rm() of a source file.
EditSource(f) ==
    /\ f \in Editable
    /\ sources' = IF f \in sources THEN sources \ {f} ELSE sources \union {f}
    /\ UNCHANGED <<life, table, world, programs, frames>>

Next ==
    \/ \E o \in Obj, f \in File : Load(o, f) \/ Clone(o, f)
    \/ \E f \in File : AskVirtual(f) \/ EditSource(f)
    \/ \E o \in Obj : VirtualReturns(o) \/ Destruct(o) \/ Free(o)
    \/ CreateReturns \/ CreateThrows \/ VirtualRefused
    \/ \E item \in Obj : \E dest \in Obj \union {None} :
          MoveObject(item, dest) \/ SetEnvironment(item, dest)

Spec == Init /\ [][Next]_vars

-----------------------------------------------------------------------------
\* virtualCompiling_ is a set: at most one compile_object() call per path.
VirtualOnce ==
    \A i, j \in DOMAIN frames :
       frames[i].kind = "virtual" /\ frames[j].kind = "virtual" /\ i # j
          => frames[i].file # frames[j].file

\* The table, the objects and the calls in progress have their types, and the
\* recursion guard of loadVirtualObject() admits one call per path.
TypeOK ==
    /\ life \in [Obj -> {"unborn", "live", "destructed", "gone"}]
    /\ filename \in [Obj -> File \union {None}]
    /\ isClone \in [Obj -> BOOLEAN]
    /\ loaded \in [File -> Obj \union {None}]
    /\ listed \in SUBSET Obj
    /\ environment \in [Obj -> Obj \union {None}]
    /\ inventory \in [Obj -> SUBSET Obj]
    /\ sources \in SUBSET File /\ programs \in SUBSET File /\ disturbed \in SUBSET File
    /\ relinked \in SUBSET Obj
    /\ frames \in Seq(Frame) /\ Len(frames) <= MaxFrames
    /\ \A o \in Present : filename[o] \in File
    /\ VirtualOnce

\* What find_object(f) returns is named f and is not destructed, so a path can
\* never be stuck on a dead object: destruct() erases the entry of the name the
\* object has at that moment, and loadVirtualObject() changes names.
LookupSound == \A f \in File : loaded[f] # None => loaded[f] \in Live /\ filename[loaded[f]] = f

\* objects(), livings(), children() and the reset()/clean_up() sweep see exactly
\* the objects that exist and a live blueprint is found under its path, unless
\* one of three things took its entry: a namesake was destructed, a create() at
\* its path threw, or compile_object() returned while it was being loaded.
BlueprintsFound ==
    /\ listed = Live
    /\ \A o \in Live : ~isClone[o] /\ filename[o] \notin disturbed => loaded[filename[o]] = o

\* The two directions of containment agree: an object is in the inventory of
\* its environment and of no other object, whatever order moves, destructs and
\* the end of destructed containers come in; a destructed object is in none,
\* unless set_environment() put it there.
ContainmentAgrees ==
    /\ \A e \in Present, o \in Obj : o \in inventory[e] <=> environment[o] = e
    /\ \A e \in Obj : inventory[e] \subseteq Live \union relinked

=============================================================================
