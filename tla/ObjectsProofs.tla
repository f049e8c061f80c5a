--------------------------- MODULE ObjectsProofs ---------------------------
(***************************************************************************)
(* The object table and the containment tree, for any objects and paths    *)
(* and any nesting of loads, clones and compile_object() calls.            *)
(***************************************************************************)
EXTENDS Objects, SequenceTheorems, TLAPS

-----------------------------------------------------------------------------
(* Calls in progress. *)

FramesOK == frames \in Seq(Frame) /\ Len(frames) <= MaxFrames /\ VirtualOnce

\* Entering a call: only a second compile_object() for a path would do harm.
LEMMA PushFrames ==
    ASSUME FramesOK, Room, NEW k \in Kind, NEW o \in Obj \union {None}, NEW f \in File,
           k = "virtual" => f \notin VirtualCompiling, Push(k, o, f)
    PROVE  FramesOK'
  <1> DEFINE fr == [kind |-> k, ob |-> o, file |-> f]
  <1>1. fr \in Frame
    BY DEF Frame
  <1>2. /\ frames' \in Seq(Frame) /\ Len(frames') = Len(frames) + 1
        /\ frames'[Len(frames) + 1] = fr
        /\ \A i \in 1..Len(frames) : frames'[i] = frames[i]
    BY <1>1 DEF FramesOK, Push
  <1>3. Len(frames') <= MaxFrames
    BY <1>2, BoundAssumption DEF FramesOK, Room
  <1>4. VirtualOnce'
    <2> SUFFICES ASSUME NEW i \in DOMAIN frames', NEW j \in DOMAIN frames', i # j,
                        frames'[i].kind = "virtual", frames'[j].kind = "virtual"
                 PROVE  frames'[i].file # frames'[j].file
      BY DEF VirtualOnce
    <2>1. DOMAIN frames' = 1..(Len(frames) + 1) /\ DOMAIN frames = 1..Len(frames) /\ Len(frames) \in Nat
      BY <1>2 DEF FramesOK
    <2>2. CASE i \in 1..Len(frames) /\ j \in 1..Len(frames)
      BY <2>1, <2>2, <1>2 DEF FramesOK, VirtualOnce
    <2>3. CASE i = Len(frames) + 1
      <3>1. j \in DOMAIN frames /\ frames'[j] = frames[j] /\ frames'[i] = fr
        BY <2>1, <2>3, <1>2
      <3>2. frames[j].file \in VirtualCompiling
        BY <3>1 DEF VirtualCompiling
      <3> QED BY <3>1, <3>2
    <2>4. CASE j = Len(frames) + 1
      <3>1. i \in DOMAIN frames /\ frames'[i] = frames[i] /\ frames'[j] = fr
        BY <2>1, <2>4, <1>2
      <3>2. frames[i].file \in VirtualCompiling
        BY <3>1 DEF VirtualCompiling
      <3> QED BY <3>1, <3>2
    <2> QED BY <2>1, <2>2, <2>3, <2>4
  <1> QED BY <1>2, <1>3, <1>4 DEF FramesOK

\* The innermost call is a call.
LEMMA TopFrame ==
    ASSUME FramesOK, frames # <<>>
    PROVE  Top \in Frame /\ Top.kind \in Kind /\ Top.file \in File
  <1>1. frames \in Seq(Frame) /\ Len(frames) \in Nat /\ Len(frames) # 0
    BY DEF FramesOK
  <1>2. Len(frames) \in 1..Len(frames)
    BY <1>1
  <1>3. frames[Len(frames)] \in Frame
    BY <1>1, <1>2, ElementOfSeq
  <1> QED BY <1>3 DEF Top, Frame

\* Leaving the innermost call.
LEMMA PopFrames ==
    ASSUME FramesOK, frames # <<>>, Pop
    PROVE  FramesOK'
  <1>1. Len(frames) \in Nat \ {0} /\ Len(frames) - 1 \in Nat
    BY DEF FramesOK
  <1>2. /\ frames' \in Seq(Frame) /\ Len(frames') = Len(frames) - 1
        /\ \A i \in 1..(Len(frames) - 1) : frames'[i] = frames[i]
    <2>1. frames \in Seq(Frame)
      BY DEF FramesOK
    <2>2. \A i \in 1..(Len(frames) - 1) : frames[i] \in Frame
      BY <1>1, <2>1, ElementOfSeq
    <2>3. frames' = SubSeq(frames, 1, Len(frames) - 1)
      BY DEF Pop
    <2> DEFINE n == Len(frames) - 1
    <2>4. n \in Int /\ 1 \in Int /\ n >= 0
      BY <1>1
    <2> HIDE DEF n
    <2>5. /\ SubSeq(frames, 1, n) \in Seq(Frame)
          /\ Len(SubSeq(frames, 1, n)) = IF 1 <= n THEN n - 1 + 1 ELSE 0
          /\ \A i \in 1..(n - 1 + 1) : SubSeq(frames, 1, n)[i] = frames[1 + i - 1]
      BY <2>2, <2>4, SubSeqProperties DEF n
    <2>6. /\ SubSeq(frames, 1, n) \in Seq(Frame) /\ Len(SubSeq(frames, 1, n)) = n
          /\ \A i \in 1..n : SubSeq(frames, 1, n)[i] = frames[i]
      BY <2>4, <2>5
    <2> QED BY <2>3, <2>6 DEF n
  <1>3. Len(frames') <= MaxFrames
    BY <1>1, <1>2, BoundAssumption DEF FramesOK
  <1>4. DOMAIN frames' = 1..(Len(frames) - 1) /\ DOMAIN frames = 1..Len(frames)
    BY <1>2 DEF FramesOK
  <1>5. VirtualOnce'
    <2> SUFFICES ASSUME NEW i \in DOMAIN frames', NEW j \in DOMAIN frames', i # j,
                        frames'[i].kind = "virtual", frames'[j].kind = "virtual"
                 PROVE  frames'[i].file # frames'[j].file
      BY DEF VirtualOnce
    <2>1. i \in DOMAIN frames /\ j \in DOMAIN frames /\ frames'[i] = frames[i] /\ frames'[j] = frames[j]
      BY <1>1, <1>2, <1>4
    <2> QED BY <2>1 DEF FramesOK, VirtualOnce
  <1> QED BY <1>2, <1>3, <1>5 DEF FramesOK

\* The part of TypeOK that is not about calls in progress.
StateOK ==
    /\ life \in [Obj -> {"unborn", "live", "destructed", "gone"}]
    /\ filename \in [Obj -> File \union {None}]
    /\ isClone \in [Obj -> BOOLEAN]
    /\ loaded \in [File -> Obj \union {None}]
    /\ listed \in SUBSET Obj
    /\ environment \in [Obj -> Obj \union {None}]
    /\ inventory \in [Obj -> SUBSET Obj]
    /\ sources \in SUBSET File /\ programs \in SUBSET File /\ disturbed \in SUBSET File
    /\ relinked \in SUBSET Obj
    /\ \A o \in Present : filename[o] \in File

LEMMA TypeParts == TypeOK <=> StateOK /\ FramesOK
  BY DEF TypeOK, StateOK, FramesOK

-----------------------------------------------------------------------------
(* Types. *)

LEMMA TypeStep == TypeOK /\ [Next]_vars => TypeOK'
  <1> SUFFICES ASSUME StateOK, FramesOK, [Next]_vars PROVE StateOK' /\ FramesOK'
    BY TypeParts DEF TypeOK, StateOK, FramesOK
  <1> USE NoneAssumption
  <1>1. ASSUME NEW o \in Obj, NEW f \in File, Load(o, f) PROVE StateOK' /\ FramesOK'
    <2>1. FramesOK'
      BY <1>1, PushFrames DEF Load, Kind
    <2>2. StateOK'
      BY <1>1 DEF Load, Compile, Create, StateOK, Present, world
    <2> QED BY <2>1, <2>2
  <1>2. ASSUME NEW o \in Obj, NEW f \in File, Clone(o, f) PROVE StateOK' /\ FramesOK'
    <2>1. FramesOK'
      BY <1>2, PushFrames DEF Clone, Kind
    <2>2. StateOK'
      BY <1>2 DEF Clone, Compile, Create, StateOK, Present, world
    <2> QED BY <2>1, <2>2
  <1>3. ASSUME NEW f \in File, AskVirtual(f) PROVE StateOK' /\ FramesOK'
    <2>1. FramesOK'
      BY <1>3, PushFrames DEF AskVirtual, Kind
    <2>2. StateOK'
      BY <1>3 DEF AskVirtual, StateOK, Present, table, world, disk
    <2> QED BY <2>1, <2>2
  <1>4. ASSUME NEW f \in File, EditSource(f) PROVE StateOK' /\ FramesOK'
    BY <1>4 DEF EditSource, StateOK, FramesOK, VirtualOnce, Present, table, world
  <1>5. ASSUME NEW o \in Obj, VirtualReturns(o) PROVE StateOK' /\ FramesOK'
    <2>1. FramesOK'
      BY <1>5, PopFrames DEF VirtualReturns
    <2>2. Top.file \in File
      BY <1>5, TopFrame DEF VirtualReturns
    <2>3. StateOK'
      BY <1>5, <2>2 DEF VirtualReturns, RebindFilename, StateOK, Present, world, disk
    <2> QED BY <2>1, <2>3
  <1>6. ASSUME NEW o \in Obj, Destruct(o) PROVE StateOK' /\ FramesOK'
    BY <1>6 DEF Destruct, LeaveEnvironment, StateOK, FramesOK, VirtualOnce, Live, Present, disk
  <1>7. ASSUME NEW o \in Obj, Free(o) PROVE StateOK' /\ FramesOK'
    BY <1>7 DEF Free, StateOK, FramesOK, VirtualOnce, Present, disk
  <1>8. CASE CreateReturns
    <2>1. FramesOK'
      BY <1>8, PopFrames DEF CreateReturns
    <2>2. StateOK'
      BY <1>8 DEF CreateReturns, StateOK, Present, table, world, disk
    <2> QED BY <2>1, <2>2
  <1>9. CASE CreateThrows
    <2>1. FramesOK'
      BY <1>9, PopFrames DEF CreateThrows
    <2>2. Top.file \in File
      BY <1>9, TopFrame DEF CreateThrows
    <2>3. StateOK'
      BY <1>9, <2>2 DEF CreateThrows, StateOK, Present, world, disk
    <2> QED BY <2>1, <2>3
  <1>10. CASE VirtualRefused
    <2>1. FramesOK'
      BY <1>10, PopFrames DEF VirtualRefused
    <2>2. StateOK'
      BY <1>10 DEF VirtualRefused, StateOK, Present, table, world, disk
    <2> QED BY <2>1, <2>2
  <1>11. ASSUME NEW item \in Obj, NEW dest \in Obj \union {None}, MoveObject(item, dest)
         PROVE  StateOK' /\ FramesOK'
    BY <1>11 DEF MoveObject, Relink, LeaveEnvironment, StateOK, FramesOK, VirtualOnce, Present, table, disk
  <1>12. ASSUME NEW item \in Obj, NEW dest \in Obj \union {None}, SetEnvironment(item, dest)
         PROVE  StateOK' /\ FramesOK'
    BY <1>12 DEF SetEnvironment, Relink, LeaveEnvironment, StateOK, FramesOK, VirtualOnce, Present, table, disk
  <1>13. CASE UNCHANGED vars
    BY <1>13 DEF vars, StateOK, FramesOK, VirtualOnce, Present
  <1> QED BY <1>1, <1>2, <1>3, <1>4, <1>5, <1>6, <1>7, <1>8, <1>9, <1>10, <1>11, <1>12, <1>13 DEF Next

\* TypeOK holds initially.
LEMMA TypeInit == Init => TypeOK
  BY NoneAssumption, BoundAssumption DEF Init, TypeOK, VirtualOnce, Present

\* Types, for any objects and paths: in particular no path is asked of
\* compile_object() while it is being asked already.
THEOREM ObjectTypes == Spec => []TypeOK
  BY TypeInit, TypeStep, PTL DEF Spec

-----------------------------------------------------------------------------
(* Lookups. *)

LEMMA LookupStep == FreshVirtual /\ TypeOK /\ LookupSound /\ [Next]_vars => LookupSound'
  <1> SUFFICES ASSUME FreshVirtual, TypeOK, LookupSound, [Next]_vars,
                      NEW g \in File, loaded'[g] # None
               PROVE  loaded'[g] \in Live' /\ filename'[loaded'[g]] = g
    BY DEF LookupSound
  <1> USE NoneAssumption DEF TypeOK, LookupSound, Live
  <1>1. ASSUME NEW o \in Obj, NEW f \in File, Load(o, f)
        PROVE  loaded'[g] \in Live' /\ filename'[loaded'[g]] = g
    BY <1>1 DEF Load, Create
  <1>2. ASSUME NEW o \in Obj, NEW f \in File, Clone(o, f)
        PROVE  loaded'[g] \in Live' /\ filename'[loaded'[g]] = g
    BY <1>2 DEF Clone, Create
  <1>3. ASSUME NEW f \in File, AskVirtual(f) \/ EditSource(f)
        PROVE  loaded'[g] \in Live' /\ filename'[loaded'[g]] = g
    BY <1>3 DEF AskVirtual, EditSource, table
  <1>4. ASSUME NEW o \in Obj, VirtualReturns(o)
        PROVE  loaded'[g] \in Live' /\ filename'[loaded'[g]] = g
    <2>1. Top.file \in File
      BY <1>4, TopFrame, TypeParts DEF VirtualReturns
    <2>2. o \in Live /\ \A f \in File : loaded[f] # o
      BY <1>4 DEF VirtualReturns, VirtualCandidate
    <2>3. CASE g = Top.file
      BY <1>4, <2>1, <2>2, <2>3 DEF VirtualReturns, RebindFilename
    <2>4. CASE g # Top.file
      BY <1>4, <2>1, <2>2, <2>4 DEF VirtualReturns, RebindFilename
    <2> QED BY <2>3, <2>4
  <1>5. ASSUME NEW o \in Obj, Destruct(o)
        PROVE  loaded'[g] \in Live' /\ filename'[loaded'[g]] = g
    <2>1. filename[o] \in File
      BY <1>5 DEF Destruct, Present
    <2>2. loaded'[g] = loaded[g] /\ g # filename[o]
      BY <1>5, <2>1 DEF Destruct
    <2> QED BY <1>5, <2>2 DEF Destruct
  <1>6. ASSUME NEW o \in Obj, Free(o)
        PROVE  loaded'[g] \in Live' /\ filename'[loaded'[g]] = g
    BY <1>6 DEF Free
  <1>7. ASSUME CreateReturns \/ VirtualRefused
        PROVE  loaded'[g] \in Live' /\ filename'[loaded'[g]] = g
    BY <1>7 DEF CreateReturns, VirtualRefused, table
  <1>8. ASSUME CreateThrows
        PROVE  loaded'[g] \in Live' /\ filename'[loaded'[g]] = g
    <2>1. Top.file \in File
      BY <1>8, TopFrame, TypeParts DEF CreateThrows
    <2> QED BY <1>8, <2>1 DEF CreateThrows
  <1>9. ASSUME NEW item \in Obj, NEW dest \in Obj \union {None},
               MoveObject(item, dest) \/ SetEnvironment(item, dest)
        PROVE  loaded'[g] \in Live' /\ filename'[loaded'[g]] = g
    BY <1>9 DEF MoveObject, SetEnvironment, table
  <1>10. CASE UNCHANGED vars
    BY <1>10 DEF vars
  <1> QED BY <1>1, <1>2, <1>3, <1>4, <1>5, <1>6, <1>7, <1>8, <1>9, <1>10 DEF Next

\* As long as compile_object() returns fresh clones, find_object() and
\* load_object() never hand out a destructed object or one of another name.
THEOREM LookupsSound ==
    ASSUME FreshVirtual
    PROVE  Spec => []LookupSound
  <1>1. Init => LookupSound
    BY DEF Init, LookupSound
  <1>2. TypeOK /\ LookupSound /\ [Next]_vars => LookupSound'
    BY LookupStep
  <1> QED BY <1>1, <1>2, ObjectTypes, PTL DEF Spec

-----------------------------------------------------------------------------
(* Blueprints. *)

LEMMA BlueprintStep == TypeOK /\ BlueprintsFound /\ [Next]_vars => BlueprintsFound'
  <1> SUFFICES ASSUME TypeOK, BlueprintsFound, [Next]_vars PROVE BlueprintsFound'
    OBVIOUS
  <1> USE NoneAssumption DEF TypeOK, BlueprintsFound, Live
  <1>1. ASSUME NEW o \in Obj, NEW f \in File, Load(o, f) PROVE BlueprintsFound'
    BY <1>1 DEF Load, Create, Present
  <1>2. ASSUME NEW o \in Obj, NEW f \in File, Clone(o, f) PROVE BlueprintsFound'
    BY <1>2 DEF Clone, Create
  <1>3. ASSUME NEW f \in File, AskVirtual(f) \/ EditSource(f) PROVE BlueprintsFound'
    BY <1>3 DEF AskVirtual, EditSource, table
  <1>4. ASSUME NEW o \in Obj, VirtualReturns(o) PROVE BlueprintsFound'
    <2>1. Top.file \in File
      BY <1>4, TopFrame, TypeParts DEF VirtualReturns
    <2>2. listed' = Live'
      BY <1>4 DEF VirtualReturns
    <2>3. ASSUME NEW p \in Live', ~isClone'[p], filename'[p] \notin disturbed'
          PROVE  loaded'[filename'[p]] = p
      <3>1. CASE p = o
        BY <1>4, <2>1, <2>3, <3>1 DEF VirtualReturns, RebindFilename
      <3>2. CASE p # o
        BY <1>4, <2>1, <2>3, <3>2 DEF VirtualReturns, RebindFilename, Present
      <3> QED BY <3>1, <3>2
    <2> QED BY <2>2, <2>3
  <1>5. ASSUME NEW o \in Obj, Destruct(o) PROVE BlueprintsFound'
    <2>1. filename[o] \in File
      BY <1>5 DEF Destruct, Present
    <2>2. listed' = Live'
      BY <1>5 DEF Destruct
    <2>3. ASSUME NEW p \in Live', ~isClone'[p], filename'[p] \notin disturbed'
          PROVE  loaded'[filename'[p]] = p
      <3>1. p \in Live /\ p # o /\ loaded[filename[p]] = p
        BY <1>5, <2>3 DEF Destruct
      <3>2. filename[p] # filename[o]
        BY <1>5, <2>1, <2>3, <3>1 DEF Destruct
      <3> QED BY <1>5, <3>1, <3>2 DEF Destruct
    <2> QED BY <2>2, <2>3
  <1>6. ASSUME NEW o \in Obj, Free(o) PROVE BlueprintsFound'
    BY <1>6 DEF Free
  <1>7. ASSUME CreateReturns \/ VirtualRefused PROVE BlueprintsFound'
    BY <1>7 DEF CreateReturns, VirtualRefused, table
  <1>8. ASSUME CreateThrows PROVE BlueprintsFound'
    <2>1. Top.file \in File
      BY <1>8, TopFrame, TypeParts DEF CreateThrows
    <2> QED BY <1>8, <2>1 DEF CreateThrows, Present
  <1>9. ASSUME NEW item \in Obj, NEW dest \in Obj \union {None},
               MoveObject(item, dest) \/ SetEnvironment(item, dest)
        PROVE  BlueprintsFound'
    BY <1>9 DEF MoveObject, SetEnvironment, table
  <1>10. CASE UNCHANGED vars
    BY <1>10 DEF vars
  <1> QED BY <1>1, <1>2, <1>3, <1>4, <1>5, <1>6, <1>7, <1>8, <1>9, <1>10 DEF Next

\* The registry lists exactly the live objects, and only the three recorded
\* events make a live blueprint unreachable under its path.
THEOREM BlueprintsStayFound == Spec => []BlueprintsFound
  <1>1. Init => BlueprintsFound
    BY DEF Init, BlueprintsFound, Live
  <1> QED BY <1>1, BlueprintStep, ObjectTypes, PTL DEF Spec

-----------------------------------------------------------------------------
(* Containment. *)

\* Nothing is in or around an object that is not there (any more).
AbsentEmpty ==
    /\ \A e \in Obj \ Present : inventory[e] = {}
    /\ \A o \in Obj : environment[o] \in Present \union {None}

ContainmentInv == ContainmentAgrees /\ AbsentEmpty

LEMMA ContainmentStep == TypeOK /\ ContainmentInv /\ [Next]_vars => ContainmentInv'
  <1> SUFFICES ASSUME TypeOK, ContainmentInv, [Next]_vars PROVE ContainmentInv'
    OBVIOUS
  <1> USE NoneAssumption DEF TypeOK, ContainmentInv, ContainmentAgrees, AbsentEmpty, Live, Present
  <1>1. ASSUME NEW o \in Obj, NEW f \in File, Load(o, f) \/ Clone(o, f) PROVE ContainmentInv'
    BY <1>1 DEF Load, Clone, Create, world
  <1>2. ASSUME UNCHANGED <<life, environment, inventory, relinked>> PROVE ContainmentInv'
    BY <1>2
  <1>3. ASSUME NEW o \in Obj, Destruct(o) PROVE ContainmentInv'
    BY <1>3 DEF Destruct, LeaveEnvironment
  <1>4. ASSUME NEW o \in Obj, Free(o) PROVE ContainmentInv'
    BY <1>4 DEF Free
  <1>5. ASSUME NEW item \in Obj, NEW dest \in Obj \union {None}, MoveObject(item, dest)
        PROVE  ContainmentInv'
    BY <1>5 DEF MoveObject, MayMove, Relink, LeaveEnvironment
  <1>6. ASSUME NEW item \in Obj, NEW dest \in Obj \union {None}, SetEnvironment(item, dest)
        PROVE  ContainmentInv'
    BY <1>6 DEF SetEnvironment, Relink, LeaveEnvironment
  <1>7. ASSUME NEW o \in Obj, VirtualReturns(o) PROVE ContainmentInv'
    BY <1>7, <1>2 DEF VirtualReturns, world
  <1>8. ASSUME NEW f \in File, AskVirtual(f) \/ EditSource(f) PROVE ContainmentInv'
    BY <1>8, <1>2 DEF AskVirtual, EditSource, world
  <1>9. ASSUME CreateReturns \/ CreateThrows \/ VirtualRefused PROVE ContainmentInv'
    BY <1>9, <1>2 DEF CreateReturns, CreateThrows, VirtualRefused, world
  <1>10. CASE UNCHANGED vars
    BY <1>10, <1>2 DEF vars
  <1> QED BY <1>1, <1>3, <1>4, <1>5, <1>6, <1>7, <1>8, <1>9, <1>10 DEF Next

\* environment() and inventory() never disagree, and only set_environment()
\* puts a destructed object anywhere.
THEOREM ContainmentStays == Spec => []ContainmentAgrees
  <1>1. Init => ContainmentInv
    BY DEF Init, ContainmentInv, ContainmentAgrees, AbsentEmpty, Present, Live
  <1>2. ContainmentInv => ContainmentAgrees
    BY DEF ContainmentInv
  <1> QED BY <1>1, <1>2, ContainmentStep, ObjectTypes, PTL DEF Spec
=============================================================================
