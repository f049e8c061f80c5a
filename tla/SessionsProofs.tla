--------------------------- MODULE SessionsProofs ---------------------------
(***************************************************************************)
(* Proofs, for any number of objects, connections and lines.               *)
(*                                                                         *)
(* NoDangling becomes inductive together with where the loop stands:       *)
(* `listed' holds live connections only, the connection being handled is   *)
(* listed, the one being set up is not.  The snoop links are inductive on  *)
(* top of that: every operation cuts both ends of the links it cuts.       *)
(* Registered and NoInertSession hold for mudlibs that give an object one  *)
(* connection (and, the second, do not shadow interactive objects).        *)
(* InputToScoped, IdleRegistryLive and NetDeadOnce follow from where a     *)
(* handler, a binding and a notification can be in each phase of the poll. *)
(***************************************************************************)
EXTENDS Sessions, TLAPS

Live == {"open", "eof", "closed"}

\* A connection that does not exist is bound to nothing.
GoneUnbound == \A c \in Conns : status[c] \notin Live => bound[c] = None

\* Which connection the loop is working on.
LoopPosition ==
    /\ \A c \in listed : status[c] \in Live
    /\ pc \in {"connect", "logon"} => at \in Conns /\ at \notin listed /\ status[at] \in Live
    /\ pc \in {"option", "lines", "line", "net_dead"} => at \in listed

RegistrySound == \A o \in Objects : interactive[o] # None => bound[interactive[o]] = o

PointerInv == TypeOK /\ GoneUnbound /\ LoopPosition /\ RegistrySound

-----------------------------------------------------------------------------
LEMMA NoneFresh == None \notin Objects /\ None \notin Conns
  BY NoneAssumption, BoundAssumption DEF Conns

LEMMA AtExists == ASSUME PointerInv, OnBehalf
                  PROVE  at \in Conns /\ status[at] \in Live
  BY DEF PointerInv, LoopPosition, OnBehalf, TypeOK

LEMMA PointerInvSuffices == ASSUME PointerInv PROVE NoDangling
<1>1. ASSUME NEW o \in Objects, interactive[o] # None
      PROVE  bound[interactive[o]] = o /\ status[interactive[o]] \notin {"none", "freed"}
  <2>1. interactive[o] \in Conns /\ bound[interactive[o]] = o
    BY <1>1 DEF PointerInv, TypeOK, RegistrySound
  <2>2. status[interactive[o]] \in Live
    BY <2>1, NoneFresh DEF PointerInv, GoneUnbound
  <2> QED  BY <2>1, <2>2 DEF Live
<1>2. OnBehalf => status[at] \notin {"none", "freed"}
  BY AtExists DEF Live
<1> QED  BY <1>1, <1>2 DEF NoDangling

LEMMA UnregisterType == ASSUME TypeOK, NEW S
                        PROVE  Unregister(S) \in [Objects -> Conns \union {None}]
  BY DEF TypeOK, Unregister

\* attach() keeps the registry sound whatever the object was bound to before.
LEMMA AttachSound ==
    ASSUME TypeOK, RegistrySound, NEW c \in Conns, NEW o \in Objects, Attach(c, o)
    PROVE  /\ bound' \in [Conns -> Objects \union {None}]
           /\ interactive' \in [Objects -> Conns \union {None}]
           /\ RegistrySound'
<1> DEFINE rest == Unregister({bound[c]})
<1>1. rest \in [Objects -> Conns \union {None}]
  BY UnregisterType
<1>2. /\ bound' = [bound EXCEPT ![c] = o]
      /\ interactive' = [rest EXCEPT ![o] = IF rest[o] = None THEN c ELSE rest[o]]
  BY DEF Attach
<1>3. bound' \in [Conns -> Objects \union {None}]
  BY <1>2 DEF TypeOK
<1>4. interactive' \in [Objects -> Conns \union {None}]
  BY <1>1, <1>2
<1>5. ASSUME NEW x \in Objects, rest[x] # None
      PROVE  rest[x] = interactive[x] /\ rest[x] \in Conns /\ rest[x] # c /\ bound[rest[x]] = x
  BY <1>1, <1>5 DEF Unregister, RegistrySound, TypeOK
<1>6. ASSUME NEW x \in Objects, interactive'[x] # None PROVE bound'[interactive'[x]] = x
  <2> HIDE DEF rest
  <2>1. CASE x = o /\ rest[x] = None
    BY <2>1, <1>1, <1>2, <1>3 DEF TypeOK
  <2>2. CASE x = o /\ rest[x] # None
    BY <2>2, <1>1, <1>2, <1>5 DEF TypeOK
  <2>3. CASE x # o
    BY <2>3, <1>1, <1>2, <1>5, <1>6 DEF TypeOK
  <2> QED  BY <2>1, <2>2, <2>3
<1> QED  BY <1>3, <1>4, <1>6 DEF RegistrySound

\* So does closing, of any set of connections.
LEMMA CloseSound ==
    ASSUME TypeOK, RegistrySound, NEW C \in SUBSET Conns,
           bound' = [c \in Conns |-> IF c \in C THEN None ELSE bound[c]],
           interactive' = Unregister(BoundTo(C))
    PROVE  /\ bound' \in [Conns -> Objects \union {None}]
           /\ interactive' \in [Objects -> Conns \union {None}]
           /\ RegistrySound'
<1>1. interactive' \in [Objects -> Conns \union {None}]
  BY UnregisterType
<1>2. bound' \in [Conns -> Objects \union {None}]
  BY DEF TypeOK
<1>3. ASSUME NEW x \in Objects, interactive'[x] # None PROVE bound'[interactive'[x]] = x
  <2>1. x \notin BoundTo(C) /\ interactive'[x] = interactive[x] /\ interactive[x] \in Conns
    BY <1>3 DEF Unregister, TypeOK
  <2>2. bound[interactive[x]] = x
    BY <1>3, <2>1 DEF RegistrySound
  <2>3. interactive[x] \notin C
    BY <2>1, <2>2, NoneFresh DEF BoundTo
  <2> QED  BY <2>1, <2>2, <2>3
<1> QED  BY <1>1, <1>2, <1>3 DEF RegistrySound

\* A close marks its connections and touches no other part of the loop's state.
LEMMA StatusType ==
    ASSUME TypeOK, NEW C \in SUBSET Conns, NEW st \in {"closed", "freed"},
           status' = [c \in Conns |-> IF c \in C THEN st ELSE status[c]]
    PROVE  status' \in [Conns -> {"none", "open", "eof", "closed", "freed"}]
  BY DEF TypeOK

LEMMA LinksType ==
    ASSUME TypeOK, NEW A, NEW B,
           snooping' = [o \in Objects |-> IF o \in A THEN None ELSE snooping[o]],
           snoopedBy' = [o \in Objects |-> IF o \in B THEN None ELSE snoopedBy[o]]
    PROVE  /\ snooping' \in [Objects -> Objects \union {None}]
           /\ snoopedBy' \in [Objects -> Objects \union {None}]
  BY DEF TypeOK

\* What close() leaves behind for a set of connections that exist.
LEMMA CloseAllSound ==
    ASSUME PointerInv, NEW C \in SUBSET Conns, NEW st \in {"closed", "freed"}, CloseAll(C, st)
    PROVE  /\ status' \in [Conns -> {"none", "open", "eof", "closed", "freed"}]
           /\ bound' \in [Conns -> Objects \union {None}]
           /\ interactive' \in [Objects -> Conns \union {None}]
           /\ snooping' \in [Objects -> Objects \union {None}]
           /\ snoopedBy' \in [Objects -> Objects \union {None}]
           /\ RegistrySound' /\ GoneUnbound'
<1>1. /\ bound' \in [Conns -> Objects \union {None}]
      /\ interactive' \in [Objects -> Conns \union {None}]
      /\ RegistrySound'
  BY CloseSound DEF CloseAll, PointerInv
<1>2. status' \in [Conns -> {"none", "open", "eof", "closed", "freed"}]
  BY StatusType DEF CloseAll, PointerInv
<1>3. /\ snooping' \in [Objects -> Objects \union {None}]
      /\ snoopedBy' \in [Objects -> Objects \union {None}]
  BY DEF CloseAll, PointerInv, TypeOK
<1>4. GoneUnbound'
  BY DEF CloseAll, PointerInv, GoneUnbound, TypeOK
<1> QED  BY <1>1, <1>2, <1>3, <1>4

\* Every operation LPC can call keeps the raw pointers safe.
LEMMA LpcKeepsPointers == ASSUME PointerInv, Lpc PROVE PointerInv'
<1> USE DEF conns, links, loop
<1>1. ASSUME NEW o \in Objects, Exec(o) PROVE PointerInv'
  <2>1. at \in Conns /\ status[at] \in Live
    BY <1>1, AtExists DEF Exec
  <2>2. /\ bound' \in [Conns -> Objects \union {None}]
        /\ interactive' \in [Objects -> Conns \union {None}]
        /\ RegistrySound'
    BY <1>1, <2>1, AttachSound DEF Exec, PointerInv
  <2>3. TypeOK'
    BY <1>1, <2>2 DEF Exec, PointerInv, TypeOK
  <2>4. GoneUnbound'
    BY <1>1, <2>1 DEF Exec, Attach, PointerInv, GoneUnbound, TypeOK
  <2>5. LoopPosition'
    BY <1>1 DEF Exec, PointerInv, LoopPosition
  <2> QED  BY <2>2, <2>3, <2>4, <2>5 DEF PointerInv
<1>2. ASSUME NEW o \in Objects, InputTo(o) PROVE PointerInv'
  <2>1. at \in Conns
    BY <1>2, AtExists DEF InputTo
  <2>2. (IF pc = "connect" THEN None ELSE bound[at]) \in Objects \union {None}
    BY <2>1 DEF PointerInv, TypeOK
  <2>3. pending' \in [Conns -> (Objects \X (Objects \union {None})) \union {None}]
    BY <1>2, <2>1, <2>2 DEF InputTo, PointerInv, TypeOK
  <2> QED
    BY <1>2, <2>3 DEF InputTo, PointerInv, TypeOK, GoneUnbound, LoopPosition, RegistrySound
<1>3. ASSUME NEW o \in Objects, RemoveInteractive(o) PROVE PointerInv'
  <2>1. interactive[o] \in Conns /\ bound[interactive[o]] = o
    BY <1>3 DEF RemoveInteractive, PointerInv, TypeOK, RegistrySound
  <2>2. CloseAll({interactive[o]}, "closed")
    BY <1>3 DEF RemoveInteractive
  <2>3. LoopPosition'
    BY <1>3, <2>1 DEF RemoveInteractive, CloseAll, PointerInv, LoopPosition, TypeOK, Live
  <2>4. RegistrySound' /\ GoneUnbound' /\ TypeOK'
    BY <1>3, <2>1, <2>2, CloseAllSound DEF RemoveInteractive, PointerInv, TypeOK
  <2> QED  BY <2>3, <2>4 DEF PointerInv
<1>4. ASSUME NEW o \in Objects, Destruct(o) PROVE PointerInv'
  <2>1. CloseOwn(o) \in SUBSET Conns
    BY DEF CloseOwn, PointerInv, TypeOK
  <2>2. /\ status' = [c \in Conns |-> IF c \in CloseOwn(o) THEN "closed" ELSE status[c]]
        /\ bound' = [c \in Conns |-> IF c \in CloseOwn(o) THEN None ELSE bound[c]]
        /\ interactive' = Unregister(BoundTo(CloseOwn(o)))
    BY <1>4 DEF Destruct
  <2>3. /\ bound' \in [Conns -> Objects \union {None}]
        /\ interactive' \in [Objects -> Conns \union {None}]
        /\ RegistrySound'
    BY <2>1, <2>2, CloseSound DEF PointerInv
  <2>4. status' \in [Conns -> {"none", "open", "eof", "closed", "freed"}]
    BY <2>1, <2>2, StatusType DEF PointerInv
  <2>5. /\ snooping' \in [Objects -> Objects \union {None}]
        /\ snoopedBy' \in [Objects -> Objects \union {None}]
    BY <1>4 DEF Destruct, PointerInv, TypeOK
  <2>6. destructed' \subseteq Objects
    BY <1>4, MudlibAssumption DEF Destruct, Doomed, PointerInv, TypeOK
  <2>7. TypeOK'
    BY <1>4, <2>3, <2>4, <2>5, <2>6 DEF Destruct, PointerInv, TypeOK
  <2>8. GoneUnbound'
    BY <2>1, <2>2 DEF PointerInv, GoneUnbound, TypeOK
  <2>9. LoopPosition'
    BY <1>4, <2>1, <2>2 DEF Destruct, PointerInv, LoopPosition, TypeOK, Live
  <2> QED  BY <2>3, <2>7, <2>8, <2>9 DEF PointerInv
<1>5. ASSUME NEW o \in Objects, SnoopOff(o) PROVE PointerInv'
  BY <1>5 DEF SnoopOff, PointerInv, TypeOK, GoneUnbound, LoopPosition, RegistrySound
<1>6. ASSUME NEW o \in Objects, Free(o) PROVE PointerInv'
  BY <1>6 DEF Free, PointerInv, TypeOK, GoneUnbound, LoopPosition, RegistrySound
<1>7. ASSUME NEW by \in Objects, NEW victim \in Objects, Snoop(by, victim) PROVE PointerInv'
  BY <1>7 DEF Snoop, SnoopLinks, PointerInv, TypeOK, GoneUnbound, LoopPosition, RegistrySound
<1> QED  BY <1>1, <1>2, <1>3, <1>4, <1>5, <1>6, <1>7 DEF Lpc

\* So does every step of pollOnce().
LEMMA DriverKeepsPointers == ASSUME PointerInv, Driver PROVE PointerInv'
<1> USE DEF conns, links, loop, Goto
<1>1. CASE BeginPoll \/ NoneWaiting \/ PollSockets
  BY <1>1, BoundAssumption
  DEF BeginPoll, NoneWaiting, PollSockets, PointerInv, TypeOK, GoneUnbound, LoopPosition, RegistrySound
<1>2. CASE Refuse
  <2>1. at \in Conns /\ at \notin listed
    BY <1>2 DEF Refuse, PointerInv, LoopPosition
  <2>2. CloseAll({at}, "freed")
    BY <1>2 DEF Refuse, Destroy
  <2>a. pending' \in [Conns -> (Objects \X (Objects \union {None})) \union {None}] /\ at' \in 0..(MaxConns + 1)
    BY <1>2, BoundAssumption DEF Refuse, Destroy, PointerInv, TypeOK
  <2>b. /\ status' \in [Conns -> {"none", "open", "eof", "closed", "freed"}]
        /\ bound' \in [Conns -> Objects \union {None}]
        /\ interactive' \in [Objects -> Conns \union {None}]
        /\ snooping' \in [Objects -> Objects \union {None}]
        /\ snoopedBy' \in [Objects -> Objects \union {None}]
        /\ RegistrySound' /\ GoneUnbound'
    BY <2>1, <2>2, CloseAllSound
  <2>3. RegistrySound' /\ GoneUnbound' /\ TypeOK'
    BY <1>2, <2>a, <2>b DEF Refuse, PointerInv, TypeOK
  <2>4. LoopPosition'
    BY <1>2, <2>1 DEF Refuse, Destroy, CloseAll, PointerInv, LoopPosition, TypeOK
  <2> QED  BY <2>3, <2>4 DEF PointerInv
<1>3. CASE LogonReturns
  <2>1. 0 \in 0..(MaxConns + 1)
    BY BoundAssumption
  <2> QED
    BY <1>3, <2>1 DEF LogonReturns, PointerInv, TypeOK, GoneUnbound, LoopPosition, RegistrySound
<1>4. CASE Skip
  <2>1. at + 1 \in 0..(MaxConns + 1)
    BY <1>4, BoundAssumption DEF Skip, Conns
  <2> QED
    BY <1>4, <2>1 DEF Skip, PointerInv, TypeOK, GoneUnbound, LoopPosition, RegistrySound
<1>5. CASE Dispatch
  <2>1. at \in Conns
    BY <1>5 DEF Dispatch, PointerInv, LoopPosition, TypeOK
  <2>2. linesLeft' \in 0..MaxLines
    BY <1>5, BoundAssumption DEF Dispatch, PointerInv, TypeOK
  <2>3. TypeOK'
    BY <1>5, <2>1, <2>2 DEF Dispatch, PointerInv, TypeOK
  <2> QED
    BY <1>5, <2>3 DEF Dispatch, PointerInv, GoneUnbound, LoopPosition, RegistrySound
<1>6. CASE Return
  BY <1>6 DEF Return, PointerInv, TypeOK, GoneUnbound, LoopPosition, RegistrySound
<1>7. CASE NetDead
  BY <1>7 DEF NetDead, PointerInv, TypeOK, GoneUnbound, LoopPosition, RegistrySound
<1>8. CASE Handled
  <2>1. at \in Conns
    BY <1>8 DEF Handled, PointerInv, LoopPosition, TypeOK
  <2>2. at + 1 \in 0..(MaxConns + 1)
    BY <2>1, BoundAssumption DEF Conns
  <2> QED
    BY <1>8, <2>2 DEF Handled, PointerInv, TypeOK, GoneUnbound, LoopPosition, RegistrySound
<1>9. CASE EndPoll
  <2>1. Reaped \in SUBSET Conns
    BY DEF Reaped, PointerInv, TypeOK
  <2>2. CloseAll(Reaped, "freed")
    BY <1>9 DEF EndPoll, Destroy
  <2>a. pending' \in [Conns -> (Objects \X (Objects \union {None})) \union {None}] /\ at' \in 0..(MaxConns + 1)
    BY <1>9, BoundAssumption DEF EndPoll, Destroy, PointerInv, TypeOK
  <2>b. /\ status' \in [Conns -> {"none", "open", "eof", "closed", "freed"}]
        /\ bound' \in [Conns -> Objects \union {None}]
        /\ interactive' \in [Objects -> Conns \union {None}]
        /\ snooping' \in [Objects -> Objects \union {None}]
        /\ snoopedBy' \in [Objects -> Objects \union {None}]
        /\ RegistrySound' /\ GoneUnbound'
    BY <2>1, <2>2, CloseAllSound
  <2>3. RegistrySound' /\ GoneUnbound' /\ TypeOK'
    BY <1>9, <2>1, <2>a, <2>b DEF EndPoll, PointerInv, TypeOK
  <2>4. LoopPosition'
    BY <1>9, <2>1 DEF EndPoll, Destroy, CloseAll, PointerInv, LoopPosition, TypeOK
  <2> QED  BY <2>3, <2>4 DEF PointerInv
<1>10. ASSUME NEW c \in Conns, Accept(c) PROVE PointerInv'
  <2>1. c \notin listed /\ bound[c] = None
    BY <1>10 DEF Accept, PointerInv, LoopPosition, GoneUnbound, Live
  <2>2. c \in 0..(MaxConns + 1)
    BY BoundAssumption DEF Conns
  <2>3. TypeOK'
    BY <1>10, <2>2 DEF Accept, PointerInv, TypeOK
  <2> QED
    BY <1>10, <2>1, <2>3 DEF Accept, PointerInv, GoneUnbound, LoopPosition, RegistrySound, TypeOK, Live
<1>11. ASSUME NEW o \in Objects, ConnectReturns(o) PROVE PointerInv'
  <2>1. at \in Conns /\ at \notin listed /\ status[at] \in Live
    BY <1>11 DEF ConnectReturns, PointerInv, LoopPosition
  <2>2. /\ bound' \in [Conns -> Objects \union {None}]
        /\ interactive' \in [Objects -> Conns \union {None}]
        /\ RegistrySound'
    BY <1>11, <2>1, AttachSound DEF ConnectReturns, PointerInv
  <2>3. TypeOK'
    BY <1>11, <2>2 DEF ConnectReturns, PointerInv, TypeOK
  <2>4. GoneUnbound' /\ LoopPosition'
    BY <1>11, <2>1 DEF ConnectReturns, Attach, PointerInv, GoneUnbound, LoopPosition, TypeOK
  <2> QED  BY <2>2, <2>3, <2>4 DEF PointerInv
<1>12. ASSUME NEW n \in 0..MaxLines, NEW eof \in BOOLEAN, NEW option \in BOOLEAN, Read(n, eof, option)
       PROVE  PointerInv'
  <2>1. linesLeft' \in 0..MaxLines
    BY <1>12, BoundAssumption DEF Read
  <2>2. TypeOK'
    BY <1>12, <2>1 DEF Read, PointerInv, TypeOK
  <2>3. status[at] \in Live /\ status'[at] \in Live
    BY <1>12 DEF Read, PointerInv, LoopPosition, TypeOK, Live
  <2> QED
    BY <1>12, <2>2, <2>3 DEF Read, PointerInv, GoneUnbound, LoopPosition, RegistrySound, TypeOK
<1> QED
  BY <1>1, <1>2, <1>3, <1>4, <1>5, <1>6, <1>7, <1>8, <1>9, <1>10, <1>11, <1>12 DEF Driver

LEMMA PointersInductive == Spec => []PointerInv
<1>1. Init => PointerInv
  <2> SUFFICES ASSUME Init PROVE PointerInv
    OBVIOUS
  <2>1. at \in 0..(MaxConns + 1) /\ linesLeft \in 0..MaxLines
    BY BoundAssumption DEF Init
  <2> QED  BY <2>1 DEF Init, PointerInv, TypeOK, GoneUnbound, LoopPosition, RegistrySound, Live
<1>2. PointerInv /\ [Next]_vars => PointerInv'
  <2> SUFFICES ASSUME PointerInv, [Next]_vars PROVE PointerInv'
    OBVIOUS
  <2>1. CASE UNCHANGED vars
    BY <2>1 DEF vars, conns, links, loop, PointerInv, TypeOK, GoneUnbound, LoopPosition, RegistrySound
  <2> QED  BY <2>1, LpcKeepsPointers, DriverKeepsPointers DEF Next
<1> QED  BY <1>1, <1>2, PTL DEF Spec

\* Type correctness of connections, registry, snoop links and loop.
THEOREM SessionTypes == Spec => []TypeOK
<1>1. PointerInv => TypeOK
  BY DEF PointerInv
<1> QED  BY <1>1, PointersInductive, PTL

\* The registry's raw Connection pointers and OutputContext never dangle,
\* whatever LPC closes, rebinds, destructs or frees, and however it shares or
\* shadows objects.
THEOREM PointersSafe == Spec => []NoDangling
  BY PointersInductive, PointerInvSuffices, PTL

-----------------------------------------------------------------------------
(* Snooping *)

SnoopInv == SnoopLinksAgree /\ SnoopAcyclic

\* Cutting links keeps the rest well formed when both ends of a link are cut
\* together: s is among the snoopers A exactly if v is among the victims B.
LEMMA CutLinks ==
    ASSUME TypeOK, SnoopInv, NEW A, NEW B,
           \A s, v \in Objects : snoopedBy[v] = s => (s \in A <=> v \in B),
           snooping' = [o \in Objects |-> IF o \in A THEN None ELSE snooping[o]],
           snoopedBy' = [o \in Objects |-> IF o \in B THEN None ELSE snoopedBy[o]]
    PROVE  SnoopInv'
<1>1. ASSUME NEW a \in Objects, NEW b \in Objects PROVE snooping'[a] = b <=> snoopedBy'[b] = a
  BY NoneFresh DEF SnoopInv, SnoopLinksAgree
<1>2. ASSUME NEW S \in SUBSET Objects, S # {} PROVE \E x \in S : snoopedBy'[x] \notin S
  <2>1. PICK x \in S : snoopedBy[x] \notin S
    BY <1>2 DEF SnoopInv, SnoopAcyclic
  <2>2. snoopedBy'[x] = None \/ snoopedBy'[x] = snoopedBy[x]
    OBVIOUS
  <2> QED  BY <2>1, <2>2, NoneFresh
<1> QED  BY <1>1, <1>2 DEF SnoopInv, SnoopLinksAgree, SnoopAcyclic

LEMMA CloseAllCuts ==
    ASSUME TypeOK, SnoopInv, NEW C \in SUBSET Conns, NEW st, CloseAll(C, st)
    PROVE  SnoopInv'
<1> DEFINE A == {o \in Objects : \E v \in BoundTo(C) : snoopedBy[v] = o}
           B == BoundTo(C)
<1>1. /\ snooping' = [o \in Objects |-> IF o \in A THEN None ELSE snooping[o]]
      /\ snoopedBy' = [o \in Objects |-> IF o \in B THEN None ELSE snoopedBy[o]]
  BY DEF CloseAll
<1>2. ASSUME NEW s \in Objects, NEW v \in Objects, snoopedBy[v] = s PROVE s \in A <=> v \in B
  <2>1. ASSUME s \in A PROVE v \in B
    <3>1. PICK w \in B : snoopedBy[w] = s
      BY <2>1
    <3>2. w \in Objects
      BY <3>1 DEF BoundTo, TypeOK
    <3> QED  BY <1>2, <3>1, <3>2 DEF SnoopInv, SnoopLinksAgree
  <2>2. ASSUME v \in B PROVE s \in A
    BY <1>2, <2>2
  <2> QED  BY <2>1, <2>2
<1> HIDE DEF A, B
<1> QED  BY <1>1, <1>2, CutLinks

\* The loop check of snoop() is enough.  Were there a circle through the new
\* link, the part of it that the walk from `by' visits would be one already.
LEMMA SnoopKeepsAcyclic ==
    ASSUME TypeOK, SnoopInv, NEW by \in Objects, NEW victim \in Objects,
           NoLoop(by, victim), SnoopLinks(by, victim)
    PROVE  SnoopAcyclic'
<1> SUFFICES ASSUME NEW S \in SUBSET Objects, S # {}, \A x \in S : snoopedBy'[x] \in S
             PROVE  FALSE
  BY DEF SnoopAcyclic
<1>1. ASSUME NEW x \in Objects, x # victim, snoopedBy'[x] # None
      PROVE  snoopedBy'[x] = snoopedBy[x]
  BY <1>1 DEF SnoopLinks
<1>2. \A x \in S : snoopedBy'[x] # None
  BY NoneFresh
<1>3. CASE victim \notin S
  <2>1. \A x \in S : snoopedBy[x] \in S
    BY <1>1, <1>2, <1>3
  <2> QED  BY <2>1 DEF SnoopInv, SnoopAcyclic
<1>4. CASE victim \in S
  <2> DEFINE T == S \intersect SnoopersFrom(by)
  <2>1. snoopedBy'[victim] = by
    BY DEF SnoopLinks
  <2>2. by \in T
    BY <1>4, <2>1 DEF SnoopersFrom
  <2>3. ASSUME NEW x \in T PROVE snoopedBy[x] \in T
    <3>1. x # victim
      BY <2>3 DEF NoLoop
    <3>2. snoopedBy[x] \in S /\ snoopedBy[x] \in Objects /\ snoopedBy[x] # None
      BY <1>1, <1>2, <2>3, <3>1
    <3>3. snoopedBy[x] \in SnoopersFrom(by)
      <4> SUFFICES ASSUME NEW U \in SUBSET Objects, by \in U, ClosedUnderSnoop(U)
                   PROVE  snoopedBy[x] \in U
        BY <3>2 DEF SnoopersFrom
      <4>1. x \in U
        BY <2>3 DEF SnoopersFrom
      <4> QED  BY <3>2, <4>1 DEF ClosedUnderSnoop
    <3> QED  BY <3>2, <3>3
  <2>4. T \in SUBSET Objects /\ T # {}
    BY <2>2
  <2> HIDE DEF T
  <2> QED  BY <2>3, <2>4 DEF SnoopInv, SnoopAcyclic
<1> QED  BY <1>3, <1>4

LEMMA SnoopKeepsLinks ==
    ASSUME TypeOK, SnoopInv, NEW by \in Objects, NEW victim \in Objects, SnoopLinks(by, victim)
    PROVE  SnoopLinksAgree'
<1> SUFFICES ASSUME NEW a \in Objects, NEW b \in Objects
             PROVE  snooping'[a] = b <=> snoopedBy'[b] = a
  BY DEF SnoopLinksAgree
<1> QED  BY NoneFresh DEF SnoopLinks, SnoopInv, SnoopLinksAgree, TypeOK

LEMMA SnoopInductive == ASSUME PointerInv, SnoopInv, [Next]_vars PROVE SnoopInv'
<1> USE DEF conns, links, loop, Goto
<1>0. TypeOK
  BY DEF PointerInv
<1>1. CASE UNCHANGED links
  BY <1>1 DEF SnoopInv, SnoopLinksAgree, SnoopAcyclic
<1>2. ASSUME NEW o \in Objects, RemoveInteractive(o) PROVE SnoopInv'
  <2>1. {interactive[o]} \in SUBSET Conns
    BY <1>0, <1>2 DEF RemoveInteractive, TypeOK
  <2> QED  BY <1>0, <1>2, <2>1, CloseAllCuts DEF RemoveInteractive
<1>3. CASE Refuse \/ EndPoll
  <2>1. Refuse => {at} \in SUBSET Conns
    BY DEF Refuse, PointerInv, LoopPosition
  <2>2. Reaped \in SUBSET Conns
    BY <1>0 DEF Reaped, TypeOK
  <2> QED  BY <1>0, <1>3, <2>1, <2>2, CloseAllCuts DEF Refuse, EndPoll, Destroy
<1>4. ASSUME NEW o \in Objects, Destruct(o) PROVE SnoopInv'
  <2> DEFINE A == Doomed(o) \union {snoopedBy[v] : v \in BoundTo(CloseOwn(o))}
             B == {snooping[d] : d \in Doomed(o)} \union BoundTo(CloseOwn(o))
  <2>1. /\ snooping' = [s \in Objects |-> IF s \in A THEN None ELSE snooping[s]]
        /\ snoopedBy' = [v \in Objects |-> IF v \in B THEN None ELSE snoopedBy[v]]
    BY <1>4 DEF Destruct
  <2>2. Doomed(o) \subseteq Objects
    BY MudlibAssumption DEF Doomed
  <2>3. BoundTo(CloseOwn(o)) \subseteq Objects
    BY <1>0 DEF BoundTo, CloseOwn, TypeOK
  <2>4. ASSUME NEW s \in Objects, NEW v \in Objects, snoopedBy[v] = s PROVE s \in A <=> v \in B
    <3>1. snooping[s] = v
      BY <2>4 DEF SnoopInv, SnoopLinksAgree
    <3>2. ASSUME s \in A PROVE v \in B
      <4>1. CASE s \in Doomed(o)
        BY <3>1, <4>1
      <4>2. CASE \E w \in BoundTo(CloseOwn(o)) : snoopedBy[w] = s
        BY <2>3, <3>1, <4>2 DEF SnoopInv, SnoopLinksAgree
      <4> QED  BY <3>2, <4>1, <4>2
    <3>3. ASSUME v \in B PROVE s \in A
      <4>1. CASE \E d \in Doomed(o) : snooping[d] = v
        BY <2>2, <2>4, <4>1 DEF SnoopInv, SnoopLinksAgree
      <4>2. CASE v \in BoundTo(CloseOwn(o))
        BY <2>4, <4>2
      <4> QED  BY <3>3, <4>1, <4>2
    <3> QED  BY <3>2, <3>3
  <2> HIDE DEF A, B
  <2> QED  BY <1>0, <2>1, <2>4, CutLinks
<1>5. ASSUME NEW o \in Objects, SnoopOff(o) PROVE SnoopInv'
  <2>1. /\ snooping' = [s \in Objects |-> IF s \in {o} THEN None ELSE snooping[s]]
        /\ snoopedBy' = [v \in Objects |-> IF v \in {snooping[o]} THEN None ELSE snoopedBy[v]]
    BY <1>0, <1>5 DEF SnoopOff, TypeOK
  <2>2. \A s, v \in Objects : snoopedBy[v] = s => (s \in {o} <=> v \in {snooping[o]})
    BY DEF SnoopInv, SnoopLinksAgree
  <2> QED  BY <1>0, <2>1, <2>2, CutLinks
<1>6. ASSUME NEW o \in Objects, Free(o) PROVE SnoopInv'
  <2> DEFINE A == {x \in Objects : x = o \/ snooping[x] = o}
             B == {x \in Objects : x = o \/ snoopedBy[x] = o}
  <2>1. /\ snooping' = [s \in Objects |-> IF s \in A THEN None ELSE snooping[s]]
        /\ snoopedBy' = [v \in Objects |-> IF v \in B THEN None ELSE snoopedBy[v]]
    BY <1>6 DEF Free
  <2>2. \A s, v \in Objects : snoopedBy[v] = s => (s \in A <=> v \in B)
    BY DEF SnoopInv, SnoopLinksAgree
  <2> HIDE DEF A, B
  <2> QED  BY <1>0, <2>1, <2>2, CutLinks
<1>7. ASSUME NEW by \in Objects, NEW victim \in Objects, Snoop(by, victim) PROVE SnoopInv'
  BY <1>0, <1>7, SnoopKeepsLinks, SnoopKeepsAcyclic DEF Snoop, SnoopInv
<1>8. ASSUME NEW o \in Objects, Exec(o) \/ InputTo(o) PROVE UNCHANGED links
  BY <1>8 DEF Exec, InputTo
<1>9. CASE Driver /\ ~Refuse /\ ~EndPoll
  BY <1>9, <1>1 DEF Driver, BeginPoll, LogonReturns, NoneWaiting, Skip, Dispatch, Return, NetDead,
                    Handled, PollSockets, Accept, ConnectReturns, Read
<1>10. CASE Lpc
  BY <1>10, <1>1, <1>2, <1>4, <1>5, <1>6, <1>7, <1>8 DEF Lpc
<1> QED  BY <1>1, <1>3, <1>9, <1>10 DEF Next, vars

LEMMA SnoopsSound == Spec => []SnoopInv
<1>1. Init => SnoopInv
  <2> SUFFICES ASSUME Init PROVE SnoopInv
    OBVIOUS
  <2>1. SnoopLinksAgree
    BY NoneFresh DEF Init, SnoopLinksAgree
  <2>2. SnoopAcyclic
    BY NoneFresh DEF Init, SnoopAcyclic
  <2> QED  BY <2>1, <2>2 DEF SnoopInv
<1> QED  BY <1>1, SnoopInductive, PointersInductive, PTL DEF Spec

\* Both ends of every snoop agree through close, destruct, expiry and re-snoop.
THEOREM SnoopsPaired == Spec => []SnoopLinksAgree
<1>1. SnoopInv => SnoopLinksAgree
  BY DEF SnoopInv
<1> QED  BY <1>1, SnoopsSound, PTL

\* No circle of snoopers forms, so the loop check and the relay terminate.
THEOREM SnoopsEnd == Spec => []SnoopAcyclic
<1>1. SnoopInv => SnoopAcyclic
  BY DEF SnoopInv
<1> QED  BY <1>1, SnoopsSound, PTL

-----------------------------------------------------------------------------
(* One connection per object *)

\* What find() returns for a bound object is the connection it is bound to.
Exclusive == \A c \in Conns : bound[c] # None => interactive[bound[c]] = c

LEMMA AttachExclusive ==
    ASSUME PointerInv, Exclusive, NEW c \in Conns, NEW o \in Objects,
           interactive[o] \in {None, c}, Attach(c, o)
    PROVE  Exclusive'
<1> DEFINE rest == Unregister({bound[c]})
<1>1. /\ bound' = [bound EXCEPT ![c] = o]
      /\ interactive' = [rest EXCEPT ![o] = IF rest[o] = None THEN c ELSE rest[o]]
  BY DEF Attach
<1>2. rest \in [Objects -> Conns \union {None}]
  BY UnregisterType DEF PointerInv
<1>3. interactive'[o] = c
  BY <1>1, <1>2 DEF Unregister
<1>4. ASSUME NEW d \in Conns, bound'[d] # None PROVE interactive'[bound'[d]] = d
  <2>1. CASE d = c
    BY <1>1, <1>3, <2>1 DEF PointerInv, TypeOK
  <2>2. CASE d # c
    <3>1. bound'[d] = bound[d] /\ bound[d] \in Objects /\ interactive[bound[d]] = d
      BY <1>1, <1>4, <2>2 DEF Exclusive, PointerInv, TypeOK
    <3>2. bound[d] # o /\ bound[d] # bound[c]
      BY <2>2, <3>1, NoneFresh DEF Exclusive, PointerInv, TypeOK
    <3>3. rest[bound[d]] = d
      BY <3>1, <3>2 DEF Unregister
    <3> HIDE DEF rest
    <3> QED  BY <1>1, <1>2, <3>1, <3>2, <3>3
  <2> QED  BY <2>1, <2>2
<1> QED  BY <1>4 DEF Exclusive

LEMMA CloseExclusive ==
    ASSUME PointerInv, Exclusive, NEW C \in SUBSET Conns,
           bound' = [c \in Conns |-> IF c \in C THEN None ELSE bound[c]],
           interactive' = Unregister(BoundTo(C))
    PROVE  Exclusive'
<1> SUFFICES ASSUME NEW d \in Conns, bound'[d] # None PROVE interactive'[bound'[d]] = d
  BY DEF Exclusive
<1>1. d \notin C /\ bound'[d] = bound[d] /\ bound[d] \in Objects /\ interactive[bound[d]] = d
  BY DEF Exclusive, PointerInv, TypeOK
<1>2. bound[d] \notin BoundTo(C)
  BY <1>1 DEF BoundTo, Exclusive
<1> QED  BY <1>1, <1>2 DEF Unregister

LEMMA ExclusiveInductive ==
    ASSUME ~SharedObjects, PointerInv, Exclusive, [Next]_vars
    PROVE  Exclusive'
<1> USE DEF conns, links, loop, Goto
<1>0. TypeOK
  BY DEF PointerInv
<1>1. CASE UNCHANGED <<bound, interactive>>
  BY <1>1 DEF Exclusive
<1>2. ASSUME NEW o \in Objects, Exec(o) \/ ConnectReturns(o) PROVE Exclusive'
  <2>1. at \in Conns
    BY <1>2, AtExists DEF Exec, ConnectReturns, OnBehalf
  <2>2. interactive[o] \in {None, at} /\ Attach(at, o)
    BY <1>2, ~SharedObjects DEF Exec, ConnectReturns, MayBind
  <2> QED  BY <2>1, <2>2, AttachExclusive
<1>3. ASSUME NEW o \in Objects, RemoveInteractive(o) PROVE Exclusive'
  <2>1. {interactive[o]} \in SUBSET Conns
    BY <1>0, <1>3 DEF RemoveInteractive, TypeOK
  <2> QED  BY <1>3, <2>1, CloseExclusive DEF RemoveInteractive, CloseAll
<1>4. ASSUME NEW o \in Objects, Destruct(o) PROVE Exclusive'
  <2>1. CloseOwn(o) \in SUBSET Conns
    BY <1>0 DEF CloseOwn, TypeOK
  <2>2. /\ bound' = [c \in Conns |-> IF c \in CloseOwn(o) THEN None ELSE bound[c]]
        /\ interactive' = Unregister(BoundTo(CloseOwn(o)))
    BY <1>4 DEF Destruct
  <2> QED  BY <2>1, <2>2, CloseExclusive
<1>5. CASE Refuse
  <2>1. {at} \in SUBSET Conns
    BY <1>5 DEF Refuse, PointerInv, LoopPosition
  <2> QED  BY <1>5, <2>1, CloseExclusive DEF Refuse, Destroy, CloseAll
<1>6. CASE EndPoll
  <2>1. Reaped \in SUBSET Conns
    BY <1>0 DEF Reaped, TypeOK
  <2> QED  BY <1>6, <2>1, CloseExclusive DEF EndPoll, Destroy, CloseAll
<1>7. CASE Lpc
  <2>1. ASSUME NEW o \in Objects, InputTo(o) \/ SnoopOff(o) \/ Free(o) PROVE UNCHANGED <<bound, interactive>>
    BY <2>1 DEF InputTo, SnoopOff, Free
  <2>2. ASSUME NEW by \in Objects, NEW victim \in Objects, Snoop(by, victim)
        PROVE  UNCHANGED <<bound, interactive>>
    BY <2>2 DEF Snoop
  <2> QED  BY <1>1, <1>2, <1>3, <1>4, <1>7, <2>1, <2>2 DEF Lpc
<1>8. CASE Driver
  <2>1. CASE \E o \in Objects : ConnectReturns(o)
    BY <1>2, <2>1
  <2>2. CASE Refuse \/ EndPoll
    BY <1>5, <1>6, <2>2
  <2> QED
    BY <1>1, <1>8, <2>1, <2>2 DEF Driver, BeginPoll, LogonReturns, NoneWaiting, Skip, Dispatch, Return,
                                  NetDead, Handled, PollSockets, Accept, Read
<1> QED  BY <1>1, <1>7, <1>8 DEF Next, vars

LEMMA OneConnectionEach ==
    ASSUME ~SharedObjects
    PROVE  Spec => []Exclusive
<1>1. Init => Exclusive
  BY DEF Init, Exclusive
<1> QED  BY <1>1, ExclusiveInductive, PointersInductive, PTL DEF Spec

\* In a mudlib that never binds an object twice, every bound object is found.
THEOREM BoundAreRegistered ==
    ASSUME ~SharedObjects
    PROVE  Spec => []Registered
<1>1. PointerInv /\ Exclusive => Registered
  BY NoneFresh DEF PointerInv, Exclusive, Registered, TypeOK
<1> QED  BY <1>1, OneConnectionEach, PointersInductive, PTL

-----------------------------------------------------------------------------
(* No inert session *)

\* Bound objects are alive; a connection whose descriptor is open is bound,
\* except the one connect() has not answered for yet.
SessionInv ==
    /\ \A c \in Conns : bound[c] # None => Alive(bound[c])
    /\ \A c \in Conns : IsOpen(c) /\ ~(pc = "connect" /\ c = at) => bound[c] # None

LEMMA SessionInductive ==
    ASSUME ~SharedObjects, \A o \in Objects : ShadowsOf[o] = {},
           PointerInv, Exclusive, SessionInv, [Next]_vars
    PROVE  SessionInv'
<1> USE DEF conns, links, loop, Goto, IsOpen, Alive
<1>0. TypeOK /\ (OnBehalf => at \in Conns)
  BY AtExists DEF PointerInv
<1>1. CASE UNCHANGED <<status, bound, destructed, freed>> /\ pc # "connect" /\ pc' # "connect"
  BY <1>1 DEF SessionInv
<1>2. CASE UNCHANGED <<status, bound, destructed, freed, pc, at>>
  BY <1>2 DEF SessionInv
<1>3. ASSUME NEW o \in Objects, Exec(o) \/ ConnectReturns(o) PROVE SessionInv'
  <2>1. at \in Conns /\ at' = at /\ bound' = [bound EXCEPT ![at] = o] /\ UNCHANGED <<status, destructed, freed>>
    BY <1>0, <1>3 DEF Exec, ConnectReturns, Attach, OnBehalf
  <2>2. Alive(o) /\ o # None
    BY <1>3, NoneFresh DEF Exec, ConnectReturns, MayBind
  <2>3. \A c \in Conns : c # at => bound'[c] = bound[c]
    BY <1>0, <2>1 DEF TypeOK
  <2>4. bound'[at] = o
    BY <1>0, <2>1 DEF TypeOK
  <2> QED  BY <2>1, <2>2, <2>3, <2>4 DEF SessionInv
<1>4. ASSUME NEW o \in Objects, RemoveInteractive(o) PROVE SessionInv'
  BY <1>0, <1>4 DEF RemoveInteractive, CloseAll, SessionInv, TypeOK
<1>5. ASSUME NEW o \in Objects, Destruct(o) PROVE SessionInv'
  <2>1. /\ status' = [c \in Conns |-> IF c \in CloseOwn(o) THEN "closed" ELSE status[c]]
        /\ bound' = [c \in Conns |-> IF c \in CloseOwn(o) THEN None ELSE bound[c]]
        /\ destructed' = destructed \union {o} /\ UNCHANGED <<freed, pc, at>>
    BY <1>5 DEF Destruct, Doomed
  <2>2. \A c \in Conns : bound[c] = o => c \in CloseOwn(o)
    BY NoneFresh DEF CloseOwn, Exclusive
  <2>3. ASSUME NEW c \in Conns, bound'[c] # None PROVE Alive(bound[c])'
    <3>1. c \notin CloseOwn(o) /\ bound'[c] = bound[c]
      BY <2>1, <2>3
    <3>2. bound[c] # o /\ Alive(bound[c])
      BY <2>2, <2>3, <3>1 DEF SessionInv
    <3> QED  BY <2>1, <3>1, <3>2
  <2>4. ASSUME NEW c \in Conns, IsOpen(c)', ~(pc = "connect" /\ c = at)' PROVE bound'[c] # None
    <3>1. c \notin CloseOwn(o) /\ IsOpen(c)
      BY <2>1, <2>4
    <3> QED  BY <2>1, <2>4, <3>1 DEF SessionInv
  <2> QED  BY <2>3, <2>4 DEF SessionInv
<1>6. ASSUME NEW o \in Objects, Free(o) PROVE SessionInv'
  BY <1>6 DEF Free, SessionInv
<1>7. CASE Refuse
  <2>1. at \in Conns
    BY <1>7 DEF Refuse, PointerInv, LoopPosition
  <2> QED  BY <1>0, <1>7, <2>1 DEF Refuse, Destroy, CloseAll, SessionInv, TypeOK
<1>8. CASE EndPoll
  BY <1>0, <1>8 DEF EndPoll, Destroy, CloseAll, SessionInv, TypeOK
<1>9. ASSUME NEW c \in Conns, Accept(c) PROVE SessionInv'
  BY <1>0, <1>9 DEF Accept, SessionInv, TypeOK
<1>10. ASSUME NEW n \in 0..MaxLines, NEW eof \in BOOLEAN, NEW option \in BOOLEAN, Read(n, eof, option)
       PROVE  SessionInv'
  BY <1>0, <1>10 DEF Read, SessionInv, TypeOK
<1>11. CASE Lpc
  <2>1. ASSUME NEW o \in Objects, InputTo(o) \/ SnoopOff(o)
        PROVE  UNCHANGED <<status, bound, destructed, freed, pc, at>>
    BY <2>1 DEF InputTo, SnoopOff
  <2>2. ASSUME NEW by \in Objects, NEW victim \in Objects, Snoop(by, victim)
        PROVE  UNCHANGED <<status, bound, destructed, freed, pc, at>>
    BY <2>2 DEF Snoop
  <2> QED  BY <1>2, <1>3, <1>4, <1>5, <1>6, <1>11, <2>1, <2>2 DEF Lpc
<1>12. CASE BeginPoll \/ LogonReturns \/ NoneWaiting \/ Skip \/ Dispatch \/ Return \/ NetDead \/ Handled \/ PollSockets
  BY <1>1, <1>12 DEF BeginPoll, LogonReturns, NoneWaiting, Skip, Dispatch, Return, NetDead, Handled, PollSockets
<1> QED
  BY <1>2, <1>3, <1>7, <1>8, <1>9, <1>10, <1>11, <1>12 DEF Next, Driver, vars

\* In such a mudlib, if no shadows are involved either, no player is left
\* typing to a destructed object.
THEOREM SessionsResponsive ==
    ASSUME ~SharedObjects, \A o \in Objects : ShadowsOf[o] = {}
    PROVE  Spec => []NoInertSession
<1>1. Init => SessionInv
  BY DEF Init, SessionInv, IsOpen, Alive
<1>2. PointerInv /\ SessionInv => NoInertSession
  <2> SUFFICES ASSUME PointerInv, SessionInv, NEW c \in listed, IsOpen(c) PROVE Alive(bound[c])
    BY DEF NoInertSession
  <2>1. c \in Conns /\ ~(pc = "connect" /\ c = at)
    BY DEF PointerInv, TypeOK, LoopPosition
  <2> QED  BY <2>1 DEF SessionInv
<1>3. Spec => []SessionInv
  BY <1>1, SessionInductive, OneConnectionEach, PointersInductive, PTL DEF Spec
<1> QED  BY <1>2, <1>3, PointersInductive, PTL

-----------------------------------------------------------------------------
(* input_to() handlers *)

\* A connection starts without a handler, and one that connect() asks for is
\* made under no binding.
InputInv ==
    /\ InputToScoped
    /\ \A c \in Conns : status[c] = "none" => pending[c] = None
    /\ pc = "connect" => pending[at] = None \/ pending[at][2] = None

\* Closing connections unbinds them; their handlers stay or go with them.
LEMMA CloseKeepsInput ==
    ASSUME PointerInv, InputInv, NEW C \in SUBSET Conns, NEW st \in {"closed", "freed"},
           status' = [c \in Conns |-> IF c \in C THEN st ELSE status[c]],
           bound' = [c \in Conns |-> IF c \in C THEN None ELSE bound[c]],
           pending' \in {pending, [c \in Conns |-> IF c \in C THEN None ELSE pending[c]]},
           pc' # "connect" \/ UNCHANGED <<pc, at>>
    PROVE  InputInv'
<1>1. TypeOK /\ (pc = "connect" => at \in Conns)
  BY DEF PointerInv, LoopPosition
<1>2. \A c \in Conns : /\ pending'[c] \in {pending[c], None} /\ bound'[c] \in {bound[c], None}
                       /\ (status'[c] = "none" => status[c] = "none")
  BY <1>1 DEF TypeOK
<1> QED  BY <1>1, <1>2 DEF InputInv, InputToScoped

LEMMA InputInductive == ASSUME PointerInv, InputInv, [Next]_vars PROVE InputInv'
<1> USE DEF conns, links, loop, Goto
<1>0. TypeOK /\ (OnBehalf => at \in Conns /\ status[at] \in Live)
  BY AtExists DEF PointerInv
<1>1. CASE UNCHANGED <<status, bound, pending>> /\ (pc' # "connect" \/ UNCHANGED <<pc, at>>)
  BY <1>1 DEF InputInv, InputToScoped
<1>2. ASSUME NEW o \in Objects, Exec(o) PROVE InputInv'
  <2>1. /\ at \in Conns /\ status[at] \in Live /\ UNCHANGED <<status, pc, at>>
        /\ bound' = [bound EXCEPT ![at] = o] /\ pending' = [pending EXCEPT ![at] = None]
    BY <1>0, <1>2 DEF Exec, Attach
  <2>2. pending'[at] = None /\ \A c \in Conns : c # at => pending'[c] = pending[c] /\ bound'[c] = bound[c]
    BY <1>0, <2>1 DEF TypeOK
  <2> QED  BY <2>1, <2>2 DEF InputInv, InputToScoped
<1>3. ASSUME NEW o \in Objects, InputTo(o) PROVE InputInv'
  <2> DEFINE under == IF pc = "connect" THEN None ELSE bound[at]
  <2>1. at \in Conns /\ status[at] \in Live /\ UNCHANGED <<status, bound, pc, at>> /\ pending' = [pending EXCEPT ![at] = <<o, under>>]
    BY <1>0, <1>3 DEF InputTo
  <2>2. pending'[at] = <<o, under>> /\ \A c \in Conns : c # at => pending'[c] = pending[c]
    BY <1>0, <2>1 DEF TypeOK
  <2>3. pending'[at][2] = under
    BY <2>2
  <2>4. status[at] # "none"
    BY <2>1 DEF Live
  <2> QED  BY <2>1, <2>2, <2>3, <2>4 DEF InputInv, InputToScoped
<1>4. ASSUME NEW o \in Objects, RemoveInteractive(o) PROVE InputInv'
  <2>1. {interactive[o]} \in SUBSET Conns
    BY <1>0, <1>4 DEF RemoveInteractive, TypeOK
  <2> QED  BY <1>4, <2>1, CloseKeepsInput DEF RemoveInteractive, CloseAll
<1>5. ASSUME NEW o \in Objects, Destruct(o) PROVE InputInv'
  <2>1. CloseOwn(o) \in SUBSET Conns
    BY <1>0 DEF CloseOwn, TypeOK
  <2>2. /\ status' = [c \in Conns |-> IF c \in CloseOwn(o) THEN "closed" ELSE status[c]]
        /\ bound' = [c \in Conns |-> IF c \in CloseOwn(o) THEN None ELSE bound[c]]
        /\ UNCHANGED <<pending, pc, at>>
    BY <1>5 DEF Destruct
  <2> QED  BY <2>1, <2>2, CloseKeepsInput
<1>6. CASE Refuse
  <2>1. {at} \in SUBSET Conns
    BY <1>6 DEF Refuse, PointerInv, LoopPosition
  <2> QED  BY <1>6, <2>1, CloseKeepsInput DEF Refuse, Destroy, CloseAll
<1>7. CASE EndPoll
  <2>1. Reaped \in SUBSET Conns
    BY <1>0 DEF Reaped, TypeOK
  <2> QED  BY <1>7, <2>1, CloseKeepsInput DEF EndPoll, Destroy, CloseAll
<1>8. ASSUME NEW c \in Conns, Accept(c) PROVE InputInv'
  <2>1. /\ pending[c] = None /\ at' = c /\ UNCHANGED <<pending, bound>>
        /\ \A d \in Conns : status'[d] = "none" => status[d] = "none"
    BY <1>0, <1>8 DEF Accept, InputInv, TypeOK
  <2> QED  BY <2>1 DEF InputInv, InputToScoped
<1>9. ASSUME NEW o \in Objects, ConnectReturns(o) PROVE InputInv'
  <2>1. at \in Conns /\ pc' = "logon" /\ bound' = [bound EXCEPT ![at] = o] /\ UNCHANGED <<status, pending>>
    BY <1>0, <1>9 DEF ConnectReturns, Attach, OnBehalf
  <2>2. pending[at] = None \/ pending[at][2] = None
    BY <1>9 DEF ConnectReturns, InputInv
  <2>3. \A c \in Conns : c # at => bound'[c] = bound[c]
    BY <1>0, <2>1 DEF TypeOK
  <2> QED  BY <2>1, <2>2, <2>3 DEF InputInv, InputToScoped
<1>10. CASE Dispatch
  <2>1. /\ UNCHANGED <<status, bound>> /\ pc' # "connect"
        /\ \A c \in Conns : pending'[c] \in {pending[c], None}
    BY <1>0, <1>10 DEF Dispatch, TypeOK
  <2> QED  BY <2>1 DEF InputInv, InputToScoped
<1>11. ASSUME NEW n \in 0..MaxLines, NEW eof \in BOOLEAN, NEW option \in BOOLEAN, Read(n, eof, option)
       PROVE  InputInv'
  <2>1. /\ UNCHANGED <<pending, bound>> /\ pc' # "connect"
        /\ \A c \in Conns : status'[c] = "none" => status[c] = "none"
    BY <1>0, <1>11 DEF Read, TypeOK
  <2> QED  BY <2>1 DEF InputInv, InputToScoped
<1>12. CASE Lpc
  <2>1. ASSUME NEW o \in Objects, SnoopOff(o) \/ Free(o) PROVE InputInv'
    BY <1>1, <2>1 DEF SnoopOff, Free
  <2>2. ASSUME NEW by \in Objects, NEW victim \in Objects, Snoop(by, victim) PROVE InputInv'
    BY <1>1, <2>2 DEF Snoop
  <2> QED  BY <1>2, <1>3, <1>4, <1>5, <1>12, <2>1, <2>2 DEF Lpc
<1>13. CASE BeginPoll \/ LogonReturns \/ NoneWaiting \/ Skip \/ Return \/ NetDead \/ Handled \/ PollSockets
  BY <1>1, <1>13 DEF BeginPoll, LogonReturns, NoneWaiting, Skip, Return, NetDead, Handled, PollSockets
<1>14. CASE UNCHANGED vars
  BY <1>1, <1>14 DEF vars
<1> QED
  BY <1>6, <1>7, <1>8, <1>9, <1>10, <1>11, <1>12, <1>13, <1>14 DEF Next, Driver

\* A handler asked for by input_to() under one binding takes no line typed
\* under another, through exec(), remote closes and connections set up anew.
THEOREM HandlersScoped == Spec => []InputToScoped
<1>1. Init => InputInv
  BY DEF Init, InputInv, InputToScoped
<1>2. InputInv => InputToScoped
  BY DEF InputInv
<1> QED  BY <1>1, <1>2, InputInductive, PointersInductive, PTL DEF Spec

-----------------------------------------------------------------------------
(* The registry between two polls *)

\* Bound connections are listed, or being set up; EndPoll leaves the open ones.
ReadableInv ==
    /\ \A c \in Conns : bound[c] # None => c \in listed \/ (c = at /\ pc \in {"connect", "logon"})
    /\ pc = "idle" => \A c \in listed : bound[c] # None => status[c] = "open"

LEMMA CloseKeepsReadable ==
    ASSUME PointerInv, ReadableInv, NEW C \in SUBSET Conns,
           status' = [c \in Conns |-> IF c \in C THEN "closed" ELSE status[c]],
           bound' = [c \in Conns |-> IF c \in C THEN None ELSE bound[c]],
           UNCHANGED <<listed, pc, at>>
    PROVE  ReadableInv'
<1>1. TypeOK
  BY DEF PointerInv
<1>2. \A c \in Conns : bound'[c] # None => bound[c] # None /\ status'[c] = status[c]
  <2> SUFFICES ASSUME NEW c \in Conns, bound'[c] # None PROVE bound[c] # None /\ status'[c] = status[c]
    OBVIOUS
  <2>1. c \notin C
    OBVIOUS
  <2> QED  BY <2>1
<1> QED  BY <1>1, <1>2 DEF ReadableInv, TypeOK

LEMMA ReadableInductive == ASSUME PointerInv, ReadableInv, [Next]_vars PROVE ReadableInv'
<1> USE DEF conns, links, loop, Goto
<1>0. TypeOK /\ (OnBehalf => at \in Conns) /\ listed \subseteq Conns
  BY AtExists DEF PointerInv, TypeOK
<1>1. CASE UNCHANGED <<status, bound, listed, pc, at>>
  BY <1>1 DEF ReadableInv
<1>2. CASE UNCHANGED <<bound, listed>> /\ pc \notin {"connect", "logon"} /\ pc' # "idle"
  BY <1>2 DEF ReadableInv
<1>3. ASSUME NEW o \in Objects, Exec(o) \/ ConnectReturns(o) PROVE ReadableInv'
  <2>1. /\ OnBehalf /\ at \in Conns /\ bound' = [bound EXCEPT ![at] = o] /\ UNCHANGED <<listed, at>>
        /\ pc' # "idle" /\ (pc \in {"connect", "logon"} => pc' \in {"connect", "logon"})
    BY <1>0, <1>3 DEF Exec, ConnectReturns, Attach, OnBehalf
  <2>2. at \in listed \/ pc \in {"connect", "logon"}
    BY <2>1 DEF OnBehalf, PointerInv, LoopPosition
  <2>3. \A c \in Conns : c # at => bound'[c] = bound[c]
    BY <1>0, <2>1 DEF TypeOK
  <2> QED  BY <2>1, <2>2, <2>3 DEF ReadableInv
<1>4. ASSUME NEW o \in Objects, RemoveInteractive(o) PROVE ReadableInv'
  <2>1. {interactive[o]} \in SUBSET Conns
    BY <1>0, <1>4 DEF RemoveInteractive, TypeOK
  <2> QED  BY <1>4, <2>1, CloseKeepsReadable DEF RemoveInteractive, CloseAll
<1>5. ASSUME NEW o \in Objects, Destruct(o) PROVE ReadableInv'
  <2>1. CloseOwn(o) \in SUBSET Conns
    BY <1>0 DEF CloseOwn, TypeOK
  <2>2. /\ status' = [c \in Conns |-> IF c \in CloseOwn(o) THEN "closed" ELSE status[c]]
        /\ bound' = [c \in Conns |-> IF c \in CloseOwn(o) THEN None ELSE bound[c]]
        /\ UNCHANGED <<listed, pc, at>>
    BY <1>5 DEF Destruct
  <2> QED  BY <2>1, <2>2, CloseKeepsReadable
<1>6. CASE Refuse
  <2>1. /\ bound' = [c \in Conns |-> IF c = at THEN None ELSE bound[c]]
        /\ listed' = listed /\ pc' = "accept"
    BY <1>6 DEF Refuse, Destroy, CloseAll
  <2> QED  BY <1>0, <2>1 DEF ReadableInv
<1>7. CASE LogonReturns
  BY <1>0, <1>7 DEF LogonReturns, ReadableInv
<1>8. CASE EndPoll
  <2>1. /\ status' = [c \in Conns |-> IF c \in Reaped THEN "freed" ELSE status[c]]
        /\ bound' = [c \in Conns |-> IF c \in Reaped THEN None ELSE bound[c]]
        /\ listed' = listed \ Reaped /\ pc = "sockets"
    BY <1>8 DEF EndPoll, Destroy, CloseAll
  <2>2. \A c \in Conns : bound'[c] # None => c \in listed'
    BY <1>0, <2>1 DEF ReadableInv
  <2>3. \A c \in listed' : status'[c] = "open"
    <3> SUFFICES ASSUME NEW c \in listed' PROVE status'[c] = "open"
      OBVIOUS
    <3>1. c \in listed /\ c \notin Reaped /\ c \in Conns
      BY <1>0, <2>1
    <3>2. status[c] \in Live /\ ~IsClosed(c)
      BY <3>1 DEF Reaped, PointerInv, LoopPosition
    <3> QED  BY <2>1, <3>1, <3>2 DEF Live, IsClosed
  <2> QED  BY <2>2, <2>3 DEF ReadableInv
<1>9. CASE Lpc
  <2>1. ASSUME NEW o \in Objects, InputTo(o) \/ SnoopOff(o) \/ Free(o) PROVE ReadableInv'
    BY <1>1, <2>1 DEF InputTo, SnoopOff, Free
  <2>2. ASSUME NEW by \in Objects, NEW victim \in Objects, Snoop(by, victim) PROVE ReadableInv'
    BY <1>1, <2>2 DEF Snoop
  <2> QED  BY <1>3, <1>4, <1>5, <1>9, <2>1, <2>2 DEF Lpc
<1>10. CASE BeginPoll \/ NoneWaiting \/ Skip \/ Dispatch \/ Return \/ NetDead \/ Handled \/ PollSockets
  BY <1>2, <1>10 DEF BeginPoll, NoneWaiting, Skip, Dispatch, Return, NetDead, Handled, PollSockets
<1>11. CASE (\E c \in Conns : Accept(c)) \/
            (\E n \in 0..MaxLines, eof \in BOOLEAN, option \in BOOLEAN : Read(n, eof, option))
  BY <1>2, <1>11 DEF Accept, Read
<1>12. CASE UNCHANGED vars
  BY <1>1, <1>12 DEF vars
<1> QED
  BY <1>3, <1>6, <1>7, <1>8, <1>9, <1>10, <1>11, <1>12 DEF Next, Driver

\* When pollOnce() is over, no registered object is left with a connection that
\* can no longer be read, although exec() binds closed connections too.
THEOREM RegistryReadable == Spec => []IdleRegistryLive
<1>1. Init => ReadableInv
  BY DEF Init, ReadableInv
<1>2. PointerInv /\ ReadableInv => IdleRegistryLive
  <2> SUFFICES ASSUME PointerInv, ReadableInv, pc = "idle", NEW o \in Objects, interactive[o] # None
               PROVE  status[interactive[o]] = "open"
    BY DEF IdleRegistryLive
  <2>1. interactive[o] \in Conns /\ bound[interactive[o]] = o /\ o # None
    BY NoneFresh DEF PointerInv, TypeOK, RegistrySound
  <2> QED  BY <2>1 DEF ReadableInv
<1> QED  BY <1>1, <1>2, ReadableInductive, PointersInductive, PTL DEF Spec

-----------------------------------------------------------------------------
(* net_dead() *)

\* A connection net_dead() was called for has ended; while it is still listed,
\* the loop has passed it in this poll, and EndPoll destroys it.
NotifiedInv ==
    /\ \A c \in notified : status[c] \in {"eof", "closed", "freed"}
    /\ \A c \in notified : c \notin listed => status[c] = "freed"
    /\ \A c \in notified : c \in listed =>
          \/ pc = "sockets"
          \/ pc \in {"sweep", "option", "lines", "line"} /\ c < at
          \/ pc = "net_dead" /\ c <= at

\* LPC closes connections that exist.
LEMMA CloseKeepsNotified ==
    ASSUME PointerInv, NotifiedInv, NEW C \in SUBSET Conns, \A c \in C : status[c] \in Live,
           status' = [c \in Conns |-> IF c \in C THEN "closed" ELSE status[c]],
           UNCHANGED <<listed, pc, at, notified>>
    PROVE  NotifiedInv'
<1>1. notified \subseteq Conns
  BY DEF PointerInv, TypeOK
<1>2. \A c \in notified : status[c] = "freed" => status'[c] = "freed"
  BY <1>1 DEF Live
<1>3. \A c \in notified : status'[c] \in {"closed", status[c]}
  BY <1>1
<1> QED  BY <1>2, <1>3 DEF NotifiedInv

LEMMA NotifiedInductive == ASSUME PointerInv, NotifiedInv, [Next]_vars PROVE NotifiedInv'
<1> USE DEF conns, links, loop, Goto
<1>0. /\ TypeOK /\ (OnBehalf => at \in Conns) /\ listed \subseteq Conns /\ notified \subseteq Conns
      /\ at \in Nat /\ Conns \subseteq Nat /\ \A c \in Conns : c <= MaxConns /\ c >= 1
  BY AtExists, BoundAssumption DEF PointerInv, TypeOK, Conns
<1>1. CASE UNCHANGED <<status, listed, pc, at, notified>>
  BY <1>1 DEF NotifiedInv
<1>2. ASSUME NEW o \in Objects, RemoveInteractive(o) PROVE NotifiedInv'
  <2>1. interactive[o] \in Conns /\ bound[interactive[o]] = o /\ o # None
    BY <1>2, NoneFresh DEF RemoveInteractive, PointerInv, TypeOK, RegistrySound
  <2>2. status[interactive[o]] \in Live
    BY <2>1 DEF PointerInv, GoneUnbound
  <2> QED  BY <1>2, <2>1, <2>2, CloseKeepsNotified DEF RemoveInteractive, CloseAll
<1>3. ASSUME NEW o \in Objects, Destruct(o) PROVE NotifiedInv'
  <2>1. CloseOwn(o) \in SUBSET Conns /\ \A c \in CloseOwn(o) : status[c] \in Live
    <3>1. \A c \in CloseOwn(o) : c \in Conns /\ bound[c] = o /\ o # None
      BY NoneFresh DEF CloseOwn, PointerInv, TypeOK, RegistrySound
    <3> QED  BY <3>1 DEF PointerInv, GoneUnbound
  <2>2. /\ status' = [c \in Conns |-> IF c \in CloseOwn(o) THEN "closed" ELSE status[c]]
        /\ UNCHANGED <<listed, pc, at, notified>>
    BY <1>3 DEF Destruct
  <2> QED  BY <2>1, <2>2, CloseKeepsNotified
<1>4. CASE Lpc
  <2>1. ASSUME NEW o \in Objects, Exec(o) \/ InputTo(o) \/ SnoopOff(o) \/ Free(o) PROVE NotifiedInv'
    BY <1>1, <2>1 DEF Exec, InputTo, SnoopOff, Free
  <2>2. ASSUME NEW by \in Objects, NEW victim \in Objects, Snoop(by, victim) PROVE NotifiedInv'
    BY <1>1, <2>2 DEF Snoop
  <2> QED  BY <1>2, <1>3, <1>4, <2>1, <2>2 DEF Lpc
<1>5. CASE Refuse
  <2>1. /\ status' = [c \in Conns |-> IF c = at THEN "freed" ELSE status[c]] /\ UNCHANGED <<listed, notified>>
        /\ pc' = "accept" /\ pc \in {"connect", "logon"}
    BY <1>5 DEF Refuse, Destroy, CloseAll
  <2> QED  BY <1>0, <2>1 DEF NotifiedInv
<1>6. CASE EndPoll
  <2>1. /\ status' = [c \in Conns |-> IF c \in Reaped THEN "freed" ELSE status[c]]
        /\ listed' = listed \ Reaped /\ notified' = notified
    BY <1>6 DEF EndPoll, Destroy, CloseAll
  <2>2. \A c \in notified : c \notin listed'
    <3> SUFFICES ASSUME NEW c \in notified, c \in listed PROVE c \in Reaped
      BY <2>1
    <3>1. status[c] \in Live /\ status[c] \in {"eof", "closed", "freed"}
      BY DEF NotifiedInv, PointerInv, LoopPosition
    <3> QED  BY <3>1 DEF Reaped, IsClosed, Live
  <2>3. \A c \in notified : status'[c] = "freed"
    BY <1>0, <2>1, <2>2 DEF NotifiedInv
  <2> QED  BY <2>1, <2>2, <2>3 DEF NotifiedInv
<1>7. ASSUME NEW c \in Conns, Accept(c) PROVE NotifiedInv'
  <2>1. /\ c \notin notified /\ pc = "accept" /\ UNCHANGED <<listed, notified>>
        /\ \A d \in Conns : d # c => status'[d] = status[d]
    BY <1>0, <1>7 DEF Accept, NotifiedInv, TypeOK
  <2> QED  BY <1>0, <2>1 DEF NotifiedInv
<1>8. ASSUME NEW o \in Objects, ConnectReturns(o) PROVE NotifiedInv'
  BY <1>8 DEF ConnectReturns, NotifiedInv
<1>9. CASE LogonReturns
  <2>1. at \in Conns /\ at \notin listed /\ status[at] \in Live
    BY <1>9 DEF LogonReturns, PointerInv, LoopPosition
  <2>2. at \notin notified
    BY <2>1 DEF NotifiedInv, Live
  <2> QED  BY <1>9, <2>2 DEF LogonReturns, NotifiedInv
<1>10. ASSUME NEW n \in 0..MaxLines, NEW eof \in BOOLEAN, NEW option \in BOOLEAN, Read(n, eof, option)
       PROVE  NotifiedInv'
  <2>1. /\ pc = "sweep" /\ pc' \in {"option", "lines"} /\ at \in listed /\ UNCHANGED <<listed, at, notified>>
        /\ status' = [status EXCEPT ![at] = IF eof THEN "eof" ELSE @]
    BY <1>10 DEF Read
  <2>2. \A c \in notified : status'[c] = status[c]
    <3>1. at \notin notified
      BY <1>0, <2>1 DEF NotifiedInv
    <3> QED  BY <1>0, <2>1, <3>1 DEF TypeOK
  <2> QED  BY <2>1, <2>2 DEF NotifiedInv
<1>11. CASE NetDead
  <2>1. /\ pc = "lines" /\ pc' = "net_dead" /\ at \in listed /\ UNCHANGED <<status, listed, at>>
        /\ notified' = notified \union {at} /\ status[at] \in {"eof", "closed"}
    BY <1>11 DEF NetDead, LinkDead, IsClosed, PointerInv, LoopPosition
  <2>2. \A c \in notified : c < at => c <= at
    BY <1>0
  <2> QED  BY <1>0, <2>1, <2>2 DEF NotifiedInv
<1>12. CASE Skip \/ Handled
  <2>1. /\ UNCHANGED <<status, listed, notified>> /\ pc' = "sweep" /\ at' = at + 1
        /\ pc \in {"sweep", "lines", "net_dead"}
    BY <1>12 DEF Skip, Handled
  <2>2. \A c \in notified : c <= at \/ c < at => c < at + 1
    BY <1>0
  <2> QED  BY <2>1, <2>2 DEF NotifiedInv
<1>13. CASE BeginPoll \/ NoneWaiting \/ PollSockets
  BY <1>13 DEF BeginPoll, NoneWaiting, PollSockets, NotifiedInv
<1>14. CASE Dispatch \/ Return
  BY <1>14 DEF Dispatch, Return, NotifiedInv
<1>15. CASE UNCHANGED vars
  BY <1>1, <1>15 DEF vars
<1> QED
  BY <1>4, <1>5, <1>6, <1>7, <1>8, <1>9, <1>10, <1>11, <1>12, <1>13, <1>14, <1>15 DEF Next, Driver

\* A link-dead object is told so once per connection: the connection is not
\* looked at again in the same poll, and is destroyed at its end.
THEOREM ToldOnce == Spec => NetDeadOnce
<1>1. Init => NotifiedInv
  BY DEF Init, NotifiedInv
<1>2. PointerInv /\ NotifiedInv => [NetDead => at \notin notified]_vars
  <2> SUFFICES ASSUME PointerInv, NotifiedInv, NetDead PROVE at \notin notified
    OBVIOUS
  <2>1. at \in Nat /\ at \in listed /\ pc = "lines"
    BY BoundAssumption DEF NetDead, PointerInv, TypeOK, LoopPosition, Conns
  <2>2. ~(at < at)
    BY <2>1
  <2> QED  BY <2>1, <2>2 DEF NotifiedInv
<1> QED  BY <1>1, <1>2, NotifiedInductive, PointersInductive, PTL DEF Spec, NetDeadOnce

=============================================================================
