------------------------- MODULE ShadowChainProofs -------------------------
(***************************************************************************)
(* Shadow chains stay well formed for any finite set of objects, provided  *)
(* the master's approval apply leaves shadows and the named object alone   *)
(* (ReentrantApproval = FALSE).                                            *)
(***************************************************************************)
EXTENDS ShadowChain, TLAPS

\* What shadow() may still rely on when the master has answered: its checks
\* hold, except that its own object may have been destructed.
FrameValid ==
    /\ Len(asking) <= 1
    /\ \A i \in 1..Len(asking) :
          /\ asking[i][1] # asking[i][2]
          /\ asking[i][1] \notin freed /\ asking[i][2] \notin destructed \union freed
          /\ shadowing[asking[i][1]] = None /\ shadowedBy[asking[i][1]] = None
          /\ shadowing[asking[i][2]] = None

WellFormed == TypeOK /\ LinksAgree /\ Acyclic /\ DeadUnlinked /\ FrameValid

-----------------------------------------------------------------------------
(* The chain above an object. *)

\* A set closed along shadowedBy that holds o holds the chain from o.
LEMMA ChainIsLeast ==
    ASSUME NEW o \in Objects, NEW S \in SUBSET Objects, o \in S, ClosedUpward(S)
    PROVE  ChainFrom(o) \subseteq S
  BY DEF ChainFrom

\* The chain itself is such a set.
LEMMA ChainIsClosed ==
    ASSUME NEW o \in Objects, TypeOK
    PROVE  ChainFrom(o) \subseteq Objects /\ o \in ChainFrom(o) /\ ClosedUpward(ChainFrom(o))
  BY DEF ChainFrom, ClosedUpward, TypeOK, Links

\* Every member of the chain, other than its start, shadows a member.
LEMMA ChainClosedDownward ==
    ASSUME NEW o \in Objects, TypeOK, LinksAgree,
           NEW x \in ChainFrom(o), x # o
    PROVE  shadowing[x] \in ChainFrom(o)
  <1> DEFINE C == ChainFrom(o)
  <1>1. C \subseteq Objects /\ o \in C /\ ClosedUpward(C)
    BY ChainIsClosed
  <1>2. SUFFICES ASSUME shadowing[x] \notin C PROVE FALSE
    OBVIOUS
  <1>3. ClosedUpward(C \ {x})
    <2> SUFFICES ASSUME NEW y \in C \ {x}, shadowedBy[y] # None
                 PROVE  shadowedBy[y] \in C \ {x}
      BY DEF ClosedUpward
    <2>1. shadowedBy[y] \in C
      BY <1>1 DEF ClosedUpward
    <2>2. shadowedBy[y] # x
      BY <1>1, <1>2 DEF LinksAgree
    <2> QED BY <2>1, <2>2
  <1>4. C \subseteq C \ {x}
    <2> HIDE DEF C
    <2>1. C \ {x} \in SUBSET Objects /\ o \in C \ {x}
      BY <1>1
    <2> QED BY <2>1, <1>3, ChainIsLeast DEF C
  <1> QED BY <1>4

-----------------------------------------------------------------------------
(* The two ways links are cut. *)

\* Taking one object out of its chain keeps the links in step and acyclic, and
\* touches no object that had no links.
LEMMA SpliceWellFormed ==
    ASSUME NEW o \in Objects, TypeOK, LinksAgree, Acyclic, Splice(o)
    PROVE  /\ shadowing' \in Links /\ shadowedBy' \in Links
           /\ LinksAgree' /\ Acyclic'
           /\ shadowing'[o] = None /\ shadowedBy'[o] = None
           /\ \A x \in Objects : shadowing[x] = None => shadowing'[x] = None
           /\ \A x \in Objects : shadowedBy[x] = None => shadowedBy'[x] = None
  <1> USE NoneAssumption
  <1>1. shadowing' \in Links /\ shadowedBy' \in Links
    BY DEF Splice, TypeOK, Links
  <1>2. \A x \in Objects : shadowing[x] # x
    <2> TAKE x \in Objects
    <2>1. \E y \in {x} : shadowing[y] \notin {x}
      BY DEF Acyclic
    <2> QED BY <2>1
  <1>3. LinksAgree'
    <2> SUFFICES ASSUME NEW a \in Objects, NEW b \in Objects
                 PROVE  shadowing'[a] = b <=> shadowedBy'[b] = a
      BY DEF LinksAgree
    <2>1. CASE a = o
      BY <2>1, <1>2 DEF Splice, TypeOK, Links, LinksAgree
    <2>2. CASE b = o
      BY <2>2, <1>2 DEF Splice, TypeOK, Links, LinksAgree
    <2>3. CASE a # o /\ b # o
      BY <2>3, <1>2 DEF Splice, TypeOK, Links, LinksAgree
    <2> QED BY <2>1, <2>2, <2>3
  <1>4. Acyclic'
    <2> SUFFICES ASSUME NEW S \in SUBSET Objects, S # {}
                 PROVE  \E x \in S : shadowing'[x] \notin S
      BY DEF Acyclic
    <2>1. CASE o \in S
      BY <2>1 DEF Splice
    <2>2. CASE o \notin S /\ shadowedBy[o] \notin S
      <3>1. PICK x \in S : shadowing[x] \notin S
        BY DEF Acyclic
      <3> QED BY <2>2, <3>1 DEF Splice
    <2>3. CASE o \notin S /\ shadowedBy[o] \in S
      <3>1. S \union {o} \in SUBSET Objects /\ S \union {o} # {}
        OBVIOUS
      <3>2. PICK x \in S \union {o} : shadowing[x] \notin S \union {o}
        BY <3>1 DEF Acyclic
      <3>3. CASE x = o
        BY <2>3, <3>2, <3>3 DEF Splice
      <3>4. CASE x # o
        <4>1. x # shadowedBy[o]
          BY <3>2, <2>3 DEF LinksAgree
        <4> QED BY <3>2, <3>4, <4>1 DEF Splice
      <3> QED BY <3>3, <3>4
    <2> QED BY <2>1, <2>2, <2>3
  <1>5. shadowing'[o] = None /\ shadowedBy'[o] = None
    BY DEF Splice
  <1>6. ASSUME NEW x \in Objects, shadowing[x] = None PROVE shadowing'[x] = None
    <2>1. x # shadowedBy[o]
      BY <1>6 DEF LinksAgree
    <2> QED BY <1>6, <2>1 DEF Splice
  <1>7. ASSUME NEW x \in Objects, shadowedBy[x] = None PROVE shadowedBy'[x] = None
    <2>1. x # shadowing[o]
      BY <1>7 DEF LinksAgree
    <2> QED BY <1>7, <2>1 DEF Splice
  <1> QED BY <1>1, <1>3, <1>4, <1>5, <1>6, <1>7

\* So does taking a whole chain apart, from its base upward.
LEMMA DissolveWellFormed ==
    ASSUME NEW o \in Objects, TypeOK, LinksAgree, Acyclic, IsBase(o), Dissolve(ChainFrom(o))
    PROVE  /\ shadowing' \in Links /\ shadowedBy' \in Links
           /\ LinksAgree' /\ Acyclic'
           /\ \A x \in ChainFrom(o) : shadowing'[x] = None /\ shadowedBy'[x] = None
           /\ \A x \in Objects : shadowing[x] = None => shadowing'[x] = None
           /\ \A x \in Objects : shadowedBy[x] = None => shadowedBy'[x] = None
  <1> USE NoneAssumption
  <1> DEFINE C == ChainFrom(o)
  <1>1. C \subseteq Objects /\ o \in C /\ ClosedUpward(C)
    BY ChainIsClosed
  <1>2. \A x \in C : shadowing[x] = None \/ shadowing[x] \in C
    BY ChainClosedDownward DEF IsBase
  <1>3. /\ shadowing' = [x \in Objects |-> IF x \in C THEN None ELSE shadowing[x]]
        /\ shadowedBy' = [x \in Objects |-> IF x \in C THEN None ELSE shadowedBy[x]]
    BY DEF Dissolve
  <1> HIDE DEF C
  <1>4. shadowing' \in Links /\ shadowedBy' \in Links
    BY <1>3 DEF TypeOK, Links
  <1>5. LinksAgree'
    <2> SUFFICES ASSUME NEW a \in Objects, NEW b \in Objects
                 PROVE  shadowing'[a] = b <=> shadowedBy'[b] = a
      BY DEF LinksAgree
    <2>1. shadowing[a] = b => (a \in C <=> b \in C)
      BY <1>1, <1>2 DEF LinksAgree, ClosedUpward
    <2> QED BY <2>1, <1>3 DEF LinksAgree
  <1>6. Acyclic'
    <2> SUFFICES ASSUME NEW S \in SUBSET Objects, S # {}
                 PROVE  \E x \in S : shadowing'[x] \notin S
      BY DEF Acyclic
    <2>1. PICK x \in S : shadowing[x] \notin S
      BY DEF Acyclic
    <2> QED BY <2>1, <1>3
  <1> QED BY <1>1, <1>3, <1>4, <1>5, <1>6 DEF C

-----------------------------------------------------------------------------
\* A queue of at most one frame loses it when it is answered.
LEMMA OneFrame ==
    ASSUME TypeOK, FrameValid, asking # <<>>
    PROVE  Len(asking) = 1 /\ Answered = <<>>
  <1>1. asking \in Seq(Objects \X Objects) /\ Len(asking) <= 1
    BY DEF TypeOK, FrameValid
  <1>2. Len(asking) \in Nat /\ Len(asking) # 0
    BY <1>1
  <1>3. Len(asking) = 1
    <2>1. \A n \in Nat : n # 0 /\ n <= 1 => n = 1
      OBVIOUS
    <2> QED BY <2>1, <1>1, <1>2, Zenon
  <1>4. Answered = SubSeq(asking, 1, 0)
    BY <1>3 DEF Answered
  <1> QED BY <1>1, <1>3, <1>4

LEMMA WellFormedInit == Init => WellFormed
  <1> SUFFICES ASSUME Init PROVE WellFormed
    OBVIOUS
  <1> USE NoneAssumption, NestingAssumption
  <1>1. TypeOK
    BY DEF Init, TypeOK, Links
  <1>2. LinksAgree /\ Acyclic /\ DeadUnlinked
    BY DEF Init, LinksAgree, Acyclic, DeadUnlinked
  <1>3. FrameValid
    BY DEF Init, FrameValid
  <1> QED BY <1>1, <1>2, <1>3 DEF WellFormed

\* The step of an approved shadow().
LEMMA AllowWellFormed ==
    ASSUME WellFormed, AllowShadow
    PROVE  WellFormed'
  <1> USE NoneAssumption, NestingAssumption DEF WellFormed
  <1>1. Len(asking) = 1 /\ asking' = <<>>
    BY OneFrame DEF AllowShadow
  <1> DEFINE self == asking[1][1]
             ob   == asking[1][2]
  <1>2. /\ self \in Objects /\ ob \in Objects /\ self # ob
        /\ self \notin freed /\ ob \notin destructed \union freed
        /\ shadowing[self] = None /\ shadowedBy[self] = None
    BY <1>1 DEF FrameValid, TypeOK
  <1>3. FrameValid'
    BY <1>1 DEF FrameValid
  <1>4. destructed' = destructed /\ freed' = freed
    BY DEF AllowShadow
  <1>5. CASE self \in destructed /\ UNCHANGED <<shadowedBy, shadowing>>
    BY <1>1, <1>3, <1>4, <1>5 DEF TypeOK, LinksAgree, Acyclic, DeadUnlinked
  <1>6. ASSUME self \notin destructed,
               NEW victim \in EndOfChain(ob),
               shadowing' = [shadowing EXCEPT ![self] = victim],
               shadowedBy' = [shadowedBy EXCEPT ![victim] = self]
        PROVE  WellFormed'
    <2> HIDE DEF self, ob
    <2>1. victim \in Objects /\ victim \in ChainFrom(ob) /\ shadowedBy[victim] = None
      BY DEF EndOfChain, ChainFrom
    <2>2. victim # self
      <3>1. ClosedUpward(Objects \ {self})
        BY <1>2 DEF ClosedUpward, LinksAgree, TypeOK, Links
      <3>2. ChainFrom(ob) \subseteq Objects \ {self}
        BY <3>1, <1>2, ChainIsLeast
      <3> QED BY <2>1, <3>2
    <2>3. victim \notin destructed \union freed
      <3> DEFINE Alive == Objects \ (destructed \union freed)
      <3>1. ClosedUpward(Alive)
        BY DEF ClosedUpward, LinksAgree, DeadUnlinked, TypeOK, Links
      <3>2. ChainFrom(ob) \subseteq Alive
        BY <3>1, <1>2, ChainIsLeast
      <3> QED BY <2>1, <3>2
    <2>4. TypeOK'
      BY <1>1, <1>2, <1>4, <1>6, <2>1 DEF TypeOK, Links
    <2>5. LinksAgree'
      BY <1>2, <1>6, <2>1, <2>2 DEF TypeOK, Links, LinksAgree
    <2>6. Acyclic'
      <3> SUFFICES ASSUME NEW S \in SUBSET Objects, S # {}
                   PROVE  \E x \in S : shadowing'[x] \notin S
        BY DEF Acyclic
      <3>1. CASE S = {self}
        BY <3>1, <1>2, <1>6, <2>2 DEF TypeOK, Links
      <3>2. CASE S # {self}
        <4>1. S \ {self} \in SUBSET Objects /\ S \ {self} # {}
          BY <3>2
        <4>2. PICK x \in S \ {self} : shadowing[x] \notin S \ {self}
          BY <4>1 DEF Acyclic
        <4>3. shadowing[x] # self
          BY <1>2 DEF LinksAgree
        <4>4. shadowing'[x] = shadowing[x]
          BY <1>6 DEF TypeOK, Links
        <4> QED BY <4>2, <4>3, <4>4
      <3> QED BY <3>1, <3>2
    <2>7. DeadUnlinked'
      BY <1>2, <1>4, <1>6, <2>1, <2>3 DEF DeadUnlinked, TypeOK, Links
    <2> QED BY <1>3, <2>4, <2>5, <2>6, <2>7
  <1> QED BY <1>1, <1>5, <1>6 DEF AllowShadow

\* A step that cuts links and marks the objects it leaves behind.
LEMMA CutWellFormed ==
    ASSUME NEW o \in Objects, WellFormed, asking' = asking, freed' = freed,
           shadowing' \in Links, shadowedBy' \in Links, LinksAgree', Acyclic',
           \A x \in Objects : shadowing[x] = None => shadowing'[x] = None,
           \A x \in Objects : shadowedBy[x] = None => shadowedBy'[x] = None,
           destructed' \subseteq Objects,
           \A x \in destructed' \ destructed : shadowing'[x] = None /\ shadowedBy'[x] = None,
           \A i \in 1..Len(asking) : asking[i][2] \notin destructed'
    PROVE  WellFormed'
  <1> USE DEF WellFormed
  <1>1. TypeOK'
    BY DEF TypeOK
  <1>2. DeadUnlinked'
    BY DEF DeadUnlinked, TypeOK
  <1>3. FrameValid'
    <2>1. \A i \in 1..Len(asking) : asking[i][1] \in Objects /\ asking[i][2] \in Objects
      BY DEF TypeOK
    <2> QED BY <2>1 DEF FrameValid
  <1> QED BY <1>1, <1>2, <1>3

\* Every step keeps the chains well formed.
LEMMA WellFormedStep ==
    ASSUME ~ReentrantApproval, WellFormed, [Next]_vars
    PROVE  WellFormed'
  <1> USE NoneAssumption, NestingAssumption DEF WellFormed
  <1>1. ASSUME NEW self \in Objects, NEW ob \in Objects, AskShadow(self, ob)
        PROVE  WellFormed'
    <2>1. asking = <<>> /\ asking' = <<<<self, ob>>>>
      <3>1. asking = <<>> /\ asking' = Append(asking, <<self, ob>>)
        BY <1>1, ~ReentrantApproval DEF AskShadow, LpcMayEdit, Call
      <3> QED BY <3>1
    <2>2. UNCHANGED <<shadowedBy, shadowing, destructed, freed>>
      BY <1>1 DEF AskShadow
    <2>3. TypeOK'
      BY <2>1, <2>2 DEF TypeOK
    <2>4. LinksAgree' /\ Acyclic' /\ DeadUnlinked'
      BY <2>2 DEF LinksAgree, Acyclic, DeadUnlinked
    <2>5. FrameValid'
      BY <1>1, <2>1, <2>2 DEF AskShadow, MayShadow, FrameValid
    <2> QED BY <2>3, <2>4, <2>5
  <1>2. CASE DenyShadow
    <2>1. asking' = <<>>
      BY <1>2, OneFrame DEF DenyShadow
    <2>2. UNCHANGED <<shadowedBy, shadowing, destructed, freed>>
      BY <1>2 DEF DenyShadow
    <2>3. TypeOK' /\ FrameValid'
      BY <2>1, <2>2 DEF TypeOK, FrameValid
    <2> QED BY <2>2, <2>3 DEF LinksAgree, Acyclic, DeadUnlinked
  <1>3. CASE AllowShadow
    BY <1>3, AllowWellFormed
  <1>4. ASSUME NEW o \in Objects, Unshadow(o) \/ RemoveShadow(o) \/ ReplaceProgram(o)
        PROVE  WellFormed'
    <2>1. Splice(o) /\ UNCHANGED <<destructed, freed, asking>>
      BY <1>4 DEF Unshadow, RemoveShadow, ReplaceProgram
    <2>2. \A i \in 1..Len(asking) : asking[i][2] \notin destructed'
      BY <2>1 DEF FrameValid
    <2> QED BY <2>1, <2>2, SpliceWellFormed, CutWellFormed DEF TypeOK
  <1>5. ASSUME NEW o \in Objects, Destruct(o)
        PROVE  WellFormed'
    <2>1. UNCHANGED <<freed, asking>> /\ DestructLinks(o)
      BY <1>5 DEF Destruct
    <2>2. asking = <<>> \/ (\E i \in 1..Len(asking) : asking[i][1] = o)
      BY <1>5 DEF Destruct, LpcMayEdit
    <2>3. CASE IsBase(o) /\ Dissolve(ChainFrom(o)) /\ destructed' = destructed \union ChainFrom(o)
      <3>1. asking = <<>>
        BY <2>2, <2>3 DEF IsBase, FrameValid
      <3>2. ChainFrom(o) \subseteq Objects
        BY ChainIsClosed
      <3>3. \A i \in 1..Len(asking) : asking[i][2] \notin destructed'
        BY <3>1
      <3> QED BY <2>1, <2>3, <3>2, <3>3, DissolveWellFormed, CutWellFormed DEF TypeOK
    <2>4. CASE Splice(o) /\ destructed' = destructed \union {o}
      <3>1. \A i \in 1..Len(asking) : asking[i][2] \notin destructed'
        <4> TAKE i \in 1..Len(asking)
        <4>1. i = 1 /\ Len(asking) = 1
          <5>1. Len(asking) \in Nat /\ Len(asking) <= 1
            BY DEF FrameValid, TypeOK
          <5>2. \A n \in Nat : n <= 1 => \A k \in 1..n : k = 1 /\ n = 1
            OBVIOUS
          <5> QED BY <5>1, <5>2, Zenon
        <4>2. asking[1][1] = o
          BY <4>1, <2>2
        <4> QED BY <2>4, <4>1, <4>2 DEF FrameValid
      <3> QED BY <2>1, <2>4, <3>1, SpliceWellFormed, CutWellFormed DEF TypeOK
    <2> QED BY <2>1, <2>3, <2>4 DEF DestructLinks
  <1>6. ASSUME NEW o \in Objects, Reload(o)
        PROVE  WellFormed'
    <2>1. UNCHANGED <<freed, asking>> /\ asking = <<>>
      BY <1>6 DEF Reload, LpcMayEdit
    <2>2. \A i \in 1..Len(asking) : asking[i][2] \notin destructed'
      BY <2>1
    <2>3. CASE /\ IsBase(o) /\ Dissolve(ChainFrom(o))
               /\ destructed' = destructed \union (ChainFrom(o) \ {o})
      <3>1. ChainFrom(o) \subseteq Objects
        BY ChainIsClosed
      <3> QED BY <2>1, <2>2, <2>3, <3>1, DissolveWellFormed, CutWellFormed DEF TypeOK
    <2>4. CASE Splice(o) /\ UNCHANGED destructed
      BY <2>1, <2>2, <2>4, SpliceWellFormed, CutWellFormed DEF TypeOK
    <2> QED BY <1>6, <2>3, <2>4 DEF Reload
  <1>7. ASSUME NEW o \in Objects, Free(o)
        PROVE  WellFormed'
    <2>1. /\ freed' = freed \union {o} /\ UNCHANGED <<destructed, asking>>
          /\ shadowing' = [x \in Objects |->
                IF x = o \/ shadowing[x] = o THEN None ELSE shadowing[x]]
          /\ shadowedBy' = [x \in Objects |->
                IF x = o \/ shadowedBy[x] = o THEN None ELSE shadowedBy[x]]
          /\ \A i \in 1..Len(asking) : o # asking[i][1] /\ o # asking[i][2]
      BY <1>7 DEF Free
    <2>2. TypeOK'
      BY <2>1 DEF TypeOK, Links
    <2>3. LinksAgree'
      BY <2>1 DEF LinksAgree, TypeOK, Links
    <2>4. Acyclic'
      <3> SUFFICES ASSUME NEW S \in SUBSET Objects, S # {}
                   PROVE  \E x \in S : shadowing'[x] \notin S
        BY DEF Acyclic
      <3>1. PICK x \in S : shadowing[x] \notin S
        BY DEF Acyclic
      <3> QED BY <3>1, <2>1
    <2>5. DeadUnlinked'
      BY <2>1 DEF DeadUnlinked, TypeOK
    <2>6. FrameValid'
      <3>1. \A i \in 1..Len(asking) : asking[i][1] \in Objects /\ asking[i][2] \in Objects
        BY DEF TypeOK
      <3> QED BY <2>1, <3>1 DEF FrameValid
    <2> QED BY <2>2, <2>3, <2>4, <2>5, <2>6
  <1>8. CASE UNCHANGED vars
    BY <1>8 DEF vars, TypeOK, LinksAgree, Acyclic, DeadUnlinked, FrameValid
  <1> QED BY <1>1, <1>2, <1>3, <1>4, <1>5, <1>6, <1>7, <1>8 DEF Next

\* WellFormed is an invariant.
LEMMA ChainsWellFormed ==
    ASSUME ~ReentrantApproval
    PROVE  Spec => []WellFormed
  BY WellFormedInit, WellFormedStep, PTL DEF Spec

\* shadowedBy_ and shadowing_ agree for every pair of objects, whatever mix of
\* splices, destructs, reloads and expiries has happened.
THEOREM LinksStayInStep ==
    ASSUME ~ReentrantApproval
    PROVE  Spec => []LinksAgree
  <1>1. WellFormed => LinksAgree
    BY DEF WellFormed
  <1> QED BY <1>1, ChainsWellFormed, PTL

\* No walk along shadowedBy() or shadowing() can loop.
THEOREM ChainsEnd ==
    ASSUME ~ReentrantApproval
    PROVE  Spec => []Acyclic
  <1>1. WellFormed => Acyclic
    BY DEF WellFormed
  <1> QED BY <1>1, ChainsWellFormed, PTL

\* No destructed or freed object is part of a chain.
THEOREM DeadLeaveChains ==
    ASSUME ~ReentrantApproval
    PROVE  Spec => []DeadUnlinked
  <1>1. WellFormed => DeadUnlinked
    BY DEF WellFormed
  <1> QED BY <1>1, ChainsWellFormed, PTL

\* Whatever takes an object out from between two live neighbours leaves them
\* linked to each other.
THEOREM SplicesJoin ==
    ASSUME ~ReentrantApproval
    PROVE  Spec => SpliceJoins
  <1> USE NoneAssumption
  <1> DEFINE Joins(low, mid, top) ==
          /\ shadowing[mid] = low /\ shadowing[top] = mid
          /\ shadowing'[mid] = None /\ shadowedBy'[mid] = None
          /\ {low, top} \intersect (destructed' \union freed') = {} /\ mid \notin freed'
          => shadowing'[top] = low
  <1>1. ASSUME WellFormed, Next, NEW low \in Objects, NEW mid \in Objects, NEW top \in Objects
        PROVE  Joins(low, mid, top)
    <2> USE <1>1 DEF WellFormed
    <2>1. SUFFICES ASSUME shadowing[mid] = low, shadowing[top] = mid,
                          shadowing'[mid] = None, shadowedBy'[mid] = None,
                          low \notin destructed' \union freed',
                          top \notin destructed' \union freed', mid \notin freed'
                   PROVE  shadowing'[top] = low
      OBVIOUS
    <2>2. shadowedBy[mid] = top /\ shadowedBy[low] = mid
      BY <2>1 DEF LinksAgree
    <2>3. CASE shadowing' = shadowing
      BY <2>1, <2>3
    <2>4. CASE AllowShadow
      <3>1. ASSUME NEW self, NEW victim \in Objects,
                   shadowing' = [shadowing EXCEPT ![self] = victim]
            PROVE  FALSE
        BY <2>1, <3>1 DEF TypeOK, Links
      <3>2. \A x : EndOfChain(x) \subseteq Objects
        BY DEF EndOfChain, ChainFrom
      <3> QED BY <2>3, <2>4, <3>1, <3>2 DEF AllowShadow
    <2>5. ASSUME NEW o \in Objects, Splice(o)
          PROVE  shadowing'[top] = low
      <3>1. mid = o \/ mid = shadowedBy[o]
        BY <2>1, <2>5 DEF Splice
      <3>2. CASE mid = o
        <4>1. top # o
          <5>1. \E y \in {o} : shadowing[y] \notin {o}
            BY DEF Acyclic
          <5> QED BY <5>1, <2>1, <3>2
        <4> QED BY <2>1, <2>2, <2>5, <3>2, <4>1 DEF Splice
      <3>3. CASE mid # o /\ mid = shadowedBy[o]
        <4>1. shadowing[o] = None
          BY <2>1, <2>5, <3>3 DEF Splice
        <4>2. shadowedBy'[mid] = shadowedBy[mid]
          BY <2>5, <3>3, <4>1 DEF Splice
        <4> QED BY <2>1, <2>2, <4>2
      <3> QED BY <3>1, <3>2, <3>3
    <2>6. ASSUME NEW o \in Objects, IsBase(o), Dissolve(ChainFrom(o)),
                 ChainFrom(o) \ {o} \subseteq destructed'
          PROVE  FALSE
      <3> DEFINE C == ChainFrom(o)
      <3>1. mid \in C
        BY <2>1, <2>6 DEF Dissolve
      <3>2. top \in C
        BY <3>1, <2>2, ChainIsClosed DEF ClosedUpward
      <3>3. top # o
        BY <2>1, <2>6 DEF IsBase
      <3> QED BY <2>1, <2>6, <3>2, <3>3
    <2>7. ASSUME NEW o \in Objects, Destruct(o) PROVE shadowing'[top] = low
      BY <2>5, <2>6, <2>7 DEF Destruct, DestructLinks
    <2>8. ASSUME NEW o \in Objects, Reload(o) PROVE shadowing'[top] = low
      BY <2>5, <2>6, <2>8 DEF Reload
    <2>9. ASSUME NEW o \in Objects, Free(o) PROVE FALSE
      <3>1. o # low /\ o # mid
        BY <2>1, <2>9 DEF Free
      <3> QED BY <2>1, <2>9, <3>1 DEF Free
    <2>10. ASSUME NEW o \in Objects, Unshadow(o) \/ RemoveShadow(o) \/ ReplaceProgram(o)
           PROVE  shadowing'[top] = low
      BY <2>5, <2>10 DEF Unshadow, RemoveShadow, ReplaceProgram
    <2>11. ASSUME NEW self \in Objects, NEW ob \in Objects, AskShadow(self, ob)
           PROVE  shadowing'[top] = low
      BY <2>3, <2>11 DEF AskShadow
    <2>12. CASE DenyShadow
      BY <2>3, <2>12 DEF DenyShadow
    <2> QED BY <2>4, <2>7, <2>8, <2>9, <2>10, <2>11, <2>12 DEF Next
  <1>2. WellFormed /\ [Next]_vars
          => [\A low, mid, top \in Objects : Joins(low, mid, top)]_vars
    BY <1>1
  <1> QED BY <1>2, ChainsWellFormed, PTL DEF Spec, SpliceJoins

-----------------------------------------------------------------------------
(* Resolving a call over a chain. *)

\* Two objects never are each above the other: their chains would be one set
\* in which every member shadows a member.
LEMMA AboveIsOneWay ==
    ASSUME TypeOK, LinksAgree, Acyclic,
           NEW low \in Objects, NEW top \in ChainFrom(low), top # low
    PROVE  low \notin ChainFrom(top)
  <1> SUFFICES ASSUME low \in ChainFrom(top) PROVE FALSE
    OBVIOUS
  <1> DEFINE C == ChainFrom(low)
  <1>1. /\ C \subseteq Objects /\ low \in C /\ ClosedUpward(C)
        /\ ChainFrom(top) \subseteq Objects /\ ClosedUpward(ChainFrom(top))
    <2>1. top \in Objects
      BY ChainIsClosed
    <2> QED BY <2>1, ChainIsClosed
  <1>2. C = ChainFrom(top)
    BY <1>1, ChainIsLeast
  <1>3. ASSUME NEW x \in C PROVE shadowing[x] \in C
    <2>1. CASE x # low
      BY <2>1, ChainClosedDownward
    <2>2. CASE x # top
      BY <2>2, <1>1, <1>2, ChainClosedDownward
    <2> QED BY <2>1, <2>2
  <1> HIDE DEF C
  <1>4. C \in SUBSET Objects /\ C # {}
    BY <1>1
  <1> QED BY <1>3, <1>4 DEF Acyclic

\* The walk up from obj stops short of the caller.
LEMMA WalkMissesCaller ==
    ASSUME NEW obj \in Objects, NEW caller \in Objects, caller # obj, TypeOK
    PROVE  caller \notin WalkUp(obj, caller)
  <1> DEFINE Rest == Objects \ {caller}
  <1>1. Rest \in SUBSET Objects /\ obj \in Rest
    OBVIOUS
  <1>2. ClosedWalk(Rest, obj, caller)
    BY DEF ClosedWalk, StopBelow, TypeOK, Links
  <1> QED BY <1>1, <1>2 DEF WalkUp

\* callFunction() always tries the program of the object called, and a call a
\* shadow makes down its own chain never comes back to that shadow.
THEOREM CallsReach ==
    ASSUME ~ReentrantApproval
    PROVE  Spec => []CallsReachTarget
  <1>1. ASSUME WellFormed PROVE CallsReachTarget
    <2> USE <1>1 DEF WellFormed
    <2>1. ASSUME NEW obj \in Objects, NEW caller \in Objects
          PROVE  obj \in Tried(obj, caller)
      BY ChainIsClosed DEF Tried
    <2>2. ASSUME NEW obj \in Objects, NEW caller \in Objects,
                 caller # obj, caller \in ChainFrom(obj)
          PROVE  caller \notin Tried(obj, caller)
      BY <2>2, AboveIsOneWay, WalkMissesCaller DEF Tried
    <2> QED BY <2>1, <2>2 DEF CallsReachTarget
  <1> QED BY <1>1, ChainsWellFormed, PTL

=============================================================================
