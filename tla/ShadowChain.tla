---------------------------- MODULE ShadowChain ----------------------------
(***************************************************************************)
(* Shadows: an object attached over another one intercepts calls to it.    *)
(* Each object keeps two weak links, shadowedBy (who shadows me) and       *)
(* shadowing (whom I shadow); six places of the driver splice the doubly   *)
(* linked chain by hand: shadow(), unshadow(), remove_shadow(),            *)
(* destructObject(), reloadObject() and processPendingReplacePrograms().   *)
(*                                                                         *)
(* shadow() validates, then asks the master object (LPC) for approval, then*)
(* links.  The LPC in between is why it is two actions.                    *)
(***************************************************************************)
EXTENDS Naturals, Sequences, FiniteSets

CONSTANTS
    Objects,
    Master,              \* the master object, kept alive by ObjectManager
    Dialect,             \* "fluffos" or "ldmud"
    ReentrantApproval,   \* may the approval apply change shadows itself?
    MaxNesting,          \* bound: approvals in progress at once
    None

ASSUME NoneAssumption    == None \notin Objects
ASSUME MasterAssumption  == Master \in Objects /\ IsFiniteSet(Objects)
ASSUME DialectAssumption == Dialect \in {"fluffos", "ldmud"}
ASSUME NestingAssumption == MaxNesting \in Nat \ {0} /\ ReentrantApproval \in BOOLEAN

VARIABLES
    shadowedBy,   \* LpcObject::shadowedBy_
    shadowing,    \* LpcObject::shadowing_
    destructed,   \* objects whose isDestructed() flag is set
    freed,        \* objects whose last strong reference is gone
    asking        \* shadow() calls waiting for the master, innermost last

vars == <<shadowedBy, shadowing, destructed, freed, asking>>

Links == [Objects -> Objects \union {None}]

\* The objects a walk along shadowedBy() from o visits, o included: the least
\* set that holds o and whatever shadows one of its members.
ClosedUpward(S) == \A x \in S : shadowedBy[x] # None => shadowedBy[x] \in S
ChainFrom(o) ==
    {x \in Objects : \A S \in SUBSET Objects : o \in S /\ ClosedUpward(S) => x \in S}

Init ==
    /\ shadowedBy = [o \in Objects |-> None]
    /\ shadowing = [o \in Objects |-> None]
    /\ destructed = {} /\ freed = {} /\ asking = <<>>

-----------------------------------------------------------------------------
\* LPC code that may change shadows is running: outside an approval, or inside
\* one when the master's apply does such things.
LpcMayEdit == asking = <<>> \/ ReentrantApproval

\* Mutant: the self check is dropped.
MayShadowSelf(self, ob) ==
    /\ ob \notin destructed
    /\ shadowing[self] = None /\ shadowedBy[self] = None
    /\ Dialect = "fluffos" => ob # Master
    /\ shadowing[ob] = None

\* The checks of shadow(ob) before the master is asked.  That self must have no
\* environment only disables more and is left out.
MayShadow(self, ob) ==
    /\ ob \notin destructed
    /\ ob # self
    /\ shadowing[self] = None /\ shadowedBy[self] = None
    /\ Dialect = "fluffos" => ob # Master
    /\ shadowing[ob] = None

\* What the frame of a shadow() call remembers while the master runs.
Call(self, ob) == <<self, ob>>

\* A destructed master answers nothing, which is a refusal.
AskShadow(self, ob) ==
    /\ LpcMayEdit /\ Len(asking) < MaxNesting
    /\ self \notin freed /\ ob \notin freed
    /\ MayShadow(self, ob)
    /\ Master \notin destructed
    /\ asking' = Append(asking, Call(self, ob))
    /\ UNCHANGED <<shadowedBy, shadowing, destructed, freed>>

Answered == SubSeq(asking, 1, Len(asking) - 1)

DenyShadow ==
    /\ asking # <<>>
    /\ asking' = Answered
    /\ UNCHANGED <<shadowedBy, shadowing, destructed, freed>>

\* while (next = victim->shadowedBy()) victim = next
EndOfChain(ob) == {x \in ChainFrom(ob) : shadowedBy[x] = None}

\* Approved: unless self was destructed meanwhile, link it at the end of the
\* chain over ob.
AllowShadow ==
    /\ asking # <<>>
    /\ asking' = Answered
    /\ LET self == asking[Len(asking)][1]
           ob   == asking[Len(asking)][2]
       IN  \/ /\ self \in destructed
              /\ UNCHANGED <<shadowedBy, shadowing>>
           \/ /\ self \notin destructed
              /\ \E victim \in EndOfChain(ob) :
                    /\ shadowing' = [shadowing EXCEPT ![self] = victim]
                    /\ shadowedBy' = [shadowedBy EXCEPT ![victim] = self]
    /\ UNCHANGED <<destructed, freed>>

\* Mutant: the lower neighbour is not told.
HalfSplice(o) ==
    /\ shadowing' = [x \in Objects |->
          IF x = o THEN None ELSE IF x = shadowedBy[o] THEN shadowing[o] ELSE shadowing[x]]
    /\ shadowedBy' = [shadowedBy EXCEPT ![o] = None]

\* Mutant: the neighbours are cut loose instead of joined.
CutSplice(o) ==
    /\ shadowing' = [x \in Objects |-> IF x = o \/ x = shadowedBy[o] THEN None ELSE shadowing[x]]
    /\ shadowedBy' = [x \in Objects |-> IF x = o \/ x = shadowing[o] THEN None ELSE shadowedBy[x]]

\* Unlink o and join its neighbours.
Splice(o) ==
    /\ shadowing' = [x \in Objects |->
          IF x = o THEN None ELSE IF x = shadowedBy[o] THEN shadowing[o] ELSE shadowing[x]]
    /\ shadowedBy' = [x \in Objects |->
          IF x = o THEN None ELSE IF x = shadowing[o] THEN shadowedBy[o] ELSE shadowedBy[x]]

\* Unlink a whole set of objects that is a chain of its own.
Dissolve(S) ==
    /\ shadowing' = [x \in Objects |-> IF x \in S THEN None ELSE shadowing[x]]
    /\ shadowedBy' = [x \in Objects |-> IF x \in S THEN None ELSE shadowedBy[x]]

\* unshadow(): only an object that is itself shadowing is spliced out.
Unshadow(self) ==
    /\ LpcMayEdit /\ self \notin freed
    /\ shadowing[self] # None
    /\ Splice(self)
    /\ UNCHANGED <<destructed, freed, asking>>

\* remove_shadow(): either end of a link is enough.
RemoveShadow(o) ==
    /\ LpcMayEdit /\ o \notin freed
    /\ shadowing[o] # None \/ shadowedBy[o] # None
    /\ Splice(o)
    /\ UNCHANGED <<destructed, freed, asking>>

IsBase(o) == shadowedBy[o] # None /\ shadowing[o] = None

\* The base of a chain takes the whole chain with it, top first; any other
\* object is spliced out.
DestructLinks(o) ==
    \/ /\ IsBase(o)
       /\ Dissolve(ChainFrom(o))
       /\ destructed' = destructed \union ChainFrom(o)
    \/ /\ ~IsBase(o)
       /\ Splice(o)
       /\ destructed' = destructed \union {o}

\* destruct().  Also from inside a well-behaved approval, but then only of the
\* object that asked.
Destruct(o) ==
    /\ LpcMayEdit \/ (\E i \in 1..Len(asking) : asking[i][1] = o)
    /\ o \notin freed /\ o \notin destructed
    /\ DestructLinks(o)
    /\ UNCHANGED <<freed, asking>>

\* reload_object(o): shadows above a base are destructed, o never is.
Reload(o) ==
    /\ LpcMayEdit /\ o \notin freed
    /\ \/ /\ IsBase(o)
          /\ Dissolve(ChainFrom(o))
          /\ destructed' = destructed \union (ChainFrom(o) \ {o})
       \/ /\ ~IsBase(o)
          /\ Splice(o)
          /\ UNCHANGED destructed
    /\ UNCHANGED <<freed, asking>>

\* processPendingReplacePrograms() runs between loop phases; the outgoing
\* shadow of a replaced object is spliced away, an incoming one alone is not.
ReplaceProgram(o) ==
    /\ asking = <<>> /\ o \notin freed /\ o \notin destructed
    /\ shadowing[o] # None
    /\ Splice(o)
    /\ UNCHANGED <<destructed, freed, asking>>

\* The last strong reference goes: every weak link to o now reads as null.
Free(o) ==
    /\ o \notin freed /\ o # Master
    /\ \A i \in 1..Len(asking) : o # asking[i][1] /\ o # asking[i][2]
    /\ freed' = freed \union {o}
    /\ shadowing' = [x \in Objects |-> IF x = o \/ shadowing[x] = o THEN None ELSE shadowing[x]]
    /\ shadowedBy' = [x \in Objects |-> IF x = o \/ shadowedBy[x] = o THEN None ELSE shadowedBy[x]]
    /\ UNCHANGED <<destructed, asking>>

Next ==
    \/ \E self, ob \in Objects : AskShadow(self, ob)
    \/ DenyShadow
    \/ AllowShadow
    \/ \E o \in Objects :
          Unshadow(o) \/ RemoveShadow(o) \/ Destruct(o) \/ Reload(o) \/ ReplaceProgram(o) \/ Free(o)

Spec == Init /\ [][Next]_vars

-----------------------------------------------------------------------------
(* callFunction() through a chain. *)

\* Mutant: the re-entry guard compares with the object called.
StopBelowTarget(caller, obj) == obj

StopBelow(caller, obj) == caller

\* Phase 1: how far up the walk gets from obj before it meets the caller or a
\* destructed shadow: the least set with obj and the shadows it steps to.
ClosedWalk(S, obj, caller) ==
    \A x \in S : shadowedBy[x] \notin {None, StopBelow(caller, obj)} \union destructed
                 => shadowedBy[x] \in S
WalkUp(obj, caller) ==
    {x \in Objects : \A S \in SUBSET Objects : obj \in S /\ ClosedWalk(S, obj, caller) => x \in S}

\* Phase 2: the objects whose programs are tried, from the outermost down to
\* the base of the chain.
Tried(obj, caller) ==
    LET start == WalkUp(obj, caller)
    IN  start \union {x \in Objects : obj \in ChainFrom(x)}

-----------------------------------------------------------------------------
(* Properties *)

\* Links name objects; a frame is a pair of objects.
TypeOK ==
    /\ shadowedBy \in Links /\ shadowing \in Links
    /\ destructed \subseteq Objects /\ freed \subseteq Objects
    /\ asking \in Seq(Objects \X Objects) /\ Len(asking) <= MaxNesting

\* The two weak links of every shadow relation agree, through every splice.
LinksAgree == \A a, b \in Objects : shadowing[a] = b <=> shadowedBy[b] = a

\* No object shadows itself, directly or through a chain: every set of objects
\* has a member that shadows nothing in the set.  A cycle would hang every
\* walk along shadowedBy().
Acyclic == \A S \in SUBSET Objects : S # {} => \E x \in S : shadowing[x] \notin S

\* A destructed or freed object is in no chain.
DeadUnlinked ==
    \A o \in destructed \union freed : shadowing[o] = None /\ shadowedBy[o] = None

\* A call made by a shadow to an object below it in its chain never comes back
\* to that shadow, and the program of the object called is always tried.
CallsReachTarget ==
    \A obj, caller \in Objects :
        /\ obj \in Tried(obj, caller)
        /\ caller # obj /\ caller \in ChainFrom(obj) => caller \notin Tried(obj, caller)

\* Whichever of the six operations takes an object out from between two live
\* neighbours, the upper one shadows the lower one from then on.
SpliceJoins ==
    [][\A low, mid, top \in Objects :
          /\ shadowing[mid] = low /\ shadowing[top] = mid
          /\ shadowing'[mid] = None /\ shadowedBy'[mid] = None
          /\ {low, top} \intersect (destructed' \union freed') = {} /\ mid \notin freed'
          => shadowing'[top] = low]_vars
=============================================================================
