-------------------------- MODULE SchedulerProofs --------------------------
(***************************************************************************)
(* Proofs, for every value of the constants, of what Scheduler promises.   *)
(* HandlesAccounted is inductive together with TypeOK and SweepsDrained:   *)
(* ExtractCallOuts overwrites the local vector due, so accounting needs it *)
(* to be empty, which is what SweepsDrained says outside a sweep.          *)
(***************************************************************************)
EXTENDS Scheduler, TLAPS

LEMMA CastIntType == ASSUME NEW v \in Int PROVE CastInt(v) \in Int
  BY IntAssumption DEF CastInt

\* The set {[e EXCEPT ...]} that Elapse builds.
Aged(e) == [e EXCEPT !.left = IF @ = 0 THEN 0 ELSE @ - 1]

LEMMA AgedType == ASSUME NEW e \in CallOutEntry
                  PROVE  Aged(e) \in CallOutEntry /\ Aged(e).handle = e.handle
  BY DEF Aged, CallOutEntry

-----------------------------------------------------------------------------
\* Type correctness of the event loop and of both timer tables.
THEOREM TypeCorrect == Spec => []TypeOK
<1> USE BoundsAssumption
<1>1. Init => TypeOK
  <2> SUFFICES ASSUME Init PROVE TypeOK
    OBVIOUS
  <2>1. shutdown \in BOOLEAN
    BY Zenon DEF Init
  <2>2. nextHandle \in 1..(MaxHandle + 1) /\ hbClock \in 0..HeartbeatCycle
    BY DEF Init
  <2>3. ticks \in [Objects -> Int] /\ interval \in [Objects -> Int]
    BY DEF Init
  <2> QED  BY <2>1, <2>2, <2>3 DEF Init, TypeOK, Phases
<1>2. ASSUME TypeOK, [Next]_vars PROVE TypeOK'
  <2> USE <1>2 DEF TypeOK, loopVars, callVars, hbVars
  <2>1. CASE LoopStep
    <3>1. CASE EnterRun             BY <3>1 DEF EnterRun, Phases
    <3>2. CASE TickHeartbeats       BY <3>2 DEF TickHeartbeats, CountDown, Phases
    <3>3. CASE SkipHeartbeats       BY <3>3 DEF SkipHeartbeats, Phases
    <3>4. ASSUME NEW o \in Objects, FireHeartbeat(o) PROVE TypeOK'
      BY <3>4 DEF FireHeartbeat
    <3>5. CASE CallbackEnds         BY <3>5 DEF CallbackEnds
    <3>6. CASE HeartbeatsDone       BY <3>6 DEF HeartbeatsDone, Phases
    <3>7. CASE ResetsDone           BY <3>7 DEF ResetsDone, Phases
    <3>8. CASE ExtractCallOuts      BY <3>8 DEF ExtractCallOuts, Phases
    <3>9. CASE FireCallOut          BY <3>9 DEF FireCallOut, CallOutEntry
    <3>10. CASE CallOutsDone        BY <3>10 DEF CallOutsDone, Phases
    <3>11. CASE ResumeDone          BY <3>11 DEF ResumeDone, SleepOrStop, Phases
    <3>12. CASE Wake                BY <3>12 DEF Wake, Phases
    <3> QED  BY <2>1, <3>1, <3>2, <3>3, <3>4, <3>5, <3>6, <3>7, <3>8, <3>9,
                <3>10, <3>11, <3>12 DEF LoopStep
  <2>2. CASE LpcStep
    <3>1. ASSUME NEW o \in Objects, NEW form \in {"string", "closure"},
                 NEW f \in Functions, NEW d \in Delays, CallOut(o, form, f, d)
          PROVE  TypeOK'
      <4>1. ClampDelay(d) \in Nat
        BY DelaysAssumption DEF ClampDelay
      <4>2. nextHandle \in Handles
        BY <3>1 DEF CallOut, Handles
      <4> QED  BY <3>1, <4>1, <4>2 DEF CallOut, PushBack, CallOutEntry
    <3>2. ASSUME NEW gone \in SUBSET callOuts, Cancel(gone)
          PROVE  callOuts' \subseteq CallOutEntry /\ removed' \subseteq Handles
      BY <3>2 DEF Cancel, HandlesOf, CallOutEntry
    <3>3. ASSUME NEW o \in Objects, NEW f \in Functions, RemoveCallOutByName(o, f)
          PROVE  TypeOK'
      <4>1. PICK e \in callOuts : Cancel({e})
        BY <3>3 DEF RemoveCallOutByName
      <4> QED  BY <3>2, <3>3, <4>1 DEF RemoveCallOutByName, Cancel
    <3>4. ASSUME NEW h \in Handles, RemoveCallOutByHandle(h) PROVE TypeOK'
      BY <3>2, <3>4 DEF RemoveCallOutByHandle, Cancel
    <3>5. ASSUME NEW o \in Objects, NEW to \in Intervals, SetHeartBeat(o, to)
          PROVE  TypeOK'
      BY <3>5, CastIntType, IntervalsAssumption DEF SetHeartBeat, DisableHeartbeat
    <3>6. ASSUME NEW o \in Objects, ReloadObject(o) PROVE TypeOK'
      BY <3>2, <3>6 DEF ReloadObject, DisableHeartbeat, Cancel
    <3>7. ASSUME NEW o \in Objects, Destruct(o) PROVE TypeOK'
      BY <3>7 DEF Destruct
    <3> QED  BY <2>2, <3>1, <3>3, <3>4, <3>5, <3>6, <3>7 DEF LpcStep
  <2>3. CASE RequestShutdown        BY <2>3 DEF RequestShutdown
  <2>4. CASE Elapse
    <3>1. callOuts' = {Aged(e) : e \in callOuts}
      BY <2>4 DEF Elapse, Aged
    <3>2. callOuts' \subseteq CallOutEntry
      BY <3>1, AgedType
    <3>3. hbClock' \in 0..HeartbeatCycle
      BY <2>4 DEF Elapse
    <3> QED  BY <2>4, <3>2, <3>3 DEF Elapse
  <2>5. ASSUME NEW o \in Objects, Free(o) PROVE TypeOK'
    BY <2>5 DEF Free
  <2>6. CASE UNCHANGED vars         BY <2>6 DEF vars
  <2> QED  BY <1>2, <2>1, <2>2, <2>3, <2>4, <2>5, <2>6 DEF Next
<1> QED  BY <1>1, <1>2, PTL DEF Spec

-----------------------------------------------------------------------------
\* Nothing of a sweep outlives it: tickHeartbeats() and tickCallOuts() leave
\* no snapshot entry and no running callback behind.
THEOREM SweepsDrain == Spec => []SweepsDrained
<1>1. Init => SweepsDrained
  BY DEF Init, SweepsDrained
<1>2. SweepsDrained /\ [Next]_vars => SweepsDrained'
  BY DEF SweepsDrained, Next, LoopStep, LpcStep, vars, loopVars, callVars, hbVars,
         EnterRun, TickHeartbeats, SkipHeartbeats, FireHeartbeat, CallbackEnds,
         HeartbeatsDone, EveryHeartbeatFired, ResetsDone, ExtractCallOuts, FireCallOut,
         CallOutsDone, ResumeDone, SleepOrStop, Wake, CallOut, PushBack, Cancel,
         RemoveCallOutByName, RemoveCallOutByHandle, SetHeartBeat, DisableHeartbeat,
         ReloadObject, Destruct, RequestShutdown, Free, Elapse
<1> QED  BY <1>1, <1>2, PTL DEF Spec

-----------------------------------------------------------------------------
\* Moving the entries S out of T leaves the handles of T minus those of S.
LEMMA HandlesMove ==
  ASSUME NEW T, NEW S \in SUBSET T, \A d, e \in T : d.handle = e.handle => d = e
  PROVE  /\ HandlesOf(T \ S) = HandlesOf(T) \ HandlesOf(S)
         /\ HandlesOf(S) \subseteq HandlesOf(T)
  BY DEF HandlesOf

\* Cancelling pending entries keeps every handle accounted for.
LEMMA CancelAccounts ==
  ASSUME TypeOK, HandlesAccounted, NEW gone \in SUBSET callOuts, Cancel(gone)
  PROVE  HandlesAccounted'
<1>1. /\ HandlesOf(callOuts') = HandlesOf(callOuts) \ HandlesOf(gone)
      /\ HandlesOf(gone) \subseteq HandlesOf(callOuts)
  BY HandlesMove DEF Cancel, HandlesAccounted, UniqueHandles
<1>2. UniqueHandles'
  BY DEF Cancel, HandlesAccounted, UniqueHandles
<1> QED  BY <1>1, <1>2 DEF Cancel, HandlesAccounted, Disjoint

\* No call_out is lost, fired twice, or fired after a successful cancel: the
\* handles tickCallOuts(), call_out(), remove_call_out() and reload_object()
\* move around are always in exactly one place.
THEOREM CallOutsAccounted == Spec => []HandlesAccounted
<1>1. Init => HandlesAccounted
  BY DEF Init, HandlesAccounted, HandlesOf, UniqueHandles, Disjoint
<1>2. ASSUME TypeOK, SweepsDrained, HandlesAccounted, [Next]_vars PROVE HandlesAccounted'
  <2>1. CASE UNCHANGED callVars
    BY <1>2, <2>1 DEF callVars, HandlesAccounted, HandlesOf, UniqueHandles, Disjoint
  <2>2. CASE ExtractCallOuts
    <3> DEFINE due == {e \in callOuts : Due(e)}
    <3>1. dueCallOuts' = due /\ callOuts' = callOuts \ due
      BY <2>2 DEF ExtractCallOuts
    <3>2. UNCHANGED <<nextHandle, fired, dropped, removed>>
      BY <2>2 DEF ExtractCallOuts
    <3>3. dueCallOuts = {}
      BY <1>2, <2>2 DEF ExtractCallOuts, SweepsDrained
    <3>4. HandlesOf(callOuts') = HandlesOf(callOuts) \ HandlesOf(due)
      BY <1>2, <3>1, HandlesMove DEF HandlesAccounted, UniqueHandles
    <3>5. HandlesOf(due) \subseteq HandlesOf(callOuts) /\ HandlesOf(dueCallOuts) = {}
      BY <3>3 DEF HandlesOf
    <3>6. UniqueHandles'
      BY <1>2, <3>1 DEF HandlesAccounted, UniqueHandles
    <3>7. HandlesOf(dueCallOuts') = HandlesOf(due)
      BY <3>1
    <3> HIDE DEF due
    <3> QED  BY <1>2, <3>2, <3>4, <3>5, <3>6, <3>7 DEF HandlesAccounted, Disjoint
  <2>3. CASE FireCallOut
    <3>1. PICK e \in dueCallOuts :
             /\ dueCallOuts' = dueCallOuts \ {e}
             /\ \/ fired' = fired \union {e.handle} /\ UNCHANGED dropped
                \/ dropped' = dropped \union {e.handle} /\ UNCHANGED fired
             /\ UNCHANGED <<callOuts, nextHandle, removed>>
      BY <2>3 DEF FireCallOut
    <3>2. HandlesOf(dueCallOuts') = HandlesOf(dueCallOuts) \ {e.handle}
      BY <1>2, <3>1 DEF HandlesOf, HandlesAccounted, UniqueHandles
    <3>3. UniqueHandles'
      BY <1>2, <3>1 DEF HandlesAccounted, UniqueHandles
    <3>4. e.handle \in HandlesOf(dueCallOuts) /\ HandlesOf(callOuts)' = HandlesOf(callOuts)
      BY <3>1 DEF HandlesOf
    <3>5. e.handle \notin fired \union dropped \union removed \union HandlesOf(callOuts)
      BY <1>2, <3>4 DEF HandlesAccounted, Disjoint
    <3>6. CASE fired' = fired \union {e.handle} /\ UNCHANGED dropped
      <4>1. (HandlesOf(callOuts) \union HandlesOf(dueCallOuts) \union fired \union dropped
                \union removed)' = 1..(nextHandle' - 1)
        BY <1>2, <3>1, <3>2, <3>4, <3>6 DEF HandlesAccounted
      <4>2. /\ Disjoint(HandlesOf(callOuts)', HandlesOf(dueCallOuts)')
            /\ Disjoint((HandlesOf(callOuts) \union HandlesOf(dueCallOuts))',
                        (fired \union dropped \union removed)')
        <5>1. HandlesOf(dueCallOuts)' \subseteq HandlesOf(dueCallOuts)
          BY <3>2
        <5>2. e.handle \notin HandlesOf(dueCallOuts)'
          BY <3>2
        <5>3. Disjoint(HandlesOf(callOuts)', HandlesOf(dueCallOuts)')
          BY <1>2, <3>4, <5>1 DEF HandlesAccounted, Disjoint
        <5>4. (fired \union dropped \union removed)'
                 = fired \union dropped \union removed \union {e.handle}
          BY <3>1, <3>6
        <5>5. Disjoint(HandlesOf(callOuts) \union HandlesOf(dueCallOuts),
                       fired \union dropped \union removed)
          BY <1>2 DEF HandlesAccounted
        <5>6. Disjoint((HandlesOf(callOuts) \union HandlesOf(dueCallOuts))',
                       (fired \union dropped \union removed)')
          BY <3>4, <3>5, <5>1, <5>2, <5>4, <5>5 DEF Disjoint
        <5> QED  BY <5>3, <5>6
      <4>3. Disjoint(fired', dropped') /\ Disjoint((fired \union dropped)', removed')
        BY <1>2, <3>1, <3>5, <3>6 DEF HandlesAccounted, Disjoint
      <4> QED  BY <3>3, <4>1, <4>2, <4>3 DEF HandlesAccounted
    <3>7. CASE dropped' = dropped \union {e.handle} /\ UNCHANGED fired
      BY <1>2, <3>1, <3>2, <3>3, <3>4, <3>5, <3>7 DEF HandlesAccounted, Disjoint
    <3> QED  BY <3>1, <3>6, <3>7
  <2>4. ASSUME NEW o \in Objects, NEW form \in {"string", "closure"},
               NEW f \in Functions, NEW d \in Delays, CallOut(o, form, f, d)
        PROVE  HandlesAccounted'
    <3> DEFINE e == [handle |-> nextHandle, form |-> form, owner |-> o,
                     function |-> f, left |-> ClampDelay(d)]
    <3>1. /\ callOuts' = callOuts \union {e} /\ nextHandle' = nextHandle + 1
          /\ UNCHANGED <<dueCallOuts, fired, dropped, removed>>
      BY <2>4 DEF CallOut, PushBack
    <3>e. e.handle = nextHandle
      OBVIOUS
    <3> HIDE DEF e
    <3>2. HandlesOf(callOuts') = HandlesOf(callOuts) \union {nextHandle}
      BY <3>1, <3>e DEF HandlesOf
    <3>3. /\ 1..(nextHandle' - 1) = 1..(nextHandle - 1) \union {nextHandle}
          /\ nextHandle \notin 1..(nextHandle - 1)
      BY <1>2, <3>1 DEF TypeOK
    <3>4. \A g \in callOuts \union dueCallOuts : g.handle # nextHandle
      BY <1>2, <3>3 DEF HandlesAccounted, HandlesOf
    <3>5. UniqueHandles'
      BY <1>2, <3>1, <3>4, <3>e DEF HandlesAccounted, UniqueHandles
    <3>6. HandlesOf(dueCallOuts)' = HandlesOf(dueCallOuts)
      BY <3>1 DEF HandlesOf
    <3>7. nextHandle \notin HandlesOf(callOuts) \union HandlesOf(dueCallOuts) \union fired
                            \union dropped \union removed
      BY <1>2, <3>3 DEF HandlesAccounted
    <3>8. (HandlesOf(callOuts) \union HandlesOf(dueCallOuts) \union fired \union dropped
              \union removed)' = 1..(nextHandle' - 1)
      BY <1>2, <3>1, <3>2, <3>3, <3>6 DEF HandlesAccounted
    <3>9. /\ Disjoint(HandlesOf(callOuts)', HandlesOf(dueCallOuts)')
          /\ Disjoint((HandlesOf(callOuts) \union HandlesOf(dueCallOuts))',
                      (fired \union dropped \union removed)')
      BY <1>2, <3>1, <3>2, <3>6, <3>7 DEF HandlesAccounted, Disjoint
    <3>10. Disjoint(fired', dropped') /\ Disjoint((fired \union dropped)', removed')
      BY <1>2, <3>1 DEF HandlesAccounted, Disjoint
    <3> QED  BY <3>5, <3>8, <3>9, <3>10 DEF HandlesAccounted
  <2>5. ASSUME NEW gone \in SUBSET callOuts, Cancel(gone) PROVE HandlesAccounted'
    BY <1>2, <2>5, CancelAccounts
  <2>6. ASSUME NEW o \in Objects, NEW f \in Functions, RemoveCallOutByName(o, f)
        PROVE  HandlesAccounted'
    <3>1. PICK e \in callOuts : Cancel({e})
      BY <2>6 DEF RemoveCallOutByName
    <3> QED  BY <2>5, <3>1
  <2>7. ASSUME NEW h \in Handles, RemoveCallOutByHandle(h) PROVE HandlesAccounted'
    BY <2>5, <2>7 DEF RemoveCallOutByHandle
  <2>8. ASSUME NEW o \in Objects, ReloadObject(o) PROVE HandlesAccounted'
    BY <2>5, <2>8 DEF ReloadObject
  <2>9. CASE Elapse
    <3>1. callOuts' = {Aged(e) : e \in callOuts}
      BY <2>9 DEF Elapse, Aged
    <3>2. UNCHANGED <<dueCallOuts, nextHandle, fired, dropped, removed>>
      BY <2>9 DEF Elapse
    <3>3. \A e \in callOuts : Aged(e).handle = e.handle
      BY <1>2, AgedType DEF TypeOK
    <3>4. HandlesOf(callOuts') = HandlesOf(callOuts)
      BY <3>1, <3>3 DEF HandlesOf
    <3>5. \A e \in callOuts, g \in dueCallOuts : e.handle # g.handle
      BY <1>2 DEF HandlesAccounted, Disjoint, HandlesOf
    <3>6. UniqueHandles'
      BY <1>2, <3>1, <3>2, <3>3, <3>5 DEF HandlesAccounted, UniqueHandles
    <3>7. HandlesOf(dueCallOuts)' = HandlesOf(dueCallOuts)
      BY <3>2 DEF HandlesOf
    <3> QED  BY <1>2, <3>2, <3>4, <3>6, <3>7 DEF HandlesAccounted, Disjoint
  <2> QED
    BY <1>2, <2>1, <2>2, <2>3, <2>4, <2>6, <2>7, <2>8, <2>9
    DEF Next, LoopStep, LpcStep, vars, callVars, EnterRun, TickHeartbeats, SkipHeartbeats,
        FireHeartbeat, CallbackEnds, HeartbeatsDone, ResetsDone, CallOutsDone,
        ResumeDone, Wake, SetHeartBeat, Destruct, RequestShutdown, Free
<1> QED  BY <1>1, <1>2, TypeCorrect, SweepsDrain, PTL DEF Spec

-----------------------------------------------------------------------------
\* A sweep in progress never gains an entry, so it ends.
THEOREM SweepShrinks == Spec => SweepOnlyShrinks
<1>1. [Next]_vars => [phase = "callouts" => dueCallOuts' \subseteq dueCallOuts]_vars
  BY DEF Next, LoopStep, LpcStep, vars, loopVars, callVars, hbVars,
         EnterRun, TickHeartbeats, SkipHeartbeats, FireHeartbeat, CallbackEnds,
         HeartbeatsDone, ResetsDone, ExtractCallOuts, FireCallOut, CallOutsDone,
         ResumeDone, Wake, CallOut, PushBack, Cancel, RemoveCallOutByName,
         RemoveCallOutByHandle, SetHeartBeat, ReloadObject, Destruct,
         RequestShutdown, Free, Elapse
<1> QED  BY <1>1, PTL DEF Spec, SweepOnlyShrinks

\* The scheduler never calls into a destructed or freed object.
THEOREM DeadStayUncalled == Spec => DeadNeverCalled
<1>1. [Next]_vars => [current = None /\ current' # None => life[current'] = "live"]_vars
  BY DEF Next, LoopStep, LpcStep, vars, loopVars, callVars, hbVars, Callable,
         EnterRun, TickHeartbeats, SkipHeartbeats, FireHeartbeat, CallbackEnds,
         HeartbeatsDone, ResetsDone, ExtractCallOuts, FireCallOut, CallOutsDone,
         ResumeDone, Wake, CallOut, Cancel, RemoveCallOutByName,
         RemoveCallOutByHandle, SetHeartBeat, ReloadObject, Destruct,
         RequestShutdown, Free, Elapse
<1> QED  BY <1>1, PTL DEF Spec, DeadNeverCalled

-----------------------------------------------------------------------------
\* The arguments of set_heart_beat() that an int can hold.
FitsInt(v) == -(IntModulus \div 2) <= v /\ v < IntModulus \div 2

LEMMA CastIntExact == ASSUME NEW v \in Int, FitsInt(v) PROVE CastInt(v) = v
<1> DEFINE half == IntModulus \div 2
<1>1. half \in Nat /\ 2 * half <= IntModulus
  BY IntAssumption
<1>2. v + half \in 0..(IntModulus - 1)
  BY <1>1, IntAssumption DEF FitsInt
<1>3. (v + half) % IntModulus = v + half
  BY <1>1, <1>2, IntAssumption
<1> QED  BY <1>1, <1>3 DEF CastInt

\* As long as every argument of set_heart_beat() fits an int, the entry table
\* and the interval query_heart_beat() reports agree, and a countdown is never
\* outside its interval.
THEOREM HeartbeatsConsistent ==
  ASSUME \A to \in Intervals : FitsInt(to)
  PROVE  Spec => []HeartbeatConsistent
<1>1. Init => HeartbeatConsistent
  BY DEF Init, HeartbeatConsistent
<1>2. ASSUME TypeOK, HeartbeatConsistent, [Next]_vars PROVE HeartbeatConsistent'
  <2>1. CASE UNCHANGED <<life, heartbeats, ticks, interval>>
    BY <1>2, <2>1 DEF HeartbeatConsistent
  <2>2. CASE TickHeartbeats
    BY <1>2, <2>2 DEF TickHeartbeats, CountDown, HeartbeatConsistent, TypeOK
  <2>3. ASSUME NEW o \in Objects, NEW to \in Intervals, SetHeartBeat(o, to)
        PROVE  HeartbeatConsistent'
    <3>1. to \in Int /\ CastInt(to) = to
      BY IntervalsAssumption, CastIntExact
    <3> QED  BY <1>2, <2>3, <3>1 DEF SetHeartBeat, DisableHeartbeat, hbVars,
                                    HeartbeatConsistent, TypeOK
  <2>4. ASSUME NEW o \in Objects, ReloadObject(o) PROVE HeartbeatConsistent'
    BY <1>2, <2>4 DEF ReloadObject, DisableHeartbeat, Cancel, HeartbeatConsistent, TypeOK
  <2>5. ASSUME NEW o \in Objects, Destruct(o) \/ Free(o) PROVE HeartbeatConsistent'
    BY <1>2, <2>5 DEF Destruct, Free, hbVars, HeartbeatConsistent, TypeOK
  <2> QED
    BY <1>2, <2>1, <2>2, <2>3, <2>4, <2>5
    DEF Next, LoopStep, LpcStep, vars, hbVars, EnterRun, SkipHeartbeats, FireHeartbeat,
        CallbackEnds, HeartbeatsDone, ResetsDone, ExtractCallOuts, FireCallOut,
        CallOutsDone, ResumeDone, Wake, CallOut, Cancel, RemoveCallOutByName,
        RemoveCallOutByHandle, RequestShutdown, Elapse
<1> QED  BY <1>1, <1>2, TypeCorrect, PTL DEF Spec
-----------------------------------------------------------------------------
(* The loop keeps the promise of call_out(). *)

\* What a sweep holds was due when it was extracted, and time no longer counts
\* for it.
SweepHoldsDue == \A e \in dueCallOuts : e.left = 0

LEMMA SweepDue == Spec => []SweepHoldsDue
<1>1. Init => SweepHoldsDue
  BY DEF Init, SweepHoldsDue
<1>2. SweepHoldsDue /\ [Next]_vars => SweepHoldsDue'
  BY DEF SweepHoldsDue, Due, Next, LoopStep, LpcStep, vars, loopVars, callVars, hbVars,
         EnterRun, TickHeartbeats, SkipHeartbeats, FireHeartbeat, CallbackEnds,
         HeartbeatsDone, ResetsDone, ExtractCallOuts, FireCallOut, CallOutsDone,
         ResumeDone, Wake, CallOut, PushBack, Cancel, RemoveCallOutByName,
         RemoveCallOutByHandle, SetHeartBeat, ReloadObject, Destruct,
         RequestShutdown, Free, Elapse
<1> QED  BY <1>1, <1>2, PTL DEF Spec

\* The requests of a set of entries, and the objects that can be called.
Requests(entries) == {Request(e) : e \in entries}
LiveObjects == {o \in Objects : life[o] = "live"}

\* Taking entries away takes their requests away, since no two share a handle.
LEMMA RequestsMove ==
  ASSUME NEW T, NEW S \in SUBSET T, \A d, e \in T : d.handle = e.handle => d = e
  PROVE  /\ Requests(T \ S) = Requests(T) \ Requests(S)
         /\ {w.handle : w \in Requests(S)} = HandlesOf(S)
         /\ Requests(S) \subseteq Requests(T)
<1>1. \A e \in T : Request(e).handle = e.handle
  BY DEF Request
<1>2. \A d, e \in T : Request(d) = Request(e) => d = e
  BY <1>1
<1>3. Requests(T \ S) = Requests(T) \ Requests(S)
  BY <1>2 DEF Requests
<1>4. {w.handle : w \in Requests(S)} = HandlesOf(S)
  BY <1>1 DEF Requests, HandlesOf
<1> QED  BY <1>3, <1>4 DEF Requests

\* A step that leaves the entries, the handles and their histories alone only
\* ever kills.
LEMMA QuietStep ==
  ASSUME UNCHANGED callVars, LiveObjects' \subseteq LiveObjects
  PROVE  Promise!Die
<1>1. Requests(callOuts \union dueCallOuts)' = Requests(callOuts \union dueCallOuts)
  BY DEF callVars, Requests
<1> QED  BY <1>1 DEF callVars, Promise!Die, Requests, Request, LiveObjects

LEMMA CancelStep ==
  ASSUME TypeOK, HandlesAccounted, NEW gone \in SUBSET callOuts, Cancel(gone)
  PROVE  Promise!Cancel
<1> DEFINE all == callOuts \union dueCallOuts
<1>1. UniqueHandles /\ gone \in SUBSET all
  BY DEF HandlesAccounted
<1>2. gone \intersect dueCallOuts = {}
  BY DEF HandlesAccounted, Disjoint, HandlesOf
<1>3. (callOuts \union dueCallOuts)' = all \ gone
  BY <1>2 DEF Cancel
<1>4. /\ Requests(all \ gone) = Requests(all) \ Requests(gone)
      /\ {w.handle : w \in Requests(gone)} = HandlesOf(gone)
      /\ Requests(gone) \subseteq Requests(all)
  BY <1>1, RequestsMove DEF UniqueHandles
<1>5. Requests(callOuts \union dueCallOuts)' = Requests(all \ gone)
  BY <1>3 DEF Requests
<1>6. Requests(all) \ Requests(callOuts \union dueCallOuts)' = Requests(gone)
  BY <1>4, <1>5
<1>7. removed' = removed \union {w.handle : w \in Requests(all) \ Requests(callOuts \union dueCallOuts)'}
  BY <1>4, <1>6 DEF Cancel
<1>8. Requests(callOuts \union dueCallOuts)' \subseteq Requests(all)
  BY <1>4, <1>5
<1>9. UNCHANGED <<life, nextHandle, fired, dropped>>
  BY DEF Cancel
<1> QED  BY <1>7, <1>8, <1>9 DEF Promise!Cancel, Requests, Request

\* call_out() as LPC sees it: the event loop, its sweeps and its tables
\* implement the delayed calls of module DelayedCalls.
THEOREM CallOutsImplement == Spec => CallsAsPromised
<1>1. Init => Promise!Init
  BY DEF Init, Promise!Init, Request
<1>2. ASSUME TypeOK, HandlesAccounted, SweepsDrained, SweepHoldsDue, Next
      PROVE  Promise!Next \/ UNCHANGED Promise!vars
  <2> DEFINE all == callOuts \union dueCallOuts
  <2>1. ASSUME UNCHANGED callVars, UNCHANGED life PROVE Promise!Next
    <3>1. LiveObjects' \subseteq LiveObjects
      BY <2>1 DEF LiveObjects
    <3> QED  BY <2>1, <3>1, QuietStep DEF Promise!Next
  <2>2. ASSUME NEW o \in Objects, Destruct(o) \/ Free(o) PROVE Promise!Next
    <3>1. LiveObjects' \subseteq LiveObjects /\ UNCHANGED callVars
      BY <1>2, <2>2 DEF LiveObjects, Destruct, Free, TypeOK
    <3> QED  BY <3>1, QuietStep DEF Promise!Next
  <2>3. CASE ExtractCallOuts
    <3>1. dueCallOuts = {}
      BY <1>2, <2>3 DEF ExtractCallOuts, SweepsDrained
    <3>2. (callOuts \union dueCallOuts)' = all
      BY <2>3, <3>1 DEF ExtractCallOuts
    <3>3. Requests(callOuts \union dueCallOuts)' = Requests(all)
      BY <3>2 DEF Requests
    <3>4. UNCHANGED <<life, nextHandle, fired, dropped, removed>>
      BY <2>3 DEF ExtractCallOuts
    <3> QED  BY <3>3, <3>4 DEF Promise!vars, Requests, Request
  <2>4. CASE FireCallOut
    <3>1. PICK e \in dueCallOuts :
             /\ dueCallOuts' = dueCallOuts \ {e}
             /\ \/ Callable(e.owner) /\ fired' = fired \union {e.handle} /\ UNCHANGED dropped
                \/ ~Callable(e.owner) /\ dropped' = dropped \union {e.handle} /\ UNCHANGED fired
             /\ UNCHANGED <<callOuts, nextHandle, removed, life>>
      BY <2>4 DEF FireCallOut
    <3>2. e \notin callOuts /\ UniqueHandles /\ {e} \in SUBSET all
      BY <1>2, <3>1 DEF HandlesAccounted, Disjoint, HandlesOf
    <3>3. (callOuts \union dueCallOuts)' = all \ {e}
      BY <3>1, <3>2
    <3>4. Requests(all \ {e}) = Requests(all) \ Requests({e})
      BY <3>2, RequestsMove DEF UniqueHandles
    <3>5. Requests({e}) = {Request(e)} /\ Request(e) \in Requests(all)
      BY <3>1 DEF Requests
    <3>6. Requests(callOuts \union dueCallOuts)' = Requests(all) \ {Request(e)}
      BY <3>3, <3>4, <3>5 DEF Requests
    <3>7. e \in CallOutEntry /\ e.left = 0
      BY <1>2, <3>1 DEF TypeOK, SweepHoldsDue
    <3>8. Request(e).left = 0 /\ Request(e).owner = e.owner /\ Request(e).handle = e.handle
      BY <3>7 DEF Request
    <3>9. Callable(e.owner) <=> e.owner \in LiveObjects
      BY <3>7 DEF Callable, LiveObjects, CallOutEntry
    <3>10. UNCHANGED LiveObjects
      BY <3>1 DEF LiveObjects
    <3>11. CASE Callable(e.owner) /\ fired' = fired \union {e.handle} /\ UNCHANGED dropped
      <4>1. Promise!Call(Request(e))
        BY <3>1, <3>6, <3>8, <3>9, <3>10, <3>11 DEF Promise!Call, Requests, LiveObjects
      <4> QED  BY <3>5, <4>1 DEF Promise!Next, Requests
    <3>12. CASE ~Callable(e.owner) /\ dropped' = dropped \union {e.handle} /\ UNCHANGED fired
      <4>1. Promise!Lapse(Request(e))
        BY <3>1, <3>6, <3>8, <3>9, <3>10, <3>12 DEF Promise!Lapse, Requests, LiveObjects
      <4> QED  BY <3>5, <4>1 DEF Promise!Next, Requests
    <3> QED  BY <3>1, <3>11, <3>12
  <2>5. ASSUME NEW o \in Objects, NEW form \in {"string", "closure"},
               NEW f \in Functions, NEW d \in Delays, CallOut(o, form, f, d)
        PROVE  Promise!Next
    <3> DEFINE e == [handle |-> nextHandle, form |-> form, owner |-> o,
                     function |-> f, left |-> ClampDelay(d)]
    <3>1. /\ callOuts' = callOuts \union {e} /\ dueCallOuts' = dueCallOuts
          /\ nextHandle' = nextHandle + 1
          /\ UNCHANGED <<life, fired, dropped, removed>>
      BY <2>5 DEF CallOut, PushBack
    <3>2. (callOuts \union dueCallOuts)' = all \union {e}
      BY <3>1
    <3>3. Requests(callOuts \union dueCallOuts)' = Requests(all) \union {Request(e)}
      BY <3>2 DEF Requests
    <3>4. ClampDelay(d) >= 0
      BY DelaysAssumption DEF ClampDelay
    <3>5. Request(e).handle = nextHandle /\ Request(e).left >= 0
      BY <3>4 DEF Request
    <3>6. nextHandle = (nextHandle - 1) + 1 /\ nextHandle' - 1 = (nextHandle - 1) + 1
      BY <1>2, <3>1, BoundsAssumption DEF TypeOK
    <3> HIDE DEF e
    <3>7. Promise!Request
      BY <3>1, <3>3, <3>5, <3>6 DEF Promise!Request, Requests
    <3> QED  BY <3>7 DEF Promise!Next
  <2>6. ASSUME NEW o \in Objects, NEW f \in Functions, RemoveCallOutByName(o, f)
        PROVE  Promise!Next
    <3>1. PICK e \in callOuts : Cancel({e})
      BY <2>6 DEF RemoveCallOutByName
    <3> QED  BY <1>2, <3>1, CancelStep DEF Promise!Next
  <2>7. ASSUME NEW h \in Handles, RemoveCallOutByHandle(h) PROVE Promise!Next
    <3>1. Cancel({e \in callOuts : e.handle = h})
      BY <2>7 DEF RemoveCallOutByHandle
    <3> QED  BY <1>2, <3>1, CancelStep DEF Promise!Next
  <2>8. ASSUME NEW o \in Objects, ReloadObject(o) PROVE Promise!Next
    <3>1. Cancel({e \in callOuts : e.owner = o \/ life[e.owner] # "live"})
      BY <2>8 DEF ReloadObject
    <3> QED  BY <1>2, <3>1, CancelStep DEF Promise!Next
  <2>9. CASE Elapse
    <3>1. /\ callOuts' = {Aged(e) : e \in callOuts} /\ dueCallOuts' = dueCallOuts
          /\ UNCHANGED <<life, nextHandle, fired, dropped, removed>>
      BY <2>9 DEF Elapse, Aged
    <3>2. \A e \in callOuts \union dueCallOuts : e \in CallOutEntry
      BY <1>2 DEF TypeOK
    <3>3. \A e \in dueCallOuts : Request(e).left = 0
      BY <1>2, <3>2 DEF SweepHoldsDue, Request
    <3> DEFINE Older(w) == [w EXCEPT !.left = IF @ = 0 THEN 0 ELSE @ - 1]
    <3>4. \A e \in callOuts : Request(Aged(e)) = Older(Request(e))
      BY <3>2 DEF Request, Aged, CallOutEntry
    <3>5. \A e \in dueCallOuts : Request(e) = Older(Request(e))
      BY <3>2, <3>3 DEF Request, CallOutEntry
    <3> HIDE DEF Older
    <3>6. Requests(callOuts \union dueCallOuts)'
             = {Older(w) : w \in Requests(callOuts \union dueCallOuts)}
      BY <3>1, <3>4, <3>5 DEF Requests
    <3> USE DEF Older
    <3>7. Promise!SecondPasses
      BY <3>1, <3>6 DEF Promise!SecondPasses, Requests
    <3> QED  BY <3>7 DEF Promise!Next
  <2> QED
    BY <1>2, <2>1, <2>2, <2>3, <2>4, <2>5, <2>6, <2>7, <2>8, <2>9
    DEF Next, LoopStep, LpcStep, EnterRun, TickHeartbeats, SkipHeartbeats, FireHeartbeat,
        CallbackEnds, HeartbeatsDone, ResetsDone, CallOutsDone, ResumeDone, Wake,
        SetHeartBeat, RequestShutdown
<1>3. ASSUME UNCHANGED vars PROVE UNCHANGED Promise!vars
  BY <1>3 DEF vars, loopVars, callVars, Promise!vars
<1> QED
  BY <1>1, <1>2, <1>3, TypeCorrect, CallOutsAccounted, SweepsDrain, SweepDue, PTL
  DEF Spec, CallsAsPromised, Promise!Spec
=============================================================================
