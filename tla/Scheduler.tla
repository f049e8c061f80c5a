----------------------------- MODULE Scheduler -----------------------------
(***************************************************************************)
(* The driver's single-threaded event loop, Scheduler::run(), with its two *)
(* timer tables: pending call_out()s and enabled heart_beat()s.            *)
(*                                                                         *)
(* There are no threads.  What interleaves is LPC: every phase of the loop *)
(* calls into mudlib code, and that code re-enters the scheduler through   *)
(* efuns while the loop is in the middle of a sweep over the same tables.  *)
(* A callback is therefore not one step: FireHeartbeat or FireCallOut      *)
(* starts it, any number of efun actions run inside it, and CallbackEnds   *)
(* ends it, by a return or by a caught runtime error.                      *)
(*                                                                         *)
(* Time is kept as what is left of it: a pending entry stores the seconds  *)
(* until dueAt, and hbClock the seconds since lastHeartbeat_, saturating   *)
(* at the gate, so the state space is finite without a bound on the clock. *)
(***************************************************************************)
EXTENDS Integers, FiniteSets

CONSTANTS
    Objects,          \* LPC objects
    Kept,             \* objects the loaded_ table keeps alive until destruct
    Functions,        \* function names given to the string form of call_out()
    Delays,           \* call_out() delays, in whole seconds
    Intervals,        \* arguments of set_heart_beat()
    MaxHandle,        \* bound: call_out() handles issued in one behaviour
    HeartbeatCycle,   \* kHeartbeatCycle, in seconds
    IntModulus,       \* 2^32: number of values of a C++ int
    None              \* no callback is running

ASSUME KeptAssumption    == Kept \subseteq Objects
ASSUME DelaysAssumption  == Delays \subseteq Int
ASSUME IntervalsAssumption == Intervals \subseteq Int
ASSUME BoundsAssumption  == MaxHandle \in Nat /\ HeartbeatCycle \in Nat \ {0}
ASSUME IntAssumption     == IntModulus \in Nat /\ IntModulus > 1
ASSUME NoneAssumption    == None \notin Objects

VARIABLES
    phase,          \* where Scheduler::run() is in its loop
    shutdown,       \* g_shutdownRequested
    life,           \* per object: live, destructed but referenced, or freed
    callOuts,       \* callOuts_: the pending entries
    dueCallOuts,    \* tickCallOuts()'s local vector due, what is left of it
    nextHandle,     \* nextHandle_
    heartbeats,     \* objects that have an entry in heartbeats_
    ticks,          \* HeartbeatEntry::ticksRemaining
    interval,       \* LpcObject::heartbeatInterval_
    dueHeartbeats,  \* tickHeartbeats()'s local vector due, what is left of it
    hbClock,        \* seconds since lastHeartbeat_, at most HeartbeatCycle
    current,        \* object whose scheduled callback is running, or None
    fired,          \* history: handles whose function was called
    dropped,        \* history: due handles skipped because the owner is dead
    removed         \* history: handles that were cancelled

loopVars  == <<phase, shutdown, hbClock, current>>
callVars  == <<callOuts, dueCallOuts, nextHandle, fired, dropped, removed>>
hbVars    == <<heartbeats, ticks, interval, dueHeartbeats>>
vars      == <<loopVars, callVars, hbVars, life>>

Phases == {"boot", "poll", "heartbeats", "resets", "extract", "callouts",
           "resume", "sleep", "stopped"}

Handles == 1..MaxHandle

\* CallOutEntry.  The vector is kept as a set: push_back of a monotone handle
\* and order-preserving erase keep it sorted by handle, so "the first entry"
\* is the one with the least handle.
CallOutEntry == [handle: Handles, form: {"string", "closure"}, owner: Objects,
                 function: Functions, left: Nat]

HandlesOf(entries) == {e.handle : e \in entries}

IsFirst(e, entries) == e \in entries /\ \A d \in entries : e.handle <= d.handle

\* static_cast<int>(int64_t): the value modulo 2^32, as a signed number.
CastInt(v) == LET half == IntModulus \div 2
              IN  ((v + half) % IntModulus) - half

-----------------------------------------------------------------------------
(* Initially run() has not been entered: main() is still loading the master *)
(* object, and LPC already runs.                                            *)
Init ==
    /\ phase = "boot" /\ shutdown = FALSE /\ hbClock = 0 /\ current = None
    /\ life = [o \in Objects |-> "live"]
    /\ callOuts = {} /\ dueCallOuts = {} /\ nextHandle = 1
    /\ fired = {} /\ dropped = {} /\ removed = {}
    /\ heartbeats = {} /\ dueHeartbeats = {}
    /\ ticks = [o \in Objects |-> 0]
    /\ interval = [o \in Objects |-> 0]

-----------------------------------------------------------------------------
(* Efuns: what LPC may do to the scheduler while it runs. *)

\* LPC runs while main() boots, in server.pollOnce(), in reset()/clean_up(),
\* in resumed coroutines, and inside the callback a sweep has started.
InLpc == phase \in {"boot", "poll", "resets", "resume"} \/ current # None

\* A freed object cannot be vm.currentObject(); a destructed one can, for the
\* rest of the function in which it was destructed.
CanAct(o) == InLpc /\ life[o] # "gone"

\* A negative delay is clamped to 0.
ClampDelay(delay) == IF delay < 0 THEN 0 ELSE delay

PushBack(e) == callOuts' = callOuts \union {e} /\ UNCHANGED dueCallOuts

\* call_out(): addCallOut() gives the entry the next handle and appends it.
CallOut(o, form, f, delay) ==
    /\ CanAct(o)
    /\ nextHandle <= MaxHandle
    /\ PushBack([handle |-> nextHandle, form |-> form, owner |-> o,
                 function |-> f, left |-> ClampDelay(delay)])
    /\ nextHandle' = nextHandle + 1
    /\ UNCHANGED <<loopVars, hbVars, life, fired, dropped, removed>>

\* Entries the string form of remove_call_out() may match: owner and name,
\* never a closure.  A freed owner's weak_ptr matches nothing.
Named(o, f) == {e \in callOuts : e.form = "string" /\ e.owner = o /\ e.function = f}

Cancel(gone) ==
    /\ callOuts' = callOuts \ gone
    /\ removed' = removed \union HandlesOf(gone)
    /\ UNCHANGED <<loopVars, life, dueCallOuts, nextHandle, fired, dropped>>

RemoveCallOutByName(o, f) ==
    /\ CanAct(o)
    /\ \E e \in callOuts : IsFirst(e, Named(o, f)) /\ Cancel({e})
    /\ UNCHANGED hbVars

RemoveCallOutByHandle(h) ==
    /\ InLpc
    /\ h \in HandlesOf(callOuts)
    /\ Cancel({e \in callOuts : e.handle = h})
    /\ UNCHANGED hbVars

\* Mutant: the entry goes, the interval stays.
DisableHeartbeatKeepsInterval(o) ==
    /\ heartbeats' = heartbeats \ {o}
    /\ UNCHANGED <<ticks, interval, dueHeartbeats>>

\* set_heart_beat(0) on o: erase the entry, interval 0.
DisableHeartbeat(o) ==
    /\ interval' = [interval EXCEPT ![o] = 0]
    /\ heartbeats' = heartbeats \ {o}
    /\ UNCHANGED <<ticks, dueHeartbeats>>

\* setHeartbeatInterval(): disable, reject a negative update, update, or add.
SetHeartBeat(o, to) ==
    /\ CanAct(o)
    /\ \/ /\ to = 0
          /\ DisableHeartbeat(o)
       \/ /\ to # 0 /\ o \in heartbeats /\ to < 0
          /\ UNCHANGED hbVars
       \/ /\ to # 0 /\ o \in heartbeats /\ to > 0
          /\ interval' = [interval EXCEPT ![o] = CastInt(to)]
          /\ ticks' = [ticks EXCEPT ![o] = CastInt(to)]
          /\ UNCHANGED <<heartbeats, dueHeartbeats>>
       \/ /\ to # 0 /\ o \notin heartbeats
          /\ LET n == IF to < 0 THEN 1 ELSE CastInt(to)
             IN  /\ interval' = [interval EXCEPT ![o] = n]
                 /\ ticks' = [ticks EXCEPT ![o] = n]
          /\ heartbeats' = heartbeats \union {o}
          /\ UNCHANGED dueHeartbeats
    /\ UNCHANGED <<loopVars, callVars, life>>

\* The scheduler's part of reload_object(o): set_heart_beat(0), then
\* removeAllCallOutsForObject(), which also prunes every dead owner's entry.
ReloadObject(o) ==
    /\ CanAct(o)
    /\ DisableHeartbeat(o)
    /\ Cancel({e \in callOuts : e.owner = o \/ life[e.owner] # "live"})

\* destruct() only flags the object: neither table is touched.
Destruct(o) ==
    /\ InLpc
    /\ life[o] = "live"
    /\ life' = [life EXCEPT ![o] = "destructed"]
    /\ UNCHANGED <<loopVars, callVars, hbVars>>

\* shutdown(), SIGINT or SIGTERM.
RequestShutdown ==
    /\ phase # "stopped"
    /\ shutdown' = TRUE
    /\ UNCHANGED <<phase, hbClock, current, callVars, hbVars, life>>

\* The last shared_ptr goes away.  A loaded blueprint is referenced by loaded_
\* until it is destructed; a heart_beat snapshot and a running frame hold
\* references, the weak_ptrs of both timer tables do not.
Free(o) ==
    /\ life[o] = "destructed" \/ (life[o] = "live" /\ o \notin Kept)
    /\ o \notin dueHeartbeats /\ o # current
    /\ phase # "stopped"
    /\ life' = [life EXCEPT ![o] = "gone"]
    /\ UNCHANGED <<loopVars, callVars, hbVars>>

\* A second passes: in the sleep, or while LPC or the poll takes its time.
Elapse ==
    /\ phase # "stopped"
    /\ callOuts' = {[e EXCEPT !.left = IF @ = 0 THEN 0 ELSE @ - 1] : e \in callOuts}
    /\ hbClock' = IF hbClock < HeartbeatCycle THEN hbClock + 1 ELSE hbClock
    /\ UNCHANGED <<phase, shutdown, current, dueCallOuts, nextHandle, fired,
                   dropped, removed, hbVars, life>>

-----------------------------------------------------------------------------
(* The loop. *)

\* run() begins by clearing a shutdown request made before it was entered.
EnterRun ==
    /\ phase = "boot"
    /\ phase' = "poll" /\ shutdown' = FALSE
    /\ UNCHANGED <<hbClock, current, callVars, hbVars, life>>

\* Mutant: every entry's countdown restarts in every cycle.
CountDownRestarts(o) == interval[o]

\* --ticksRemaining, restarted from the interval when it reaches 0.
CountDown(o) == IF ticks[o] - 1 < 1 THEN interval[o] ELSE ticks[o] - 1

\* pollOnce() has returned and a cycle has elapsed: tickHeartbeats() counts
\* every live entry down and snapshots who fires before any LPC runs.
TickHeartbeats ==
    LET alive == {o \in heartbeats : life[o] # "gone"}
    IN  /\ phase = "poll" /\ hbClock = HeartbeatCycle
        /\ phase' = "heartbeats" /\ hbClock' = 0
        /\ heartbeats' = alive
        /\ ticks' = [o \in Objects |-> IF o \in alive THEN CountDown(o) ELSE ticks[o]]
        /\ dueHeartbeats' = {o \in alive : ticks[o] - 1 < 1}
        /\ UNCHANGED <<shutdown, current, interval, callVars, life>>

SkipHeartbeats ==
    /\ phase = "poll" /\ hbClock < HeartbeatCycle
    /\ phase' = "extract"
    /\ UNCHANGED <<shutdown, hbClock, current, callVars, hbVars, life>>

\* Mutant: only a freed object is skipped.
CallableWhileReferenced(o) == life[o] # "gone"

\* callFunction() and callClosure() run nothing in a destructed object.
Callable(o) == life[o] = "live"

\* callFunction() on a destructed object is a no-op.  The order inside one
\* cycle (that of heartbeats_) is left open: any order.
FireHeartbeat(o) ==
    /\ phase = "heartbeats" /\ current = None
    /\ o \in dueHeartbeats
    /\ dueHeartbeats' = dueHeartbeats \ {o}
    /\ current' = IF Callable(o) THEN o ELSE None
    /\ UNCHANGED <<phase, shutdown, hbClock, callVars, heartbeats, ticks, interval, life>>

\* Mutant: an error ends the whole sweep.
CallbackEndsSweep ==
    /\ current # None
    /\ current' = None
    /\ dueCallOuts' = {} /\ dueHeartbeats' = {}
    /\ UNCHANGED <<phase, shutdown, hbClock, callOuts, nextHandle, fired, dropped,
                   removed, heartbeats, ticks, interval, life>>

\* The callback returns, or throws and the per-callback catch logs it.
CallbackEnds ==
    /\ current # None
    /\ current' = None
    /\ UNCHANGED <<phase, shutdown, hbClock, callVars, hbVars, life>>

EveryHeartbeatFired == current = None /\ dueHeartbeats = {}

HeartbeatsDone ==
    /\ phase = "heartbeats" /\ EveryHeartbeatFired
    /\ phase' = "resets"
    /\ UNCHANGED <<shutdown, hbClock, current, callVars, hbVars, life>>

\* tickResetsAndCleanup(): here, LPC that runs between two sweeps.
ResetsDone ==
    /\ phase = "resets"
    /\ phase' = "extract"
    /\ UNCHANGED <<shutdown, hbClock, current, callVars, hbVars, life>>

\* Mutant: due means strictly past.
StrictlyPast(e) == e.left < 0

Due(e) == e.left = 0

\* tickCallOuts(): pull every due entry out before calling any of them.
ExtractCallOuts ==
    LET due == {e \in callOuts : Due(e)}
    IN  /\ phase = "extract"
        /\ phase' = "callouts"
        /\ dueCallOuts' = due
        /\ callOuts' = callOuts \ due
        /\ UNCHANGED <<shutdown, hbClock, current, nextHandle, fired, dropped,
                       removed, hbVars, life>>

\* A freed target is skipped, a destructed one makes callFunction() a no-op,
\* a closure whose owner is dead throws and is logged: all three are dropped.
FireCallOut ==
    /\ phase = "callouts" /\ current = None
    /\ \E e \in dueCallOuts :
        /\ IsFirst(e, dueCallOuts)
        /\ dueCallOuts' = dueCallOuts \ {e}
        /\ \/ /\ Callable(e.owner)
              /\ current' = e.owner
              /\ fired' = fired \union {e.handle}
              /\ UNCHANGED dropped
           \/ /\ ~Callable(e.owner)
              /\ dropped' = dropped \union {e.handle}
              /\ UNCHANGED <<current, fired>>
    /\ UNCHANGED <<phase, shutdown, hbClock, callOuts, nextHandle, removed, hbVars, life>>

CallOutsDone ==
    /\ phase = "callouts" /\ current = None /\ dueCallOuts = {}
    /\ phase' = "resume"
    /\ UNCHANGED <<shutdown, hbClock, current, callVars, hbVars, life>>

\* Mutant: the flag is not read.
SleepAlways == "sleep"

SleepOrStop == IF shutdown THEN "stopped" ELSE "sleep"

\* resumeReadyAsyncTasks() has returned: leave the loop or sleep 50 ms.
ResumeDone ==
    /\ phase = "resume"
    /\ phase' = SleepOrStop
    /\ UNCHANGED <<shutdown, hbClock, current, callVars, hbVars, life>>

Wake ==
    /\ phase = "sleep"
    /\ phase' = "poll"
    /\ UNCHANGED <<shutdown, hbClock, current, callVars, hbVars, life>>

LoopStep ==
    \/ EnterRun
    \/ TickHeartbeats \/ SkipHeartbeats
    \/ \E o \in Objects : FireHeartbeat(o)
    \/ CallbackEnds \/ HeartbeatsDone \/ ResetsDone
    \/ ExtractCallOuts \/ FireCallOut \/ CallOutsDone
    \/ ResumeDone \/ Wake

LpcStep ==
    \/ \E o \in Objects, form \in {"string", "closure"}, f \in Functions, d \in Delays :
          CallOut(o, form, f, d)
    \/ \E o \in Objects, f \in Functions : RemoveCallOutByName(o, f)
    \/ \E h \in Handles : RemoveCallOutByHandle(h)
    \/ \E o \in Objects, to \in Intervals : SetHeartBeat(o, to)
    \/ \E o \in Objects : ReloadObject(o) \/ Destruct(o)

Next == LoopStep \/ LpcStep \/ RequestShutdown \/ Elapse \/ \E o \in Objects : Free(o)

Spec == Init /\ [][Next]_vars

\* The loop never blocks: poll() and sleep_for() return, and the eval-cost
\* limit ends every callback.  Time passes.  Nothing is assumed of LPC.
FairSpec == Spec /\ WF_vars(LoopStep) /\ WF_vars(Elapse)
-----------------------------------------------------------------------------
(* Properties *)

\* Every variable of the loop keeps its type.
TypeOK ==
    /\ phase \in Phases /\ shutdown \in BOOLEAN
    /\ life \in [Objects -> {"live", "destructed", "gone"}]
    /\ callOuts \subseteq CallOutEntry /\ dueCallOuts \subseteq CallOutEntry
    /\ nextHandle \in 1..(MaxHandle + 1)
    /\ fired \subseteq Handles /\ dropped \subseteq Handles /\ removed \subseteq Handles
    /\ heartbeats \subseteq Objects /\ dueHeartbeats \subseteq Objects
    /\ ticks \in [Objects -> Int] /\ interval \in [Objects -> Int]
    /\ hbClock \in 0..HeartbeatCycle
    /\ current \in Objects \union {None}

Disjoint(S, T) == S \intersect T = {}

\* No two entries, pending or extracted, carry the same handle.
UniqueHandles ==
    \A d, e \in callOuts \union dueCallOuts : d.handle = e.handle => d = e

\* Every handle call_out() has returned is in exactly one place, once: pending,
\* extracted by the running sweep, fired, dropped because its owner died, or
\* cancelled.  So no callback error, re-entrant efun or destruct loses a
\* call_out, none fires twice, and a successfully cancelled one never fires.
HandlesAccounted ==
    LET p == HandlesOf(callOuts)
        d == HandlesOf(dueCallOuts)
    IN  /\ p \union d \union fired \union dropped \union removed = 1..(nextHandle - 1)
        /\ UniqueHandles /\ Disjoint(p, d) /\ Disjoint(p \union d, fired \union dropped \union removed)
        /\ Disjoint(fired, dropped) /\ Disjoint(fired \union dropped, removed)

\* An extracted entry or a due heart_beat exists only inside its own sweep,
\* and a callback runs only inside a sweep: leaving the sweep leaves nothing
\* behind for the next iteration, whatever the callbacks did or threw.
SweepsDrained ==
    /\ phase # "callouts" => dueCallOuts = {}
    /\ phase # "heartbeats" => dueHeartbeats = {}
    /\ phase \notin {"heartbeats", "callouts"} => current = None

\* A referenced object has a heart_beat entry exactly when query_heart_beat()
\* reports an interval, and the countdown stays between 1 and that interval,
\* although callbacks change both in the middle of a cycle.
HeartbeatConsistent ==
    \A o \in Objects : life[o] # "gone" =>
        /\ o \in heartbeats <=> interval[o] # 0
        /\ o \in heartbeats => ticks[o] \in 1..interval[o]

\* A sweep over the call_outs never grows: an entry added by a callback, even
\* with delay 0, waits for the next iteration, so callbacks that reschedule
\* themselves cannot keep the loop in tickCallOuts().
SweepOnlyShrinks ==
    [][phase = "callouts" => dueCallOuts' \subseteq dueCallOuts]_vars

\* Neither sweep starts a callback in an object that is destructed or freed,
\* although entries of such objects stay in both tables.
DeadNeverCalled ==
    [][current = None /\ current' # None => life[current'] = "live"]_vars

\* A pending entry as a request: of its function nothing is promised.
Request(e) == [handle |-> e.handle, owner |-> e.owner, left |-> e.left]

Promise == INSTANCE DelayedCalls WITH
    live      <- {o \in Objects : life[o] = "live"},
    waiting   <- {Request(e) : e \in callOuts \union dueCallOuts},
    issued    <- nextHandle - 1,
    called    <- fired,
    lapsed    <- dropped,
    cancelled <- removed

\* The loop keeps the promise of call_out(), whatever LPC does to the tables
\* while a sweep holds entries outside of them: every request is called once, not
\* before its time and never after it was cancelled, unless its owner is dead.
CallsAsPromised == Promise!Spec

\* A pending call_out of an object that stays live is fired or cancelled,
\* unless the driver stops.
CallOutsFire ==
    \A h \in Handles :
        h \in HandlesOf(callOuts) ~> (h \in fired \union dropped \union removed \/ phase = "stopped")

\* An object whose heart_beat stays enabled beats again and again, unless it
\* keeps restarting its own countdown or the driver stops.
HeartbeatsBeat ==
    \A o \in Objects :
        \/ []<>(o \in dueHeartbeats)
        \/ []<>(o \notin heartbeats \/ phase = "stopped")
        \/ []<><<\E to \in Intervals : SetHeartBeat(o, to)>>_vars

\* A shutdown requested once run() has been entered ends the loop.
ShutdownStops == (shutdown /\ phase # "boot") ~> phase = "stopped"
=============================================================================
