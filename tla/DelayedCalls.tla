---------------------------- MODULE DelayedCalls ----------------------------
(***************************************************************************)
(* What call_out() promises to LPC, with no event loop and no sweep: each  *)
(* request waits under a handle of its own until its time is up, and then  *)
(* its function is called once, or the request lapses because its owner is *)
(* dead; until then it may be cancelled, and a cancelled request is never  *)
(* called.  Nothing is promised about when after its time it is called,    *)
(* nor in which order.                                                     *)
(***************************************************************************)
EXTENDS Integers

VARIABLES
    live,       \* the objects that can be called
    waiting,    \* the requests that wait: [handle, owner, left]
    issued,     \* how many handles have been given out
    called,     \* the handles of the requests whose function was called,
    lapsed,     \* those that came due after the death of their owner,
    cancelled   \* and those that were cancelled

vars == <<live, waiting, issued, called, lapsed, cancelled>>

Init ==
    /\ waiting = {} /\ issued = 0
    /\ called = {} /\ lapsed = {} /\ cancelled = {}

\* A new request gets a handle that was never used.
Request ==
    /\ \E w \in waiting' :
         /\ w.handle = issued + 1 /\ w.left >= 0
         /\ waiting' = waiting \union {w}
    /\ issued' = issued + 1
    /\ UNCHANGED <<live, called, lapsed, cancelled>>

SecondPasses ==
    /\ waiting' = {[w EXCEPT !.left = IF @ = 0 THEN 0 ELSE @ - 1] : w \in waiting}
    /\ UNCHANGED <<live, issued, called, lapsed, cancelled>>

\* Its time is up: never early, never for a dead owner, and never again.
Call(w) ==
    /\ w.left = 0 /\ w.owner \in live
    /\ waiting' = waiting \ {w}
    /\ called' = called \union {w.handle}
    /\ UNCHANGED <<live, issued, lapsed, cancelled>>

Lapse(w) ==
    /\ w.left = 0 /\ w.owner \notin live
    /\ waiting' = waiting \ {w}
    /\ lapsed' = lapsed \union {w.handle}
    /\ UNCHANGED <<live, issued, called, cancelled>>

\* remove_call_out() and reload_object().
Cancel ==
    /\ waiting' \subseteq waiting
    /\ cancelled' = cancelled \union {w.handle : w \in waiting \ waiting'}
    /\ UNCHANGED <<live, issued, called, lapsed>>

\* The dead stay dead.
Die ==
    /\ live' \subseteq live
    /\ UNCHANGED <<waiting, issued, called, lapsed, cancelled>>

Next ==
    \/ Request \/ SecondPasses \/ Cancel \/ Die
    \/ \E w \in waiting : Call(w) \/ Lapse(w)

Spec == Init /\ [][Next]_vars
=============================================================================
