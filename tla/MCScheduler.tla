---------------------------- MODULE MCScheduler ----------------------------
(* Instances of Scheduler for TLC. *)
EXTENDS Scheduler

CONSTANTS a, b

\* In-range arguments of set_heart_beat(): reject/clamp to 1, disable, 2.
InRange == {-1, 0, 2}

\* call_out() delays: clamped to 0, and one second.
ShortDelays == {-1, 1}
=============================================================================
