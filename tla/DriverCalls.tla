----------------------------- MODULE DriverCalls -----------------------------
(* The driver calling into LPC code, which calls the driver again: commands   *)
(* dispatched to the actions of their giver, init() exchanged around a move,  *)
(* and the sweep that runs reset() and clean_up()                             *)
(* (VM::dispatchCommand(), VM::moveObject(),                                  *)
(* Scheduler::tickResetsAndCleanup() and the efuns they meet).                *)
(*                                                                            *)
(* The C++ calls under way are the frames of `stack'; an LPC function is a    *)
(* frame in which any of the efuns may be called before it returns or throws. *)
(* `givers' and `verbs' are commandGiverStack_ and verbStack_, which the code *)
(* keeps apart from its calls and has to keep in step with them.              *)
EXTENDS Integers, Sequences, FiniteSets, SequencesExt

CONSTANTS
    Objects, None,
    Registry,       \* the objects in the order of LiveObjectRegistry
    Home,           \* where each object is at first
    Living,         \* the objects whose commands are enabled at first
    Given,          \* the actions each object has been given by then
    GivenBefore,    \* how many add_action() calls that took
    Resetting,      \* the objects that define reset()
    LdMud,          \* dialect: a reset() suppresses clean_up() in its sweep
    TypedVerbs,     \* first words of command lines, as sequences of letters
    ActionArgs,     \* what add_action() is given: <<verb, flag>>
    MaxOps,         \* bound: efuns LPC code calls
    MaxTurns,       \* bound: calls the event loop makes
    MaxDepth        \* bound: frames

ASSUME CallsAssumption ==
    /\ Registry \in Seq(Objects) /\ Range(Registry) = Objects
    /\ Home \in [Objects -> Objects \cup {None}] /\ None \notin Objects
    /\ Living \subseteq Objects /\ Resetting \subseteq Objects /\ LdMud \in BOOLEAN

\* add_action() has put the newest first.
ASSUME GivenAssumption ==
    /\ GivenBefore \in Nat
    /\ \A o \in Objects : LET given == Given[o] IN
          /\ given \in Seq(Range(given))
          /\ \A i \in DOMAIN given : given[i].stamp \in 1..GivenBefore
          /\ \A i, j \in DOMAIN given : i < j => given[j].stamp < given[i].stamp

VARIABLES
    obj,        \* the objects
    stack,      \* the calls under way, the newest last
    givers, verbs,
    stamp,      \* ghost: add_action() calls so far
    ops, turns

vars == <<obj, stack, givers, verbs, stamp, ops, turns>>

----------------------------------------------------------------------------
(* Objects *)

\* fresh: the object was referred to within the last hour (timeOfRef).
\* off: disableReset().
AtHomeIn(o) == SelectSeq(Registry, LAMBDA p : Home[p] = o)

NewObject(o) ==
    [alive |-> TRUE, enabled |-> o \in Living, env |-> Home[o],
     inv |-> AtHomeIn(o), actions |-> Given[o],
     reset |-> TRUE, will |-> TRUE, fresh |-> TRUE, off |-> FALSE]

Alive(o) == o \in Objects /\ obj[o].alive

\* callFunction() refers to its target before it looks for the function.
Touch(u, o) == [u EXCEPT ![o].reset = FALSE, ![o].fresh = TRUE]

Stir(u, o) == IF o = None THEN u ELSE [u EXCEPT ![o].reset = FALSE]

Without(inv, o) == SelectSeq(inv, LAMBDA p : p # o)

Unlinked(u, o) ==
    IF u[o].env = None THEN u
    ELSE [u EXCEPT ![u[o].env].inv = Without(@, o)]

Moved(u, item, dest) ==
    [Stir(Stir(Stir(Unlinked(u, item), u[item].env), item), dest)
        EXCEPT ![item].env = dest, ![dest].inv = Append(@, item)]

Destructed(u, o) == [Unlinked(u, o) EXCEPT ![o].alive = FALSE, ![o].env = None]

Near(o, giver) ==
    \/ o = giver \/ obj[o].env = giver \/ obj[giver].env = o
    \/ obj[o].env = obj[giver].env /\ obj[o].env # None

----------------------------------------------------------------------------
(* Frames *)

Lpc(o) == [kind |-> "lpc", ob |-> o]

\* dispatchCommand(): the actions still to try, of the copy made at its start.
\* last is a ghost, the stamp of the handler called last.
CommandFrame(giver, verb) ==
    [kind |-> "command", giver |-> giver, verb |-> verb,
     actions |-> obj[giver].actions, last |-> stamp + 1]

\* moveObject(): calls holds the init() calls still to make, <<whose init(),
\* whose actions>>, once the occupants have been copied.
MoveFrame(item, dest) ==
    [kind |-> "move", item |-> item, dest |-> dest, seen |-> FALSE,
     calls |-> <<<<dest, item>>>>]

Idle == stack = <<>>
Top == Last(stack)
Running == ~Idle /\ Top.kind = "lpc"
Me == Top.ob

Instead(f) == [stack EXCEPT ![Len(stack)] = f]
Room(n) == Len(stack) + n <= MaxDepth

----------------------------------------------------------------------------
(* Commands *)

Matches(a, verb) == a.verb = verb \/ (a.flag # 0 /\ IsPrefix(a.verb, verb))

Callable(a, verb) == Matches(a, verb) /\ Alive(a.owner)

\* The next of the copied actions is called with its verb and giver pushed.
CallHandler ==
    /\ ~Idle /\ Top.kind = "command"
    /\ \E i \in DOMAIN Top.actions :
          LET a == Top.actions[i] IN
          /\ Callable(a, Top.verb)
          /\ \A j \in 1..(i - 1) : ~Callable(Top.actions[j], Top.verb)
          /\ stack' = Append(Instead([Top EXCEPT !.actions = SubSeq(@, i + 1, Len(@)),
                                                 !.last = a.stamp]),
                             Lpc(a.owner))
          /\ verbs' = Append(verbs, Top.verb)
          /\ givers' = Append(givers, Top.giver)
          /\ obj' = Touch(obj, a.owner)
    /\ UNCHANGED <<stamp, ops, turns>>

\* No action is left: dispatchCommand() returns false.
CommandFails ==
    /\ ~Idle /\ Top.kind = "command"
    /\ \A i \in DOMAIN Top.actions : ~Callable(Top.actions[i], Top.verb)
    /\ stack' = Front(stack)
    /\ UNCHANGED <<obj, givers, verbs, stamp, ops, turns>>

----------------------------------------------------------------------------
(* Moves *)

\* The pairs of init() calls with those in the room, read when the room's own
\* init() has returned.
Exchanges(item, dest) ==
    FlattenSeq([i \in DOMAIN obj[dest].inv |->
        LET o == obj[dest].inv[i]
        IN  IF o = item THEN <<>> ELSE <<<<item, o>>, <<o, item>>>>])

\* Mutant: only whether the giver takes commands is looked at.
InitRunsDead(call) == obj[call[2]].enabled

\* init() is called for a giver that takes commands, which may be destructed by
\* now; callFunction() enters no destructed object.
InitRuns(call) == obj[call[2]].enabled /\ Alive(call[1])

InitCall ==
    /\ ~Idle /\ Top.kind = "move"
    /\ \E i \in DOMAIN Top.calls :
          /\ InitRuns(Top.calls[i])
          /\ \A j \in 1..(i - 1) : ~InitRuns(Top.calls[j])
          /\ stack' = Append(Instead([Top EXCEPT !.calls = SubSeq(@, i + 1, Len(@))]),
                             Lpc(Top.calls[i][1]))
          /\ givers' = Append(givers, Top.calls[i][2])
          /\ obj' = Touch(obj, Top.calls[i][1])
    /\ UNCHANGED <<verbs, stamp, ops, turns>>

NoInitLeft ==
    /\ ~Idle /\ Top.kind = "move"
    /\ \A i \in DOMAIN Top.calls : ~InitRuns(Top.calls[i])
    /\ stack' = IF Top.seen THEN Front(stack)
                ELSE Instead([Top EXCEPT !.seen = TRUE,
                                         !.calls = Exchanges(Top.item, Top.dest)])
    /\ UNCHANGED <<obj, givers, verbs, stamp, ops, turns>>

----------------------------------------------------------------------------
(* The reset() and clean_up() sweep *)

LiveObjects == SelectSeq(Registry, Alive)

SweepFrame == [kind |-> "sweep", todo |-> LiveObjects, step |-> "look",
               ready |-> FALSE, saved |-> TRUE]

NextObject(f) == [f EXCEPT !.todo = Tail(@), !.step = "look"]

\* Mutant: the time of the last reference is not looked at.
ReadyAtAnyTime(u, o) == u[o].will

Ready(u, o) == u[o].will /\ ~u[o].fresh

WasReset(u, o) == [u EXCEPT ![o].reset = TRUE]

\* A false result, or an error, is the object's last clean_up().  Its reset
\* state is what it was before the call.
CleanedUp(u, o, f, truthy) ==
    [u EXCEPT ![o].will = @ /\ truthy, ![o].reset = f.saved]

\* What follows the reset() part for the object at the head of the list: its
\* clean_up(), or the next object.
Further(u, rest, f, wasReset) ==
    LET o == Head(f.todo) IN
    IF f.ready /\ ~(wasReset /\ LdMud)
    THEN /\ stack' = rest \o <<[f EXCEPT !.step = "clean_up", !.saved = u[o].reset], Lpc(o)>>
         /\ obj' = Touch(u, o)
    ELSE stack' = Append(rest, NextObject(f)) /\ obj' = u

\* One object that is not destructed: whether it may be cleaned up is read
\* first; the timer has run out (due) or not.  An object nothing has touched
\* only has its timer pushed on.
Look(due) ==
    /\ ~Idle /\ Top.kind = "sweep" /\ Top.step = "look" /\ Top.todo # <<>>
    /\ LET o == Head(Top.todo)
           f == [Top EXCEPT !.ready = Ready(obj, o)]
           rest == Front(stack)
       IN  /\ Alive(o) /\ (due => ~obj[o].off)
           /\ IF ~due \/ obj[o].reset THEN Further(obj, rest, f, FALSE)
              ELSE IF o \in Resetting
              THEN /\ stack' = rest \o <<[f EXCEPT !.step = "reset"], Lpc(o)>>
                   /\ obj' = Touch(obj, o)
              ELSE Further(WasReset([obj EXCEPT ![o].off = TRUE], o), rest, f, TRUE)
    /\ UNCHANGED <<givers, verbs, stamp, ops, turns>>

SkipDestructed ==
    /\ ~Idle /\ Top.kind = "sweep" /\ Top.step = "look" /\ Top.todo # <<>>
    /\ ~Alive(Head(Top.todo))
    /\ stack' = Instead(NextObject(Top))
    /\ UNCHANGED <<obj, givers, verbs, stamp, ops, turns>>

\* reset() or clean_up() came back to the sweep, with a true result or not.
BackInSweep(base, truthy) ==
    LET f == Last(base)
        o == Head(f.todo)
    IN  \/ /\ ~Alive(o)
           /\ stack' = Append(Front(base), NextObject(f)) /\ obj' = obj
        \/ /\ Alive(o) /\ f.step = "reset"
           /\ Further(WasReset(obj, o), Front(base), f, TRUE)
        \/ /\ Alive(o) /\ f.step = "clean_up"
           /\ stack' = Append(Front(base), NextObject(f))
           /\ obj' = CleanedUp(obj, o, f, truthy)

EndSweep ==
    /\ ~Idle /\ Top.kind = "sweep" /\ Top.todo = <<>>
    /\ stack' = Front(stack)
    /\ UNCHANGED <<obj, givers, verbs, stamp, ops, turns>>

----------------------------------------------------------------------------
(* The ends of an LPC function *)

Guarded(f) == f.kind \in {"command", "move"}
Dropped(seq, n) == SubSeq(seq, 1, Len(seq) - n)

Return(truthy) ==
    /\ Running
    /\ LET base == Front(stack) IN
       IF base # <<>> /\ Last(base).kind = "sweep"
       THEN BackInSweep(base, truthy) /\ UNCHANGED <<givers, verbs>>
       ELSE LET guarded == base # <<>> /\ Guarded(Last(base))
                command == guarded /\ Last(base).kind = "command"
            IN  /\ stack' = IF command /\ truthy THEN Front(base) ELSE base
                /\ givers' = IF guarded THEN Front(givers) ELSE givers
                /\ verbs' = IF command THEN Front(verbs) ELSE verbs
                /\ obj' = obj
    /\ UNCHANGED <<stamp, ops, turns>>

\* Mutant: the verb is only popped when the handler returns.
VerbsAfter(d) == verbs

\* What unwinding to depth d leaves of the two stacks: the guards of the frames
\* that are left have popped their entries.
VerbsLeft(d) ==
    Dropped(verbs, Cardinality({i \in (d + 1)..Len(stack) : stack[i].kind = "command"}))
GiversLeft(d) ==
    Dropped(givers, Cardinality({i \in (d + 1)..Len(stack) : Guarded(stack[i])}))

\* An error leaves every frame down to depth d: an LPC function that catches
\* it, the sweep, or the event loop itself.
Throw(d) ==
    /\ Running
    /\ d \in {0} \cup {i \in 1..(Len(stack) - 1) : stack[i].kind \in {"lpc", "sweep"}}
    /\ \A i \in (d + 1)..Len(stack) : stack[i].kind # "sweep"
    /\ verbs' = VerbsLeft(d) /\ givers' = GiversLeft(d)
    /\ LET base == SubSeq(stack, 1, d) IN
       IF base # <<>> /\ Last(base).kind = "sweep" THEN BackInSweep(base, FALSE)
       ELSE stack' = base /\ obj' = obj
    /\ UNCHANGED <<stamp, ops, turns>>

----------------------------------------------------------------------------
(* Efuns *)

Efun == Running /\ ops < MaxOps /\ ops' = ops + 1 /\ UNCHANGED turns

\* The command giver, or none.  The fallback to the object of the connection
\* being served concerns login code and is left out.
CommandGiver == IF givers = <<>> THEN None ELSE Last(givers)

\* Mutant: the new entry goes to the end of the list.
AddedLast(list, a) == Append(list, a)

AddedFirst(list, a) == <<a>> \o list

add_action(verb, flag) ==
    /\ Efun /\ CommandGiver # None /\ Near(Me, CommandGiver)
    /\ obj' = [obj EXCEPT ![CommandGiver].actions =
                 AddedFirst(@, [verb |-> verb, flag |-> flag, owner |-> Me,
                                stamp |-> stamp + 1])]
    /\ stamp' = stamp + 1
    /\ UNCHANGED <<stack, givers, verbs>>

\* The first entry with this verb that the calling object has given.
remove_action(verb) ==
    LET giver == IF CommandGiver = None THEN Me ELSE CommandGiver IN
    /\ Efun
    /\ \E i \in DOMAIN obj[giver].actions :
          LET Mine(j) == obj[giver].actions[j].owner = Me /\ obj[giver].actions[j].verb = verb
          IN  /\ Mine(i) /\ \A j \in 1..(i - 1) : ~Mine(j)
              /\ obj' = [obj EXCEPT ![giver].actions = RemoveAt(@, i)]
    /\ UNCHANGED <<stack, givers, verbs, stamp>>

command(verb) ==
    /\ Efun /\ Room(2) /\ Alive(Me)
    /\ stack' = Append(stack, CommandFrame(Me, verb))
    /\ UNCHANGED <<obj, givers, verbs, stamp>>

move_object(dest) ==
    /\ Efun /\ Room(2) /\ Me # dest /\ Alive(Me) /\ Alive(dest)
    /\ obj' = Moved(obj, Me, dest)
    /\ stack' = Append(stack, MoveFrame(Me, dest))
    /\ UNCHANGED <<givers, verbs, stamp>>

destruct(o) ==
    /\ Efun /\ Alive(o)
    /\ obj' = Destructed(obj, o)
    /\ UNCHANGED <<stack, givers, verbs, stamp>>

enable_commands(on) ==
    /\ Efun /\ obj[Me].enabled # on
    /\ obj' = [obj EXCEPT ![Me].enabled = on]
    /\ UNCHANGED <<stack, givers, verbs, stamp>>

call_other(o) ==
    /\ Efun /\ Room(1) /\ Alive(o)
    /\ stack' = Append(stack, Lpc(o))
    /\ obj' = Touch(obj, o)
    /\ UNCHANGED <<givers, verbs, stamp>>

----------------------------------------------------------------------------
(* The event loop *)

Turn == Idle /\ turns < MaxTurns /\ turns' = turns + 1
        /\ UNCHANGED <<givers, verbs, stamp, ops>>

\* A line a player typed.
Line(giver, verb) ==
    /\ Turn /\ Alive(giver)
    /\ stack' = <<CommandFrame(giver, verb)>>
    /\ UNCHANGED obj

\* A call_out, a heart_beat or a callback.
DriverCall(o) ==
    /\ Turn /\ Alive(o)
    /\ stack' = <<Lpc(o)>>
    /\ obj' = Touch(obj, o)

StartSweep ==
    /\ Turn
    /\ stack' = <<SweepFrame>>
    /\ UNCHANGED obj

\* More than an hour goes by.
HourPasses ==
    /\ Idle /\ \E o \in Objects : obj[o].fresh
    /\ obj' = [o \in Objects |-> [obj[o] EXCEPT !.fresh = FALSE]]
    /\ UNCHANGED <<stack, givers, verbs, stamp, ops, turns>>

----------------------------------------------------------------------------
Init ==
    /\ obj = [o \in Objects |-> NewObject(o)]
    /\ stack = <<>> /\ givers = <<>> /\ verbs = <<>>
    /\ stamp = GivenBefore /\ ops = 0 /\ turns = 0

Next ==
    \/ \E o \in Objects, verb \in TypedVerbs : Line(o, verb)
    \/ \E o \in Objects : DriverCall(o)
    \/ StartSweep \/ HourPasses
    \/ CallHandler \/ CommandFails \/ InitCall \/ NoInitLeft
    \/ (\E due \in BOOLEAN : Look(due)) \/ SkipDestructed \/ EndSweep
    \/ (\E truthy \in BOOLEAN : Return(truthy))
    \/ (\E d \in 0..(MaxDepth - 1) : Throw(d))
    \/ \E a \in ActionArgs : add_action(a[1], a[2]) \/ remove_action(a[1])
    \/ \E verb \in TypedVerbs : command(verb)
    \/ \E o \in Objects : move_object(o) \/ destruct(o) \/ call_other(o)
    \/ \E on \in BOOLEAN : enable_commands(on)

Spec == Init /\ [][Next]_vars

----------------------------------------------------------------------------
(* Properties *)

\* The frames that wait for a handler or an init() to return.
Waiting == {i \in 1..(Len(stack) - 1) : Guarded(stack[i])}
Commands == {i \in 1..(Len(stack) - 1) : stack[i].kind = "command"}

Place(S, i) == Cardinality({j \in S : j <= i})

\* Whatever was called, moved or thrown in between, query_verb() and
\* this_player() are those of the command or init() call under way: the two
\* stacks hold one entry for every frame that is waiting for such a call, and
\* nothing when the event loop is back.
ScopesMatchCalls ==
    /\ Len(givers) = Cardinality(Waiting) /\ Len(verbs) = Cardinality(Commands)
    /\ \A i \in Commands : /\ verbs[Place(Commands, i)] = stack[i].verb
                           /\ givers[Place(Waiting, i)] = stack[i].giver

\* The driver runs no function in a destructed object: not an action whose
\* owner an earlier action destructed, nor an init() of an occupant that an
\* earlier init() destructed, nor a reset() of an object of the sweep's copy.
DeadNotEntered ==
    [][~IsPrefix(stack', stack) /\ Last(stack').kind = "lpc" => obj'[Last(stack').ob].alive]_vars

\* A command tries the actions its giver had when it began, the newest first,
\* although handlers may add and remove actions of the same verb: an action
\* is called at most once, and never one added since.
NewestFirst ==
    \A i \in DOMAIN stack : stack[i].kind = "command" =>
        LET left == stack[i].actions IN
        \A j \in DOMAIN left : /\ left[j].stamp < stack[i].last
                               /\ \A k \in DOMAIN left : j < k => left[k].stamp < left[j].stamp

\* clean_up() is only called in an object nobody has referred to for an hour,
\* although the sweep's earlier calls may refer to the ones it has still to
\* visit; its own reset() in the same visit is no such reference, and under
\* LDMud puts clean_up() off.
CleansIdleOnly ==
    [][stack # <<>> /\ stack' # <<>> /\ stack'[1].kind = "sweep" =>
         LET was == stack[1]
             now == stack'[1]
         IN  was.step # "clean_up" /\ now.step = "clean_up" =>
               \/ ~obj[Head(now.todo)].fresh
               \/ was.step = "reset" /\ ~LdMud]_vars

=============================================================================
