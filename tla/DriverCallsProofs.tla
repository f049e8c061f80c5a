------------------------- MODULE DriverCallsProofs -------------------------
(***************************************************************************)
(* Proofs, for any objects, verbs, actions and nesting of calls, that the  *)
(* driver's own stacks and snapshots stay right while LPC code runs.       *)
(***************************************************************************)
EXTENDS DriverCalls, SequenceTheorems, FiniteSetTheorems, TLAPS

-----------------------------------------------------------------------------
(* Sequences of whatever they hold *)

IsSeq(s) == s \in Seq(Range(s))

LEMMA SeqIsSeq == ASSUME NEW S, NEW s \in Seq(S) PROVE IsSeq(s)
  BY SeqOfRange DEF IsSeq

LEMMA IsSeqLen ==
  ASSUME NEW s, IsSeq(s)
  PROVE  Len(s) \in Nat /\ DOMAIN s = 1..Len(s) /\ (s = <<>> <=> Len(s) = 0)
<1>1. Len(s) \in Nat /\ DOMAIN s = 1..Len(s)
  BY LenProperties DEF IsSeq
<1>2. s = <<>> <=> Len(s) = 0
  BY EmptySeq DEF IsSeq
<1> QED  BY <1>1, <1>2

\* A value put after a sequence.
LEMMA AppendIsSeq ==
  ASSUME NEW s, NEW x, IsSeq(s)
  PROVE  /\ IsSeq(Append(s, x)) /\ Len(Append(s, x)) = Len(s) + 1
         /\ \A i \in 1..Len(s) : Append(s, x)[i] = s[i]
         /\ Append(s, x)[Len(s) + 1] = x
<1> DEFINE S == Range(s) \union {x}
<1>1. s \in Seq(S) /\ x \in S
  BY SeqMonotonic DEF IsSeq
<1> HIDE DEF S
<1>2. /\ Append(s, x) \in Seq(S) /\ Len(Append(s, x)) = Len(s) + 1
      /\ \A i \in 1..Len(s) : Append(s, x)[i] = s[i]
      /\ Append(s, x)[Len(s) + 1] = x
  BY <1>1, AppendProperties
<1> QED  BY <1>2, SeqIsSeq

\* The first n values of a sequence.
LEMMA PrefixIsSeq ==
  ASSUME NEW s, IsSeq(s), NEW n \in 0..Len(s)
  PROVE  /\ IsSeq(SubSeq(s, 1, n)) /\ Len(SubSeq(s, 1, n)) = n
         /\ \A i \in 1..n : SubSeq(s, 1, n)[i] = s[i]
<1>1. Len(s) \in Nat /\ n \in Nat
  BY IsSeqLen
<1>2. n \in Int /\ 1 \in Int /\ \A i \in 1..n : s[i] \in Range(s)
  BY <1>1 DEF IsSeq
<1>3. /\ SubSeq(s, 1, n) \in Seq(Range(s))
      /\ Len(SubSeq(s, 1, n)) = IF 1 <= n THEN n - 1 + 1 ELSE 0
      /\ \A i \in 1..(n - 1 + 1) : SubSeq(s, 1, n)[i] = s[1 + i - 1]
  BY <1>2, SubSeqProperties
<1>4. /\ n - 1 + 1 = n /\ (IF 1 <= n THEN n - 1 + 1 ELSE 0) = n
      /\ \A i \in 1..n : 1 + i - 1 = i
  BY <1>1
<1>5. IsSeq(SubSeq(s, 1, n))
  BY <1>3, SeqIsSeq
<1> QED  BY <1>3, <1>4, <1>5, Zenon

LEMMA FrontIsSeq ==
  ASSUME NEW s, IsSeq(s), s # <<>>
  PROVE  /\ IsSeq(Front(s)) /\ Len(Front(s)) = Len(s) - 1
         /\ \A i \in 1..(Len(s) - 1) : Front(s)[i] = s[i]
<1>1. Len(s) - 1 \in 0..Len(s)
  BY IsSeqLen
<1> QED  BY <1>1, PrefixIsSeq, Zenon DEF Front

\* Two values put after a sequence.
LEMMA TwoIsSeq ==
  ASSUME NEW s, IsSeq(s), NEW x, NEW y
  PROVE  /\ IsSeq(s \o <<x, y>>) /\ Len(s \o <<x, y>>) = Len(s) + 2
         /\ \A i \in 1..Len(s) : (s \o <<x, y>>)[i] = s[i]
         /\ (s \o <<x, y>>)[Len(s) + 1] = x /\ (s \o <<x, y>>)[Len(s) + 2] = y
<1> DEFINE S == Range(s) \union {x, y}
<1>1. s \in Seq(S) /\ <<x, y>> \in Seq(S)
  BY SeqMonotonic DEF IsSeq
<1>2. Len(<<x, y>>) = 2 /\ <<x, y>>[1] = x /\ <<x, y>>[2] = y
  OBVIOUS
<1>3. Len(s) \in Nat
  BY IsSeqLen
<1> HIDE DEF S
<1>4. /\ s \o <<x, y>> \in Seq(S) /\ Len(s \o <<x, y>>) = Len(s) + Len(<<x, y>>)
      /\ \A i \in 1..(Len(s) + Len(<<x, y>>)) :
           (s \o <<x, y>>)[i] = IF i <= Len(s) THEN s[i] ELSE <<x, y>>[i - Len(s)]
  BY <1>1, ConcatProperties, Zenon
<1>5. IsSeq(s \o <<x, y>>)
  BY <1>4, SeqIsSeq, Zenon
<1>6. Len(s \o <<x, y>>) = Len(s) + 2
  BY <1>2, <1>4, Zenon
<1>7. \A i \in 1..Len(s) : i \in 1..(Len(s) + 2) /\ i <= Len(s)
  BY <1>3
<1>8. /\ Len(s) + 1 \in 1..(Len(s) + 2) /\ ~(Len(s) + 1 <= Len(s)) /\ (Len(s) + 1) - Len(s) = 1
      /\ Len(s) + 2 \in 1..(Len(s) + 2) /\ ~(Len(s) + 2 <= Len(s)) /\ (Len(s) + 2) - Len(s) = 2
  BY <1>3
<1>9. \A i \in 1..(Len(s) + 2) :
           (s \o <<x, y>>)[i] = IF i <= Len(s) THEN s[i] ELSE <<x, y>>[i - Len(s)]
  BY <1>2, <1>4, Zenon
<1>10. \A i \in 1..Len(s) : (s \o <<x, y>>)[i] = s[i]
  BY <1>7, <1>9, Zenon
<1>11. (s \o <<x, y>>)[Len(s) + 1] = x /\ (s \o <<x, y>>)[Len(s) + 2] = y
  BY <1>2, <1>8, <1>9, Zenon
<1> QED  BY <1>5, <1>6, <1>10, <1>11

\* A sequence whose values are those of the other is a prefix of it.
LEMMA PrefixByElements ==
  ASSUME NEW s, NEW t, IsSeq(s), IsSeq(t), Len(t) <= Len(s), \A i \in 1..Len(t) : t[i] = s[i]
  PROVE  IsPrefix(t, s)
<1>1. Len(s) \in Nat /\ Len(t) \in Nat /\ Len(t) \in 0..Len(s) /\ Len(t) \in 0..Len(t)
  BY IsSeqLen
<1> DEFINE u == SubSeq(t, 1, Len(t))
           v == SubSeq(s, 1, Len(t))
<1>2. IsSeq(u) /\ Len(u) = Len(t) /\ \A i \in 1..Len(t) : u[i] = t[i]
  BY <1>1, PrefixIsSeq, Zenon
<1>3. IsSeq(v) /\ Len(v) = Len(t) /\ \A i \in 1..Len(t) : v[i] = s[i]
  BY <1>1, PrefixIsSeq, Zenon
<1> HIDE DEF u, v
<1> DEFINE S == Range(u) \union Range(v)
<1>4. u \in Seq(S) /\ v \in Seq(S)
  BY <1>2, <1>3, SeqMonotonic DEF IsSeq
<1> HIDE DEF S
<1>5. u = v
  BY <1>2, <1>3, <1>4, SeqEqual
<1> QED  BY <1>5 DEF IsPrefix, u, v

-----------------------------------------------------------------------------
(* Objects *)

Fields == {"alive", "enabled", "env", "inv", "actions", "reset", "will", "fresh", "off"}

Shaped(u) == DOMAIN u = Objects /\ \A o \in Objects : DOMAIN u[o] = Fields

\* v has the objects of u, with the same actions.
SameActions(u, v) == Shaped(v) /\ \A o \in Objects : v[o].actions = u[o].actions

SameLives(u, v) == SameActions(u, v) /\ \A o \in Objects : v[o].alive = u[o].alive

LEMMA TouchKeeps == ASSUME NEW u, NEW o, Shaped(u) PROVE SameLives(u, Touch(u, o))
  BY DEF Touch, SameLives, SameActions, Shaped, Fields

LEMMA WasResetKeeps == ASSUME NEW u, NEW o, Shaped(u) PROVE SameLives(u, WasReset(u, o))
  BY DEF WasReset, SameLives, SameActions, Shaped, Fields

LEMMA OffKeeps == ASSUME NEW u, NEW o, Shaped(u) PROVE SameLives(u, [u EXCEPT ![o].off = TRUE])
  BY DEF SameLives, SameActions, Shaped, Fields

LEMMA CleanedUpKeeps ==
  ASSUME NEW u, NEW o, NEW f, NEW truthy, Shaped(u) PROVE SameLives(u, CleanedUp(u, o, f, truthy))
  BY DEF CleanedUp, SameLives, SameActions, Shaped, Fields

LEMMA StirKeeps == ASSUME NEW u, NEW o, Shaped(u) PROVE SameLives(u, Stir(u, o))
  BY DEF Stir, SameLives, SameActions, Shaped, Fields

LEMMA UnlinkedKeeps == ASSUME NEW u, NEW o, Shaped(u) PROVE SameLives(u, Unlinked(u, o))
  BY DEF Unlinked, SameLives, SameActions, Shaped, Fields

LEMMA SameLivesTransitive ==
  ASSUME NEW u, NEW v, NEW w, SameLives(u, v), SameLives(v, w) PROVE SameLives(u, w)
  BY Zenon DEF SameLives, SameActions

LEMMA MovedKeeps ==
  ASSUME NEW u, NEW item, NEW dest, Shaped(u) PROVE SameLives(u, Moved(u, item, dest))
<1> DEFINE a == Unlinked(u, item)
           b == Stir(a, u[item].env)
           c == Stir(b, item)
           d == Stir(c, dest)
<1>1. SameLives(u, a) /\ Shaped(a)
  BY UnlinkedKeeps DEF SameLives, SameActions
<1>2. SameLives(u, b) /\ Shaped(b)
  BY <1>1, StirKeeps, SameLivesTransitive DEF SameLives, SameActions
<1>3. SameLives(u, c) /\ Shaped(c)
  BY <1>2, StirKeeps, SameLivesTransitive DEF SameLives, SameActions
<1>4. SameLives(u, d) /\ Shaped(d)
  BY <1>3, StirKeeps, SameLivesTransitive DEF SameLives, SameActions
<1> HIDE DEF d
<1>5. SameLives(d, [d EXCEPT ![item].env = dest, ![dest].inv = Append(@, item)])
  BY <1>4 DEF SameLives, SameActions, Shaped, Fields
<1> QED  BY <1>4, <1>5, SameLivesTransitive DEF Moved, d

LEMMA DestructedKeeps ==
  ASSUME NEW u, NEW o, Shaped(u) PROVE SameActions(u, Destructed(u, o))
<1> DEFINE v == Unlinked(u, o)
<1>1. SameActions(u, v) /\ Shaped(v)
  BY UnlinkedKeeps DEF SameLives, SameActions
<1> HIDE DEF v
<1>2. SameActions(v, [v EXCEPT ![o].alive = FALSE, ![o].env = None])
  BY <1>1 DEF SameActions, Shaped, Fields
<1> QED  BY <1>1, <1>2 DEF Destructed, v, SameActions

-----------------------------------------------------------------------------
(* Frames, and what a step does to the stack *)

FrameShape(f) ==
    \/ f.kind = "lpc" /\ DOMAIN f = {"kind", "ob"}
    \/ f.kind = "command" /\ DOMAIN f = {"kind", "giver", "verb", "actions", "last"}
    \/ f.kind = "move" /\ DOMAIN f = {"kind", "item", "dest", "seen", "calls"}
    \/ f.kind = "sweep" /\ DOMAIN f = {"kind", "todo", "step", "ready", "saved"}

\* The driver's frames wait for LPC functions: none is directly on another.
CallsInv ==
    /\ Shaped(obj) /\ IsSeq(stack) /\ IsSeq(givers) /\ IsSeq(verbs)
    /\ \A i \in 1..Len(stack) : FrameShape(stack[i])
    /\ \A i \in 1..(Len(stack) - 1) : stack[i].kind # "lpc" => stack[i + 1].kind = "lpc"

\* verbStack_ and commandGiverStack_ without the entries of the calls from frame d on.
ScopesCut(d) ==
    /\ verbs' = Dropped(verbs, Cardinality({i \in Commands : i >= d}))
    /\ givers' = Dropped(givers, Cardinality({i \in Waiting : i >= d}))

\* The d oldest frames are still there, of m frames then.
Kept(d, m) == IsSeq(stack') /\ Len(stack') = m /\ \A i \in 1..d : stack'[i] = stack[i]

LivesOn(o) == o \in Objects /\ obj'[o].alive

Stays == UNCHANGED <<stack, givers, verbs>>

\* A call from the event loop or from an LPC function.
Started(f) ==
    /\ Idle \/ Running
    /\ FrameShape(f) /\ UNCHANGED <<givers, verbs>>
    /\ Kept(Len(stack), Len(stack) + 1) /\ stack'[Len(stack) + 1] = f
    /\ f.kind = "lpc" => LivesOn(f.ob)
    /\ f.kind = "command" => \E g \in Objects : f.actions = obj[g].actions /\ f.last = stamp + 1
    /\ f.kind = "sweep" => f.step = "look"

\* The driver's frame on top calls an LPC function.
Entered(f, o) ==
    /\ ~Idle /\ Top.kind # "lpc" /\ FrameShape(f) /\ f.kind = Top.kind
    /\ Kept(Len(stack) - 1, Len(stack) + 1)
    /\ stack'[Len(stack)] = f /\ stack'[Len(stack) + 1] = Lpc(o) /\ LivesOn(o)
    /\ \/ /\ f.kind = "command" /\ f.verb = Top.verb /\ f.giver = Top.giver
          /\ verbs' = Append(verbs, f.verb) /\ givers' = Append(givers, f.giver)
          /\ \E i \in DOMAIN Top.actions : /\ f.actions = SubSeq(Top.actions, i + 1, Len(Top.actions))
                                           /\ f.last = Top.actions[i].stamp
       \/ f.kind = "move" /\ verbs' = verbs /\ \E g : givers' = Append(givers, g)
       \/ /\ f.kind = "sweep" /\ UNCHANGED <<givers, verbs>>
          /\ f.step = "clean_up" => ~obj[Head(f.todo)].fresh

\* The driver's frame on top goes on.
Replaced(f) ==
    /\ ~Idle /\ Top.kind \in {"move", "sweep"} /\ FrameShape(f) /\ f.kind = Top.kind
    /\ Kept(Len(stack) - 1, Len(stack)) /\ stack'[Len(stack)] = f /\ UNCHANGED <<givers, verbs>>
    /\ f.kind = "sweep" => f.step = "look"

\* The driver's frame on top is done.
Left ==
    /\ ~Idle /\ Top.kind # "lpc"
    /\ Kept(Len(stack) - 1, Len(stack) - 1) /\ UNCHANGED <<givers, verbs>>

\* LPC functions, and the driver's frames between them, end down to frame d.
Unwound(d) == Running /\ d \in 0..(Len(stack) - 1) /\ Kept(d, d) /\ ScopesCut(d)

\* They end down to the sweep, which goes on.
Resumed(d, f) ==
    /\ Running /\ d \in 1..(Len(stack) - 1) /\ stack[d].kind = "sweep" /\ ScopesCut(d)
    /\ FrameShape(f) /\ f.kind = "sweep"
    /\ stack'[d] = f
    /\ \/ Kept(d - 1, d) /\ f.step = "look"
       \/ /\ Kept(d - 1, d + 1) /\ \E o : stack'[d + 1] = Lpc(o) /\ LivesOn(o)
          /\ stack[d].step = "reset" /\ ~LdMud

StackStep ==
    \/ Stays \/ Left
    \/ \E f : Started(f) \/ Replaced(f) \/ (\E o : Entered(f, o)) \/ (\E d : Resumed(d, f))
    \/ \E d : Unwound(d)

LEMMA LpcFrame == ASSUME NEW o PROVE FrameShape(Lpc(o)) /\ Lpc(o).kind = "lpc" /\ Lpc(o).ob = o
  BY DEF Lpc, FrameShape

LEMMA TopFrame ==
  ASSUME CallsInv, ~Idle
  PROVE  /\ Len(stack) \in Nat \ {0} /\ Top = stack[Len(stack)] /\ FrameShape(Top)
  BY IsSeqLen DEF CallsInv, Idle, Top, Last

LEMMA NextObjectShape ==
  ASSUME NEW f, FrameShape(f), f.kind = "sweep"
  PROVE  FrameShape(NextObject(f)) /\ NextObject(f).kind = "sweep" /\ NextObject(f).step = "look"
  BY DEF FrameShape, NextObject

\* What the sweep does after the reset() part of a visit: it goes on to the
\* next object, or calls clean_up() in one that was ready for it.
WentOn(u, rest, f, w) ==
    /\ IsSeq(stack') /\ SameLives(u, obj') /\ \A i \in 1..Len(rest) : stack'[i] = rest[i]
    /\ FrameShape(stack'[Len(rest) + 1]) /\ stack'[Len(rest) + 1].kind = "sweep"
    /\ \/ Len(stack') = Len(rest) + 1 /\ stack'[Len(rest) + 1].step = "look"
       \/ /\ Len(stack') = Len(rest) + 2 /\ stack'[Len(rest) + 1].todo = f.todo
          /\ stack'[Len(rest) + 2] = Lpc(Head(f.todo)) /\ LivesOn(Head(f.todo))
          /\ f.ready /\ ~(w /\ LdMud)

LEMMA FurtherForm ==
  ASSUME NEW u, NEW rest, NEW f, NEW w, Shaped(u), IsSeq(rest), FrameShape(f), f.kind = "sweep",
         Head(f.todo) \in Objects, u[Head(f.todo)].alive, Further(u, rest, f, w)
  PROVE  WentOn(u, rest, f, w)
<1> DEFINE o == Head(f.todo)
<1>1. CASE f.ready /\ ~(w /\ LdMud)
  <2> DEFINE g == [f EXCEPT !.step = "clean_up", !.saved = u[o].reset]
  <2>1. stack' = rest \o <<g, Lpc(o)>> /\ obj' = Touch(u, o)
    BY <1>1 DEF Further
  <2>2. FrameShape(g) /\ g.kind = "sweep" /\ g.todo = f.todo
    BY DEF FrameShape
  <2>3. SameLives(u, obj')
    BY <2>1, TouchKeeps
  <2>4. LivesOn(o)
    BY <2>3 DEF SameLives, LivesOn
  <2> HIDE DEF g, o
  <2>5. /\ IsSeq(stack') /\ Len(stack') = Len(rest) + 2 /\ \A i \in 1..Len(rest) : stack'[i] = rest[i]
        /\ stack'[Len(rest) + 1] = g /\ stack'[Len(rest) + 2] = Lpc(o)
    <3> DEFINE t == rest \o <<g, Lpc(o)>>
    <3>1. /\ IsSeq(t) /\ Len(t) = Len(rest) + 2 /\ \A i \in 1..Len(rest) : t[i] = rest[i]
          /\ t[Len(rest) + 1] = g /\ t[Len(rest) + 2] = Lpc(o)
      BY TwoIsSeq
    <3>2. stack' = t
      BY <2>1
    <3> HIDE DEF t
    <3> QED  BY <3>1, <3>2, Zenon
  <2> QED  BY <1>1, <2>2, <2>3, <2>4, <2>5, Zenon DEF o, WentOn
<1>2. CASE ~(f.ready /\ ~(w /\ LdMud))
  <2>1. stack' = Append(rest, NextObject(f)) /\ obj' = u
    BY <1>2 DEF Further
  <2>2. SameLives(u, u)
    BY DEF SameLives, SameActions
  <2>3. /\ IsSeq(stack') /\ Len(stack') = Len(rest) + 1 /\ \A i \in 1..Len(rest) : stack'[i] = rest[i]
        /\ stack'[Len(rest) + 1] = NextObject(f)
    <3> DEFINE t == Append(rest, NextObject(f))
    <3>1. /\ IsSeq(t) /\ Len(t) = Len(rest) + 1 /\ \A i \in 1..Len(rest) : t[i] = rest[i]
          /\ t[Len(rest) + 1] = NextObject(f)
      BY AppendIsSeq
    <3>2. stack' = t
      BY <2>1
    <3> HIDE DEF t
    <3> QED  BY <3>1, <3>2, Zenon
  <2> QED  BY <2>1, <2>2, <2>3, NextObjectShape, Zenon DEF WentOn
<1> QED  BY <1>1, <1>2

LEMMA DroppedNone == ASSUME NEW s, IsSeq(s) PROVE Dropped(s, 0) = s
<1>1. Len(s) - 0 = Len(s)
  BY IsSeqLen
<1>2. SubSeq(s, 1, Len(s)) = s
  BY SubSeqFull DEF IsSeq
<1> QED  BY <1>1, <1>2 DEF Dropped

\* A frame more, above LPC code or the event loop.
LEMMA PushForm ==
  ASSUME CallsInv, NEW f, stack' = Append(stack, f)
  PROVE  Kept(Len(stack), Len(stack) + 1) /\ stack'[Len(stack) + 1] = f
<1> DEFINE t == Append(stack, f)
<1>1. /\ IsSeq(t) /\ Len(t) = Len(stack) + 1 /\ \A i \in 1..Len(stack) : t[i] = stack[i]
      /\ t[Len(stack) + 1] = f
  BY AppendIsSeq DEF CallsInv
<1>2. stack' = t
  OBVIOUS
<1> HIDE DEF t
<1> QED  BY <1>1, <1>2, Zenon DEF Kept

LEMMA InsteadIsSeq ==
  ASSUME CallsInv, ~Idle, NEW f
  PROVE  /\ IsSeq(Instead(f)) /\ Len(Instead(f)) = Len(stack)
         /\ \A i \in 1..Len(stack) : Instead(f)[i] = IF i = Len(stack) THEN f ELSE stack[i]
<1> DEFINE n == Len(stack)
           S == Range(stack) \union {f}
<1>1. n \in Nat /\ n \in 1..n /\ stack \in [1..n -> Range(stack)]
  BY TopFrame, LenProperties DEF CallsInv, IsSeq
<1>2. stack \in [1..n -> S] /\ f \in S
  BY <1>1
<1> HIDE DEF n, S
<1>3. Instead(f) = [stack EXCEPT ![n] = f]
  BY DEF Instead, n
<1>4. Instead(f) \in [1..n -> S] /\ \A i \in 1..n : Instead(f)[i] = IF i = n THEN f ELSE stack[i]
  BY <1>1, <1>2, <1>3
<1>5. Instead(f) \in Seq(S)
  BY <1>1, <1>4, SeqDef
<1>6. DOMAIN Instead(f) = 1..n /\ DOMAIN Instead(f) = 1..Len(Instead(f)) /\ Len(Instead(f)) \in Nat
  BY <1>4, <1>5, LenProperties
<1>7. Len(Instead(f)) = n
  BY <1>1, <1>6
<1> QED  BY <1>4, <1>5, <1>7, SeqIsSeq DEF n

\* The frame on top replaced, and a function called.
LEMMA EnterForm ==
  ASSUME CallsInv, ~Idle, NEW f, NEW g, stack' = Append(Instead(f), g)
  PROVE  /\ Kept(Len(stack) - 1, Len(stack) + 1)
         /\ stack'[Len(stack)] = f /\ stack'[Len(stack) + 1] = g
<1> DEFINE t == Instead(f)
           u == Append(t, g)
<1>1. Len(stack) \in 1..Len(stack) /\ Len(stack) \in Nat
  BY TopFrame
<1>2. IsSeq(t) /\ Len(t) = Len(stack) /\ \A i \in 1..Len(stack) : t[i] = IF i = Len(stack) THEN f ELSE stack[i]
  BY InsteadIsSeq, Zenon
<1> HIDE DEF t
<1>3. IsSeq(u) /\ Len(u) = Len(t) + 1 /\ (\A i \in 1..Len(t) : u[i] = t[i]) /\ u[Len(t) + 1] = g
  BY <1>2, AppendIsSeq
<1>4. stack' = u
  BY DEF t
<1> HIDE DEF u
<1>5. stack'[Len(stack) + 1] = g /\ stack'[Len(stack)] = f /\ Len(stack') = Len(stack) + 1 /\ IsSeq(stack')
  <2>1. t[Len(stack)] = f /\ u[Len(stack)] = t[Len(stack)]
    BY <1>1, <1>2, <1>3, Zenon
  <2>2. u[Len(stack) + 1] = g /\ Len(u) = Len(stack) + 1
    BY <1>2, <1>3, Zenon
  <2> QED  BY <1>3, <1>4, <2>1, <2>2, Zenon
<1>6. \A i \in 1..(Len(stack) - 1) : i \in 1..Len(stack) /\ i # Len(stack)
  BY <1>1
<1>7. \A i \in 1..(Len(stack) - 1) : stack'[i] = stack[i]
  BY <1>2, <1>3, <1>4, <1>6, Zenon
<1> QED  BY <1>5, <1>7, Zenon DEF Kept

LEMMA ReplaceForm ==
  ASSUME CallsInv, ~Idle, NEW f, stack' = Instead(f)
  PROVE  Kept(Len(stack) - 1, Len(stack)) /\ stack'[Len(stack)] = f
<1> DEFINE t == Instead(f)
<1>1. Len(stack) \in 1..Len(stack) /\ Len(stack) \in Nat
  BY TopFrame
<1>2. IsSeq(t) /\ Len(t) = Len(stack) /\ \A i \in 1..Len(stack) : t[i] = IF i = Len(stack) THEN f ELSE stack[i]
  BY InsteadIsSeq, Zenon
<1>3. stack' = t
  OBVIOUS
<1> HIDE DEF t
<1>4. \A i \in 1..(Len(stack) - 1) : i \in 1..Len(stack) /\ i # Len(stack)
  BY <1>1
<1> QED  BY <1>1, <1>2, <1>3, <1>4, Zenon DEF Kept

LEMMA CutForm ==
  ASSUME CallsInv, NEW d \in 0..Len(stack), stack' = SubSeq(stack, 1, d)
  PROVE  Kept(d, d)
<1> DEFINE t == SubSeq(stack, 1, d)
<1>1. IsSeq(t) /\ Len(t) = d /\ \A i \in 1..d : t[i] = stack[i]
  BY PrefixIsSeq DEF CallsInv
<1>2. stack' = t
  OBVIOUS
<1> HIDE DEF t
<1> QED  BY <1>1, <1>2, Zenon DEF Kept

\* A function called by the frame below it comes back: what it leaves of the stacks.
LEMMA ReturnCuts ==
  ASSUME CallsInv, Running, Len(stack) > 1, NEW d \in {Len(stack) - 1, Len(stack) - 2},
         d = Len(stack) - 2 => stack[Len(stack) - 1].kind = "command",
         verbs' = (IF stack[Len(stack) - 1].kind = "command" THEN Front(verbs) ELSE verbs),
         givers' = (IF Guarded(stack[Len(stack) - 1]) THEN Front(givers) ELSE givers)
  PROVE  ScopesCut(d)
<1> DEFINE n == Len(stack)
<1>1. n \in Nat /\ stack[n].kind = "lpc"
  BY TopFrame DEF Running
<1>2. n - 2 > 0 /\ d = n - 2 => stack[n - 2].kind = "lpc"
  <2> SUFFICES ASSUME n - 2 > 0, d = n - 2, stack[n - 2].kind # "lpc" PROVE FALSE
    OBVIOUS
  <2>1. n - 2 \in 1..(n - 1) /\ (n - 2) + 1 = n - 1
    BY <1>1
  <2>2. stack[n - 1].kind = "lpc"
    BY <2>1 DEF CallsInv
  <2> QED  BY <2>2
<1>3. {i \in Commands : i >= d} = (IF stack[n - 1].kind = "command" THEN {n - 1} ELSE {})
  BY <1>1, <1>2 DEF Commands
<1>4. {i \in Waiting : i >= d} = (IF Guarded(stack[n - 1]) THEN {n - 1} ELSE {})
  BY <1>1, <1>2 DEF Waiting, Guarded
<1>5. Cardinality({n - 1}) = 1 /\ Cardinality({}) = 0
  BY FS_Singleton, FS_EmptySet
<1>6. Dropped(verbs, 0) = verbs /\ Dropped(givers, 0) = givers
  BY DroppedNone DEF CallsInv
<1>7. Dropped(verbs, 1) = Front(verbs) /\ Dropped(givers, 1) = Front(givers)
  BY DEF Dropped, Front
<1> HIDE DEF n
<1>8. verbs' = Dropped(verbs, Cardinality({i \in Commands : i >= d}))
  BY <1>3, <1>5, <1>6, <1>7, Zenon DEF n
<1>9. givers' = Dropped(givers, Cardinality({i \in Waiting : i >= d}))
  BY <1>4, <1>5, <1>6, <1>7, Zenon DEF n
<1> QED  BY <1>8, <1>9 DEF ScopesCut

\* So does an error that is caught in an LPC function, the sweep or the event loop.
LEMMA ThrowCuts ==
  ASSUME CallsInv, Running, NEW d \in 0..(Len(stack) - 1),
         d > 0 => stack[d].kind \in {"lpc", "sweep"},
         verbs' = VerbsLeft(d), givers' = GiversLeft(d)
  PROVE  ScopesCut(d)
<1>1. Len(stack) \in Nat /\ stack[Len(stack)].kind = "lpc"
  BY TopFrame DEF Running
<1>2. {i \in (d + 1)..Len(stack) : stack[i].kind = "command"} = {i \in Commands : i >= d}
  BY <1>1 DEF Commands
<1>3. {i \in (d + 1)..Len(stack) : Guarded(stack[i])} = {i \in Waiting : i >= d}
  BY <1>1 DEF Waiting, Guarded
<1> QED  BY <1>2, <1>3, Zenon DEF ScopesCut, VerbsLeft, GiversLeft

\* reset() or clean_up() has come back to the sweep at frame d.
LEMMA BackForm ==
  ASSUME CallsInv, Running, NEW d \in 1..(Len(stack) - 1), stack[d].kind = "sweep", ScopesCut(d),
         NEW truthy, BackInSweep(SubSeq(stack, 1, d), truthy)
  PROVE  (\E f : Resumed(d, f)) /\ SameLives(obj, obj')
<1> DEFINE base == SubSeq(stack, 1, d)
           f == stack[d]
           o == Head(f.todo)
           rest == Front(base)
<1>1. Len(stack) \in Nat /\ d \in 0..Len(stack)
  BY TopFrame DEF Running
<1>2. IsSeq(base) /\ Len(base) = d /\ \A i \in 1..d : base[i] = stack[i]
  BY <1>1, PrefixIsSeq DEF CallsInv
<1> HIDE DEF base
<1>3. base # <<>> /\ Last(base) = f
  BY <1>2 DEF Last
<1>4. IsSeq(rest) /\ Len(rest) = d - 1 /\ \A i \in 1..(d - 1) : rest[i] = stack[i]
  <2>1. IsSeq(rest) /\ Len(rest) = Len(base) - 1 /\ \A i \in 1..(Len(base) - 1) : rest[i] = base[i]
    BY <1>2, <1>3, FrontIsSeq
  <2>2. \A i \in 1..(d - 1) : i \in 1..d
    OBVIOUS
  <2> QED  BY <1>2, <2>1, <2>2, Zenon
<1>5. FrameShape(f) /\ f.kind = "sweep" /\ Shaped(obj) /\ d \in Int
  BY <1>1 DEF CallsInv
<1> HIDE DEF f, rest
<1>6. BackInSweep(base, truthy)
  BY DEF base
<1>7. SameLives(obj, obj)
  BY <1>5 DEF SameLives, SameActions
<1>8. ASSUME stack' = Append(rest, NextObject(f)) PROVE Resumed(d, NextObject(f))
  <2> DEFINE t == Append(rest, NextObject(f))
  <2>1. /\ IsSeq(t) /\ Len(t) = Len(rest) + 1 /\ t[Len(rest) + 1] = NextObject(f)
        /\ \A i \in 1..Len(rest) : t[i] = rest[i]
    BY <1>4, AppendIsSeq
  <2>2. stack' = t
    BY <1>8
  <2> HIDE DEF t
  <2>3. (d - 1) + 1 = d
    BY <1>5
  <2>4. IsSeq(stack') /\ Len(stack') = d /\ stack'[d] = NextObject(f) /\ \A i \in 1..(d - 1) : stack'[i] = stack[i]
    BY <1>4, <2>1, <2>2, <2>3, Zenon
  <2> QED  BY <1>5, <2>4, NextObjectShape, Zenon DEF Resumed, Kept
<1>9. CASE ~Alive(o) /\ stack' = Append(rest, NextObject(f)) /\ obj' = obj
  BY <1>7, <1>8, <1>9
<1>10. CASE /\ Alive(o) /\ f.step = "clean_up" /\ stack' = Append(rest, NextObject(f))
            /\ obj' = CleanedUp(obj, o, f, truthy)
  BY <1>5, <1>8, <1>10, CleanedUpKeeps
<1>11. CASE Alive(o) /\ f.step = "reset" /\ Further(WasReset(obj, o), rest, f, TRUE)
  <2> DEFINE u == WasReset(obj, o)
  <2>1. SameLives(obj, u)
    BY <1>5, WasResetKeeps
  <2>2. Shaped(u) /\ Head(f.todo) \in Objects /\ u[Head(f.todo)].alive
    BY <1>11, <2>1 DEF Alive, SameLives, SameActions
  <2>0. PICK w : w /\ Further(u, rest, f, w)
    BY <1>11
  <2> HIDE DEF u
  <2> DEFINE g == stack'[Len(rest) + 1]
  <2>3. WentOn(u, rest, f, w)
    BY <1>4, <1>5, <2>0, <2>2, FurtherForm, Zenon
  <2>4. /\ IsSeq(stack') /\ SameLives(u, obj') /\ \A i \in 1..Len(rest) : stack'[i] = rest[i]
        /\ FrameShape(g) /\ g.kind = "sweep"
        /\ \/ Len(stack') = Len(rest) + 1 /\ g.step = "look"
           \/ /\ Len(stack') = Len(rest) + 2
              /\ stack'[Len(rest) + 2] = Lpc(o) /\ LivesOn(o) /\ ~LdMud
    BY <2>0, <2>3, Zenon DEF WentOn
  <2>5. (d - 1) + 1 = d /\ (d - 1) + 2 = d + 1
    BY <1>5
  <2>6. \A i \in 1..(d - 1) : stack'[i] = stack[i]
    BY <1>4, <2>4, Zenon
  <2>7. stack'[d] = g
    BY <1>4, <2>4, <2>5, Zenon
  <2>8. \/ Len(stack') = d /\ g.step = "look"
        \/ Len(stack') = d + 1 /\ stack'[d + 1] = Lpc(o) /\ LivesOn(o) /\ ~LdMud
    BY <1>4, <2>4, <2>5, Zenon
  <2>9. stack[d].step = "reset"
    BY <1>11 DEF f
  <2>10. Resumed(d, g)
    BY <2>4, <2>6, <2>7, <2>8, <2>9, Zenon DEF Resumed, Kept
  <2> QED  BY <2>1, <2>4, <2>10, SameLivesTransitive, Zenon
<1> QED  BY <1>3, <1>6, <1>9, <1>10, <1>11, Zenon DEF BackInSweep, rest

LEMMA LookForm ==
  ASSUME CallsInv, NEW due, Look(due)
  PROVE  StackStep /\ SameLives(obj, obj')
<1> DEFINE n == Len(stack)
           o == Head(Top.todo)
           f == [Top EXCEPT !.ready = Ready(obj, o)]
           rest == Front(stack)
<1>1. /\ ~Idle /\ Top.kind = "sweep" /\ Alive(o) /\ Top.step = "look"
      /\ UNCHANGED <<givers, verbs>>
  BY DEF Look
<1>2. n \in Nat \ {0} /\ Top = stack[n] /\ FrameShape(Top) /\ stack # <<>>
  BY <1>1, TopFrame DEF Idle
<1>3. FrameShape(f) /\ f.kind = "sweep" /\ f.todo = Top.todo /\ f.ready = Ready(obj, o)
  BY <1>1, <1>2 DEF FrameShape
<1>4. IsSeq(rest) /\ Len(rest) = n - 1 /\ \A i \in 1..(n - 1) : rest[i] = stack[i]
  BY <1>2, FrontIsSeq DEF CallsInv
<1>5. Shaped(obj) /\ SameLives(obj, obj)
  BY DEF CallsInv, SameLives, SameActions
<1>6. (n - 1) + 1 = n /\ (n - 1) + 2 = n + 1
  BY <1>2
<1>7. ASSUME NEW u, NEW w, SameLives(obj, u), Further(u, rest, f, w)
      PROVE  StackStep /\ SameLives(obj, obj')
  <2> HIDE DEF f, rest, o, n
  <2>1. Shaped(u) /\ Head(f.todo) \in Objects /\ u[Head(f.todo)].alive
    BY <1>1, <1>3, <1>7 DEF Alive, SameLives, SameActions, o
  <2>2. WentOn(u, rest, f, w)
    BY <1>3, <1>4, <1>7, <2>1, FurtherForm, Zenon
  <2> DEFINE g == stack'[n]
  <2>3. /\ IsSeq(stack') /\ SameLives(u, obj') /\ \A i \in 1..(n - 1) : stack'[i] = rest[i]
        /\ FrameShape(g) /\ g.kind = "sweep"
        /\ \/ Len(stack') = n /\ g.step = "look"
           \/ /\ Len(stack') = n + 1 /\ stack'[n + 1] = Lpc(o) /\ LivesOn(o)
              /\ g.todo = f.todo /\ f.ready
    BY <1>3, <1>4, <1>6, <2>2, Zenon DEF WentOn, o
  <2>4. SameLives(obj, obj')
    BY <1>7, <2>3, SameLivesTransitive, Zenon
  <2>5. \A i \in 1..(n - 1) : stack'[i] = stack[i]
    BY <1>4, <2>3, Zenon
  <2>6. CASE Len(stack') = n /\ g.step = "look"
    <3>1. Replaced(g)
      BY <1>1, <2>3, <2>5, <2>6, Zenon DEF Replaced, Kept, n
    <3> QED  BY <2>4, <3>1 DEF StackStep
  <2>7. CASE Len(stack') = n + 1 /\ stack'[n + 1] = Lpc(o) /\ LivesOn(o) /\ g.todo = f.todo /\ f.ready
    <3>1. ~obj[Head(g.todo)].fresh
      BY <1>3, <2>7 DEF Ready, o
    <3>2. Entered(g, o)
      BY <1>1, <2>3, <2>5, <2>7, <3>1, Zenon DEF Entered, Kept, n
    <3> QED  BY <2>4, <3>2 DEF StackStep
  <2> QED  BY <2>3, <2>6, <2>7
<1>8. CASE (~due \/ obj[o].reset) /\ Further(obj, rest, f, FALSE)
  BY <1>5, <1>7, <1>8
<1>9. CASE /\ stack' = rest \o <<[f EXCEPT !.step = "reset"], Lpc(o)>>
           /\ obj' = Touch(obj, o)
  <2> DEFINE g == [f EXCEPT !.step = "reset"]
  <2>1. FrameShape(g) /\ g.kind = "sweep" /\ g.step = "reset"
    BY <1>3 DEF FrameShape
  <2>2. SameLives(obj, obj')
    BY <1>5, <1>9, TouchKeeps
  <2>3. LivesOn(o)
    BY <1>1, <2>2 DEF Alive, LivesOn, SameLives
  <2> DEFINE t == rest \o <<g, Lpc(o)>>
  <2>4. stack' = t
    BY <1>9
  <2> HIDE DEF g, f, rest, o, n
  <2>5. /\ IsSeq(t) /\ Len(t) = Len(rest) + 2 /\ \A i \in 1..Len(rest) : t[i] = rest[i]
        /\ t[Len(rest) + 1] = g /\ t[Len(rest) + 2] = Lpc(o)
    BY <1>4, TwoIsSeq
  <2> HIDE DEF t
  <2>6. /\ IsSeq(stack') /\ Len(stack') = n + 1 /\ \A i \in 1..(n - 1) : stack'[i] = stack[i]
        /\ stack'[n] = g /\ stack'[n + 1] = Lpc(o)
    BY <1>4, <1>6, <2>4, <2>5, Zenon
  <2>7. g.step # "clean_up"
    BY <2>1
  <2>8. Entered(g, o)
    BY <1>1, <2>1, <2>3, <2>6, <2>7, Zenon DEF Entered, Kept, n
  <2> QED  BY <2>2, <2>8 DEF StackStep
<1>10. CASE Further(WasReset([obj EXCEPT ![o].off = TRUE], o), rest, f, TRUE)
  <2> DEFINE v == [obj EXCEPT ![o].off = TRUE]
             u == WasReset(v, o)
  <2>1. SameLives(obj, v) /\ Shaped(v)
    BY <1>5, OffKeeps DEF SameLives, SameActions
  <2> HIDE DEF v
  <2>2. SameLives(obj, u)
    BY <2>1, WasResetKeeps, SameLivesTransitive
  <2>3. Further(u, rest, f, TRUE)
    BY <1>10 DEF v
  <2> QED  BY <1>7, <2>2, <2>3
<1> QED  BY <1>8, <1>9, <1>10 DEF Look

LEMMA ReturnForm ==
  ASSUME CallsInv, NEW truthy, Return(truthy)
  PROVE  StackStep /\ SameLives(obj, obj')
<1> DEFINE n == Len(stack)
           base == Front(stack)
<1>1. Running /\ ~Idle /\ stack # <<>> /\ n \in Nat \ {0} /\ SameLives(obj, obj)
  BY TopFrame DEF Return, Running, Idle, CallsInv, SameLives, SameActions
<1>2. IsSeq(base) /\ Len(base) = n - 1 /\ \A i \in 1..(n - 1) : base[i] = stack[i]
  BY <1>1, FrontIsSeq DEF CallsInv
<1>3. base = SubSeq(stack, 1, n - 1)
  BY DEF Front
<1> HIDE DEF base
<1>4. base # <<>> <=> n > 1
  BY <1>1, <1>2, IsSeqLen
<1>5. base # <<>> => Last(base) = stack[n - 1]
  BY <1>1, <1>2, <1>4 DEF Last
<1>6. CASE base # <<>> /\ Last(base).kind = "sweep"
  <2>1. n - 1 \in 1..(n - 1) /\ stack[n - 1].kind = "sweep" /\ ~Guarded(stack[n - 1])
    BY <1>1, <1>4, <1>5, <1>6 DEF Guarded
  <2>2. BackInSweep(SubSeq(stack, 1, n - 1), truthy) /\ UNCHANGED <<givers, verbs>>
    BY <1>3, <1>6 DEF Return, base
  <2>3. ScopesCut(n - 1)
    BY <1>1, <1>4, <1>6, <2>1, <2>2, ReturnCuts
  <2>4. (\E f : Resumed(n - 1, f)) /\ SameLives(obj, obj')
    BY <1>1, <2>1, <2>2, <2>3, BackForm, Zenon
  <2> QED  BY <2>4 DEF StackStep
<1>7. CASE ~(base # <<>> /\ Last(base).kind = "sweep")
  <2> DEFINE guarded == base # <<>> /\ Guarded(Last(base))
             iscommand == guarded /\ Last(base).kind = "command"
  <2>1. /\ stack' = (IF iscommand /\ truthy THEN Front(base) ELSE base)
        /\ givers' = (IF guarded THEN Front(givers) ELSE givers)
        /\ verbs' = (IF iscommand THEN Front(verbs) ELSE verbs)
        /\ obj' = obj
    BY <1>7 DEF Return, base
  <2>2. CASE base = <<>>
    <3>1. stack' = SubSeq(stack, 1, 0) /\ n = 1 /\ UNCHANGED <<givers, verbs>>
      <4>0. ~(n > 1)
        BY <1>4, <2>2, Zenon
      <4>1. n = 1 /\ n - 1 = 0
        BY <1>1, <4>0
      <4> QED  BY <1>3, <2>1, <2>2, <4>1
    <3>2. Commands = {} /\ Waiting = {}
      BY <3>1 DEF Commands, Waiting
    <3>3. ScopesCut(0)
      <4>1. {i \in Commands : i >= 0} = {} /\ {i \in Waiting : i >= 0} = {} /\ Cardinality({}) = 0
        BY <3>2, FS_EmptySet
      <4> QED  BY <3>1, <4>1, DroppedNone DEF ScopesCut, CallsInv
    <3>4. Kept(0, 0) /\ 0 \in 0..(n - 1)
      BY <1>1, <3>1, CutForm
    <3>5. Unwound(0)
      BY <1>1, <3>3, <3>4 DEF Unwound
    <3> QED  BY <1>1, <2>1, <3>5 DEF StackStep
  <2>3. CASE base # <<>> /\ ~(iscommand /\ truthy)
    <3>1. ScopesCut(n - 1)
      BY <1>1, <1>4, <1>5, <2>1, <2>3, ReturnCuts DEF Guarded
    <3>2. Kept(n - 1, n - 1) /\ n - 1 \in 0..(n - 1)
      BY <1>1, <1>3, <2>1, <2>3, CutForm
    <3>3. Unwound(n - 1)
      BY <1>1, <3>1, <3>2 DEF Unwound
    <3> QED  BY <1>1, <2>1, <3>3 DEF StackStep
  <2>4. CASE base # <<>> /\ iscommand /\ truthy
    <3>1. ScopesCut(n - 2)
      BY <1>1, <1>4, <1>5, <2>1, <2>4, ReturnCuts DEF Guarded
    <3>2. Kept(n - 2, n - 2)
      <4> DEFINE t == Front(base)
      <4>1. IsSeq(t) /\ Len(t) = Len(base) - 1 /\ \A i \in 1..(Len(base) - 1) : t[i] = base[i]
        BY <1>2, <2>4, FrontIsSeq
      <4>2. stack' = t
        BY <2>1, <2>4
      <4> HIDE DEF t
      <4>3. (n - 1) - 1 = n - 2 /\ \A i \in 1..(n - 2) : i \in 1..(n - 1)
        BY <1>1
      <4> QED  BY <1>2, <4>1, <4>2, <4>3, Zenon DEF Kept
    <3>3. n - 2 \in 0..(n - 1)
      BY <1>1, <1>4, <2>4
    <3>4. Unwound(n - 2)
      BY <1>1, <3>1, <3>2, <3>3 DEF Unwound
    <3> QED  BY <1>1, <2>1, <3>4 DEF StackStep
  <2> QED  BY <2>2, <2>3, <2>4
<1> QED  BY <1>6, <1>7

LEMMA ThrowForm ==
  ASSUME CallsInv, NEW d, Throw(d)
  PROVE  StackStep /\ SameLives(obj, obj')
<1> DEFINE n == Len(stack)
           base == SubSeq(stack, 1, d)
<1>1. Running /\ ~Idle /\ n \in Nat \ {0} /\ SameLives(obj, obj)
  BY TopFrame DEF Throw, Running, CallsInv, SameLives, SameActions
<1>2. d \in 0..(n - 1) /\ d \in 0..n /\ (d > 0 => stack[d].kind \in {"lpc", "sweep"})
  BY <1>1 DEF Throw
<1>3. ScopesCut(d)
  BY <1>1, <1>2, ThrowCuts DEF Throw
<1>4. IsSeq(base) /\ Len(base) = d /\ \A i \in 1..d : base[i] = stack[i]
  BY <1>2, PrefixIsSeq DEF CallsInv
<1> HIDE DEF base
<1>5. (base # <<>> <=> d > 0) /\ (d > 0 => Last(base) = stack[d])
  BY <1>2, <1>4, IsSeqLen DEF Last
<1>6. CASE base # <<>> /\ Last(base).kind = "sweep"
  <2>1. d \in 1..(n - 1) /\ stack[d].kind = "sweep"
    BY <1>1, <1>2, <1>5, <1>6
  <2>2. BackInSweep(SubSeq(stack, 1, d), FALSE)
    BY <1>6 DEF Throw, base
  <2>3. (\E f : Resumed(d, f)) /\ SameLives(obj, obj')
    BY <1>1, <1>3, <2>1, <2>2, BackForm, Zenon
  <2> QED  BY <2>3 DEF StackStep
<1>7. CASE ~(base # <<>> /\ Last(base).kind = "sweep")
  <2>1. stack' = SubSeq(stack, 1, d) /\ obj' = obj
    BY <1>7 DEF Throw, base
  <2>2. Kept(d, d)
    BY <1>2, <2>1, CutForm
  <2>3. Unwound(d)
    BY <1>1, <1>2, <1>3, <2>2 DEF Unwound
  <2> QED  BY <1>1, <2>1, <2>3 DEF StackStep
<1> QED  BY <1>6, <1>7

\* Only add_action() and remove_action() change what an object can do.
ActionStep ==
    \/ SameActions(obj, obj') /\ stamp' = stamp
    \/ \E a \in ActionArgs : add_action(a[1], a[2]) \/ remove_action(a[1])

LEMMA Steps ==
  ASSUME CallsInv, [Next]_vars
  PROVE  StackStep /\ ActionStep /\ Shaped(obj')
<1>0. Shaped(obj) /\ SameLives(obj, obj) /\ SameActions(obj, obj)
  BY DEF CallsInv, SameLives, SameActions
<1> USE DEF SameLives, SameActions
<1>1. ASSUME NEW f, FrameShape(f), Idle \/ Running, UNCHANGED <<givers, verbs>>,
             stack' = Append(stack, f), f.kind = "lpc" => LivesOn(f.ob),
             f.kind = "command" => \E g \in Objects : f.actions = obj[g].actions /\ f.last = stamp + 1,
             f.kind = "sweep" => f.step = "look"
      PROVE  StackStep
  <2>1. Kept(Len(stack), Len(stack) + 1) /\ stack'[Len(stack) + 1] = f
    BY <1>1, PushForm
  <2>2. Started(f)
    BY <1>1, <2>1 DEF Started
  <2> QED  BY <2>2 DEF StackStep
<1>2. ASSUME NEW f, stack = <<>>, stack' = <<f>> PROVE stack' = Append(stack, f)
  BY <1>2
<1>3. ASSUME NEW g, NEW verb
      PROVE  /\ FrameShape(CommandFrame(g, verb)) /\ CommandFrame(g, verb).kind = "command"
             /\ CommandFrame(g, verb).actions = obj[g].actions /\ CommandFrame(g, verb).last = stamp + 1
  BY DEF CommandFrame, FrameShape
<1>4. ASSUME NEW o \in Objects, NEW verb, Line(o, verb) PROVE StackStep /\ ActionStep /\ Shaped(obj')
  BY <1>0, <1>1, <1>2, <1>3, <1>4 DEF Line, Turn, Idle, ActionStep
<1>5. ASSUME NEW o \in Objects, DriverCall(o) PROVE StackStep /\ ActionStep /\ Shaped(obj')
  <2>1. SameLives(obj, obj') /\ Alive(o)
    BY <1>0, <1>5, TouchKeeps DEF DriverCall
  <2>2. LivesOn(o)
    BY <2>1 DEF Alive, LivesOn
  <2>3. StackStep
    BY <1>1, <1>2, <1>5, <2>2, LpcFrame DEF DriverCall, Turn, Idle
  <2> QED  BY <1>5, <2>1, <2>3 DEF DriverCall, Turn, ActionStep
<1>6. CASE StartSweep
  <2>1. FrameShape(SweepFrame) /\ SweepFrame.kind = "sweep" /\ SweepFrame.step = "look"
    BY DEF SweepFrame, FrameShape
  <2>2. StackStep
    BY <1>1, <1>2, <1>6, <2>1 DEF StartSweep, Turn, Idle
  <2> QED  BY <1>0, <1>6, <2>2 DEF StartSweep, Turn, ActionStep
<1>7. CASE HourPasses
  <2>1. SameActions(obj, obj')
    BY <1>0, <1>7 DEF HourPasses, Shaped, Fields
  <2> QED  BY <1>7, <2>1 DEF HourPasses, StackStep, Stays, ActionStep
<1>8. CASE CallHandler
  <2>1. PICK i \in DOMAIN Top.actions :
          LET a == Top.actions[i] IN
          /\ Callable(a, Top.verb)
          /\ stack' = Append(Instead([Top EXCEPT !.actions = SubSeq(@, i + 1, Len(@)),
                                                 !.last = a.stamp]),
                             Lpc(a.owner))
          /\ verbs' = Append(verbs, Top.verb)
          /\ givers' = Append(givers, Top.giver)
          /\ obj' = Touch(obj, a.owner)
    BY <1>8 DEF CallHandler
  <2> DEFINE a == Top.actions[i]
             f == [Top EXCEPT !.actions = SubSeq(@, i + 1, Len(@)), !.last = a.stamp]
  <2>2. ~Idle /\ Top.kind = "command" /\ FrameShape(Top) /\ stamp' = stamp
    BY <1>8, TopFrame DEF CallHandler
  <2>3. /\ FrameShape(f) /\ f.kind = "command" /\ f.verb = Top.verb /\ f.giver = Top.giver
        /\ f.actions = SubSeq(Top.actions, i + 1, Len(Top.actions)) /\ f.last = a.stamp
    BY <2>2 DEF FrameShape
  <2>4. SameLives(obj, obj') /\ LivesOn(a.owner)
    BY <1>0, <2>1, TouchKeeps DEF Callable, Alive, LivesOn
  <2>5. stack' = Append(Instead(f), Lpc(a.owner))
    BY <2>1
  <2> HIDE DEF f
  <2>6. /\ Kept(Len(stack) - 1, Len(stack) + 1)
        /\ stack'[Len(stack)] = f /\ stack'[Len(stack) + 1] = Lpc(a.owner)
    BY <2>2, <2>5, EnterForm
  <2>7. Entered(f, a.owner)
    BY <2>1, <2>2, <2>3, <2>4, <2>6 DEF Entered
  <2> QED  BY <2>2, <2>4, <2>7 DEF StackStep, ActionStep
<1>9. CASE CommandFails \/ EndSweep
  <2>1. ~Idle /\ Top.kind # "lpc" /\ stack' = SubSeq(stack, 1, Len(stack) - 1)
    BY <1>9 DEF CommandFails, EndSweep, Front
  <2>2. Len(stack) - 1 \in 0..Len(stack)
    BY <2>1, TopFrame
  <2>3. Kept(Len(stack) - 1, Len(stack) - 1)
    BY <2>1, <2>2, CutForm
  <2>4. Left
    BY <1>9, <2>1, <2>3 DEF Left, CommandFails, EndSweep
  <2> QED  BY <1>0, <1>9, <2>4 DEF StackStep, ActionStep, CommandFails, EndSweep
<1>10. CASE InitCall
  <2>1. PICK i \in DOMAIN Top.calls :
          /\ InitRuns(Top.calls[i])
          /\ stack' = Append(Instead([Top EXCEPT !.calls = SubSeq(@, i + 1, Len(@))]),
                             Lpc(Top.calls[i][1]))
          /\ givers' = Append(givers, Top.calls[i][2])
          /\ obj' = Touch(obj, Top.calls[i][1])
    BY <1>10 DEF InitCall
  <2> DEFINE o == Top.calls[i][1]
             f == [Top EXCEPT !.calls = SubSeq(@, i + 1, Len(@))]
  <2>2. ~Idle /\ Top.kind = "move" /\ FrameShape(Top) /\ stamp' = stamp /\ verbs' = verbs
    BY <1>10, TopFrame DEF InitCall
  <2>3. FrameShape(f) /\ f.kind = "move"
    BY <2>2 DEF FrameShape
  <2>4. SameLives(obj, obj') /\ LivesOn(o)
    BY <1>0, <2>1, TouchKeeps DEF InitRuns, Alive, LivesOn
  <2>5. stack' = Append(Instead(f), Lpc(o))
    BY <2>1
  <2> HIDE DEF f, o
  <2>6. /\ Kept(Len(stack) - 1, Len(stack) + 1)
        /\ stack'[Len(stack)] = f /\ stack'[Len(stack) + 1] = Lpc(o)
    BY <2>2, <2>5, EnterForm
  <2>7. Entered(f, o)
    BY <2>1, <2>2, <2>3, <2>4, <2>6, Zenon DEF Entered
  <2> QED  BY <2>2, <2>4, <2>7 DEF StackStep, ActionStep
<1>11. CASE NoInitLeft
  <2>1. ~Idle /\ Top.kind = "move" /\ FrameShape(Top) /\ UNCHANGED <<obj, givers, verbs, stamp>>
    BY <1>11, TopFrame DEF NoInitLeft
  <2>2. CASE Top.seen
    <3>1. stack' = SubSeq(stack, 1, Len(stack) - 1) /\ Len(stack) - 1 \in 0..Len(stack)
      BY <1>11, <2>1, <2>2, TopFrame DEF NoInitLeft, Front
    <3>2. Kept(Len(stack) - 1, Len(stack) - 1)
      BY <3>1, CutForm
    <3> QED  BY <1>0, <2>1, <3>2 DEF Left, StackStep, ActionStep
  <2>3. CASE ~Top.seen
    <3> DEFINE f == [Top EXCEPT !.seen = TRUE, !.calls = Exchanges(Top.item, Top.dest)]
    <3>1. stack' = Instead(f)
      BY <1>11, <2>3 DEF NoInitLeft
    <3>2. FrameShape(f) /\ f.kind = "move"
      BY <2>1 DEF FrameShape
    <3> HIDE DEF f
    <3>3. Kept(Len(stack) - 1, Len(stack)) /\ stack'[Len(stack)] = f
      BY <2>1, <3>1, ReplaceForm
    <3>4. Replaced(f)
      BY <2>1, <3>2, <3>3 DEF Replaced
    <3> QED  BY <1>0, <2>1, <3>4 DEF StackStep, ActionStep
  <2> QED  BY <2>2, <2>3
<1>12. ASSUME NEW due, Look(due) PROVE StackStep /\ ActionStep /\ Shaped(obj')
  <2>1. StackStep /\ SameLives(obj, obj') /\ stamp' = stamp
    BY <1>12, LookForm DEF Look
  <2> QED  BY <2>1 DEF ActionStep
<1>13. CASE SkipDestructed
  <2>1. /\ ~Idle /\ Top.kind = "sweep" /\ FrameShape(Top) /\ UNCHANGED <<obj, givers, verbs, stamp>>
        /\ stack' = Instead(NextObject(Top))
    BY <1>13, TopFrame DEF SkipDestructed
  <2>2. Kept(Len(stack) - 1, Len(stack)) /\ stack'[Len(stack)] = NextObject(Top)
    BY <2>1, ReplaceForm
  <2>3. Replaced(NextObject(Top))
    BY <2>1, <2>2, NextObjectShape DEF Replaced
  <2> QED  BY <1>0, <2>1, <2>3 DEF StackStep, ActionStep
<1>14. ASSUME NEW truthy, Return(truthy) PROVE StackStep /\ ActionStep /\ Shaped(obj')
  <2>1. StackStep /\ SameLives(obj, obj') /\ stamp' = stamp
    BY <1>14, ReturnForm DEF Return
  <2> QED  BY <2>1 DEF ActionStep
<1>15. ASSUME NEW d, Throw(d) PROVE StackStep /\ ActionStep /\ Shaped(obj')
  <2>1. StackStep /\ SameLives(obj, obj') /\ stamp' = stamp
    BY <1>15, ThrowForm DEF Throw
  <2> QED  BY <2>1 DEF ActionStep
<1>16. ASSUME NEW x \in ActionArgs, add_action(x[1], x[2]) \/ remove_action(x[1])
       PROVE  StackStep /\ ActionStep /\ Shaped(obj')
  <2>1. Shaped(obj')
    BY <1>0, <1>16 DEF add_action, remove_action, Shaped, Fields
  <2>2. Stays
    BY <1>16 DEF add_action, remove_action, Stays
  <2> QED  BY <1>16, <2>1, <2>2 DEF StackStep, ActionStep
<1>17. ASSUME NEW verb, command(verb) PROVE StackStep /\ ActionStep /\ Shaped(obj')
  <2>1. Me \in Objects /\ Running
    BY <1>17 DEF command, Alive, Efun
  <2> QED  BY <1>0, <1>1, <1>3, <1>17, <2>1 DEF command, ActionStep
<1>18. ASSUME NEW o \in Objects, move_object(o) PROVE StackStep /\ ActionStep /\ Shaped(obj')
  <2>1. FrameShape(MoveFrame(Me, o)) /\ MoveFrame(Me, o).kind = "move"
    BY DEF MoveFrame, FrameShape
  <2>2. StackStep
    BY <1>1, <1>18, <2>1 DEF move_object, Efun
  <2>3. SameLives(obj, obj')
    BY <1>0, <1>18, MovedKeeps DEF move_object
  <2> QED  BY <1>18, <2>2, <2>3 DEF move_object, ActionStep
<1>19. ASSUME NEW o \in Objects, destruct(o) PROVE StackStep /\ ActionStep /\ Shaped(obj')
  <2>1. SameActions(obj, obj')
    BY <1>0, <1>19, DestructedKeeps DEF destruct
  <2> QED  BY <1>19, <2>1 DEF destruct, StackStep, Stays, ActionStep
<1>20. ASSUME NEW on, enable_commands(on) PROVE StackStep /\ ActionStep /\ Shaped(obj')
  <2>1. SameActions(obj, obj')
    BY <1>0, <1>20 DEF enable_commands, Shaped, Fields
  <2> QED  BY <1>20, <2>1 DEF enable_commands, StackStep, Stays, ActionStep
<1>21. ASSUME NEW o \in Objects, call_other(o) PROVE StackStep /\ ActionStep /\ Shaped(obj')
  <2>1. SameLives(obj, obj')
    BY <1>0, <1>21, TouchKeeps DEF call_other
  <2>2. LivesOn(o)
    BY <1>21, <2>1 DEF call_other, Alive, LivesOn
  <2>3. StackStep
    BY <1>1, <1>21, <2>2, LpcFrame DEF call_other, Efun
  <2> QED  BY <1>21, <2>1, <2>3 DEF call_other, ActionStep
<1>22. CASE UNCHANGED vars
  BY <1>0, <1>22 DEF vars, StackStep, Stays, ActionStep
<1> QED  BY <1>4, <1>5, <1>6, <1>7, <1>8, <1>9, <1>10, <1>11, <1>12, <1>13, <1>14, <1>15, <1>16,
            <1>17, <1>18, <1>19, <1>20, <1>21, <1>22 DEF Next

-----------------------------------------------------------------------------
(* The stacks of the calls *)

LEMMA Counted ==
  ASSUME NEW k \in Nat, NEW S \in SUBSET (1..k)
  PROVE  /\ IsFiniteSet(S) /\ Cardinality(S) \in Nat
         /\ \A i \in S : Place(S, i) \in 1..Cardinality(S)
<1>1. IsFiniteSet(1..k)
  BY FS_Interval
<1>2. IsFiniteSet(S) /\ Cardinality(S) \in Nat
  BY <1>1, FS_Subset, FS_CardinalityType
<1>3. ASSUME NEW i \in S PROVE Place(S, i) \in 1..Cardinality(S)
  <2> DEFINE T == {j \in S : j <= i}
  <2>1. T \in SUBSET S /\ i \in T
    OBVIOUS
  <2>2. IsFiniteSet(T) /\ Cardinality(T) <= Cardinality(S)
    BY <1>2, <2>1, FS_Subset
  <2>3. Cardinality(T) \in Nat /\ Cardinality(T) # 0
    BY <2>1, <2>2, FS_CardinalityType, FS_EmptySet
  <2> QED  BY <1>2, <2>2, <2>3 DEF Place
<1> QED  BY <1>2, <1>3

\* A frame above those counted so far.
LEMMA CountedAbove ==
  ASSUME NEW n \in Nat \ {0}, NEW S \in SUBSET (1..(n - 1))
  PROVE  /\ Cardinality(S \union {n}) = Cardinality(S) + 1
         /\ Place(S \union {n}, n) = Cardinality(S) + 1
         /\ \A i \in S : Place(S \union {n}, i) = Place(S, i)
<1>0. n - 1 \in Nat /\ (\A i \in S : i \in Int /\ i < n) /\ n \in Int /\ n <= n
  OBVIOUS
<1>1. IsFiniteSet(S) /\ n \notin S
  <2>1. IsFiniteSet(S)
    BY <1>0, Counted
  <2> QED  BY <1>0, <2>1
<1>2. Cardinality(S \union {n}) = Cardinality(S) + 1
  BY <1>1, FS_AddElement
<1>3. {j \in S \union {n} : j <= n} = S \union {n}
  <2>1. \A j \in S : j <= n
    BY <1>0
  <2> QED  BY <1>0, <2>1, Zenon
<1>4. ASSUME NEW i \in S PROVE {j \in S \union {n} : j <= i} = {j \in S : j <= i}
  <2>1. ~(n <= i)
    BY <1>0
  <2> QED  BY <2>1, Zenon
<1> QED  BY <1>2, <1>3, <1>4 DEF Place

\* The frames below d.
LEMMA CountedBelow ==
  ASSUME NEW k \in Nat, NEW S \in SUBSET (1..k), NEW d \in Nat
  PROVE  LET T == {i \in S : i < d}
             U == {i \in S : i >= d}
         IN  /\ Cardinality(T) \in Nat /\ Cardinality(S) \in Nat /\ Cardinality(U) \in Nat
             /\ Cardinality(S) - Cardinality(U) = Cardinality(T)
             /\ \A i \in T : Place(T, i) = Place(S, i) /\ Place(T, i) \in 1..Cardinality(T)
<1> DEFINE T == {i \in S : i < d}
           U == {i \in S : i >= d}
<1>0. \A i \in S : i \in Int /\ (i < d <=> ~(i >= d))
  OBVIOUS
<1>1. S = T \union U /\ T \cap U = {} /\ T \in SUBSET (1..k) /\ U \in SUBSET (1..k)
  BY <1>0, Zenon
<1>2. /\ IsFiniteSet(T) /\ Cardinality(T) \in Nat /\ \A i \in T : Place(T, i) \in 1..Cardinality(T)
      /\ IsFiniteSet(U) /\ Cardinality(U) \in Nat /\ Cardinality(S) \in Nat
  BY <1>1, Counted
<1>3. ASSUME NEW i \in T PROVE Place(T, i) = Place(S, i)
  <2>1. \A j \in S : j <= i => j < d
    BY <1>0
  <2>2. {j \in T : j <= i} = {j \in S : j <= i}
    BY <2>1, Zenon
  <2> QED  BY <2>2 DEF Place
<1> HIDE DEF T, U
<1>4. Cardinality(S) = Cardinality(T) + Cardinality(U) - Cardinality({})
  BY <1>1, <1>2, FS_Union
<1>5. Cardinality(S) - Cardinality(U) = Cardinality(T)
  BY <1>2, <1>4, FS_EmptySet
<1> QED  BY <1>2, <1>3, <1>5 DEF T, U

\* The part of CallsInv about the stack, after a step.
FramesAfter ==
    /\ IsSeq(stack') /\ \A i \in 1..Len(stack') : FrameShape(stack'[i])
    /\ \A i \in 1..(Len(stack') - 1) : stack'[i].kind # "lpc" => stack'[i + 1].kind = "lpc"

\* A stack whose d oldest frames are still there.
LEMMA FramesKept ==
  ASSUME CallsInv, NEW d \in 0..Len(stack), NEW m \in {d, d + 1, d + 2}, Kept(d, m),
         \A i \in (d + 1)..m : FrameShape(stack'[i]),
         m > d /\ d > 0 => stack[d].kind = "lpc" \/ stack'[d + 1].kind = "lpc",
         m = d + 2 => stack'[d + 2].kind = "lpc"
  PROVE  FramesAfter
<1>1. Len(stack) \in Nat /\ d \in Nat /\ m \in Nat /\ Len(stack') = m /\ IsSeq(stack')
  BY IsSeqLen DEF CallsInv, Kept
<1>2. \A i \in 1..d : i \in 1..Len(stack) /\ stack'[i] = stack[i]
  BY <1>1 DEF Kept
<1>3. ASSUME NEW i \in 1..m PROVE FrameShape(stack'[i])
  <2>1. CASE i \in 1..d
    <3>1. stack'[i] = stack[i] /\ FrameShape(stack[i])
      BY <1>2, <2>1 DEF CallsInv
    <3> QED  BY <3>1
  <2>2. CASE i \in (d + 1)..m
    BY <2>2
  <2> QED  BY <1>1, <2>1, <2>2
<1>4. ASSUME NEW i \in 1..(m - 1), stack'[i].kind # "lpc" PROVE stack'[i + 1].kind = "lpc"
  <2>1. CASE i \in 1..(d - 1)
    <3>1. i + 1 \in 1..d /\ i \in 1..d /\ i \in 1..(Len(stack) - 1)
      BY <1>1, <2>1
    <3>2. stack'[i] = stack[i] /\ stack'[i + 1] = stack[i + 1]
      BY <1>2, <3>1
    <3>3. stack[i].kind # "lpc" => stack[i + 1].kind = "lpc"
      BY <3>1 DEF CallsInv
    <3> QED  BY <1>4, <3>2, <3>3
  <2>2. CASE i = d
    <3>1. d \in 1..d /\ m > d /\ d > 0
      BY <1>1, <2>2
    <3> QED  BY <1>2, <1>4, <2>2, <3>1
  <2>3. CASE i = d + 1
    <3>1. m = d + 2 /\ i + 1 = d + 2
      BY <1>1, <2>3
    <3> QED  BY <3>1
  <2> QED  BY <1>1, <2>1, <2>2, <2>3
<1> QED  BY <1>1, <1>3, <1>4 DEF FramesAfter

\* The frame a driver frame was called from is an LPC function.
LEMMA BelowDriver ==
  ASSUME CallsInv, NEW d \in 2..Len(stack), stack[d].kind # "lpc"
  PROVE  stack[d - 1].kind = "lpc"
<1>1. d - 1 \in 1..(Len(stack) - 1) /\ (d - 1) + 1 = d
  BY IsSeqLen DEF CallsInv
<1> QED  BY <1>1 DEF CallsInv

\* The stack after a step.
LEMMA StackAfter ==
  ASSUME CallsInv, StackStep
  PROVE  FramesAfter
<1> DEFINE n == Len(stack)
<1>0. n \in Nat
  BY IsSeqLen DEF CallsInv
<1>1. CASE Stays
  BY <1>1 DEF Stays, CallsInv, FramesAfter
<1>2. CASE Left
  <2>1. n - 1 \in 0..n /\ \A i \in ((n - 1) + 1)..(n - 1) : FALSE
    BY <1>0, <1>2, TopFrame DEF Left
  <2> QED  BY <1>0, <1>2, <2>1, FramesKept DEF Left
<1>3. ASSUME NEW f, Started(f) PROVE FramesAfter
  <2>1. Kept(n, n + 1) /\ stack'[n + 1] = f /\ FrameShape(f)
    BY <1>3 DEF Started
  <2>2. n > 0 => stack[n].kind = "lpc"
    <3>1. CASE Idle
      BY <3>1, IsSeqLen DEF Idle, CallsInv
    <3>2. CASE Running
      BY <3>2, TopFrame DEF Running
    <3> QED  BY <1>3, <3>1, <3>2 DEF Started
  <2>3. n \in 0..n /\ n + 1 # n + 2 /\ \A i \in (n + 1)..(n + 1) : i = n + 1
    BY <1>0
  <2>4. \A i \in (n + 1)..(n + 1) : FrameShape(stack'[i])
    BY <2>1, <2>3, Zenon
  <2> QED  BY <2>1, <2>2, <2>3, <2>4, FramesKept
<1>4. ASSUME NEW d \in 1..n, stack[d].kind # "lpc", NEW f, FrameShape(f), stack'[d] = f,
             Kept(d - 1, d)
      PROVE  FramesAfter
  <2>1. d - 1 \in 0..n /\ d = (d - 1) + 1 /\ d # (d - 1) + 2 /\ \A i \in ((d - 1) + 1)..d : i = d
    BY <1>0
  <2>2. \A i \in ((d - 1) + 1)..d : FrameShape(stack'[i])
    BY <1>4, <2>1, Zenon
  <2>3. d - 1 > 0 => stack[d - 1].kind = "lpc"
    BY <1>0, <1>4, BelowDriver
  <2> QED  BY <1>4, <2>1, <2>2, <2>3, FramesKept
<1>5. ASSUME NEW d \in 1..n, stack[d].kind # "lpc", NEW f, FrameShape(f), stack'[d] = f,
             NEW o, stack'[d + 1] = Lpc(o), Kept(d - 1, d + 1)
      PROVE  FramesAfter
  <2>1. /\ d - 1 \in 0..n /\ d + 1 = (d - 1) + 2 /\ (d - 1) + 1 = d
        /\ \A i \in ((d - 1) + 1)..(d + 1) : i = d \/ i = d + 1
    BY <1>0
  <2>2. \A i \in ((d - 1) + 1)..(d + 1) : FrameShape(stack'[i])
    BY <1>5, <2>1, LpcFrame, Zenon
  <2>3. d - 1 > 0 => stack[d - 1].kind = "lpc"
    BY <1>0, <1>5, BelowDriver
  <2>4. stack'[d + 1].kind = "lpc"
    BY <1>5, LpcFrame
  <2> QED  BY <1>5, <2>1, <2>2, <2>3, <2>4, FramesKept
<1>6. ASSUME NEW f, Replaced(f) PROVE FramesAfter
  <2>1. n \in 1..n /\ stack[n].kind # "lpc"
    BY <1>6, TopFrame DEF Replaced
  <2> QED  BY <1>4, <1>6, <2>1 DEF Replaced
<1>7. ASSUME NEW f, NEW o, Entered(f, o) PROVE FramesAfter
  <2>1. n \in 1..n /\ stack[n].kind # "lpc"
    BY <1>7, TopFrame DEF Entered
  <2> QED  BY <1>5, <1>7, <2>1 DEF Entered
<1>8. ASSUME NEW f, NEW d, Resumed(d, f) PROVE FramesAfter
  <2>1. d \in 1..n /\ stack[d].kind # "lpc" /\ FrameShape(f) /\ stack'[d] = f
    BY <1>0, <1>8 DEF Resumed
  <2>2. CASE Kept(d - 1, d)
    BY <1>4, <2>1, <2>2
  <2>3. CASE Kept(d - 1, d + 1) /\ \E o : stack'[d + 1] = Lpc(o) /\ LivesOn(o)
    BY <1>5, <2>1, <2>3
  <2> QED  BY <1>8, <2>2, <2>3 DEF Resumed
<1>9. ASSUME NEW d, Unwound(d) PROVE FramesAfter
  <2>1. d \in 0..n /\ Kept(d, d) /\ d \in Nat /\ ~(d > d) /\ d # d + 2 /\ \A i \in (d + 1)..d : FALSE
    BY <1>0, <1>9 DEF Unwound
  <2> QED  BY <2>1, FramesKept
<1> QED  BY <1>1, <1>2, <1>3, <1>6, <1>7, <1>8, <1>9 DEF StackStep

\* What a step does to the frames that wait, and to the two stacks that go with them.
SameScopes ==
    /\ UNCHANGED <<givers, verbs>> /\ Commands' = Commands /\ Waiting' = Waiting
    /\ \A i \in Commands : stack'[i] = stack[i]

AddedScope(n, g) ==
    /\ n = Len(stack) /\ n > 0 /\ Waiting' = Waiting \union {n} /\ givers' = Append(givers, g)
    /\ \A i \in Commands : stack'[i] = stack[i]
    /\ \/ Commands' = Commands /\ verbs' = verbs
       \/ /\ Commands' = Commands \union {n} /\ verbs' = Append(verbs, stack'[n].verb)
          /\ stack'[n].giver = g

CutScopes(d) ==
    /\ d \in Nat /\ ScopesCut(d)
    /\ Commands' = {i \in Commands : i < d} /\ Waiting' = {i \in Waiting : i < d}
    /\ \A i \in {j \in Commands : j < d} : stack'[i] = stack[i]

ScopeStep == SameScopes \/ (\E n, g : AddedScope(n, g)) \/ (\E d : CutScopes(d))

\* The frames that wait, where the oldest d - 1 are kept and frame d waits for
\* no handler and no init().
LEMMA WaitingBelow ==
  ASSUME CallsInv, NEW d \in 0..Len(stack), Len(stack') \in {d, d + 1},
         \A i \in 1..(d - 1) : stack'[i] = stack[i],
         Len(stack') = d + 1 /\ d > 0 => ~Guarded(stack'[d])
  PROVE  /\ Commands' = {i \in Commands : i < d} /\ Waiting' = {i \in Waiting : i < d}
         /\ \A i \in {j \in Commands : j < d} : stack'[i] = stack[i]
<1>1. Len(stack) \in Nat /\ d \in Nat
  BY IsSeqLen DEF CallsInv
<1>2. ASSUME NEW i \in 1..(Len(stack') - 1), Guarded(stack'[i]) PROVE i \in 1..(d - 1)
  BY <1>1, <1>2
<1>3. \A i \in 1..(d - 1) : i \in 1..(Len(stack') - 1) /\ i \in 1..(Len(stack) - 1) /\ i < d
  BY <1>1
<1>4. \A i \in 1..(Len(stack) - 1) : i < d => i \in 1..(d - 1)
  BY <1>1
<1>5. Commands' = {i \in 1..(Len(stack') - 1) : stack'[i].kind = "command"}
  BY DEF Commands
<1>6. Waiting' = {i \in 1..(Len(stack') - 1) : Guarded(stack'[i])}
  BY DEF Waiting, Guarded
<1>7. \A i : stack'[i].kind = "command" => Guarded(stack'[i])
  BY DEF Guarded
<1>8. Waiting' = {i \in Waiting : i < d}
  BY <1>2, <1>3, <1>4, <1>6, Zenon DEF Waiting
<1>9. Commands' = {i \in Commands : i < d}
  BY <1>2, <1>3, <1>4, <1>5, <1>7, Zenon DEF Commands
<1> QED  BY <1>4, <1>8, <1>9, Zenon DEF Commands

LEMMA AllWaitingBelow ==
  ASSUME CallsInv
  PROVE  /\ {i \in Commands : i < Len(stack)} = Commands /\ {i \in Waiting : i < Len(stack)} = Waiting
         /\ (Len(stack) > 1 /\ stack[Len(stack) - 1].kind = "lpc" =>
               /\ {i \in Commands : i < Len(stack) - 1} = Commands
               /\ {i \in Waiting : i < Len(stack) - 1} = Waiting)
<1>1. Len(stack) \in Nat
  BY IsSeqLen DEF CallsInv
<1>2. \A i \in 1..(Len(stack) - 1) : i < Len(stack) /\ (i < Len(stack) - 1 \/ i = Len(stack) - 1)
  BY <1>1
<1>3. \A i : stack[i].kind = "lpc" => stack[i].kind # "command" /\ ~Guarded(stack[i])
  BY DEF Guarded
<1> QED  BY <1>2, <1>3, Zenon DEF Commands, Waiting

LEMMA ScopesStep == ASSUME CallsInv, StackStep PROVE ScopeStep
<1> DEFINE n == Len(stack)
<1>0. n \in Nat
  BY IsSeqLen DEF CallsInv
<1>1. CASE Stays
  <2>1. Commands' = Commands /\ Waiting' = Waiting
    BY <1>1 DEF Stays, Commands, Waiting, Guarded
  <2> QED  BY <1>1, <2>1 DEF Stays, ScopeStep, SameScopes
<1>2. CASE Left
  <2>1. n > 0 /\ Len(stack') = n - 1 /\ stack[n].kind # "lpc"
    BY <1>2, TopFrame DEF Left, Kept
  <2>2. (\A i \in 1..((n - 1) - 1) : stack'[i] = stack[i]) /\ n - 1 \in 0..n /\ n - 1 # (n - 1) + 1
    BY <1>0, <1>2, <2>1 DEF Left, Kept
  <2>3. /\ Commands' = {i \in Commands : i < n - 1} /\ Waiting' = {i \in Waiting : i < n - 1}
        /\ \A i \in {j \in Commands : j < n - 1} : stack'[i] = stack[i]
    BY <2>1, <2>2, WaitingBelow
  <2>4. {i \in Commands : i < n - 1} = Commands /\ {i \in Waiting : i < n - 1} = Waiting
    <3>1. CASE n > 1
      BY <1>0, <2>1, <3>1, BelowDriver, AllWaitingBelow
    <3>2. CASE n = 1
      BY <3>2 DEF Commands, Waiting
    <3> QED  BY <1>0, <2>1, <3>1, <3>2
  <2> QED  BY <1>2, <2>3, <2>4 DEF Left, ScopeStep, SameScopes
<1>3. ASSUME UNCHANGED <<givers, verbs>>, Len(stack') \in {n, n + 1},
             \A i \in 1..(n - 1) : stack'[i] = stack[i],
             Len(stack') = n + 1 /\ n > 0 => ~Guarded(stack'[n])
      PROVE  ScopeStep
  <2>1. n \in 0..n
    BY <1>0
  <2>2. /\ Commands' = {i \in Commands : i < n} /\ Waiting' = {i \in Waiting : i < n}
        /\ \A i \in {j \in Commands : j < n} : stack'[i] = stack[i]
    BY <1>3, <2>1, WaitingBelow
  <2> QED  BY <1>3, <2>2, AllWaitingBelow DEF ScopeStep, SameScopes
<1>4. ASSUME NEW f, Started(f) PROVE ScopeStep
  <2>1. UNCHANGED <<givers, verbs>> /\ Len(stack') = n + 1 /\ \A i \in 1..n : stack'[i] = stack[i]
    BY <1>4 DEF Started, Kept
  <2>2. n > 0 => stack'[n] = stack[n] /\ stack[n].kind = "lpc"
    <3>1. CASE Idle
      BY <3>1, IsSeqLen DEF Idle, CallsInv
    <3>2. CASE Running
      BY <1>0, <2>1, <3>2, TopFrame DEF Running
    <3> QED  BY <1>4, <3>1, <3>2 DEF Started
  <2>3. \A i \in 1..(n - 1) : i \in 1..n
    BY <1>0
  <2> QED  BY <1>3, <2>1, <2>2, <2>3 DEF Guarded
<1>5. ASSUME NEW f, Replaced(f) PROVE ScopeStep
  BY <1>0, <1>3, <1>5 DEF Replaced, Kept
<1>6. ASSUME NEW f, NEW o, Entered(f, o) PROVE ScopeStep
  <2>1. /\ n > 0 /\ n \in 1..n /\ Len(stack') = n + 1 /\ stack'[n] = f
        /\ \A i \in 1..(n - 1) : stack'[i] = stack[i]
    BY <1>6, TopFrame DEF Entered, Kept
  <2>2. CASE f.kind = "sweep"
    BY <1>3, <1>6, <2>1, <2>2 DEF Entered, Guarded
  <2>3. CASE f.kind \in {"command", "move"}
    <3>1. \A i \in 1..n : i \in 1..(n - 1) \/ i = n
      BY <1>0
    <3>2. (n + 1) - 1 = n /\ \A i \in 1..(n - 1) : i \in 1..n
      BY <1>0
    <3>3. Waiting' = Waiting \union {n}
      <4>1. Waiting' = {i \in 1..n : Guarded(stack'[i])}
        BY <2>1, <3>2 DEF Waiting, Guarded
      <4>2. Guarded(stack'[n])
        BY <2>1, <2>3 DEF Guarded
      <4> QED  BY <2>1, <3>1, <3>2, <4>1, <4>2, Zenon DEF Waiting
    <3>4. Commands' = {i \in 1..n : stack'[i].kind = "command"}
      BY <2>1, <3>2 DEF Commands
    <3>5. \A i \in Commands : stack'[i] = stack[i]
      BY <2>1 DEF Commands
    <3>6. CASE f.kind = "command"
      <4>1. Commands' = Commands \union {n}
        BY <2>1, <3>1, <3>2, <3>4, <3>6, Zenon DEF Commands
      <4>2. verbs' = Append(verbs, f.verb) /\ givers' = Append(givers, f.giver)
        BY <1>6, <3>6 DEF Entered
      <4>3. AddedScope(n, f.giver)
        BY <2>1, <3>3, <3>5, <4>1, <4>2 DEF AddedScope
      <4> QED  BY <4>3 DEF ScopeStep
    <3>7. CASE f.kind = "move"
      <4>1. f.kind # "command"
        BY <3>7
      <4>2. Commands' = Commands
        BY <2>1, <3>1, <3>2, <3>4, <4>1, Zenon DEF Commands
      <4>3. verbs' = verbs /\ \E g : givers' = Append(givers, g)
        BY <1>6, <3>7 DEF Entered
      <4>4. \E g : AddedScope(n, g)
        BY <2>1, <3>3, <3>5, <4>2, <4>3 DEF AddedScope
      <4> QED  BY <4>4 DEF ScopeStep
    <3> QED  BY <2>3, <3>6, <3>7
  <2> QED  BY <1>6, <2>2, <2>3 DEF Entered
<1>7. ASSUME NEW d \in 0..n, ScopesCut(d), Len(stack') \in {d, d + 1},
             \A i \in 1..(d - 1) : stack'[i] = stack[i],
             Len(stack') = d + 1 /\ d > 0 => ~Guarded(stack'[d])
      PROVE  ScopeStep
  <2>1. /\ Commands' = {i \in Commands : i < d} /\ Waiting' = {i \in Waiting : i < d}
        /\ \A i \in {j \in Commands : j < d} : stack'[i] = stack[i]
    BY <1>7, WaitingBelow
  <2>2. d \in Nat
    BY <1>0
  <2>3. CutScopes(d)
    BY <1>7, <2>1, <2>2 DEF CutScopes
  <2> QED  BY <2>3 DEF ScopeStep
<1>8. ASSUME NEW d, Unwound(d) PROVE ScopeStep
  <2>1. d \in 0..n /\ ScopesCut(d) /\ Len(stack') = d /\ d # d + 1 /\ \A i \in 1..(d - 1) : stack'[i] = stack[i]
    BY <1>0, <1>8 DEF Unwound, Kept
  <2> QED  BY <1>7, <2>1
<1>9. ASSUME NEW f, NEW d, Resumed(d, f) PROVE ScopeStep
  <2>1. /\ d \in 0..n /\ ScopesCut(d) /\ Len(stack') \in {d, d + 1} /\ ~Guarded(stack'[d])
        /\ \A i \in 1..(d - 1) : stack'[i] = stack[i]
    BY <1>0, <1>9 DEF Resumed, Kept, Guarded
  <2> QED  BY <1>7, <2>1
<1> QED  BY <1>1, <1>2, <1>4, <1>5, <1>6, <1>8, <1>9 DEF StackStep

\* t is what is left of the entries s of the frames S, for the frames T.
CutTo(s, S, t, T) ==
    IsSeq(t) /\ Len(t) = Cardinality(T) /\ \A i \in T : t[Place(T, i)] = s[Place(S, i)]

LEMMA SequenceCut ==
  ASSUME NEW k \in Nat, NEW S \in SUBSET (1..k), NEW d \in Nat, NEW s, IsSeq(s), Len(s) = Cardinality(S),
         NEW t, t = Dropped(s, Cardinality({i \in S : i >= d})), NEW T, T = {i \in S : i < d}
  PROVE  CutTo(s, S, t, T)
<1> DEFINE U == {i \in S : i >= d}
<1>1. /\ Cardinality(T) \in Nat /\ Cardinality(S) \in Nat /\ Cardinality(U) \in Nat
      /\ Cardinality(S) - Cardinality(U) = Cardinality(T)
      /\ \A i \in T : Place(T, i) = Place(S, i) /\ Place(T, i) \in 1..Cardinality(T)
  BY CountedBelow
<1> HIDE DEF U
<1>2. t = SubSeq(s, 1, Len(s) - Cardinality(U))
  BY DEF Dropped, U
<1>3. Len(s) - Cardinality(U) = Cardinality(T) /\ Cardinality(T) \in 0..Len(s)
  BY <1>1
<1>4. t = SubSeq(s, 1, Cardinality(T))
  BY <1>2, <1>3, Zenon
<1>5. IsSeq(t) /\ Len(t) = Cardinality(T) /\ \A i \in 1..Cardinality(T) : t[i] = s[i]
  BY <1>3, <1>4, PrefixIsSeq, Zenon
<1> QED  BY <1>1, <1>5, Zenon DEF CutTo

\* The calls and the two stacks together.
ScopesInv == CallsInv /\ ScopesMatchCalls

LEMMA ScopesInvStep == ASSUME ScopesInv, [Next]_vars PROVE ScopesInv'
<1> DEFINE n == Len(stack)
<1>0. CallsInv /\ ScopesMatchCalls /\ n \in Nat
  BY IsSeqLen DEF ScopesInv, CallsInv
<1>1. StackStep /\ Shaped(obj') /\ ScopeStep /\ FramesAfter
  BY <1>0, Steps, ScopesStep, StackAfter
<1>2. Commands \in SUBSET (1..(n - 1)) /\ Waiting \in SUBSET (1..(n - 1)) /\ Commands \in SUBSET Waiting
  BY DEF Commands, Waiting, Guarded
<1>3. IsSeq(givers) /\ IsSeq(verbs) /\ Len(givers) \in Nat /\ Len(verbs) \in Nat
  BY <1>0, IsSeqLen DEF CallsInv
<1>4. /\ Len(givers) = Cardinality(Waiting) /\ Len(verbs) = Cardinality(Commands)
      /\ \A i \in Commands : /\ verbs[Place(Commands, i)] = stack[i].verb
                             /\ givers[Place(Waiting, i)] = stack[i].giver
  BY <1>0 DEF ScopesMatchCalls
<1>5. SUFFICES /\ IsSeq(givers') /\ IsSeq(verbs')
               /\ Len(givers') = Cardinality(Waiting') /\ Len(verbs') = Cardinality(Commands')
               /\ \A i \in Commands' : /\ verbs'[Place(Commands', i)] = stack'[i].verb
                                       /\ givers'[Place(Waiting', i)] = stack'[i].giver
  BY <1>1 DEF ScopesInv, CallsInv, FramesAfter, ScopesMatchCalls, Place
<1>6. CASE SameScopes
  BY <1>3, <1>4, <1>6 DEF SameScopes
<1>7. ASSUME NEW k, NEW g, AddedScope(k, g)
      PROVE  /\ IsSeq(givers') /\ IsSeq(verbs')
             /\ Len(givers') = Cardinality(Waiting') /\ Len(verbs') = Cardinality(Commands')
             /\ \A i \in Commands' : /\ verbs'[Place(Commands', i)] = stack'[i].verb
                                     /\ givers'[Place(Waiting', i)] = stack'[i].giver
  <2>1. k = n /\ n \in Nat \ {0} /\ n - 1 \in Nat
    BY <1>0, <1>7 DEF AddedScope
  <2>2. /\ Cardinality(Waiting') = Cardinality(Waiting) + 1
        /\ Place(Waiting', n) = Cardinality(Waiting) + 1
        /\ \A i \in Waiting : Place(Waiting', i) = Place(Waiting, i)
        /\ \A i \in Waiting : Place(Waiting, i) \in 1..Cardinality(Waiting)
    <3>1. Waiting' = Waiting \union {n}
      BY <1>7, <2>1 DEF AddedScope
    <3> QED  BY <1>2, <2>1, <3>1, CountedAbove, Counted
  <2>3. /\ IsSeq(givers') /\ Len(givers') = Len(givers) + 1 /\ givers'[Len(givers) + 1] = g
        /\ \A i \in 1..Len(givers) : givers'[i] = givers[i]
    <3>1. givers' = Append(givers, g)
      BY <1>7 DEF AddedScope
    <3> QED  BY <1>3, <3>1, AppendIsSeq
  <2>4. \A i \in Commands : givers'[Place(Waiting', i)] = stack'[i].giver
    <3>1. \A i \in Commands : stack'[i] = stack[i] /\ i \in Waiting
      BY <1>2, <1>7 DEF AddedScope
    <3> QED  BY <1>4, <2>2, <2>3, <3>1, Zenon
  <2>5. CASE Commands' = Commands /\ verbs' = verbs
    <3>1. \A i \in Commands : stack'[i] = stack[i]
      BY <1>7 DEF AddedScope
    <3> QED  BY <1>3, <1>4, <2>2, <2>3, <2>4, <2>5, <3>1, Zenon
  <2>6. CASE /\ Commands' = Commands \union {n} /\ verbs' = Append(verbs, stack'[n].verb)
             /\ stack'[n].giver = g
    <3>1. /\ Cardinality(Commands') = Cardinality(Commands) + 1
          /\ Place(Commands', n) = Cardinality(Commands) + 1
          /\ \A i \in Commands : Place(Commands', i) = Place(Commands, i)
          /\ \A i \in Commands : Place(Commands, i) \in 1..Cardinality(Commands)
      BY <1>2, <2>1, <2>6, CountedAbove, Counted
    <3>2. /\ IsSeq(verbs') /\ Len(verbs') = Len(verbs) + 1 /\ verbs'[Len(verbs) + 1] = stack'[n].verb
          /\ \A i \in 1..Len(verbs) : verbs'[i] = verbs[i]
      BY <1>3, <2>6, AppendIsSeq
    <3>3. \A i \in Commands : stack'[i] = stack[i]
      BY <1>7 DEF AddedScope
    <3>4. \A i \in Commands : verbs'[Place(Commands', i)] = stack'[i].verb
      BY <1>4, <3>1, <3>2, <3>3, Zenon
    <3>5. verbs'[Place(Commands', n)] = stack'[n].verb /\ givers'[Place(Waiting', n)] = stack'[n].giver
      BY <1>4, <2>2, <2>3, <2>6, <3>1, <3>2, Zenon
    <3>6. \A i \in Commands' : i \in Commands \/ i = n
      BY <2>6
    <3> QED  BY <1>4, <2>2, <2>3, <2>4, <3>1, <3>2, <3>4, <3>5, <3>6, Zenon
  <2> QED  BY <1>7, <2>1, <2>5, <2>6 DEF AddedScope
<1>8. ASSUME NEW d, CutScopes(d)
      PROVE  /\ IsSeq(givers') /\ IsSeq(verbs')
             /\ Len(givers') = Cardinality(Waiting') /\ Len(verbs') = Cardinality(Commands')
             /\ \A i \in Commands' : /\ verbs'[Place(Commands', i)] = stack'[i].verb
                                     /\ givers'[Place(Waiting', i)] = stack'[i].giver
  <2>0. d \in Nat /\ Commands' = {i \in Commands : i < d} /\ Waiting' = {i \in Waiting : i < d}
    BY <1>8 DEF CutScopes
  <2>1. Commands \in SUBSET (1..n) /\ Waiting \in SUBSET (1..n)
    <3>1. \A i \in 1..(n - 1) : i \in 1..n
      BY <1>0
    <3> QED  BY <1>2, <3>1
  <2>2. CutTo(givers, Waiting, givers', Waiting')
    <3>1. givers' = Dropped(givers, Cardinality({i \in Waiting : i >= d}))
      BY <1>8 DEF CutScopes, ScopesCut
    <3> QED  BY <1>0, <1>3, <1>4, <2>0, <2>1, <3>1, SequenceCut
  <2>3. CutTo(verbs, Commands, verbs', Commands')
    <3>1. verbs' = Dropped(verbs, Cardinality({i \in Commands : i >= d}))
      BY <1>8 DEF CutScopes, ScopesCut
    <3> QED  BY <1>0, <1>3, <1>4, <2>0, <2>1, <3>1, SequenceCut
  <2>4. \A i \in Commands' : i \in Commands /\ i \in Waiting' /\ stack'[i] = stack[i]
    BY <1>2, <1>8, <2>0 DEF CutScopes
  <2> QED  BY <1>4, <2>2, <2>3, <2>4, Zenon DEF CutTo
<1> QED  BY <1>1, <1>6, <1>7, <1>8 DEF ScopeStep

LEMMA ScopesInvInit == Init => ScopesInv
<1> SUFFICES ASSUME Init PROVE ScopesInv
  OBVIOUS
<1>1. IsSeq(<<>>) /\ Len(<<>>) = 0
  BY DEF IsSeq, Range
<1>2. Shaped(obj)
  BY DEF Init, NewObject, Shaped, Fields
<1>3. \A i \in 1..Len(stack) : FALSE
  BY <1>1 DEF Init
<1>4. Commands = {} /\ Waiting = {}
  BY <1>1 DEF Init, Commands, Waiting
<1> QED  BY <1>1, <1>2, <1>3, <1>4, FS_EmptySet DEF ScopesInv, CallsInv, ScopesMatchCalls, Init

\* Whatever handlers, init() and caught errors do in between, verbStack_ and
\* commandGiverStack_ hold exactly the entries of the calls that wait.
THEOREM ScopesMatch == Spec => []ScopesMatchCalls
<1>1. ScopesInv /\ [Next]_vars => ScopesInv'
  BY ScopesInvStep
<1>2. ScopesInv => ScopesMatchCalls
  BY DEF ScopesInv
<1> QED  BY <1>1, <1>2, ScopesInvInit, PTL DEF Spec

-----------------------------------------------------------------------------
(* Lists of actions *)

\* The newest first, all older than the bound.
SortedList(list, bound) ==
    /\ IsSeq(list)
    /\ \A i \in 1..Len(list) : list[i].stamp \in Int /\ list[i].stamp < bound
    /\ \A i, j \in 1..Len(list) : i < j => list[j].stamp < list[i].stamp

LEMMA SuffixIsSeq ==
  ASSUME NEW s, IsSeq(s), NEW k \in 1..Len(s)
  PROVE  /\ IsSeq(SubSeq(s, k + 1, Len(s))) /\ Len(SubSeq(s, k + 1, Len(s))) = Len(s) - k
         /\ \A i \in 1..(Len(s) - k) : SubSeq(s, k + 1, Len(s))[i] = s[k + i]
<1>1. Len(s) \in Nat /\ k \in Int /\ k + 1 \in Int /\ Len(s) \in Int
  BY IsSeqLen
<1>2. \A i \in (k + 1)..Len(s) : s[i] \in Range(s)
  BY <1>1 DEF IsSeq
<1>3. /\ SubSeq(s, k + 1, Len(s)) \in Seq(Range(s))
      /\ Len(SubSeq(s, k + 1, Len(s))) = IF k + 1 <= Len(s) THEN Len(s) - (k + 1) + 1 ELSE 0
      /\ \A i \in 1..(Len(s) - (k + 1) + 1) : SubSeq(s, k + 1, Len(s))[i] = s[k + 1 + i - 1]
  BY <1>1, <1>2, SubSeqProperties
<1>4. /\ Len(s) - (k + 1) + 1 = Len(s) - k
      /\ (IF k + 1 <= Len(s) THEN Len(s) - (k + 1) + 1 ELSE 0) = Len(s) - k
      /\ \A i \in 1..(Len(s) - k) : k + 1 + i - 1 = k + i
  BY <1>1
<1>5. IsSeq(SubSeq(s, k + 1, Len(s)))
  BY <1>3, SeqIsSeq
<1> QED  BY <1>3, <1>4, <1>5, Zenon

LEMMA JoinedIsSeq ==
  ASSUME NEW s, IsSeq(s), NEW t, IsSeq(t)
  PROVE  /\ IsSeq(s \o t) /\ Len(s \o t) = Len(s) + Len(t)
         /\ \A i \in 1..(Len(s) + Len(t)) : (s \o t)[i] = IF i <= Len(s) THEN s[i] ELSE t[i - Len(s)]
<1> DEFINE S == Range(s) \union Range(t)
<1>1. s \in Seq(S) /\ t \in Seq(S)
  BY SeqMonotonic DEF IsSeq
<1> HIDE DEF S
<1>2. /\ s \o t \in Seq(S) /\ Len(s \o t) = Len(s) + Len(t)
      /\ \A i \in 1..(Len(s) + Len(t)) : (s \o t)[i] = IF i <= Len(s) THEN s[i] ELSE t[i - Len(s)]
  BY <1>1, ConcatProperties, Zenon
<1> QED  BY <1>2, SeqIsSeq, Zenon

\* What is left to try once an action has been called.
LEMMA SortedAfter ==
  ASSUME NEW list, NEW bound, SortedList(list, bound), NEW k \in 1..Len(list)
  PROVE  SortedList(SubSeq(list, k + 1, Len(list)), list[k].stamp)
<1> DEFINE t == SubSeq(list, k + 1, Len(list))
<1>0. Len(list) \in Nat
  BY IsSeqLen DEF SortedList
<1>1. IsSeq(t) /\ Len(t) = Len(list) - k /\ \A i \in 1..(Len(list) - k) : t[i] = list[k + i]
  BY SuffixIsSeq DEF SortedList
<1> HIDE DEF t
<1>2. ASSUME NEW i \in 1..Len(t) PROVE t[i] = list[k + i] /\ k + i \in 1..Len(list) /\ k < k + i
  BY <1>0, <1>1
<1>3. \A i \in 1..Len(t) : t[i].stamp \in Int /\ t[i].stamp < list[k].stamp
  BY <1>2 DEF SortedList
<1>4. ASSUME NEW i \in 1..Len(t), NEW j \in 1..Len(t), i < j PROVE t[j].stamp < t[i].stamp
  <2>1. k + i < k + j
    BY <1>1, <1>4
  <2> QED  BY <1>2, <2>1 DEF SortedList
<1> QED  BY <1>1, <1>3, <1>4 DEF SortedList, t

LEMMA SortedAdded ==
  ASSUME NEW list, NEW s \in Int, SortedList(list, s + 1), NEW a, a.stamp = s + 1
  PROVE  SortedList(AddedFirst(list, a), (s + 1) + 1)
<1> DEFINE t == <<a>> \o list
<1>0. Len(list) \in Nat
  BY IsSeqLen DEF SortedList
<1>1. IsSeq(<<a>>) /\ Len(<<a>>) = 1 /\ <<a>>[1] = a
  <2>1. <<a>> \in Seq({a})
    OBVIOUS
  <2>2. IsSeq(<<a>>)
    BY <2>1, SeqIsSeq, Zenon
  <2> QED  BY <2>2
<1>2. /\ IsSeq(t) /\ Len(t) = 1 + Len(list)
      /\ \A i \in 1..(1 + Len(list)) : t[i] = IF i <= 1 THEN <<a>>[i] ELSE list[i - 1]
  <2>1. IsSeq(list)
    BY DEF SortedList
  <2> QED  BY <1>1, <2>1, JoinedIsSeq
<1> HIDE DEF t
<1>3. t[1] = a /\ \A i \in 2..Len(t) : t[i] = list[i - 1] /\ i - 1 \in 1..Len(list)
  BY <1>0, <1>1, <1>2
<1>4. \A i \in 1..Len(t) : i = 1 \/ i \in 2..Len(t)
  BY <1>0, <1>2
<1>5. \A i \in 1..Len(t) : t[i].stamp \in Int /\ t[i].stamp < (s + 1) + 1
  <2> SUFFICES ASSUME NEW i \in 1..Len(t) PROVE t[i].stamp \in Int /\ t[i].stamp < (s + 1) + 1
    OBVIOUS
  <2>1. CASE i = 1
    BY <1>3, <2>1
  <2>2. CASE i \in 2..Len(t)
    <3>1. i - 1 \in 1..Len(list) /\ t[i] = list[i - 1]
      BY <1>3, <2>2
    <3>2. list[i - 1].stamp \in Int /\ list[i - 1].stamp < s + 1
      BY <3>1 DEF SortedList
    <3> QED  BY <3>1, <3>2
  <2> QED  BY <1>4, <2>1, <2>2
<1>6. ASSUME NEW i \in 1..Len(t), NEW j \in 1..Len(t), i < j PROVE t[j].stamp < t[i].stamp
  <2>1. j \in 2..Len(t) /\ list[j - 1].stamp < s + 1
    BY <1>3, <1>4, <1>6 DEF SortedList
  <2>2. CASE i = 1
    BY <1>3, <2>1, <2>2
  <2>3. CASE i \in 2..Len(t)
    <3>1. i - 1 < j - 1 /\ i - 1 \in 1..Len(list) /\ j - 1 \in 1..Len(list)
      BY <1>0, <1>2, <1>6, <2>1, <2>3
    <3> QED  BY <1>3, <2>1, <2>3, <3>1 DEF SortedList
  <2> QED  BY <1>4, <2>2, <2>3
<1> QED  BY <1>2, <1>5, <1>6 DEF SortedList, t, AddedFirst

LEMMA SortedRemoved ==
  ASSUME NEW list, NEW bound, SortedList(list, bound), NEW k \in 1..Len(list)
  PROVE  SortedList(RemoveAt(list, k), bound)
<1> DEFINE u == SubSeq(list, 1, k - 1)
           v == SubSeq(list, k + 1, Len(list))
           t == u \o v
<1>0. IsSeq(list) /\ Len(list) \in Nat
  BY IsSeqLen DEF SortedList
<1>1. IsSeq(u) /\ Len(u) = k - 1 /\ \A i \in 1..(k - 1) : u[i] = list[i]
  <2>1. k - 1 \in 0..Len(list)
    BY <1>0
  <2> QED  BY <1>0, <2>1, PrefixIsSeq
<1>2. IsSeq(v) /\ Len(v) = Len(list) - k /\ \A i \in 1..(Len(list) - k) : v[i] = list[k + i]
  BY <1>0, SuffixIsSeq
<1> HIDE DEF u, v
<1>3. /\ IsSeq(t) /\ Len(t) = Len(u) + Len(v)
      /\ \A i \in 1..(Len(u) + Len(v)) : t[i] = IF i <= Len(u) THEN u[i] ELSE v[i - Len(u)]
  BY <1>1, <1>2, JoinedIsSeq
<1>4. t = RemoveAt(list, k)
  BY DEF u, v, RemoveAt
<1> HIDE DEF t
<1> DEFINE Old(i) == IF i < k THEN i ELSE i + 1
<1>5. ASSUME NEW i \in 1..Len(t) PROVE t[i] = list[Old(i)] /\ Old(i) \in 1..Len(list) /\ i \in Int
  BY <1>0, <1>1, <1>2, <1>3
<1>6. \A i, j \in 1..Len(t) : i < j => Old(i) < Old(j)
  BY <1>0, <1>1, <1>2, <1>3
<1> HIDE DEF Old
<1>7. \A i \in 1..Len(t) : t[i].stamp \in Int /\ t[i].stamp < bound
  BY <1>5 DEF SortedList
<1>8. \A i, j \in 1..Len(t) : i < j => t[j].stamp < t[i].stamp
  BY <1>5, <1>6, Zenon DEF SortedList
<1> QED  BY <1>3, <1>4, <1>7, <1>8 DEF SortedList

LEMMA SortedOlder ==
  ASSUME NEW list, NEW b \in Int, NEW c \in Int, SortedList(list, b), b <= c
  PROVE  SortedList(list, c)
<1>1. \A i \in 1..Len(list) : list[i].stamp \in Int /\ list[i].stamp < c
  BY DEF SortedList
<1> QED  BY <1>1 DEF SortedList

\* The actions of every object, and those each command has still to try, are
\* in the order they are tried in; no command holds one added since it began.
ListsInv ==
    /\ stamp \in Int /\ \A o \in Objects : SortedList(obj[o].actions, stamp + 1)
    /\ \A i \in 1..Len(stack) : stack[i].kind = "command" => SortedList(stack[i].actions, stack[i].last)

LEMMA ListsAfter ==
  ASSUME CallsInv, ListsInv, StackStep
  PROVE  \A i \in 1..Len(stack') : stack'[i].kind = "command" => SortedList(stack'[i].actions, stack'[i].last)
<1> DEFINE n == Len(stack)
           Good(f) == f.kind = "command" => SortedList(f.actions, f.last)
<1>0. n \in Nat /\ \A i \in 1..n : Good(stack[i])
  BY IsSeqLen DEF CallsInv, ListsInv
<1>1. ASSUME NEW d \in 0..n, NEW m \in {d, d + 1, d + 2}, Kept(d, m), \A i \in (d + 1)..m : Good(stack'[i])
      PROVE  \A i \in 1..Len(stack') : Good(stack'[i])
  <2>1. Len(stack') = m /\ \A i \in 1..d : i \in 1..n /\ stack'[i] = stack[i]
    BY <1>0, <1>1 DEF Kept
  <2>2. \A i \in 1..m : i \in 1..d \/ i \in (d + 1)..m
    BY <1>0
  <2> QED  BY <1>0, <1>1, <2>1, <2>2, Zenon
<1>2. \A o : Good(Lpc(o))
  BY LpcFrame DEF Good
<1>3. CASE Stays
  BY <1>0, <1>3 DEF Stays
<1>4. CASE Left
  <2>1. n - 1 \in 0..n /\ Kept(n - 1, n - 1) /\ \A i \in ((n - 1) + 1)..(n - 1) : FALSE
    BY <1>0, <1>4, TopFrame DEF Left
  <2> QED  BY <1>1, <2>1
<1>5. ASSUME NEW f, Started(f) PROVE \A i \in 1..Len(stack') : Good(stack'[i])
  <2>1. Kept(n, n + 1) /\ stack'[n + 1] = f /\ n \in 0..n /\ \A i \in (n + 1)..(n + 1) : i = n + 1
    BY <1>0, <1>5 DEF Started
  <2>2. Good(f)
    BY <1>5, Zenon DEF Started, ListsInv
  <2> HIDE DEF Good
  <2>3. \A i \in (n + 1)..(n + 1) : Good(stack'[i])
    BY <2>1, <2>2, Zenon
  <2> QED  BY <1>1, <2>1, <2>3
<1>6. ASSUME NEW d \in 1..n, NEW f, Good(f), stack'[d] = f, Kept(d - 1, d)
      PROVE  \A i \in 1..Len(stack') : Good(stack'[i])
  <2>1. d - 1 \in 0..n /\ d = (d - 1) + 1 /\ \A i \in ((d - 1) + 1)..d : i = d
    BY <1>0
  <2> HIDE DEF Good
  <2>2. \A i \in ((d - 1) + 1)..d : Good(stack'[i])
    BY <1>6, <2>1, Zenon
  <2> QED  BY <1>1, <1>6, <2>1, <2>2
<1>7. ASSUME NEW d \in 1..n, NEW f, Good(f), stack'[d] = f, NEW o, stack'[d + 1] = Lpc(o), Kept(d - 1, d + 1)
      PROVE  \A i \in 1..Len(stack') : Good(stack'[i])
  <2>1. d - 1 \in 0..n /\ d + 1 = (d - 1) + 2 /\ \A i \in ((d - 1) + 1)..(d + 1) : i = d \/ i = d + 1
    BY <1>0
  <2> HIDE DEF Good
  <2>2. \A i \in ((d - 1) + 1)..(d + 1) : Good(stack'[i])
    BY <1>2, <1>7, <2>1, Zenon
  <2> QED  BY <1>1, <1>7, <2>1, <2>2
<1>8. ASSUME NEW f, Replaced(f) PROVE \A i \in 1..Len(stack') : Good(stack'[i])
  <2>1. n \in 1..n /\ Good(f) /\ stack'[n] = f /\ Kept(n - 1, n)
    BY <1>0, <1>8, TopFrame DEF Replaced
  <2> QED  BY <1>6, <2>1
<1>9. ASSUME NEW f, NEW o, Entered(f, o) PROVE \A i \in 1..Len(stack') : Good(stack'[i])
  <2>1. n \in 1..n /\ stack'[n] = f /\ stack'[n + 1] = Lpc(o) /\ Kept(n - 1, n + 1)
    BY <1>0, <1>9, TopFrame DEF Entered
  <2>2. Good(f)
    <3> SUFFICES ASSUME f.kind = "command" PROVE SortedList(f.actions, f.last)
      OBVIOUS
    <3>1. Top = stack[n] /\ Top.kind = "command"
      BY <1>9, TopFrame DEF Entered
    <3>2. SortedList(Top.actions, Top.last)
      BY <1>0, <2>1, <3>1
    <3>3. PICK i \in DOMAIN Top.actions : /\ f.actions = SubSeq(Top.actions, i + 1, Len(Top.actions))
                                          /\ f.last = Top.actions[i].stamp
      BY <1>9 DEF Entered
    <3>4. i \in 1..Len(Top.actions)
      BY <3>2, <3>3, IsSeqLen DEF SortedList
    <3> QED  BY <3>2, <3>3, <3>4, SortedAfter
  <2> HIDE DEF Good
  <2> QED  BY <1>7, <2>1, <2>2
<1>10. ASSUME NEW f, NEW d, Resumed(d, f) PROVE \A i \in 1..Len(stack') : Good(stack'[i])
  <2>1. d \in 1..n /\ Good(f) /\ stack'[d] = f
    BY <1>0, <1>10 DEF Resumed
  <2> HIDE DEF Good
  <2>2. CASE Kept(d - 1, d)
    BY <1>6, <2>1, <2>2
  <2>3. CASE Kept(d - 1, d + 1) /\ \E o : stack'[d + 1] = Lpc(o) /\ LivesOn(o)
    BY <1>7, <2>1, <2>3
  <2> QED  BY <1>10, <2>2, <2>3 DEF Resumed
<1>11. ASSUME NEW d, Unwound(d) PROVE \A i \in 1..Len(stack') : Good(stack'[i])
  <2>1. d \in 0..n /\ Kept(d, d) /\ \A i \in (d + 1)..d : FALSE
    BY <1>0, <1>11 DEF Unwound
  <2> QED  BY <1>1, <2>1
<1> QED  BY <1>3, <1>4, <1>5, <1>8, <1>9, <1>10, <1>11 DEF StackStep

LEMMA ActionsAfter ==
  ASSUME CallsInv, ListsInv, ActionStep
  PROVE  stamp' \in Int /\ \A o \in Objects : SortedList(obj'[o].actions, stamp' + 1)
<1>0. Shaped(obj) /\ stamp \in Int /\ stamp + 1 \in Int /\ \A o \in Objects : SortedList(obj[o].actions, stamp + 1)
  BY DEF CallsInv, ListsInv
<1>1. CASE SameActions(obj, obj') /\ stamp' = stamp
  BY <1>0, <1>1 DEF SameActions
<1>2. ASSUME NEW x, add_action(x[1], x[2])
      PROVE  stamp' \in Int /\ \A o \in Objects : SortedList(obj'[o].actions, stamp' + 1)
  <2> DEFINE a == [verb |-> x[1], flag |-> x[2], owner |-> Me, stamp |-> stamp + 1]
             g == CommandGiver
  <2>1. obj' = [obj EXCEPT ![g].actions = AddedFirst(@, a)] /\ stamp' = stamp + 1 /\ a.stamp = stamp + 1
    BY <1>2 DEF add_action
  <2> HIDE DEF a, g
  <2> SUFFICES ASSUME NEW o \in Objects PROVE SortedList(obj'[o].actions, (stamp + 1) + 1)
    BY <1>0, <2>1
  <2>2. CASE o = g
    <3>1. obj'[o].actions = AddedFirst(obj[o].actions, a)
      BY <1>0, <2>1, <2>2 DEF Shaped, Fields
    <3> QED  BY <1>0, <2>1, <3>1, SortedAdded
  <2>3. CASE o # g
    <3>1. obj'[o].actions = obj[o].actions /\ stamp + 1 <= (stamp + 1) + 1 /\ (stamp + 1) + 1 \in Int
      BY <1>0, <2>1, <2>3 DEF Shaped
    <3> QED  BY <1>0, <3>1, SortedOlder
  <2> QED  BY <2>2, <2>3
<1>3. ASSUME NEW x, remove_action(x)
      PROVE  stamp' \in Int /\ \A o \in Objects : SortedList(obj'[o].actions, stamp' + 1)
  <2> DEFINE g == IF CommandGiver = None THEN Me ELSE CommandGiver
  <2>1. stamp' = stamp /\ \E i \in DOMAIN obj[g].actions : obj' = [obj EXCEPT ![g].actions = RemoveAt(@, i)]
    BY <1>3 DEF remove_action
  <2>2. PICK i \in DOMAIN obj[g].actions : obj' = [obj EXCEPT ![g].actions = RemoveAt(@, i)]
    BY <2>1
  <2> HIDE DEF g
  <2> SUFFICES ASSUME NEW o \in Objects PROVE SortedList(obj'[o].actions, stamp + 1)
    BY <1>0, <2>1
  <2>3. CASE o = g
    <3>1. obj'[o].actions = RemoveAt(obj[o].actions, i)
      BY <1>0, <2>2, <2>3 DEF Shaped, Fields
    <3>2. i \in 1..Len(obj[o].actions)
      BY <1>0, <2>3, IsSeqLen DEF SortedList
    <3> QED  BY <1>0, <3>1, <3>2, SortedRemoved
  <2>4. CASE o # g
    <3>1. obj'[o].actions = obj[o].actions
      BY <1>0, <2>2, <2>4 DEF Shaped
    <3> QED  BY <1>0, <3>1
  <2> QED  BY <2>3, <2>4
<1> QED  BY <1>1, <1>2, <1>3 DEF ActionStep

LEMMA ListsInit == Init => ListsInv
<1> SUFFICES ASSUME Init PROVE ListsInv
  OBVIOUS
<1>1. stamp \in Int /\ stamp = GivenBefore
  BY GivenAssumption DEF Init
<1>2. \A i \in 1..Len(stack) : FALSE
  BY DEF Init
<1>3. ASSUME NEW o \in Objects PROVE SortedList(obj[o].actions, stamp + 1)
  <2>1. obj[o].actions = Given[o]
    BY DEF Init, NewObject
  <2>2. IsSeq(Given[o]) /\ DOMAIN Given[o] = 1..Len(Given[o])
    <3>1. IsSeq(Given[o])
      BY GivenAssumption DEF IsSeq
    <3> QED  BY <3>1, IsSeqLen
  <2>3. /\ \A i \in DOMAIN Given[o] : Given[o][i].stamp \in 1..GivenBefore
        /\ \A i, j \in DOMAIN Given[o] : i < j => Given[o][j].stamp < Given[o][i].stamp
    BY GivenAssumption, Zenon
  <2>4. \A i \in DOMAIN Given[o] : Given[o][i].stamp \in Int /\ Given[o][i].stamp < stamp + 1
    BY <1>1, <2>3, GivenAssumption
  <2> QED  BY <2>1, <2>2, <2>3, <2>4, Zenon DEF SortedList
<1> QED  BY <1>1, <1>2, <1>3 DEF ListsInv

\* Whatever handlers add and remove while a command is under way, it tries the
\* actions of its beginning, the newest first and each at most once.
THEOREM TriedNewestFirst == Spec => []NewestFirst
<1>1. ScopesInv /\ [Next]_vars => ScopesInv'
  BY ScopesInvStep
<1>2. ScopesInv /\ ListsInv /\ [Next]_vars => ListsInv'
  <2> SUFFICES ASSUME ScopesInv, ListsInv, [Next]_vars PROVE ListsInv'
    OBVIOUS
  <2>1. CallsInv /\ StackStep /\ ActionStep
    BY Steps DEF ScopesInv
  <2> QED  BY <2>1, ListsAfter, ActionsAfter DEF ListsInv
<1>3. ScopesInv /\ ListsInv => NewestFirst
  <2> SUFFICES ASSUME ScopesInv, ListsInv, NEW i \in DOMAIN stack, stack[i].kind = "command"
               PROVE  LET left == stack[i].actions IN
                      \A j \in DOMAIN left : /\ left[j].stamp < stack[i].last
                                             /\ \A k \in DOMAIN left : j < k => left[k].stamp < left[j].stamp
    BY DEF NewestFirst
  <2>1. i \in 1..Len(stack)
    BY IsSeqLen DEF ScopesInv, CallsInv
  <2>2. SortedList(stack[i].actions, stack[i].last)
    BY <2>1 DEF ListsInv
  <2>3. DOMAIN stack[i].actions = 1..Len(stack[i].actions)
    BY <2>2, IsSeqLen DEF SortedList
  <2> QED  BY <2>2, <2>3, Zenon DEF SortedList
<1> QED  BY <1>1, <1>2, <1>3, ScopesInvInit, ListsInit, PTL DEF Spec


-----------------------------------------------------------------------------
(* What a step may not do *)

\* The driver never enters a destructed object, whatever an earlier function
\* of the same command, move or sweep destructed.
THEOREM NoDeadEntered == Spec => DeadNotEntered
<1> DEFINE n == Len(stack)
           Goal == ~IsPrefix(stack', stack) /\ Last(stack').kind = "lpc" => obj'[Last(stack').ob].alive
<1>1. ScopesInv /\ [Next]_vars => ScopesInv'
  BY ScopesInvStep
<1>2. ASSUME ScopesInv, [Next]_vars PROVE Goal
  <2>0. CallsInv /\ StackStep /\ n \in Nat /\ IsSeq(stack)
    BY <1>2, Steps, IsSeqLen DEF ScopesInv, CallsInv
  <2>1. ASSUME NEW d \in 0..n, Kept(d, d) PROVE Goal
    <3>1. IsPrefix(stack', stack)
      BY <2>0, <2>1, PrefixByElements DEF Kept
    <3> QED  BY <3>1
  <2>2. ASSUME NEW f, Last(stack') = f, f.kind = "lpc" => LivesOn(f.ob) PROVE Goal
    BY <2>2 DEF LivesOn
  <2>3. ASSUME NEW o, LivesOn(o) PROVE Lpc(o).kind = "lpc" => LivesOn(Lpc(o).ob)
    BY <2>3, LpcFrame
  <2>4. CASE Stays
    <3>1. n \in 0..n /\ Kept(n, n)
      BY <2>0, <2>4 DEF Stays, Kept
    <3> QED  BY <2>1, <3>1
  <2>5. CASE Left
    <3>1. n - 1 \in 0..n /\ Kept(n - 1, n - 1)
      BY <2>0, <2>5, TopFrame DEF Left
    <3> QED  BY <2>1, <3>1
  <2>6. ASSUME NEW d, Unwound(d) PROVE Goal
    BY <2>0, <2>1, <2>6 DEF Unwound
  <2>7. ASSUME NEW f, Started(f) PROVE Goal
    <3>1. Last(stack') = f /\ (f.kind = "lpc" => LivesOn(f.ob))
      BY <2>7 DEF Started, Kept, Last
    <3> QED  BY <2>2, <3>1
  <2>8. ASSUME NEW f, NEW o, Entered(f, o) PROVE Goal
    <3>1. Last(stack') = Lpc(o) /\ LivesOn(o)
      BY <2>8 DEF Entered, Kept, Last
    <3> QED  BY <2>2, <2>3, <3>1
  <2>9. ASSUME NEW f, Replaced(f) PROVE Goal
    <3>1. Last(stack') = f /\ f.kind # "lpc"
      BY <2>9 DEF Replaced, Kept, Last
    <3> QED  BY <2>2, <3>1
  <2>10. ASSUME NEW f, NEW d, Resumed(d, f) PROVE Goal
    <3>1. CASE Kept(d - 1, d)
      <4>1. Last(stack') = f /\ f.kind # "lpc"
        BY <2>10, <3>1 DEF Resumed, Kept, Last
      <4> QED  BY <2>2, <4>1
    <3>2. CASE Kept(d - 1, d + 1) /\ \E o : stack'[d + 1] = Lpc(o) /\ LivesOn(o)
      <4>1. PICK o : Last(stack') = Lpc(o) /\ LivesOn(o)
        BY <3>2 DEF Kept, Last
      <4> QED  BY <2>2, <2>3, <4>1
    <3> QED  BY <2>10, <3>1, <3>2 DEF Resumed
  <2> QED  BY <2>0, <2>4, <2>5, <2>6, <2>7, <2>8, <2>9, <2>10 DEF StackStep
<1>3. ScopesInv /\ [Next]_vars => [Goal]_vars
  BY <1>2
<1> QED  BY <1>1, <1>3, ScopesInvInit, PTL DEF Spec, DeadNotEntered

\* The sweep calls clean_up() only in an object that nobody has referred to for
\* an hour at the time of the call, whatever its earlier calls have touched.
THEOREM CleansIdle == Spec => CleansIdleOnly
<1> DEFINE n == Len(stack)
           Goal == stack # <<>> /\ stack' # <<>> /\ stack'[1].kind = "sweep" =>
                     LET was == stack[1]
                         now == stack'[1]
                     IN  was.step # "clean_up" /\ now.step = "clean_up" =>
                           \/ ~obj[Head(now.todo)].fresh
                           \/ was.step = "reset" /\ ~LdMud
<1>1. ScopesInv /\ [Next]_vars => ScopesInv'
  BY ScopesInvStep
<1>2. ASSUME ScopesInv, [Next]_vars PROVE Goal
  <2> SUFFICES ASSUME stack # <<>>, stack' # <<>>, stack'[1].kind = "sweep",
                      stack[1].step # "clean_up", stack'[1].step = "clean_up"
               PROVE  ~obj[Head(stack'[1].todo)].fresh \/ (stack[1].step = "reset" /\ ~LdMud)
    BY Zenon
  <2>0. CallsInv /\ StackStep /\ n \in Nat \ {0} /\ Len(stack') \in Nat \ {0}
    <3>1. CallsInv /\ StackStep /\ CallsInv'
      BY <1>1, <1>2, Steps DEF ScopesInv
    <3> QED  BY <3>1, IsSeqLen DEF CallsInv
  <2>1. ASSUME NEW d \in Nat \ {0}, NEW m, Kept(d, m) PROVE FALSE
    <3>1. stack'[1] = stack[1]
      BY <2>1 DEF Kept
    <3> QED  BY <3>1
  <2>n. n = 1 \/ n - 1 \in Nat \ {0}
    <3> HIDE DEF n
    <3> QED  BY <2>0
  <2>2. CASE Stays
    BY <2>2 DEF Stays
  <2>3. CASE Left
    <3>1. Kept(n - 1, n - 1) /\ n - 1 \in Nat \ {0}
      BY <2>0, <2>3 DEF Left, Kept
    <3> QED  BY <2>1, <3>1
  <2>4. ASSUME NEW d, Unwound(d) PROVE FALSE
    <3>1. Kept(d, d) /\ d \in Nat \ {0}
      BY <2>0, <2>4 DEF Unwound, Kept
    <3> QED  BY <2>1, <3>1
  <2>5. ASSUME NEW f, Started(f) PROVE FALSE
    BY <2>0, <2>1, <2>5 DEF Started
  <2>6. ASSUME NEW f, NEW o, Entered(f, o) PROVE ~obj[Head(stack'[1].todo)].fresh
    <3>1. CASE n - 1 \in Nat \ {0}
      <4>1. Kept(n - 1, n + 1) /\ n - 1 \in Nat \ {0}
        BY <2>6, <3>1 DEF Entered
      <4> QED  BY <2>1, <4>1
    <3>2. CASE n = 1
      <4>1. stack'[1] = f /\ (f.kind = "sweep" /\ f.step = "clean_up" => ~obj[Head(f.todo)].fresh)
        BY <2>6, <3>2, Zenon DEF Entered
      <4> QED  BY <4>1
    <3> QED  BY <2>n, <3>1, <3>2, Zenon
  <2>7. ASSUME NEW f, Replaced(f) PROVE FALSE
    <3>1. CASE n - 1 \in Nat \ {0}
      <4>1. Kept(n - 1, n) /\ n - 1 \in Nat \ {0}
        BY <2>7, <3>1 DEF Replaced
      <4> QED  BY <2>1, <4>1
    <3>2. CASE n = 1
      BY <2>7, <3>2 DEF Replaced
    <3> QED  BY <2>n, <3>1, <3>2, Zenon
  <2>8. ASSUME NEW f, NEW d, Resumed(d, f) PROVE stack[1].step = "reset" /\ ~LdMud
    <3>1. CASE d > 1
      <4>1. d - 1 \in Nat \ {0} /\ \E m : Kept(d - 1, m)
        BY <2>0, <2>8, <3>1 DEF Resumed
      <4> QED  BY <2>1, <4>1
    <3>2. CASE d = 1
      BY <2>8, <3>2 DEF Resumed
    <3> QED  BY <2>0, <2>8, <3>1, <3>2 DEF Resumed
  <2> QED  BY <2>0, <2>2, <2>3, <2>4, <2>5, <2>6, <2>7, <2>8 DEF StackStep
<1>3. ScopesInv /\ [Next]_vars => [Goal]_vars
  BY <1>2
<1> QED  BY <1>1, <1>3, ScopesInvInit, PTL DEF Spec, CleansIdleOnly


=============================================================================
