--------------------------- MODULE SocketsProofs ---------------------------
(***************************************************************************)
(* Proofs, for any number of objects, sockets, bytes and nested releases,  *)
(* of what the socket registry and its poll sweep promise.                 *)
(***************************************************************************)
EXTENDS Sockets, SequenceTheorems, TLAPS

\* The first n elements of a sequence.
LEMMA PrefixProperties ==
  ASSUME NEW S, NEW s \in Seq(S), NEW n \in 0..Len(s)
  PROVE  /\ SubSeq(s, 1, n) \in Seq(S) /\ Len(SubSeq(s, 1, n)) = n
         /\ \A i \in 1..n : SubSeq(s, 1, n)[i] = s[i]
<1>1. n \in Int /\ 1 \in Int /\ \A i \in 1..n : s[i] \in S
  OBVIOUS
<1>2. /\ SubSeq(s, 1, n) \in Seq(S)
      /\ Len(SubSeq(s, 1, n)) = IF 1 <= n THEN n - 1 + 1 ELSE 0
      /\ \A i \in 1..(n - 1 + 1) : SubSeq(s, 1, n)[i] = s[1 + i - 1]
  BY <1>1, SubSeqProperties
<1>3. /\ n - 1 + 1 = n /\ (IF 1 <= n THEN n - 1 + 1 ELSE 0) = n
      /\ \A i \in 1..n : 1 + i - 1 = i
  OBVIOUS
<1> QED  BY <1>2, <1>3, Zenon

LEMMA NewSocketType ==
  ASSUME NEW c \in Objects, NEW m \in Modes, NEW st \in States
  PROVE  NewSocket(c, m, st) \in LpcSocket
  BY DEF NewSocket, LpcSocket

\* A new handle is the next number, and only its record is new.
LEMMA RegisterType ==
  ASSUME TypeOK, nextHandle < MaxSockets, NEW s \in LpcSocket,
         nextHandle' = nextHandle + 1,
         DOMAIN sock' = DOMAIN sock \union {nextHandle},
         \A h \in DOMAIN sock' : sock'[h] \in LpcSocket
  PROVE  /\ nextHandle' \in 0..MaxSockets
         /\ DOMAIN sock' = 0..(nextHandle' - 1)
         /\ DOMAIN sock \subseteq DOMAIN sock'
  BY BoundAssumption DEF TypeOK

\* Callbacks fire for sockets the registry once made.
LEMMA FireType ==
  ASSUME TypeOK, NEW h \in DOMAIN sock, NEW kind \in {"read", "write", "close"},
         Fire(h, kind), DOMAIN sock' = DOMAIN sock
  PROVE  /\ pc' \in {"lpc", "sweep", "callback"}
         /\ calling' \in ((DOMAIN sock') \X {"read", "write", "close"}) \union {None}
         /\ pc' = "callback" <=> calling' # None
         /\ signalled' \subseteq DOMAIN sock'
<1>1. <<h, kind>> # None
  BY NoneAssumption, BoundAssumption DEF TypeOK
<1>2. CASE sock[h].owner \notin destructed \union gone
  <2>1. pc' = "callback" /\ calling' = <<h, kind>> /\ signalled' \subseteq signalled \union {h}
    BY <1>2 DEF Fire
  <2> QED  BY <1>1, <2>1 DEF TypeOK
<1>3. CASE ~(sock[h].owner \notin destructed \union gone)
  <2>1. pc' = "sweep" /\ calling' = None /\ signalled' = signalled
    BY <1>3 DEF Fire
  <2> QED  BY <2>1 DEF TypeOK
<1> QED  BY <1>2, <1>3

\* The record of one socket is updated in place.
LEMMA UpdateType ==
  ASSUME TypeOK, NEW h \in DOMAIN sock, NEW s \in LpcSocket,
         sock' = [sock EXCEPT ![h] = s]
  PROVE  DOMAIN sock' = DOMAIN sock /\ \A k \in DOMAIN sock' : sock'[k] \in LpcSocket
  BY DEF TypeOK

\* What the efuns and the sweep store into one field keeps a record's type.
LEMMA FieldTypes ==
  ASSUME NEW r \in LpcSocket
  PROVE  /\ \A st \in States : [r EXCEPT !.state = st] \in LpcSocket
         /\ \A b \in BOOLEAN : [r EXCEPT !.acceptPending = b] \in LpcSocket
         /\ \A b \in BOOLEAN : [r EXCEPT !.blocked = b] \in LpcSocket
         /\ \A st \in States : [r EXCEPT !.state = st, !.blocked = TRUE] \in LpcSocket
         /\ \A o \in Objects \union {None} : [r EXCEPT !.releaseTarget = o] \in LpcSocket
         /\ \A o \in Objects : [r EXCEPT !.owner = o, !.releaseTarget = None] \in LpcSocket
<1>1. \A st \in States : [r EXCEPT !.state = st] \in LpcSocket
  BY Zenon DEF LpcSocket
<1>2. \A b \in BOOLEAN : [r EXCEPT !.acceptPending = b] \in LpcSocket
  BY Zenon DEF LpcSocket
<1>3. \A b \in BOOLEAN : [r EXCEPT !.blocked = b] \in LpcSocket
  BY Zenon DEF LpcSocket
<1>4. \A st \in States : [r EXCEPT !.state = st, !.blocked = TRUE] \in LpcSocket
  BY Zenon DEF LpcSocket
<1>5. \A o \in Objects \union {None} : [r EXCEPT !.releaseTarget = o] \in LpcSocket
  BY Zenon DEF LpcSocket
<1>6. \A o \in Objects : [r EXCEPT !.owner = o, !.releaseTarget = None] \in LpcSocket
  BY Zenon DEF LpcSocket
<1> QED  BY <1>1, <1>2, <1>3, <1>4, <1>5, <1>6

LEMMA HandlesSockets == ASSUME TypeOK PROVE DOMAIN sock \subseteq Handles
  BY BoundAssumption DEF TypeOK, Handles

-----------------------------------------------------------------------------
\* The registry, the sweep and its callback have their types: what the sweep
\* still has to visit, and the socket of the POLLOUT branch, are sockets that
\* were registered once, even when callbacks have closed them since.
THEOREM SocketTypes == Spec => []TypeOK
<1> USE BoundAssumption
<1>1. Init => TypeOK
  <2> SUFFICES ASSUME Init PROVE TypeOK
    OBVIOUS
  <2>1. DOMAIN sock = {} /\ 0..(nextHandle - 1) = {}
    BY DEF Init
  <2>2. releases \in Seq(DOMAIN sock)
    BY DEF Init
  <2> QED  BY <2>1, <2>2 DEF Init, TypeOK
<1>2. ASSUME TypeOK, [Next]_vars PROVE TypeOK'
  <2> USE <1>2 DEF registry, objects, sweep
  <2>1. ASSUME NEW c \in Objects, NEW m \in Modes, Create(c, m) PROVE TypeOK'
    <3>1. NewSocket(c, m, "UNBOUND") \in LpcSocket
      BY NewSocketType DEF States
    <3>2. /\ DOMAIN sock' = DOMAIN sock \union {nextHandle}
          /\ \A h \in DOMAIN sock' : sock'[h] \in LpcSocket
      BY <2>1, <3>1 DEF Create, Register, TypeOK
    <3>3. /\ nextHandle' \in 0..MaxSockets
          /\ DOMAIN sock' = 0..(nextHandle' - 1)
          /\ DOMAIN sock \subseteq DOMAIN sock'
      BY <2>1, <3>1, <3>2, RegisterType DEF Create, Register
    <3>4. releases' \in Seq(DOMAIN sock')
      BY <2>1, <3>3, SeqMonotonic DEF Create, TypeOK
    <3> QED  BY <2>1, <3>2, <3>3, <3>4 DEF Create, Register, TypeOK
  <2>2. ASSUME NEW h \in open, NEW c \in Objects, Accept(h, c) PROVE TypeOK'
    <3>1. NewSocket(c, "STREAM", "DATA_XFER") \in LpcSocket
      BY NewSocketType DEF States, Modes
    <3>2. /\ DOMAIN sock' = DOMAIN sock \union {nextHandle}
          /\ \A k \in DOMAIN sock' : sock'[k] \in LpcSocket
      <4>1. h \in DOMAIN sock /\ [sock[h] EXCEPT !.acceptPending = FALSE] \in LpcSocket
        <5>1. h \in DOMAIN sock /\ sock[h] \in LpcSocket
          BY DEF TypeOK
        <5> QED  BY <5>1, FieldTypes, Zenon
      <4>2. /\ DOMAIN sock' = DOMAIN sock \union {nextHandle}
            /\ \A k \in DOMAIN sock' :
                 sock'[k] = IF k = nextHandle THEN NewSocket(c, "STREAM", "DATA_XFER")
                            ELSE IF k = h THEN [sock[h] EXCEPT !.acceptPending = FALSE]
                            ELSE sock[k]
        BY <2>2 DEF Accept
      <4>3. \A k \in DOMAIN sock : sock[k] \in LpcSocket
        BY DEF TypeOK
      <4> QED  BY <3>1, <4>1, <4>2, <4>3
    <3>3. /\ nextHandle' \in 0..MaxSockets
          /\ DOMAIN sock' = 0..(nextHandle' - 1)
          /\ DOMAIN sock \subseteq DOMAIN sock'
      BY <2>2, <3>1, <3>2, RegisterType DEF Accept
    <3>4. releases' \in Seq(DOMAIN sock')
      BY <2>2, <3>3, SeqMonotonic DEF Accept, TypeOK
    <3> QED  BY <2>2, <3>2, <3>3, <3>4 DEF Accept, TypeOK
  <2>3. ASSUME NEW h \in open, NEW c \in Objects,
               Bind(h, c) \/ Listen(h, c) \/ AcceptNone(h, c) \/ Connect(h, c)
                 \/ WriteError(h, c) \/ Close(h, c) \/ Acquire(h, c)
        PROVE  TypeOK'
    <3>0. h \in DOMAIN sock /\ sock[h] \in LpcSocket
      BY DEF TypeOK
    <3>1. CASE WriteError(h, c) \/ Close(h, c)
      BY <3>1 DEF WriteError, Close, TypeOK
    <3>2. DOMAIN sock' = DOMAIN sock /\ \A k \in DOMAIN sock' : sock'[k] \in LpcSocket
      <4>1. CASE Bind(h, c) \/ Listen(h, c)
        <5>1. PICK st \in States : sock' = [sock EXCEPT ![h].state = st]
          BY <4>1 DEF Bind, Listen, SetState, States
        <5> QED  BY <3>0, <5>1 DEF TypeOK, LpcSocket
      <4>2. CASE AcceptNone(h, c)
        <5>1. sock' = [sock EXCEPT ![h] = [sock[h] EXCEPT !.acceptPending = FALSE]]
          BY <4>2 DEF AcceptNone
        <5>2. [sock[h] EXCEPT !.acceptPending = FALSE] \in LpcSocket
          BY <3>0, FieldTypes, Zenon
        <5> QED  BY <3>0, <5>1, <5>2, UpdateType
      <4>3. CASE Connect(h, c)
        <5>1. sock' = [sock EXCEPT ![h] = [sock[h] EXCEPT !.state = "DATA_XFER", !.blocked = TRUE]]
          BY <3>0, <4>3 DEF Connect, TypeOK
        <5>2. [sock[h] EXCEPT !.state = "DATA_XFER", !.blocked = TRUE] \in LpcSocket
          <6>1. "DATA_XFER" \in States
            BY DEF States
          <6> QED  BY <3>0, <6>1, FieldTypes, Zenon
        <5> QED  BY <3>0, <5>1, <5>2, UpdateType
      <4>4. CASE Acquire(h, c)
        BY <3>0, <4>4 DEF Acquire, Handover, TypeOK, LpcSocket
      <4>5. CASE WriteError(h, c) \/ Close(h, c)
        BY <4>5 DEF WriteError, Close, TypeOK
      <4> QED  BY <2>3, <4>1, <4>2, <4>3, <4>4, <4>5
    <3> QED  BY <2>3, <3>1, <3>2 DEF Bind, Listen, SetState, AcceptNone, Connect, Acquire, TypeOK
  <2>4. ASSUME NEW h \in open, NEW c \in Objects, NEW n \in 1..MaxBytes,
               NEW k \in 1..MaxBytes, Write(h, c, n, k)
        PROVE  TypeOK'
    <3> DEFINE bytes == [i \in 1..n |-> Accepted(h) + i]
    <3>0. h \in Handles /\ h \in DOMAIN sock
      BY HandlesSockets DEF TypeOK
    <3>1. sent[h] \in Seq(Nat) /\ pendingWrite[h] \in Seq(Nat) /\ Accepted(h) \in Nat
      BY <3>0 DEF TypeOK, Accepted
    <3>2. bytes \in Seq(Nat) /\ Len(bytes) = n
      <4>1. bytes \in [1..n -> Nat] /\ n \in Nat
        BY <3>1
      <4> QED  BY <4>1, SeqDef, LenProperties
    <3> HIDE DEF bytes
    <3>3. k \in 1..n
      BY <2>4 DEF Write
    <3>4. SubSeq(bytes, 1, k) \in Seq(Nat) /\ SubSeq(bytes, k + 1, n) \in Seq(Nat)
      BY <3>2, <3>3
    <3>5. sent[h] \o SubSeq(bytes, 1, k) \in Seq(Nat)
      BY <3>1, <3>4
    <3>6. sent' \in [Handles -> Seq(Nat)] /\ pendingWrite' \in [Handles -> Seq(Nat)]
      BY <2>4, <3>4, <3>5 DEF Write, TypeOK, bytes
    <3>7. DOMAIN sock' = DOMAIN sock /\ \A j \in DOMAIN sock' : sock'[j] \in LpcSocket
      BY <2>4, <3>0 DEF Write, TypeOK, LpcSocket
    <3> QED  BY <2>4, <3>6, <3>7 DEF Write, TypeOK
  <2>5. ASSUME NEW h \in open, NEW c \in Objects, NEW ob \in Objects, Release(h, c, ob)
        PROVE  TypeOK'
    <3>1. DOMAIN sock' = DOMAIN sock /\ \A k \in DOMAIN sock' : sock'[k] \in LpcSocket
      BY <2>5 DEF Release, TypeOK, LpcSocket
    <3>2. releases' \in Seq(DOMAIN sock')
      BY <2>5, <3>1 DEF Release, TypeOK
    <3> QED  BY <2>5, <3>1, <3>2 DEF Release, TypeOK
  <2>6. ASSUME NEW c \in Objects, Destruct(c) \/ ReloadObject(c) \/ Free(c) PROVE TypeOK'
    BY <2>6 DEF Destruct, ReloadObject, Free, CloseAllOwnedBy, OwnedBy, TypeOK
  <2>7. CASE EndRelease
    <3>1. releases[Len(releases)] \in DOMAIN sock
      BY <2>7 DEF EndRelease, TypeOK
    <3>2. DOMAIN sock' = DOMAIN sock /\ \A k \in DOMAIN sock' : sock'[k] \in LpcSocket
      BY <2>7, <3>1 DEF EndRelease, CancelRelease, TypeOK, LpcSocket
    <3>3. releases' \in Seq(DOMAIN sock')
      BY <2>7, <3>2 DEF EndRelease, TypeOK
    <3> QED  BY <2>7, <3>2, <3>3 DEF EndRelease, TypeOK
  <2>8. CASE StartSweep \/ CallbackEnds \/ EndSweep
    BY <2>8 DEF StartSweep, CallbackEnds, EndSweep, TypeOK
  <2>9. ASSUME NEW h \in todo, NothingReady(h) \/ BecomesWritable(h) PROVE TypeOK'
    BY <2>9 DEF NothingReady, BecomesWritable, Visit, TypeOK
  <2>10. ASSUME NEW h \in todo, Datagram(h) \/ DataArrives(h) PROVE TypeOK'
    <3>1. Fire(h, "read") /\ h \in DOMAIN sock /\ sock' = sock
      BY <2>10 DEF Datagram, DataArrives, TypeOK
    <3> QED  BY <2>10, <3>1, FireType DEF Datagram, DataArrives, Visit, TypeOK
  <2>11. ASSUME NEW h \in todo, ConnectionWaits(h) PROVE TypeOK'
    <3>1. DOMAIN sock' = DOMAIN sock /\ \A k \in DOMAIN sock' : sock'[k] \in LpcSocket
      BY <2>11 DEF ConnectionWaits, TypeOK, LpcSocket
    <3>2. Fire(h, "read") /\ h \in DOMAIN sock
      BY <2>11 DEF ConnectionWaits, TypeOK
    <3> QED  BY <2>11, <3>1, <3>2, FireType DEF ConnectionWaits, Visit, TypeOK
  <2>12. ASSUME NEW h \in todo, PeerCloses(h) PROVE TypeOK'
    <3>1. Fire(h, "close") /\ h \in DOMAIN sock /\ sock' = sock
      BY <2>12 DEF PeerCloses, DriverClose, TypeOK
    <3> QED  BY <2>12, <3>1, FireType DEF PeerCloses, DriverClose, ForceRemove, Visit, TypeOK
  <2>13. ASSUME NEW h \in Handles \intersect {writeStep}, FlushError(h) PROVE TypeOK'
    <3>1. Fire(h, "close") /\ h \in DOMAIN sock /\ sock' = sock
      BY <2>13, NoneAssumption DEF FlushError, DriverClose, TypeOK, Handles
    <3> QED  BY <2>13, <3>1, FireType DEF FlushError, DriverClose, ForceRemove, TypeOK
  <2>14. ASSUME NEW h \in Handles \intersect {writeStep}, FlushAll(h) PROVE TypeOK'
    <3>1. Fire(h, "write") /\ h \in DOMAIN sock
      <4>1. h \in Nat /\ h = writeStep
        BY DEF Handles
      <4>2. h \in DOMAIN sock
        BY <4>1, NoneAssumption DEF TypeOK
      <4> QED  BY <2>14, <4>2 DEF FlushAll
    <3>2. DOMAIN sock' = DOMAIN sock /\ \A k \in DOMAIN sock' : sock'[k] \in LpcSocket
      <4>1. sock' = [sock EXCEPT ![h] = [sock[h] EXCEPT !.blocked = FALSE]]
        BY <2>14 DEF FlushAll, Unblocked
      <4>2. sock[h] \in LpcSocket
        BY <3>1 DEF TypeOK
      <4>3. [sock[h] EXCEPT !.blocked = FALSE] \in LpcSocket
        BY <4>2, FieldTypes, Zenon
      <4> QED  BY <3>1, <4>1, <4>3, UpdateType
    <3>3. sent[h] \in Seq(Nat) /\ pendingWrite[h] \in Seq(Nat)
      BY DEF TypeOK
    <3>4. sent[h] \o pendingWrite[h] \in Seq(Nat) /\ <<>> \in Seq(Nat)
      BY <3>3
    <3>5. sent' \in [Handles -> Seq(Nat)] /\ pendingWrite' \in [Handles -> Seq(Nat)]
      BY <2>14, <3>4 DEF FlushAll, TypeOK
    <3> QED  BY <2>14, <3>1, <3>2, <3>5, FireType DEF FlushAll, TypeOK
  <2>15. ASSUME NEW h \in Handles \intersect {writeStep}, NEW k \in 0..MaxBytes, FlushSome(h, k)
         PROVE  TypeOK'
    <3>1. sent[h] \in Seq(Nat) /\ pendingWrite[h] \in Seq(Nat) /\ k < Len(pendingWrite[h])
      BY <2>15 DEF TypeOK, FlushSome
    <3>2. /\ SubSeq(pendingWrite[h], 1, k) \in Seq(Nat)
          /\ SubSeq(pendingWrite[h], k + 1, Len(pendingWrite[h])) \in Seq(Nat)
      BY <3>1
    <3>3. sent[h] \o SubSeq(pendingWrite[h], 1, k) \in Seq(Nat)
      BY <3>1, <3>2
    <3>4. sent' \in [Handles -> Seq(Nat)] /\ pendingWrite' \in [Handles -> Seq(Nat)]
      BY <2>15, <3>2, <3>3 DEF FlushSome, TypeOK
    <3> QED  BY <2>15, <3>4 DEF FlushSome, TypeOK
  <2>16. CASE UNCHANGED vars
    BY <2>16 DEF vars, TypeOK
  <2> QED  BY <1>2, <2>1, <2>2, <2>3, <2>4, <2>5, <2>6, <2>7, <2>8, <2>9, <2>10, <2>11,
              <2>12, <2>13, <2>14, <2>15, <2>16 DEF Next, Lpc, PollSockets
<1> QED  BY <1>1, <1>2, PTL DEF Spec

-----------------------------------------------------------------------------
(* What one step leaves alone *)

\* The sweep opens no socket, hands none over and offers none.
LEMMA SweepKeeps ==
  ASSUME TypeOK, PollSockets
  PROVE  /\ UNCHANGED <<destructed, gone, releases, nextHandle>>
         /\ open' \subseteq open /\ DOMAIN sock' = DOMAIN sock
         /\ \A k \in DOMAIN sock : /\ sock'[k].owner = sock[k].owner
                                  /\ sock'[k].releaseTarget = sock[k].releaseTarget
<1> USE DEF registry, objects, sweep
<1>1. CASE StartSweep \/ CallbackEnds \/ EndSweep
  BY <1>1 DEF StartSweep, CallbackEnds, EndSweep
<1>2. ASSUME NEW h \in todo,
             NothingReady(h) \/ Datagram(h) \/ DataArrives(h) \/ BecomesWritable(h) \/ PeerCloses(h)
      PROVE  UNCHANGED <<destructed, gone, releases, nextHandle, sock>> /\ open' \subseteq open
  BY <1>2 DEF NothingReady, Datagram, DataArrives, BecomesWritable, PeerCloses, DriverClose, ForceRemove
<1>3. ASSUME NEW h \in todo, ConnectionWaits(h)
      PROVE  /\ UNCHANGED <<destructed, gone, releases, nextHandle, open>>
             /\ DOMAIN sock' = DOMAIN sock
             /\ \A k \in DOMAIN sock : /\ sock'[k].owner = sock[k].owner
                                      /\ sock'[k].releaseTarget = sock[k].releaseTarget
  BY <1>3 DEF ConnectionWaits, TypeOK, LpcSocket
<1>4. ASSUME NEW h \in Handles, FlushError(h) \/ (\E k \in 0..MaxBytes : FlushSome(h, k))
      PROVE  UNCHANGED <<destructed, gone, releases, nextHandle, sock>> /\ open' \subseteq open
  BY <1>4 DEF FlushError, FlushSome, DriverClose, ForceRemove
<1>5. ASSUME NEW h \in Handles, FlushAll(h)
      PROVE  /\ UNCHANGED <<destructed, gone, releases, nextHandle, open>>
             /\ DOMAIN sock' = DOMAIN sock
             /\ \A k \in DOMAIN sock : /\ sock'[k].owner = sock[k].owner
                                      /\ sock'[k].releaseTarget = sock[k].releaseTarget
  BY <1>5 DEF FlushAll, Unblocked, TypeOK, LpcSocket
<1> QED  BY <1>1, <1>2, <1>3, <1>4, <1>5 DEF PollSockets

\* LPC code opens at most the next handle, and does not touch the sweep.
LEMMA LpcKeeps ==
  ASSUME TypeOK, Lpc
  PROVE  /\ UNCHANGED <<pc, todo, writeStep, calling, signalled>>
         /\ open' \subseteq open \union {nextHandle}
<1> USE DEF registry, objects, sweep
<1>1. ASSUME NEW c \in Objects, NEW m \in Modes, Create(c, m)
      PROVE  /\ UNCHANGED <<pc, todo, writeStep, calling, signalled>>
             /\ open' = open \union {nextHandle}
  BY <1>1 DEF Create, Register
<1>2. ASSUME NEW h, NEW c \in Objects, Accept(h, c)
      PROVE  /\ UNCHANGED <<pc, todo, writeStep, calling, signalled>>
             /\ open' = open \union {nextHandle}
  BY <1>2 DEF Accept
<1>3. ASSUME NEW h, NEW c \in Objects,
             Bind(h, c) \/ Listen(h, c) \/ AcceptNone(h, c) \/ Connect(h, c)
               \/ WriteError(h, c) \/ Close(h, c) \/ Acquire(h, c)
      PROVE  UNCHANGED <<pc, todo, writeStep, calling, signalled>> /\ open' \subseteq open
  BY <1>3 DEF Bind, Listen, SetState, AcceptNone, Connect, WriteError, Close, Acquire
<1>4. ASSUME NEW h, NEW c \in Objects,
             \/ \E n, k \in 1..MaxBytes : Write(h, c, n, k)
             \/ \E ob \in Objects : Release(h, c, ob)
      PROVE  UNCHANGED <<pc, todo, writeStep, calling, signalled, open>>
  BY <1>4 DEF Write, Release
<1>5. ASSUME NEW c \in Objects, Destruct(c) \/ ReloadObject(c) \/ Free(c)
      PROVE  UNCHANGED <<pc, todo, writeStep, calling, signalled>> /\ open' \subseteq open
  BY <1>5 DEF Destruct, ReloadObject, CloseAllOwnedBy, OwnedBy, Free
<1>6. CASE EndRelease
  BY <1>6 DEF EndRelease
<1> QED  BY <1>1, <1>2, <1>3, <1>4, <1>5, <1>6 DEF Lpc

\* The efuns that move no socket between objects.
Plain(h, c) ==
    \/ Bind(h, c) \/ Listen(h, c) \/ AcceptNone(h, c) \/ Connect(h, c)
    \/ \E n, k \in 1..MaxBytes : Write(h, c, n, k)

LEMMA PlainKeeps ==
  ASSUME TypeOK, NEW h \in open, NEW c \in Objects, Plain(h, c)
  PROVE  /\ UNCHANGED <<open, destructed, releases>> /\ DOMAIN sock' = DOMAIN sock
         /\ \A k \in DOMAIN sock : /\ sock'[k].owner = sock[k].owner
                                  /\ sock'[k].releaseTarget = sock[k].releaseTarget
<1> USE DEF registry, objects, sweep
<1>0. h \in DOMAIN sock /\ sock[h] \in LpcSocket
  BY DEF TypeOK
<1>1. PICK r : sock' = [sock EXCEPT ![h] = r] /\ r.owner = sock[h].owner
                 /\ r.releaseTarget = sock[h].releaseTarget
  <2>1. ASSUME NEW st, sock' = [sock EXCEPT ![h].state = st]
        PROVE  \E r : sock' = [sock EXCEPT ![h] = r] /\ r.owner = sock[h].owner
                 /\ r.releaseTarget = sock[h].releaseTarget
    <3> WITNESS [sock[h] EXCEPT !.state = st]
    <3> QED  BY <1>0, <2>1 DEF LpcSocket
  <2>2. CASE Bind(h, c) \/ Listen(h, c)
    BY <2>1, <2>2 DEF Bind, Listen, SetState
  <2>3. CASE AcceptNone(h, c)
    <3> WITNESS [sock[h] EXCEPT !.acceptPending = FALSE]
    <3> QED  BY <1>0, <2>3 DEF AcceptNone, LpcSocket
  <2>4. CASE Connect(h, c)
    <3> WITNESS [sock[h] EXCEPT !.state = "DATA_XFER", !.blocked = TRUE]
    <3> QED  BY <1>0, <2>4 DEF Connect, LpcSocket
  <2>5. ASSUME NEW n \in 1..MaxBytes, NEW k \in 1..MaxBytes, Write(h, c, n, k)
        PROVE  \E r : sock' = [sock EXCEPT ![h] = r] /\ r.owner = sock[h].owner
                 /\ r.releaseTarget = sock[h].releaseTarget
    <3> WITNESS [sock[h] EXCEPT !.blocked = @ \/ k < n]
    <3> QED  BY <1>0, <2>5 DEF Write, LpcSocket
  <2> QED  BY <2>2, <2>3, <2>4, <2>5 DEF Plain
<1>2. UNCHANGED <<open, destructed, releases>>
  BY DEF Plain, Bind, Listen, SetState, AcceptNone, Connect, Write
<1> QED  BY <1>0, <1>1, <1>2

-----------------------------------------------------------------------------
\* However releases, acquires, closes and new sockets nest in the callback of a
\* socket_release(), a socket is on offer only while a release of it runs.
THEOREM ReleasesScoped == Spec => []ReleaseScoped
<1> USE BoundAssumption
<1>1. Init => ReleaseScoped
  BY DEF Init, ReleaseScoped
<1>2. ASSUME TypeOK, ReleaseScoped, [Next]_vars PROVE ReleaseScoped'
  <2> USE <1>2 DEF registry, objects, sweep
  <2>0. nextHandle \notin DOMAIN sock
    BY DEF TypeOK
  <2>1. ASSUME NEW c \in Objects, NEW m \in Modes, Create(c, m) PROVE ReleaseScoped'
    BY <2>0, <2>1 DEF Create, Register, NewSocket, ReleaseScoped, TypeOK
  <2>2. ASSUME NEW h \in open, NEW c \in Objects, Accept(h, c) PROVE ReleaseScoped'
    <3>1. /\ sock'[nextHandle].releaseTarget = None
          /\ \A k \in DOMAIN sock : sock'[k].releaseTarget = sock[k].releaseTarget
      BY <2>0, <2>2 DEF Accept, NewSocket, TypeOK, LpcSocket
    <3> QED  BY <2>2, <3>1 DEF Accept, ReleaseScoped, TypeOK
  <2>3. ASSUME NEW h \in open, NEW c \in Objects, Plain(h, c) PROVE ReleaseScoped'
    BY <2>3, PlainKeeps DEF ReleaseScoped, TypeOK
  <2>4. ASSUME NEW h \in open, NEW c \in Objects, WriteError(h, c) \/ Close(h, c)
        PROVE  ReleaseScoped'
    BY <2>4 DEF WriteError, Close, ReleaseScoped
  <2>5. ASSUME NEW h \in open, NEW c \in Objects, Acquire(h, c) PROVE ReleaseScoped'
    BY <2>5 DEF Acquire, Handover, ReleaseScoped, TypeOK, LpcSocket
  <2>6. ASSUME NEW h \in open, NEW c \in Objects, NEW ob \in Objects, Release(h, c, ob)
        PROVE  ReleaseScoped'
    <3>1. /\ Len(releases') = Len(releases) + 1 /\ releases'[Len(releases) + 1] = h
          /\ \A i \in 1..Len(releases) : releases'[i] = releases[i]
      BY <2>6 DEF Release, TypeOK
    <3>2. \A k \in open : k # h => sock'[k].releaseTarget = sock[k].releaseTarget
      BY <2>6 DEF Release, TypeOK
    <3>3. Len(releases) \in Nat /\ open' = open
      BY <2>6 DEF Release, TypeOK
    <3> QED  BY <3>1, <3>2, <3>3 DEF ReleaseScoped
  <2>7. CASE EndRelease
    <3> DEFINE last == releases[Len(releases)]
    <3>1. Len(releases) \in Nat \ {0} /\ last \in DOMAIN sock
      BY <2>7 DEF EndRelease, TypeOK
    <3>2. /\ Len(releases') = Len(releases) - 1
          /\ \A i \in 1..(Len(releases) - 1) : releases'[i] = releases[i]
      <4>1. releases' = SubSeq(releases, 1, Len(releases) - 1)
        BY <2>7 DEF EndRelease
      <4>2. releases \in Seq(DOMAIN sock) /\ Len(releases) - 1 \in 0..Len(releases)
        BY <3>1 DEF TypeOK
      <4> QED  BY <4>1, <4>2, PrefixProperties, Zenon
    <3>3. \A k \in open : /\ k = last => sock'[k].releaseTarget = None
                          /\ k # last => sock'[k].releaseTarget = sock[k].releaseTarget
      BY <2>7, <3>1 DEF EndRelease, CancelRelease, TypeOK, LpcSocket
    <3>4. open' = open
      BY <2>7 DEF EndRelease
    <3> QED  BY <3>1, <3>2, <3>3, <3>4 DEF ReleaseScoped
  <2>8. ASSUME NEW c \in Objects, Destruct(c) \/ ReloadObject(c) \/ Free(c) PROVE ReleaseScoped'
    BY <2>8 DEF Destruct, ReloadObject, Free, CloseAllOwnedBy, ReleaseScoped
  <2>9. CASE PollSockets
    BY <2>9, SweepKeeps DEF ReleaseScoped, TypeOK
  <2>10. CASE UNCHANGED vars
    BY <2>10 DEF vars, ReleaseScoped
  <2> QED  BY <2>1, <2>2, <2>3, <2>4, <2>5, <2>6, <2>7, <2>8, <2>9, <2>10 DEF Next, Lpc, Plain
<1> QED  BY <1>1, <1>2, SocketTypes, PTL DEF Spec

-----------------------------------------------------------------------------
\* Where a function stops calling efuns once its object is destructed, no open
\* socket ever belongs to a destructed object: neither accept nor acquire can
\* hand one over after closeAllOwnedBy() has run.
THEOREM OwnersLive ==
  ASSUME ~DestructedCode
  PROVE  Spec => []OwnersNotDestructed
<1>1. Init => OwnersNotDestructed
  BY DEF Init, OwnersNotDestructed
<1>2. ASSUME TypeOK, OwnersNotDestructed, [Next]_vars PROVE OwnersNotDestructed'
  <2> USE <1>2 DEF registry, objects, sweep
  <2>0. nextHandle \notin DOMAIN sock
    BY BoundAssumption DEF TypeOK
  <2>1. ASSUME NEW c \in Objects, NEW m \in Modes, Create(c, m) PROVE OwnersNotDestructed'
    BY <2>0, <2>1 DEF Create, Calling, Register, NewSocket, OwnersNotDestructed, TypeOK
  <2>2. ASSUME NEW h \in open, NEW c \in Objects, Accept(h, c) PROVE OwnersNotDestructed'
    <3>1. /\ sock'[nextHandle].owner = c
          /\ \A k \in DOMAIN sock : sock'[k].owner = sock[k].owner
      BY <2>0, <2>2 DEF Accept, NewSocket, TypeOK, LpcSocket
    <3> QED  BY <2>2, <3>1 DEF Accept, Calling, OwnersNotDestructed, TypeOK
  <2>3. ASSUME NEW h \in open, NEW c \in Objects, Plain(h, c) PROVE OwnersNotDestructed'
    BY <2>3, PlainKeeps DEF OwnersNotDestructed, TypeOK
  <2>10. ASSUME NEW h \in open, NEW c \in Objects, NEW ob \in Objects, Release(h, c, ob)
         PROVE  OwnersNotDestructed'
    BY <2>10 DEF Release, OwnersNotDestructed, TypeOK, LpcSocket
  <2>4. ASSUME NEW h \in open, NEW c \in Objects, WriteError(h, c) \/ Close(h, c)
        PROVE  OwnersNotDestructed'
    BY <2>4 DEF WriteError, Close, OwnersNotDestructed
  <2>5. ASSUME NEW h \in open, NEW c \in Objects, Acquire(h, c) PROVE OwnersNotDestructed'
    BY <2>5 DEF Acquire, Calling, Handover, OwnersNotDestructed, TypeOK, LpcSocket
  <2>6. CASE EndRelease
    BY <2>6 DEF EndRelease, CancelRelease, OwnersNotDestructed, TypeOK, LpcSocket
  <2>7. ASSUME NEW c \in Objects, Destruct(c) \/ ReloadObject(c) \/ Free(c)
        PROVE  OwnersNotDestructed'
    BY <2>7 DEF Destruct, ReloadObject, Free, CloseAllOwnedBy, OwnedBy, OwnersNotDestructed
  <2>8. CASE PollSockets
    BY <2>8, SweepKeeps DEF OwnersNotDestructed, TypeOK
  <2>9. CASE UNCHANGED vars
    BY <2>9 DEF vars, OwnersNotDestructed
  <2> QED  BY <2>1, <2>2, <2>3, <2>4, <2>5, <2>6, <2>7, <2>8, <2>9, <2>10 DEF Next, Lpc, Plain
<1> QED  BY <1>1, <1>2, SocketTypes, PTL DEF Spec

-----------------------------------------------------------------------------
(* The byte stream *)

Upto(n) == [i \in 1..n |-> i]

\* A socket that keeps bytes back is a registered one, and blocked.
KeepsBack == \A h \in Handles : pendingWrite[h] # <<>> => h \in DOMAIN sock /\ sock[h].blocked

StreamInv == StreamInOrder /\ KeepsBack

LEMMA Associative == \A x, y, z \in Seq(Nat) : (x \o y) \o z = x \o (y \o z)
<1> TAKE x, y, z \in Seq(Nat)
<1> QED  BY ConcatAssociative

\* n bytes are numbered from where a stream of a bytes ends, and k of them go out.
LEMMA SplitWrite ==
  ASSUME NEW a \in Nat, NEW n \in Nat, NEW k \in 1..n
  PROVE  LET bytes == [i \in 1..n |-> a + i]
         IN  /\ Upto(a) \o SubSeq(bytes, 1, k) \in Seq(Nat)
             /\ Len(Upto(a) \o SubSeq(bytes, 1, k)) = a + k
             /\ SubSeq(bytes, k + 1, n) \in Seq(Nat) /\ Len(SubSeq(bytes, k + 1, n)) = n - k
             /\ (Upto(a) \o SubSeq(bytes, 1, k)) \o SubSeq(bytes, k + 1, n) = Upto(a + n)
<1> DEFINE bytes == [i \in 1..n |-> a + i]
<1>1. bytes \in Seq(Nat) /\ Len(bytes) = n /\ \A i \in 1..n : bytes[i] = a + i
  OBVIOUS
<1>2. \A m \in Nat : Upto(m) \in Seq(Nat) /\ Len(Upto(m)) = m /\ \A i \in 1..m : Upto(m)[i] = i
  BY DEF Upto
<1> HIDE DEF bytes
<1>3. k \in 1 - 1 .. Len(bytes) /\ 1 \in 1..(Len(bytes) + 1) /\ n \in k..Len(bytes)
  BY <1>1
<1>4. SubSeq(bytes, 1, k) \o SubSeq(bytes, k + 1, n) = SubSeq(bytes, 1, n)
  BY <1>1, <1>3, ConcatAdjacentSubSeq
<1>5. SubSeq(bytes, 1, n) = bytes
  BY <1>1, SubSeqFull
<1>6. SubSeq(bytes, 1, k) \in Seq(Nat) /\ Len(SubSeq(bytes, 1, k)) = k
  BY <1>1
<1>7. SubSeq(bytes, k + 1, n) \in Seq(Nat) /\ Len(SubSeq(bytes, k + 1, n)) = n - k
  BY <1>1
<1>8. (Upto(a) \o SubSeq(bytes, 1, k)) \o SubSeq(bytes, k + 1, n) = Upto(a) \o bytes
  <2>1. Upto(a) \in Seq(Nat)
    BY <1>2
  <2>2. (Upto(a) \o SubSeq(bytes, 1, k)) \o SubSeq(bytes, k + 1, n)
          = Upto(a) \o (SubSeq(bytes, 1, k) \o SubSeq(bytes, k + 1, n))
    BY <2>1, <1>6, <1>7, Associative, Zenon
  <2> QED  BY <2>2, <1>4, <1>5, Zenon
<1>9. Upto(a) \o bytes = Upto(a + n)
  <2>1. Upto(a) \in Seq(Nat) /\ Len(Upto(a)) = a /\ bytes \in Seq(Nat)
    BY <1>1, <1>2, Zenon
  <2>2. /\ Upto(a) \o bytes \in Seq(Nat)
        /\ Len(Upto(a) \o bytes) = Len(Upto(a)) + Len(bytes)
        /\ \A i \in 1..(Len(Upto(a)) + Len(bytes)) :
             (Upto(a) \o bytes)[i] = IF i <= Len(Upto(a)) THEN Upto(a)[i] ELSE bytes[i - Len(Upto(a))]
    BY <2>1, ConcatProperties, Zenon
  <2>3. a + n \in Nat /\ Len(Upto(a) \o bytes) = a + n /\ Len(Upto(a + n)) = a + n
    BY <1>1, <1>2, <2>1, <2>2
  <2>4. \A i \in 1..(a + n) : (IF i <= a THEN Upto(a)[i] ELSE bytes[i - a]) = i
    BY <1>1, <1>2
  <2>5. \A i \in 1..(a + n) : (Upto(a) \o bytes)[i] = i /\ Upto(a + n)[i] = i
    <3>1. \A i \in 1..(a + n) : (Upto(a) \o bytes)[i] = IF i <= a THEN Upto(a)[i] ELSE bytes[i - a]
      BY <1>1, <2>1, <2>2, Zenon
    <3> QED  BY <1>2, <2>3, <2>4, <3>1, Zenon
  <2>6. Upto(a + n) \in Seq(Nat)
    BY <1>2, <2>3, Zenon
  <2> QED  BY <2>2, <2>3, <2>5, <2>6, SeqEqual, Zenon
<1>10. Upto(a) \o SubSeq(bytes, 1, k) \in Seq(Nat) /\ Len(Upto(a) \o SubSeq(bytes, 1, k)) = a + k
  <2>1. Upto(a) \in Seq(Nat) /\ Len(Upto(a)) = a
    BY <1>2, Zenon
  <2>2. /\ Upto(a) \o SubSeq(bytes, 1, k) \in Seq(Nat)
        /\ Len(Upto(a) \o SubSeq(bytes, 1, k)) = Len(Upto(a)) + Len(SubSeq(bytes, 1, k))
    BY <2>1, <1>6, ConcatProperties, Zenon
  <2> QED  BY <2>1, <2>2, <1>6, Zenon
<1> QED  BY <1>7, <1>8, <1>9, <1>10 DEF bytes

\* k of the bytes kept back go out.
LEMMA SplitFlush ==
  ASSUME NEW s \in Seq(Nat), NEW p \in Seq(Nat), NEW k \in 0..Len(p)
  PROVE  /\ s \o SubSeq(p, 1, k) \in Seq(Nat) /\ SubSeq(p, k + 1, Len(p)) \in Seq(Nat)
         /\ Len(s \o SubSeq(p, 1, k)) + Len(SubSeq(p, k + 1, Len(p))) = Len(s) + Len(p)
         /\ (s \o SubSeq(p, 1, k)) \o SubSeq(p, k + 1, Len(p)) = s \o p
<1>1. Len(p) \in Nat /\ 1 \in 1..(Len(p) + 1) /\ k \in 1 - 1 .. Len(p) /\ Len(p) \in k..Len(p)
  OBVIOUS
<1>2. SubSeq(p, 1, k) \in Seq(Nat) /\ Len(SubSeq(p, 1, k)) = k
  OBVIOUS
<1>3. SubSeq(p, k + 1, Len(p)) \in Seq(Nat) /\ Len(SubSeq(p, k + 1, Len(p))) = Len(p) - k
  OBVIOUS
<1>4. SubSeq(p, 1, k) \o SubSeq(p, k + 1, Len(p)) = SubSeq(p, 1, Len(p))
  BY <1>1, ConcatAdjacentSubSeq
<1>5. SubSeq(p, 1, Len(p)) = p
  BY SubSeqFull
<1>6. (s \o SubSeq(p, 1, k)) \o SubSeq(p, k + 1, Len(p))
        = s \o (SubSeq(p, 1, k) \o SubSeq(p, k + 1, Len(p)))
  BY <1>2, <1>3, Associative, Zenon
<1>7. (s \o SubSeq(p, 1, k)) \o SubSeq(p, k + 1, Len(p)) = s \o p
  BY <1>4, <1>5, <1>6, Zenon
<1>8. s \o SubSeq(p, 1, k) \in Seq(Nat) /\ Len(s \o SubSeq(p, 1, k)) = Len(s) + Len(SubSeq(p, 1, k))
  BY <1>2, ConcatProperties, Zenon
<1>9. Len(s) + k + (Len(p) - k) = Len(s) + Len(p)
  OBVIOUS
<1> QED  BY <1>2, <1>3, <1>7, <1>8, <1>9, Zenon

\* A step that moves no byte keeps the invariant if it unblocks no socket.
LEMMA StreamFrame ==
  ASSUME TypeOK, StreamInv, UNCHANGED <<sent, pendingWrite>>,
         \A h \in DOMAIN sock : h \in DOMAIN sock' /\ (sock[h].blocked => sock'[h].blocked)
  PROVE  StreamInv'
  BY DEF StreamInv, StreamInOrder, KeepsBack, Accepted

\* Partial writes, flushes and callbacks that write again neither lose, repeat
\* nor reorder a byte that socket_write() accepted, and bytes are kept back only
\* for a blocked socket (so the sweep keeps polling it for POLLOUT).
THEOREM StreamsInOrder == Spec => []StreamInOrder
<1> USE BoundAssumption
<1>1. Init => StreamInv
  <2> SUFFICES ASSUME Init, NEW h \in Handles
               PROVE  sent[h] \o pendingWrite[h] = [i \in 1..Accepted(h) |-> i] /\ pendingWrite[h] = <<>>
    BY DEF StreamInv, StreamInOrder, KeepsBack
  <2>1. sent[h] = <<>> /\ pendingWrite[h] = <<>> /\ Accepted(h) = 0
    BY DEF Init, Accepted
  <2>2. <<>> \o <<>> = [i \in 1..0 |-> i]
    OBVIOUS
  <2> QED  BY <2>1, <2>2, Zenon
<1>2. ASSUME TypeOK, StreamInv, [Next]_vars PROVE StreamInv'
  <2> USE <1>2 DEF registry, objects, sweep
  <2>0. nextHandle \notin DOMAIN sock
    BY DEF TypeOK
  <2>1. ASSUME NEW c \in Objects, NEW m \in Modes, Create(c, m) PROVE StreamInv'
    BY <2>0, <2>1, StreamFrame DEF Create, Register
  <2>2. ASSUME NEW h \in open, NEW c \in Objects, Accept(h, c) PROVE StreamInv'
    <3>1. \A k \in DOMAIN sock : k \in DOMAIN sock' /\ (sock[k].blocked => sock'[k].blocked)
      BY <2>0, <2>2 DEF Accept, TypeOK, LpcSocket
    <3> QED  BY <2>2, <3>1, StreamFrame DEF Accept
  <2>3. ASSUME NEW h \in open, NEW c \in Objects,
               Bind(h, c) \/ Listen(h, c) \/ AcceptNone(h, c)
                 \/ Acquire(h, c) \/ (\E ob \in Objects : Release(h, c, ob))
        PROVE  StreamInv'
    <3>1. \A k \in DOMAIN sock : k \in DOMAIN sock' /\ (sock[k].blocked => sock'[k].blocked)
      <4>1. CASE Bind(h, c) \/ Listen(h, c)
        BY <4>1 DEF Bind, Listen, SetState, TypeOK, LpcSocket
      <4>2. CASE AcceptNone(h, c)
        BY <4>2 DEF AcceptNone, TypeOK, LpcSocket
      <4>3. CASE Acquire(h, c)
        BY <4>3 DEF Acquire, Handover, TypeOK, LpcSocket
      <4>4. CASE \E ob \in Objects : Release(h, c, ob)
        BY <4>4 DEF Release, TypeOK, LpcSocket
      <4> QED  BY <2>3, <4>1, <4>2, <4>3, <4>4
    <3> QED  BY <2>3, <3>1, StreamFrame DEF Bind, Listen, SetState, AcceptNone, Acquire, Release
  <2>4. ASSUME NEW h \in open, NEW c \in Objects, Connect(h, c) PROVE StreamInv'
    <3>1. \A k \in DOMAIN sock : k \in DOMAIN sock' /\ (sock[k].blocked => sock'[k].blocked)
      BY <2>4 DEF Connect, TypeOK, LpcSocket
    <3> QED  BY <2>4, <3>1, StreamFrame DEF Connect
  <2>5. ASSUME NEW h \in open, NEW c \in Objects, WriteError(h, c) \/ Close(h, c) PROVE StreamInv'
    BY <2>5, StreamFrame DEF WriteError, Close
  <2>6. ASSUME NEW h \in open, NEW c \in Objects, NEW n \in 1..MaxBytes, NEW k \in 1..MaxBytes,
               Write(h, c, n, k)
        PROVE  StreamInv'
    <3> DEFINE a == Len(sent[h])
               bytes == [i \in 1..n |-> a + i]
    <3>1. /\ h \in Handles /\ h \in DOMAIN sock /\ ~sock[h].blocked /\ k \in 1..n
          /\ n \in Nat
      BY <2>6, HandlesSockets DEF Write, Writable, TypeOK
    <3>2. pendingWrite[h] = <<>> /\ sent[h] \in Seq(Nat) /\ a \in Nat
      BY <3>1 DEF TypeOK, StreamInv, KeepsBack
    <3>3. Accepted(h) = a
      BY <3>2 DEF Accepted
    <3>4. sent[h] = Upto(a)
      <4>1. sent[h] \o <<>> = Upto(Accepted(h))
        BY <3>1, <3>2 DEF StreamInv, StreamInOrder, Upto
      <4> QED  BY <3>2, <3>3, <4>1, ConcatEmptySeq, Zenon
    <3>5. /\ sent' = [sent EXCEPT ![h] = sent[h] \o SubSeq(bytes, 1, k)]
          /\ pendingWrite' = [pendingWrite EXCEPT ![h] = IF k < n THEN SubSeq(bytes, k + 1, n) ELSE <<>>]
      BY <2>6, <3>2, <3>3, Zenon DEF Write
    <3>6. /\ Upto(a) \o SubSeq(bytes, 1, k) \in Seq(Nat)
          /\ Len(Upto(a) \o SubSeq(bytes, 1, k)) = a + k
          /\ SubSeq(bytes, k + 1, n) \in Seq(Nat) /\ Len(SubSeq(bytes, k + 1, n)) = n - k
          /\ (Upto(a) \o SubSeq(bytes, 1, k)) \o SubSeq(bytes, k + 1, n) = Upto(a + n)
      BY <3>1, <3>2, SplitWrite
    <3> HIDE DEF bytes
    <3>7. k = n => SubSeq(bytes, k + 1, n) = <<>>
      BY <3>1, <3>6
    <3>8. pendingWrite'[h] = SubSeq(bytes, k + 1, n) /\ sent'[h] = Upto(a) \o SubSeq(bytes, 1, k)
      <4>1. k < n \/ k = n
        BY <3>1
      <4>2. pendingWrite'[h] = IF k < n THEN SubSeq(bytes, k + 1, n) ELSE <<>>
        BY <3>1, <3>5 DEF TypeOK
      <4>3. sent'[h] = sent[h] \o SubSeq(bytes, 1, k)
        BY <3>1, <3>5 DEF TypeOK
      <4> QED  BY <4>1, <4>2, <4>3, <3>4, <3>7, Zenon
    <3>9. Accepted(h)' = a + n
      <4>1. Accepted(h)' = (a + k) + (n - k)
        BY <3>6, <3>8, Zenon DEF Accepted
      <4> QED  BY <3>1, <3>2, <4>1
    <3>10. (sent[h] \o pendingWrite[h])' = [i \in 1..Accepted(h) |-> i]'
      BY <3>6, <3>8, <3>9, Zenon DEF Upto
    <3>11. /\ DOMAIN sock' = DOMAIN sock
           /\ k < n => sock'[h].blocked
           /\ \A j \in DOMAIN sock : j # h => sock'[j] = sock[j]
      BY <2>6, <3>1, Zenon DEF Write, TypeOK, LpcSocket
    <3>12. pendingWrite'[h] # <<>> => sock'[h].blocked
      BY <3>1, <3>7, <3>8, <3>11
    <3>13. \A j \in Handles : j # h => sent'[j] = sent[j] /\ pendingWrite'[j] = pendingWrite[j]
      BY <3>5 DEF TypeOK
    <3> QED  BY <3>1, <3>10, <3>11, <3>12, <3>13 DEF StreamInv, StreamInOrder, KeepsBack, Accepted
  <2>7. CASE EndRelease
    <3>1. \A k \in DOMAIN sock : k \in DOMAIN sock' /\ (sock[k].blocked => sock'[k].blocked)
      BY <2>7 DEF EndRelease, CancelRelease, TypeOK, LpcSocket
    <3> QED  BY <2>7, <3>1, StreamFrame DEF EndRelease
  <2>8. ASSUME NEW c \in Objects, Destruct(c) \/ ReloadObject(c) \/ Free(c) PROVE StreamInv'
    BY <2>8, StreamFrame DEF Destruct, ReloadObject, Free
  <2>9. CASE StartSweep \/ CallbackEnds \/ EndSweep
    BY <2>9, StreamFrame DEF StartSweep, CallbackEnds, EndSweep
  <2>10. ASSUME NEW h \in todo,
                NothingReady(h) \/ Datagram(h) \/ DataArrives(h) \/ BecomesWritable(h) \/ PeerCloses(h)
         PROVE  StreamInv'
    BY <2>10, StreamFrame
       DEF NothingReady, Datagram, DataArrives, BecomesWritable, PeerCloses, DriverClose
  <2>11. ASSUME NEW h \in todo, ConnectionWaits(h) PROVE StreamInv'
    <3>1. \A k \in DOMAIN sock : k \in DOMAIN sock' /\ (sock[k].blocked => sock'[k].blocked)
      BY <2>11 DEF ConnectionWaits, TypeOK, LpcSocket
    <3> QED  BY <2>11, <3>1, StreamFrame DEF ConnectionWaits
  <2>12. ASSUME NEW h \in Handles, FlushError(h) PROVE StreamInv'
    BY <2>12, StreamFrame DEF FlushError, DriverClose
  <2>13. ASSUME NEW h \in Handles, NEW k \in 0..MaxBytes, FlushSome(h, k) PROVE StreamInv'
    <3> DEFINE s == sent[h]
               p == pendingWrite[h]
    <3>1. s \in Seq(Nat) /\ p \in Seq(Nat) /\ k \in 0..Len(p)
      BY <2>13 DEF FlushSome, TypeOK
    <3>2. /\ (s \o SubSeq(p, 1, k)) \o SubSeq(p, k + 1, Len(p)) = s \o p
          /\ Len(s \o SubSeq(p, 1, k)) + Len(SubSeq(p, k + 1, Len(p))) = Len(s) + Len(p)
      BY <3>1, SplitFlush
    <3>3. sent'[h] = s \o SubSeq(p, 1, k) /\ pendingWrite'[h] = SubSeq(p, k + 1, Len(p))
      BY <2>13 DEF FlushSome, TypeOK
    <3>4. Accepted(h)' = Accepted(h) /\ (sent[h] \o pendingWrite[h])' = sent[h] \o pendingWrite[h]
      BY <3>2, <3>3, Zenon DEF Accepted
    <3>5. p # <<>>
      BY <2>13, <3>1 DEF FlushSome
    <3>6. sock' = sock /\ \A j \in Handles : j # h => sent'[j] = sent[j] /\ pendingWrite'[j] = pendingWrite[j]
      BY <2>13 DEF FlushSome, TypeOK
    <3> QED  BY <3>4, <3>5, <3>6 DEF StreamInv, StreamInOrder, KeepsBack, Accepted
  <2>14. ASSUME NEW h \in Handles, FlushAll(h) PROVE StreamInv'
    <3>1. sent[h] \in Seq(Nat) /\ pendingWrite[h] \in Seq(Nat)
      BY DEF TypeOK
    <3>2. sent'[h] = sent[h] \o pendingWrite[h] /\ pendingWrite'[h] = <<>>
      BY <2>14 DEF FlushAll, TypeOK
    <3>3. Accepted(h)' = Accepted(h) /\ (sent[h] \o pendingWrite[h])' = sent[h] \o pendingWrite[h]
      <4>1. /\ sent[h] \o pendingWrite[h] \in Seq(Nat)
            /\ Len(sent[h] \o pendingWrite[h]) = Len(sent[h]) + Len(pendingWrite[h])
        BY <3>1, ConcatProperties, Zenon
      <4>2. (sent[h] \o pendingWrite[h]) \o <<>> = sent[h] \o pendingWrite[h]
        BY <4>1, ConcatEmptySeq, Zenon
      <4>3. Len(<<>>) = 0 /\ Len(sent[h]) + Len(pendingWrite[h]) + 0 = Len(sent[h]) + Len(pendingWrite[h])
        BY <3>1
      <4> QED  BY <3>2, <4>1, <4>2, <4>3, Zenon DEF Accepted
    <3>4. \A j \in Handles : j # h => sent'[j] = sent[j] /\ pendingWrite'[j] = pendingWrite[j]
      BY <2>14 DEF FlushAll, TypeOK
    <3>5. DOMAIN sock' = DOMAIN sock /\ \A j \in DOMAIN sock : j # h => sock'[j] = sock[j]
      BY <2>14 DEF FlushAll, Unblocked, TypeOK
    <3> QED  BY <3>2, <3>3, <3>4, <3>5 DEF StreamInv, StreamInOrder, KeepsBack, Accepted
  <2>15. CASE UNCHANGED vars
    BY <2>15, StreamFrame DEF vars
  <2> QED  BY <2>1, <2>2, <2>3, <2>4, <2>5, <2>6, <2>7, <2>8, <2>9, <2>10, <2>11, <2>12, <2>13,
              <2>14, <2>15 DEF Next, Lpc, PollSockets
<1>3. StreamInv => StreamInOrder
  BY DEF StreamInv
<1> QED  BY <1>1, <1>2, <1>3, SocketTypes, PTL DEF Spec

-----------------------------------------------------------------------------
(* The close callback *)

\* A socket whose close callback was called is out of the registry and the sweep
\* is past it; the socket of the POLLOUT branch has left the snapshot; and
\* outside the sweep nothing of it is left over.
SignalInv ==
    /\ \A h \in signalled : h \notin open /\ h \notin todo /\ h # writeStep
    /\ writeStep \notin todo
    /\ pc = "lpc" => todo = {} /\ writeStep = None

LEMMA SignalStep == ASSUME TypeOK, SignalInv, [Next]_vars PROVE SignalInv'
<1> USE BoundAssumption, NoneAssumption DEF registry, objects, sweep
<1>0. nextHandle \notin DOMAIN sock /\ DOMAIN sock \subseteq Nat /\ None \notin Nat
  BY DEF TypeOK
<1>1. CASE Lpc
  BY <1>0, <1>1, LpcKeeps DEF SignalInv, TypeOK
<1>2. CASE StartSweep
  BY <1>0, <1>2 DEF StartSweep, SignalInv, TypeOK
<1>3. CASE CallbackEnds \/ EndSweep
  BY <1>3 DEF CallbackEnds, EndSweep, SignalInv
<1>4. ASSUME NEW h \in todo, NothingReady(h) \/ BecomesWritable(h) PROVE SignalInv'
  BY <1>4 DEF NothingReady, BecomesWritable, Visit, SignalInv
<1>5. ASSUME NEW h \in todo, Datagram(h) \/ ConnectionWaits(h) \/ DataArrives(h) PROVE SignalInv'
  <2>1. /\ h \notin signalled /\ signalled' = signalled /\ open' = open /\ todo' = todo \ {h}
        /\ writeStep = None /\ pc' \in {"sweep", "callback"}
    BY <1>5 DEF Datagram, ConnectionWaits, DataArrives, Visit, Fire, SignalInv
  <2>2. writeStep' \in {h, None}
    BY <1>5, <2>1 DEF Datagram, ConnectionWaits, DataArrives
  <2> QED  BY <1>0, <2>1, <2>2 DEF SignalInv, TypeOK
<1>6. ASSUME NEW h \in todo, PeerCloses(h) PROVE SignalInv'
  BY <1>0, <1>6 DEF PeerCloses, DriverClose, ForceRemove, Visit, Fire, SignalInv, TypeOK
<1>7. ASSUME NEW h \in Handles, FlushError(h) PROVE SignalInv'
  <2>1. /\ writeStep = h /\ writeStep' = None /\ todo' = todo /\ open' = open \ {h}
        /\ signalled' \subseteq signalled \union {h} /\ pc' \in {"sweep", "callback"}
    BY <1>7 DEF FlushError, InWriteStep, DriverClose, ForceRemove, Fire
  <2>2. None \notin todo /\ None \notin signalled /\ h # None
    BY <1>0 DEF TypeOK, Handles
  <2> QED  BY <2>1, <2>2 DEF SignalInv
<1>8. ASSUME NEW h \in Handles, FlushAll(h) \/ (\E k \in 0..MaxBytes : FlushSome(h, k))
      PROVE  SignalInv'
  <2>1. /\ signalled' = signalled /\ open' = open /\ todo' = todo /\ writeStep' = None
        /\ pc' \in {"sweep", "callback"}
    BY <1>8 DEF FlushAll, FlushSome, InWriteStep, Fire
  <2> QED  BY <1>0, <2>1 DEF SignalInv, TypeOK
<1>9. CASE UNCHANGED vars
  BY <1>9 DEF vars, SignalInv
<1> QED  BY <1>1, <1>2, <1>3, <1>4, <1>5, <1>6, <1>7, <1>8, <1>9 DEF Next, PollSockets

\* No step calls the close callback of a socket whose callback was called before.
LEMMA SignalsOnce ==
  ASSUME TypeOK, SignalInv, [Next]_vars, NEW h \in signalled, calling' = <<h, "close">>
  PROVE  calling = calling'
<1> USE NoneAssumption DEF registry, objects, sweep
<1>0. h \in Nat /\ <<h, "close">> # None
  BY BoundAssumption DEF TypeOK
<1>1. ASSUME NEW k, NEW kind, Fire(k, kind) PROVE k = h /\ kind = "close"
  <2>1. calling' = <<k, kind>> \/ calling' = None
    BY <1>1 DEF Fire
  <2> QED  BY <1>0, <2>1
<1>2. CASE Lpc
  BY <1>2, LpcKeeps
<1>3. CASE StartSweep \/ CallbackEnds \/ EndSweep
  BY <1>0, <1>3 DEF StartSweep, CallbackEnds, EndSweep
<1>4. ASSUME NEW k \in todo, NothingReady(k) \/ BecomesWritable(k) PROVE calling = calling'
  BY <1>4 DEF NothingReady, BecomesWritable
<1>5. ASSUME NEW k \in todo, Datagram(k) \/ ConnectionWaits(k) \/ DataArrives(k) PROVE FALSE
  <2>1. Fire(k, "read")
    BY <1>5 DEF Datagram, ConnectionWaits, DataArrives
  <2> QED  BY <1>1, <2>1
<1>6. ASSUME NEW k \in todo, PeerCloses(k) PROVE FALSE
  BY <1>1, <1>6 DEF PeerCloses, DriverClose, SignalInv
<1>7. ASSUME NEW k \in Handles, FlushError(k) PROVE FALSE
  BY <1>1, <1>7 DEF FlushError, InWriteStep, DriverClose, SignalInv
<1>8. ASSUME NEW k \in Handles, FlushAll(k) PROVE FALSE
  <2>1. Fire(k, "write")
    BY <1>8 DEF FlushAll
  <2> QED  BY <1>1, <2>1
<1>9. ASSUME NEW k \in Handles, NEW n \in 0..MaxBytes, FlushSome(k, n) PROVE calling = calling'
  BY <1>9 DEF FlushSome
<1>10. CASE UNCHANGED vars
  BY <1>10 DEF vars
<1> QED  BY <1>2, <1>3, <1>4, <1>5, <1>6, <1>7, <1>8, <1>9, <1>10 DEF Next, PollSockets

\* The close callback of a socket is called at most once, whatever the callbacks
\* of the same sweep close, accept or release: the sweep's snapshot outlives the
\* registry, yet never leads back to a socket already closed by the driver.
THEOREM CloseOnce == Spec => CloseSignalledOnce
<1>1. Init => SignalInv
  BY DEF Init, SignalInv
<1>2. TypeOK /\ SignalInv /\ [Next]_vars => SignalInv'
  BY SignalStep
<1>3. TypeOK /\ SignalInv /\ [Next]_vars
        => [\A h \in signalled : calling' = <<h, "close">> => calling = calling']_vars
  BY SignalsOnce
<1> QED  BY <1>1, <1>2, <1>3, SocketTypes, PTL DEF Spec, CloseSignalledOnce
=============================================================================
