------------------------------ MODULE Sockets ------------------------------
(***************************************************************************)
(* The socket_* efuns (SocketRegistry) and the poll sweep that calls back  *)
(* into LPC (Server::pollSockets()).                                       *)
(*                                                                         *)
(* The sweep iterates over a snapshot of the registry.  A socket closed by *)
(* a callback is erased from the registry, but the snapshot still holds it *)
(* and its descriptor, so its record outlives its membership in `open'.    *)
(* LPC runs outside the sweep and inside its callbacks.                    *)
(***************************************************************************)
EXTENDS Naturals, Sequences, FiniteSets

CONSTANTS
    Objects,
    MaxSockets,       \* bound: handles given out
    MaxBytes,         \* bound: bytes accepted, by all sockets together
    MaxReleases,      \* bound: nested socket_release() calls
    DestructedCode,   \* may a function go on calling efuns after its object was destructed?
    None

ASSUME NoneAssumption  == None \notin Objects \union Nat \union (Nat \X {"read", "write", "close"})
ASSUME BoundAssumption == /\ MaxSockets \in Nat /\ MaxBytes \in Nat /\ MaxReleases \in Nat
                          /\ DestructedCode \in BOOLEAN

Handles == 0..(MaxSockets - 1)
States  == {"UNBOUND", "BOUND", "LISTEN", "DATA_XFER"}
Modes   == {"STREAM", "DATAGRAM"}

\* LpcSocket: releaseTarget doubles as the released flag.
LpcSocket == [state : States, mode : Modes, owner : Objects,
              releaseTarget : Objects \union {None}, blocked : BOOLEAN, acceptPending : BOOLEAN]

NewSocket(c, m, st) == [state |-> st, mode |-> m, owner |-> c, releaseTarget |-> None,
                        blocked |-> FALSE, acceptPending |-> FALSE]

VARIABLES
    nextHandle,     \* g_nextHandle
    sock,           \* every LpcSocket made so far, by handle
    open,           \* the handles in g_sockets
    pendingWrite,   \* bytes accepted and not yet written, by handle
    sent,           \* bytes written to the descriptor, by handle
    destructed,
    gone,           \* objects freed without having been destructed
    releases,       \* handles of the socket_release() calls in progress, innermost last
    pc,             \* "lpc": outside the sweep; "sweep"; "callback": LPC called by the sweep
    todo,           \* snapshot entries the sweep has not reached
    writeStep,      \* the socket whose POLLOUT branch comes next, or None
    calling,        \* <<handle, kind>> of the callback in progress, or None
    signalled       \* history: handles whose close callback was called

registry == <<nextHandle, sock, open, pendingWrite, sent>>
objects  == <<destructed, gone>>
sweep    == <<pc, todo, writeStep, calling>>
vars     == <<registry, objects, releases, sweep, signalled>>

Init ==
    /\ nextHandle = 0 /\ sock = [h \in {} |-> None] /\ open = {}
    /\ pendingWrite = [h \in Handles |-> <<>>] /\ sent = [h \in Handles |-> <<>>]
    /\ destructed = {} /\ gone = {}
    /\ releases = <<>>
    /\ pc = "lpc" /\ todo = {} /\ writeStep = None /\ calling = None
    /\ signalled = {}

-----------------------------------------------------------------------------
(* The efuns.  A call that returns an error code changes nothing. *)

LpcRuns    == pc \in {"lpc", "callback"}
Calling(c) == LpcRuns /\ c \notin gone /\ (c \in destructed => DestructedCode)

\* Found in the registry and owned by the caller.
Owned(h, c) == h \in open /\ sock[h].owner = c

Register(s) ==
    /\ nextHandle < MaxSockets
    /\ nextHandle' = nextHandle + 1
    /\ sock' = [h \in DOMAIN sock \union {nextHandle} |-> IF h = nextHandle THEN s ELSE sock[h]]
    /\ open' = open \union {nextHandle}

Create(c, m) ==
    /\ Calling(c)
    /\ Register(NewSocket(c, m, "UNBOUND"))
    /\ UNCHANGED <<pendingWrite, sent, objects, releases, sweep, signalled>>

SetState(h, st) ==
    /\ sock' = [sock EXCEPT ![h].state = st]
    /\ UNCHANGED <<nextHandle, open, pendingWrite, sent, objects, releases, sweep, signalled>>

Bind(h, c) ==
    /\ Calling(c) /\ Owned(h, c)
    /\ sock[h].state = "UNBOUND"
    /\ SetState(h, "BOUND")

Listen(h, c) ==
    /\ Calling(c) /\ Owned(h, c)
    /\ sock[h].mode = "STREAM" /\ sock[h].state = "BOUND"
    /\ SetState(h, "LISTEN")

\* Clears S_WACCEPT even when no connection turns out to be waiting.
AcceptNone(h, c) ==
    /\ Calling(c) /\ Owned(h, c)
    /\ sock[h].state = "LISTEN" /\ sock[h].acceptPending
    /\ sock' = [sock EXCEPT ![h].acceptPending = FALSE]
    /\ UNCHANGED <<nextHandle, open, pendingWrite, sent, objects, releases, sweep, signalled>>

Accept(h, c) ==
    /\ Calling(c) /\ Owned(h, c)
    /\ sock[h].state = "LISTEN"
    /\ nextHandle < MaxSockets
    /\ nextHandle' = nextHandle + 1
    /\ sock' = [k \in DOMAIN sock \union {nextHandle} |->
                  IF k = nextHandle THEN NewSocket(c, "STREAM", "DATA_XFER")
                  ELSE IF k = h THEN [sock[h] EXCEPT !.acceptPending = FALSE] ELSE sock[k]]
    /\ open' = open \union {nextHandle}
    /\ UNCHANGED <<pendingWrite, sent, objects, releases, sweep, signalled>>

\* Always leaves the socket blocked, so that the sweep reports completion.
Connect(h, c) ==
    /\ Calling(c) /\ Owned(h, c)
    /\ sock[h].mode = "STREAM" /\ sock[h].state \in {"UNBOUND", "BOUND"}
    /\ sock' = [sock EXCEPT ![h].state = "DATA_XFER", ![h].blocked = TRUE]
    /\ UNCHANGED <<nextHandle, open, pendingWrite, sent, objects, releases, sweep, signalled>>

\* Mutant: a blocked socket takes more data.
WritableBlocked(h) == sock[h].mode = "STREAM" /\ sock[h].state = "DATA_XFER"

Writable(h) == sock[h].mode = "STREAM" /\ sock[h].state = "DATA_XFER" /\ ~sock[h].blocked

Accepted(h) == Len(sent[h]) + Len(pendingWrite[h])

\* Bytes accepted so far.
Total == Cardinality(UNION {{h} \X (1..Accepted(h)) : h \in Handles})

\* Write n bytes, of which the kernel takes k.
Write(h, c, n, k) ==
    /\ k \in 1..n
    /\ Calling(c) /\ Owned(h, c) /\ Writable(h)
    /\ Total + n <= MaxBytes
    /\ LET bytes == [i \in 1..n |-> Accepted(h) + i]
       IN  /\ sent' = [sent EXCEPT ![h] = @ \o SubSeq(bytes, 1, k)]
           /\ pendingWrite' = [pendingWrite EXCEPT ![h] = IF k < n THEN SubSeq(bytes, k + 1, n) ELSE @]
           /\ sock' = [sock EXCEPT ![h].blocked = @ \/ k < n]
    /\ UNCHANGED <<nextHandle, open, objects, releases, sweep, signalled>>

\* A hard write error force-closes the socket without its close callback.
WriteError(h, c) ==
    /\ Calling(c) /\ Owned(h, c) /\ Writable(h)
    /\ open' = open \ {h}
    /\ UNCHANGED <<nextHandle, sock, pendingWrite, sent, objects, releases, sweep, signalled>>

Close(h, c) ==
    /\ Calling(c) /\ Owned(h, c)
    /\ open' = open \ {h}
    /\ UNCHANGED <<nextHandle, sock, pendingWrite, sent, objects, releases, sweep, signalled>>

\* socket_release(): the callback runs between Release and EndRelease.
Release(h, c, ob) ==
    /\ Calling(c) /\ Owned(h, c) /\ ob \notin gone
    /\ sock[h].releaseTarget = None
    /\ Len(releases) < MaxReleases
    /\ sock' = [sock EXCEPT ![h].releaseTarget = ob]
    /\ releases' = Append(releases, h)
    /\ UNCHANGED <<nextHandle, open, pendingWrite, sent, objects, sweep, signalled>>

\* Mutant: a release nobody answered is left standing.
CancelReleaseForgotten(h) == sock

\* isReleased() and cancelRelease() look the handle up in the registry.
CancelRelease(h) == IF h \in open THEN [sock EXCEPT ![h].releaseTarget = None] ELSE sock

EndRelease ==
    /\ LpcRuns /\ releases # <<>>
    /\ sock' = CancelRelease(releases[Len(releases)])
    /\ releases' = SubSeq(releases, 1, Len(releases) - 1)
    /\ UNCHANGED <<nextHandle, open, pendingWrite, sent, objects, sweep, signalled>>

Handover(h, c) == [sock EXCEPT ![h].owner = c, ![h].releaseTarget = None]

Acquire(h, c) ==
    /\ Calling(c) /\ h \in open
    /\ sock[h].releaseTarget = c
    /\ sock' = Handover(h, c)
    /\ UNCHANGED <<nextHandle, open, pendingWrite, sent, objects, releases, sweep, signalled>>

OwnedBy(o) == {h \in open : sock[h].owner = o}

\* Mutant: destruct does not close the object's sockets.
CloseNone(o) == UNCHANGED open

CloseAllOwnedBy(o) == open' = open \ OwnedBy(o)

Destruct(o) ==
    /\ LpcRuns /\ o \notin destructed \union gone
    /\ destructed' = destructed \union {o}
    /\ CloseAllOwnedBy(o)
    /\ UNCHANGED <<nextHandle, sock, pendingWrite, sent, gone, releases, sweep, signalled>>

ReloadObject(o) ==
    /\ LpcRuns /\ o \notin gone
    /\ CloseAllOwnedBy(o)
    /\ UNCHANGED <<nextHandle, sock, pendingWrite, sent, objects, releases, sweep, signalled>>

\* The last reference to an object that was never destructed goes: its sockets
\* stay, with a null owner.  (A destructed object has none left to tell apart.)
Free(o) ==
    /\ LpcRuns /\ o \notin destructed \union gone
    /\ gone' = gone \union {o}
    /\ UNCHANGED <<registry, destructed, releases, sweep, signalled>>

Lpc ==
    \/ \E c \in Objects :
          \/ \E m \in Modes : Create(c, m)
          \/ \E h \in open :
                \/ Bind(h, c) \/ Listen(h, c) \/ AcceptNone(h, c) \/ Accept(h, c) \/ Connect(h, c)
                \/ WriteError(h, c) \/ Close(h, c) \/ Acquire(h, c)
                \/ \E n, k \in 1..MaxBytes : Write(h, c, n, k)
                \/ \E ob \in Objects : Release(h, c, ob)
          \/ Destruct(c) \/ ReloadObject(c) \/ Free(c)
    \/ EndRelease

-----------------------------------------------------------------------------
(* Server::pollSockets() *)

\* fireSocketCallback(): nothing is called for a freed or destructed owner.
Fire(h, kind) ==
    LET heard == sock[h].owner \notin destructed \union gone
    IN  /\ pc' = IF heard THEN "callback" ELSE "sweep"
        /\ calling' = IF heard THEN <<h, kind>> ELSE None
        /\ signalled' = IF heard /\ kind = "close" THEN signalled \union {h} ELSE signalled

StartSweep ==
    /\ pc = "lpc" /\ releases = <<>>
    /\ pc' = "sweep"
    /\ todo' = open
    /\ UNCHANGED <<registry, objects, releases, writeStep, calling, signalled>>

\* The sweep turns to the next socket of its snapshot.
Visit(h) ==
    /\ pc = "sweep" /\ writeStep = None
    /\ h \in todo
    /\ todo' = todo \ {h}

NothingReady(h) ==
    /\ Visit(h)
    /\ UNCHANGED <<registry, objects, releases, pc, writeStep, calling, signalled>>

Datagram(h) ==
    /\ Visit(h)
    /\ sock[h].mode = "DATAGRAM"
    /\ Fire(h, "read")
    /\ UNCHANGED <<registry, objects, releases, writeStep>>

ConnectionWaits(h) ==
    /\ Visit(h)
    /\ sock[h].state = "LISTEN" /\ ~sock[h].acceptPending
    /\ sock' = [sock EXCEPT ![h].acceptPending = TRUE]
    /\ Fire(h, "read")
    /\ UNCHANGED <<nextHandle, open, pendingWrite, sent, objects, releases, writeStep>>

\* POLLIN, and POLLOUT if it was asked for and holds.
DataArrives(h) ==
    /\ Visit(h)
    /\ sock[h].state = "DATA_XFER"
    /\ Fire(h, "read")
    /\ writeStep' \in (IF sock[h].blocked THEN {h, None} ELSE {None})
    /\ UNCHANGED <<registry, objects, releases>>

\* POLLOUT alone.
BecomesWritable(h) ==
    /\ Visit(h)
    /\ sock[h].state = "DATA_XFER" /\ sock[h].blocked
    /\ writeStep' = h
    /\ UNCHANGED <<registry, objects, releases, pc, calling, signalled>>

\* Mutant: the socket stays registered.
KeepOpen(h) == open

ForceRemove(h) == open \ {h}

\* closeSocketAndFireCallback()
DriverClose(h) ==
    /\ open' = ForceRemove(h)
    /\ Fire(h, "close")
    /\ UNCHANGED <<nextHandle, sock, pendingWrite, sent, objects, releases>>

\* End of file or a read error.
PeerCloses(h) ==
    /\ Visit(h)
    /\ sock[h].state = "DATA_XFER"
    /\ DriverClose(h)
    /\ UNCHANGED writeStep

\* The POLLOUT branch, after the read callback if there was one.
InWriteStep(h) == pc = "sweep" /\ writeStep = h

FlushError(h) ==
    /\ InWriteStep(h) /\ sock[h].blocked /\ pendingWrite[h] # <<>>
    /\ writeStep' = None
    /\ DriverClose(h)
    /\ UNCHANGED todo

\* k more bytes go out and some remain.
FlushSome(h, k) ==
    /\ InWriteStep(h) /\ sock[h].blocked
    /\ k < Len(pendingWrite[h])
    /\ sent' = [sent EXCEPT ![h] = @ \o SubSeq(pendingWrite[h], 1, k)]
    /\ pendingWrite' = [pendingWrite EXCEPT ![h] = SubSeq(@, k + 1, Len(@))]
    /\ writeStep' = None
    /\ UNCHANGED <<nextHandle, sock, open, objects, releases, pc, todo, calling, signalled>>

Unblocked(h) == [sock EXCEPT ![h].blocked = FALSE]

\* Everything is out (or the connect has completed): unblock and report.
FlushAll(h) ==
    /\ InWriteStep(h) /\ sock[h].blocked
    /\ sent' = [sent EXCEPT ![h] = @ \o pendingWrite[h]]
    /\ pendingWrite' = [pendingWrite EXCEPT ![h] = <<>>]
    /\ sock' = Unblocked(h)
    /\ Fire(h, "write")
    /\ writeStep' = None
    /\ UNCHANGED <<nextHandle, open, objects, releases, todo>>

CallbackEnds ==
    /\ pc = "callback" /\ releases = <<>>
    /\ pc' = "sweep" /\ calling' = None
    /\ UNCHANGED <<registry, objects, releases, todo, writeStep, signalled>>

EndSweep ==
    /\ pc = "sweep" /\ todo = {} /\ writeStep = None
    /\ pc' = "lpc"
    /\ UNCHANGED <<registry, objects, releases, todo, writeStep, calling, signalled>>

PollSockets ==
    \/ StartSweep \/ CallbackEnds \/ EndSweep
    \/ \E h \in todo :
          NothingReady(h) \/ Datagram(h) \/ ConnectionWaits(h) \/ DataArrives(h)
            \/ BecomesWritable(h) \/ PeerCloses(h)
    \/ \E h \in Handles \intersect {writeStep} :
          FlushError(h) \/ FlushAll(h) \/ (\E k \in 0..MaxBytes : FlushSome(h, k))

Next == Lpc \/ PollSockets

Spec == Init /\ [][Next]_vars

-----------------------------------------------------------------------------
(* Properties *)

\* Handles index the sockets made; open sockets are some of them.
TypeOK ==
    /\ nextHandle \in 0..MaxSockets
    /\ DOMAIN sock = 0..(nextHandle - 1) /\ \A h \in DOMAIN sock : sock[h] \in LpcSocket
    /\ open \subseteq DOMAIN sock /\ todo \subseteq DOMAIN sock
    /\ signalled \subseteq DOMAIN sock
    /\ pendingWrite \in [Handles -> Seq(Nat)] /\ sent \in [Handles -> Seq(Nat)]
    /\ destructed \subseteq Objects /\ gone \subseteq Objects
    /\ releases \in Seq(DOMAIN sock)
    /\ pc \in {"lpc", "sweep", "callback"}
    /\ writeStep \in DOMAIN sock \union {None}
    /\ calling \in ((DOMAIN sock) \X {"read", "write", "close"}) \union {None}
    /\ pc = "callback" <=> calling # None

\* The bytes written and the bytes kept back are the bytes socket_write()
\* accepted, in order: partial writes, flushes and callbacks that write again
\* neither lose, repeat nor reorder any.
StreamInOrder ==
    \A h \in Handles :
        /\ sent[h] \o pendingWrite[h] = [i \in 1..Accepted(h) |-> i]
        /\ pendingWrite[h] # <<>> => sock[h].blocked

\* A socket is up for grabs only during the socket_release() call that offered
\* it, however releases, acquires and closes nest in the callback.
ReleaseScoped ==
    \A h \in open : sock[h].releaseTarget # None => \E i \in 1..Len(releases) : releases[i] = h

\* A destructed object owns no open socket.
OwnersNotDestructed == \A h \in open : sock[h].owner \notin destructed

\* The close callback of a socket is called at most once.
CloseSignalledOnce == [][\A h \in signalled : calling' = <<h, "close">> => calling = calling']_vars

=============================================================================
