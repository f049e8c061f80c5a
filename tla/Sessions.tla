------------------------------ MODULE Sessions ------------------------------
(***************************************************************************)
(* Players' sessions: Server::pollOnce() accepts, reads and reaps          *)
(* connections; InteractiveRegistry maps an object to the raw Connection*  *)
(* it is bound to; exec(), destruct(), remove_interactive(), input_to() and*)
(* snoop() change both from inside the LPC that pollOnce() calls.          *)
(***************************************************************************)
EXTENDS Naturals, FiniteSets

CONSTANTS
    Objects,
    MaxConns,        \* bound: connections ever accepted
    MaxLines,        \* bound: lines one read delivers
    SharedObjects,   \* may LPC bind an object that already has a connection?
    ShadowsOf,       \* the objects stacked over each object; destructing it takes them along
    None

Conns == 1..MaxConns

ASSUME NoneAssumption   == None \notin Objects \union Nat
ASSUME FiniteAssumption == IsFiniteSet(Objects)
ASSUME BoundAssumption  == MaxConns \in Nat /\ MaxLines \in Nat
ASSUME MudlibAssumption == SharedObjects \in BOOLEAN /\ ShadowsOf \in [Objects -> SUBSET Objects]

VARIABLES
    status,        \* "none", "open", "eof" (closed_ set, descriptor open), "closed", "freed"
    bound,         \* Connection::boundObject_
    pending,       \* Connection::pendingInputTo_, with the binding it was made under (none in connect())
    listed,        \* Server::connections_, in the order of their numbers
    interactive,   \* the oldest registry entry of each object: what find() returns
    snoopedBy,     \* LpcObject::snoopedBy_
    snooping,      \* LpcObject::snooping_
    destructed,
    freed,         \* objects whose last strong reference is gone
    pc,            \* where pollOnce() is
    at,            \* the connection it is working on
    linesLeft,     \* lines read and not yet dispatched
    notified       \* history: connections net_dead() was called for

conns == <<status, bound, pending, listed>>
links == <<snoopedBy, snooping>>
loop  == <<pc, at, linesLeft>>
vars  == <<conns, interactive, links, destructed, freed, loop, notified>>

Init ==
    /\ status = [c \in Conns |-> "none"] /\ bound = [c \in Conns |-> None]
    /\ pending = [c \in Conns |-> None] /\ listed = {}
    /\ interactive = [o \in Objects |-> None]
    /\ snoopedBy = [o \in Objects |-> None] /\ snooping = [o \in Objects |-> None]
    /\ destructed = {} /\ freed = {}
    /\ pc = "idle" /\ at = 0 /\ linesLeft = 0
    /\ notified = {}

IsOpen(c)   == status[c] \in {"open", "eof"}     \* fd_ >= 0
IsClosed(c) == status[c] \in {"eof", "closed"}   \* closed_

Alive(o) == o \in Objects /\ o \notin destructed /\ o \notin freed

-----------------------------------------------------------------------------
(* Connection and registry *)

\* Mutant: closing forgets the registry entry.
UnregisterNothing(S) == interactive

\* InteractiveRegistry::remove() erases every entry of each object in S.
Unregister(S) == [o \in Objects |-> IF o \in S THEN None ELSE interactive[o]]

\* Mutant: the new entry is made before the old ones are erased.
AttachFirst(c, o) ==
    /\ bound' = [bound EXCEPT ![c] = o]
    /\ interactive' = [x \in Objects |-> IF x = bound[c] THEN None
                                         ELSE IF x = o /\ interactive[x] = None THEN c ELSE interactive[x]]

\* attach(): the old object's entries go, the new one's is appended.
Attach(c, o) ==
    /\ bound' = [bound EXCEPT ![c] = o]
    /\ interactive' = LET rest == Unregister({bound[c]})
                      IN  [rest EXCEPT ![o] = IF @ = None THEN c ELSE @]

BoundTo(C) == {bound[c] : c \in C} \ {None}

\* close() of the connections C: their objects leave the registry and whoever
\* snooped them is unlinked.  pendingInputTo_ is left alone.
CloseAll(C, st) ==
    /\ status' = [c \in Conns |-> IF c \in C THEN st ELSE status[c]]
    /\ bound' = [c \in Conns |-> IF c \in C THEN None ELSE bound[c]]
    /\ interactive' = Unregister(BoundTo(C))
    /\ snooping' = [o \in Objects |-> IF \E v \in BoundTo(C) : snoopedBy[v] = o THEN None ELSE snooping[o]]
    /\ snoopedBy' = [o \in Objects |-> IF o \in BoundTo(C) THEN None ELSE snoopedBy[o]]

\* ~Connection() of the connections C.
Destroy(C) ==
    /\ CloseAll(C, "freed")
    /\ pending' = [c \in Conns |-> IF c \in C THEN None ELSE pending[c]]

-----------------------------------------------------------------------------
(* LPC: in the scheduler's callbacks ("idle"), in the socket callbacks, and  *)
(* in the applies pollOnce() makes on behalf of the connection `at'.         *)

OnBehalf == pc \in {"connect", "logon", "option", "line", "net_dead"}
LpcRuns  == OnBehalf \/ pc \in {"idle", "sockets"}

\* LPC can hand the driver an object that is alive, and, unless the mudlib
\* shares objects between connections, not yet another connection's.
MayBind(o) == Alive(o) /\ (SharedObjects \/ interactive[o] \in {None, at})

\* Mutant: a handler set up before the exec() stays.
ExecKeepsInput(o) ==
    /\ OnBehalf /\ MayBind(o)
    /\ Attach(at, o)
    /\ UNCHANGED <<status, pending, listed, links, destructed, freed, loop, notified>>

\* exec(): rebinds the connection of OutputContext::current(), open or not.
Exec(o) ==
    /\ OnBehalf /\ MayBind(o)
    /\ pending' = [pending EXCEPT ![at] = None]
    /\ Attach(at, o)
    /\ UNCHANGED <<status, listed, links, destructed, freed, loop, notified>>

InputTo(o) ==
    /\ OnBehalf /\ Alive(o)
    /\ pending' = [pending EXCEPT ![at] = <<o, IF pc = "connect" THEN None ELSE bound[at]>>]
    /\ UNCHANGED <<status, bound, listed, interactive, links, destructed, freed, loop, notified>>

RemoveInteractive(o) ==
    /\ LpcRuns /\ Alive(o) /\ interactive[o] # None
    /\ CloseAll({interactive[o]}, "closed")
    /\ UNCHANGED <<pending, listed, destructed, freed, loop, notified>>

\* Mutant: the connection of the caller is the one considered.
CloseCallers(o) == IF OnBehalf /\ bound[at] = o THEN {at} ELSE {}

\* destruct() closes the connection find() returns for the object itself.
CloseOwn(o) == {interactive[o]} \ {None}

Doomed(o) == {o} \union {s \in ShadowsOf[o] : Alive(s)}

\* Every destructed object stops snooping; then o's own connection is closed.
Destruct(o) ==
    /\ LpcRuns /\ Alive(o)
    /\ destructed' = destructed \union Doomed(o)
    /\ LET C       == CloseOwn(o)
           victims == {snooping[d] : d \in Doomed(o)}
           left    == {snoopedBy[v] : v \in BoundTo(C)}
       IN  /\ status' = [c \in Conns |-> IF c \in C THEN "closed" ELSE status[c]]
           /\ bound' = [c \in Conns |-> IF c \in C THEN None ELSE bound[c]]
           /\ interactive' = Unregister(BoundTo(C))
           /\ snooping' = [s \in Objects |-> IF s \in Doomed(o) \union left THEN None ELSE snooping[s]]
           /\ snoopedBy' = [v \in Objects |-> IF v \in victims \union BoundTo(C) THEN None ELSE snoopedBy[v]]
    /\ UNCHANGED <<pending, listed, freed, loop, notified>>

\* The objects a walk along snoopedBy() from o visits, o included.
ClosedUnderSnoop(S) == \A x \in S : snoopedBy[x] # None => snoopedBy[x] \in S
SnoopersFrom(o) == {x \in Objects : \A S \in SUBSET Objects : o \in S /\ ClosedUnderSnoop(S) => x \in S}

\* Mutant: only a direct pair is recognised as a loop.
NoLoopDirect(by, victim) == by # victim /\ snoopedBy[by] # victim

NoLoop(by, victim) == victim \notin SnoopersFrom(by)

\* by lets go of its previous victim, the victim of its previous snooper.
SnoopLinks(by, victim) ==
    /\ snooping' = [o \in Objects |->
          IF o = by THEN victim ELSE IF o = snoopedBy[victim] THEN None ELSE snooping[o]]
    /\ snoopedBy' = [o \in Objects |->
          IF o = victim THEN by ELSE IF o = snooping[by] THEN None ELSE snoopedBy[o]]

Snoop(by, victim) ==
    /\ LpcRuns /\ Alive(by) /\ Alive(victim)
    /\ interactive[victim] # None
    /\ NoLoop(by, victim)
    /\ SnoopLinks(by, victim)
    /\ UNCHANGED <<conns, interactive, destructed, freed, loop, notified>>

SnoopOff(by) ==
    /\ LpcRuns /\ Alive(by)
    /\ snooping' = [snooping EXCEPT ![by] = None]
    /\ snoopedBy' = [o \in Objects |-> IF o = snooping[by] THEN None ELSE snoopedBy[o]]
    /\ UNCHANGED <<conns, interactive, destructed, freed, loop, notified>>

\* The last strong reference goes, and the weak links to o read as null.  A
\* bound object is held by its connection.
Free(o) ==
    /\ LpcRuns /\ o \notin freed
    /\ \A c \in Conns : bound[c] # o
    /\ freed' = freed \union {o}
    /\ snooping' = [x \in Objects |-> IF x = o \/ snooping[x] = o THEN None ELSE snooping[x]]
    /\ snoopedBy' = [x \in Objects |-> IF x = o \/ snoopedBy[x] = o THEN None ELSE snoopedBy[x]]
    /\ UNCHANGED <<conns, interactive, destructed, loop, notified>>

Lpc ==
    \/ \E o \in Objects : Exec(o) \/ InputTo(o) \/ RemoveInteractive(o) \/ Destruct(o) \/ SnoopOff(o) \/ Free(o)
    \/ \E by, victim \in Objects : Snoop(by, victim)

-----------------------------------------------------------------------------
(* Server::pollOnce() *)

Goto(label, c) == pc' = label /\ at' = c /\ UNCHANGED linesLeft

BeginPoll ==
    /\ pc = "idle"
    /\ Goto("accept", 0)
    /\ UNCHANGED <<conns, interactive, links, destructed, freed, notified>>

Accept(c) ==
    /\ pc = "accept" /\ status[c] = "none"
    /\ \A d \in Conns : d < c => status[d] # "none"
    /\ status' = [status EXCEPT ![c] = "open"]
    /\ Goto("connect", c)
    /\ UNCHANGED <<bound, pending, listed, interactive, links, destructed, freed, notified>>

\* connect() or logon() throws, or connect() returns no object: the connection
\* goes out of scope without ever being listed.
Refuse ==
    /\ pc \in {"connect", "logon"}
    /\ Destroy({at})
    /\ Goto("accept", 0)
    /\ UNCHANGED <<listed, destructed, freed, notified>>

\* connect() returns o, which is bound even if LPC has closed the connection.
ConnectReturns(o) ==
    /\ pc = "connect" /\ MayBind(o)
    /\ Attach(at, o)
    /\ Goto("logon", at)
    /\ UNCHANGED <<status, pending, listed, links, destructed, freed, notified>>

LogonReturns ==
    /\ pc = "logon"
    /\ listed' = listed \union {at}
    /\ Goto("accept", 0)
    /\ UNCHANGED <<status, bound, pending, interactive, links, destructed, freed, notified>>

NoneWaiting ==
    /\ pc = "accept"
    /\ Goto("sweep", 1)
    /\ UNCHANGED <<conns, interactive, links, destructed, freed, notified>>

\* Nothing there, or its descriptor is gone.
Skip ==
    /\ pc = "sweep" /\ at \in Conns
    /\ ~(at \in listed /\ IsOpen(at))
    /\ Goto("sweep", at + 1)
    /\ UNCHANGED <<conns, interactive, links, destructed, freed, notified>>

\* handleConnection(): read n lines, perhaps end of file, perhaps a telnet
\* option whose apply (window_size, terminal_type) comes before the lines.
Read(n, eof, option) ==
    /\ pc = "sweep" /\ at \in Conns
    /\ at \in listed /\ IsOpen(at)
    /\ status' = [status EXCEPT ![at] = IF eof THEN "eof" ELSE @]
    /\ pc' = IF option /\ Alive(bound[at]) THEN "option" ELSE "lines"
    /\ linesLeft' = IF bound[at] # None THEN n ELSE 0
    /\ UNCHANGED <<bound, pending, listed, at, interactive, links, destructed, freed, notified>>

\* dispatchLine(): a pending handler takes the line, otherwise the bound object
\* gets it; if whichever it is has gone, the line is dropped.
Dispatch ==
    /\ pc = "lines" /\ linesLeft > 0
    /\ linesLeft' = linesLeft - 1
    /\ pending' = [pending EXCEPT ![at] = None]
    /\ LET target == IF pending[at] # None THEN pending[at][1] ELSE bound[at]
       IN  pc' = IF Alive(target) THEN "line" ELSE "lines"
    /\ UNCHANGED <<status, bound, listed, at, interactive, links, destructed, freed, notified>>

\* The apply or the command ends, normally or with an error that costs only
\* this line.
Return ==
    /\ pc \in {"option", "line"}
    /\ Goto("lines", at)
    /\ UNCHANGED <<conns, interactive, links, destructed, freed, notified>>

\* fireNetDeadIfLinkDead()
LinkDead(c) == IsClosed(c) /\ Alive(bound[c])

NetDead ==
    /\ pc = "lines" /\ linesLeft = 0
    /\ LinkDead(at)
    /\ notified' = notified \union {at}
    /\ Goto("net_dead", at)
    /\ UNCHANGED <<conns, interactive, links, destructed, freed>>

\* Mutant: after net_dead() the same connection is looked at again.
HandledAgain ==
    /\ \/ pc = "lines" /\ linesLeft = 0 /\ ~LinkDead(at) /\ Goto("sweep", at + 1)
       \/ pc = "net_dead" /\ Goto("lines", at)
    /\ UNCHANGED <<conns, interactive, links, destructed, freed, notified>>

Handled ==
    /\ \/ pc = "lines" /\ linesLeft = 0 /\ ~LinkDead(at)
       \/ pc = "net_dead"
    /\ Goto("sweep", at + 1)
    /\ UNCHANGED <<conns, interactive, links, destructed, freed, notified>>

PollSockets ==
    /\ pc = "sweep" /\ at \notin Conns
    /\ Goto("sockets", 0)
    /\ UNCHANGED <<conns, interactive, links, destructed, freed, notified>>

\* Mutant: only connections whose descriptor is gone are erased.
ReapedShut == {c \in listed : ~IsOpen(c)}

\* Mutant: a connection LPC has closed is passed over.
ReapedBound == {c \in listed : IsClosed(c) /\ bound[c] # None}

Reaped == {c \in listed : IsClosed(c)}

EndPoll ==
    /\ pc = "sockets"
    /\ Destroy(Reaped)
    /\ listed' = listed \ Reaped
    /\ Goto("idle", 0)
    /\ UNCHANGED <<destructed, freed, notified>>

Driver ==
    \/ BeginPoll \/ Refuse \/ LogonReturns \/ NoneWaiting \/ Skip \/ Dispatch \/ Return
    \/ NetDead \/ Handled \/ PollSockets \/ EndPoll
    \/ \E c \in Conns : Accept(c)
    \/ \E o \in Objects : ConnectReturns(o)
    \/ \E n \in 0..MaxLines, eof, option \in BOOLEAN : Read(n, eof, option)

Next == Lpc \/ Driver

\* The loop goes on; every piece of LPC ends (the driver stops it when its
\* evaluation cost runs out), with an error or without.
Fairness == WF_vars(Driver)

Spec     == Init /\ [][Next]_vars
LiveSpec == Spec /\ Fairness

-----------------------------------------------------------------------------
(* Properties *)

\* Connections, registry, links and the loop's position have their types; the
\* sweep of handleConnection() stays within the connections.
TypeOK ==
    /\ status \in [Conns -> {"none", "open", "eof", "closed", "freed"}]
    /\ bound \in [Conns -> Objects \union {None}]
    /\ pending \in [Conns -> (Objects \X (Objects \union {None})) \union {None}]
    /\ listed \subseteq Conns
    /\ interactive \in [Objects -> Conns \union {None}]
    /\ snoopedBy \in [Objects -> Objects \union {None}] /\ snooping \in [Objects -> Objects \union {None}]
    /\ destructed \subseteq Objects /\ freed \subseteq Objects /\ notified \subseteq Conns
    /\ pc \in {"idle", "accept", "connect", "logon", "sweep", "option", "lines", "line", "net_dead", "sockets"}
    /\ at \in 0..(MaxConns + 1) /\ linesLeft \in 0..MaxLines

\* The raw pointers are safe: neither the registry nor OutputContext ever names
\* a destroyed connection, and a registry entry names the connection that is
\* bound to its object.
NoDangling ==
    /\ \A o \in Objects : interactive[o] # None =>
          bound[interactive[o]] = o /\ status[interactive[o]] \notin {"none", "freed"}
    /\ OnBehalf => status[at] \notin {"none", "freed"}

\* Every object a connection is bound to can be found in the registry, so that
\* users(), message() and destruct() reach it.
Registered == \A c \in Conns : bound[c] # None => interactive[bound[c]] # None

\* No open connection is left bound to a destructed object, where everything
\* its player types would silently vanish.
NoInertSession == \A c \in listed : IsOpen(c) => Alive(bound[c])

\* The two links of every snoop agree.
SnoopLinksAgree == \A a, b \in Objects : snooping[a] = b <=> snoopedBy[b] = a

\* Nobody snoops himself, directly or in a circle: a circle would relay output
\* for ever, and the loop check of snoop() would never return.
SnoopAcyclic == \A S \in SUBSET Objects : S # {} => \E x \in S : snoopedBy[x] \notin S

\* A handler registered while one object was bound never takes a line typed to
\* another.
InputToScoped ==
    \A c \in Conns : pending[c] # None /\ pending[c][2] # None => bound[c] \in {pending[c][2], None}

\* Between two polls every registered object has a connection that can be read,
\* although exec() binds closed ones.
IdleRegistryLive == pc = "idle" => \A o \in Objects : interactive[o] # None => status[interactive[o]] = "open"

\* net_dead() is called at most once for a connection.
NetDeadOnce == [][NetDead => at \notin notified]_vars

\* A connection that has ended is destroyed, whatever LPC does to it meanwhile.
ClosedReaped == \A c \in Conns : (c \in listed /\ IsClosed(c)) ~> status[c] = "freed"
=============================================================================
