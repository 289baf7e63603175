------------------------------ MODULE Sockets ------------------------------
(***************************************************************************)
(* The connection manager (sockets.go): the accept goroutine of every      *)
(* listener and the application's calls of Connect run Create concurrently *)
(* over the shared index, count, map of sockets and list of listeners,     *)
(* while sockets are released and the process shuts down.                  *)
(*                                                                         *)
(* What happens inside one socket is module Socket; here it is created,    *)
(* lives, and releases itself exactly once (Socket!TokenSpec).             *)
(*                                                                         *)
(* The listeners differ once they are closed.  A TCP listener answers      *)
(* Accept with net.ErrClosed; a UDP listener with another error, and its   *)
(* second Close panics; a WebSocket listener with what is still in its     *)
(* channel (module WsListener), and then not at all.                       *)
(***************************************************************************)
EXTENDS Integers, FiniteSets, Sequences

CONSTANTS
    Listeners,       \* listeners given to Accept, each with its own goroutine
    Networks,        \* the networks the listeners may be of: "tcp", "udp", "ws"
    Connectors,      \* application goroutines that call Connect
    ConnectMaxSize,  \* Options.ConnectMaxSize, 0 for no limit
    MaxIndex,        \* bound: sockets created, and connections open, in one behaviour
    MaxClosing,      \* bound: the same when the server may shut down or a callback panics
    CallbackPanics   \* TRUE: the callback of Connected may panic

ASSUME SocketsAssumption ==
    /\ IsFiniteSet(Listeners) /\ IsFiniteSet(Connectors)
    /\ Listeners \cap Connectors = {}
    /\ Networks \subseteq [Listeners -> {"tcp", "udp", "ws"}]
    /\ ConnectMaxSize \in Nat
    /\ MaxIndex \in Nat /\ MaxClosing \in 0..MaxIndex
    /\ CallbackPanics \in BOOLEAN

Creators == Listeners \cup Connectors
Ids == 1..MaxIndex

Steps == {"load", "append", "loop", "accept", "close", "stuck", "done", "idle",
          "create", "limit", "store", "count", "connect"}

VARIABLES
    network,    \* the network of each listener
    index,      \* Sockets.index
    count,      \* Sockets.count
    sockets,    \* the keys of Sockets.sockets
    started,    \* Sockets.started, and whether cosgo has called stop()
    instance,   \* Sockets.instance
    listening,  \* listeners that are open
    stopping,   \* listeners that stop() has still to close
    stopped,    \* scc.Stopped()
    open,       \* connections given to Create that are not closed
    life,       \* how far each socket is
    pc,         \* the next step of each goroutine
    slice,      \* the slice an accept goroutine loaded for its append
    id          \* socket.id in Create

listenerVars == <<network, started, instance, listening, stopping, stopped, slice>>
vars == <<index, count, sockets, open, life, pc, id, listenerVars>>

Tcp == {g \in Listeners : network[g] = "tcp"}
Udp == {g \in Listeners : network[g] = "udp"}
Ws == {g \in Listeners : network[g] = "ws"}

\* The goroutines at one of the steps L.
Where(L) == {g \in Creators : pc[g] \in L}

\* Those that have a connection in their hands, not yet in a live socket.
Holding == Where({"create", "limit", "store", "count", "connect"})
Live == {i \in Ids : life[i] = "live"}

Init ==
    /\ network \in Networks
    /\ index = 0 /\ count = 0 /\ sockets = {}
    /\ started = "no" /\ stopped = FALSE
    /\ instance = <<>> /\ listening = Listeners /\ stopping = <<>>
    /\ open = 0
    /\ life = [i \in Ids |-> "new"]
    /\ pc = [g \in Creators |-> IF g \in Listeners THEN "load" ELSE "idle"]
    /\ slice = [g \in Listeners |-> <<>>]
    /\ id = [g \in Creators |-> 0]

At(g, l) == pc[g] = l
Goto(g, l) == pc' = [pc EXCEPT ![g] = l]

\* Where a goroutine goes on after Create has returned, and where a panic of
\* Create takes it: the accept goroutine recovers and closes its listener.
Return(g) == IF g \in Listeners THEN "loop" ELSE "idle"
Panic(g) == IF g \in Listeners THEN "close" ELSE "idle"

\* A behaviour with more than MaxClosing connections has no shutdown and no panic from
\* there on (bound).
Unstored == Where({"create", "limit", "store"})
FewConns == index + Cardinality(Unstored) <= MaxClosing

-----------------------------------------------------------------------------
(* Create.                                                                 *)

\* A stopped server refuses; the connection is neither used nor closed.
CreateRefused(g) ==
    /\ At(g, "create") /\ stopped
    /\ Goto(g, Return(g))
    /\ UNCHANGED <<index, count, sockets, open, life, id, listenerVars>>

CreateChecked(g) ==
    /\ At(g, "create") /\ ~stopped
    /\ Goto(g, IF ConnectMaxSize > 0 THEN "limit" ELSE "store")
    /\ UNCHANGED <<index, count, sockets, open, life, id, listenerVars>>

\* Mutant of CreateLimit: the limit is not looked at.
CreateLimitUnchecked(g) ==
    /\ At(g, "limit")
    /\ Goto(g, "store")
    /\ UNCHANGED <<index, count, sockets, open, life, id, listenerVars>>

\* Mutant of CreateLimit: the refused connection is not closed.
CreateLimitNoClose(g) ==
    /\ At(g, "limit")
    /\ IF count >= ConnectMaxSize THEN Goto(g, Return(g)) ELSE Goto(g, "store")
    /\ UNCHANGED <<index, count, sockets, open, life, id, listenerVars>>

\* The load of count; the AddInt64 comes later.
CreateLimit(g) ==
    /\ At(g, "limit")
    /\ IF count >= ConnectMaxSize
       THEN open' = open - 1 /\ Goto(g, Return(g))
       ELSE Goto(g, "store") /\ UNCHANGED open
    /\ UNCHANGED <<index, count, sockets, life, id, listenerVars>>

CreateStore(g) ==
    /\ At(g, "store")
    /\ index' = index + 1
    /\ id' = [id EXCEPT ![g] = index + 1]
    /\ sockets' = sockets \cup {index + 1}
    /\ Goto(g, "count")
    /\ UNCHANGED <<count, open, life, listenerVars>>

CreateCount(g) ==
    /\ At(g, "count")
    /\ count' = count + 1
    /\ Goto(g, "connect")
    /\ UNCHANGED <<index, sockets, open, life, id, listenerVars>>

\* connect(): from here on the socket can be torn down.  A panic of the Connected
\* callback leaves it without workers (see module Socket) and leaves Create.
CreateConnect(g) ==
    /\ At(g, "connect")
    /\ life' = [life EXCEPT ![id[g]] = "live"]
    /\ \/ Goto(g, Return(g))
       \/ CallbackPanics /\ FewConns /\ Goto(g, Panic(g))
    /\ id' = [id EXCEPT ![g] = 0]
    /\ UNCHANGED <<index, count, sockets, open, listenerVars>>

-----------------------------------------------------------------------------
(* Accept and Connect.                                                     *)

\* The bound on new connections: those that have no index yet will get one.
Limit == IF stopped \/ started # "no" THEN MaxClosing ELSE MaxIndex
MoreConns == index + Cardinality(Unstored) < Limit /\ open < Limit

\* ss.instance = append(ss.instance, ln) without a lock: a load ...
AcceptLoad(g) ==
    /\ At(g, "load")
    /\ slice' = [slice EXCEPT ![g] = instance]
    /\ Goto(g, "append")
    /\ UNCHANGED <<index, count, sockets, open, life, id, network, started, instance, listening,
                   stopping, stopped>>

\* ... and a store, which loses what was appended in between.
AcceptAppend(g) ==
    /\ At(g, "append")
    /\ instance' = Append(slice[g], g)
    /\ slice' = [slice EXCEPT ![g] = <<>>]
    /\ Goto(g, "loop")
    /\ UNCHANGED <<index, count, sockets, open, life, id, network, started, listening, stopping,
                   stopped>>

AcceptLoop(g) ==
    /\ At(g, "loop")
    /\ Goto(g, IF stopped THEN "close" ELSE "accept")
    /\ UNCHANGED <<index, count, sockets, open, life, id, listenerVars>>

\* A connection comes in; the channels of UDP and WebSocket listeners outlive Close.
AcceptConn(g) ==
    /\ At(g, "accept") /\ g \in listening \cup Ws \cup Udp
    /\ MoreConns
    /\ open' = open + 1
    /\ Goto(g, "create")
    /\ UNCHANGED <<index, count, sockets, life, id, listenerVars>>

\* Accept fails for another reason than a closed listener: only a log line.
AcceptError(g) ==
    /\ At(g, "accept") /\ g \in Tcp \cap listening
    /\ Goto(g, "loop")
    /\ UNCHANGED <<index, count, sockets, open, life, id, listenerVars>>


\* net.ErrClosed ends the loop.
AcceptClosed(g) ==
    /\ At(g, "accept") /\ g \in Tcp \ listening
    /\ Goto(g, "close")
    /\ UNCHANGED <<index, count, sockets, open, life, id, listenerVars>>

\* The error of a closed UDP listener does not: the loop spins until scc is stopped.
AcceptUdpClosed(g) ==
    /\ At(g, "accept") /\ g \in Udp \ listening
    /\ Goto(g, "loop")
    /\ UNCHANGED <<index, count, sockets, open, life, id, listenerVars>>

\* The deferred ln.Close().  That of a UDP listener which is closed already panics,
\* which ends the goroutine too.
AcceptEnd(g) ==
    /\ At(g, "close")
    /\ listening' = listening \ {g}
    /\ Goto(g, "done")
    /\ UNCHANGED <<index, count, sockets, open, life, id, network, started, instance, stopping,
                   stopped, slice>>

\* Close of an open UDP listener that has a connection waits for itself (module
\* UdpListener): the goroutine never ends.
AcceptStuck(g) ==
    /\ At(g, "close") /\ g \in Udp \cap listening
    /\ listening' = listening \ {g}
    /\ Goto(g, "stuck")
    /\ UNCHANGED <<index, count, sockets, open, life, id, network, started, instance, stopping,
                   stopped, slice>>

\* Connect: tryConnect succeeded.
Connect(g) ==
    /\ At(g, "idle")
    /\ MoreConns
    /\ open' = open + 1
    /\ Goto(g, "create")
    /\ UNCHANGED <<index, count, sockets, life, id, listenerVars>>

-----------------------------------------------------------------------------
(* Socket.release, run by the goroutine that tore the socket down.         *)

\* Mutant of ReleaseCount: the socket leaves the map and the counter is forgotten.
ReleaseNoCount(i) ==
    /\ life[i] = "live"
    /\ sockets' = sockets \ {i}
    /\ open' = open - 1
    /\ life' = [life EXCEPT ![i] = "gone"]
    /\ UNCHANGED <<index, count, pc, id, listenerVars>>

\* The connection was closed by disconnect(); then the counter ...
ReleaseCount(i) ==
    /\ life[i] = "live"
    /\ count' = count - 1
    /\ open' = open - 1
    /\ life' = [life EXCEPT ![i] = "leaving"]
    /\ UNCHANGED <<index, sockets, pc, id, listenerVars>>

\* ... and then the map.
ReleaseDelete(i) ==
    /\ life[i] = "leaving"
    /\ sockets' = sockets \ {i}
    /\ life' = [life EXCEPT ![i] = "gone"]
    /\ UNCHANGED <<index, count, open, pc, id, listenerVars>>

-----------------------------------------------------------------------------
(* Start, stop and the shutdown of the process.                            *)

\* Start registers stop() with cosgo; a second call does nothing.
Start ==
    /\ started = "no" /\ FewConns
    /\ started' = "yes"
    /\ UNCHANGED <<index, count, sockets, open, life, pc, id, network, instance, listening,
                   stopping, stopped, slice>>

\* cosgo calls stop(): the range evaluates ss.instance once.
Stop ==
    /\ started = "yes"
    /\ started' = "stopped"
    /\ stopping' = instance
    /\ UNCHANGED <<index, count, sockets, open, life, pc, id, network, instance, listening,
                   stopped, slice>>

StopClose ==
    /\ stopping # <<>>
    /\ Head(stopping) \in Udp => Head(stopping) \in listening
    /\ listening' = listening \ {Head(stopping)}
    /\ stopping' = Tail(stopping)
    /\ UNCHANGED <<index, count, sockets, open, life, pc, id, network, started, instance, stopped,
                   slice>>

\* Close of a UDP listener panics when it was closed before, and waits for itself when
\* it has a connection (module UdpListener): the listeners after it stay open.
StopBreaks ==
    /\ stopping # <<>> /\ Head(stopping) \in Udp
    /\ listening' = listening \ {Head(stopping)}
    /\ stopping' = <<>>
    /\ UNCHANGED <<index, count, sockets, open, life, pc, id, network, started, instance, stopped,
                   slice>>

\* scc cancels its context.
Cancel ==
    /\ ~stopped /\ FewConns
    /\ stopped' = TRUE
    /\ UNCHANGED <<index, count, sockets, open, life, pc, id, network, started, instance,
                   listening, stopping, slice>>

-----------------------------------------------------------------------------
CreateStep(g) == \/ CreateRefused(g) \/ CreateChecked(g) \/ CreateLimit(g)
                 \/ CreateStore(g) \/ CreateCount(g) \/ CreateConnect(g)
AcceptStep(g) == \/ AcceptLoad(g) \/ AcceptAppend(g) \/ AcceptLoop(g)
                 \/ AcceptClosed(g) \/ AcceptUdpClosed(g) \/ AcceptEnd(g) \/ AcceptStuck(g)

Next ==
    \/ \E g \in Creators : CreateStep(g)
    \/ \E g \in Listeners : AcceptStep(g) \/ AcceptConn(g) \/ AcceptError(g)
    \/ \E g \in Connectors : Connect(g)
    \/ \E i \in Ids : ReleaseCount(i) \/ ReleaseDelete(i)
    \/ Start \/ Stop \/ StopClose \/ StopBreaks \/ Cancel

Spec == Init /\ [][Next]_vars

\* Goroutines that can run do run, and an Accept on a closed listener returns; peers,
\* the application and the operator owe nothing.
Fairness ==
    /\ \A g \in Creators : WF_vars(CreateStep(g))
    /\ \A g \in Listeners : WF_vars(AcceptStep(g))
    /\ WF_vars(StopClose \/ StopBreaks)

FairSpec == Spec /\ Fairness

-----------------------------------------------------------------------------
(* Properties.                                                             *)

\* The variables have their types.
TypeOK ==
    /\ network \in [Listeners -> {"tcp", "udp", "ws"}]
    /\ index \in 0..MaxIndex /\ count \in Int /\ open \in Int
    /\ sockets \subseteq Ids
    /\ started \in {"no", "yes", "stopped"} /\ stopped \in BOOLEAN
    /\ listening \subseteq Listeners
    /\ instance \in Seq(Listeners) /\ stopping \in Seq(Listeners)
    /\ slice \in [Listeners -> Seq(Listeners)]
    /\ life \in [Ids -> {"new", "live", "leaving", "gone"}]
    /\ pc \in [Creators -> Steps]
    /\ id \in [Creators -> 0..MaxIndex]

\* The sockets that are in the map and that count does not include: Create stored
\* them and has not counted them yet, or release() has and has not deleted them yet.
Storing == Where({"count"})
Leaving == {i \in Ids : life[i] = "leaving"}

\* count is the size of the map but for the sockets on their way in or out, whatever
\* Create and release() calls overlap.  In particular it is never negative, which
\* would let ConnectMaxSize be exceeded for good.
CountBalance == count + Cardinality(Storing) + Cardinality(Leaving) = Cardinality(sockets)

\* Which ids are where: those of the goroutines in Create are in the map, not yet
\* live and different from each other; an id above index was not given out.
IdsDistinct ==
    /\ sockets \subseteq 1..index
    /\ \A g \in Creators : pc[g] \in {"count", "connect"}
                             => id[g] \in sockets /\ life[id[g]] = "new"
    /\ \A g, h \in Creators : /\ pc[g] \in {"count", "connect"} /\ pc[h] \in {"count", "connect"}
                              /\ id[g] = id[h]
                              => g = h
    /\ \A i \in Ids : /\ life[i] \in {"live", "leaving"} => i \in sockets
                      /\ i > index => life[i] = "new"

\* The goroutines that passed the limit and are not counted yet.
Passed == Where({"store", "count"})

\* The limit is checked and the counter raised in two steps, so ConnectMaxSize can be
\* exceeded, but by less than the number of goroutines that run Create.
OvershootPassed ==
    ConnectMaxSize > 0 => count + Cardinality(Passed) <= ConnectMaxSize - 1 + Cardinality(Creators)
Overshoot == ConnectMaxSize > 0 => count <= ConnectMaxSize - 1 + Cardinality(Creators)

\* The inductive invariant of the manager.
Bounded == index + Cardinality(Unstored) <= MaxIndex
IInv == TypeOK /\ Bounded /\ IdsDistinct /\ CountBalance /\ OvershootPassed

\* While the server runs no connection is lost: one that Create was given is in the
\* hands of a goroutine, in a live socket, or closed.  (A stopping server does drop
\* the connection that it refuses.)
ConnsAccounted == ~stopped => open = Cardinality(Holding) + Cardinality(Live)

\* A TCP listener that stop() found in instance is closed and its accept goroutine
\* ends, even when scc is never cancelled, unless a UDP listener comes before it.  Once
\* scc is cancelled, that of a UDP listener ends too when another goroutine closed the
\* listener; when it has to close the listener itself it may wait for ever.
Stopping(g) == \E k \in 1..Len(stopping) :
    stopping[k] = g /\ \A j \in 1..k : stopping[j] \notin Udp
Ending(g) == \/ g \in Tcp /\ (Stopping(g) \/ g \notin listening)
             \/ g \in Udp /\ stopped /\ g \notin listening /\ ~At(g, "stuck")

-----------------------------------------------------------------------------
(* What the README says of the manager and the code does not do.           *)

\* ConnectMaxSize is the largest number of concurrent connections (README,
\* configuration).
WithinMax == ConnectMaxSize > 0 => count <= ConnectMaxSize
=============================================================================
