----------------------------- MODULE WsListener -----------------------------
(***************************************************************************)
(* The WebSocket listeners among the listeners of module Sockets           *)
(* (wss/listener.go): an HTTP server calls ServeHTTP in a goroutine per    *)
(* request, which upgrades the connection and puts it into connChan, from  *)
(* where Accept takes it.  Close stops the HTTP server only: handlers that *)
(* have begun go on, and connChan stays open.                              *)
(***************************************************************************)
EXTENDS Sockets

CONSTANT ConnChanSize    \* wss.Options.ConnChanSize

ASSUME WsAssumption == ConnChanSize \in Nat

VARIABLES
    asking,    \* handlers that found scc running and upgrade their connection
    serving,   \* handlers that have upgraded it and still hold it
    connChan   \* connections in connChan of each listener

wsVars == <<asking, serving, connChan>>
netVars == <<vars, wsVars>>

NetInit ==
    /\ Init
    /\ asking = [g \in Listeners |-> 0]
    /\ serving = [g \in Listeners |-> 0] /\ connChan = [g \in Listeners |-> 0]

Add(f, g, n) == [f EXCEPT ![g] = @ + n]

\* The bound on new connections, with those that are on their way to Accept.
Coming(g) == asking[g] + serving[g] + connChan[g]
MoreUpgrades ==
    \A g \in Listeners : index + Cardinality(Unstored) + Coming(g) < Limit /\ open + Coming(g) < Limit
FewUpgrades == \A g \in Listeners : index + Cardinality(Unstored) + Coming(g) <= MaxClosing

\* A request of a running server goes on; a stopped one answers 500.
ServeHTTP(g) ==
    /\ g \in Ws \cap listening /\ ~stopped
    /\ MoreUpgrades
    /\ asking' = Add(asking, g, 1)
    /\ UNCHANGED <<vars, serving, connChan>>

\* Upgrade takes the connection over, also when scc has stopped since.  The server's
\* Close has closed those that it does not have yet, so that it fails then.
Upgrade(g) ==
    /\ asking[g] > 0 /\ g \in listening
    /\ asking' = Add(asking, g, -1) /\ serving' = Add(serving, g, 1)
    /\ UNCHANGED <<vars, connChan>>

\* Upgrade fails: the handler answers 500.
UpgradeFailed(g) ==
    /\ asking[g] > 0
    /\ asking' = Add(asking, g, -1)
    /\ UNCHANGED <<vars, serving, connChan>>

ServePut(g) ==
    /\ serving[g] > 0 /\ connChan[g] < ConnChanSize
    /\ serving' = Add(serving, g, -1) /\ connChan' = Add(connChan, g, 1)
    /\ UNCHANGED <<vars, asking>>

\* The channel is full: the handler closes the connection.
ServeFull(g) ==
    /\ serving[g] > 0 /\ connChan[g] >= ConnChanSize
    /\ serving' = Add(serving, g, -1)
    /\ UNCHANGED <<vars, asking, connChan>>

\* Mutant of WsAccept: a closed listener returns no connection.
WsAcceptListening(g) ==
    /\ connChan[g] > 0 /\ g \in listening
    /\ AcceptConn(g)
    /\ connChan' = Add(connChan, g, -1)
    /\ UNCHANGED <<asking, serving>>

\* Accept returns a connection of the channel, also after Close.
WsAccept(g) ==
    /\ connChan[g] > 0
    /\ AcceptConn(g)
    /\ connChan' = Add(connChan, g, -1)
    /\ UNCHANGED <<asking, serving>>

\* Everything else is as in module Sockets.
Other ==
    /\ \/ \E g \in Creators : CreateStep(g)
       \/ \E g \in Listeners : AcceptStep(g) \/ AcceptError(g)
       \/ \E g \in Listeners \ Ws : MoreUpgrades /\ AcceptConn(g)
       \/ \E g \in Connectors : MoreUpgrades /\ Connect(g)
       \/ \E i \in Ids : ReleaseCount(i) \/ ReleaseDelete(i)
       \/ FewUpgrades /\ (Start \/ Cancel)
       \/ Stop \/ StopClose \/ StopBreaks
    /\ UNCHANGED wsVars

ServeStep(g) == Upgrade(g) \/ UpgradeFailed(g) \/ ServePut(g) \/ ServeFull(g)
NetNext == Other \/ \E g \in Listeners : ServeHTTP(g) \/ ServeStep(g) \/ WsAccept(g)

NetSpec == NetInit /\ [][NetNext]_netVars

\* As in module Sockets; the handlers of requests and Accept run too.
NetFairSpec == 
    /\ NetSpec /\ Fairness
    /\ \A g \in Listeners : WF_netVars(ServeStep(g)) /\ WF_netVars(WsAccept(g))

-----------------------------------------------------------------------------
(* Properties.                                                             *)

\* A connection that waits in the channel is accepted while the server runs, also when
\* its listener was closed, unless a panic of Create ended the accept goroutine.
QueueServed ==
    \A g \in Listeners : (connChan[g] > 0) ~> (connChan[g] = 0 \/ stopped \/ pc[g] \in {"close", "done"})
=============================================================================
