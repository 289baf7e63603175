-------------------------- MODULE WsListenerProofs --------------------------
(***************************************************************************)
(* Proofs about module WsListener, for every number of listeners, handlers *)
(* and connections, every capacity of connChan and every ConnectMaxSize:   *)
(* WebSocket listeners do to the manager what module Sockets allows.       *)
(***************************************************************************)
EXTENDS WsListener, SocketsProofs

\* Every step of the listeners is a step of the manager, or leaves it as it is.
LEMMA NetStep == [NetNext]_netVars => [Next]_vars
<1> SUFFICES ASSUME [NetNext]_netVars PROVE [Next]_vars
  OBVIOUS
<1>1. CASE Other
  BY <1>1 DEF Other, Next
<1>2. ASSUME NEW g \in Listeners, ServeHTTP(g) \/ ServeStep(g) PROVE UNCHANGED vars
  BY <1>2 DEF ServeHTTP, ServeStep, Upgrade, UpgradeFailed, ServePut, ServeFull
<1>3. ASSUME NEW g \in Listeners, WsAccept(g) PROVE Next
  BY <1>3 DEF WsAccept, Next
<1>4. CASE UNCHANGED netVars
  BY <1>4 DEF netVars
<1> QED
  BY <1>1, <1>2, <1>3, <1>4 DEF NetNext

-----------------------------------------------------------------------------
\* The WebSocket listeners implement the manager of module Sockets: nothing that
\* ServeHTTP, connChan and Accept do is new to it, so all that is proved of it holds.
THEOREM ImplementsSockets == NetSpec => Spec
<1>1. NetInit => Init
  BY DEF NetInit
<1> QED
  BY <1>1, NetStep, PTL DEF NetSpec, Spec

\* With WebSocket listeners too, no connection is lost while the server runs.
THEOREM NetNoConnLost == NetSpec => []ConnsAccounted
BY ImplementsSockets, NoConnLost, PTL
=============================================================================
