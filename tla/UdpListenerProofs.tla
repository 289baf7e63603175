------------------------- MODULE UdpListenerProofs -------------------------
(***************************************************************************)
(* Proofs about module UdpListener, for every set of addresses, any number *)
(* of Conns and of calls of Listener.Close, and every size of the          *)
(* channels: no address is routed to a Conn that nobody reads, and a Conn  *)
(* in use keeps its route.                                                 *)
(***************************************************************************)
EXTENDS UdpListener, Integers, TLAPS

\* What is in the queue when a Conn joins it and when Accept takes one.
LEMMA QueueSets ==
    ASSUME connCh \in Seq(Conn)
    PROVE  /\ \A c \in Conn : connCh' = Append(connCh, c) => Queued' = Queued \cup {c}
           /\ connCh # <<>> /\ connCh' = Tail(connCh) => Queued \subseteq Queued' \cup {Head(connCh)}
           /\ connCh # <<>> /\ connCh' = Tail(connCh) => Queued' \cup {Head(connCh)} \subseteq Queued
<1>1. ASSUME NEW c \in Conn, connCh' = Append(connCh, c) PROVE Queued' = Queued \cup {c}
  <2>1. /\ Len(connCh') = Len(connCh) + 1 /\ Len(connCh) \in Nat
        /\ connCh'[Len(connCh) + 1] = c
        /\ \A i \in 1..Len(connCh) : connCh'[i] = connCh[i]
    BY <1>1
  <2>2. Queued' \subseteq Queued \cup {c}
    BY <2>1 DEF Queued
  <2>3. Queued \cup {c} \subseteq Queued'
    <3>1. Len(connCh) + 1 \in 1..Len(connCh') /\ 1..Len(connCh) \subseteq 1..Len(connCh')
      BY <2>1
    <3> QED
      BY <2>1, <3>1 DEF Queued
  <2> QED
    BY <2>2, <2>3
<1>2. ASSUME connCh # <<>>, connCh' = Tail(connCh)
      PROVE  /\ Queued \subseteq Queued' \cup {Head(connCh)}
             /\ Queued' \cup {Head(connCh)} \subseteq Queued
  <2>1. /\ Len(connCh) \in Nat \ {0} /\ Len(connCh') = Len(connCh) - 1
        /\ \A i \in 1..Len(connCh') : connCh'[i] = connCh[i + 1]
        /\ Head(connCh) = connCh[1]
    BY <1>2
  <2>2. Queued \subseteq Queued' \cup {Head(connCh)}
    <3>1. ASSUME NEW i \in 1..Len(connCh), i # 1 PROVE connCh[i] \in Queued'
      <4>1. i - 1 \in 1..Len(connCh') /\ connCh'[i - 1] = connCh[i]
        BY <2>1, <3>1
      <4> QED
        BY <4>1 DEF Queued
    <3> QED
      BY <2>1, <3>1 DEF Queued
  <2>3. Queued' \cup {Head(connCh)} \subseteq Queued
    <3>1. 1 \in 1..Len(connCh) /\ \A i \in 1..Len(connCh') : i + 1 \in 1..Len(connCh)
      BY <2>1
    <3> QED
      BY <2>1, <3>1 DEF Queued
  <2> QED
    BY <2>2, <2>3
<1> QED
  BY <1>1, <1>2

-----------------------------------------------------------------------------
\* At the start there is no Conn.
LEMMA InitIInv == Init => IInv
<1> SUFFICES ASSUME Init PROVE IInv
  OBVIOUS
<1>1. TypeOK
  <2>1. connCh \in Seq(Conn) /\ Len(connCh) <= ConnChanSize
    <3>1. <<>> \in Seq(Conn) /\ Len(<<>>) = 0
      OBVIOUS
    <3> QED
      BY <3>1, UdpAssumption DEF Init
  <2>2. /\ conns \in [Addrs -> 0..MaxConns] /\ made \in 0..MaxConns
        /\ msgs \in [Conn -> 0..MsgChanSize]
    BY UdpAssumption DEF Init
  <2>3. loop \in [at : {"read", "lock", "lookup", "deliver", "done", "panic"},
                  from : Addrs \cup {NoAddr}, to : 0..MaxConns]
    BY UdpAssumption DEF Init
  <2> QED
    BY <2>1, <2>2, <2>3 DEF Init, TypeOK
<1>2. Queued = {} /\ accepted = {} /\ 1..made = {}
  BY DEF Init, Queued
<1> QED
  BY <1>1, <1>2 DEF Init, IInv, Offered, Routes, ClosersMade, LoopKnows, RoutedIsServed

\* A step that moves packets or the mutex, and changes nothing of the routes.
LEMMA Quiet ==
    ASSUME IInv, TypeOK', UNCHANGED <<conns, noMap, connCh, made, addr, accepted, closer>>, LoopKnows'
    PROVE  IInv'
BY DEF IInv, Offered, Queued, Routes, ClosersMade, RoutedIsServed

\* readLoop takes a packet, looks its address up and delivers it.
LEMMA LoopInv ==
    ASSUME IInv,
           \/ \E a \in Addrs : ReadFromUDP(a)
           \/ ReadEnd \/ LoopLock \/ Lookup \/ NewConnFull \/ NewConnPanic \/ Deliver
    PROVE  IInv'
<1> USE UdpAssumption
<1>1. TypeOK /\ LoopKnows /\ \A a \in Addrs : conns[a] # 0 => conns[a] \in 1..made
  BY DEF IInv, Offered, RoutedIsServed
<1>2. CASE \E a \in Addrs : ReadFromUDP(a)
  <2>1. TypeOK' /\ LoopKnows'
    BY <1>1, <1>2 DEF ReadFromUDP, TypeOK, LoopKnows
  <2> QED
    BY <1>2, <2>1, Quiet DEF ReadFromUDP
<1>3. CASE ReadEnd \/ NewConnPanic
  <2>1. TypeOK' /\ LoopKnows'
    BY <1>1, <1>3 DEF ReadEnd, NewConnPanic, LoopGoto, TypeOK, LoopKnows
  <2> QED
    BY <1>3, <2>1, Quiet DEF ReadEnd, NewConnPanic
<1>4. CASE LoopLock
  <2>1. TypeOK' /\ LoopKnows'
    BY <1>1, <1>4 DEF LoopLock, LoopAt, LoopGoto, TypeOK, LoopKnows
  <2> QED
    BY <1>4, <2>1, Quiet DEF LoopLock
<1>5. CASE Lookup
  <2>1. TypeOK' /\ LoopKnows'
    BY <1>1, <1>5 DEF Lookup, LoopAt, TypeOK, LoopKnows
  <2> QED
    BY <1>5, <2>1, Quiet DEF Lookup
<1>6. CASE NewConnFull
  <2>1. TypeOK' /\ LoopKnows'
    BY <1>1, <1>6 DEF NewConnFull, LoopGoto, TypeOK, LoopKnows
  <2> QED
    BY <1>6, <2>1, Quiet DEF NewConnFull
<1>7. CASE Deliver
  <2>1. msgs' \in [Conn -> 0..MsgChanSize]
    <3>1. loop.to \in Conn
      BY <1>1, <1>7 DEF Deliver, LoopAt, LoopKnows, TypeOK, Conn
    <3>2. msgs[loop.to] < MsgChanSize => msgs[loop.to] + 1 \in 0..MsgChanSize
      BY <1>1, <3>1 DEF TypeOK
    <3> QED
      BY <1>1, <1>7, <3>1, <3>2 DEF Deliver, TypeOK
  <2>2. TypeOK' /\ LoopKnows'
    BY <1>1, <1>7, <2>1 DEF Deliver, LoopGoto, TypeOK, LoopKnows
  <2> QED
    BY <1>7, <2>2, Quiet DEF Deliver
<1> QED
  BY <1>2, <1>3, <1>4, <1>5, <1>6, <1>7

\* newConn routes an address that has no Conn to one that Accept will return.
LEMMA NewConnInv ==
    ASSUME IInv, NewConn
    PROVE  IInv'
<1> USE UdpAssumption
<1> DEFINE n == made + 1
           a == loop.from
<1>1. TypeOK /\ Offered /\ Routes /\ ClosersMade /\ RoutedIsServed
  BY DEF IInv
<1>2. a \in Addrs /\ n \in Conn /\ made \in Nat /\ conns[a] = 0
  BY DEF IInv, LoopKnows, NewConn, LoopAt, TypeOK, Conn
<1>3. /\ conns' = [conns EXCEPT ![a] = n] /\ addr' = [addr EXCEPT ![n] = a]
      /\ made' = n /\ connCh' = Append(connCh, n) /\ accepted' = accepted
      /\ closer' = closer /\ noMap' = noMap
  BY DEF NewConn
<1>4. connCh' \in Seq(Conn) /\ Len(connCh') <= ConnChanSize
  BY <1>1, <1>2, <1>3 DEF NewConn, TypeOK
<1>5. TypeOK'
  <2>1. made' \in 0..MaxConns
    BY <1>2, <1>3 DEF Conn
  <2>2. addr' \in [Conn -> Addrs \cup {NoAddr}] /\ conns' \in [Addrs -> 0..MaxConns]
    BY <1>1, <1>2, <1>3, <2>1 DEF TypeOK
  <2>3. loop' = [loop EXCEPT !.at = "deliver", !.to = n] /\ mu' = FALSE
    BY DEF NewConn
  <2>4. loop' \in [at : {"read", "lock", "lookup", "deliver", "done", "panic"},
                   from : Addrs \cup {NoAddr}, to : 0..MaxConns]
    BY <1>1, <1>3, <2>1, <2>3 DEF TypeOK
  <2>5. UNCHANGED <<noMap, connChOpen, msgs, msgClosed, accepted, sockOpen, closer, shutter>>
    BY DEF NewConn
  <2> QED
    BY <1>1, <1>4, <2>1, <2>2, <2>3, <2>4, <2>5 DEF TypeOK
<1>6. Queued' = Queued \cup {n}
  BY <1>1, <1>2, <1>3, QueueSets DEF TypeOK
<1>7. Offered' /\ 1..made' = (1..made) \cup {n}
  <2>1. 1..made' = (1..made) \cup {n}
    BY <1>2, <1>3
  <2> QED
    BY <1>1, <1>3, <1>6, <2>1 DEF Offered
<1>8. closer[n] = "open"
  BY <1>1, <1>2 DEF ClosersMade, TypeOK
<1>9. /\ addr' \in [Conn -> Addrs \cup {NoAddr}] /\ addr'[n] = a
      /\ \A c \in 1..made : c \in Conn /\ c # n /\ addr'[c] = addr[c] /\ addr[c] \in Addrs
  BY <1>1, <1>2, <1>3, <1>5 DEF TypeOK, ClosersMade, Conn
<1>10. Routes'
  <2>1. ASSUME NEW c \in 1..made, closer[c] \in {"open", "lock"}, ~noMap
        PROVE  conns'[addr'[c]] = c
    <3>1. conns[addr[c]] = c /\ c # 0
      BY <1>1, <2>1 DEF Routes
    <3>2. addr[c] # a
      BY <1>2, <3>1
    <3> QED
      BY <1>1, <1>3, <1>9, <3>1, <3>2 DEF TypeOK
  <2>2. conns'[addr'[n]] = n
    BY <1>1, <1>2, <1>3, <1>9 DEF TypeOK
  <2> QED
    BY <1>3, <1>7, <2>1, <2>2 DEF Routes
<1>11. ClosersMade'
  BY <1>1, <1>2, <1>3, <1>7, <1>9 DEF ClosersMade
<1>12. LoopKnows'
  <2>1. loop'.at = "deliver" /\ loop'.to = n
    BY <1>1 DEF NewConn, TypeOK
  <2> QED
    BY <1>7, <2>1 DEF LoopKnows
<1>13. RoutedIsServed'
  <2>1. ASSUME NEW b \in Addrs, conns'[b] # 0
        PROVE  /\ conns'[b] \in Queued' \cup accepted' /\ addr'[conns'[b]] = b
               /\ closer'[conns'[b]] \in {"open", "lock"}
    <3>1. CASE b = a
      BY <1>1, <1>2, <1>3, <1>6, <1>8, <1>9, <3>1 DEF TypeOK
    <3>2. CASE b # a
      <4>1. conns'[b] = conns[b]
        BY <1>1, <1>3, <3>2 DEF TypeOK
      <4>2. conns[b] \in 1..made
        BY <1>1, <2>1, <4>1 DEF RoutedIsServed, Offered
      <4> QED
        BY <1>1, <1>3, <1>6, <1>9, <2>1, <4>1, <4>2 DEF RoutedIsServed
    <3> QED
      BY <3>1, <3>2
  <2> QED
    BY <2>1 DEF RoutedIsServed
<1> QED
  BY <1>5, <1>7, <1>10, <1>11, <1>12, <1>13 DEF IInv

\* Accept takes a Conn from the queue; a Conn keeps being offered.
LEMMA AcceptInv ==
    ASSUME IInv, Accept
    PROVE  IInv'
<1>1. TypeOK /\ Offered /\ LoopKnows
  BY DEF IInv
<1>2. /\ connCh \in Seq(Conn) /\ connCh # <<>> /\ connCh' = Tail(connCh)
      /\ accepted' = accepted \cup {Head(connCh)}
  BY <1>1 DEF Accept, TypeOK
<1>3. Queued' \cup accepted' = Queued \cup accepted
  BY <1>2, QueueSets
<1>4. TypeOK'
  <2>1. Tail(connCh) \in Seq(Conn) /\ Head(connCh) \in Conn /\ Len(Tail(connCh)) <= ConnChanSize
    BY <1>1, <1>2, UdpAssumption DEF TypeOK
  <2> QED
    BY <1>1, <1>2, <2>1 DEF Accept, TypeOK
<1> QED
  BY <1>3, <1>4
     DEF Accept, IInv, Offered, Routes, ClosersMade, LoopKnows, RoutedIsServed

\* The reader of a Conn, and Conn.Close up to and after removeConn.
LEMMA ConnInv ==
    ASSUME IInv, NEW c \in Conn, ReadMessage(c) \/ ConnClose(c) \/ CloseMsg(c)
    PROVE  IInv'
<1>1. TypeOK /\ Offered /\ ClosersMade /\ LoopKnows /\ Routes /\ RoutedIsServed
  BY DEF IInv
<1>2. CASE ReadMessage(c)
  <2>1. TypeOK' /\ LoopKnows'
    BY <1>1, <1>2, UdpAssumption DEF ReadMessage, TypeOK, LoopKnows
  <2> QED
    BY <1>2, <2>1, Quiet DEF ReadMessage
<1>3. CASE ConnClose(c) \/ CloseMsg(c)
  <2>1. PICK l \in {"lock", "closed"} :
          /\ closer' = [closer EXCEPT ![c] = l]
          /\ l = "lock" => closer[c] = "open" /\ c \in accepted
          /\ l = "closed" => closer[c] = "closeMsg"
    BY <1>3 DEF ConnClose, CloseMsg
  <2>2. UNCHANGED <<mu, conns, noMap, connCh, connChOpen, made, addr, msgs, accepted, sockOpen,
                    loop, shutter>>
    BY <1>3 DEF ConnClose, CloseMsg
  <2>3. \A d \in Conn : closer'[d] = IF d = c THEN l ELSE closer[d]
    BY <1>1, <2>1 DEF TypeOK
  <2>4. TypeOK'
    BY <1>1, <1>3, <2>1, <2>2 DEF ConnClose, CloseMsg, TypeOK
  <2>5. c \in 1..made
    BY <1>1, <2>1 DEF Offered, ClosersMade
  <2>6. Offered' /\ LoopKnows'
    BY <1>1, <2>2 DEF Offered, Queued, LoopKnows
  <2>7. ClosersMade'
    BY <1>1, <2>2, <2>3, <2>5 DEF ClosersMade
  <2>8. Routes'
    BY <1>1, <2>1, <2>2, <2>3 DEF Routes, Conn, TypeOK
  <2>9. RoutedIsServed'
    <3>1. ASSUME NEW a \in Addrs, conns[a] # 0
          PROVE  closer'[conns[a]] \in {"open", "lock"}
      BY <1>1, <2>1, <2>3, <3>1 DEF RoutedIsServed, TypeOK, Conn
    <3> QED
      BY <1>1, <2>2, <3>1 DEF RoutedIsServed, Queued
  <2> QED
    BY <2>4, <2>6, <2>7, <2>8, <2>9 DEF IInv
<1> QED
  BY <1>2, <1>3

\* removeConn deletes the route of its own Conn: no other Conn in use has the address.
LEMMA RemoveInv ==
    ASSUME IInv, NEW c \in Conn, RemoveConn(c)
    PROVE  IInv'
<1>1. TypeOK /\ Offered /\ ClosersMade /\ LoopKnows /\ Routes /\ RoutedIsServed
  BY DEF IInv
<1>2. /\ closer[c] = "lock" /\ closer' = [closer EXCEPT ![c] = "closeMsg"]
      /\ conns' = [conns EXCEPT ![addr[c]] = 0]
      /\ UNCHANGED <<mu, noMap, connCh, connChOpen, made, addr, msgs, msgClosed, accepted,
                     sockOpen, loop, shutter>>
  BY DEF RemoveConn
<1>3. c \in 1..made /\ addr[c] \in Addrs
  BY <1>1, <1>2 DEF ClosersMade
<1>4. TypeOK'
  BY <1>1, <1>2, <1>3, UdpAssumption DEF TypeOK
<1>5. \A d \in Conn : closer'[d] = IF d = c THEN "closeMsg" ELSE closer[d]
  BY <1>1, <1>2 DEF TypeOK
<1>6. \A a \in Addrs : conns'[a] = IF a = addr[c] THEN 0 ELSE conns[a]
  BY <1>1, <1>2 DEF TypeOK
<1>7. Offered' /\ LoopKnows' /\ ClosersMade'
  BY <1>1, <1>2, <1>3, <1>5 DEF Offered, Queued, LoopKnows, ClosersMade
<1>8. Routes'
  <2>1. ASSUME NEW d \in 1..made, d # c, closer[d] \in {"open", "lock"}, ~noMap
        PROVE  conns'[addr[d]] = d
    <3>1. conns[addr[d]] = d /\ conns[addr[c]] = c
      BY <1>1, <1>2, <1>3, <2>1 DEF Routes
    <3>2. addr[d] # addr[c]
      BY <2>1, <3>1
    <3>3. d \in Conn /\ addr[d] \in Addrs
      BY <1>1, UdpAssumption DEF ClosersMade, TypeOK, Conn
    <3> QED
      BY <1>6, <3>1, <3>2, <3>3
  <2> QED
    BY <1>1, <1>2, <1>5, <2>1 DEF Routes, TypeOK, Conn
<1>9. RoutedIsServed'
  <2>1. ASSUME NEW a \in Addrs, conns'[a] # 0
        PROVE  /\ conns'[a] = conns[a] /\ conns[a] # 0
               /\ closer'[conns[a]] \in {"open", "lock"}
    <3>1. a # addr[c] /\ conns'[a] = conns[a]
      BY <1>6, <2>1
    <3>2. conns[a] \in Conn /\ conns[a] # c
      BY <1>1, <2>1, <3>1 DEF RoutedIsServed, TypeOK, Conn
    <3> QED
      BY <1>1, <1>5, <2>1, <3>1, <3>2 DEF RoutedIsServed
  <2> QED
    BY <1>1, <1>2, <2>1 DEF RoutedIsServed, Queued
<1> QED
  BY <1>4, <1>7, <1>8, <1>9 DEF IInv

\* Listener.Close makes no route.
LEMMA ShutterInv ==
    ASSUME IInv, NEW s \in Shutters, ListenerClose(s) \/ ShutterStep(s)
    PROVE  IInv'
<1>1. TypeOK /\ LoopKnows
  BY DEF IInv
<1>2. TypeOK' /\ LoopKnows'
  BY <1>1 DEF ListenerClose, ShutterStep, CloseLock, CloseConn, CloseSocket, TypeOK, LoopKnows
<1>3. UNCHANGED <<conns, connCh, made, addr, accepted, closer>> /\ (noMap => noMap')
  BY DEF ListenerClose, ShutterStep, CloseLock, CloseConn, CloseSocket
<1> QED
  BY <1>2, <1>3 DEF IInv, Offered, Queued, Routes, ClosersMade, RoutedIsServed

\* Every step of readLoop, Accept, the sockets and Listener.Close keeps IInv.
LEMMA NextIInv == IInv /\ [Next]_vars => IInv'
<1> SUFFICES ASSUME IInv, [Next]_vars PROVE IInv'
  OBVIOUS
<1>1. CASE UNCHANGED vars
  BY <1>1 DEF vars, IInv, TypeOK, Offered, Queued, Routes, ClosersMade, LoopKnows, RoutedIsServed
<1> QED
  BY <1>1, LoopInv, NewConnInv, AcceptInv, ConnInv, RemoveInv, ShutterInv
     DEF Next, LoopStep, CloserStep

-----------------------------------------------------------------------------
\* The inductive invariant of the listener holds in every behaviour.
THEOREM Invariant == Spec => []IInv
BY InitIInv, NextIInv, PTL DEF Spec

\* No address is routed to a Conn that nobody reads or that was removed.
THEOREM NoStuckRoute == Spec => []RoutedIsServed
<1>1. IInv => RoutedIsServed
  BY DEF IInv
<1> QED
  BY <1>1, Invariant, PTL

\* The close of an old Conn never cuts off a newer one of the same address, although
\* removeConn deletes by address.
THEOREM RouteKept == Spec => []InUseIsRouted
<1>1. IInv => InUseIsRouted
  BY DEF IInv, Offered, Routes, InUseIsRouted
<1> QED
  BY <1>1, Invariant, PTL
=============================================================================
