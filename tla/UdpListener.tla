---------------------------- MODULE UdpListener ----------------------------
(***************************************************************************)
(* The UDP listener (udp/listener.go, udp/conn.go) makes a pseudo          *)
(* connection for every remote address.  readLoop looks the address of a   *)
(* packet up in conns under mu, makes a Conn for a new one, offers it to   *)
(* Accept through connCh, and puts the packet into the Conn's msgChan      *)
(* after mu was released.  A Socket that ends calls Conn.Close once        *)
(* (Socket!TokenSpec); Sockets.stop and the accept goroutine call          *)
(* Listener.Close.                                                         *)
(*                                                                         *)
(* A goroutine that panics stays at "panic", with the mutex if it has it:  *)
(* no critical section of this code unlocks in a deferred call.            *)
(***************************************************************************)
EXTENDS Naturals, Sequences

CONSTANTS
    Addrs,         \* remote addresses
    NoAddr,        \* the address of a Conn that does not exist yet
    MaxConns,      \* bound: Conn objects made in one behaviour
    ConnChanSize,  \* Options.ConnChanSize
    MsgChanSize,   \* Options.MsgChanSize
    Shutters       \* goroutines that call Listener.Close, each once

ASSUME UdpAssumption ==
    /\ NoAddr \notin Addrs
    /\ MaxConns \in Nat
    /\ ConnChanSize \in Nat
    /\ MsgChanSize \in Nat

VARIABLES
    mu,         \* TRUE while Listener.mu is locked
    conns,      \* Listener.conns: the Conn of each address, 0 for none
    noMap,      \* Listener.conns = nil
    connCh,     \* Listener.connCh
    connChOpen,
    made,       \* Conn objects made so far; a Conn is its number
    addr,       \* Conn.addr and Conn.key
    msgs,       \* packets waiting in Conn.msgChan
    msgClosed,  \* Conns whose msgChan is closed
    accepted,   \* Conns returned by Accept
    sockOpen,   \* the UDP socket is open
    loop,       \* readLoop: its next step, the packet's address, the Conn found
    closer,     \* Conn.Close of each Conn
    shutter     \* Listener.Close of each shutter

vars == <<mu, conns, noMap, connCh, connChOpen, made, addr, msgs, msgClosed, accepted, sockOpen,
          loop, closer, shutter>>

Conn == 1..MaxConns
Queued == {connCh[i] : i \in 1..Len(connCh)}
LoopAt(l) == loop.at = l
LoopGoto(l) == loop' = [loop EXCEPT !.at = l]

Init ==
    /\ mu = FALSE
    /\ conns = [a \in Addrs |-> 0] /\ noMap = FALSE
    /\ connCh = <<>> /\ connChOpen = TRUE
    /\ made = 0
    /\ addr = [c \in Conn |-> NoAddr]
    /\ msgs = [c \in Conn |-> 0] /\ msgClosed = {} /\ accepted = {}
    /\ sockOpen = TRUE
    /\ loop = [at |-> "read", from |-> NoAddr, to |-> 0]
    /\ closer = [c \in Conn |-> "open"]
    /\ shutter = [s \in Shutters |-> "idle"]

-----------------------------------------------------------------------------
(* readLoop and newConn.                                                   *)

\* A packet comes in.  Any packet may need a new Conn, so the bound is checked here.
ReadFromUDP(a) ==
    /\ LoopAt("read") /\ sockOpen
    /\ made < MaxConns
    /\ loop' = [at |-> "lock", from |-> a, to |-> 0]
    /\ UNCHANGED <<mu, conns, noMap, connCh, connChOpen, made, addr, msgs, msgClosed, accepted,
                   sockOpen, closer, shutter>>

\* scc is stopped, or ReadFromUDP failed (always so when the socket is closed): the
\* loop ends.
ReadEnd ==
    /\ LoopAt("read")
    /\ LoopGoto("done")
    /\ UNCHANGED <<mu, conns, noMap, connCh, connChOpen, made, addr, msgs, msgClosed, accepted,
                   sockOpen, closer, shutter>>

LoopLock ==
    /\ LoopAt("lock") /\ ~mu
    /\ mu' = TRUE
    /\ LoopGoto("lookup")
    /\ UNCHANGED <<conns, noMap, connCh, connChOpen, made, addr, msgs, msgClosed, accepted, sockOpen,
                   closer, shutter>>

\* The address has a Conn: unlock and deliver.
Lookup ==
    /\ LoopAt("lookup") /\ conns[loop.from] # 0
    /\ mu' = FALSE
    /\ loop' = [loop EXCEPT !.at = "deliver", !.to = conns[loop.from]]
    /\ UNCHANGED <<conns, noMap, connCh, connChOpen, made, addr, msgs, msgClosed, accepted, sockOpen,
                   closer, shutter>>

\* newConn offers the new Conn to Accept and only then records it.
NewConn ==
    /\ LoopAt("lookup") /\ conns[loop.from] = 0
    /\ connChOpen /\ Len(connCh) < ConnChanSize
    /\ made' = made + 1
    /\ addr' = [addr EXCEPT ![made + 1] = loop.from]
    /\ connCh' = Append(connCh, made + 1)
    /\ conns' = [conns EXCEPT ![loop.from] = made + 1]
    /\ mu' = FALSE
    /\ loop' = [loop EXCEPT !.at = "deliver", !.to = made + 1]
    /\ UNCHANGED <<noMap, connChOpen, msgs, msgClosed, accepted, sockOpen, closer, shutter>>

\* Mutant of NewConnFull: the Conn is recorded before the channel refuses it.
NewConnFullRecorded ==
    /\ LoopAt("lookup") /\ conns[loop.from] = 0
    /\ connChOpen /\ Len(connCh) >= ConnChanSize
    /\ made' = made + 1
    /\ addr' = [addr EXCEPT ![made + 1] = loop.from]
    /\ conns' = [conns EXCEPT ![loop.from] = made + 1]
    /\ mu' = FALSE
    /\ LoopGoto("read")
    /\ UNCHANGED <<noMap, connCh, connChOpen, msgs, msgClosed, accepted, sockOpen, closer, shutter>>

\* Mutant of NewConnFull: continue without Unlock.
NewConnFullLocked ==
    /\ LoopAt("lookup") /\ conns[loop.from] = 0
    /\ connChOpen /\ Len(connCh) >= ConnChanSize
    /\ LoopGoto("read")
    /\ UNCHANGED <<mu, conns, noMap, connCh, connChOpen, made, addr, msgs, msgClosed, accepted,
                   sockOpen, closer, shutter>>

\* Mutant of NewConnFull: no continue, the packet goes to the Conn that newConn refused.
NewConnFullDelivers ==
    /\ LoopAt("lookup") /\ conns[loop.from] = 0
    /\ connChOpen /\ Len(connCh) >= ConnChanSize
    /\ mu' = FALSE
    /\ loop' = [loop EXCEPT !.at = "deliver", !.to = 0]
    /\ UNCHANGED <<conns, noMap, connCh, connChOpen, made, addr, msgs, msgClosed, accepted, sockOpen,
                   closer, shutter>>

\* connCh is full: the Conn and the packet are dropped.
NewConnFull ==
    /\ LoopAt("lookup") /\ conns[loop.from] = 0
    /\ connChOpen /\ Len(connCh) >= ConnChanSize
    /\ mu' = FALSE
    /\ LoopGoto("read")
    /\ UNCHANGED <<conns, noMap, connCh, connChOpen, made, addr, msgs, msgClosed, accepted, sockOpen,
                   closer, shutter>>

\* The select sends on a closed connCh: readLoop panics with mu locked.
NewConnPanic ==
    /\ LoopAt("lookup") /\ conns[loop.from] = 0
    /\ ~connChOpen
    /\ LoopGoto("panic")
    /\ UNCHANGED <<mu, conns, noMap, connCh, connChOpen, made, addr, msgs, msgClosed, accepted,
                   sockOpen, closer, shutter>>

\* mu is no longer held here; a packet that finds msgChan full is dropped, and a
\* msgChan that Conn.Close has closed in the meantime makes the send panic.
Deliver ==
    /\ LoopAt("deliver")
    /\ IF loop.to \in msgClosed
       THEN LoopGoto("panic") /\ UNCHANGED msgs
       ELSE /\ LoopGoto("read")
            /\ msgs' = IF msgs[loop.to] < MsgChanSize
                       THEN [msgs EXCEPT ![loop.to] = @ + 1] ELSE msgs
    /\ UNCHANGED <<mu, conns, noMap, connCh, connChOpen, made, addr, msgClosed, accepted, sockOpen,
                   closer, shutter>>

-----------------------------------------------------------------------------
(* Accept, ReadMessage and Conn.Close.                                     *)

\* Accept returns what is queued, also after connCh was closed.
Accept ==
    /\ connCh # <<>>
    /\ accepted' = accepted \cup {Head(connCh)}
    /\ connCh' = Tail(connCh)
    /\ UNCHANGED <<mu, conns, noMap, connChOpen, made, addr, msgs, msgClosed, sockOpen, loop, closer,
                   shutter>>

\* The reader of the Conn's socket takes a packet.
ReadMessage(c) ==
    /\ c \in accepted /\ msgs[c] > 0
    /\ msgs' = [msgs EXCEPT ![c] = @ - 1]
    /\ UNCHANGED <<mu, conns, noMap, connCh, connChOpen, made, addr, msgClosed, accepted, sockOpen,
                   loop, closer, shutter>>

\* The socket ends (heartbeat, bad packet, refusal by Create): Conn.Close.
ConnClose(c) ==
    /\ c \in accepted /\ closer[c] = "open"
    /\ closer' = [closer EXCEPT ![c] = "lock"]
    /\ UNCHANGED <<mu, conns, noMap, connCh, connChOpen, made, addr, msgs, msgClosed, accepted,
                   sockOpen, loop, shutter>>

\* removeConn: deletes by address, under mu; a nil map stays nil.
RemoveConn(c) ==
    /\ closer[c] = "lock" /\ ~mu
    /\ conns' = [conns EXCEPT ![addr[c]] = 0]
    /\ closer' = [closer EXCEPT ![c] = "closeMsg"]
    /\ UNCHANGED <<mu, noMap, connCh, connChOpen, made, addr, msgs, msgClosed, accepted, sockOpen,
                   loop, shutter>>

\* Mutant of CloseMsg: the Conn is removed (again) after its channel was closed.
CloseMsgRemoves(c) ==
    /\ closer[c] = "closeMsg" /\ ~mu
    /\ msgClosed' = msgClosed \cup {c}
    /\ conns' = [conns EXCEPT ![addr[c]] = 0]
    /\ closer' = [closer EXCEPT ![c] = "closed"]
    /\ UNCHANGED <<mu, noMap, connCh, connChOpen, made, addr, msgs, accepted, sockOpen, loop, shutter>>

CloseMsg(c) ==
    /\ closer[c] = "closeMsg"
    /\ msgClosed' = msgClosed \cup {c}
    /\ closer' = [closer EXCEPT ![c] = "closed"]
    /\ UNCHANGED <<mu, conns, noMap, connCh, connChOpen, made, addr, msgs, accepted, sockOpen, loop,
                   shutter>>

-----------------------------------------------------------------------------
(* Listener.Close.                                                         *)

\* close(connCh) panics when another call of Close came first.
ListenerClose(s) ==
    /\ shutter[s] = "idle"
    /\ connChOpen' = FALSE
    /\ shutter' = [shutter EXCEPT ![s] = IF connChOpen THEN "lock" ELSE "panic"]
    /\ UNCHANGED <<mu, conns, noMap, connCh, made, addr, msgs, msgClosed, accepted, sockOpen, loop,
                   closer>>

CloseLock(s) ==
    /\ shutter[s] = "lock" /\ ~mu
    /\ mu' = TRUE
    /\ shutter' = [shutter EXCEPT ![s] = "range"]
    /\ UNCHANGED <<conns, noMap, connCh, connChOpen, made, addr, msgs, msgClosed, accepted, sockOpen,
                   loop, closer>>

\* The range calls Close of a Conn, and that locks mu, which this goroutine holds.
CloseConn(s) ==
    /\ shutter[s] = "range"
    /\ \E a \in Addrs : conns[a] # 0
    /\ shutter' = [shutter EXCEPT ![s] = "relock"]
    /\ UNCHANGED <<mu, conns, noMap, connCh, connChOpen, made, addr, msgs, msgClosed, accepted,
                   sockOpen, loop, closer>>

\* No Conn is left: drop the map, unlock, close the socket.
CloseSocket(s) ==
    /\ shutter[s] = "range"
    /\ \A a \in Addrs : conns[a] = 0
    /\ noMap' = TRUE
    /\ mu' = FALSE
    /\ sockOpen' = FALSE
    /\ shutter' = [shutter EXCEPT ![s] = "done"]
    /\ UNCHANGED <<conns, connCh, connChOpen, made, addr, msgs, msgClosed, accepted, loop, closer>>

-----------------------------------------------------------------------------
LoopStep == \/ LoopLock \/ Lookup \/ NewConn \/ NewConnFull \/ NewConnPanic \/ Deliver
CloserStep(c) == RemoveConn(c) \/ CloseMsg(c)
ShutterStep(s) == CloseLock(s) \/ CloseConn(s) \/ CloseSocket(s)

Next ==
    \/ \E a \in Addrs : ReadFromUDP(a)
    \/ ReadEnd
    \/ LoopStep
    \/ Accept
    \/ \E c \in Conn : ReadMessage(c) \/ ConnClose(c) \/ CloserStep(c)
    \/ \E s \in Shutters : ListenerClose(s) \/ ShutterStep(s)

Spec == Init /\ [][Next]_vars

\* Goroutines run, and sync.Mutex does not starve a goroutine that waits for it (its
\* starvation mode), hence strong fairness of the locking steps.  Peers, the
\* application and the operator owe nothing.
Fairness ==
    /\ WF_vars(LoopStep) /\ SF_vars(LoopLock)
    /\ WF_vars(Accept)
    /\ \A c \in Conn : WF_vars(CloserStep(c)) /\ SF_vars(RemoveConn(c))
    /\ \A s \in Shutters : WF_vars(ShutterStep(s)) /\ SF_vars(CloseLock(s))

FairSpec == Spec /\ Fairness

-----------------------------------------------------------------------------
(* Properties.                                                             *)

\* The variables have their types; a packet waits only in a channel that has room.
TypeOK ==
    /\ mu \in BOOLEAN /\ noMap \in BOOLEAN /\ connChOpen \in BOOLEAN /\ sockOpen \in BOOLEAN
    /\ conns \in [Addrs -> 0..MaxConns]
    /\ connCh \in Seq(Conn) /\ Len(connCh) <= ConnChanSize
    /\ made \in 0..MaxConns
    /\ addr \in [Conn -> Addrs \cup {NoAddr}]
    /\ msgs \in [Conn -> 0..MsgChanSize]
    /\ msgClosed \subseteq Conn /\ accepted \subseteq Conn
    /\ loop \in [at : {"read", "lock", "lookup", "deliver", "done", "panic"},
                 from : Addrs \cup {NoAddr}, to : 0..MaxConns]
    /\ closer \in [Conn -> {"open", "lock", "closeMsg", "closed"}]
    /\ shutter \in [Shutters -> {"idle", "lock", "range", "relock", "done", "panic"}]

\* A Conn that packets are routed to is one that Accept returns or has returned, and
\* that nobody has finished removing: no address is stuck with a Conn nobody reads.
RoutedIsServed ==
    \A a \in Addrs : conns[a] # 0 =>
        /\ conns[a] \in Queued \cup accepted
        /\ addr[conns[a]] = a
        /\ closer[conns[a]] \in {"open", "lock"}

\* A Conn that is in use keeps its route: removeConn deletes by address, yet the close
\* of an old Conn never cuts off a newer one of the same address.  In particular an
\* address has one Conn in use at a time.
InUseIsRouted ==
    \A c \in Queued \cup accepted : closer[c] = "open" /\ ~noMap => conns[addr[c]] = c

\* The inductive invariant of the listener.  Every Conn that was made was offered to
\* Accept; one at "lock" still has its route, which is why removeConn, that deletes by
\* address, deletes its own; readLoop knows the address of the packet it works on.
Offered == Queued \cup accepted = 1..made
Routes == \A c \in 1..made : closer[c] \in {"open", "lock"} /\ ~noMap => conns[addr[c]] = c
ClosersMade == \A c \in Conn : /\ closer[c] # "open" => c \in 1..made
                               /\ c \in 1..made => addr[c] \in Addrs
LoopKnows ==
    /\ loop.at \in {"lock", "lookup"} => loop.from \in Addrs /\ made < MaxConns
    /\ loop.at = "deliver" => loop.to \in 1..made
IInv == TypeOK /\ Offered /\ Routes /\ ClosersMade /\ LoopKnows /\ RoutedIsServed

\* Nobody waits for mu for ever while the listener is open: every path of readLoop and
\* removeConn unlocks it, and no Close of a socket is stuck behind a flood of packets.
LockGranted ==
    /\ LoopAt("lock") ~> (~LoopAt("lock") \/ ~connChOpen)
    /\ \A c \in Conn : closer[c] = "lock" ~> (closer[c] # "lock" \/ ~connChOpen)

-----------------------------------------------------------------------------
(* What comments and README say of the listener and the code does not do.  *)

\* Close closes all active Conns (comment in Listener.Close) and the listener.
CloseCloses == \A s \in Shutters : shutter[s] = "range" ~> shutter[s] = "done"

\* The listener makes a Socket for every remote address, and the heartbeat works on
\* them as on others (README, notes): a socket that ends does not end readLoop.
ReadLoopLives == LoopAt("panic") => ~connChOpen
=============================================================================
