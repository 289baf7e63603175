------------------------------- MODULE Socket -------------------------------
(***************************************************************************)
(* One cosnet Socket (socket.go) and every goroutine that touches it: the  *)
(* goroutine that runs Sockets.Create or a reconnect, the readMsg and      *)
(* writeMsg workers of each connection, the heartbeat daemon and goroutines*)
(* of the application.  The fields status, conn, stop, heartbeat, data and *)
(* address are shared without a lock, so every access that another         *)
(* goroutine can observe is a step of its own; pc names the next access.   *)
(*                                                                         *)
(* A connection is a number: connection 1 is the one Create was given,     *)
(* connection g+1 the one dialled after connection g was torn down.  The   *)
(* stop channel made together with connection g is also called g, and nil  *)
(* is 0.                                                                   *)
(***************************************************************************)
EXTENDS Integers, FiniteSets

CONSTANTS
    Client,         \* TRUE: made by Sockets.Connect, FALSE: by an accept loop
    ClientReconnectMax, \* Options.ClientReconnectMax, 0 for redials without limit
    MaxConns,       \* bound: connections in one behaviour; later dials fail
    BusyConns,      \* bound: later connections carry no messages, and the application
                    \* makes no calls in a behaviour that has one
    Beaters,        \* goroutines that call Heartbeat (daemon, application)
    Users,          \* application goroutines, each makes one call
    UserOps,        \* the calls they may make
    CloseDelays,    \* arguments of Close, 0 for none
    SocketConnectTime,
    SocketReplacedTime,
    HeartbeatStep,  \* argument of Heartbeat
    CallbackPanics, \* events whose application callback may panic
    MayStop         \* TRUE: the process may be told to stop (scc)

ASSUME SocketAssumption ==
    /\ Client \in BOOLEAN
    /\ ClientReconnectMax \in Nat
    /\ MaxConns \in Nat \ {0}
    /\ BusyConns \in Nat
    /\ UserOps \subseteq {"Close", "Replaced", "Authentication"}
    /\ CloseDelays \subseteq Nat
    /\ SocketConnectTime \in Nat
    /\ SocketReplacedTime \in Nat
    /\ HeartbeatStep \in Nat \ {0}
    /\ CallbackPanics \subseteq {"Connected", "Disconnect", "Heartbeat"}
    /\ MayStop \in BOOLEAN

VARIABLES
    status,      \* Socket.status
    conn,        \* Socket.conn
    stop,        \* Socket.stop
    heartbeat,   \* Socket.heartbeat
    data,        \* Socket.data # nil
    address,     \* Socket.address # ""
    inMap,       \* the socket is in Sockets.sockets
    count,       \* what this socket adds to Sockets.count
    closedStop,  \* stop channels that were closed
    closedConn,  \* connections that were closed on this side
    stopped,     \* scc.Stopped(), ctx.Done()
    pc,          \* the next step of each goroutine
    seen,        \* the status a goroutine read and has yet to use
    ref,         \* the conn or stop a worker evaluated and is blocked on
    num          \* an integer local: the heartbeat read, the delay of Close

fields == <<status, conn, stop, heartbeat, data, address>>
manager == <<inMap, count>>
closed == <<closedStop, closedConn>>
locals == <<seen, ref, num>>
vars == <<fields, manager, closed, stopped, pc, locals>>

Conn == 1..MaxConns
Creator(g) == <<"C", g>>
Reader(g) == <<"R", g>>
Writer(g) == <<"W", g>>
Creators == {"C"} \X (1..MaxConns + 1)
Readers == {"R"} \X Conn
Writers == {"W"} \X Conn
Workers == Readers \cup Writers
Hearts == {"H"} \X Beaters
Apps == {"U"} \X Users
Agents == Creators \cup Workers \cup Hearts \cup Apps

Status == {"None", "Connected", "Closing", "Disconnect", "Disconnected",
           "Reconnecting", "Released"}

CreatorSteps == {"store", "dial", "setConn", "setStop", "setStatus", "start",
                 "setAddress"}
DisconnectSteps == {"dRead", "dCas", "dStop", "dConn", "dEmit"}
ReaderSteps == {"read", "recv", "alive", "aliveBeat", "aliveData", "aliveUse", "handle"}
WriterSteps == {"select", "wait", "write", "sending"}
HeartSteps == {"rest", "hAdd", "hCmp"}
AppSteps == {"idle", "uCas", "uBeat", "uDelay"}
Steps == CreatorSteps \cup DisconnectSteps \cup ReaderSteps \cup WriterSteps
           \cup HeartSteps \cup AppSteps \cup {"release", "drain", "new", "done"}

-----------------------------------------------------------------------------
At(a, l) == pc[a] = l
Goto(a, l) == pc' = [pc EXCEPT ![a] = l]

\* Where a goroutine goes on after disconnect() returns: workers run it as
\* their deferred call and end, the daemon goes on with its Range.
Return(a) == IF a \in Hearts THEN "rest" ELSE "done"

\* Above this value every heartbeat acts the same (Heartbeat only compares
\* it with SocketConnectTime), so the counter is capped there.
BeatCap == SocketConnectTime + HeartbeatStep
Capped(n) == IF n > BeatCap THEN BeatCap ELSE n

IsValidStatus(s) == s \in {"None", "Connected", "Closing"}

Init ==
    /\ status = "None" /\ conn = 0 /\ stop = 0 /\ heartbeat = 0
    /\ data = FALSE /\ address = FALSE
    /\ inMap = FALSE /\ count = 0
    /\ closedStop = {} /\ closedConn = {} /\ stopped = FALSE
    /\ pc = [a \in Agents |->
               CASE a = Creator(1) -> "store"
                 [] a \in Hearts -> "rest"
                 [] a \in Apps -> "idle"
                 [] OTHER -> "new"]
    /\ seen = [a \in Agents |-> "None"]
    /\ ref = [a \in Agents |-> 0]
    /\ num = [a \in Agents |-> 0]

-----------------------------------------------------------------------------
(* Sockets.Create, Sockets.Connect and Socket.connect.                     *)

\* Create registers the socket before connect() has run: from here on the
\* daemon sees it, with status None and no stop channel.
Create(g) ==
    /\ At(Creator(g), "store")
    /\ inMap' = TRUE
    /\ count' = count + 1
    /\ Goto(Creator(g), "setConn")
    /\ UNCHANGED <<fields, closed, stopped, locals>>

ConnectConn(g) ==
    /\ At(Creator(g), "setConn")
    /\ conn' = g
    /\ Goto(Creator(g), "setStop")
    /\ UNCHANGED <<status, stop, heartbeat, data, address, manager, closed, stopped, locals>>

ConnectStop(g) ==
    /\ At(Creator(g), "setStop")
    /\ stop' = g
    /\ Goto(Creator(g), "setStatus")
    /\ UNCHANGED <<status, conn, heartbeat, data, address, manager, closed, stopped, locals>>

ConnectStatus(g) ==
    /\ At(Creator(g), "setStatus")
    /\ status' = "Connected"
    /\ Goto(Creator(g), "start")
    /\ UNCHANGED <<conn, stop, heartbeat, data, address, manager, closed, stopped, locals>>

\* Mutant of ConnectStart: the missing return of tryReconnect, so that a redial
\* that succeeded releases the socket all the same.
ConnectStartNoReturn(g) ==
    /\ At(Creator(g), "start")
    /\ heartbeat' = 0
    /\ \/ pc' = [pc EXCEPT ![Creator(g)] = IF g > 1 THEN "release"
                                          ELSE IF Client THEN "setAddress" ELSE "done",
                           ![Reader(g)] = "read",
                           ![Writer(g)] = "select"]
       \/ /\ "Connected" \in CallbackPanics
          /\ Goto(Creator(g), "done")
    /\ UNCHANGED <<status, conn, stop, data, address, manager, closed, stopped, locals>>

\* The rest of connect(): reset the heartbeat, emit Connected, start the two
\* workers.  A panic of the callback ends the goroutine before the workers exist.
ConnectStart(g) ==
    /\ At(Creator(g), "start")
    /\ heartbeat' = 0
    /\ \/ pc' = [pc EXCEPT ![Creator(g)] = IF Client /\ g = 1 THEN "setAddress" ELSE "done",
                           ![Reader(g)] = "read",
                           ![Writer(g)] = "select"]
       \/ /\ "Connected" \in CallbackPanics
          /\ Goto(Creator(g), "done")
    /\ UNCHANGED <<status, conn, stop, data, address, manager, closed, stopped, locals>>

\* Connect stores the address only after Create has returned.
ConnectAddress(g) ==
    /\ At(Creator(g), "setAddress")
    /\ address' = TRUE
    /\ Goto(Creator(g), "done")
    /\ UNCHANGED <<status, conn, stop, heartbeat, data, manager, closed, stopped, locals>>

\* tryConnect gives up when its retries are used up or the context is cancelled;
\* without a limit only the cancellation ends its attempts (module Dial).
GivesUp == ClientReconnectMax > 0 \/ stopped

\* The bounds on connections.
Redialled(g) == g \in Conn /\ (g <= BusyConns \/ \A a \in Apps : At(a, "idle"))

\* Mutant of TryConnect: the failed redial forgets sock.release().
TryConnectNoRelease(g) ==
    /\ At(Creator(g), "dial")
    /\ \/ Redialled(g) /\ Goto(Creator(g), "setConn")
       \/ GivesUp /\ Goto(Creator(g), "done")
    /\ UNCHANGED <<fields, manager, closed, stopped, locals>>

\* tryConnect on behalf of a reconnect: it succeeds, or gives up, and then the
\* socket is released.
TryConnect(g) ==
    /\ At(Creator(g), "dial")
    /\ \/ Redialled(g) /\ Goto(Creator(g), "setConn")
       \/ GivesUp /\ Goto(Creator(g), "release")
    /\ UNCHANGED <<fields, manager, closed, stopped, locals>>

-----------------------------------------------------------------------------
(* Socket.disconnect, run by workers when they end and by Heartbeat.       *)

DisconnectRead(a) ==
    /\ At(a, "dRead")
    /\ IF IsValidStatus(status)
       THEN /\ seen' = [seen EXCEPT ![a] = status]
            /\ Goto(a, "dCas")
       ELSE Goto(a, Return(a)) /\ UNCHANGED seen
    /\ UNCHANGED <<fields, manager, closed, stopped, ref, num>>

DisconnectCas(a) ==
    /\ At(a, "dCas")
    /\ IF status = seen[a]
       THEN status' = "Disconnect" /\ Goto(a, "dStop")
       ELSE Goto(a, Return(a)) /\ UNCHANGED status
    /\ seen' = [seen EXCEPT ![a] = "None"]
    /\ UNCHANGED <<conn, stop, heartbeat, data, address, manager, closed, stopped, ref, num>>

\* Mutant of DisconnectStop: a teardown that goes on over a nil or closed channel.
DisconnectStopUnchecked(a) ==
    /\ At(a, "dStop")
    /\ closedStop' = closedStop \cup {stop}
    /\ Goto(a, "dConn")
    /\ UNCHANGED <<fields, manager, closedConn, stopped, locals>>

\* close(sock.stop) panics on a nil or a closed channel; the deferred recover
\* then ends disconnect() with the status left at Disconnect.
DisconnectStop(a) ==
    /\ At(a, "dStop")
    /\ IF stop # 0 /\ stop \notin closedStop
       THEN closedStop' = closedStop \cup {stop} /\ Goto(a, "dConn")
       ELSE Goto(a, Return(a)) /\ UNCHANGED closedStop
    /\ UNCHANGED <<fields, manager, closedConn, stopped, locals>>

\* Mutant of DisconnectConn: the field is cleared, the connection is not closed.
DisconnectConnNoClose(a) ==
    /\ At(a, "dConn")
    /\ conn' = 0
    /\ Goto(a, "dEmit")
    /\ UNCHANGED <<status, stop, heartbeat, data, address, manager, closed, stopped, locals>>

DisconnectConn(a) ==
    /\ At(a, "dConn")
    /\ closedConn' = closedConn \cup ({conn} \ {0})
    /\ conn' = 0
    /\ Goto(a, "dEmit")
    /\ UNCHANGED <<status, stop, heartbeat, data, address, manager, closedStop, stopped, locals>>

\* Mutant of DisconnectEmit: the client branch does not return and also releases.
DisconnectEmitFallThrough(a) ==
    /\ At(a, "dEmit")
    /\ \/ /\ address
          /\ status' = "Disconnected"
          /\ pc' = [pc EXCEPT ![a] = "release", ![Creator(stop + 1)] = "dial"]
       \/ /\ ~address
          /\ status' = "Disconnected"
          /\ Goto(a, "release")
    /\ UNCHANGED <<conn, stop, heartbeat, data, address, manager, closed, stopped, locals>>

\* Emit Disconnect, then Type(): a client starts a reconnect goroutine, a
\* server socket is released.  A panic of the callback is recovered.
DisconnectEmit(a) ==
    /\ At(a, "dEmit")
    /\ \/ /\ address
          /\ status' = "Reconnecting"
          /\ pc' = [pc EXCEPT ![a] = Return(a), ![Creator(stop + 1)] = "dial"]
       \/ /\ ~address
          /\ status' = "Disconnected"
          /\ Goto(a, "release")
       \/ /\ "Disconnect" \in CallbackPanics
          /\ Goto(a, Return(a))
          /\ UNCHANGED status
    /\ UNCHANGED <<conn, stop, heartbeat, data, address, manager, closed, stopped, locals>>

Release(a) ==
    /\ At(a, "release")
    /\ status' = "Released"
    /\ count' = count - 1
    /\ inMap' = FALSE
    /\ data' = FALSE
    /\ Goto(a, "drain")
    /\ UNCHANGED <<conn, stop, heartbeat, address, closed, stopped, locals>>

\* The loop that empties cwrite found it empty.
Drained(a) ==
    /\ At(a, "drain")
    /\ Goto(a, Return(a))
    /\ UNCHANGED <<fields, manager, closed, stopped, locals>>

-----------------------------------------------------------------------------
(* Socket.readMsg and KeepAlive.                                           *)

\* Top of the loop: evaluate sock.conn.  A nil conn panics; the deferred
\* disconnect() runs all the same.
ReadMsg(a) ==
    /\ At(a, "read")
    /\ IF stopped \/ conn = 0
       THEN Goto(a, "dRead") /\ UNCHANGED ref
       ELSE Goto(a, "recv") /\ ref' = [ref EXCEPT ![a] = conn]
    /\ UNCHANGED <<fields, manager, closed, stopped, seen, num>>

ReadMsgTrue(a) ==
    /\ At(a, "recv") /\ a[2] <= BusyConns
    /\ ref[a] \notin closedConn
    /\ Goto(a, "alive")
    /\ ref' = [ref EXCEPT ![a] = 0]
    /\ UNCHANGED <<fields, manager, closed, stopped, seen, num>>

\* ReadMessage fails: this side closed the connection, the peer went away, or
\* the bytes are not a message.
ReadMsgError(a) ==
    /\ At(a, "recv")
    /\ Goto(a, "dRead")
    /\ ref' = [ref EXCEPT ![a] = 0]
    /\ UNCHANGED <<fields, manager, closed, stopped, seen, num>>

\* Mutant of KeepAliveStatus: the heartbeat is reset whatever the status is.
KeepAliveAlways(a) ==
    /\ At(a, "alive")
    /\ Goto(a, "aliveBeat")
    /\ UNCHANGED <<fields, manager, closed, stopped, locals>>

KeepAliveStatus(a) ==
    /\ At(a, "alive")
    /\ Goto(a, IF status = "Connected" THEN "aliveBeat" ELSE "aliveData")
    /\ UNCHANGED <<fields, manager, closed, stopped, locals>>

KeepAliveBeat(a) ==
    /\ At(a, "aliveBeat")
    /\ heartbeat' = 0
    /\ Goto(a, "aliveData")
    /\ UNCHANGED <<status, conn, stop, data, address, manager, closed, stopped, locals>>

KeepAliveData(a) ==
    /\ At(a, "aliveData")
    /\ Goto(a, IF data THEN "aliveUse" ELSE "handle")
    /\ UNCHANGED <<fields, manager, closed, stopped, locals>>

\* sock.data is loaded again for the call (or kept in a register: either is
\* allowed); a nil loaded now panics and ends the reader.
KeepAliveUse(a) ==
    /\ At(a, "aliveUse")
    /\ \/ Goto(a, "handle")
       \/ ~data /\ Goto(a, "dRead")
    /\ UNCHANGED <<fields, manager, closed, stopped, locals>>

\* The handler or the Message callback ran to its end; the loop goes on.
Handle(a) ==
    /\ At(a, "handle")
    /\ Goto(a, "read")
    /\ UNCHANGED <<fields, manager, closed, stopped, locals>>

-----------------------------------------------------------------------------
(* Socket.writeMsg.                                                        *)

\* The select evaluates sock.stop once and then blocks on that channel.
WriteMsg(a) ==
    /\ At(a, "select")
    /\ ref' = [ref EXCEPT ![a] = stop]
    /\ Goto(a, "wait")
    /\ UNCHANGED <<fields, manager, closed, stopped, seen, num>>

WriteMsgDone(a) ==
    /\ At(a, "wait")
    /\ stopped \/ ref[a] \in closedStop
    /\ ref' = [ref EXCEPT ![a] = 0]
    /\ Goto(a, "dRead")
    /\ UNCHANGED <<fields, manager, closed, stopped, seen, num>>

\* A message is taken from cwrite.
WriteMsgTake(a) ==
    /\ At(a, "wait") /\ a[2] <= BusyConns
    /\ ref' = [ref EXCEPT ![a] = 0]
    /\ Goto(a, "write")
    /\ UNCHANGED <<fields, manager, closed, stopped, seen, num>>

\* writeMsgTrue evaluates sock.conn; a nil conn panics, which is recovered.
WriteMsgTrue(a) ==
    /\ At(a, "write")
    /\ IF conn = 0
       THEN Goto(a, "select") /\ UNCHANGED ref
       ELSE Goto(a, "sending") /\ ref' = [ref EXCEPT ![a] = conn]
    /\ UNCHANGED <<fields, manager, closed, stopped, seen, num>>

\* WriteMessage returns; an error is only reported, the loop goes on.
WriteMsgSent(a) ==
    /\ At(a, "sending")
    /\ ref' = [ref EXCEPT ![a] = 0]
    /\ Goto(a, "select")
    /\ UNCHANGED <<fields, manager, closed, stopped, seen, num>>

-----------------------------------------------------------------------------
(* Sockets.Heartbeat and Socket.Heartbeat.                                 *)

\* The Range finds the socket in the map; sock.heartbeat += v is a load ...
Heartbeat(a) ==
    /\ At(a, "rest")
    /\ inMap
    /\ IsValidStatus(status)
    /\ num' = [num EXCEPT ![a] = heartbeat]
    /\ Goto(a, "hAdd")
    /\ UNCHANGED <<fields, manager, closed, stopped, seen, ref>>

\* ... and a store, which overwrites what came in between.
HeartbeatAdd(a) ==
    /\ At(a, "hAdd")
    /\ heartbeat' = Capped(num[a] + HeartbeatStep)
    /\ num' = [num EXCEPT ![a] = 0]
    /\ Goto(a, "hCmp")
    /\ UNCHANGED <<status, conn, stop, data, address, manager, closed, stopped, seen, ref>>

\* Mutant of HeartbeatCmp: only a closing socket can time out.
HeartbeatCmpClosing(a) ==
    /\ At(a, "hCmp")
    /\ IF SocketConnectTime > 0 /\ heartbeat > SocketConnectTime /\ status = "Closing"
       THEN Goto(a, "dRead")
       ELSE Goto(a, "rest")
    /\ UNCHANGED <<fields, manager, closed, stopped, locals>>

\* The timeout test; otherwise emit Heartbeat, whose panic ends the goroutine.
HeartbeatCmp(a) ==
    /\ At(a, "hCmp")
    /\ IF SocketConnectTime > 0 /\ heartbeat > SocketConnectTime
       THEN Goto(a, "dRead")
       ELSE \/ Goto(a, "rest")
            \/ "Heartbeat" \in CallbackPanics /\ Goto(a, "done")
    /\ UNCHANGED <<fields, manager, closed, stopped, locals>>

\* The daemon's select takes ctx.Done().
DaemonDone(a) ==
    /\ At(a, "rest") /\ stopped
    /\ Goto(a, "done")
    /\ UNCHANGED <<fields, manager, closed, stopped, locals>>

-----------------------------------------------------------------------------
(* Calls of the application: Close, Replaced, Authentication.              *)

\* The application can hold the socket once Create has stored it, and keeps it.
HaveSocket == pc[Creator(1)] # "store"

Calling(a) ==
    /\ At(a, "idle") /\ HaveSocket
    /\ stop <= BusyConns
    /\ \A c \in Creators : pc[c] \in {"setConn", "setStop"} => c[2] <= BusyConns

Close(a) ==
    /\ Calling(a) /\ "Close" \in UserOps
    /\ \E d \in CloseDelays : num' = [num EXCEPT ![a] = d]
    /\ Goto(a, "uCas")
    /\ UNCHANGED <<fields, manager, closed, stopped, seen, ref>>

Replaced(a) ==
    /\ Calling(a) /\ "Replaced" \in UserOps
    /\ data' = FALSE
    /\ num' = [num EXCEPT ![a] = SocketReplacedTime]
    /\ Goto(a, "uCas")
    /\ UNCHANGED <<status, conn, stop, heartbeat, address, manager, closed, stopped, seen, ref>>

Authentication(a) ==
    /\ Calling(a) /\ "Authentication" \in UserOps
    /\ data' = TRUE
    /\ Goto(a, "done")
    /\ UNCHANGED <<status, conn, stop, heartbeat, address, manager, closed, stopped, locals>>

CloseCas(a) ==
    /\ At(a, "uCas")
    /\ IF status = "Connected"
       THEN status' = "Closing" /\ Goto(a, "uBeat") /\ UNCHANGED num
       ELSE Goto(a, "done") /\ num' = [num EXCEPT ![a] = 0] /\ UNCHANGED status
    /\ UNCHANGED <<conn, stop, heartbeat, data, address, manager, closed, stopped, seen, ref>>

CloseBeat(a) ==
    /\ At(a, "uBeat")
    /\ heartbeat' = SocketConnectTime
    /\ Goto(a, IF num[a] = 0 THEN "done" ELSE "uDelay")
    /\ UNCHANGED <<status, conn, stop, data, address, manager, closed, stopped, locals>>

\* sock.heartbeat -= delay: the value loaded is the current one, or the one that
\* Close has just stored (kept in a register, or a race lost to a heartbeat).
CloseDelay(a) ==
    /\ At(a, "uDelay")
    /\ \E h \in {heartbeat, SocketConnectTime} : heartbeat' = h - num[a]
    /\ num' = [num EXCEPT ![a] = 0]
    /\ Goto(a, "done")
    /\ UNCHANGED <<status, conn, stop, data, address, manager, closed, stopped, seen, ref>>

-----------------------------------------------------------------------------
\* scc cancels its context: Stopped() is true and ctx.Done() is closed.
Shutdown ==
    /\ MayStop /\ ~stopped
    /\ stopped' = TRUE
    /\ UNCHANGED <<fields, manager, closed, pc, locals>>

CreatorStep(g) == \/ Create(g) \/ ConnectConn(g) \/ ConnectStop(g) \/ ConnectStatus(g)
                  \/ ConnectStart(g) \/ ConnectAddress(g) \/ TryConnect(g)
DisconnectStep(a) == \/ DisconnectRead(a) \/ DisconnectCas(a) \/ DisconnectStop(a)
                     \/ DisconnectConn(a) \/ DisconnectEmit(a)
ReaderStep(a) == \/ ReadMsg(a) \/ ReadMsgTrue(a) \/ ReadMsgError(a) \/ KeepAliveStatus(a)
                 \/ KeepAliveBeat(a) \/ KeepAliveData(a) \/ KeepAliveUse(a) \/ Handle(a)
WriterStep(a) == \/ WriteMsg(a) \/ WriteMsgDone(a) \/ WriteMsgTake(a)
                 \/ WriteMsgTrue(a) \/ WriteMsgSent(a)
HeartStep(a) == Heartbeat(a) \/ HeartbeatAdd(a) \/ HeartbeatCmp(a) \/ DaemonDone(a)
AppStep(a) == \/ Close(a) \/ Replaced(a) \/ Authentication(a)
              \/ CloseCas(a) \/ CloseBeat(a) \/ CloseDelay(a)

Next ==
    \/ \E g \in 1..MaxConns + 1 : CreatorStep(g)
    \/ \E a \in Workers \cup Hearts : DisconnectStep(a)
    \/ \E a \in Agents : Release(a) \/ Drained(a)
    \/ \E a \in Readers : ReaderStep(a)
    \/ \E a \in Writers : WriterStep(a)
    \/ \E a \in Hearts : HeartStep(a)
    \/ \E a \in Apps : AppStep(a)
    \/ Shutdown

Spec == Init /\ [][Next]_vars

-----------------------------------------------------------------------------
(* Fairness.  A goroutine that can run does run.  Nothing is assumed of the *)
(* peer: it may never send, never read, and never close; only a connection  *)
(* closed on this side forces ReadMessage and WriteMessage to return.  Nor  *)
(* of the server a client dials: tryConnect returns for certain only when   *)
(* its attempts are limited or cancelled.                                   *)

CreatorRuns(g) == \/ Create(g) \/ ConnectConn(g) \/ ConnectStop(g) \/ ConnectStatus(g)
                  \/ ConnectStart(g) \/ ConnectAddress(g)
                  \/ GivesUp /\ TryConnect(g)
ReaderRuns(a) == \/ ReadMsg(a) \/ KeepAliveStatus(a) \/ KeepAliveBeat(a)
                 \/ KeepAliveData(a) \/ KeepAliveUse(a) \/ Handle(a)
                 \/ ref[a] \in closedConn /\ ReadMsgError(a)
WriterRuns(a) == \/ WriteMsg(a) \/ WriteMsgDone(a) \/ WriteMsgTrue(a)
                 \/ ref[a] \in closedConn /\ WriteMsgSent(a)
AppRuns(a) == CloseCas(a) \/ CloseBeat(a) \/ CloseDelay(a)

Fairness ==
    /\ \A g \in 1..MaxConns + 1 : WF_vars(CreatorRuns(g))
    /\ \A a \in Workers \cup Hearts : WF_vars(DisconnectStep(a))
    /\ \A a \in Agents : WF_vars(Release(a) \/ Drained(a))
    /\ \A a \in Readers : WF_vars(ReaderRuns(a))
    /\ \A a \in Writers : WF_vars(WriterRuns(a))
    /\ \A a \in Hearts : WF_vars(HeartStep(a))
    /\ \A a \in Apps : WF_vars(AppRuns(a))

FairSpec == Spec /\ Fairness

-----------------------------------------------------------------------------
(* Properties.                                                             *)

\* Every variable holds a value of its type, and goroutines are only at steps
\* of their own code.
TypeOK ==
    /\ status \in Status
    /\ conn \in 0..MaxConns /\ stop \in 0..MaxConns
    /\ heartbeat \in Int
    /\ data \in BOOLEAN /\ address \in BOOLEAN /\ inMap \in BOOLEAN /\ stopped \in BOOLEAN
    /\ count \in Int
    /\ closedStop \subseteq Conn /\ closedConn \subseteq Conn
    /\ pc \in [Agents -> Steps]
    /\ seen \in [Agents -> Status]
    /\ ref \in [Agents -> 0..MaxConns]
    /\ num \in [Agents -> Int]
    /\ \A a \in Creators : pc[a] \in CreatorSteps \cup {"release", "drain", "new", "done"}
    /\ \A a \in Agents \ Creators : pc[a] \notin CreatorSteps

\* The stop channel in the socket is open: the current connection has not
\* been torn down.
Open == stop # 0 /\ stop \notin closedStop

\* The steps at which a goroutine is in charge of the socket: it dials and
\* installs a connection, or it closed the stop channel and tears down.
Dialling == {"store", "dial", "setConn", "setStop"}
Teardown == {"dConn", "dEmit", "release"}
Owners == {a \in Agents : pc[a] \in Dialling \cup Teardown}

\* What Sockets.count says about this socket agrees with the map: release() of
\* socket.go runs exactly once however many workers, heartbeats and reconnects
\* race into disconnect().
CountMatchesMap == count = IF inMap THEN 1 ELSE 0

\* At most one goroutine at a time is between winning a connection (closing its
\* stop channel, or dialling the next one) and giving it up, none while the
\* connection is open, and none once the socket left the map.
OneOwner ==
    /\ \A a, b \in Owners : a = b
    /\ Open => Owners = {}
    /\ ~inMap => ~Open /\ \A a \in Owners : pc[a] = "store"

\* No connection is dropped without Close(): when connect() installs the next
\* one, or when the socket is gone, every earlier connection was closed.
ConnsClosed ==
    /\ \A g \in Conn : (g < stop \/ g < conn) => g \in closedConn
    /\ (~inMap /\ stop # 0) => conn = 0 /\ stop \in closedConn

\* How connections are numbered: a dialling goroutine works on the connection
\* after the current one, goroutines not yet started have larger numbers.
Numbered ==
    /\ \A g \in 1..MaxConns + 1 :
         /\ pc[Creator(g)] = "new" => stop < g
         /\ pc[Creator(g)] \in Dialling => g = stop + 1
         /\ pc[Creator(g)] = "store" => ~inMap /\ stop = 0
         /\ pc[Creator(g)] \in {"setConn", "setStop"} => g \in Conn
         /\ pc[Creator(g)] = "dial" => stop # 0
    /\ \A a \in Agents : pc[a] \in Teardown => stop # 0
    /\ closedStop \subseteq 1..stop

\* Which connection the field conn holds at each point of the life cycle.
ConnTracksStop ==
    /\ \A g \in Conn : g < stop => g \in closedConn
    /\ Open \/ (\E a \in Agents : pc[a] = "dConn") => conn = stop
    /\ \A g \in 1..MaxConns + 1 :
         pc[Creator(g)] = "setStop" => conn = g /\ (stop # 0 => stop \in closedConn)
    /\ ~Open /\ (\A a \in Agents : pc[a] \notin {"dConn", "setStop"})
         => conn = 0 /\ (stop # 0 => stop \in closedConn)

\* The workers of a connection start after its stop channel was installed.
Fresh ==
    /\ \A g \in 1..MaxConns + 1 : pc[Creator(g)] \in {"setStatus", "start"} => g \in 1..stop
    /\ \A g \in Conn : stop < g \/ pc[Creator(g)] \in {"setStatus", "start"}
                        => pc[Reader(g)] = "new" /\ pc[Writer(g)] = "new"

\* The inductive invariant behind CountMatchesMap, OneOwner, ConnsClosed and the
\* refinement of ConnToken: it describes socket.go at every step of connect(),
\* disconnect() and release().
IInv == TypeOK /\ CountMatchesMap /\ OneOwner /\ Numbered /\ ConnTracksStop /\ Fresh

\* The refinement: the phase of ConnToken is read off the stop channel and the
\* goroutine that owns the socket.
Phase ==
    IF Open THEN "up"
    ELSE IF \E a \in Owners : a \in Creators THEN "dial"
    ELSE IF Owners # {} THEN "down"
    ELSE IF inMap THEN "lost" ELSE "gone"

Token == INSTANCE ConnToken
           WITH phase <- Phase, conns <- stop, MayLose <- "Disconnect" \in CallbackPanics

\* Every behaviour of the socket is a behaviour of ConnToken: one teardown per
\* connection, then one redial or one release, and nothing after a release.
TokenSpec == Token!TokenSpec

\* A call of Close() (or Replaced()) is carried out: the heartbeat disconnects
\* a closing socket even if KeepAlive keeps resetting the counter around it.
CloseDisconnects == (inMap /\ status = "Closing") ~> (~inMap \/ status # "Closing")

\* A socket whose reader is gone does not stay connected: the reader's own
\* disconnect, or the heartbeat if the reader lost its CAS to Close() or never
\* started, ends it.
Orphan == /\ inMap /\ status = "Connected"
          /\ \A a \in Readers : pc[a] \in {"new", "done"}
OrphanDropped == Orphan ~> ~Orphan

\* A connection that was torn down is replaced, or the socket is released: no
\* interleaving leaves the socket in the map with nobody in charge of it.  Only a
\* redial without limit (ClientReconnectMax = 0) may go on until the process stops.
Redialling == ClientReconnectMax = 0 /\ ~stopped /\ \E a \in Creators : pc[a] = "dial"
TeardownEnds == (inMap /\ stop # 0 /\ ~Open) ~> (Open \/ ~inMap \/ Redialling)

-----------------------------------------------------------------------------
(* What comments and README say of the socket and the code does not do.    *)

\* Close() (comment of Close, socket.go): after it there is no reconnect.
CloseIsFinal == [](status = "Closing" => [](status # "Reconnecting"))

\* A client whose connection breaks goes on to Reconnecting (README, life cycle);
\* only a server socket becomes Disconnected.
ClientReconnects == Client => status # "Disconnected"

\* A released socket never comes back to life (comment of SocketStatusReleased).
ReleasedIsFinal == [][status = "Released" => status' = "Released"]_status

\* Each socket has one write goroutine of its own (README, features): no two of
\* them write to the same connection.
OneWriter ==
    \A a, b \in Writers : /\ pc[a] = "sending" /\ pc[b] = "sending"
                          /\ ref[a] = ref[b]
                          => a = b

\* Connected becomes Disconnect by an error of that connection's readMsg or
\* writeMsg (README, life cycle): a worker never tears down another connection.
WorkersCloseOwn ==
    [][\A g \in Conn : \A a \in {Reader(g), Writer(g)} :
          pc[a] = "dStop" /\ pc'[a] = "dConn" => stop = g]_vars

\* A disconnected socket is destroyed by itself (comment of
\* SocketStatusDisconnected): a teardown is never abandoned.
NothingLost == Phase # "lost"
=============================================================================
