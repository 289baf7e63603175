------------------------------ MODULE Exchange ------------------------------
(***************************************************************************)
(* Requests and their confirmations over one connection (handler.go, and   *)
(* handle in socket.go): the reader takes a message off the wire, runs the *)
(* handler and queues the reply itself, the writer empties the queue onto  *)
(* the wire, and the heartbeat ends a connection whose reader is silent.   *)
(*                                                                         *)
(* Over "tcp" both ends run this code.  Over "socketio" the server does,   *)
(* with the transform of module SocketIO (wss/conn.go), and the client is  *)
(* a foreign program that sends the packets the Build functions make and   *)
(* answers nothing.  Handlers return the data they were called with.       *)
(***************************************************************************)
EXTENDS SocketIO

CONSTANTS
    Kinds,       \* the transports, "tcp" and "socketio"
    Requests,    \* what applications send over each transport: name, body and flags
    Routes,      \* paths with a handler
    Panics,      \* those whose handler panics, or whose reply cannot be serialized
    S2CConfirm,  \* message.Options.S2CConfirm, <<>> if it is not set
    ChanSize,    \* Options.WriteChanSize
    WireSize,    \* bound: messages a connection holds before its writer blocks
    MaxAsked     \* bound: messages the application of each end sends over each transport

Flags == {"confirm", "noreply", "heartbeat"}
ASSUME ExchangeAssumption ==
    /\ Kinds \subseteq {"tcp", "socketio"}
    /\ Panics \subseteq Routes /\ S2CConfirm \in Seq(Tokens)
    /\ ChanSize \in Nat \ {0} /\ WireSize \in Nat \ {0}
    /\ MaxAsked \in [Kinds -> [{"client", "server"} -> 0..Int32Max]]
    /\ Requests \in [Kinds -> SUBSET [name : Words, body : Seq(Tokens), flag : SUBSET Flags]]

VARIABLES
    kind,     \* the transport
    up,       \* ends whose socket is connected
    wire,     \* what each end has still to read
    cwrite,   \* Socket.cwrite of each end
    reader,   \* the reply the reader of each end has to queue, if any
    asked,    \* the requests each application sent
    answers   \* the confirmations each end read

vars == <<kind, up, wire, cwrite, reader, asked, answers>>

Ends == {"client", "server"}
Other(e) == IF e = "client" THEN "server" ELSE "client"

\* The ends that run this code.
Code == IF kind = "tcp" THEN Ends ELSE {"server"}
Alive(e) == e \in Code /\ e \in up

Init ==
    /\ kind \in Kinds
    /\ up = Ends
    /\ wire = [e \in Ends |-> <<>>] /\ cwrite = [e \in Ends |-> <<>>]
    /\ reader = [e \in Ends |-> <<>>]
    /\ asked = [e \in Ends |-> <<>>] /\ answers = [e \in Ends |-> <<>>]

Put(q, e, s) == [q EXCEPT ![e] = @ \o s]
Room(q, size) == Len(q) < size

\* disconnect(): what was not read or not written is lost.
Disconnect(e) ==
    /\ up' = up \ {e}
    /\ wire' = [wire EXCEPT ![e] = <<>>]
    /\ cwrite' = [cwrite EXCEPT ![e] = <<>>]

-----------------------------------------------------------------------------
(* Handlers.                                                               *)

\* message.Confirm: the path of a confirmation.
Confirm(m) == IF S2CConfirm # <<>> THEN S2CConfirm ELSE Path(m)

\* Mutant of Answerable: a confirmation is confirmed.
AnswerableConfirm(m) == "noreply" \notin m.flag

\* A confirmation is never confirmed, nor is a message that wants no reply.
Answerable(m) == m.flag \cap {"confirm", "noreply"} = {}

\* Mutant of Reply: the reply has the flags of the request only.
ReplyUnflagged(m) == Msg(m.flag \cap {"heartbeat"}, m.index, Confirm(m), m.body)

Reply(m) == Msg({"confirm"} \cup (m.flag \cap {"heartbeat"}), m.index, Confirm(m), m.body)

\* Mutant of Handle: the reply is sent as bytes and once more by the default case.
HandleTwice(m) ==
    IF /\ m.magic # "none"
       /\ PathOk(m)
       /\ Path(m) \in Routes \ Panics
       /\ Answerable(m)
    THEN <<Reply(m), Reply(m)>> ELSE <<>>

\* readMsgTrue and handle: a message without magic number is dropped, one without
\* handler goes to the Message event, a panic or an error only to the Error event.
Handle(m) ==
    IF /\ m.magic # "none"
       /\ PathOk(m)
       /\ Path(m) \in Routes \ Panics
       /\ Answerable(m)
    THEN <<Reply(m)>> ELSE <<>>

Arrived(e) == IF kind = "tcp" THEN Filled(Head(wire[e])) ELSE ReadPacket(Head(wire[e]))
Confirms(m) == m.magic # "none" /\ "confirm" \in m.flag
Confirmation(m) == IF Confirms(m) THEN <<m>> ELSE <<>>

\* readMsg of a message or packet; the CONNECT reply is written by the reader itself.
Read(e) ==
    /\ Alive(e) /\ reader[e] = <<>> /\ wire[e] # <<>>
    /\ \E r \in {Arrived(e)} :
           /\ r.err = "none"
           /\ r.send # <<>> => Room(wire[Other(e)], WireSize)
           /\ wire' = [Put(wire, Other(e), IF Other(e) \in up THEN r.send ELSE <<>>)
                         EXCEPT ![e] = Tail(@)]
           /\ reader' = [reader EXCEPT ![e] = Handle(r.msg)]
           /\ answers' = Put(answers, e, Confirmation(r.msg))
    /\ UNCHANGED <<kind, up, cwrite, asked>>

\* A packet that cannot be read ends the connection.
ReadError(e) ==
    /\ Alive(e) /\ reader[e] = <<>> /\ wire[e] # <<>>
    /\ Arrived(e).err # "none"
    /\ Disconnect(e)
    /\ UNCHANGED <<kind, reader, asked, answers>>

\* So does the end of the connection.
ReadEof(e) ==
    /\ Alive(e) /\ reader[e] = <<>> /\ wire[e] = <<>>
    /\ Other(e) \notin up
    /\ Disconnect(e)
    /\ UNCHANGED <<kind, reader, asked, answers>>

\* The reader queues the reply, as soon as there is room ...  (Write drops it when the
\* application has called Close: no application does here, see module SocketSend.)
ReplySend(e) ==
    /\ Alive(e) /\ reader[e] # <<>> /\ Room(cwrite[e], ChanSize)
    /\ cwrite' = Put(cwrite, e, reader[e])
    /\ reader' = [reader EXCEPT ![e] = <<>>]
    /\ UNCHANGED <<kind, up, wire, asked, answers>>

\* ... or gives up when the socket was closed.
ReplyStopped(e) ==
    /\ e \notin up /\ reader[e] # <<>>
    /\ reader' = [reader EXCEPT ![e] = <<>>]
    /\ UNCHANGED <<kind, up, wire, cwrite, asked, answers>>

-----------------------------------------------------------------------------
(* The writer, the heartbeat and the application.                          *)

\* WriteMessage: a message whose path is illegal is not written; towards an end that
\* is gone the write fails, and the message with it.
Written(m) ==
    IF kind = "tcp" THEN <<m>> ELSE IF PathOk(m) THEN <<WritePacket(m)>> ELSE <<>>
Write(e) ==
    /\ Alive(e) /\ cwrite[e] # <<>>
    /\ Other(e) \in up => Room(wire[Other(e)], WireSize)
    /\ cwrite' = [cwrite EXCEPT ![e] = Tail(@)]
    /\ wire' = IF Other(e) \in up THEN Put(wire, Other(e), Written(Head(cwrite[e]))) ELSE wire
    /\ UNCHANGED <<kind, up, reader, asked, answers>>

\* The reader waits for room, for its reply or for the reply to CONNECT.
Blocked(e) ==
    /\ Alive(e)
    /\ \/ reader[e] # <<>>
       \/ /\ wire[e] # <<>> /\ ~Room(wire[Other(e)], WireSize)
          /\ Arrived(e).send # <<>>

\* Mutant of Timeout: the heartbeat leaves a reader alone that is in a handler.
TimeoutIdle(e) ==
    /\ Alive(e) /\ reader[e] = <<>> /\ wire[e] = <<>>
    /\ Disconnect(e)
    /\ UNCHANGED <<kind, reader, asked, answers>>

\* The heartbeat counts up to SocketConnectTime while the reader reads nothing.
Timeout(e) ==
    /\ Blocked(e) \/ (Alive(e) /\ wire[e] = <<>>)
    /\ Disconnect(e)
    /\ UNCHANGED <<kind, reader, asked, answers>>

\* Socket.Send of the application.
Send(e, q) ==
    LET m == Msg(q.flag, Len(asked[e]) + 1, <<"/", q.name>>, q.body)
    IN  /\ Alive(e) /\ Room(asked[e], MaxAsked[kind][e]) /\ Room(cwrite[e], ChanSize)
        /\ cwrite' = Put(cwrite, e, <<m>>)
        /\ asked' = Put(asked, e, <<m>>)
        /\ UNCHANGED <<kind, up, wire, reader, answers>>

-----------------------------------------------------------------------------
(* The foreign Socket.IO client.                                           *)

\* The client sends the packet p, the request m or one that wants no answer.
ClientSend(p, m) ==
    /\ kind = "socketio" /\ Ends \subseteq up
    /\ Room(asked["client"], MaxAsked[kind]["client"]) /\ Room(wire["server"], WireSize)
    /\ wire' = Put(wire, "server", <<p>>)
    /\ asked' = Put(asked, "client", <<m>>)
    /\ UNCHANGED <<kind, up, cwrite, reader, answers>>

Silent == Msg({"noreply"}, 0, <<>>, <<>>)

\* An event asks for an answer by its ack id.
ClientEvent(q) ==
    LET ackId == IF q.flag = {} THEN Len(asked["client"]) + 1 ELSE 0
    IN  ClientSend(BuildEventPacket(q.name, q.body, ackId),
                   Msg(q.flag, ackId, <<"/", q.name>>, q.body))
ClientBinaryEvent(q) == ClientSend(BuildBinaryEventPacket(1, q.name, q.body, 0), Silent)
ClientAck(q) == ClientSend(BuildAckPacket(1, q.body), Silent)
ClientConnect == ClientSend(BuildConnectPacket(Namespace), Silent)
ClientDisconnect == ClientSend(BuildDisconnectPacket(Namespace), Silent)
ClientOther == ClientSend(Packet("4", <<>>), Silent)

\* The client takes the packet "3/id,data" for a confirmation.
Answer(p) ==
    IF p.type # "3" THEN Unfilled
    ELSE Msg({"confirm"}, Value(p.data[2]), <<>>, SubSeq(p.data, 4, Len(p.data)))
ClientRead ==
    /\ kind = "socketio" /\ "client" \in up /\ wire["client"] # <<>>
    /\ wire' = [wire EXCEPT !["client"] = Tail(@)]
    /\ answers' = Put(answers, "client", Confirmation(Answer(Head(wire["client"]))))
    /\ UNCHANGED <<kind, up, cwrite, reader, asked>>

ClientLeave ==
    /\ kind = "socketio" /\ "client" \in up
    /\ up' = up \ {"client"}
    /\ wire' = [wire EXCEPT !["client"] = <<>>]
    /\ UNCHANGED <<kind, cwrite, reader, asked, answers>>

-----------------------------------------------------------------------------
Client ==
    \/ \E q \in Requests["socketio"] : ClientEvent(q) \/ ClientBinaryEvent(q) \/ ClientAck(q)
    \/ ClientConnect \/ ClientDisconnect \/ ClientOther
    \/ ClientRead \/ ClientLeave

Next ==
    \/ \E e \in Ends : \/ Read(e) \/ ReadError(e) \/ ReadEof(e)
                       \/ ReplySend(e) \/ ReplyStopped(e)
                       \/ Write(e) \/ Timeout(e)
                       \/ \E q \in Requests[kind] : Send(e, q)
    \/ Client

\* Goroutines that can run do, the daemon ticks for a reader that is blocked, and a
\* foreign client reads what it gets; applications and peers owe nothing else.
Fairness ==
    /\ \A e \in Ends : /\ WF_vars(Read(e) \/ ReadError(e) \/ ReadEof(e))
                       /\ WF_vars(ReplySend(e) \/ ReplyStopped(e))
                       /\ WF_vars(Write(e))
                       /\ WF_vars(Blocked(e) /\ Timeout(e))
    /\ WF_vars(ClientRead)

Spec == Init /\ [][Next]_vars /\ Fairness

-----------------------------------------------------------------------------
(* The inductive invariant.                                                *)

Messages == [magic : {"json"}, flag : SUBSET Flags, index : Int, path : Seq(Tokens),
             body : Seq(Tokens)]
Packets == [type : {"0", "1", "2", "3", "4", "5"}, data : Seq(Tokens)]

\* The variables have their types, and no queue exceeds its capacity.
TypeOK ==
    /\ kind \in Kinds /\ up \subseteq Ends
    /\ wire \in [Ends -> Seq(IF kind = "tcp" THEN Messages ELSE Packets)]
    /\ cwrite \in [Ends -> Seq(Messages)] /\ reader \in [Ends -> Seq(Messages)]
    /\ asked \in [Ends -> Seq(Messages)] /\ answers \in [Ends -> Seq(Messages)]
    /\ \A e \in Ends : /\ Len(cwrite[e]) <= ChanSize /\ Len(wire[e]) <= WireSize
                       /\ Len(reader[e]) <= 1 /\ Len(asked[e]) <= MaxAsked[kind][e]

\* What the end e makes of the things on its wire.
Meaning(k, e, x) == IF k = "tcp" THEN x ELSE IF e = "server" THEN ReadPacket(x).msg ELSE Answer(x)
Seen(k, e, q) == [i \in 1..Len(q) |-> Meaning(k, e, q[i])]

\* The request that a message is, or that it confirms; 0 for none.
Asks(m) == m.magic # "none" /\ Answerable(m)
Asking(q) == [i \in 1..Len(q) |-> IF Asks(q[i]) THEN q[i].index ELSE 0]
Confirming(q) == [i \in 1..Len(q) |-> IF Confirms(q[i]) THEN q[i].index ELSE 0]

\* The requests of e in the order they were sent: those answered, those whose confirmation
\* is on its way back, in the queue or with the reader, and those on their way out.
Line(e) ==
    Confirming(answers[e]) \o Confirming(Seen(kind, e, wire[e]))
        \o Confirming(cwrite[Other(e)]) \o Confirming(reader[Other(e)])
        \o Asking(Seen(kind, Other(e), wire[Other(e)])) \o Asking(cwrite[e])
Rising(s) == \A i, j \in 1..Len(s) : i < j /\ s[i] > 0 /\ s[j] > 0 => s[i] < s[j]
InLine ==
    \A e \in Ends : Rising(Line(e)) /\ \A i \in 1..Len(Line(e)) : Line(e)[i] <= Len(asked[e])

\* m belongs to a request of e that wants an answer, and carries its data.
Belongs(e, m) ==
    /\ m.index \in 1..Len(asked[e])
    /\ LET r == asked[e][m.index]
       IN  /\ Answerable(r) /\ r.index = m.index /\ r.body = m.body
           /\ kind = "tcp" => m.path = IF Confirms(m) THEN Confirm(r) ELSE r.path

\* Every confirmation and every request on its way does; readers hold nothing else.
Linked ==
    \A e \in Ends :
        /\ \A m \in UNION {ToSet(answers[e]), ToSet(Seen(kind, e, wire[e])),
                            ToSet(cwrite[Other(e)]), ToSet(reader[Other(e)])} :
               Confirms(m) => Belongs(e, m)
        /\ \A m \in ToSet(Seen(kind, e, wire[e])) \cup ToSet(cwrite[Other(e)]) :
               Asks(m) => Belongs(Other(e), m)
        /\ \A m \in ToSet(answers[e]) \cup ToSet(reader[e]) : Confirms(m)

\* The foreign client has neither queue nor reader.
Foreign == kind = "socketio" => cwrite["client"] = <<>> /\ reader["client"] = <<>>

IInv == TypeOK /\ InLine /\ Linked /\ Foreign

\* An application sends requests: confirmations are for handlers.  A foreign client asks
\* for answers by an ack id alone: other events have data that reads as no ack id.
PlainRequests ==
    \A k \in Kinds : \A q \in Requests[k] :
        /\ "confirm" \notin q.flag
        /\ k = "socketio" /\ q.flag # {} => ~Acknowledged(q.body)

-----------------------------------------------------------------------------
(* Properties.                                                             *)

\* Every confirmation that arrives names a request that wanted one, and carries the
\* answer to the data of that request: nothing is mixed up between parsing, handler,
\* queue and formatting, and no confirmation answers a confirmation.
AnswersMatch ==
    \A e \in Ends : \A a \in ToSet(answers[e]) : \E r \in ToSet(asked[e]) :
        /\ Answerable(r)
        /\ a.index = r.index /\ a.body = r.body
        /\ kind = "tcp" => a.path = Confirm(r)

\* Confirmations arrive in the order of their requests, each once.
AnswersInOrder ==
    \A e \in Ends : \A j, k \in 1..Len(answers[e]) :
        j < k => answers[e][j].index < answers[e][k].index

\* Every request whose handler returns is confirmed, or the connection ends.
Wanted(e, r) ==
    /\ kind = "tcp" \/ e = "client"
    /\ Answerable(r) /\ Path(r) \in Routes \ Panics
Answered ==
    <>[](up = Ends => \A e \in Ends : \A r \in ToSet(asked[e]) :
           Wanted(e, r) => \E a \in ToSet(answers[e]) : a.index = r.index)

\* Two ends whose readers wait for each other, each with its queue full and nobody to
\* empty the wire, are freed by the heartbeat.
Unblocks == \A e \in Ends : []<>(reader[e] = <<>> /\ ~Blocked(e))

-----------------------------------------------------------------------------
(* What the comments of the transform say and the code does not do.        *)

\* The packets of the documented formats, which the Build functions make and the tests
\* check, are read; only DISCONNECT ends the connection.
DocumentedIsRead ==
    kind = "socketio" /\ wire["server"] # <<>>
      => Head(wire["server"]).type = "1" \/ Arrived("server").err = "none"
=============================================================================
