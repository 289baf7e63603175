------------------------------ MODULE SocketIO ------------------------------
(***************************************************************************)
(* The Socket.IO transform of WebSocket connections (wss/socket.io.go):    *)
(* what a packet is read as, what a message is written as, and the packets *)
(* that the Build functions make.                                          *)
(*                                                                         *)
(* A packet is its type digit and the sequence of its tokens: the marks    *)
(* "/" "," "-" "?", numbers, and words.  Two numbers or words never stand  *)
(* next to each other.  Integers keep their width: int32 and int64 are     *)
(* scaled down to the constants.                                           *)
(***************************************************************************)
EXTENDS Integers, Sequences, SequencesExt

CONSTANTS
    Int32Max,    \* the largest int32
    Int64Max,    \* the largest int64
    Numerals,    \* the decimal notation of 0, 1, ...: a bound on numbers in packets
    Words,       \* names and the other parts of paths and data
    Namespace    \* SocketIO.Namespace, as tokens

\* The characters the transform searches for, and all tokens.
Marks == {"/", ",", "-", "?"}
Tokens == Words \cup Marks \cup ToSet(Numerals) \cup {"{sid}"}
ASSUME SocketIOAssumption ==
    /\ Int32Max \in Nat /\ Int64Max \in Nat /\ Int32Max < Int64Max
    /\ Int64Max + 1 < Len(Numerals)
    /\ Numerals \in Seq(ToSet(Numerals)) /\ (Words \cup ToSet(Numerals)) \cap Marks = {}
    /\ \A i, j \in 1..Len(Numerals) : Numerals[i] = Numerals[j] => i = j
    /\ Namespace \in Seq(Tokens)

\* Decimal numbers: strconv.ParseInt gives 0 for what is not one and the largest
\* value for one that is too large, both with an error.
IsDecimal(s) == Len(s) = 1 /\ s[1] \in ToSet(Numerals)
Value(w) == CHOOSE n \in 0..(Len(Numerals) - 1) : Numerals[n + 1] = w
ParseInt(s) ==
    IF ~IsDecimal(s) THEN [ok |-> FALSE, n |-> 0]
    ELSE IF Value(s[1]) > Int64Max THEN [ok |-> FALSE, n |-> Int64Max]
    ELSE [ok |-> TRUE, n |-> Value(s[1])]
ToInt32(n) == ((n + Int32Max + 1) % (2 * (Int32Max + 1))) - (Int32Max + 1)
Decimal(n) == IF n < 0 THEN <<"-", Numerals[1 - n]>> ELSE <<Numerals[n + 1]>>

\* The first mark c, and what stands before and after it.
IndexByte(s, c) == SelectInSeq(s, LAMBDA t : t = c)
Has(s, c) == IndexByte(s, c) > 0
Before(s, c) == SubSeq(s, 1, IndexByte(s, c) - 1)
After(s, c) == SubSeq(s, IndexByte(s, c) + 1, Len(s))

Packet(type, data) == [type |-> type, data |-> data]

\* A message as its handler sees it; one that nobody filled has no magic number.
Msg(flag, index, path, body) ==
    [magic |-> "json", flag |-> flag, index |-> index, path |-> path, body |-> body]
Unfilled == [magic |-> "none"]

\* message.Path: the path without its query; an empty path is illegal.
PathOk(m) == m.path # <<>>
Path(m) == IF Has(m.path, "?") THEN Before(m.path, "?") ELSE m.path

-----------------------------------------------------------------------------
(* Reading: the error, what the transform sends itself, and the message.   *)

Error(e) == [err |-> e, send |-> <<>>, msg |-> Unfilled]
Filled(m) == [err |-> "none", send |-> <<>>, msg |-> m]

\* The reply to CONNECT names the namespace of the request, or the default one.
ConnectNamespace(data) ==
    LET ns == SubSeq(data, IndexByte(data, "/"), Len(data))
    IN  IF ~Has(data, "/") THEN Namespace ELSE IF Has(ns, ",") THEN Before(ns, ",") ELSE ns
HandleConnect(data) ==
    [err |-> "none", msg |-> Unfilled,
     send |-> <<Packet("0", ConnectNamespace(data) \o <<",", "{sid}">>)>>]

\* The data of an event starts with an ack id if it starts with a digit and has a comma.
Acknowledged(s) == s # <<>> /\ s[1] \in ToSet(Numerals) /\ Has(s, ",")

EventData(rest, ack) == IF ack.ok THEN After(rest, ",") ELSE rest

\* Name and data of EVENT and BINARY_EVENT.  An ack id out of range is not cut off
\* the data, but the largest int64 stays behind as the id.
ReadEvent(data) ==
    IF ~Has(data, ",") THEN Error("missing comma")
    ELSE LET rest == After(data, ",")
             ack == IF Acknowledged(rest)
                    THEN ParseInt(Before(rest, ",")) ELSE [ok |-> FALSE, n |-> 0]
         IN  Filled(Msg(IF ack.n = 0 THEN {"noreply"} ELSE {}, ToInt32(ack.n),
                        Before(data, ","), EventData(rest, ack)))

\* DISCONNECT ends the reader, and with it the socket.
HandleDisconnect == Error("closed")

\* The number must stand before the first slash; the id is not used.
HandleAck(data) ==
    IF ~Has(data, "/") \/ ~ParseInt(Before(data, "/")).ok
    THEN Error("invalid ack") ELSE Filled(Unfilled)

\* The number of attachments must stand before the first dash.
HandleBinaryEvent(data) ==
    IF ~Has(data, "-") \/ ~ParseInt(Before(data, "-")).ok
    THEN Error("invalid binary event") ELSE ReadEvent(After(data, "-"))

ReadPacket(p) ==
    CASE p.type = "0" -> HandleConnect(p.data)
      [] p.type = "1" -> HandleDisconnect
      [] p.type = "2" -> ReadEvent(p.data)
      [] p.type = "3" -> HandleAck(p.data)
      [] p.type = "5" -> HandleBinaryEvent(p.data)
      [] OTHER -> Filled(Unfilled)

-----------------------------------------------------------------------------
(* Writing.                                                                *)

\* Mutant of WritePacket: a confirmation is an EVENT like any other.
WritePacketEvent(m) == Packet("2", <<"/">> \o Path(m) \o <<",">> \o m.body)

\* WriteMessage: a confirmation is an ACK, anything else an EVENT without its index.
WritePacket(m) ==
    IF "confirm" \in m.flag THEN Packet("3", <<"/">> \o Decimal(m.index) \o <<",">> \o m.body)
    ELSE Packet("2", <<"/">> \o Path(m) \o <<",">> \o m.body)

WithAck(ackId, data) == IF ackId > 0 THEN Decimal(ackId) \o <<",">> \o data ELSE data
BuildConnectPacket(ns) == Packet("0", <<"/">> \o ns)
BuildDisconnectPacket(ns) == Packet("1", <<"/">> \o ns)
BuildEventPacket(name, data, ackId) ==
    Packet("2", <<"/", name, ",">> \o WithAck(ackId, data))
BuildAckPacket(ackId, data) == Packet("3", <<"/">> \o Decimal(ackId) \o <<",">> \o data)
BuildBinaryEventPacket(attachments, name, data, ackId) ==
    Packet("5", <<"-">> \o Decimal(attachments) \o <<"/", name, ",">> \o WithAck(ackId, data))
=============================================================================
