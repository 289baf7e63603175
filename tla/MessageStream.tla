--------------------------- MODULE MessageStream ---------------------------
(***************************************************************************)
(* Messages between two cosnet processes over one connection: Marshal and  *)
(* Bytes on the sending side, ReadMessage, Parse or Reset, decompress,     *)
(* Path, Body and the message pool on the receiving side (message/*.go,    *)
(* tcp/conn.go, udp/conn.go, socket.handle).                               *)
(*                                                                         *)
(* The unit of length is a cell.  The 10 bytes of a head are one cell, the *)
(* 4 bytes of the code field are one cell, a character of a path or a byte *)
(* of a body is one cell.  gzip is external: it turns a block of cells     *)
(* into another number of cells and back, and fails on anything else.      *)
(***************************************************************************)
EXTENDS Integers, Sequences, SequencesExt

CONSTANTS
    Links,             \* the kinds of connection: packets is TRUE for UDP and WebSocket (a
                       \* packet is a message) and FALSE for TCP, zip is AutoCompressSize
                       \* (0 for never), empty says whether the peer also sends heads with
                       \* no data at all
    Modes,             \* the kinds of magic in use: "path", "code"
    Bodies,            \* lengths of bodies
    ZipLens,           \* lengths that gzip may give to a block
    Capacity,          \* Options.Capacity
    MaxDataSize,       \* Options.MaxDataSize
    MaxSent            \* bound: messages sent in one behaviour

ASSUME MessageAssumption ==
    /\ Links \subseteq [packets : BOOLEAN, zip : Nat, empty : BOOLEAN]
    /\ Modes \subseteq {"path", "code"}
    /\ Bodies \subseteq Nat
    /\ ZipLens \subseteq Nat \ {0}
    /\ Capacity \in Nat /\ MaxDataSize \in Nat /\ MaxSent \in Nat

VARIABLES
    link,    \* the connection and the options of its two ends
    sent,    \* what the sender meant, message by message
    wire,    \* the bytes (TCP) or the packets on their way
    frames,  \* messages that ReadMessage has returned
    got,     \* what the receiver's handlers were called with
    msg,     \* the message object the receiver fills
    pool,    \* first cells left in the arrays of released message objects
    at       \* the receiver: "head", "body", "handle", or "dead" (disconnected)

vars == <<link, sent, wire, frames, got, msg, pool, at>>

-----------------------------------------------------------------------------
(* Cells.                                                                  *)

Mark == 0                      \* the character ?
Cell(k, v) == [kind |-> k, value |-> v]
NoCell == Cell("none", 0)
Chars(path) == [i \in 1..Len(path) |-> Cell("char", path[i])]
Text(cells) == [i \in 1..Len(cells) |-> cells[i].value]

\* The code field read from a cell; other data read there is no valid code.
Number(cell) == IF cell.kind = "code" THEN cell.value ELSE 0

\* Application data: one route, with and without a query (which may hold a ? too).
\* In code mode Transform, given by the application, maps code 1 to the route.
Route == <<1>>
Queries == {<<>>, <<2>>, <<Mark>>}
TransformPath(code) == IF code = 1 THEN Route ELSE <<>>
FullPath(route, query) == IF query = <<>> THEN route ELSE route \o <<Mark>> \o query

-----------------------------------------------------------------------------
(* The sending side: Marshal, Head.bytes and Bytes.                        *)

\* Marshal: the length of the path and the path, or the code; then the body.
Marshal(mode, path, body) ==
    IF mode = "path" THEN <<Cell("code", Len(path))>> \o Chars(path) \o body
                     ELSE <<Cell("code", 1)>> \o body

Compressed(size) == link.zip > 0 /\ size > link.zip

\* Head.bytes: the size is the one before compression.
HeadBytes(mode, size) == [kind |-> "head", mode |-> mode, zip |-> Compressed(size), size |-> size]

Gzip(block, n) == [i \in 1..n |-> [kind |-> "zip", value |-> i, len |-> n, of |-> block]]

\* Bytes: the possible outputs for a marshalled block.
Bytes(mode, block) ==
    LET head == HeadBytes(mode, Len(block))
    IN  IF Compressed(Len(block)) THEN {<<head>> \o Gzip(block, n) : n \in ZipLens}
                                  ELSE {<<head>> \o block}

\* What a frame is on the wire: its cells, or one packet.
Pieces(cells) == IF link.packets THEN <<cells>> ELSE cells

\* The pieces written for the first k messages.
EndOf(k) == IF k = 0 THEN 0 ELSE sent[k].end

\* The message m goes out in these cells; its record also says where they end.
Transmit(m, cells) ==
    /\ wire' = wire \o Pieces(cells)
    /\ sent' = Append(sent, [route |-> m.route, query |-> m.query, body |-> m.body, size |-> m.size,
                             end |-> EndOf(Len(sent)) + Len(Pieces(cells))])

Send ==
    /\ Len(sent) < MaxSent /\ at # "dead"
    /\ \E mode \in Modes, n \in Bodies, q \in Queries :
         LET query == IF mode = "path" THEN q ELSE <<>>
             body == [i \in 1..n |-> Cell("body", Len(sent) + 1)]
             block == Marshal(mode, FullPath(Route, query), body)
         IN  \E cells \in Bytes(mode, block) :
                 Transmit([route |-> Route, query |-> query, body |-> body, size |-> Len(block)], cells)
    /\ UNCHANGED <<link, frames, got, msg, pool, at>>

\* A head with size 0, which names no route.
NoRoute == [route |-> <<>>, query |-> <<>>, body |-> <<>>, size |-> 0]
SendEmpty ==
    /\ link.empty /\ Len(sent) < MaxSent /\ at # "dead"
    /\ \E mode \in Modes : Transmit(NoRoute, <<HeadBytes(mode, 0)>>)
    /\ UNCHANGED <<link, frames, got, msg, pool, at>>

-----------------------------------------------------------------------------
(* The receiving side.                                                     *)

\* decompress: what a block unpacks to, if it is exactly one compressed block.
Unzips(block) ==
    /\ block # <<>>
    /\ block[1].kind = "zip"
    /\ block = Gzip(block[1].of, block[1].len)

\* Mutant of Legal: >= instead of >.
LegalBelow(head) == head.kind = "head" /\ head.size < MaxDataSize

\* Parse: a known magic, and a size within MaxDataSize.
Legal(head) == head.kind = "head" /\ head.size <= MaxDataSize

\* Mutant of Require: Release did not cut the array to length 0.
RequireUncut(first) == [head |-> NoCell, bytes |-> IF first = NoCell THEN <<>> ELSE <<first>>, first |-> first]

\* Require: a new object, or one from the pool with what is left in its array.
Require(first) == [head |-> NoCell, bytes |-> <<>>, first |-> first]

\* The first cell of the array after m.bytes was set, and after Release.
FirstOf(bytes, first) == IF bytes = <<>> THEN first ELSE bytes[1]
Leftover(m) == IF Len(m.bytes) > Capacity THEN Cell("code", 0) ELSE FirstOf(m.bytes, m.first)

\* ReadMessage failed: readMsg releases the message and disconnects.
Fail ==
    /\ at' = "dead"
    /\ pool' = pool \cup {Leftover(msg)}
    /\ UNCHANGED <<link, sent, frames, got>>

\* decompress at the end of Write and of Reset.
Filled(head, block) ==
    IF head.zip
    THEN IF Unzips(block)
         THEN /\ msg' = [msg EXCEPT !.head = head, !.bytes = block[1].of]
              /\ at' = "handle" /\ frames' = frames + 1 /\ UNCHANGED <<link, sent, got, pool>>
         ELSE Fail /\ UNCHANGED msg
    ELSE /\ msg' = [msg EXCEPT !.head = head, !.bytes = block]
         /\ at' = "handle" /\ frames' = frames + 1 /\ UNCHANGED <<link, sent, got, pool>>

\* tcp.Conn.ReadMessage: a head, then the data the head speaks of.
ReadHead ==
    /\ at = "head" /\ ~link.packets /\ wire # <<>>
    /\ wire' = Tail(wire)
    /\ IF ~Legal(Head(wire)) THEN Fail /\ UNCHANGED msg
       ELSE /\ msg' = [msg EXCEPT !.head = Head(wire)]
            /\ IF Head(wire).size = 0 THEN at' = "handle" /\ frames' = frames + 1
                                      ELSE at' = "body" /\ UNCHANGED frames
            /\ UNCHANGED <<link, sent, got, pool>>

\* Mutant of ReadBody: it waits for one cell more.
ReadBodyMore ==
    /\ at = "body" /\ Len(wire) > msg.head.size
    /\ wire' = SubSeq(wire, msg.head.size + 1, Len(wire))
    /\ Filled(msg.head, SubSeq(wire, 1, msg.head.size))

\* Write: io.ReadFull of exactly size cells.
ReadBody ==
    /\ at = "body" /\ Len(wire) >= msg.head.size
    /\ wire' = SubSeq(wire, msg.head.size + 1, Len(wire))
    /\ Filled(msg.head, SubSeq(wire, 1, msg.head.size))

\* Reset: the packet is the message, whatever size its head names.
Reset ==
    /\ at = "head" /\ link.packets /\ wire # <<>>
    /\ wire' = Tail(wire)
    /\ IF ~Legal(Head(wire)[1]) THEN Fail /\ UNCHANGED msg
       ELSE Filled(Head(wire)[1], Tail(Head(wire)))

\* Code: the first cell of the array, also when it lies beyond the length of m.bytes.
\* With no array at all the slice expression panics, and handle() recovers.
Code == Number(FirstOf(msg.bytes, msg.first))
CodePanics == msg.bytes = <<>> /\ (msg.first = NoCell \/ link.packets)

\* Mutant of PathLegal: a message that is all path is refused.
PathLegalStrict ==
    IF msg.head.mode = "path" THEN Code > 0 /\ Code + 1 < Len(msg.bytes)
                              ELSE TransformPath(Code) # <<>>

\* Path: the route and the query, or an error for a length that is out of bounds.
PathLegal ==
    IF msg.head.mode = "path" THEN Code > 0 /\ Code + 1 <= Len(msg.bytes)
                              ELSE TransformPath(Code) # <<>>
Path ==
    LET path == Text(SubSeq(msg.bytes, 2, Code + 1))
        mark == SelectInSeq(path, LAMBDA c : c = Mark)
    IN  IF msg.head.mode = "code" THEN [route |-> TransformPath(Code), query |-> <<>>]
        ELSE IF mark = 0 THEN [route |-> path, query |-> <<>>]
        ELSE [route |-> SubSeq(path, 1, mark - 1), query |-> SubSeq(path, mark + 1, Len(path))]

\* Mutant of Body: the path is not skipped.
BodyNoPath == SubSeq(msg.bytes, 2, Len(msg.bytes))

Body ==
    LET offset == IF msg.head.mode = "path" /\ Code > 0 /\ Code + 1 <= Len(msg.bytes)
                  THEN 1 + Code ELSE 1
    IN  SubSeq(msg.bytes, offset + 1, Len(msg.bytes))

\* handle and Release: the handler of the route is called, or an error is logged; the
\* next ReadMessage takes its message object from the pool.
Handle ==
    /\ at = "handle"
    /\ got' = IF CodePanics \/ ~PathLegal THEN got
              ELSE Append(got, [n |-> frames, route |-> Path.route, query |-> Path.query, body |-> Body])
    /\ pool' = pool \cup {Leftover(msg)}
    /\ \E first \in pool' \cup {NoCell} : msg' = Require(first)
    /\ at' = "head"
    /\ UNCHANGED <<link, sent, wire, frames>>

-----------------------------------------------------------------------------
Init ==
    /\ link \in Links
    /\ sent = <<>> /\ wire = <<>> /\ frames = 0 /\ got = <<>>
    /\ msg = Require(NoCell) /\ pool = {}
    /\ at = "head"

Receive == ReadHead \/ ReadBody \/ Reset \/ Handle
Next == Send \/ SendEmpty \/ Receive

Spec == Init /\ [][Next]_vars

\* The receiver runs, and the transport delivers what was written; nobody need send.
FairSpec == Spec /\ WF_vars(Receive)

-----------------------------------------------------------------------------
(* The inductive invariant.                                                *)

\* Cells of a marshalled block, and all cells.
Plain == [kind : {"none", "code", "char", "body"}, value : Int]
Heads == [kind : {"head"}, mode : Modes, zip : BOOLEAN, size : Nat]
Zips == [kind : {"zip"}, value : Nat, len : Nat, of : Seq(Plain)]
Cells == Plain \cup Heads \cup Zips
Sents == [route : {<<>>, Route}, query : Queries, body : Seq(Plain), size : Nat, end : Nat]

\* The variables have their types.
TypeOK ==
    /\ link \in Links
    /\ sent \in Seq(Sents)
    /\ wire \in Seq(IF link.packets THEN Seq(Cells) ELSE Cells)
    /\ frames \in 0..Len(sent)
    /\ got \in Seq([n : 1..frames, route : Seq(Int), query : Seq(Int), body : Seq(Plain)])
    /\ msg \in [head : Heads \cup {NoCell}, bytes : Seq(Plain), first : Plain]
    /\ pool \subseteq Plain
    /\ at \in {"head", "body", "handle", "dead"}

\* What a message marshals to, and the frames it may travel in.
Block(mode, m) ==
    IF m.route = <<>> THEN <<>> ELSE Marshal(mode, FullPath(m.route, m.query), m.body)
Fits(mode, m) ==
    /\ mode \in Modes /\ (mode = "code" => m.query = <<>>)
    /\ Len(Block(mode, m)) = m.size
Frames(m) == UNION {Bytes(mode, Block(mode, m)) : mode \in {x \in Modes : Fits(x, m)}}

\* Frames follow each other.
Measured == \A j, k \in 0..Len(sent) : j < k => EndOf(j) < EndOf(k)

\* The pieces that the receiver has taken off the wire.
Taken == EndOf(Len(sent)) - Len(wire)

\* The frame of message k lies on the wire where it belongs, or what is left of it.
Lies(k, cells) ==
    /\ Len(Pieces(cells)) = EndOf(k) - EndOf(k - 1)
    /\ \A i \in 1..Len(Pieces(cells)) :
           EndOf(k - 1) + i > Taken => wire[EndOf(k - 1) + i - Taken] = Pieces(cells)[i]

\* The receiver never loses the framing without a disconnect: it stands at the end of
\* the last frame it took, or, over TCP, behind the head of the next.
Framed ==
    at # "dead" =>
        /\ Taken = EndOf(frames) + (IF at = "body" THEN 1 ELSE 0)
        /\ \A k \in frames + 1..Len(sent) : \E cells \in Frames(sent[k]) :
               /\ Lies(k, cells)
               /\ at = "body" /\ k = frames + 1 => msg.head = cells[1]
        /\ at = "body" => ~link.packets /\ frames < Len(sent)

\* The message object holds the block of the last frame, or nothing yet.
Holding ==
    /\ at \in {"head", "body"} => msg.bytes = <<>>
    /\ at = "handle" => /\ frames > 0
                        /\ Fits(msg.head.mode, sent[frames])
                        /\ msg.head # NoCell
                        /\ msg.bytes = Block(msg.head.mode, sent[frames])

-----------------------------------------------------------------------------
(* Properties.                                                             *)

\* A handler is called with the route, the query and the body of the very message its
\* frame was made from, and never for a frame that named no route: framing, the length
\* prefix of the path, compression and reuse of message objects mix nothing up.
Intact ==
    \A i \in 1..Len(got) :
        LET m == sent[got[i].n]
        IN  got[i].route = m.route /\ got[i].query = m.query /\ got[i].body = m.body

\* Handlers are called in the order of sending, once for each frame that names a route
\* and was read; none is skipped.
OnceInOrder ==
    /\ \A i, j \in 1..Len(got) : i < j => got[i].n < got[j].n
    /\ \A k \in 1..frames :
           \/ sent[k].route = <<>> \/ \E i \in 1..Len(got) : got[i].n = k
           \/ at = "handle" /\ k = frames

\* The inductive invariant of the framing, and of what the handlers got.
IInv == TypeOK /\ Measured /\ Framed /\ Holding

\* The receiver only cuts the connection for a message above MaxDataSize.
CutOnlyTooLong == at = "dead" => \E i \in 1..Len(sent) : sent[i].size > MaxDataSize

\* Every message that names a route reaches its handler, or the connection is cut.
Arrives ==
    \A k \in 1..MaxSent : (Len(sent) >= k /\ sent[k].route # <<>>)
                             ~> ((\E i \in 1..Len(got) : got[i].n = k) \/ at = "dead")
=============================================================================
