------------------------ MODULE MessageStreamProofs ------------------------
(***************************************************************************)
(* Proofs about module MessageStream, for every set of connections, every  *)
(* length of bodies and of compressed blocks, every limit and any number   *)
(* of messages: the framing, what handlers are called with, and when a     *)
(* connection is cut.                                                      *)
(***************************************************************************)
EXTENDS MessageStream, SequenceTheorems, TLAPS

\* A concatenation, part by part.
LEMMA ConcatSplit ==
    ASSUME NEW S, NEW s \in Seq(S), NEW t \in Seq(S)
    PROVE  /\ s \o t \in Seq(S) /\ Len(s \o t) = Len(s) + Len(t)
           /\ \A i \in 1..Len(s) : (s \o t)[i] = s[i]
           /\ \A i \in 1..Len(t) : (s \o t)[Len(s) + i] = t[i]
<1>1. Len(s) \in Nat /\ Len(t) \in Nat
  OBVIOUS
<1> QED BY <1>1, ConcatProperties

\* Two elements before a sequence.
LEMMA JoinThree ==
    ASSUME NEW S, NEW r \in Seq(S), NEW o \in Seq(S), NEW q \in Seq(S)
    PROVE  LET p == r \o o \o q
           IN  Len(r) = 1 /\ Len(o) = 1 =>
                   /\ Len(p) = 2 + Len(q) /\ p[1] = r[1] /\ p[2] = o[1]
                   /\ \A i \in 1..Len(q) : p[2 + i] = q[i]
<1> DEFINE s == r \o o
           p == s \o q
<1>1. /\ s \in Seq(S) /\ Len(s) = Len(r) + Len(o)
      /\ \A i \in 1..Len(r) : s[i] = r[i]
      /\ \A i \in 1..Len(o) : s[Len(r) + i] = o[i]
  BY ConcatSplit
<1> HIDE DEF s
<1>2. /\ Len(p) = Len(s) + Len(q)
      /\ \A i \in 1..Len(s) : p[i] = s[i]
      /\ \A i \in 1..Len(q) : p[Len(s) + i] = q[i]
  <2>1. s \in Seq(S)
    BY <1>1
  <2> QED BY <2>1, ConcatSplit
<1>3. Len(q) \in Nat
  OBVIOUS
<1> HIDE DEF p
<1>4. ASSUME Len(r) = 1, Len(o) = 1
      PROVE  /\ Len(p) = 2 + Len(q) /\ p[1] = r[1] /\ p[2] = o[1]
             /\ \A i \in 1..Len(q) : p[2 + i] = q[i]
  <2>1. Len(s) = 2 /\ s[1] = r[1] /\ s[2] = o[1]
    BY <1>1, <1>4
  <2> QED BY <1>2, <1>3, <2>1
<1> QED BY <1>4 DEF s, p

\* What is left of a sequence when its first n elements are taken.
LEMMA TakeTypes ==
    ASSUME NEW S, NEW s \in Seq(S), NEW n \in 0..Len(s)
    PROVE  LET t == SubSeq(s, n + 1, Len(s))
           IN  t \in Seq(S) /\ Len(t) = Len(s) - n /\ \A i \in 1..Len(s) - n : t[i] = s[n + i]
<1>1. Len(s) \in Nat /\ \A i \in n + 1..Len(s) : s[i] \in S
  BY ElementOfSeq
<1> DEFINE t == SubSeq(s, n + 1, Len(s))
<1>2. /\ t \in Seq(S) /\ Len(t) = IF n + 1 <= Len(s) THEN Len(s) - (n + 1) + 1 ELSE 0
      /\ \A i \in 1..Len(s) - (n + 1) + 1 : t[i] = s[n + 1 + i - 1]
  <2>1. n + 1 \in Int /\ Len(s) \in Int
    BY <1>1
  <2> QED BY <1>1, <2>1, SubSeqProperties
<1> HIDE DEF t
<1>3. Len(t) = Len(s) - n
  BY <1>1, <1>2
<1>4. ASSUME NEW i \in 1..Len(s) - n PROVE t[i] = s[n + i]
  <2>1. i \in 1..Len(s) - (n + 1) + 1 /\ n + 1 + i - 1 = n + i
    BY <1>1
  <2> QED BY <1>2, <2>1
<1> QED BY <1>2, <1>3, <1>4 DEF t

\* Intervals that start later.
LEMMA LaterInterval ==
    \A a, b, c \in Int : a <= b => b + 1..c \subseteq a + 1..c
OBVIOUS

\* What the assumption says of a connection.
LEMMA LinkTypes ==
    ASSUME link \in Links
    PROVE  link.packets \in BOOLEAN /\ link.zip \in Nat /\ link.empty \in BOOLEAN
BY MessageAssumption

\* A route with its query, character by character.
LEMMA PathTypes ==
    ASSUME NEW r \in {<<>>, Route}, NEW q \in Queries
    PROVE  /\ FullPath(r, q) \in Seq(Int) /\ Route \in Seq(Int) /\ q \in Seq(Int)
           /\ r = Route => Len(FullPath(r, q)) \in Nat \ {0}
<1>0. <<>> \in Seq(Int) /\ <<0>> \in Seq(Int) /\ <<1>> \in Seq(Int) /\ <<2>> \in Seq(Int)
  OBVIOUS
<1>1. r \in Seq(Int) /\ q \in Seq(Int) /\ <<Mark>> \in Seq(Int) /\ Route \in Seq(Int)
  <2>1. (r = <<>> \/ r = <<1>>) /\ (q = <<>> \/ q = <<0>> \/ q = <<2>>)
    BY DEF Queries, Route, Mark
  <2> QED BY <1>0, <2>1, Zenon DEF Route, Mark
<1> DEFINE s == r \o <<Mark>>
<1>2. Len(<<Mark>>) = 1 /\ Len(r) \in Nat /\ Len(q) \in Nat
  BY <1>1
<1>3. s \in Seq(Int) /\ Len(s) = Len(r) + Len(<<Mark>>)
  BY <1>1, ConcatProperties
<1> HIDE DEF s
<1>4. s \o q \in Seq(Int) /\ Len(s \o q) = Len(s) + Len(q)
  BY <1>1, <1>3, ConcatProperties
<1> HIDE DEF s
<1>5. FullPath(r, q) = r \/ FullPath(r, q) = s \o q
  BY DEF FullPath, s
<1>6. FullPath(r, q) \in Seq(Int)
  BY <1>1, <1>4, <1>5
<1>7. ASSUME r = Route PROVE Len(FullPath(r, q)) \in Nat \ {0}
  <2>1. Len(r) = 1
    BY <1>7 DEF Route
  <2>2. Len(FullPath(r, q)) = Len(r) \/ Len(FullPath(r, q)) = Len(s \o q)
    BY <1>5
  <2>3. Len(s \o q) = 1 + 1 + Len(q)
    BY <2>1, <1>2, <1>3, <1>4
  <2>4. Len(r) \in Nat \ {0} /\ 1 + 1 + Len(q) \in Nat \ {0}
    BY <1>2, <2>1
  <2> QED BY <2>2, <2>3, <2>4, Zenon
<1> QED BY <1>1, <1>6, <1>7

\* A marshalled block: a code cell, in path mode the path, and the body.
LaidOut(b, mode, path, body) ==
    /\ b \in Seq(Plain) /\ b # <<>>
    /\ mode = "path" =>
           /\ Len(b) = Len(path) + 1 + Len(body)
           /\ b[1] = Cell("code", Len(path))
           /\ \A i \in 1..Len(path) : b[i + 1] = Cell("char", path[i])
           /\ \A i \in 1..Len(body) : b[Len(path) + 1 + i] = body[i]
    /\ mode # "path" =>
           /\ Len(b) = 1 + Len(body)
           /\ b[1] = Cell("code", 1)
           /\ \A i \in 1..Len(body) : b[1 + i] = body[i]

\* Marshal lays a block out in this way.
LEMMA MarshalTypes ==
    ASSUME NEW mode, NEW path \in Seq(Int), NEW body \in Seq(Plain)
    PROVE  LaidOut(Marshal(mode, path, body), mode, path, body)
<1> DEFINE b == Marshal(mode, path, body)
<1> HIDE DEF b
<1> SUFFICES /\ b \in Seq(Plain) /\ b # <<>>
             /\ mode = "path" =>
                    /\ Len(b) = Len(path) + 1 + Len(body)
                    /\ b[1] = Cell("code", Len(path))
                    /\ \A i \in 1..Len(path) : b[i + 1] = Cell("char", path[i])
                    /\ \A i \in 1..Len(body) : b[Len(path) + 1 + i] = body[i]
             /\ mode # "path" =>
                    /\ Len(b) = 1 + Len(body)
                    /\ b[1] = Cell("code", 1)
                    /\ \A i \in 1..Len(body) : b[1 + i] = body[i]
  BY Zenon DEF LaidOut, b
<1> DEFINE c == IF mode = "path" THEN Len(path) ELSE 1
           s == <<Cell("code", c)>>
<1>0. Len(path) \in Nat /\ Len(body) \in Nat
  OBVIOUS
<1>1. s \in Seq(Plain) /\ Chars(path) \in Seq(Plain) /\ body \in Seq(Plain)
  BY DEF Chars, Cell, Plain
<1>2. /\ Len(s) = 1 /\ s[1] = Cell("code", c) /\ Len(Chars(path)) = Len(path)
      /\ \A i \in 1..Len(path) : Chars(path)[i] = Cell("char", path[i])
  BY DEF Chars
<1>3. CASE mode = "path"
  <2> DEFINE t == s \o Chars(path)
             r == t \o body
  <2>1. b = r
    BY <1>3 DEF Marshal, b
  <2> HIDE DEF s
  <2>2. /\ t \in Seq(Plain) /\ Len(t) = Len(s) + Len(Chars(path))
        /\ \A i \in 1..Len(s) : t[i] = s[i]
        /\ \A i \in 1..Len(Chars(path)) : t[Len(s) + i] = Chars(path)[i]
    BY <1>1, ConcatSplit
  <2>3. t \in Seq(Plain)
    BY <2>2
  <2> HIDE DEF t
  <2>4. /\ r \in Seq(Plain) /\ Len(r) = Len(t) + Len(body)
        /\ \A i \in 1..Len(t) : r[i] = t[i]
        /\ \A i \in 1..Len(body) : r[Len(t) + i] = body[i]
    BY <2>3, <1>1, ConcatSplit
  <2> HIDE DEF r
  <2>5. Len(t) = Len(path) + 1 /\ Len(r) = Len(path) + 1 + Len(body) /\ r # <<>>
    BY <1>0, <1>2, <2>2, <2>4
  <2>6. r[1] = Cell("code", c)
    BY <1>0, <1>2, <2>2, <2>4, <2>5
  <2>7. ASSUME NEW i \in 1..Len(path) PROVE r[i + 1] = Cell("char", path[i])
    <3>1. i + 1 \in 1..Len(t) /\ i + 1 = Len(s) + i
      BY <1>0, <1>2, <2>5
    <3> QED BY <3>1, <1>2, <2>2, <2>4
  <2> QED BY <1>3, <2>1, <2>4, <2>5, <2>6, <2>7
<1>4. CASE mode # "path"
  <2> DEFINE r == s \o body
  <2>1. b = r
    BY <1>4 DEF Marshal, b
  <2> HIDE DEF s
  <2>2. /\ r \in Seq(Plain) /\ Len(r) = Len(s) + Len(body)
        /\ \A i \in 1..Len(s) : r[i] = s[i]
        /\ \A i \in 1..Len(body) : r[Len(s) + i] = body[i]
    BY <1>1, ConcatSplit
  <2> HIDE DEF r
  <2>3. r # <<>> /\ r[1] = Cell("code", c)
    BY <1>0, <1>2, <2>2
  <2> QED BY <1>2, <1>4, <2>1, <2>2, <2>3
<1> QED BY <1>3, <1>4

\* What a message marshals to.
LEMMA BlockTypes ==
    ASSUME NEW m \in Sents, NEW mode
    PROVE  Block(mode, m) \in Seq(Plain) /\ (m.route # <<>> => Block(mode, m) # <<>>)
<1>1. m.route \in {<<>>, Route} /\ m.query \in Queries /\ m.body \in Seq(Plain)
  BY DEF Sents
<1>2. FullPath(m.route, m.query) \in Seq(Int)
  BY <1>1, PathTypes
<1>3. /\ Marshal(mode, FullPath(m.route, m.query), m.body) \in Seq(Plain)
      /\ Marshal(mode, FullPath(m.route, m.query), m.body) # <<>>
  BY <1>1, <1>2, MarshalTypes DEF LaidOut
<1>4. <<>> \in Seq(Plain)
  OBVIOUS
<1> QED BY <1>3, <1>4 DEF Block

\* A compressed block.
LEMMA GzipTypes ==
    ASSUME NEW block \in Seq(Plain), NEW n \in ZipLens
    PROVE  /\ n \in Nat \ {0} /\ Gzip(block, n) \in Seq(Zips) /\ Len(Gzip(block, n)) = n
           /\ Gzip(block, n) # <<>>
           /\ Gzip(block, n)[1].kind = "zip" /\ Gzip(block, n)[1].of = block
           /\ Gzip(block, n)[1].len = n
           /\ Unzips(Gzip(block, n))
<1>1. n \in Nat \ {0}
  BY MessageAssumption
<1>2. Gzip(block, n) \in Seq(Zips) /\ Len(Gzip(block, n)) = n
  BY <1>1 DEF Gzip, Zips
<1>3. Gzip(block, n)[1] = [kind |-> "zip", value |-> 1, len |-> n, of |-> block]
  BY <1>1 DEF Gzip
<1>4. Gzip(block, n) # <<>>
  BY <1>1, <1>2
<1> QED BY <1>1, <1>2, <1>3, <1>4 DEF Unzips

\* What unpacks and starts like a compressed block is that block and no other.
LEMMA UnzipsOnly ==
    ASSUME NEW block \in Seq(Plain), NEW n \in ZipLens, NEW b,
           b[1] = Gzip(block, n)[1], Unzips(b)
    PROVE  b = Gzip(block, n)
BY GzipTypes DEF Unzips

\* A sequence behind its first element.
LEMMA TailOfCons ==
    ASSUME NEW S, NEW x \in S, NEW t \in Seq(S)
    PROVE  LET c == <<x>> \o t
           IN  /\ c \in Seq(S) /\ c # <<>> /\ Len(c) = Len(t) + 1 /\ c[1] = x /\ Head(c) = x
               /\ Tail(c) = t
               /\ \A i \in 1..Len(t) : c[i + 1] = t[i]
<1> DEFINE c == <<x>> \o t
<1>1. <<x>> \in Seq(S) /\ Len(<<x>>) = 1 /\ Len(t) \in Nat
  OBVIOUS
<1>2. /\ c \in Seq(S) /\ Len(c) = Len(<<x>>) + Len(t)
      /\ \A i \in 1..Len(<<x>>) : c[i] = <<x>>[i]
      /\ \A i \in 1..Len(t) : c[Len(<<x>>) + i] = t[i]
  BY <1>1, ConcatSplit
<1> HIDE DEF c
<1>3. Len(c) = Len(t) + 1 /\ c[1] = x /\ c # <<>>
  BY <1>1, <1>2
<1>4. \A i \in 1..Len(t) : c[i + 1] = t[i]
  BY <1>1, <1>2
<1>5. Head(c) = x /\ Tail(c) \in Seq(S) /\ Len(Tail(c)) = Len(t)
      /\ \A i \in 1..Len(t) : Tail(c)[i] = c[i + 1]
  BY <1>1, <1>2, <1>3, HeadTailProperties
<1>6. \A i \in 1..Len(t) : Tail(c)[i] = t[i]
  BY <1>4, <1>5
<1>7. Tail(c) = t
  BY <1>5, <1>6, SeqEqual
<1> QED BY <1>2, <1>3, <1>4, <1>5, <1>7 DEF c

\* The frame of a block: its head, then the block, or the compressed block.
LEMMA BytesTypes ==
    ASSUME link \in Links, NEW mode \in Modes, NEW block \in Seq(Plain),
           NEW cells \in Bytes(mode, block)
    PROVE  /\ cells \in Seq(Cells) /\ cells # <<>> /\ Tail(cells) \in Seq(Cells)
           /\ Len(cells) = Len(Tail(cells)) + 1
           /\ \A i \in 1..Len(Tail(cells)) : cells[i + 1] = Tail(cells)[i]
           /\ cells[1] = HeadBytes(mode, Len(block)) /\ cells[1] \in Heads
           /\ IF Compressed(Len(block)) THEN \E n \in ZipLens : Tail(cells) = Gzip(block, n)
                                        ELSE Tail(cells) = block
<1> DEFINE head == HeadBytes(mode, Len(block))
<1>1. head \in Heads
  BY LinkTypes DEF HeadBytes, Heads, Compressed
<1>2. CASE Compressed(Len(block))
  <2>1. PICK n \in ZipLens : cells = <<head>> \o Gzip(block, n)
    BY <1>2 DEF Bytes
  <2>2. Gzip(block, n) \in Seq(Cells) /\ head \in Cells
    BY <1>1, GzipTypes DEF Cells
  <2> HIDE DEF head
  <2>3. /\ cells \in Seq(Cells) /\ cells # <<>> /\ Len(cells) = Len(Gzip(block, n)) + 1
        /\ cells[1] = head /\ Tail(cells) = Gzip(block, n)
        /\ \A i \in 1..Len(Gzip(block, n)) : cells[i + 1] = Gzip(block, n)[i]
    BY <2>1, <2>2, TailOfCons
  <2> QED BY <1>1, <1>2, <2>2, <2>3 DEF head
<1>3. CASE ~Compressed(Len(block))
  <2>1. cells = <<head>> \o block
    BY <1>3 DEF Bytes
  <2>2. block \in Seq(Cells) /\ head \in Cells
    BY <1>1 DEF Cells
  <2> HIDE DEF head
  <2>3. /\ cells \in Seq(Cells) /\ cells # <<>> /\ Len(cells) = Len(block) + 1
        /\ cells[1] = head /\ Tail(cells) = block
        /\ \A i \in 1..Len(block) : cells[i + 1] = block[i]
    BY <2>1, <2>2, TailOfCons
  <2> QED BY <1>1, <1>3, <2>2, <2>3 DEF head
<1> QED BY <1>2, <1>3

-----------------------------------------------------------------------------
(* The framing.                                                            *)

\* A frame of a message is made for one of the kinds of magic.
LEMMA FramesTypes ==
    ASSUME link \in Links, NEW m \in Sents, NEW cells \in Frames(m)
    PROVE  \E mode \in Modes :
               /\ Fits(mode, m) /\ cells \in Bytes(mode, Block(mode, m))
               /\ Block(mode, m) \in Seq(Plain) /\ cells \in Seq(Cells) /\ cells # <<>>
               /\ cells[1] = HeadBytes(mode, m.size)
<1>1. PICK mode \in Modes : Fits(mode, m) /\ cells \in Bytes(mode, Block(mode, m))
  BY DEF Frames
<1>2. Block(mode, m) \in Seq(Plain)
  BY BlockTypes
<1>3. Len(Block(mode, m)) = m.size
  BY <1>1 DEF Fits
<1> QED BY <1>1, <1>2, <1>3, BytesTypes

\* Frames and pieces depend on the connection only.
LEMMA SameFrames ==
    ASSUME link' = link, NEW m
    PROVE  Frames(m)' = Frames(m) /\ Pieces(m)' = Pieces(m)
BY DEF Frames, Bytes, HeadBytes, Compressed, Pieces

\* The numbers of the framing.
LEMMA EndTypes ==
    ASSUME TypeOK
    PROVE  /\ Len(sent) \in Nat /\ Len(wire) \in Nat /\ frames \in Nat /\ Taken \in Int
           /\ \A k \in 0..Len(sent) : EndOf(k) \in Nat
           /\ \A k \in 1..Len(sent) : sent[k] \in Sents
<1>1. Len(sent) \in Nat /\ Len(wire) \in Nat /\ frames \in Nat
  BY DEF TypeOK
<1>2. \A k \in 1..Len(sent) : sent[k] \in Sents
  BY ElementOfSeq DEF TypeOK
<1>0. \A m \in Sents : m.end \in Nat
  BY DEF Sents
<1>3. \A k \in 0..Len(sent) : EndOf(k) \in Nat
  BY <1>0, <1>1, <1>2 DEF EndOf
<1>4. Len(sent) \in 0..Len(sent)
  BY <1>1
<1> QED BY <1>1, <1>2, <1>3, <1>4 DEF Taken

\* What a frame is on the wire.
LEMMA PiecesTypes ==
    ASSUME link \in Links, NEW cells \in Seq(Cells), cells # <<>>
    PROVE  /\ Pieces(cells) \in Seq(IF link.packets THEN Seq(Cells) ELSE Cells)
           /\ Len(Pieces(cells)) \in Nat \ {0}
           /\ link.packets => Len(Pieces(cells)) = 1 /\ Pieces(cells)[1] = cells
           /\ ~link.packets => Pieces(cells) = cells
<1>1. <<cells>> \in Seq(Seq(Cells)) /\ Len(<<cells>>) = 1 /\ <<cells>>[1] = cells
  OBVIOUS
<1>2. Len(cells) \in Nat \ {0}
  BY EmptySeq
<1>3. CASE link.packets
  <2>1. Pieces(cells) = <<cells>>
    BY <1>3 DEF Pieces
  <2> QED BY <1>1, <1>3, <2>1
<1>4. CASE ~link.packets
  <2>1. Pieces(cells) = cells
    BY <1>4 DEF Pieces
  <2> QED BY <1>2, <1>4, <2>1
<1> QED BY <1>3, <1>4

\* When the receiver takes n pieces off the wire, frames stay where they are.
LEMMA TakeLies ==
    ASSUME TypeOK, Measured, link' = link, sent' = sent, NEW n \in 0..Len(wire),
           wire' = SubSeq(wire, n + 1, Len(wire)),
           NEW k \in 1..Len(sent), NEW cells, cells \in Seq(Cells), cells # <<>>, Lies(k, cells)
    PROVE  Lies(k, cells)'
<1> DEFINE p == Pieces(cells)
<1>1. Pieces(cells)' = p /\ EndOf(k)' = EndOf(k) /\ EndOf(k - 1)' = EndOf(k - 1)
  BY SameFrames DEF EndOf
<1>2. /\ Len(wire') = Len(wire) - n
      /\ \A i \in 1..Len(wire) - n : wire'[i] = wire[n + i]
  BY EndTypes DEF TypeOK
<1>3. Taken' = Taken + n
  <2>1. EndOf(Len(sent))' = EndOf(Len(sent))
    BY DEF EndOf
  <2>2. Len(sent) \in 0..Len(sent) /\ EndOf(Len(sent)) \in Nat /\ Len(wire) \in Nat
    BY EndTypes
  <2> QED BY <1>2, <2>1, <2>2 DEF Taken
<1>4. /\ EndOf(k) \in Nat /\ EndOf(k - 1) \in Nat /\ EndOf(k) <= EndOf(Len(sent))
      /\ Len(p) \in Nat /\ Len(p) = EndOf(k) - EndOf(k - 1)
      /\ EndOf(Len(sent)) = Taken + Len(wire) /\ Taken \in Int /\ Len(wire) \in Nat
      /\ EndOf(Len(sent)) \in Nat
  <2>1. k - 1 \in 0..Len(sent) /\ k \in 0..Len(sent) /\ Len(sent) \in 0..Len(sent)
    BY EndTypes
  <2>2. k = Len(sent) \/ EndOf(k) < EndOf(Len(sent))
    BY <2>1, EndTypes DEF Measured
  <2>3. Len(p) \in Nat /\ Len(p) = EndOf(k) - EndOf(k - 1)
    BY PiecesTypes DEF Lies, TypeOK
  <2>4. EndOf(k) \in Nat /\ EndOf(k - 1) \in Nat /\ EndOf(Len(sent)) \in Nat
    BY <2>1, EndTypes
  <2>5. EndOf(Len(sent)) = Taken + Len(wire) /\ Taken \in Int /\ Len(wire) \in Nat
    BY <2>4, EndTypes DEF Taken
  <2>6. EndOf(k) <= EndOf(Len(sent))
    BY <2>2, <2>4
  <2> QED BY <2>3, <2>4, <2>5, <2>6
<1> HIDE DEF p
<1>5. ASSUME NEW i \in 1..Len(p), EndOf(k - 1) + i > Taken'
      PROVE  wire'[EndOf(k - 1) + i - Taken'] = p[i]
  <2>1. EndOf(k - 1) + i > Taken /\ EndOf(k - 1) + i <= EndOf(Len(sent))
    BY <1>3, <1>4, <1>5
  <2>2. wire[EndOf(k - 1) + i - Taken] = p[i]
    BY <2>1 DEF Lies, p
  <2>3. EndOf(k - 1) + i - Taken' \in 1..Len(wire) - n
    BY <1>3, <1>4, <1>5, <2>1
  <2>4. n + (EndOf(k - 1) + i - Taken') = EndOf(k - 1) + i - Taken
    BY <1>3, <1>4
  <2> QED BY <1>2, <2>2, <2>3, <2>4
<1> QED BY <1>1, <1>4, <1>5 DEF Lies, p

\* What appending the record of a message to sent does.
LEMMA AppendSent ==
    ASSUME TypeOK, NEW m, NEW cells,
           m.route \in {<<>>, Route}, m.query \in Queries, m.body \in Seq(Plain), m.size \in Nat,
           cells \in Seq(Cells), cells # <<>>, link' = link, Transmit(m, cells)
    PROVE  /\ sent' \in Seq(Sents) /\ Len(sent') = Len(sent) + 1
           /\ \A k \in 1..Len(sent) : sent'[k] = sent[k]
           /\ \A k \in 0..Len(sent) : EndOf(k)' = EndOf(k)
           /\ \A k : k = Len(sent) + 1 =>
                  /\ EndOf(k)' = EndOf(k - 1) + Len(Pieces(cells))
                  /\ sent'[k] = [route |-> m.route, query |-> m.query, body |-> m.body,
                                 size |-> m.size, end |-> EndOf(k - 1) + Len(Pieces(cells))]
           /\ wire' \in Seq(IF link.packets THEN Seq(Cells) ELSE Cells)
           /\ Len(wire') = Len(wire) + Len(Pieces(cells))
           /\ \A i \in 1..Len(wire) : wire'[i] = wire[i]
           /\ \A i \in 1..Len(Pieces(cells)) : wire'[Len(wire) + i] = Pieces(cells)[i]
           /\ Taken' = Taken
<1> DEFINE p == Pieces(cells)
           r == [route |-> m.route, query |-> m.query, body |-> m.body, size |-> m.size,
                 end |-> EndOf(Len(sent)) + Len(p)]
<1>1. /\ p \in Seq(IF link.packets THEN Seq(Cells) ELSE Cells) /\ Len(p) \in Nat
      /\ Len(sent) \in Nat /\ Len(wire) \in Nat /\ EndOf(Len(sent)) \in Nat
  BY PiecesTypes, EndTypes, Len(sent) \in 0..Len(sent) DEF TypeOK
<1>2. sent' = Append(sent, r) /\ wire' = wire \o p
  BY DEF Transmit
<1> HIDE DEF p
<1>3. r \in Sents
  BY <1>1 DEF Sents
<1>4. r.end = EndOf(Len(sent)) + Len(p)
  OBVIOUS
<1> HIDE DEF r
<1>5. sent \in Seq(Sents) /\ wire \in Seq(IF link.packets THEN Seq(Cells) ELSE Cells)
  BY DEF TypeOK
<1>6. /\ sent' \in Seq(Sents) /\ Len(sent') = Len(sent) + 1
      /\ \A k \in 1..Len(sent) : sent'[k] = sent[k]
      /\ sent'[Len(sent) + 1] = r
  BY <1>2, <1>3, <1>5, AppendProperties
<1>7. /\ wire' \in Seq(IF link.packets THEN Seq(Cells) ELSE Cells)
      /\ Len(wire') = Len(wire) + Len(p)
      /\ \A i \in 1..Len(wire) : wire'[i] = wire[i]
      /\ \A i \in 1..Len(p) : wire'[Len(wire) + i] = p[i]
  BY <1>1, <1>2, <1>5, ConcatSplit
<1>8. \A k \in 0..Len(sent) : EndOf(k)' = EndOf(k)
  BY <1>1, <1>6 DEF EndOf
<1>9. ASSUME NEW k, k = Len(sent) + 1
      PROVE  EndOf(k)' = EndOf(k - 1) + Len(p) /\ sent'[k] = r /\ EndOf(k - 1) = EndOf(Len(sent))
  <2>1. k # 0 /\ k - 1 = Len(sent)
    BY <1>1, <1>9
  <2>2. EndOf(k)' = sent'[k].end
    BY <2>1 DEF EndOf
  <2> QED BY <1>4, <1>6, <1>9, <2>1, <2>2
<1>10. Taken' = Taken
  <2>1. PICK k : k = Len(sent) + 1
    OBVIOUS
  <2>2. EndOf(Len(sent))' = EndOf(k)'
    BY <1>6, <2>1 DEF EndOf
  <2>3. EndOf(k)' = EndOf(Len(sent)) + Len(p)
    BY <1>9, <2>1
  <2> QED BY <1>1, <1>7, <2>2, <2>3 DEF Taken
<1> QED BY <1>1, <1>6, <1>7, <1>8, <1>9, <1>10 DEF p, r

\* What is left of a released message object is a cell of a block.
LEMMA LeftoverType ==
    ASSUME TypeOK
    PROVE  Leftover(msg) \in Plain
<1>1. msg.bytes \in Seq(Plain) /\ msg.first \in Plain
  BY DEF TypeOK
<1>2. msg.bytes # <<>> => msg.bytes[1] \in Plain
  BY <1>1, EmptySeq
<1>3. Cell("code", 0) \in Plain
  BY DEF Cell, Plain
<1> QED BY <1>1, <1>2, <1>3 DEF Leftover, FirstOf

-----------------------------------------------------------------------------
(* The inductive invariant.                                                *)

\* Initially nothing was sent.
LEMMA InitIInv == Init => IInv
<1> SUFFICES ASSUME Init PROVE IInv
  OBVIOUS
<1>0. /\ link \in Links /\ sent = <<>> /\ wire = <<>> /\ frames = 0 /\ got = <<>>
      /\ msg = Require(NoCell) /\ pool = {} /\ at = "head"
  BY DEF Init
<1>1. NoCell \in Plain /\ <<>> \in Seq(Plain)
  BY DEF NoCell, Cell, Plain
<1>2. Len(sent) = 0 /\ Len(wire) = 0
  BY <1>0
<1>3. TypeOK
  <2>1. msg \in [head : Heads \cup {NoCell}, bytes : Seq(Plain), first : Plain]
    BY <1>0, <1>1 DEF Require
  <2>2. frames \in 0..Len(sent)
    BY <1>0, <1>2
  <2> QED BY <1>0, <2>1, <2>2 DEF TypeOK
<1>4. Measured
  BY <1>2 DEF Measured
<1>5. Framed
  <2>1. Taken = 0 /\ EndOf(frames) = 0
    BY <1>0, <1>2 DEF Taken, EndOf
  <2>2. frames + 1..Len(sent) = {}
    BY <1>0, <1>2
  <2> QED BY <1>0, <2>1, <2>2 DEF Framed
<1>6. Holding
  BY <1>0 DEF Holding, Require
<1> QED BY <1>3, <1>4, <1>5, <1>6 DEF IInv

\* Sending a message in one of its frames keeps the invariant.
LEMMA TransmitStep ==
    ASSUME IInv, NEW m, NEW mode \in Modes, NEW cells \in Bytes(mode, Block(mode, m)),
           m.route \in {<<>>, Route}, m.query \in Queries, m.body \in Seq(Plain), m.size \in Nat,
           Fits(mode, m), Transmit(m, cells), UNCHANGED <<link, frames, got, msg, pool, at>>
    PROVE  IInv'
<1> DEFINE K == Len(sent) + 1
           p == Pieces(cells)
<1>0. TypeOK /\ Measured /\ Framed /\ Holding /\ link \in Links
  BY DEF IInv, TypeOK
<1>1. /\ Len(sent) \in Nat /\ Len(wire) \in Nat /\ frames \in Nat /\ frames <= Len(sent)
      /\ Taken \in Int /\ \A k \in 0..Len(sent) : EndOf(k) \in Nat
  BY <1>0, EndTypes DEF TypeOK
<1>2. /\ link' = link /\ frames' = frames /\ got' = got /\ msg' = msg /\ pool' = pool
      /\ at' = at
  OBVIOUS
<1>3. Block(mode, m) \in Seq(Plain)
  <2> DEFINE r == [route |-> m.route, query |-> m.query, body |-> m.body, size |-> m.size,
                   end |-> 0]
  <2>1. r \in Sents
    BY DEF Sents
  <2>2. Block(mode, r) = Block(mode, m)
    BY DEF Block
  <2> QED BY <2>1, <2>2, BlockTypes
<1>4. cells \in Seq(Cells) /\ cells # <<>>
  BY <1>0, <1>3, BytesTypes
<1>5. /\ sent' \in Seq(Sents) /\ Len(sent') = Len(sent) + 1
      /\ \A k \in 1..Len(sent) : sent'[k] = sent[k]
      /\ \A k \in 0..Len(sent) : EndOf(k)' = EndOf(k)
      /\ \A k : k = Len(sent) + 1 =>
             /\ EndOf(k)' = EndOf(k - 1) + Len(Pieces(cells))
             /\ sent'[k] = [route |-> m.route, query |-> m.query, body |-> m.body,
                            size |-> m.size, end |-> EndOf(k - 1) + Len(Pieces(cells))]
      /\ wire' \in Seq(IF link.packets THEN Seq(Cells) ELSE Cells)
      /\ Len(wire') = Len(wire) + Len(Pieces(cells))
      /\ \A i \in 1..Len(wire) : wire'[i] = wire[i]
      /\ \A i \in 1..Len(Pieces(cells)) : wire'[Len(wire) + i] = Pieces(cells)[i]
      /\ Taken' = Taken
  BY <1>0, <1>2, <1>4, AppendSent
<1>6. Len(p) \in Nat \ {0}
  BY <1>0, <1>4, PiecesTypes
<1>7. PICK k0 : k0 = K
  OBVIOUS
<1>8. k0 \in Nat /\ k0 - 1 = Len(sent) /\ EndOf(k0)' = EndOf(k0 - 1) + Len(p)
  <2>1. EndOf(k0)' = EndOf(k0 - 1) + Len(p)
    BY <1>5, <1>7, Zenon
  <2>2. Len(sent) \in Nat
    BY <1>1
  <2> QED BY <1>7, <2>1, <2>2
<1>9. EndOf(k0 - 1)' = EndOf(k0 - 1) /\ EndOf(k0 - 1) \in Nat
  <2>1. k0 - 1 \in 0..Len(sent)
    BY <1>1, <1>8
  <2> QED BY <1>1, <1>5, <2>1
<1>10. EndOf(frames)' = EndOf(frames)
  <2>1. PICK f : f = frames
    OBVIOUS
  <2>2. EndOf(f)' = EndOf(f)
    BY <1>1, <1>5, <2>1
  <2>3. EndOf(frames)' = EndOf(f)'
    BY <1>2, <2>1 DEF EndOf
  <2> QED BY <2>1, <2>2, <2>3
<1>11. TypeOK'
  BY <1>0, <1>1, <1>2, <1>5 DEF TypeOK
<1>12. Measured'
  <2> SUFFICES ASSUME NEW j \in 0..Len(sent'), NEW k \in 0..Len(sent'), j < k
               PROVE  EndOf(j)' < EndOf(k)'
    BY DEF Measured
  <2>1. j \in 0..Len(sent) /\ EndOf(j)' = EndOf(j) /\ EndOf(j) \in Nat
    BY <1>1, <1>5
  <2>2. CASE k <= Len(sent)
    <3>1. k \in 0..Len(sent)
      BY <1>1, <1>5, <2>2
    <3>2. EndOf(k)' = EndOf(k)
      BY <1>5, <3>1
    <3> QED BY <1>0, <2>1, <3>1, <3>2 DEF Measured
  <2>3. CASE ~(k <= Len(sent))
    <3>1. k = k0
      BY <1>1, <1>5, <1>7, <2>3
    <3>2. EndOf(j) <= EndOf(k0 - 1)
      <4>1. j = k0 - 1 \/ (j < k0 - 1 /\ k0 - 1 \in 0..Len(sent))
        BY <1>1, <1>8, <2>1
      <4> QED BY <1>0, <1>9, <2>1, <4>1 DEF Measured
    <3>3. EndOf(k)' = EndOf(k0 - 1) + Len(p)
      BY <1>8, <3>1
    <3> HIDE DEF p
    <3> QED BY <1>6, <1>9, <2>1, <3>2, <3>3
  <2> QED BY <2>2, <2>3
<1>13. ASSUME at # "dead", NEW k \in frames + 1..Len(sent), NEW c \in Frames(sent[k]), Lies(k, c)
       PROVE  Lies(k, c)'
  <2>1. k - 1 \in 0..Len(sent) /\ k \in 0..Len(sent) /\ Len(sent) \in 0..Len(sent)
    BY <1>1
  <2>2. EndOf(k)' = EndOf(k) /\ EndOf(k - 1)' = EndOf(k - 1) /\ Pieces(c)' = Pieces(c)
    BY <1>2, <1>5, <2>1, SameFrames
  <2>3. EndOf(k) \in Nat /\ EndOf(k - 1) \in Nat /\ EndOf(Len(sent)) \in Nat
    BY <1>1, <2>1
  <2>4. EndOf(k) <= EndOf(Len(sent)) /\ Len(wire) = EndOf(Len(sent)) - Taken
    <3>1. k = Len(sent) \/ k < Len(sent)
      BY <1>1
    <3>2. EndOf(k) <= EndOf(Len(sent))
      BY <1>0, <2>1, <2>3, <3>1 DEF Measured
    <3>3. Len(wire) \in Nat
      BY <1>1
    <3>4. Len(wire) = EndOf(Len(sent)) - Taken
      BY <2>3, <3>3 DEF Taken
    <3> QED BY <3>2, <3>4
  <2>5. Len(Pieces(c)) = EndOf(k) - EndOf(k - 1)
    BY <1>13 DEF Lies
  <2>6. ASSUME NEW i \in 1..Len(Pieces(c)), EndOf(k - 1) + i > Taken
        PROVE  wire'[EndOf(k - 1) + i - Taken] = Pieces(c)[i]
    <3>0. Taken \in Int /\ Len(wire) \in Nat /\ k \in Nat
      BY <1>1
    <3>a. i \in Int /\ i >= 1 /\ i <= EndOf(k) - EndOf(k - 1)
      BY <2>3, <2>5
    <3>1. EndOf(k - 1) + i - Taken \in 1..Len(wire)
      BY <3>0, <3>a, <2>3, <2>4, <2>6
    <3>2. wire[EndOf(k - 1) + i - Taken] = Pieces(c)[i]
      BY <1>13, <2>6 DEF Lies
    <3> QED BY <1>5, <3>1, <3>2
  <2> QED BY <1>5, <2>2, <2>5, <2>6 DEF Lies
<1>14. cells \in Frames(sent[k0])' /\ Lies(k0, cells)'
  <2>1. PICK r : r = sent'[k0]
    OBVIOUS
  <2>2. r.route = m.route /\ r.query = m.query /\ r.body = m.body /\ r.size = m.size
    <3>1. r = [route |-> m.route, query |-> m.query, body |-> m.body,
               size |-> m.size, end |-> EndOf(k0 - 1) + Len(Pieces(cells))]
      BY <1>5, <1>7, <2>1, Zenon
    <3> QED BY <3>1
  <2>3. Block(mode, r) = Block(mode, m) /\ Fits(mode, r)
    BY <2>2 DEF Block, Fits
  <2>4. cells \in Frames(r)
    BY <2>3 DEF Frames
  <2>5. Frames(r)' = Frames(r) /\ Pieces(cells)' = p
    BY <1>2, SameFrames
  <2>6. cells \in Frames(sent[k0])'
    BY <2>1, <2>4, <2>5
  <2>7. Len(p) = EndOf(k0)' - EndOf(k0 - 1)'
    <3> HIDE DEF p
    <3> QED BY <1>6, <1>8, <1>9
  <2>8. EndOf(k0 - 1) - Taken = Len(wire)
    BY <1>1, <1>8, <1>9 DEF Taken
  <2>9. ASSUME NEW i \in 1..Len(p)
        PROVE  wire'[EndOf(k0 - 1)' + i - Taken'] = p[i]
    <3>1. wire'[Len(wire) + i] = p[i]
      BY <1>5
    <3> HIDE DEF p
    <3>2. Taken' = Taken /\ Taken \in Int /\ Len(wire) \in Nat
      BY <1>1, <1>5
    <3>3. EndOf(k0 - 1)' + i - Taken' = Len(wire) + i
      BY <3>2, <1>6, <1>9, <2>8
    <3> QED BY <3>1, <3>3
  <2> QED BY <2>5, <2>6, <2>7, <2>9 DEF Lies
<1>15. Framed'
  <2> SUFFICES ASSUME at # "dead"
               PROVE  Framed'
    BY <1>2 DEF Framed
  <2>1. Taken' = EndOf(frames)' + (IF at' = "body" THEN 1 ELSE 0)
    BY <1>0, <1>2, <1>5, <1>10 DEF Framed
  <2>2. at' = "body" => ~link'.packets /\ frames' < Len(sent')
    BY <1>0, <1>1, <1>2, <1>5 DEF Framed
  <2>3. ASSUME NEW k \in frames' + 1..Len(sent')
        PROVE  \E c \in Frames(sent[k])' :
                   /\ Lies(k, c)'
                   /\ at' = "body" /\ k = frames' + 1 => msg'.head = c[1]
    <3>1. CASE k <= Len(sent)
      <4>1. k \in frames + 1..Len(sent)
        BY <1>1, <1>2, <1>5, <3>1
      <4>2. PICK c \in Frames(sent[k]) : /\ Lies(k, c)
                                         /\ at = "body" /\ k = frames + 1 => msg.head = c[1]
        BY <1>0, <4>1 DEF Framed
      <4>3. Lies(k, c)'
        BY <1>13, <4>1, <4>2
      <4>4. c \in Frames(sent[k])'
        <5>1. PICK r : r = sent[k]
          OBVIOUS
        <5>2. sent'[k] = r
          BY <1>1, <1>5, <4>1, <5>1
        <5>3. Frames(r)' = Frames(r)
          BY <1>2, SameFrames
        <5> QED BY <4>2, <5>1, <5>2, <5>3
      <4> QED BY <1>2, <4>2, <4>3, <4>4
    <3>2. CASE ~(k <= Len(sent))
      <4>1. k = k0
        BY <1>1, <1>2, <1>5, <1>7, <3>2
      <4>2. ~(at' = "body" /\ k = frames' + 1)
        BY <1>0, <1>1, <1>2, <1>7, <4>1 DEF Framed
      <4> QED BY <1>14, <4>1, <4>2
    <3> QED BY <3>1, <3>2
  <2> QED BY <2>1, <2>2, <2>3 DEF Framed
<1>16. Holding'
  <2>1. at = "handle" => frames > 0 /\ sent'[frames'] = sent[frames]
    BY <1>0, <1>1, <1>2, <1>5 DEF Holding
  <2> QED BY <1>0, <1>2, <2>1 DEF Holding, Fits, Block
<1> QED BY <1>11, <1>12, <1>15, <1>16 DEF IInv

\* Sending, with or without data, keeps the invariant.
LEMMA SendStep ==
    ASSUME IInv, Send \/ SendEmpty
    PROVE  IInv'
<1>1. TypeOK /\ link \in Links
  BY DEF IInv, TypeOK
<1>2. Len(sent) \in Nat
  BY <1>1, EndTypes
<1>3. CASE Send
  <2>1. PICK mode \in Modes, n \in Bodies, q \in Queries :
          LET query == IF mode = "path" THEN q ELSE <<>>
              body == [i \in 1..n |-> Cell("body", Len(sent) + 1)]
              block == Marshal(mode, FullPath(Route, query), body)
          IN  \E cells \in Bytes(mode, block) :
                 Transmit([route |-> Route, query |-> query, body |-> body,
                           size |-> Len(block)], cells)
    BY <1>3 DEF Send
  <2> DEFINE query == IF mode = "path" THEN q ELSE <<>>
             body == [i \in 1..n |-> Cell("body", Len(sent) + 1)]
             block == Marshal(mode, FullPath(Route, query), body)
             m == [route |-> Route, query |-> query, body |-> body, size |-> Len(block)]
  <2>2. PICK cells \in Bytes(mode, block) : Transmit(m, cells)
    BY <2>1
  <2>3. query \in Queries /\ (mode = "code" => query = <<>>)
    BY DEF Queries
  <2>4. body \in Seq(Plain)
    <3>1. n \in Nat /\ Cell("body", Len(sent) + 1) \in Plain
      BY <1>2, MessageAssumption DEF Cell, Plain
    <3> QED BY <3>1
  <2>5. FullPath(Route, query) \in Seq(Int)
    BY <2>3, PathTypes
  <2> HIDE DEF query, body
  <2>6. block \in Seq(Plain)
    BY <2>4, <2>5, MarshalTypes DEF LaidOut
  <2>7. Len(block) \in Nat
    BY <2>6
  <2>8. Block(mode, m) = block /\ Fits(mode, m)
    <3>1. Route # <<>>
      BY DEF Route
    <3>2. Block(mode, m) = block
      BY <3>1 DEF Block
    <3> QED BY <2>3, <3>2 DEF Fits
  <2> HIDE DEF block
  <2>9. m.route \in {<<>>, Route} /\ m.query \in Queries /\ m.body \in Seq(Plain) /\ m.size \in Nat
    BY <2>3, <2>4, <2>7
  <2>10. cells \in Bytes(mode, Block(mode, m))
    BY <2>2, <2>8
  <2> HIDE DEF m
  <2> QED BY <1>3, <2>2, <2>8, <2>9, <2>10, TransmitStep DEF Send
<1>4. CASE SendEmpty
  <2>1. PICK mode \in Modes : Transmit(NoRoute, <<HeadBytes(mode, 0)>>)
    BY <1>4 DEF SendEmpty
  <2>2. NoRoute.route = <<>> /\ NoRoute.query = <<>> /\ NoRoute.body = <<>> /\ NoRoute.size = 0
    BY DEF NoRoute
  <2>3. Block(mode, NoRoute) = <<>> /\ Fits(mode, NoRoute)
    BY <2>2 DEF Block, Fits
  <2>4. /\ NoRoute.query \in Queries /\ NoRoute.body \in Seq(Plain)
        /\ NoRoute.route \in {<<>>, Route} /\ NoRoute.size \in Nat
    BY <2>2 DEF Queries
  <2>6. UNCHANGED <<link, frames, got, msg, pool, at>>
    BY <1>4 DEF SendEmpty
  <2> DEFINE h == HeadBytes(mode, 0)
  <2>5. <<h>> \in Bytes(mode, <<>>)
    <3>1. Len(<<>>) = 0 /\ ~Compressed(0)
      BY <1>1, LinkTypes DEF Compressed
    <3>2. Bytes(mode, <<>>) = {<<h>> \o <<>>}
      BY <3>1 DEF Bytes
    <3> HIDE DEF h
    <3>3. <<h>> \o <<>> = <<h>>
      OBVIOUS
    <3> QED BY <3>2, <3>3
  <2>7. <<h>> \in Bytes(mode, Block(mode, NoRoute))
    BY <2>3, <2>5
  <2> QED BY <2>1, <2>3, <2>4, <2>6, <2>7, TransmitStep, Zenon
<1> QED BY <1>3, <1>4

\* The next frame of a receiver that waits for a head: it has started to arrive when
\* anything has.
LEMMA NextFrame ==
    ASSUME IInv, at = "head", wire # <<>>
    PROVE  /\ frames + 1 \in 1..Len(sent) /\ Taken = EndOf(frames)
           /\ \E cells \in Frames(sent[frames + 1]) :
                  Lies(frames + 1, cells) /\ wire[1] = Pieces(cells)[1]
<1>0. TypeOK /\ Measured /\ Framed
  BY DEF IInv
<1>1. Len(sent) \in Nat /\ Len(wire) \in Nat /\ frames \in Nat /\ frames <= Len(sent)
  BY <1>0, EndTypes DEF TypeOK
<1>2. EndOf(frames) \in Nat /\ EndOf(Len(sent)) \in Nat
  BY <1>0, <1>1, EndTypes, frames \in 0..Len(sent), Len(sent) \in 0..Len(sent)
<1>3. Len(wire) > 0
  BY <1>0, <1>1, EmptySeq DEF TypeOK
<1>4. Taken = EndOf(frames)
  BY <1>0, <1>2 DEF Framed
<1>5. frames # Len(sent)
  BY <1>1, <1>2, <1>3, <1>4 DEF Taken
<1>6. frames + 1 \in frames + 1..Len(sent)
  BY <1>1, <1>5
<1>7. PICK cells \in Frames(sent[frames + 1]) : Lies(frames + 1, cells)
  BY <1>0, <1>6 DEF Framed
<1>8. wire[1] = Pieces(cells)[1]
  <2>1. frames + 1 - 1 = frames /\ sent[frames + 1] \in Sents
    BY <1>0, <1>1, <1>6, EndTypes
  <2>2. cells \in Seq(Cells) /\ cells # <<>>
    BY <1>0, <2>1, FramesTypes DEF TypeOK
  <2>3. 1 \in 1..Len(Pieces(cells))
    BY <1>0, <2>2, PiecesTypes DEF TypeOK
  <2>4. EndOf(frames) + 1 > Taken => wire[EndOf(frames) + 1 - Taken] = Pieces(cells)[1]
    <3>1. PICK k : k = frames + 1
      OBVIOUS
    <3>2. EndOf(k - 1) + 1 > Taken => wire[EndOf(k - 1) + 1 - Taken] = Pieces(cells)[1]
      BY <1>7, <2>3, <3>1, Zenon DEF Lies
    <3>3. k - 1 = frames
      BY <1>1, <3>1
    <3> QED BY <3>2, <3>3, Zenon
  <2> QED BY <1>2, <1>4, <2>4
<1> QED BY <1>1, <1>4, <1>6, <1>7, <1>8

\* A disconnect keeps the invariant.
LEMMA DeadStep ==
    ASSUME IInv, at' = "dead", UNCHANGED <<link, sent, frames, got, msg>>,
           pool' = pool \cup {Leftover(msg)},
           NEW n \in 0..Len(wire), wire' = SubSeq(wire, n + 1, Len(wire))
    PROVE  IInv'
<1>0. TypeOK /\ Measured
  BY DEF IInv
<1>1. Leftover(msg) \in Plain
  BY <1>0, LeftoverType
<1>2. wire' \in Seq(IF link.packets THEN Seq(Cells) ELSE Cells)
  BY <1>0, TakeTypes DEF TypeOK
<1>3. TypeOK'
  BY <1>0, <1>1, <1>2 DEF TypeOK
<1>4. Measured'
  BY <1>0 DEF Measured, EndOf
<1>5. Framed' /\ Holding'
  BY DEF Framed, Holding
<1> QED BY <1>3, <1>4, <1>5 DEF IInv

\* Taking n pieces off the wire, the receiver moves on to where a frame ends, or to where
\* the data of the next frame begins.
LEMMA TakeStep ==
    ASSUME TypeOK, Measured, Framed, link' = link, sent' = sent, at # "dead",
           NEW n \in 0..Len(wire), wire' = SubSeq(wire, n + 1, Len(wire)),
           frames' \in frames..Len(sent),
           Taken + n = EndOf(frames') + (IF at' = "body" THEN 1 ELSE 0),
           at' = "body" => /\ ~link.packets /\ frames' = frames /\ frames < Len(sent)
                           /\ \E cells \in Frames(sent[frames + 1]) :
                                  Lies(frames + 1, cells) /\ msg'.head = cells[1]
    PROVE  Measured' /\ Framed' /\ wire' \in Seq(IF link.packets THEN Seq(Cells) ELSE Cells)
<1>1. wire' \in Seq(IF link.packets THEN Seq(Cells) ELSE Cells) /\ Len(wire') = Len(wire) - n
  BY TakeTypes DEF TypeOK
<1>2. Measured'
  BY DEF Measured, EndOf
<1>3. Len(sent) \in Nat /\ frames \in Nat /\ frames <= Len(sent) /\ link \in Links
  BY EndTypes DEF TypeOK
<1>4. Taken' = Taken + n
  <2>1. EndOf(Len(sent))' = EndOf(Len(sent))
    BY DEF EndOf
  <2>2. EndOf(Len(sent)) \in Nat /\ Len(wire) \in Nat
    BY <1>3, EndTypes, Len(sent) \in 0..Len(sent)
  <2> QED BY <1>1, <2>1, <2>2 DEF Taken
<1>5. EndOf(frames)' = EndOf(frames')
  BY DEF EndOf
<1>6. ASSUME NEW k \in frames' + 1..Len(sent), NEW cells \in Frames(sent[k]), Lies(k, cells)
      PROVE  Lies(k, cells)' /\ cells \in Frames(sent[k])'
  <2>1. k \in 1..Len(sent)
    BY <1>3
  <2>2. cells \in Seq(Cells) /\ cells # <<>>
    BY <1>3, <2>1, FramesTypes, EndTypes
  <2>3. Lies(k, cells)'
    BY <1>6, <2>1, <2>2, TakeLies
  <2>4. PICK r : r = sent[k]
    OBVIOUS
  <2>5. Frames(r)' = Frames(r) /\ sent'[k] = r
    BY <2>4, SameFrames
  <2> QED BY <1>6, <2>3, <2>4, <2>5
<1>7. ASSUME NEW k \in frames' + 1..Len(sent)
      PROVE  \E cells \in Frames(sent[k])' :
                 /\ Lies(k, cells)'
                 /\ at' = "body" /\ k = frames' + 1 => msg'.head = cells[1]
  <2>1. CASE at' = "body" /\ k = frames' + 1
    <3>1. PICK cells \in Frames(sent[k]) : Lies(k, cells) /\ msg'.head = cells[1]
      BY <2>1
    <3> QED BY <1>6, <3>1
  <2>2. CASE ~(at' = "body" /\ k = frames' + 1)
    <3>0. frames' \in Int /\ frames <= frames'
      BY <1>3
    <3>1. k \in frames + 1..Len(sent)
      <4>1. frames \in Int /\ Len(sent) \in Int
        BY <1>3
      <4> QED BY <3>0, <4>1, LaterInterval, Zenon
    <3>2. PICK cells \in Frames(sent[k]) : Lies(k, cells)
      BY <3>1 DEF Framed
    <3> QED BY <1>6, <2>2, <3>2
  <2> QED BY <2>1, <2>2
<1>8. Framed'
  BY <1>4, <1>5, <1>7 DEF Framed
<1> QED BY <1>1, <1>2, <1>8

\* A frame that was taken whole, with its block in the message object.
LEMMA FrameDone ==
    ASSUME IInv, at \in {"head", "body"}, frames + 1 \in 1..Len(sent), NEW mode \in Modes,
           Fits(mode, sent[frames + 1]), msg'.head \in Heads, msg'.head.mode = mode,
           msg' = [msg EXCEPT !.head = msg'.head, !.bytes = msg'.bytes],
           msg'.bytes = Block(mode, sent[frames + 1]),
           at' = "handle", frames' = frames + 1, UNCHANGED <<link, sent, got, pool>>,
           NEW n \in 0..Len(wire), wire' = SubSeq(wire, n + 1, Len(wire)),
           Taken + n = EndOf(frames + 1)
    PROVE  IInv'
<1>0. TypeOK /\ Measured /\ Framed
  BY DEF IInv
<1>1. Len(sent) \in Nat /\ frames \in Nat /\ sent[frames + 1] \in Sents
  BY <1>0, EndTypes
<1>2. Measured' /\ Framed' /\ wire' \in Seq(IF link.packets THEN Seq(Cells) ELSE Cells)
  <2>1. frames' \in frames..Len(sent)
    BY <1>1
  <2>2. EndOf(frames + 1) \in Int
    BY <1>0, EndTypes, frames + 1 \in 0..Len(sent)
  <2>3. Taken + n = EndOf(frames') + (IF at' = "body" THEN 1 ELSE 0)
    BY <2>2
  <2> QED BY <1>0, <2>1, <2>3, TakeStep
<1>3. Block(mode, sent[frames + 1]) \in Seq(Plain)
  BY <1>1, BlockTypes
<1>4. TypeOK'
  <2>1. msg' \in [head : Heads \cup {NoCell}, bytes : Seq(Plain), first : Plain]
    BY <1>0, <1>3 DEF TypeOK
  <2>2. got' \in Seq([n : 1..frames', route : Seq(Int), query : Seq(Int), body : Seq(Plain)])
    <3> DEFINE S == [n : 1..frames, route : Seq(Int), query : Seq(Int), body : Seq(Plain)]
               T == [n : 1..frames', route : Seq(Int), query : Seq(Int), body : Seq(Plain)]
    <3>1. 1..frames \subseteq 1..frames'
      BY <1>1
    <3>2. S \subseteq T
      BY <3>1
    <3>3. got \in Seq(S)
      BY <1>0 DEF TypeOK
    <3>4. got' = got
      OBVIOUS
    <3> HIDE DEF S, T
    <3>5. got \in Seq(T)
      BY <3>2, <3>3, SeqMonotonic
    <3> QED BY <3>4, <3>5 DEF T
  <2>3. frames' \in 0..Len(sent')
    BY <1>1
  <2> QED BY <1>0, <1>2, <2>1, <2>2, <2>3 DEF TypeOK
<1>5. Holding'
  <2>1. msg'.head # NoCell
    BY DEF Heads, NoCell, Cell
  <2>2. sent'[frames'] = sent[frames + 1] /\ frames' > 0
    BY <1>1
  <2> QED BY <2>1, <2>2 DEF Holding, Fits, Block
<1> QED BY <1>2, <1>4, <1>5 DEF IInv

\* What Filled may end in: a disconnect, or a block in the message object.
CutOff ==
    /\ at' = "dead" /\ UNCHANGED <<link, sent, frames, got, msg>>
    /\ pool' = pool \cup {Leftover(msg)}
TookBlock(head, block) ==
    /\ at' = "handle" /\ frames' = frames + 1 /\ UNCHANGED <<link, sent, got, pool>>
    /\ msg' = [msg EXCEPT !.head = head, !.bytes = block]

\* decompress makes the block of a frame, from the block or from its compressed form, or
\* the message ends with a disconnect.
LEMMA FilledStep ==
    ASSUME NEW head, NEW b, NEW block \in Seq(Plain), NEW n, Filled(head, b),
           IF head.zip THEN n \in ZipLens /\ (Unzips(b) => b[1] = Gzip(block, n)[1])
                       ELSE b = block
    PROVE  IF head.zip /\ ~Unzips(b)
           THEN CutOff
           ELSE TookBlock(head, block) /\ (head.zip => b = Gzip(block, n))
<1>1. CASE head.zip /\ Unzips(b)
  <2>1. b = Gzip(block, n) /\ b[1].of = block
    BY <1>1, UnzipsOnly, GzipTypes
  <2> QED BY <1>1, <2>1 DEF Filled, TookBlock
<1>2. CASE head.zip /\ ~Unzips(b)
  BY <1>2 DEF Filled, Fail, CutOff
<1>3. CASE ~head.zip
  BY <1>3 DEF Filled, TookBlock
<1> QED BY <1>1, <1>2, <1>3

\* A message object that was filled.
LEMMA MsgFilled ==
    ASSUME TypeOK, NEW head, NEW block, msg' = [msg EXCEPT !.head = head, !.bytes = block]
    PROVE  /\ msg'.head = head /\ msg'.bytes = block
           /\ msg' = [msg EXCEPT !.head = msg'.head, !.bytes = msg'.bytes]
BY DEF TypeOK

\* The head of a frame.
LEMMA HeadTypes ==
    ASSUME link \in Links, NEW mode \in Modes, NEW n \in Nat
    PROVE  /\ HeadBytes(mode, n) \in Heads /\ HeadBytes(mode, n).mode = mode
           /\ HeadBytes(mode, n).size = n /\ HeadBytes(mode, n).zip = Compressed(n)
BY LinkTypes DEF HeadBytes, Heads, Compressed

\* Why the connection is cut: a message above MaxDataSize, or a compressed one over TCP.
CutReason ==
    at' = "dead" => \/ \E i \in 1..Len(sent) : sent[i].size > MaxDataSize
                    \/ ~link.packets /\ link.zip > 0

\* ReadMessage over TCP, the head: behind it comes the data it names, if it names any.
LEMMA ReadHeadStep ==
    ASSUME IInv, ReadHead
    PROVE  IInv' /\ CutReason
<1>0. TypeOK /\ Measured /\ Framed /\ Holding /\ link \in Links
  BY DEF IInv, TypeOK
<1>1. at = "head" /\ ~link.packets /\ wire # <<>> /\ wire' = Tail(wire)
  BY DEF ReadHead
<1>2. wire \in Seq(Cells)
  BY <1>0, <1>1 DEF TypeOK
<1>3. 1 \in 0..Len(wire) /\ wire' = SubSeq(wire, 1 + 1, Len(wire)) /\ Head(wire) = wire[1]
  BY <1>1, <1>2, EmptySeq, TailIsSubSeq, HeadTailProperties
<1>4. /\ frames + 1 \in 1..Len(sent) /\ Taken = EndOf(frames)
      /\ \E cells \in Frames(sent[frames + 1]) :
             Lies(frames + 1, cells) /\ wire[1] = Pieces(cells)[1]
  BY <1>1, NextFrame
<1> DEFINE m == sent[frames + 1]
<1>5. PICK cells \in Frames(m) : Lies(frames + 1, cells) /\ wire[1] = Pieces(cells)[1]
  BY <1>4
<1>6. /\ Len(sent) \in Nat /\ frames \in Nat /\ m \in Sents
      /\ EndOf(frames) \in Nat /\ EndOf(frames + 1) \in Nat /\ frames + 1 - 1 = frames
  BY <1>0, <1>4, EndTypes, frames \in 0..Len(sent), frames + 1 \in 0..Len(sent) DEF TypeOK
<1>7. PICK mode \in Modes :
        /\ Fits(mode, m) /\ cells \in Bytes(mode, Block(mode, m))
        /\ Block(mode, m) \in Seq(Plain) /\ cells \in Seq(Cells) /\ cells # <<>>
        /\ cells[1] = HeadBytes(mode, m.size)
  BY <1>0, <1>6, FramesTypes
<1>8. Head(wire) = HeadBytes(mode, m.size) /\ m.size \in Nat
  <2>1. Pieces(cells) = cells
    BY <1>1 DEF Pieces
  <2>2. m.size \in Nat
    BY <1>6 DEF Sents
  <2> QED BY <1>3, <1>5, <1>7, <2>1, <2>2
<1>9. /\ Head(wire) \in Heads /\ Head(wire).mode = mode /\ Head(wire).size = m.size
  BY <1>0, <1>8, HeadTypes
<1>10. CASE ~Legal(Head(wire))
  <2>1. Fail /\ msg' = msg
    BY <1>10 DEF ReadHead
  <2>2. at' = "dead" /\ UNCHANGED <<link, sent, frames, got, msg>>
        /\ pool' = pool \cup {Leftover(msg)}
    BY <2>1 DEF Fail
  <2>3. CutReason
    <3>1. m.size > MaxDataSize
      BY <1>8, <1>9, <1>10, MessageAssumption DEF Legal, Heads
    <3> QED BY <1>4, <3>1 DEF CutReason
  <2> QED BY <1>3, <2>2, <2>3, DeadStep
<1>11. CASE Legal(Head(wire)) /\ Head(wire).size = 0
  <2>1. /\ msg' = [msg EXCEPT !.head = Head(wire)] /\ at' = "handle" /\ frames' = frames + 1
        /\ UNCHANGED <<link, sent, got, pool>>
    BY <1>11 DEF ReadHead
  <2>2. Block(mode, m) = <<>> /\ Len(Block(mode, m)) = 0
    BY <1>7, <1>9, <1>11, EmptySeq DEF Fits
  <2>3. msg.bytes = <<>>
    BY <1>0, <1>1 DEF Holding
  <2>4. msg'.head = Head(wire) /\ msg'.bytes = Block(mode, m)
        /\ msg' = [msg EXCEPT !.head = msg'.head, !.bytes = msg'.bytes]
    BY <1>0, <2>1, <2>2, <2>3 DEF TypeOK
  <2>5. Len(cells) = 1
    <3>1. ~Compressed(0)
      BY <1>0, LinkTypes DEF Compressed
    <3>2. Tail(cells) = <<>> /\ Len(cells) = Len(Tail(cells)) + 1
      BY <1>0, <1>7, <2>2, <3>1, BytesTypes
    <3>3. PICK n : n = Len(Tail(cells))
      OBVIOUS
    <3>4. n = 0
      BY <2>2, <3>2, <3>3, Zenon
    <3>5. Len(cells) = n + 1
      BY <3>2, <3>3, Zenon
    <3> QED BY <3>4, <3>5
  <2>6. Taken + 1 = EndOf(frames + 1)
    <3>1. PICK k : k = frames + 1
      OBVIOUS
    <3>2. Len(Pieces(cells)) = EndOf(k) - EndOf(k - 1)
      BY <1>5, <3>1, Zenon DEF Lies
    <3>3. k - 1 = frames
      BY <1>6, <3>1
    <3>4. 1 = EndOf(frames + 1) - EndOf(frames)
      BY <1>1, <2>5, <3>1, <3>2, <3>3 DEF Pieces
    <3> QED BY <1>4, <1>6, <3>4
  <2> HIDE DEF m
  <2> QED BY <1>1, <1>3, <1>4, <1>7, <1>9, <2>1, <2>4, <2>6, FrameDone DEF m, CutReason
<1>12. CASE Legal(Head(wire)) /\ Head(wire).size # 0
  <2>1. /\ msg' = [msg EXCEPT !.head = Head(wire)] /\ at' = "body" /\ frames' = frames
        /\ UNCHANGED <<link, sent, got, pool>>
    BY <1>12 DEF ReadHead
  <2>2. /\ msg'.head = cells[1] /\ msg'.bytes = <<>>
        /\ msg' \in [head : Heads \cup {NoCell}, bytes : Seq(Plain), first : Plain]
    BY <1>0, <1>1, <1>7, <1>8, <1>9, <2>1 DEF TypeOK, Holding
  <2>3. Measured' /\ Framed' /\ wire' \in Seq(IF link.packets THEN Seq(Cells) ELSE Cells)
    <3>1. frames' \in frames..Len(sent) /\ frames < Len(sent)
      BY <1>4, <1>6, <2>1
    <3>2. Taken + 1 = EndOf(frames') + (IF at' = "body" THEN 1 ELSE 0)
      BY <1>4, <1>6, <2>1
    <3> QED BY <1>0, <1>1, <1>3, <1>5, <2>1, <2>2, <3>1, <3>2, TakeStep
  <2>4. TypeOK' /\ Holding'
    BY <1>0, <2>1, <2>2, <2>3 DEF TypeOK, Holding
  <2> QED BY <2>1, <2>3, <2>4 DEF IInv, CutReason
<1> QED BY <1>10, <1>11, <1>12

\* ReadMessage over TCP, the data: exactly the block of the frame, or a disconnect.
LEMMA ReadBodyStep ==
    ASSUME IInv, ReadBody
    PROVE  IInv' /\ CutReason
<1>0. TypeOK /\ Measured /\ Framed /\ Holding /\ link \in Links
  BY DEF IInv, TypeOK
<1>1. /\ at = "body" /\ ~link.packets /\ frames < Len(sent)
      /\ Taken = EndOf(frames) + 1
      /\ \E cells \in Frames(sent[frames + 1]) :
             Lies(frames + 1, cells) /\ msg.head = cells[1]
  <2>1. at = "body"
    BY DEF ReadBody
  <2>2. frames \in Nat /\ Len(sent) \in Nat
    BY <1>0, EndTypes
  <2>3. ~link.packets /\ frames < Len(sent) /\ Taken = EndOf(frames) + 1
    BY <1>0, <2>1 DEF Framed
  <2>4. frames + 1 \in frames + 1..Len(sent)
    BY <2>2, <2>3
  <2> QED BY <1>0, <2>1, <2>3, <2>4 DEF Framed
<1> DEFINE m == sent[frames + 1]
<1>2. PICK cells \in Frames(m) : Lies(frames + 1, cells) /\ msg.head = cells[1]
  BY <1>1
<1>3. /\ Len(sent) \in Nat /\ frames \in Nat /\ m \in Sents /\ frames + 1 \in 1..Len(sent)
      /\ EndOf(frames) \in Nat /\ EndOf(frames + 1) \in Nat /\ frames + 1 - 1 = frames
      /\ m.size \in Nat
  <2>1. frames \in Nat /\ Len(sent) \in Nat
    BY <1>0, EndTypes
  <2>2. frames + 1 \in 1..Len(sent) /\ frames \in 0..Len(sent) /\ frames + 1 \in 0..Len(sent)
    BY <1>1, <2>1
  <2>3. m \in Sents
    BY <1>0, <2>2, EndTypes
  <2>4. m.size \in Nat
    BY <2>3 DEF Sents
  <2> QED BY <1>0, <2>1, <2>2, <2>3, <2>4, EndTypes
<1>4. PICK mode \in Modes :
        /\ Fits(mode, m) /\ cells \in Bytes(mode, Block(mode, m))
        /\ Block(mode, m) \in Seq(Plain) /\ cells \in Seq(Cells) /\ cells # <<>>
        /\ cells[1] = HeadBytes(mode, m.size)
  BY <1>0, <1>3, FramesTypes
<1> DEFINE block == Block(mode, m)
           n == m.size
           b == SubSeq(wire, 1, n)
<1>5. /\ msg.head \in Heads /\ msg.head.mode = mode /\ msg.head.size = n
      /\ msg.head.zip = Compressed(n)
  BY <1>0, <1>2, <1>3, <1>4, HeadTypes
<1>6. /\ Len(wire) >= n /\ wire' = SubSeq(wire, n + 1, Len(wire)) /\ Filled(msg.head, b)
  BY <1>5 DEF ReadBody
<1>7. /\ wire \in Seq(Cells) /\ Len(wire) \in Nat /\ n \in 0..Len(wire)
  BY <1>0, <1>1, <1>3, <1>6 DEF TypeOK
<1>8. b \in Seq(Cells) /\ Len(b) = n /\ \A i \in 1..n : b[i] = wire[i]
  BY <1>7
<1> DEFINE t == Tail(cells)
<1>9. /\ Len(cells) = Len(t) + 1 /\ t \in Seq(Cells)
      /\ \A i \in 1..Len(t) : cells[i + 1] = t[i]
      /\ IF Compressed(Len(block)) THEN \E z \in ZipLens : t = Gzip(block, z)
                                   ELSE t = block
  BY <1>0, <1>4, BytesTypes
<1>10. Len(block) = n
  BY <1>4 DEF Fits
<1>11. Len(cells) = EndOf(frames + 1) - EndOf(frames)
  <2>1. PICK k : k = frames + 1
    OBVIOUS
  <2>2. Len(Pieces(cells)) = EndOf(k) - EndOf(k - 1)
    BY <1>2, <2>1, Zenon DEF Lies
  <2>3. k - 1 = frames
    BY <1>3, <2>1
  <2> QED BY <1>1, <2>1, <2>2, <2>3 DEF Pieces
\* What lies on the wire is the frame behind its head.
<1>12. ASSUME NEW i \in 1..n, i <= Len(t) PROVE b[i] = t[i]
  <2>1. PICK k : k = frames + 1
    OBVIOUS
  <2>2. k - 1 = frames
    BY <1>3, <2>1
  <2>3. i \in Nat /\ i \in 1..Len(t) /\ i + 1 \in 1..Len(cells)
    <3>1. Len(t) \in Nat
      BY <1>9
    <3> QED BY <1>3, <1>9, <1>12, <3>1
  <2>4. EndOf(k - 1) + (i + 1) > Taken =>
            wire[EndOf(k - 1) + (i + 1) - Taken] = cells[i + 1]
    <3>1. Pieces(cells) = cells
      BY <1>1 DEF Pieces
    <3>2. Lies(k, cells)
      BY <1>2, <2>1
    <3> QED BY <2>3, <3>1, <3>2, Zenon DEF Lies
  <2>5. EndOf(k - 1) + (i + 1) > Taken /\ EndOf(k - 1) + (i + 1) - Taken = i
    BY <1>1, <1>3, <2>2, <2>3
  <2>6. wire[i] = cells[i + 1]
    BY <2>4, <2>5
  <2> QED BY <1>8, <1>9, <2>3, <2>6
<1> HIDE DEF b, n, block, m, t
<1>13. PICK z : IF Compressed(n) THEN z \in ZipLens /\ t = Gzip(block, z)
                                 ELSE t = block
  BY <1>9, <1>10
<1>14. block \in Seq(Plain)
  BY <1>4 DEF block
<1>15. ASSUME ~Compressed(n) PROVE b = block
  <2>1. t = block /\ block \in Seq(Cells)
    BY <1>9, <1>13, <1>15
  <2>2. \A i \in 1..n : b[i] = block[i]
    <3>1. \A i \in 1..n : i <= Len(t)
      BY <1>7, <1>10, <2>1
    <3> QED BY <1>12, <2>1, <3>1, Zenon
  <2> QED BY <1>8, <1>10, <2>1, <2>2, SeqEqual
<1>16. ASSUME Compressed(n)
       PROVE  z \in ZipLens /\ (Unzips(b) => b[1] = Gzip(block, z)[1])
  <2>1. z \in ZipLens /\ t = Gzip(block, z)
    BY <1>13, <1>16
  <2>2. ASSUME Unzips(b) PROVE b[1] = Gzip(block, z)[1]
    <3>1. n >= 1 /\ 1 \in 1..n
      BY <1>7, <1>8, <2>2, EmptySeq DEF Unzips
    <3>2. Len(t) >= 1
      <4>1. z \in Nat \ {0} /\ Len(Gzip(block, z)) = z
        BY <1>14, <2>1, GzipTypes
      <4> QED BY <2>1, <4>1
    <3> QED BY <1>12, <2>1, <3>1, <3>2
  <2> QED BY <2>1, <2>2
<1>a. PICK head, cb, cblock : head = msg.head /\ cb = b /\ cblock = block
  OBVIOUS
<1>b. IF head.zip /\ ~Unzips(cb)
      THEN CutOff
      ELSE TookBlock(head, cblock) /\ (head.zip => cb = Gzip(cblock, z))
  <2>1. Filled(head, cb) /\ cblock \in Seq(Plain)
    BY <1>6, <1>14, <1>a
  <2>2. IF head.zip THEN z \in ZipLens /\ (Unzips(cb) => cb[1] = Gzip(cblock, z)[1])
                    ELSE cb = cblock
    BY <1>5, <1>15, <1>16, <1>a
  <2> QED BY <2>1, <2>2, FilledStep
<1>17. CASE head.zip /\ CutOff
  <2>1. /\ at' = "dead" /\ UNCHANGED <<link, sent, frames, got, msg>>
        /\ pool' = pool \cup {Leftover(msg)}
    BY <1>17 DEF CutOff
  <2>2. CutReason
    BY <1>1, <1>5, <1>17, <1>a DEF CutReason, Compressed
  <2> QED BY <1>6, <1>7, <2>1, <2>2, DeadStep
<1>18. CASE TookBlock(head, cblock) /\ (head.zip => cb = Gzip(cblock, z))
  <2>1. /\ at' = "handle" /\ frames' = frames + 1 /\ UNCHANGED <<link, sent, got, pool>>
        /\ msg' = [msg EXCEPT !.head = msg.head, !.bytes = block]
        /\ msg.head.zip => b = Gzip(block, z)
    BY <1>a, <1>18 DEF TookBlock
  <2>2. /\ msg'.head = msg.head /\ msg'.bytes = block
        /\ msg' = [msg EXCEPT !.head = msg'.head, !.bytes = msg'.bytes]
    BY <1>0, <2>1, MsgFilled
  <2>3. Len(t) = n
    <3>1. CASE Compressed(n)
      <4>1. b = Gzip(block, z) /\ t = Gzip(block, z)
        BY <1>5, <1>13, <2>1, <3>1
      <4> QED BY <1>8, <4>1
    <3>2. CASE ~Compressed(n)
      BY <1>10, <1>13, <3>2
    <3> QED BY <3>1, <3>2
  <2>4. Taken + n = EndOf(frames + 1)
    <3>1. Len(cells) = n + 1 /\ n \in Nat
      BY <1>7, <1>9, <2>3
    <3>2. Taken = EndOf(frames) + 1
      BY <1>1
    <3> QED BY <1>3, <1>11, <3>1, <3>2
  <2>5. Fits(mode, sent[frames + 1]) /\ block = Block(mode, sent[frames + 1])
    BY <1>4 DEF block, m
  <2> QED BY <1>1, <1>3, <1>5, <1>6, <1>7, <2>1, <2>2, <2>4, <2>5, FrameDone DEF CutReason
<1> QED BY <1>b, <1>17, <1>18

\* ReadMessage of a packet: it is the frame.
LEMMA ResetStep ==
    ASSUME IInv, Reset
    PROVE  IInv' /\ CutReason
<1>0. TypeOK /\ Measured /\ Framed /\ Holding /\ link \in Links
  BY DEF IInv, TypeOK
<1>1. at = "head" /\ link.packets /\ wire # <<>> /\ wire' = Tail(wire)
  BY DEF Reset
<1>2. wire \in Seq(Seq(Cells))
  BY <1>0, <1>1 DEF TypeOK
<1>3. 1 \in 0..Len(wire) /\ wire' = SubSeq(wire, 1 + 1, Len(wire)) /\ Head(wire) = wire[1]
  BY <1>1, <1>2, EmptySeq, TailIsSubSeq, HeadTailProperties
<1>4. /\ frames + 1 \in 1..Len(sent) /\ Taken = EndOf(frames)
      /\ \E cells \in Frames(sent[frames + 1]) :
             Lies(frames + 1, cells) /\ wire[1] = Pieces(cells)[1]
  BY <1>1, NextFrame
<1> DEFINE m == sent[frames + 1]
<1>5. PICK cells \in Frames(m) : Lies(frames + 1, cells) /\ wire[1] = Pieces(cells)[1]
  BY <1>4
<1>6. /\ Len(sent) \in Nat /\ frames \in Nat /\ m \in Sents
      /\ EndOf(frames) \in Nat /\ EndOf(frames + 1) \in Nat /\ frames + 1 - 1 = frames
  BY <1>0, <1>4, EndTypes, frames \in 0..Len(sent), frames + 1 \in 0..Len(sent) DEF TypeOK
<1>7. PICK mode \in Modes :
        /\ Fits(mode, m) /\ cells \in Bytes(mode, Block(mode, m))
        /\ Block(mode, m) \in Seq(Plain) /\ cells \in Seq(Cells) /\ cells # <<>>
        /\ cells[1] = HeadBytes(mode, m.size)
  BY <1>0, <1>6, FramesTypes
<1> DEFINE block == Block(mode, m)
           t == Tail(cells)
<1>8. Head(wire) = cells /\ Len(Pieces(cells)) = 1
  BY <1>0, <1>1, <1>3, <1>5, <1>7, PiecesTypes
<1>9. /\ cells[1] \in Heads /\ cells[1].mode = mode /\ cells[1].zip = Compressed(m.size)
      /\ cells[1].size = m.size /\ m.size \in Nat
  <2>1. m.size \in Nat
    BY <1>6 DEF Sents
  <2> QED BY <1>0, <1>7, <2>1, HeadTypes
<1>10. Len(block) = m.size
  BY <1>7 DEF Fits
<1>11. PICK z : IF Compressed(m.size) THEN z \in ZipLens /\ t = Gzip(block, z)
                                      ELSE t = block
  <2>1. IF Compressed(Len(block)) THEN \E z \in ZipLens : t = Gzip(block, z) ELSE t = block
    BY <1>0, <1>7, BytesTypes
  <2> HIDE DEF block, t
  <2> QED BY <1>10, <2>1
<1>12. Taken + 1 = EndOf(frames + 1)
  <2>1. PICK k : k = frames + 1
    OBVIOUS
  <2>2. Len(Pieces(cells)) = EndOf(k) - EndOf(k - 1)
    BY <1>5, <2>1, Zenon DEF Lies
  <2>3. k - 1 = frames
    BY <1>6, <2>1
  <2>4. 1 = EndOf(frames + 1) - EndOf(frames)
    BY <1>8, <2>1, <2>2, <2>3
  <2> QED BY <1>4, <1>6, <2>4
<1>13. CASE ~Legal(cells[1])
  <2>1. Fail /\ msg' = msg
    BY <1>8, <1>13 DEF Reset
  <2>2. at' = "dead" /\ UNCHANGED <<link, sent, frames, got, msg>>
        /\ pool' = pool \cup {Leftover(msg)}
    BY <2>1 DEF Fail
  <2>3. CutReason
    <3>1. m.size > MaxDataSize
      BY <1>9, <1>13, MessageAssumption DEF Legal, Heads
    <3> QED BY <1>4, <3>1 DEF CutReason
  <2> QED BY <1>3, <2>2, <2>3, DeadStep
<1>14. CASE Legal(cells[1])
  <2>1. Filled(cells[1], t)
    BY <1>8, <1>14 DEF Reset
  <2> HIDE DEF block, t
  <2>2. PICK head, ct, cblock : head = cells[1] /\ ct = t /\ cblock = block
    OBVIOUS
  <2>3. cblock \in Seq(Plain) /\ Filled(head, ct)
    BY <1>7, <2>1, <2>2 DEF block
  <2>4. IF head.zip THEN z \in ZipLens /\ ct = Gzip(cblock, z) ELSE ct = cblock
    BY <1>9, <1>11, <2>2
  <2>5. head.zip => Unzips(ct)
    BY <2>3, <2>4, GzipTypes
  <2>6. TookBlock(head, cblock)
    BY <2>3, <2>4, <2>5, FilledStep
  <2>7. /\ at' = "handle" /\ frames' = frames + 1 /\ UNCHANGED <<link, sent, got, pool>>
        /\ msg' = [msg EXCEPT !.head = head, !.bytes = cblock]
    BY <2>6 DEF TookBlock
  <2>8. /\ msg'.head = head /\ msg'.bytes = block
        /\ msg' = [msg EXCEPT !.head = msg'.head, !.bytes = msg'.bytes]
    BY <1>0, <2>2, <2>7, MsgFilled
  <2>9. Fits(mode, sent[frames + 1]) /\ block = Block(mode, sent[frames + 1])
    BY <1>7 DEF block
  <2> HIDE DEF m
  <2> QED BY <1>1, <1>3, <1>4, <1>9, <1>12, <2>2, <2>7, <2>8, <2>9, FrameDone DEF CutReason
<1> QED BY <1>13, <1>14

-----------------------------------------------------------------------------
(* What the handler is called with.                                        *)

\* Path divides what was joined at the first ?.
LEMMA SplitPath ==
    ASSUME NEW q \in Queries
    PROVE  LET path == FullPath(Route, q)
               mark == SelectInSeq(path, LAMBDA c : c = Mark)
           IN  /\ mark \in Int
               /\ mark = 0 => path = Route /\ q = <<>>
               /\ mark # 0 => /\ SubSeq(path, 1, mark - 1) = Route
                              /\ SubSeq(path, mark + 1, Len(path)) = q
<1> DEFINE path == FullPath(Route, q)
           I == {i \in 1..Len(path) : path[i] = Mark}
           mark == SelectInSeq(path, LAMBDA c : c = Mark)
<1>0. Route \in Seq(Int) /\ q \in Seq(Int) /\ path \in Seq(Int) /\ Len(Route) = 1 /\ Route[1] = 1
  BY PathTypes DEF Route
<1>1. mark = IF I # {} THEN CHOOSE x \in I : \A y \in I : x <= y ELSE 0
  BY DEF SelectInSeq, Min
<1>2. CASE q = <<>>
  <2>1. path = Route
    BY <1>2 DEF FullPath
  <2> HIDE DEF mark, path
  <2>2. I = {}
    BY <1>0, <2>1 DEF Mark
  <2>3. mark = 0 /\ mark \in Int
    BY <1>1, <2>2
  <2>4. /\ mark = 0 => path = Route /\ q = <<>>
        /\ mark # 0 => /\ SubSeq(path, 1, mark - 1) = Route
                       /\ SubSeq(path, mark + 1, Len(path)) = q
    BY <1>2, <2>1, <2>3, Zenon
  <2> QED BY <2>3, <2>4, Zenon DEF mark, path
<1>3. CASE q # <<>>
  <2> DEFINE o == <<Mark>>
             r == Route
  <2>1. path = r \o o \o q
    BY <1>3 DEF FullPath
  <2>2. r \in Seq(Int) /\ o \in Seq(Int) /\ Len(r) = 1 /\ Len(o) = 1 /\ r[1] = 1 /\ o[1] = Mark
    BY DEF Route, Mark
  <2>3. q \in Seq(Int) /\ Len(q) \in Nat
    BY <1>0
  <2> HIDE DEF path, mark, o, r
  <2> DEFINE p == r \o o \o q
  <2>4. /\ Len(p) = 2 + Len(q) /\ p[1] = r[1] /\ p[2] = o[1]
        /\ \A i \in 1..Len(q) : p[2 + i] = q[i]
    BY <2>2, <2>3, JoinThree
  <2> HIDE DEF p
  <2>5. path = p
    BY <2>1 DEF p
  <2>6. /\ Len(q) \in Nat /\ Len(path) = 2 + Len(q) /\ path[1] = 1 /\ path[2] = Mark
        /\ \A i \in 1..Len(q) : path[2 + i] = q[i]
    BY <2>2, <2>3, <2>4, <2>5
  <2> HIDE DEF path, mark
  <2>7. 2 \in I /\ \A y \in I : 2 <= y
    BY <2>6 DEF Mark
  <2>8. \A x \in I : (\A y \in I : x <= y) => x = 2
    BY <2>7
  <2> HIDE DEF I
  <2>9. mark = CHOOSE x \in I : \A y \in I : x <= y
    BY <1>1, <2>7
  <2>10. mark = 2
    BY <2>7, <2>8, <2>9
  <2>11. SubSeq(path, 1, 1) = Route
    <3>1. \A i \in 1..1 : path[i] \in Int
      BY <2>6
    <3>2. /\ SubSeq(path, 1, 1) \in Seq(Int) /\ Len(SubSeq(path, 1, 1)) = 1
          /\ \A i \in 1..1 : SubSeq(path, 1, 1)[i] = path[1 + i - 1]
      BY <3>1, SubSeqProperties
    <3>3. SubSeq(path, 1, 1)[1] = 1
      BY <2>6, <3>2
    <3> QED BY <1>0, <3>2, <3>3, SeqEqual
  <2>12. SubSeq(path, 3, Len(path)) = q
    <3> DEFINE t == SubSeq(path, 3, Len(path))
    <3>1. 2 \in 0..Len(path) /\ 2 + 1 = 3
      BY <2>6
    <3>2. /\ t \in Seq(Int) /\ Len(t) = Len(path) - 2
          /\ \A i \in 1..Len(path) - 2 : t[i] = path[2 + i]
      BY <1>0, <3>1, TakeTypes
    <3> HIDE DEF t
    <3>3. Len(t) = Len(q) /\ \A i \in 1..Len(t) : t[i] = q[i]
      BY <2>6, <3>2
    <3>4. t = q
      BY <1>0, <3>2, <3>3, SeqEqual
    <3> QED BY <3>4 DEF t
  <2>13. mark - 1 = 1 /\ mark + 1 = 3 /\ mark # 0 /\ mark \in Int
    BY <2>10
  <2>14. SubSeq(path, 1, mark - 1) = Route /\ SubSeq(path, mark + 1, Len(path)) = q
    BY <2>11, <2>12, <2>13
  <2> QED BY <2>13, <2>14 DEF path, mark
<1> QED BY <1>2, <1>3

\* The code read from a block is the one it was marshalled with.
LEMMA CodeOfBlock ==
    ASSUME msg.bytes # <<>>, NEW c, msg.bytes[1] = Cell("code", c)
    PROVE  Code = c /\ ~CodePanics
BY DEF Code, FirstOf, Number, Cell, CodePanics

\* The characters of a path, read back from a block.
LEMMA TextOfBlock ==
    ASSUME NEW path \in Seq(Int), NEW b \in Seq(Plain), Len(path) + 1 <= Len(b),
           \A i \in 1..Len(path) : b[i + 1] = Cell("char", path[i])
    PROVE  Text(SubSeq(b, 2, Len(path) + 1)) = path
<1> DEFINE s == SubSeq(b, 2, Len(path) + 1)
<1>1. Len(path) \in Nat /\ Len(b) \in Nat /\ \A i \in 2..Len(path) + 1 : b[i] \in Plain
  BY ElementOfSeq
<1>2. /\ s \in Seq(Plain)
      /\ Len(s) = IF 2 <= Len(path) + 1 THEN Len(path) + 1 - 2 + 1 ELSE 0
      /\ \A i \in 1..Len(path) + 1 - 2 + 1 : s[i] = b[2 + i - 1]
  BY <1>1, SubSeqProperties
<1> HIDE DEF s
<1>3. Len(s) = Len(path)
  BY <1>1, <1>2
<1>4. ASSUME NEW i \in 1..Len(path) PROVE s[i].value = path[i]
  <2>1. i \in 1..Len(path) + 1 - 2 + 1 /\ 2 + i - 1 = i + 1
    BY <1>1
  <2>2. s[i] = Cell("char", path[i])
    BY <1>2, <2>1
  <2> QED BY <2>2 DEF Cell
<1>5. Text(s) = [i \in 1..Len(path) |-> path[i]]
  BY <1>3, <1>4 DEF Text
<1>6. path = [i \in 1..Len(path) |-> path[i]]
  OBVIOUS
<1> QED BY <1>5, <1>6 DEF s

\* The body, read back from a block.
LEMMA RestOfBlock ==
    ASSUME NEW b \in Seq(Plain), NEW body \in Seq(Plain), NEW n \in Nat,
           Len(b) = n + Len(body), \A i \in 1..Len(body) : b[n + i] = body[i]
    PROVE  SubSeq(b, n + 1, Len(b)) = body
<1> DEFINE t == SubSeq(b, n + 1, Len(b))
<1>1. Len(b) \in Nat /\ Len(body) \in Nat /\ n \in 0..Len(b)
  OBVIOUS
<1>2. t \in Seq(Plain) /\ Len(t) = Len(b) - n /\ \A i \in 1..Len(b) - n : t[i] = b[n + i]
  BY <1>1, TakeTypes
<1> HIDE DEF t
<1>3. Len(t) = Len(body) /\ \A i \in 1..Len(t) : t[i] = body[i]
  <2>1. Len(t) = Len(body) /\ Len(b) - n = Len(body)
    BY <1>1, <1>2
  <2> QED BY <1>2, <2>1, Zenon
<1>4. t = body
  BY <1>2, <1>3, SeqEqual
<1> QED BY <1>4 DEF t

\* From the block of a message, Path and Body give what it was made from.
LEMMA Received ==
    ASSUME TypeOK, NEW m \in Sents, m.route # <<>>, msg.head.mode \in Modes,
           Fits(msg.head.mode, m), msg.bytes = Block(msg.head.mode, m)
    PROVE  /\ ~CodePanics /\ PathLegal
           /\ Path.route = m.route /\ Path.query = m.query /\ Body = m.body
<1> DEFINE path == FullPath(Route, m.query)
<1>a. PICK mode, b : mode = msg.head.mode /\ b = msg.bytes
  OBVIOUS
<1> DEFINE c == IF mode = "path" THEN Len(path) ELSE 1
           n == IF mode = "path" THEN Len(path) + 1 ELSE 1
<1>1. m.route = Route /\ m.query \in Queries /\ m.body \in Seq(Plain)
  BY DEF Sents
<1>2. path \in Seq(Int) /\ Len(path) \in Nat \ {0}
  BY <1>1, PathTypes
<1>3. b = Marshal(mode, path, m.body) /\ Fits(mode, m) /\ mode \in Modes
  BY <1>a, <1>1 DEF Block
<1> HIDE DEF path
<1>4. /\ b \in Seq(Plain) /\ Len(b) = n + Len(m.body) /\ b # <<>>
      /\ b[1] = Cell("code", c)
      /\ mode = "path" => \A i \in 1..Len(path) : b[i + 1] = Cell("char", path[i])
      /\ \A i \in 1..Len(m.body) : b[n + i] = m.body[i]
  <2>0. path \in Seq(Int) /\ m.body \in Seq(Plain) /\ b = Marshal(mode, path, m.body)
    BY <1>1, <1>2, <1>3
  <2>1. /\ b \in Seq(Plain) /\ b # <<>>
        /\ mode = "path" =>
               /\ Len(b) = Len(path) + 1 + Len(m.body)
               /\ b[1] = Cell("code", Len(path))
               /\ \A i \in 1..Len(path) : b[i + 1] = Cell("char", path[i])
               /\ \A i \in 1..Len(m.body) : b[Len(path) + 1 + i] = m.body[i]
        /\ mode # "path" =>
               /\ Len(b) = 1 + Len(m.body)
               /\ b[1] = Cell("code", 1)
               /\ \A i \in 1..Len(m.body) : b[1 + i] = m.body[i]
    <3>1. LaidOut(b, mode, path, m.body)
      BY <2>0, MarshalTypes
    <3> QED BY <3>1, Zenon DEF LaidOut
  <2>2. CASE mode = "path"
    <3>1. c = Len(path) /\ n = Len(path) + 1
      BY <2>2
    <3> HIDE DEF c, n
    <3> QED BY <2>1, <2>2, <3>1, Zenon
  <2>3. CASE mode # "path"
    <3>1. c = 1 /\ n = 1
      BY <2>3
    <3> HIDE DEF c, n
    <3> QED BY <2>1, <2>3, <3>1, Zenon
  <2> QED BY <2>2, <2>3, Zenon
<1>b. IF mode = "path" THEN c = Len(path) /\ n = c + 1 ELSE c = 1 /\ n = 1
  OBVIOUS
<1> HIDE DEF c, n
<1>5. Code = c /\ ~CodePanics
  <2>1. msg.bytes # <<>> /\ msg.bytes[1] = Cell("code", c)
    BY <1>a, <1>4
  <2> QED BY <2>1, CodeOfBlock
<1>6. Len(m.body) \in Nat /\ n \in Nat
  BY <1>1, <1>2, <1>b
<1>7. SubSeq(b, n + 1, Len(b)) = m.body
  BY <1>1, <1>4, <1>6, RestOfBlock
<1>8. CASE mode = "path"
  <2>1. Code = Len(path) /\ Code > 0 /\ n = Code + 1 /\ Code + 1 <= Len(b)
    <3>1. Len(b) = n + Len(m.body)
      BY <1>4
    <3> QED BY <1>2, <1>b, <1>5, <1>6, <1>8, <3>1
  <2>2. PathLegal
    BY <1>a, <1>8, <2>1 DEF PathLegal
  <2>3. Text(SubSeq(b, 2, Code + 1)) = path
    <3>1. b \in Seq(Plain) /\ Len(path) + 1 <= Len(b)
      BY <1>4, <2>1
    <3>2. \A i \in 1..Len(path) : b[i + 1] = Cell("char", path[i])
      BY <1>4, <1>8
    <3> QED BY <1>2, <2>1, <3>1, <3>2, TextOfBlock
  <2>4. Body = m.body
    BY <1>a, <1>7, <1>8, <2>1 DEF Body
  <2> DEFINE mark == SelectInSeq(path, LAMBDA x : x = Mark)
  <2>5. Path = IF mark = 0 THEN [route |-> path, query |-> <<>>]
               ELSE [route |-> SubSeq(path, 1, mark - 1), query |-> SubSeq(path, mark + 1, Len(path))]
    BY <1>a, <1>8, <2>3, MessageAssumption DEF Path
  <2>6. /\ mark = 0 => path = Route /\ m.query = <<>>
        /\ mark # 0 => /\ SubSeq(path, 1, mark - 1) = Route
                       /\ SubSeq(path, mark + 1, Len(path)) = m.query
    BY <1>1, SplitPath DEF path
  <2> HIDE DEF mark
  <2>7. Path.route = Route /\ Path.query = m.query
    BY <2>5, <2>6
  <2> QED BY <1>1, <1>5, <2>2, <2>4, <2>7
<1>9. CASE mode # "path"
  <2>1. mode = "code" /\ m.query = <<>>
    BY <1>3, <1>9, MessageAssumption DEF Fits
  <2>2. Code = 1 /\ n = 1 /\ TransformPath(Code) = Route /\ Route # <<>>
    BY <1>5, <1>b, <1>9 DEF TransformPath, Route
  <2>3. PathLegal /\ Body = m.body
    BY <1>a, <1>7, <1>9, <2>2 DEF PathLegal, Body
  <2>4. Path = [route |-> Route, query |-> <<>>]
    BY <1>a, <2>1, <2>2 DEF Path
  <2> QED BY <1>1, <1>5, <2>1, <2>3, <2>4
<1> QED BY <1>8, <1>9

\* From an empty block, Path gives nothing, or over TCP in code mode the route of a code
\* that an earlier message left in the array.
LEMMA ReceivedNothing ==
    ASSUME TypeOK, msg.bytes = <<>>, msg.head.mode \in Modes, ~CodePanics, PathLegal
    PROVE  /\ msg.head.mode = "code" /\ ~link.packets
           /\ Path.route = Route /\ Path.query = <<>> /\ Body = <<>>
<1>1. Len(msg.bytes) = 0
  BY EmptySeq
<1>2. Code \in Int
  <2>1. msg.first \in Plain
    BY DEF TypeOK
  <2> QED BY <2>1 DEF Code, FirstOf, Number, Plain
<1>3. msg.head.mode = "code"
  <2>1. ~(Code > 0 /\ Code + 1 <= 0)
    BY <1>2
  <2>2. msg.head.mode = "path" \/ msg.head.mode = "code"
    BY MessageAssumption
  <2> QED BY <1>1, <2>1, <2>2, Zenon DEF PathLegal
<1>4. TransformPath(Code) = Route
  BY <1>3 DEF PathLegal, TransformPath
<1>5. Path = [route |-> Route, query |-> <<>>]
  BY <1>3, <1>4 DEF Path
<1>6. Body = <<>>
  <2>1. Body = SubSeq(<<>>, 2, 0)
    BY <1>1, <1>3 DEF Body
  <2>2. SubSeq(<<>>, 2, 0) = <<>>
    BY SubSeqEmpty
  <2> QED BY <2>1, <2>2
<1> QED BY <1>3, <1>5, <1>6 DEF CodePanics

\* What Handle finds: a message that names a route is passed on as it was sent.
LEMMA Handled ==
    ASSUME IInv, at = "handle"
    PROVE  /\ frames \in 1..Len(sent) /\ sent[frames] \in Sents
           /\ sent[frames].route # <<>> =>
                  /\ ~CodePanics /\ PathLegal
                  /\ Path.route = sent[frames].route /\ Path.query = sent[frames].query
                  /\ Body = sent[frames].body
           /\ sent[frames].route = <<>> /\ ~CodePanics /\ PathLegal =>
                  /\ "code" \in Modes /\ ~link.packets
                  /\ Path.route = Route /\ Path.query = <<>> /\ Body = <<>>
<1>0. TypeOK /\ Holding
  BY DEF IInv
<1>1. frames \in 1..Len(sent) /\ sent[frames] \in Sents
  <2>1. frames \in Nat /\ Len(sent) \in Nat /\ frames <= Len(sent) /\ frames > 0
    BY <1>0, EndTypes DEF TypeOK, Holding
  <2>2. frames \in 1..Len(sent)
    BY <2>1
  <2> QED BY <1>0, <2>2, EndTypes
<1>2. PICK m \in Sents : m = sent[frames]
  BY <1>1
<1>3. /\ msg.head.mode \in Modes /\ Fits(msg.head.mode, m)
      /\ msg.bytes = Block(msg.head.mode, m)
  BY <1>0, <1>2 DEF Holding, Fits
<1>4. m.route # <<>> => /\ ~CodePanics /\ PathLegal
                        /\ Path.route = m.route /\ Path.query = m.query /\ Body = m.body
  BY <1>0, <1>3, Received
<1>5. ASSUME m.route = <<>>, ~CodePanics, PathLegal
      PROVE  /\ "code" \in Modes /\ ~link.packets
             /\ Path.route = Route /\ Path.query = <<>> /\ Body = <<>>
  <2>1. msg.bytes = <<>>
    BY <1>3, <1>5 DEF Block
  <2> QED BY <1>0, <1>3, <1>5, <2>1, ReceivedNothing
<1> QED BY <1>1, <1>2, <1>4, <1>5

\* Handling a message, or dropping it, keeps the invariant.
LEMMA HandleStep ==
    ASSUME IInv, Handle
    PROVE  IInv'
<1>0. TypeOK /\ Measured /\ Framed /\ Holding
  BY DEF IInv
<1>1. /\ at = "handle" /\ at' = "head" /\ link' = link /\ sent' = sent /\ wire' = wire
      /\ frames' = frames /\ pool' = pool \cup {Leftover(msg)}
  BY DEF Handle
<1>2. PICK first \in pool' \cup {NoCell} : msg' = Require(first)
  BY DEF Handle
<1>3. Len(sent) \in Nat /\ Len(wire) \in Nat /\ frames \in Nat /\ frames <= Len(sent)
  BY <1>0, EndTypes DEF TypeOK
<1>4. Measured' /\ Framed' /\ wire' \in Seq(IF link.packets THEN Seq(Cells) ELSE Cells)
  <2>1. 0 \in 0..Len(wire) /\ wire' = SubSeq(wire, 0 + 1, Len(wire))
    <3>1. SubSeq(wire, 1, Len(wire)) = wire
      BY <1>0, SubSeqFull DEF TypeOK
    <3> QED BY <1>1, <1>3, <3>1
  <2>2. EndOf(frames) \in Nat
    BY <1>0, <1>3, EndTypes, frames \in 0..Len(sent)
  <2>3. Taken + 0 = EndOf(frames') + (IF at' = "body" THEN 1 ELSE 0)
    BY <1>0, <1>1, <2>2 DEF Framed
  <2>4. frames' \in frames..Len(sent)
    BY <1>1, <1>3
  <2> QED BY <1>0, <1>1, <2>1, <2>3, <2>4, TakeStep
<1>5. pool' \subseteq Plain /\ first \in Plain
  <2>1. pool' \subseteq Plain
    BY <1>0, <1>1, LeftoverType DEF TypeOK
  <2> QED BY <1>2, <2>1 DEF NoCell, Cell, Plain
<1>6. msg' \in [head : Heads \cup {NoCell}, bytes : Seq(Plain), first : Plain]
  <2>1. <<>> \in Seq(Plain)
    OBVIOUS
  <2> QED BY <1>2, <1>5, <2>1 DEF Require
<1> DEFINE G == [n : 1..frames, route : Seq(Int), query : Seq(Int), body : Seq(Plain)]
           g == [n |-> frames, route |-> Path.route, query |-> Path.query, body |-> Body]
<1>7. got' \in Seq(G)
  <2>1. got \in Seq(G)
    BY <1>0 DEF TypeOK
  <2>2. CASE CodePanics \/ ~PathLegal
    BY <2>1, <2>2 DEF Handle
  <2>3. CASE ~CodePanics /\ PathLegal
    <3>1. Path.route \in Seq(Int) /\ Path.query \in Seq(Int) /\ Body \in Seq(Plain)
      <4>1. /\ sent[frames].route \in {<<>>, Route} /\ sent[frames].query \in Queries
            /\ sent[frames].body \in Seq(Plain)
        BY <1>1, Handled DEF Sents
      <4>2. /\ sent[frames].route \in Seq(Int) /\ sent[frames].query \in Seq(Int)
            /\ Route \in Seq(Int)
        <5>1. <<>> \in Seq(Int) /\ Route \in Seq(Int)
          BY PathTypes DEF Queries
        <5> QED BY <4>1, <5>1, PathTypes
      <4>3. <<>> \in Seq(Int) /\ <<>> \in Seq(Plain)
        OBVIOUS
      <4> QED BY <1>1, <2>3, <4>1, <4>2, <4>3, Handled
    <3>2. g \in G
      <4>1. frames \in 1..frames
        BY <1>1, <1>3, Handled
      <4> QED BY <3>1, <4>1
    <3>3. got' = Append(got, g)
      BY <2>3 DEF Handle
    <3> HIDE DEF g, G
    <3> QED BY <2>1, <3>2, <3>3, AppendProperties
  <2> QED BY <2>2, <2>3
<1>8. TypeOK'
  <2>1. link \in Links /\ sent \in Seq(Sents) /\ frames \in 0..Len(sent)
    BY <1>0 DEF TypeOK
  <2> QED BY <1>1, <1>4, <1>5, <1>6, <1>7, <2>1 DEF TypeOK
<1>9. Holding'
  BY <1>1, <1>2 DEF Holding, Require
<1> QED BY <1>4, <1>8, <1>9 DEF IInv

\* Every step keeps the invariant.
LEMMA Inductive == IInv /\ [Next]_vars => IInv'
<1> SUFFICES ASSUME IInv, [Next]_vars PROVE IInv'
  OBVIOUS
<1>1. CASE Send \/ SendEmpty
  BY <1>1, SendStep
<1>2. CASE ReadHead
  BY <1>2, ReadHeadStep
<1>3. CASE ReadBody
  BY <1>3, ReadBodyStep
<1>4. CASE Reset
  BY <1>4, ResetStep
<1>5. CASE Handle
  BY <1>5, HandleStep
<1>6. CASE UNCHANGED vars
  <2>1. /\ link' = link /\ sent' = sent /\ wire' = wire /\ frames' = frames /\ got' = got
        /\ msg' = msg /\ pool' = pool /\ at' = at
    BY <1>6 DEF vars
  <2>2. TypeOK' /\ Measured' /\ Holding'
    BY <2>1 DEF IInv, TypeOK, Measured, Holding, EndOf, Fits, Block
  <2>3. Taken' = Taken /\ EndOf(frames)' = EndOf(frames)
    BY <2>1 DEF Taken, EndOf
  <2>4. ASSUME NEW k, NEW cells PROVE Lies(k, cells)' = Lies(k, cells)
    BY <2>1, <2>3 DEF Lies, EndOf, Pieces
  <2>5. ASSUME NEW k PROVE Frames(sent[k])' = Frames(sent[k])
    <3>1. PICK m : m = sent[k]
      OBVIOUS
    <3> QED BY <2>1, <3>1, SameFrames
  <2>6. Framed'
    BY <2>1, <2>3, <2>4, <2>5 DEF IInv, Framed
  <2> QED BY <2>2, <2>6 DEF IInv
<1> QED BY <1>1, <1>2, <1>3, <1>4, <1>5, <1>6 DEF Next, Receive

-----------------------------------------------------------------------------
(* The theorems.                                                           *)

\* Whatever is sent and received, and on whichever connection, the receiver stands at the
\* end of a frame or, over TCP, behind a head, and the message object holds the very
\* block of the last frame: IInv holds in every state.
THEOREM Invariant == Spec => []IInv
<1>1. Init => IInv
  BY InitIInv
<1>2. IInv /\ [Next]_vars => IInv'
  BY Inductive
<1> QED BY <1>1, <1>2, PTL DEF Spec

\* Reading changes neither what was sent nor what handlers were called with.
LEMMA Reading ==
    ASSUME ReadHead \/ ReadBody \/ Reset
    PROVE  /\ link' = link /\ sent' = sent /\ got' = got /\ at \in {"head", "body"}
           /\ \/ at' = "handle" /\ frames' = frames + 1
              \/ at' \in {"body", "dead"} /\ frames' = frames
BY DEF ReadHead, ReadBody, Reset, Filled, Fail

\* Sending adds one message, which names no route only if the peer sends empty heads.
LEMMA Sending ==
    ASSUME TypeOK, Send \/ SendEmpty
    PROVE  /\ link' = link /\ frames' = frames /\ got' = got /\ at' = at /\ at # "dead"
           /\ Len(sent') = Len(sent) + 1
           /\ \A k \in 1..Len(sent) : sent'[k] = sent[k]
           /\ \A k : k = Len(sent) + 1 => (sent'[k].route = <<>> => link.empty)
<1>1. link' = link /\ frames' = frames /\ got' = got /\ at' = at /\ at # "dead"
  BY DEF Send, SendEmpty
<1>2. \E m, cells : Transmit(m, cells) /\ (m.route = <<>> => link.empty)
  <2>1. CASE Send
    <3>1. Route # <<>>
      BY DEF Route
    <3>2. \E q, b, s, cells :
            Transmit([route |-> Route, query |-> q, body |-> b, size |-> s], cells)
      BY <2>1 DEF Send
    <3> QED BY <3>1, <3>2
  <2>2. CASE SendEmpty
    BY <2>2 DEF SendEmpty
  <2> QED BY <2>1, <2>2
<1>3. PICK m, cells : Transmit(m, cells) /\ (m.route = <<>> => link.empty)
  BY <1>2
<1> DEFINE r == [route |-> m.route, query |-> m.query, body |-> m.body, size |-> m.size,
                 end |-> EndOf(Len(sent)) + Len(Pieces(cells))]
<1>4. sent' = Append(sent, r) /\ r.route = m.route
  BY <1>3 DEF Transmit
<1> HIDE DEF r
<1>5. sent \in Seq(Sents)
  BY DEF TypeOK
<1>6. /\ Len(sent') = Len(sent) + 1 /\ sent'[Len(sent) + 1] = r
      /\ \A k \in 1..Len(sent) : sent'[k] = sent[k]
  BY <1>4, <1>5
<1> QED BY <1>1, <1>3, <1>4, <1>6

\* The record that Handle adds, when it calls a handler.
LEMMA Calling ==
    ASSUME TypeOK, Handle
    PROVE  /\ at = "handle" /\ at' = "head" /\ frames' = frames /\ sent' = sent /\ link' = link
           /\ CodePanics \/ ~PathLegal => got' = got
           /\ ~CodePanics /\ PathLegal =>
                  /\ Len(got') = Len(got) + 1
                  /\ \A i \in 1..Len(got) : got'[i] = got[i]
                  /\ \A i : i = Len(got) + 1 =>
                         got'[i] = [n |-> frames, route |-> Path.route, query |-> Path.query,
                                    body |-> Body]
<1> DEFINE g == [n |-> frames, route |-> Path.route, query |-> Path.query, body |-> Body]
           S == [n : 1..frames, route : Seq(Int), query : Seq(Int), body : Seq(Plain)]
<1>1. at = "handle" /\ at' = "head" /\ frames' = frames /\ sent' = sent /\ link' = link
  BY DEF Handle
<1>2. got' = IF CodePanics \/ ~PathLegal THEN got ELSE Append(got, g)
  BY DEF Handle
<1>3. got \in Seq(S)
  BY DEF TypeOK
<1> HIDE DEF g, S
<1>4. ASSUME ~CodePanics, PathLegal
      PROVE  /\ Len(got') = Len(got) + 1 /\ got'[Len(got) + 1] = g
             /\ \A i \in 1..Len(got) : got'[i] = got[i]
  BY <1>2, <1>3, <1>4
<1> QED BY <1>1, <1>2, <1>4 DEF g

\* What the order of calls rests on besides IInv: a message that waits for its handler is
\* later than any message that had its handler called.
Ordered == OnceInOrder /\ (at = "handle" => \A i \in 1..Len(got) : got[i].n < frames)

\* The types of what handlers were called with.
LEMMA GotTypes ==
    ASSUME IInv
    PROVE  /\ Len(got) \in Nat /\ Len(sent) \in Nat /\ frames \in Nat /\ frames <= Len(sent)
           /\ \A i \in 1..Len(got) : got[i].n \in 1..frames
<1>1. TypeOK
  BY DEF IInv
<1> DEFINE S == [n : 1..frames, route : Seq(Int), query : Seq(Int), body : Seq(Plain)]
<1>2. got \in Seq(S)
  BY <1>1 DEF TypeOK
<1>3. \A g \in S : g.n \in 1..frames
  OBVIOUS
<1> HIDE DEF S
<1>4. Len(got) \in Nat /\ \A i \in 1..Len(got) : got[i] \in S
  BY <1>2, ElementOfSeq
<1>5. Len(sent) \in Nat /\ frames \in Nat
  BY <1>1, EndTypes
<1>6. frames <= Len(sent)
  BY <1>1, <1>5 DEF TypeOK
<1> QED BY <1>3, <1>4, <1>5, <1>6

\* Every step keeps the order.
LEMMA OrderedStep == IInv /\ Ordered /\ [Next]_vars => Ordered'
<1> SUFFICES ASSUME IInv, Ordered, [Next]_vars PROVE Ordered'
  OBVIOUS
<1>1. TypeOK
  BY DEF IInv
<1>2. /\ Len(got) \in Nat /\ Len(sent) \in Nat /\ frames \in Nat /\ frames <= Len(sent)
      /\ \A i \in 1..Len(got) : got[i].n \in 1..frames
  BY GotTypes
<1>3. /\ \A i, j \in 1..Len(got) : i < j => got[i].n < got[j].n
      /\ \A k \in 1..frames :
             \/ sent[k].route = <<>> \/ \E i \in 1..Len(got) : got[i].n = k
             \/ at = "handle" /\ k = frames
      /\ at = "handle" => \A i \in 1..Len(got) : got[i].n < frames
  BY DEF Ordered, OnceInOrder
<1>4. CASE Send \/ SendEmpty
  <2>1. /\ frames' = frames /\ got' = got /\ at' = at
        /\ \A k \in 1..frames : sent'[k] = sent[k]
    BY <1>1, <1>2, <1>4, Sending
  <2> QED BY <1>3, <2>1 DEF Ordered, OnceInOrder
<1>5. CASE ReadHead \/ ReadBody \/ Reset
  <2>1. /\ sent' = sent /\ got' = got /\ at # "handle"
        /\ \/ at' = "handle" /\ frames' = frames + 1
           \/ at' # "handle" /\ frames' = frames
    BY <1>5, Reading
  <2>2. \A k \in 1..frames : sent[k].route = <<>> \/ \E i \in 1..Len(got) : got[i].n = k
    BY <1>3, <2>1
  <2>3. \A k \in 1..frames' : k \in 1..frames \/ (at' = "handle" /\ k = frames')
    BY <1>2, <2>1
  <2>4. at' = "handle" => \A i \in 1..Len(got) : got[i].n < frames'
    BY <1>2, <2>1
  <2> QED BY <1>3, <2>1, <2>2, <2>3, <2>4 DEF Ordered, OnceInOrder
<1>6. CASE Handle
  <2>1. /\ at = "handle" /\ at' = "head" /\ frames' = frames /\ sent' = sent
        /\ CodePanics \/ ~PathLegal => got' = got
        /\ ~CodePanics /\ PathLegal =>
               /\ Len(got') = Len(got) + 1
               /\ \A i \in 1..Len(got) : got'[i] = got[i]
               /\ \A i : i = Len(got) + 1 =>
                      got'[i] = [n |-> frames, route |-> Path.route, query |-> Path.query,
                                 body |-> Body]
    BY <1>1, <1>6, Calling
  <2>2. frames \in 1..Len(sent) /\ (sent[frames].route # <<>> => ~CodePanics /\ PathLegal)
    BY <2>1, Handled
  <2>3. CASE CodePanics \/ ~PathLegal
    <3>1. got' = got /\ sent[frames].route = <<>>
      BY <2>1, <2>2, <2>3
    <3> QED BY <1>3, <2>1, <3>1 DEF Ordered, OnceInOrder
  <2>4. CASE ~CodePanics /\ PathLegal
    <3>1. /\ Len(got') = Len(got) + 1
          /\ \A i \in 1..Len(got) : got'[i].n = got[i].n
          /\ got'[Len(got) + 1].n = frames
      BY <2>1, <2>4
    <3>2. ASSUME NEW i \in 1..Len(got'), NEW j \in 1..Len(got'), i < j
          PROVE  got'[i].n < got'[j].n
      <4>1. i \in 1..Len(got) /\ (j \in 1..Len(got) \/ j = Len(got) + 1)
        <5>1. PICK n \in Nat : n = Len(got)
          BY <1>2
        <5>2. i \in 1..n + 1 /\ j \in 1..n + 1
          BY <3>1, <5>1, Zenon
        <5>3. i \in 1..n /\ (j \in 1..n \/ j = n + 1)
          BY <3>2, <5>2
        <5> QED BY <5>1, <5>3, Zenon
      <4> QED BY <1>3, <2>1, <3>1, <3>2, <4>1
    <3>3. ASSUME NEW k \in 1..frames'
          PROVE  sent'[k].route = <<>> \/ \E i \in 1..Len(got') : got'[i].n = k
      <4>1. 1..Len(got) \subseteq 1..Len(got') /\ Len(got) + 1 \in 1..Len(got')
        BY <1>2, <3>1
      <4>2. CASE k = frames
        BY <3>1, <4>1, <4>2
      <4>3. CASE k # frames
        <5>1. sent[k].route = <<>> \/ \E i \in 1..Len(got) : got[i].n = k
          BY <1>3, <2>1, <4>3
        <5> QED BY <2>1, <3>1, <4>1, <5>1
      <4> QED BY <4>2, <4>3
    <3> QED BY <2>1, <3>2, <3>3 DEF Ordered, OnceInOrder
  <2> QED BY <2>3, <2>4
<1>7. CASE UNCHANGED vars
  BY <1>7 DEF vars, Ordered, OnceInOrder
<1> QED BY <1>4, <1>5, <1>6, <1>7 DEF Next, Receive

\* Handlers are called in the order of sending, once for each message that names a route,
\* and none is skipped, with any mixture of packets, streams, compression and empty heads.
THEOREM Delivery == Spec => []OnceInOrder
<1>1. Init => Ordered
  <2> SUFFICES ASSUME Init PROVE Ordered
    OBVIOUS
  <2>1. got = <<>> /\ frames = 0 /\ at = "head"
    BY DEF Init
  <2>2. 1..Len(got) = {} /\ 1..frames = {}
    BY <2>1
  <2> QED BY <2>1, <2>2 DEF Ordered, OnceInOrder
<1>2. IInv /\ Ordered /\ [Next]_vars => Ordered'
  BY OrderedStep
<1>3. Ordered => OnceInOrder
  BY DEF Ordered
<1> QED BY <1>1, <1>2, <1>3, Invariant, PTL DEF Spec

\* What the payload rests on besides IInv: a message that names no route was sent only if
\* the peer sends heads with no data.
Meant == Intact /\ \A k \in 1..Len(sent) : sent[k].route = <<>> => link.empty

\* No connection carries heads with no data to a receiver that would look up the code that
\* an earlier message left behind.
NoStaleCode == \A l \in Links : l.empty => l.packets \/ "code" \notin Modes

\* Every step keeps the payloads.
LEMMA MeantStep == NoStaleCode /\ IInv /\ Meant /\ [Next]_vars => Meant'
<1> SUFFICES ASSUME NoStaleCode, IInv, Meant, [Next]_vars PROVE Meant'
  OBVIOUS
<1>1. TypeOK /\ link \in Links
  BY DEF IInv, TypeOK
<1>2. /\ Len(got) \in Nat /\ Len(sent) \in Nat /\ frames \in Nat /\ frames <= Len(sent)
      /\ \A i \in 1..Len(got) : got[i].n \in 1..frames
  BY GotTypes
<1>3. /\ \A i \in 1..Len(got) : /\ got[i].route = sent[got[i].n].route
                                /\ got[i].query = sent[got[i].n].query
                                /\ got[i].body = sent[got[i].n].body
      /\ \A k \in 1..Len(sent) : sent[k].route = <<>> => link.empty
  BY DEF Meant, Intact
<1>4. CASE Send \/ SendEmpty
  <2>1. /\ link' = link /\ got' = got /\ Len(sent') = Len(sent) + 1
        /\ \A k \in 1..Len(sent) : sent'[k] = sent[k]
        /\ \A k : k = Len(sent) + 1 => (sent'[k].route = <<>> => link.empty)
    BY <1>1, <1>4, Sending
  <2>2. \A i \in 1..Len(got) : sent'[got[i].n] = sent[got[i].n]
    <3>1. \A i \in 1..Len(got) : got[i].n \in 1..Len(sent)
      BY <1>2
    <3> QED BY <2>1, <3>1
  <2>3. Intact'
    BY <1>3, <2>1, <2>2 DEF Intact
  <2>4. \A k \in 1..Len(sent') : k \in 1..Len(sent) \/ k = Len(sent) + 1
    BY <1>2, <2>1
  <2>5. \A k \in 1..Len(sent') : sent'[k].route = <<>> => link.empty
    BY <1>3, <2>1, <2>4
  <2> QED BY <2>1, <2>3, <2>5 DEF Meant
<1>5. CASE ReadHead \/ ReadBody \/ Reset
  <2>1. link' = link /\ sent' = sent /\ got' = got
    BY <1>5, Reading
  <2> QED BY <2>1 DEF Meant, Intact
<1>6. CASE Handle
  <2>1. /\ at = "handle" /\ sent' = sent /\ link' = link
        /\ CodePanics \/ ~PathLegal => got' = got
        /\ ~CodePanics /\ PathLegal =>
               /\ Len(got') = Len(got) + 1
               /\ \A i \in 1..Len(got) : got'[i] = got[i]
               /\ \A i : i = Len(got) + 1 =>
                      got'[i] = [n |-> frames, route |-> Path.route, query |-> Path.query,
                                 body |-> Body]
    BY <1>1, <1>6, Calling
  <2>2. CASE CodePanics \/ ~PathLegal
    <3>1. got' = got
      BY <2>1, <2>2
    <3> QED BY <2>1, <3>1 DEF Meant, Intact
  <2>3. CASE ~CodePanics /\ PathLegal
    <3>1. /\ frames \in 1..Len(sent)
          /\ sent[frames].route # <<>> =>
                 /\ Path.route = sent[frames].route /\ Path.query = sent[frames].query
                 /\ Body = sent[frames].body
          /\ sent[frames].route = <<>> => "code" \in Modes /\ ~link.packets
      BY <2>1, <2>3, Handled
    <3>2. sent[frames].route # <<>>
      BY <1>1, <1>3, <3>1 DEF NoStaleCode
    <3>3. ASSUME NEW i \in 1..Len(got')
          PROVE  /\ got'[i].route = sent[got'[i].n].route
                 /\ got'[i].query = sent[got'[i].n].query
                 /\ got'[i].body = sent[got'[i].n].body
      <4>1. CASE i \in 1..Len(got)
        BY <1>3, <2>1, <2>3, <4>1
      <4>2. CASE i = Len(got) + 1
        <5>1. got'[i] = [n |-> frames, route |-> Path.route, query |-> Path.query, body |-> Body]
          BY <2>1, <2>3, <4>2
        <5> QED BY <3>1, <3>2, <5>1
      <4>3. i \in 1..Len(got) \/ i = Len(got) + 1
        BY <1>2, <2>1, <2>3
      <4> QED BY <4>1, <4>2, <4>3
    <3> QED BY <1>3, <2>1, <3>3 DEF Meant, Intact
  <2> QED BY <2>2, <2>3
<1>7. CASE UNCHANGED vars
  BY <1>7 DEF vars, Meant, Intact
<1> QED BY <1>4, <1>5, <1>6, <1>7 DEF Next, Receive

\* A handler is called with the route, the query and the body of the message its frame was
\* made from, through any number of messages and any reuse of message objects, if no peer
\* sends heads with no data over TCP to a receiver that uses codes.
THEOREM Payload ==
    ASSUME NoStaleCode
    PROVE  Spec => []Intact
<1>1. Init => Meant
  <2> SUFFICES ASSUME Init PROVE Meant
    OBVIOUS
  <2>1. 1..Len(got) = {} /\ 1..Len(sent) = {}
    BY DEF Init
  <2> QED BY <2>1 DEF Meant, Intact
<1>2. IInv /\ Meant /\ [Next]_vars => Meant'
  BY MeantStep
<1>3. Meant => Intact
  BY DEF Meant
<1> QED BY <1>1, <1>2, <1>3, Invariant, PTL DEF Spec

\* Every step keeps CutOnlyTooLong, where TCP connections do not compress.
LEMMA CutStep ==
    ASSUME \A l \in Links : ~l.packets => l.zip = 0
    PROVE  IInv /\ CutOnlyTooLong /\ [Next]_vars => CutOnlyTooLong'
<1> SUFFICES ASSUME IInv, CutOnlyTooLong, [Next]_vars PROVE CutOnlyTooLong'
  OBVIOUS
<1>1. TypeOK /\ link \in Links
  BY DEF IInv, TypeOK
<1>2. ~(~link.packets /\ link.zip > 0)
  BY <1>1
<1>3. CASE Send \/ SendEmpty
  BY <1>1, <1>3, Sending DEF CutOnlyTooLong
<1>4. CASE ReadHead \/ ReadBody \/ Reset
  <2>1. CutReason /\ sent' = sent
    BY <1>4, ReadHeadStep, ReadBodyStep, ResetStep, Reading
  <2> QED BY <1>2, <2>1 DEF CutReason, CutOnlyTooLong
<1>5. CASE Handle
  BY <1>5 DEF Handle, CutOnlyTooLong
<1>6. CASE UNCHANGED vars
  BY <1>6 DEF vars, CutOnlyTooLong
<1> QED BY <1>3, <1>4, <1>5, <1>6 DEF Next, Receive

\* The receiver only cuts the connection for a message above MaxDataSize, if TCP connections
\* do not compress: with compression over TCP, Message_compressed shows that it may cut it.
THEOREM OnlyTooLong ==
    ASSUME \A l \in Links : ~l.packets => l.zip = 0
    PROVE  Spec => []CutOnlyTooLong
<1>1. Init => CutOnlyTooLong
  BY DEF Init, CutOnlyTooLong
<1>2. IInv /\ CutOnlyTooLong /\ [Next]_vars => CutOnlyTooLong'
  BY CutStep
<1> QED BY <1>1, <1>2, Invariant, PTL DEF Spec
=============================================================================
