--------------------------- MODULE ExchangeProofs ---------------------------
(***************************************************************************)
(* Proofs about module Exchange, for both transports, every size of the    *)
(* queues and the wire and any number of requests: queues keep their size, *)
(* every confirmation belongs to its request, and confirmations arrive in  *)
(* the order of the requests.                                              *)
(***************************************************************************)
EXTENDS Exchange, SequenceTheorems, WellFoundedInduction, TLAPS

-----------------------------------------------------------------------------
(* Lines of numbers.                                                       *)

\* The numbers in a line that stand for a request.
Positive(s) == {n \in Nat \ {0} : \E i \in 1..Len(s) : s[i] = n}

\* t is the line s with some requests left out.
Thins(t, s) ==
    /\ t \in Seq(Int)
    /\ Positive(t) \subseteq Positive(s)
    /\ Rising(s) => Rising(t)

\* A line of the first n requests.
Within(s, n) == Rising(s) /\ Positive(s) \subseteq 1..n

\* A concatenation, part by part.
LEMMA ConcatSplit ==
    ASSUME NEW S, NEW s \in Seq(S), NEW t \in Seq(S)
    PROVE  /\ s \o t \in Seq(S) /\ Len(s \o t) = Len(s) + Len(t)
           /\ \A i \in 1..Len(s) : (s \o t)[i] = s[i]
           /\ \A i \in 1..Len(t) : (s \o t)[Len(s) + i] = t[i]
<1>1. Len(s) \in Nat /\ Len(t) \in Nat
  OBVIOUS
<1> QED BY <1>1, ConcatProperties

\* The elements of a concatenation.
LEMMA ConcatWhere ==
    ASSUME NEW S, NEW s \in Seq(S), NEW t \in Seq(S), NEW i \in 1..Len(s \o t)
    PROVE  \/ i \in 1..Len(s) /\ (s \o t)[i] = s[i]
           \/ /\ i - Len(s) \in 1..Len(t) /\ (s \o t)[i] = t[i - Len(s)]
              /\ i = Len(s) + (i - Len(s))
<1>1. Len(s) \in Nat /\ Len(t) \in Nat
  OBVIOUS
<1> QED BY <1>1, ConcatProperties

\* Lines are joined in any grouping.
Grouped(s, t, u) == (s \o t) \o u = s \o (t \o u)
LEMMA JoinAssociative ==
    ASSUME NEW s \in Seq(Int), NEW t \in Seq(Int), NEW u \in Seq(Int)
    PROVE  Grouped(s, t, u)
BY ConcatAssociative DEF Grouped

\* The requests of two lines together.
LEMMA PositiveJoin ==
    ASSUME NEW s \in Seq(Int), NEW t \in Seq(Int)
    PROVE  Positive(s \o t) = Positive(s) \cup Positive(t)
<1> DEFINE p == s \o t
<1>1. /\ Len(p) = Len(s) + Len(t) /\ Len(s) \in Nat /\ Len(t) \in Nat
      /\ \A i \in 1..Len(s) : p[i] = s[i]
      /\ \A i \in 1..Len(t) : p[Len(s) + i] = t[i]
  BY ConcatSplit
<1>2. \A i \in 1..Len(p) : \/ i \in 1..Len(s) /\ p[i] = s[i]
                           \/ i - Len(s) \in 1..Len(t) /\ p[i] = t[i - Len(s)]
  BY ConcatWhere
<1> HIDE DEF p
<1>3. \A i \in 1..Len(s) : i \in 1..Len(p)
  BY <1>1
<1>4. \A i \in 1..Len(t) : Len(s) + i \in 1..Len(p)
  BY <1>1
<1>5. Positive(p) \subseteq Positive(s) \cup Positive(t)
  BY <1>2 DEF Positive
<1>6. Positive(s) \subseteq Positive(p)
  BY <1>1, <1>3 DEF Positive
<1>7. Positive(t) \subseteq Positive(p)
  BY <1>1, <1>4 DEF Positive
<1> QED BY <1>5, <1>6, <1>7 DEF p

\* Two lines rise together if each does and the second lies above the first.
LEMMA RisingJoin ==
    ASSUME NEW s \in Seq(Int), NEW t \in Seq(Int)
    PROVE  Rising(s \o t) <=> /\ Rising(s) /\ Rising(t)
                              /\ \A x \in Positive(s), y \in Positive(t) : x < y
<1> DEFINE p == s \o t
<1>1. /\ Len(p) = Len(s) + Len(t) /\ Len(s) \in Nat /\ Len(t) \in Nat
      /\ \A i \in 1..Len(s) : p[i] = s[i]
      /\ \A i \in 1..Len(t) : p[Len(s) + i] = t[i]
  BY ConcatSplit
<1>2. \A i \in 1..Len(p) : \/ i \in 1..Len(s) /\ p[i] = s[i]
                           \/ i - Len(s) \in 1..Len(t) /\ p[i] = t[i - Len(s)]
  BY ConcatWhere
<1>a. /\ \A i \in 1..Len(s) : s[i] \in Int
      /\ \A i \in 1..Len(t) : t[i] \in Int
  BY ElementOfSeq
<1> HIDE DEF p
<1>3. ASSUME Rising(p) PROVE Rising(s)
  <2>1. \A i \in 1..Len(s) : i \in 1..Len(p)
    BY <1>1
  <2> QED BY <1>1, <1>3, <2>1 DEF Rising
<1>4. ASSUME Rising(p) PROVE Rising(t)
  <2> SUFFICES ASSUME NEW i \in 1..Len(t), NEW j \in 1..Len(t), i < j, t[i] > 0, t[j] > 0
               PROVE  t[i] < t[j]
    BY DEF Rising
  <2>1. /\ Len(s) + i \in 1..Len(p) /\ Len(s) + j \in 1..Len(p) /\ Len(s) + i < Len(s) + j
        /\ p[Len(s) + i] = t[i] /\ p[Len(s) + j] = t[j]
    BY <1>1
  <2> QED BY <1>4, <2>1 DEF Rising
<1>5. ASSUME Rising(p), NEW x \in Positive(s), NEW y \in Positive(t) PROVE x < y
  <2>1. PICK i \in 1..Len(s) : s[i] = x
    BY DEF Positive
  <2>2. PICK j \in 1..Len(t) : t[j] = y
    BY DEF Positive
  <2>3. /\ i \in 1..Len(p) /\ Len(s) + j \in 1..Len(p) /\ i < Len(s) + j
        /\ p[i] = x /\ p[Len(s) + j] = y /\ x > 0 /\ y > 0
    <3>1. x > 0 /\ y > 0
      BY DEF Positive
    <3>2. i \in Nat /\ j \in Nat /\ i <= Len(s) /\ j >= 1 /\ i >= 1 /\ j <= Len(t)
      BY <1>1
    <3>3. p[Len(s) + j] = t[j]
      BY <1>1
    <3> QED BY <1>1, <2>1, <2>2, <3>1, <3>2, <3>3
  <2> QED BY <1>5, <2>3 DEF Rising
<1>6. ASSUME Rising(s), Rising(t), \A x \in Positive(s), y \in Positive(t) : x < y
      PROVE  Rising(p)
  <2> SUFFICES ASSUME NEW i \in 1..Len(p), NEW j \in 1..Len(p), i < j, p[i] > 0, p[j] > 0
               PROVE  p[i] < p[j]
    BY DEF Rising
  <2>1. CASE j \in 1..Len(s)
    <3>1. i \in 1..Len(s) /\ p[i] = s[i] /\ p[j] = s[j]
      BY <1>1, <2>1
    <3> QED BY <1>6, <2>1, <3>1 DEF Rising
  <2>2. CASE ~(i \in 1..Len(s))
    <3> DEFINE k == i - Len(s)
               l == j - Len(s)
    <3>1. ~(j \in 1..Len(s))
      BY <1>1, <2>2
    <3>2. k \in 1..Len(t) /\ l \in 1..Len(t) /\ k < l /\ p[i] = t[k] /\ p[j] = t[l]
      BY <1>1, <1>2, <2>2, <3>1
    <3> HIDE DEF k, l
    <3> QED BY <1>6, <3>2 DEF Rising
  <2>3. CASE i \in 1..Len(s) /\ ~(j \in 1..Len(s))
    <3>1. p[i] \in Positive(s)
      BY <1>1, <1>a, <2>3 DEF Positive
    <3>2. p[j] \in Positive(t)
      <4>1. PICK k \in 1..Len(t) : p[j] = t[k]
        BY <1>2, <2>3
      <4>2. t[k] \in Nat \ {0}
        BY <1>a, <4>1
      <4> QED BY <4>1, <4>2 DEF Positive
    <3> QED BY <1>6, <3>1, <3>2
  <2> QED BY <2>1, <2>2, <2>3
<1>7. Rising(p) <=> /\ Rising(s) /\ Rising(t)
                    /\ \A x \in Positive(s), y \in Positive(t) : x < y
  BY <1>3, <1>4, <1>5, <1>6
<1> QED BY <1>7 DEF p

\* Leaving out requests in each of two lines leaves out requests of both.
LEMMA ThinsJoin ==
    ASSUME NEW s \in Seq(Int), NEW t \in Seq(Int), NEW s1, NEW t1,
           Thins(s1, s), Thins(t1, t)
    PROVE  Thins(s1 \o t1, s \o t)
<1>1. s1 \in Seq(Int) /\ t1 \in Seq(Int)
  BY DEF Thins
<1>2. s1 \o t1 \in Seq(Int)
  BY <1>1, ConcatSplit
<1>3. /\ Positive(s1 \o t1) = Positive(s1) \cup Positive(t1)
      /\ Positive(s \o t) = Positive(s) \cup Positive(t)
  BY <1>1, PositiveJoin
<1>4. Rising(s \o t) => Rising(s) /\ Rising(t) /\ \A x \in Positive(s), y \in Positive(t) : x < y
  BY RisingJoin
<1>5. Rising(s1) /\ Rising(t1) /\ (\A x \in Positive(s1), y \in Positive(t1) : x < y)
        => Rising(s1 \o t1)
  BY <1>1, RisingJoin
<1> QED BY <1>2, <1>3, <1>4, <1>5 DEF Thins

\* Ways to leave out requests: none, all, the first, and those of one line after another.
LEMMA ThinsSame == ASSUME NEW s \in Seq(Int) PROVE Thins(s, s)
BY DEF Thins

LEMMA ThinsTrans ==
    ASSUME NEW r, NEW s, NEW t, Thins(t, s), Thins(s, r)
    PROVE  Thins(t, r)
BY DEF Thins

LEMMA ThinsEmpty == ASSUME NEW s \in Seq(Int) PROVE Thins(<<>>, s)
<1>1. <<>> \in Seq(Int) /\ Len(<<>>) = 0
  BY EmptySeq
<1> QED BY <1>1 DEF Thins, Positive, Rising

\* Whatever names no request can be added to the end of a line.
LEMMA ThinsNothing ==
    ASSUME NEW s \in Seq(Int), NEW z \in Seq(Int), Positive(z) = {}
    PROVE  Thins(s \o z, s)
<1>1. s \o z \in Seq(Int)
  BY ConcatSplit
<1>2. Positive(s \o z) = Positive(s) \cup Positive(z)
  BY PositiveJoin
<1>3. Rising(z)
  <2> SUFFICES ASSUME NEW i \in 1..Len(z), z[i] > 0 PROVE FALSE
    BY DEF Rising
  <2>1. z[i] \in Int
    BY ElementOfSeq
  <2>2. z[i] \in Positive(z)
    BY <2>1 DEF Positive
  <2> QED BY <2>2
<1>4. Rising(s) => Rising(s \o z)
  BY <1>3, RisingJoin
<1> QED BY <1>1, <1>2, <1>4 DEF Thins

\* The next request extends the line, and a message that is none may follow it.
LEMMA WithinNext ==
    ASSUME NEW s \in Seq(Int), NEW n \in Nat, NEW x \in {0, n + 1}, Within(s, n)
    PROVE  Within(s \o <<x>>, n + 1)
<1> DEFINE t == <<x>>
<1>1. t \in Seq(Int) /\ Len(t) = 1 /\ t[1] = x
  OBVIOUS
<1> HIDE DEF t
<1>2. Positive(t) \subseteq {n + 1}
  BY <1>1 DEF Positive
<1>3. Rising(t)
  BY <1>1 DEF Rising
<1>4. Positive(s \o t) \subseteq 1..n + 1
  BY <1>1, <1>2, PositiveJoin DEF Within
<1>5. \A a \in Positive(s), b \in Positive(t) : a < b
  BY <1>2 DEF Within
<1>6. Rising(s \o t)
  BY <1>1, <1>3, <1>5, RisingJoin DEF Within
<1> QED BY <1>4, <1>6 DEF Within, t

LEMMA WithinThins ==
    ASSUME NEW s, NEW t, NEW n, Within(s, n), Thins(t, s)
    PROVE  Within(t, n)
BY DEF Within, Thins

-----------------------------------------------------------------------------
(* The six stages of a line.                                               *)

Stages(a, b, c, d, f, g) == a \o b \o c \o d \o f \o g

\* Every stage loses requests, or two neighbours together.
LEMMA ThinEach ==
    ASSUME NEW a \in Seq(Int), NEW b \in Seq(Int), NEW c \in Seq(Int),
           NEW d \in Seq(Int), NEW f \in Seq(Int), NEW g \in Seq(Int),
           NEW a1, NEW b1, NEW c1, NEW d1, NEW f1, NEW g1,
           Thins(a1, a), Thins(b1, b), Thins(c1, c), Thins(d1, d), Thins(f1, f), Thins(g1, g)
    PROVE  Thins(Stages(a1, b1, c1, d1, f1, g1), Stages(a, b, c, d, f, g))
<1>1. a \o b \in Seq(Int) /\ Thins(a1 \o b1, a \o b)
  BY ThinsJoin, ConcatSplit
<1>2. a \o b \o c \in Seq(Int) /\ Thins(a1 \o b1 \o c1, a \o b \o c)
  BY <1>1, ThinsJoin, ConcatSplit
<1>3. a \o b \o c \o d \in Seq(Int) /\ Thins(a1 \o b1 \o c1 \o d1, a \o b \o c \o d)
  BY <1>2, ThinsJoin, ConcatSplit
<1>4. /\ a \o b \o c \o d \o f \in Seq(Int)
      /\ Thins(a1 \o b1 \o c1 \o d1 \o f1, a \o b \o c \o d \o f)
  BY <1>3, ThinsJoin, ConcatSplit
<1> QED BY <1>4, ThinsJoin DEF Stages

\* From the wire to the answers.
LEMMA ThinFirst ==
    ASSUME NEW a \in Seq(Int), NEW b \in Seq(Int), NEW c \in Seq(Int),
           NEW d \in Seq(Int), NEW f \in Seq(Int), NEW g \in Seq(Int),
           NEW a1, NEW b1, NEW c1, NEW d1, NEW f1, NEW g1,
           Thins(a1 \o b1, a \o b), Thins(c1, c), Thins(d1, d), Thins(f1, f), Thins(g1, g)
    PROVE  Thins(Stages(a1, b1, c1, d1, f1, g1), Stages(a, b, c, d, f, g))
<1>1. a \o b \in Seq(Int)
  BY ConcatSplit
<1>2. a \o b \o c \in Seq(Int) /\ Thins(a1 \o b1 \o c1, a \o b \o c)
  BY <1>1, ThinsJoin, ConcatSplit
<1>3. a \o b \o c \o d \in Seq(Int) /\ Thins(a1 \o b1 \o c1 \o d1, a \o b \o c \o d)
  BY <1>2, ThinsJoin, ConcatSplit
<1>4. /\ a \o b \o c \o d \o f \in Seq(Int)
      /\ Thins(a1 \o b1 \o c1 \o d1 \o f1, a \o b \o c \o d \o f)
  BY <1>3, ThinsJoin, ConcatSplit
<1> QED BY <1>4, ThinsJoin DEF Stages

\* From the queue to the wire, with a confirmation.
LEMMA ThinSecond ==
    ASSUME NEW a \in Seq(Int), NEW b \in Seq(Int), NEW c \in Seq(Int),
           NEW d \in Seq(Int), NEW f \in Seq(Int), NEW g \in Seq(Int),
           NEW a1 \in Seq(Int), NEW b1 \in Seq(Int), NEW c1 \in Seq(Int), NEW d1, NEW f1, NEW g1,
           Thins(a1, a), Thins(b1 \o c1, b \o c), Thins(d1, d), Thins(f1, f), Thins(g1, g)
    PROVE  Thins(Stages(a1, b1, c1, d1, f1, g1), Stages(a, b, c, d, f, g))
<1>1. a \o b \o c = a \o (b \o c) /\ a1 \o b1 \o c1 = a1 \o (b1 \o c1)
  <2>1. Grouped(a, b, c) /\ Grouped(a1, b1, c1)
    BY JoinAssociative
  <2> QED BY <2>1, Zenon DEF Grouped
<1>2. b \o c \in Seq(Int) /\ a \o b \o c \in Seq(Int)
  BY <1>1, ConcatSplit
<1>3. Thins(a1 \o b1 \o c1, a \o b \o c)
  BY <1>1, <1>2, ThinsJoin
<1>4. a \o b \o c \o d \in Seq(Int) /\ Thins(a1 \o b1 \o c1 \o d1, a \o b \o c \o d)
  BY <1>2, <1>3, ThinsJoin, ConcatSplit
<1>5. /\ a \o b \o c \o d \o f \in Seq(Int)
      /\ Thins(a1 \o b1 \o c1 \o d1 \o f1, a \o b \o c \o d \o f)
  BY <1>4, ThinsJoin, ConcatSplit
<1> QED BY <1>5, ThinsJoin DEF Stages

\* From the reader to the queue.
LEMMA ThinThird ==
    ASSUME NEW a \in Seq(Int), NEW b \in Seq(Int), NEW c \in Seq(Int),
           NEW d \in Seq(Int), NEW f \in Seq(Int), NEW g \in Seq(Int),
           NEW a1 \in Seq(Int), NEW b1 \in Seq(Int), NEW c1 \in Seq(Int), NEW d1 \in Seq(Int),
           NEW f1, NEW g1,
           Thins(a1, a), Thins(b1, b), Thins(c1 \o d1, c \o d), Thins(f1, f), Thins(g1, g)
    PROVE  Thins(Stages(a1, b1, c1, d1, f1, g1), Stages(a, b, c, d, f, g))
<1>1. a \o b \in Seq(Int) /\ a1 \o b1 \in Seq(Int) /\ Thins(a1 \o b1, a \o b)
  BY ThinsJoin, ConcatSplit
<1>2. /\ a \o b \o c \o d = (a \o b) \o (c \o d)
      /\ a1 \o b1 \o c1 \o d1 = (a1 \o b1) \o (c1 \o d1)
  <2>1. Grouped(a \o b, c, d) /\ Grouped(a1 \o b1, c1, d1)
    BY <1>1, JoinAssociative
  <2> QED BY <2>1, Zenon DEF Grouped
<1>3. c \o d \in Seq(Int) /\ a \o b \o c \o d \in Seq(Int)
  BY <1>1, <1>2, ConcatSplit
<1>4. Thins(a1 \o b1 \o c1 \o d1, a \o b \o c \o d)
  BY <1>1, <1>2, <1>3, ThinsJoin
<1>5. /\ a \o b \o c \o d \o f \in Seq(Int)
      /\ Thins(a1 \o b1 \o c1 \o d1 \o f1, a \o b \o c \o d \o f)
  BY <1>3, <1>4, ThinsJoin, ConcatSplit
<1> QED BY <1>5, ThinsJoin DEF Stages

\* From the wire to the reader.
LEMMA ThinFourth ==
    ASSUME NEW a \in Seq(Int), NEW b \in Seq(Int), NEW c \in Seq(Int),
           NEW d \in Seq(Int), NEW f \in Seq(Int), NEW g \in Seq(Int),
           NEW a1 \in Seq(Int), NEW b1 \in Seq(Int), NEW c1 \in Seq(Int), NEW d1 \in Seq(Int),
           NEW f1 \in Seq(Int), NEW g1,
           Thins(a1, a), Thins(b1, b), Thins(c1, c), Thins(d1 \o f1, d \o f), Thins(g1, g)
    PROVE  Thins(Stages(a1, b1, c1, d1, f1, g1), Stages(a, b, c, d, f, g))
<1>1. a \o b \in Seq(Int) /\ a1 \o b1 \in Seq(Int) /\ Thins(a1 \o b1, a \o b)
  BY ThinsJoin, ConcatSplit
<1>2. /\ a \o b \o c \in Seq(Int) /\ a1 \o b1 \o c1 \in Seq(Int)
      /\ Thins(a1 \o b1 \o c1, a \o b \o c)
  BY <1>1, ThinsJoin, ConcatSplit
<1>3. /\ a \o b \o c \o d \o f = (a \o b \o c) \o (d \o f)
      /\ a1 \o b1 \o c1 \o d1 \o f1 = (a1 \o b1 \o c1) \o (d1 \o f1)
  <2>1. Grouped(a \o b \o c, d, f) /\ Grouped(a1 \o b1 \o c1, d1, f1)
    BY <1>2, JoinAssociative
  <2> QED BY <2>1, Zenon DEF Grouped
<1>4. d \o f \in Seq(Int) /\ a \o b \o c \o d \o f \in Seq(Int)
  BY <1>2, <1>3, ConcatSplit
<1>5. Thins(a1 \o b1 \o c1 \o d1 \o f1, a \o b \o c \o d \o f)
  BY <1>2, <1>3, <1>4, ThinsJoin
<1> QED BY <1>4, <1>5, ThinsJoin DEF Stages

\* From the queue to the wire, with a request.
LEMMA ThinFifth ==
    ASSUME NEW a \in Seq(Int), NEW b \in Seq(Int), NEW c \in Seq(Int),
           NEW d \in Seq(Int), NEW f \in Seq(Int), NEW g \in Seq(Int),
           NEW a1 \in Seq(Int), NEW b1 \in Seq(Int), NEW c1 \in Seq(Int), NEW d1 \in Seq(Int),
           NEW f1 \in Seq(Int), NEW g1 \in Seq(Int),
           Thins(a1, a), Thins(b1, b), Thins(c1, c), Thins(d1, d), Thins(f1 \o g1, f \o g)
    PROVE  Thins(Stages(a1, b1, c1, d1, f1, g1), Stages(a, b, c, d, f, g))
<1>1. a \o b \in Seq(Int) /\ a1 \o b1 \in Seq(Int) /\ Thins(a1 \o b1, a \o b)
  BY ThinsJoin, ConcatSplit
<1>2. /\ a \o b \o c \in Seq(Int) /\ a1 \o b1 \o c1 \in Seq(Int)
      /\ Thins(a1 \o b1 \o c1, a \o b \o c)
  BY <1>1, ThinsJoin, ConcatSplit
<1>3. /\ a \o b \o c \o d \in Seq(Int) /\ a1 \o b1 \o c1 \o d1 \in Seq(Int)
      /\ Thins(a1 \o b1 \o c1 \o d1, a \o b \o c \o d)
  BY <1>2, ThinsJoin, ConcatSplit
<1>4. /\ a \o b \o c \o d \o f \o g = (a \o b \o c \o d) \o (f \o g)
      /\ a1 \o b1 \o c1 \o d1 \o f1 \o g1 = (a1 \o b1 \o c1 \o d1) \o (f1 \o g1)
  <2>1. Grouped(a \o b \o c \o d, f, g) /\ Grouped(a1 \o b1 \o c1 \o d1, f1, g1)
    BY <1>3, JoinAssociative
  <2> QED BY <2>1, Zenon DEF Grouped
<1>5. f \o g \in Seq(Int)
  BY ConcatSplit
<1> QED BY <1>3, <1>4, <1>5, ThinsJoin DEF Stages

Longer(a, b, c, d, f, g, x) == Stages(a, b, c, d, f, g \o x) = Stages(a, b, c, d, f, g) \o x

\* All stages make a sequence of numbers, and what follows the last one follows the line.
LEMMA StagesType ==
    ASSUME NEW a \in Seq(Int), NEW b \in Seq(Int), NEW c \in Seq(Int),
           NEW d \in Seq(Int), NEW f \in Seq(Int), NEW g \in Seq(Int), NEW x \in Seq(Int)
    PROVE  /\ Stages(a, b, c, d, f, g) \in Seq(Int)
           /\ Longer(a, b, c, d, f, g, x)
<1>1. a \o b \in Seq(Int)
  BY ConcatSplit
<1>2. a \o b \o c \in Seq(Int)
  BY <1>1, ConcatSplit
<1>3. a \o b \o c \o d \in Seq(Int)
  BY <1>2, ConcatSplit
<1>4. a \o b \o c \o d \o f \in Seq(Int)
  BY <1>3, ConcatSplit
<1>5. a \o b \o c \o d \o f \o g \in Seq(Int)
  BY <1>4, ConcatSplit
<1>6. (a \o b \o c \o d \o f) \o (g \o x) = (a \o b \o c \o d \o f \o g) \o x
  <2>1. Grouped(a \o b \o c \o d \o f, g, x)
    BY <1>4, JoinAssociative
  <2> QED BY <2>1, Zenon DEF Grouped
<1> QED BY <1>5, <1>6, Zenon DEF Stages, Longer

\* The first stage of a line in order is in order.
LEMMA StagesRising ==
    ASSUME NEW a \in Seq(Int), NEW b \in Seq(Int), NEW c \in Seq(Int),
           NEW d \in Seq(Int), NEW f \in Seq(Int), NEW g \in Seq(Int),
           Rising(Stages(a, b, c, d, f, g))
    PROVE  Rising(a)
<1>1. a \o b \in Seq(Int)
  BY ConcatSplit
<1>2. a \o b \o c \in Seq(Int)
  BY <1>1, ConcatSplit
<1>3. a \o b \o c \o d \in Seq(Int)
  BY <1>2, ConcatSplit
<1>4. a \o b \o c \o d \o f \in Seq(Int)
  BY <1>3, ConcatSplit
<1>5. Rising(a \o b \o c \o d \o f)
  BY <1>4, RisingJoin DEF Stages
<1>6. Rising(a \o b \o c \o d)
  BY <1>3, <1>5, RisingJoin
<1>7. Rising(a \o b \o c)
  BY <1>2, <1>6, RisingJoin
<1>8. Rising(a \o b)
  BY <1>1, <1>7, RisingJoin
<1> QED BY <1>8, RisingJoin

LongerBefore(a, b, c, d, f, x) ==
    Stages(a, b, c, d, f \o x, <<>>) = Stages(a, b, c, d, f, <<>>) \o x

\* So does what follows the last but one if nothing is in the last.
LEMMA StagesBefore ==
    ASSUME NEW a \in Seq(Int), NEW b \in Seq(Int), NEW c \in Seq(Int),
           NEW d \in Seq(Int), NEW f \in Seq(Int), NEW x \in Seq(Int)
    PROVE  LongerBefore(a, b, c, d, f, x)
<1> DEFINE h == a \o b \o c \o d
<1>1. a \o b \in Seq(Int)
  BY ConcatSplit
<1>2. a \o b \o c \in Seq(Int)
  BY <1>1, ConcatSplit
<1>3. h \in Seq(Int)
  BY <1>2, ConcatSplit
<1> HIDE DEF h
<1>4. h \o f \in Seq(Int) /\ f \o x \in Seq(Int)
  BY <1>3, ConcatSplit
<1>5. h \o (f \o x) \in Seq(Int)
  BY <1>3, <1>4, ConcatSplit
<1>6. (h \o f) \o <<>> = h \o f
  BY <1>4, ConcatEmptySeq
<1>7. (h \o (f \o x)) \o <<>> = h \o (f \o x)
  BY <1>5, ConcatEmptySeq
<1>8. (h \o f) \o x = h \o (f \o x)
  <2>1. Grouped(h, f, x)
    BY <1>3, JoinAssociative
  <2> QED BY <2>1, Zenon DEF Grouped
<1>9. (h \o (f \o x)) \o <<>> = ((h \o f) \o <<>>) \o x
  BY <1>6, <1>7, <1>8, Zenon
<1> QED BY <1>9, Zenon DEF Stages, LongerBefore, h

-----------------------------------------------------------------------------
(* Sequences of messages, and what they say of requests.                   *)

\* What a reader may find: a message, or one that nobody filled.
Readable == Messages \cup {Unfilled}

\* Messages have an index, and no message both asks and confirms.
LEMMA Indexes ==
    ASSUME NEW m \in Readable
    PROVE  /\ Confirms(m) \in BOOLEAN /\ Asks(m) \in BOOLEAN
           /\ Confirms(m) => m \in Messages /\ m.index \in Int /\ ~Asks(m)
           /\ Asks(m) => m \in Messages /\ m.index \in Int /\ ~Confirms(m)
<1>1. Unfilled.magic = "none"
  BY DEF Unfilled
<1>2. Confirms(m) => m \in Messages /\ ~Asks(m)
  BY <1>1 DEF Readable, Confirms, Asks, Answerable
<1>3. Asks(m) => m \in Messages /\ ~Confirms(m)
  BY <1>1 DEF Readable, Confirms, Asks, Answerable
<1>4. m \in Messages => m.index \in Int
  BY DEF Messages
<1>5. Confirms(m) \in BOOLEAN /\ Asks(m) \in BOOLEAN
  BY DEF Confirms, Asks, Answerable
<1> QED BY <1>2, <1>3, <1>4, <1>5

\* The elements of a sequence and of its parts.
LEMMA Elements ==
    ASSUME NEW S, NEW s \in Seq(S), NEW t \in Seq(S)
    PROVE  /\ ToSet(s \o t) = ToSet(s) \cup ToSet(t)
           /\ ToSet(s) \subseteq S
<1> DEFINE p == s \o t
<1>1. /\ Len(p) = Len(s) + Len(t) /\ Len(s) \in Nat /\ Len(t) \in Nat
      /\ \A i \in 1..Len(s) : p[i] = s[i]
      /\ \A i \in 1..Len(t) : p[Len(s) + i] = t[i]
      /\ p \in Seq(S)
  BY ConcatSplit
<1>2. \A i \in 1..Len(p) : \/ i \in 1..Len(s) /\ p[i] = s[i]
                           \/ i - Len(s) \in 1..Len(t) /\ p[i] = t[i - Len(s)]
  BY ConcatWhere
<1> HIDE DEF p
<1>3. DOMAIN p = 1..Len(p) /\ DOMAIN s = 1..Len(s) /\ DOMAIN t = 1..Len(t)
  BY <1>1, LenProperties
<1>4. \A i \in 1..Len(s) : i \in 1..Len(p)
  BY <1>1
<1>5. \A i \in 1..Len(t) : Len(s) + i \in 1..Len(p)
  BY <1>1
<1>6. ToSet(p) \subseteq ToSet(s) \cup ToSet(t)
  BY <1>2, <1>3 DEF ToSet
<1>7. ToSet(s) \subseteq ToSet(p) /\ ToSet(t) \subseteq ToSet(p)
  BY <1>1, <1>3, <1>4, <1>5 DEF ToSet
<1>8. ToSet(s) \subseteq S
  BY <1>3, ElementOfSeq DEF ToSet
<1> QED BY <1>6, <1>7, <1>8 DEF p

\* One element, and none.
LEMMA ElementsOfOne == ToSet(<<>>) = {} /\ \A x : ToSet(<<x>>) = {x}
BY DEF ToSet

\* A sequence is its head before its tail.
LEMMA HeadFirst ==
    ASSUME NEW S, NEW s \in Seq(S), s # <<>>
    PROVE  /\ Head(s) \in S /\ Tail(s) \in Seq(S) /\ Len(Tail(s)) = Len(s) - 1
           /\ <<Head(s)>> \in Seq(S) /\ s = <<Head(s)>> \o Tail(s)
           /\ ToSet(s) = {Head(s)} \cup ToSet(Tail(s))
<1>1. Head(s) \in S /\ Tail(s) \in Seq(S) /\ Len(Tail(s)) = Len(s) - 1
  BY HeadTailProperties
<1>2. <<Head(s)>> \in Seq(S)
  BY <1>1
<1>3. s = <<Head(s)>> \o Tail(s)
  <2> DEFINE h == <<Head(s)>>
             t == Tail(s)
             p == h \o t
  <2>1. Len(s) \in Nat /\ Len(s) > 0 /\ s[1] = Head(s)
    BY HeadTailProperties
  <2>0. h \in Seq(S) /\ t \in Seq(S)
    BY <1>1
  <2>2. Len(h) = 1 /\ h[1] = s[1] /\ Len(t) = Len(s) - 1
    BY <1>1, <2>1
  <2>3. \A i \in 1..Len(t) : t[i] = s[i + 1]
    BY HeadTailProperties
  <2> HIDE DEF h, t
  <2>4. /\ p \in Seq(S) /\ Len(p) = Len(h) + Len(t)
        /\ \A i \in 1..Len(h) : p[i] = h[i]
        /\ \A i \in 1..Len(t) : p[Len(h) + i] = t[i]
    BY <2>0, ConcatSplit
  <2> HIDE DEF p
  <2>5. Len(p) = Len(s)
    BY <2>1, <2>2, <2>4
  <2>6. ASSUME NEW i \in 1..Len(s) PROVE p[i] = s[i]
    <3>1. CASE i = 1
      BY <2>2, <2>4, <3>1
    <3>2. CASE i # 1
      <4>1. i - 1 \in 1..Len(t) /\ 1 + (i - 1) = i /\ (i - 1) + 1 = i
        BY <2>1, <2>2, <3>2
      <4>2. p[1 + (i - 1)] = t[i - 1] /\ t[i - 1] = s[(i - 1) + 1]
        BY <2>2, <2>3, <2>4, <4>1
      <4> QED BY <4>1, <4>2
    <3> QED BY <3>1, <3>2
  <2>7. p = s
    BY <2>4, <2>5, <2>6, SeqEqual
  <2> QED BY <2>7 DEF p, h, t
<1>4. ToSet(<<Head(s)>> \o Tail(s)) = ToSet(<<Head(s)>>) \cup ToSet(Tail(s))
  <2> DEFINE h == <<Head(s)>>
             t == Tail(s)
  <2>1. h \in Seq(S) /\ t \in Seq(S)
    BY <1>1
  <2> HIDE DEF h, t
  <2>2. ToSet(h \o t) = ToSet(h) \cup ToSet(t)
    BY <2>1, Elements
  <2> QED BY <2>2 DEF h, t
<1> QED BY <1>1, <1>2, <1>3, <1>4, ElementsOfOne

\* A function applied to every element.
Mapped(h, q) == [i \in 1..Len(q) |-> h[q[i]]]
MapsTo(S, T, h, q) ==
    /\ Mapped(h, q) \in Seq(T) /\ Len(Mapped(h, q)) = Len(q)
    /\ \A i \in 1..Len(q) : Mapped(h, q)[i] = h[q[i]]
MapsBoth(S, T, h, q, r) == Mapped(h, q \o r) = Mapped(h, q) \o Mapped(h, r)

LEMMA MappedType ==
    ASSUME NEW S, NEW T, NEW h \in [S -> T], NEW q \in Seq(S)
    PROVE  MapsTo(S, T, h, q)
<1>1. Len(q) \in Nat /\ \A i \in 1..Len(q) : q[i] \in S
  BY ElementOfSeq
<1> QED BY <1>1 DEF Mapped, MapsTo

LEMMA MappedJoin ==
    ASSUME NEW S, NEW T, NEW h \in [S -> T], NEW q \in Seq(S), NEW r \in Seq(S)
    PROVE  MapsBoth(S, T, h, q, r)
<1> DEFINE p == q \o r
           a == Mapped(h, q)
           b == Mapped(h, r)
           c == a \o b
<1>1. /\ p \in Seq(S) /\ Len(p) = Len(q) + Len(r) /\ Len(q) \in Nat /\ Len(r) \in Nat
      /\ \A i \in 1..Len(q) : p[i] = q[i]
      /\ \A i \in 1..Len(r) : p[Len(q) + i] = r[i]
  BY ConcatSplit
<1>0. MapsTo(S, T, h, q) /\ MapsTo(S, T, h, r)
  BY MappedType
<1>2. a \in Seq(T) /\ b \in Seq(T)
  BY <1>0 DEF MapsTo
<1>3. Len(a) = Len(q) /\ \A i \in 1..Len(q) : a[i] = h[q[i]]
  BY <1>0 DEF MapsTo
<1>4. Len(b) = Len(r) /\ \A i \in 1..Len(r) : b[i] = h[r[i]]
  BY <1>0 DEF MapsTo
<1> HIDE DEF p, a, b
<1>5. /\ c \in Seq(T) /\ Len(c) = Len(a) + Len(b)
      /\ \A i \in 1..Len(a) : c[i] = a[i]
      /\ \A i \in 1..Len(b) : c[Len(a) + i] = b[i]
  BY <1>2, ConcatSplit
<1> HIDE DEF c
<1>6. /\ Mapped(h, p) \in Seq(T) /\ Len(Mapped(h, p)) = Len(p)
      /\ \A i \in 1..Len(p) : Mapped(h, p)[i] = h[p[i]]
  <2>1. MapsTo(S, T, h, p)
    BY <1>1, MappedType
  <2> QED BY <2>1 DEF MapsTo
<1>7. ASSUME NEW i \in 1..Len(p) PROVE Mapped(h, p)[i] = c[i]
  <2>1. CASE i \in 1..Len(q)
    BY <1>1, <1>3, <1>5, <1>6, <2>1
  <2>2. CASE ~(i \in 1..Len(q))
    <3>1. PICK j \in 1..Len(r) : i = Len(q) + j
      <4>1. i - Len(q) \in 1..Len(r) /\ i = Len(q) + (i - Len(q))
        BY <1>1, <2>2
      <4> QED BY <4>1
    <3> QED BY <1>1, <1>3, <1>4, <1>5, <1>6, <3>1
  <2> QED BY <2>1, <2>2
<1>8. Len(Mapped(h, p)) = Len(c)
  BY <1>1, <1>3, <1>4, <1>5, <1>6
<1>9. Mapped(h, p) = c
  BY <1>5, <1>6, <1>7, <1>8, SeqEqual
<1> QED BY <1>9 DEF p, a, b, c, MapsBoth

\* What a sequence of messages confirms or asks for, and what its parts do.
Confirmed == [m \in Readable |-> IF Confirms(m) THEN m.index ELSE 0]
Asked == [m \in Readable |-> IF Asks(m) THEN m.index ELSE 0]

LEMMA ConfirmingMapped ==
    ASSUME NEW q \in Seq(Readable)
    PROVE  Confirming(q) = Mapped(Confirmed, q) /\ Asking(q) = Mapped(Asked, q)
<1>1. \A i \in 1..Len(q) : q[i] \in Readable
  BY ElementOfSeq
<1> QED BY <1>1 DEF Confirming, Asking, Mapped, Confirmed, Asked

LEMMA ConfirmedType == Confirmed \in [Readable -> Int] /\ Asked \in [Readable -> Int]
BY Indexes DEF Confirmed, Asked

LEMMA ConfirmingType ==
    ASSUME NEW q \in Seq(Readable)
    PROVE  /\ Confirming(q) \in Seq(Int) /\ Len(Confirming(q)) = Len(q)
           /\ \A i \in 1..Len(q) : Confirming(q)[i] = IF Confirms(q[i]) THEN q[i].index ELSE 0
<1>1. Confirming(q) \in Seq(Int) /\ Len(Confirming(q)) = Len(q)
  <2>1. MapsTo(Readable, Int, Confirmed, q)
    BY ConfirmedType, MappedType
  <2> QED BY <2>1, ConfirmingMapped DEF MapsTo
<1> QED BY <1>1 DEF Confirming

LEMMA AskingType ==
    ASSUME NEW q \in Seq(Readable)
    PROVE  /\ Asking(q) \in Seq(Int) /\ Len(Asking(q)) = Len(q)
           /\ \A i \in 1..Len(q) : Asking(q)[i] = IF Asks(q[i]) THEN q[i].index ELSE 0
<1>1. Asking(q) \in Seq(Int) /\ Len(Asking(q)) = Len(q)
  <2>1. MapsTo(Readable, Int, Asked, q)
    BY ConfirmedType, MappedType
  <2> QED BY <2>1, ConfirmingMapped DEF MapsTo
<1> QED BY <1>1 DEF Asking

LEMMA NumbersJoin ==
    ASSUME NEW q \in Seq(Readable), NEW r \in Seq(Readable)
    PROVE  /\ Confirming(q \o r) = Confirming(q) \o Confirming(r)
           /\ Asking(q \o r) = Asking(q) \o Asking(r)
<1> DEFINE p == q \o r
<1>1. p \in Seq(Readable)
  BY ConcatSplit
<1>2. /\ Mapped(Confirmed, p) = Mapped(Confirmed, q) \o Mapped(Confirmed, r)
      /\ Mapped(Asked, p) = Mapped(Asked, q) \o Mapped(Asked, r)
  <2>1. MapsBoth(Readable, Int, Confirmed, q, r) /\ MapsBoth(Readable, Int, Asked, q, r)
    BY ConfirmedType, MappedJoin
  <2> QED BY <2>1, Zenon DEF MapsBoth
<1> HIDE DEF p
<1>3. /\ Confirming(p) = Confirming(q) \o Confirming(r)
      /\ Asking(p) = Asking(q) \o Asking(r)
  <2>1. Confirming(p) = Mapped(Confirmed, p) /\ Asking(p) = Mapped(Asked, p)
    BY <1>1, ConfirmingMapped
  <2>2. Confirming(q) = Mapped(Confirmed, q) /\ Asking(q) = Mapped(Asked, q)
    BY ConfirmingMapped
  <2>3. Confirming(r) = Mapped(Confirmed, r) /\ Asking(r) = Mapped(Asked, r)
    BY ConfirmingMapped
  <2> QED BY <1>2, <2>1, <2>2, <2>3, Zenon
<1> QED BY <1>3 DEF p

\* The things on a wire, as their reader takes them.
LEMMA SeenType ==
    ASSUME NEW k, NEW e, NEW q, Len(q) \in Nat,
           \A i \in 1..Len(q) : Meaning(k, e, q[i]) \in Readable
    PROVE  Seen(k, e, q) \in Seq(Readable) /\ Len(Seen(k, e, q)) = Len(q)
BY DEF Seen

LEMMA SeenJoin ==
    ASSUME NEW k, NEW e, NEW S, NEW q \in Seq(S), NEW r \in Seq(S)
    PROVE  Seen(k, e, q \o r) = Seen(k, e, q) \o Seen(k, e, r)
<1> DEFINE h == [x \in S |-> Meaning(k, e, x)]
           T == {Meaning(k, e, x) : x \in S}
           p == q \o r
<1>1. h \in [S -> T]
  OBVIOUS
<1>2. \A s \in Seq(S) : Seen(k, e, s) = Mapped(h, s)
  BY ElementOfSeq DEF Seen, Mapped
<1>3. p \in Seq(S)
  BY ConcatSplit
<1> HIDE DEF h, T
<1>4. Mapped(h, p) = Mapped(h, q) \o Mapped(h, r)
  <2>1. MapsBoth(S, T, h, q, r)
    BY <1>1, MappedJoin
  <2> QED BY <2>1, Zenon DEF MapsBoth, p
<1> HIDE DEF p
<1>5. Seen(k, e, p) = Seen(k, e, q) \o Seen(k, e, r)
  <2>1. Seen(k, e, p) = Mapped(h, p)
    BY <1>2, <1>3
  <2>2. Seen(k, e, q) = Mapped(h, q) /\ Seen(k, e, r) = Mapped(h, r)
    BY <1>2
  <2> QED BY <1>4, <2>1, <2>2, Zenon
<1> QED BY <1>5 DEF p

-----------------------------------------------------------------------------
(* Packets: marks, numbers and what the transform makes of them.           *)

\* A set of naturals has a least element.
LEMMA Least ==
    ASSUME NEW I \in SUBSET Nat, I # {}
    PROVE  Min(I) \in I /\ \A y \in I : Min(I) <= y
<1>1. PICK x \in I : \A y \in I : ~(<<y, x>> \in OpToRel(<, Nat))
  BY WFMin, NatLessThanWellFounded, Zenon
<1>2. \A y \in I : x <= y
  <2> SUFFICES ASSUME NEW y \in I PROVE x <= y
    OBVIOUS
  <2>1. ~(<<y, x>> \in OpToRel(<, Nat))
    BY <1>1
  <2>2. ~(y < x)
    BY <2>1, Zenon DEF OpToRel
  <2> QED BY <2>2
<1>3. \E z \in I : \A y \in I : z <= y
  BY <1>2
<1> QED BY <1>3 DEF Min

\* The first mark, or none.
LEMMA FirstMark ==
    ASSUME NEW S, NEW s \in Seq(S), NEW c
    PROVE  /\ IndexByte(s, c) \in 0..Len(s)
           /\ IndexByte(s, c) > 0 => s[IndexByte(s, c)] = c
           /\ \A i \in 1..Len(s) : s[i] = c => IndexByte(s, c) \in 1..i
<1> DEFINE I == {i \in 1..Len(s) : s[i] = c}
<1>1. IndexByte(s, c) = IF I # {} THEN Min(I) ELSE 0
  BY DEF IndexByte, SelectInSeq
<1>2. Len(s) \in Nat
  OBVIOUS
<1>3. I \in SUBSET Nat /\ \A i : i \in I <=> i \in 1..Len(s) /\ s[i] = c
  BY <1>2
<1> HIDE DEF I
<1>4. I # {} => Min(I) \in I /\ \A y \in I : Min(I) <= y
  BY <1>3, Least
<1>5. CASE I = {}
  BY <1>1, <1>2, <1>3, <1>5
<1>6. CASE I # {}
  <2>1. IndexByte(s, c) = Min(I)
    BY <1>1, <1>6
  <2>2. IndexByte(s, c) \in 1..Len(s) /\ s[IndexByte(s, c)] = c
    BY <1>3, <1>4, <1>6, <2>1
  <2>3. \A i \in 1..Len(s) : s[i] = c => IndexByte(s, c) <= i
    BY <1>3, <1>4, <1>6, <2>1
  <2> QED BY <1>2, <2>2, <2>3
<1> QED BY <1>5, <1>6

\* A part of a sequence, element by element.
LEMMA Part ==
    ASSUME NEW S, NEW s \in Seq(S), NEW m \in Nat \ {0}, NEW n \in Int, n <= Len(s)
    PROVE  /\ SubSeq(s, m, n) \in Seq(S)
           /\ Len(SubSeq(s, m, n)) = IF m <= n THEN n - m + 1 ELSE 0
           /\ \A i \in 1..n - m + 1 : SubSeq(s, m, n)[i] = s[m + i - 1]
<1>1. Len(s) \in Nat /\ \A i \in 1..Len(s) : s[i] \in S
  BY ElementOfSeq
<1>2. \A i \in m..n : s[i] \in S
  BY <1>1
<1>3. m \in Int
  OBVIOUS
<1> QED BY <1>2, <1>3, SubSeqProperties

\* What stands before and after the first mark has the type of the whole.
LEMMA CutTypes ==
    ASSUME NEW s \in Seq(Tokens), NEW c
    PROVE  /\ Before(s, c) \in Seq(Tokens) /\ After(s, c) \in Seq(Tokens)
           /\ Has(s, c) => SubSeq(s, IndexByte(s, c), Len(s)) \in Seq(Tokens)
<1>1. Len(s) \in Nat /\ IndexByte(s, c) \in 0..Len(s)
  BY FirstMark
<1>2. PICK k \in 0..Len(s) : k = IndexByte(s, c)
  BY <1>1
<1>3. SubSeq(s, 1, k - 1) \in Seq(Tokens)
  <2>1. k - 1 \in Int /\ k - 1 <= Len(s) /\ 1 \in Nat \ {0}
    BY <1>1, <1>2
  <2> QED BY <2>1, Part
<1>4. SubSeq(s, k + 1, Len(s)) \in Seq(Tokens)
  <2>1. k + 1 \in Nat \ {0} /\ Len(s) \in Int /\ Len(s) <= Len(s)
    BY <1>1, <1>2
  <2> QED BY <2>1, Part
<1>5. k > 0 => SubSeq(s, k, Len(s)) \in Seq(Tokens)
  <2> SUFFICES ASSUME k > 0 PROVE SubSeq(s, k, Len(s)) \in Seq(Tokens)
    OBVIOUS
  <2>1. k \in Nat \ {0} /\ Len(s) \in Int /\ Len(s) <= Len(s)
    BY <1>1, <1>2
  <2> QED BY <2>1, Part
<1> QED BY <1>2, <1>3, <1>4, <1>5 DEF Before, After, Has

\* A sequence is cut at its first mark.
LEMMA CutAt ==
    ASSUME NEW h \in Seq(Tokens), NEW o \in Seq(Tokens), NEW t \in Seq(Tokens), NEW c
    PROVE  LET s == h \o o \o t
           IN  Len(o) = 1 /\ o[1] = c /\ (\A i \in 1..Len(h) : h[i] # c) =>
                   Has(s, c) /\ Before(s, c) = h /\ After(s, c) = t
<1> DEFINE a == h \o o
           s == a \o t
<1>1. /\ a \in Seq(Tokens) /\ Len(a) = Len(h) + Len(o)
      /\ \A i \in 1..Len(h) : a[i] = h[i]
      /\ \A i \in 1..Len(o) : a[Len(h) + i] = o[i]
  BY ConcatSplit
<1>2. Len(h) \in Nat /\ Len(t) \in Nat
  OBVIOUS
<1> HIDE DEF a
<1>3. /\ s \in Seq(Tokens) /\ Len(s) = Len(a) + Len(t)
      /\ \A i \in 1..Len(a) : s[i] = a[i]
      /\ \A i \in 1..Len(t) : s[Len(a) + i] = t[i]
  <2>1. a \in Seq(Tokens)
    BY <1>1
  <2> QED BY <2>1, ConcatSplit
<1> HIDE DEF s
<1> SUFFICES ASSUME Len(o) = 1, o[1] = c, \A i \in 1..Len(h) : h[i] # c
             PROVE  Has(s, c) /\ Before(s, c) = h /\ After(s, c) = t
  BY DEF s, a
<1>4. Len(a) = Len(h) + 1 /\ a[Len(h) + 1] = c
  BY <1>1, <1>2
<1>5. /\ Len(s) = Len(h) + 1 + Len(t) /\ s[Len(h) + 1] = c
      /\ \A i \in 1..Len(h) : s[i] = h[i]
      /\ \A i \in 1..Len(t) : s[Len(h) + 1 + i] = t[i]
  BY <1>1, <1>2, <1>3, <1>4
<1>6. IndexByte(s, c) = Len(h) + 1
  <2>1. IndexByte(s, c) \in 1..Len(h) + 1 /\ s[IndexByte(s, c)] = c
    <3>1. /\ IndexByte(s, c) \in 0..Len(s)
          /\ IndexByte(s, c) > 0 => s[IndexByte(s, c)] = c
          /\ \A i \in 1..Len(s) : s[i] = c => IndexByte(s, c) \in 1..i
      BY <1>3, FirstMark
    <3>2. Len(h) + 1 \in 1..Len(s)
      BY <1>2, <1>5
    <3> QED BY <1>2, <1>5, <3>1, <3>2
  <2>2. \A i \in 1..Len(h) : s[i] # c
    BY <1>5
  <2> QED BY <1>2, <2>1, <2>2
<1>7. SubSeq(s, 1, Len(h)) = h
  <2>1. /\ SubSeq(s, 1, Len(h)) \in Seq(Tokens)
        /\ Len(SubSeq(s, 1, Len(h))) = IF 1 <= Len(h) THEN Len(h) - 1 + 1 ELSE 0
        /\ \A i \in 1..Len(h) - 1 + 1 : SubSeq(s, 1, Len(h))[i] = s[1 + i - 1]
    <3>1. Len(h) \in Int /\ Len(h) <= Len(s) /\ 1 \in Nat \ {0}
      BY <1>2, <1>5
    <3> QED BY <1>3, <3>1, Part
  <2>2. /\ Len(SubSeq(s, 1, Len(h))) = Len(h)
        /\ \A i \in 1..Len(h) : SubSeq(s, 1, Len(h))[i] = h[i]
    BY <1>2, <1>5, <2>1
  <2> QED BY <2>1, <2>2, SeqEqual
<1>8. SubSeq(s, Len(h) + 2, Len(s)) = t
  <2> DEFINE m == Len(h) + 2
             u == SubSeq(s, m, Len(s))
  <2>1. /\ u \in Seq(Tokens)
        /\ Len(u) = IF m <= Len(s) THEN Len(s) - m + 1 ELSE 0
        /\ \A i \in 1..Len(s) - m + 1 : u[i] = s[m + i - 1]
    <3>1. Len(s) \in Int /\ Len(s) <= Len(s) /\ m \in Nat \ {0}
      BY <1>2, <1>5
    <3> HIDE DEF m
    <3> QED BY <1>3, <3>1, Part
  <2> HIDE DEF u
  <2>a. Len(u) = Len(t)
    BY <1>2, <1>5, <2>1
  <2>b. ASSUME NEW i \in 1..Len(t) PROVE u[i] = t[i]
    <3>1. i \in 1..Len(s) - m + 1 /\ m + i - 1 = Len(h) + 1 + i
      BY <1>2, <1>5
    <3>2. u[i] = s[m + i - 1] /\ s[Len(h) + 1 + i] = t[i]
      BY <1>5, <2>1, <3>1
    <3> QED BY <3>1, <3>2
  <2>2. Len(u) = Len(t) /\ \A i \in 1..Len(t) : u[i] = t[i]
    BY <2>a, <2>b
  <2> QED BY <2>1, <2>2, SeqEqual DEF u
<1>9. Has(s, c) /\ Before(s, c) = h /\ After(s, c) = t
  <2>1. IndexByte(s, c) - 1 = Len(h) /\ IndexByte(s, c) + 1 = Len(h) + 2
    BY <1>2, <1>6
  <2>2. Has(s, c)
    BY <1>2, <1>6 DEF Has
  <2> QED BY <1>7, <1>8, <2>1, <2>2, Zenon DEF Before, After
<1> QED BY <1>9

\* Nothing stands before a mark that comes first.
LEMMA CutFirst ==
    ASSUME NEW s \in Seq(Tokens), Len(s) > 0
    PROVE  Before(s, s[1]) = <<>>
<1>1. Len(s) \in Nat /\ 1 \in 1..Len(s)
  OBVIOUS
<1>2. IndexByte(s, s[1]) = 1
  BY <1>1, FirstMark
<1>3. SubSeq(s, 1, 0) = <<>>
  BY SubSeqEmpty
<1> QED BY <1>2, <1>3 DEF Before

\* Numerals are numbers.
LEMMA NumeralValue ==
    ASSUME NEW n \in 0..Len(Numerals) - 1
    PROVE  /\ Value(Numerals[n + 1]) = n
           /\ Numerals[n + 1] \in Tokens \ Marks /\ Numerals[n + 1] \in ToSet(Numerals)
<1>1. /\ Len(Numerals) \in Nat /\ DOMAIN Numerals = 1..Len(Numerals)
      /\ \A i \in 1..Len(Numerals) : Numerals[i] \in ToSet(Numerals)
      /\ \A i, j \in 1..Len(Numerals) : Numerals[i] = Numerals[j] => i = j
      /\ ToSet(Numerals) \cap Marks = {}
  BY SocketIOAssumption, ElementOfSeq, LenProperties
<1>2. n + 1 \in 1..Len(Numerals)
  BY <1>1
<1>3. \A k \in 0..Len(Numerals) - 1 : Numerals[k + 1] = Numerals[n + 1] => k = n
  BY <1>1, <1>2
<1>4. Numerals[n + 1] \in ToSet(Numerals)
  BY <1>1, <1>2 DEF ToSet
<1>5. Numerals[n + 1] \in Tokens \ Marks
  BY <1>1, <1>2, <1>4 DEF Tokens
<1> QED BY <1>3, <1>4, <1>5 DEF Value

\* What is read as a number, whatever it was.
LEMMA ParseType ==
    ASSUME NEW s \in Seq(Tokens)
    PROVE  /\ ParseInt(s).ok \in BOOLEAN /\ ParseInt(s).n \in Nat
           /\ ParseInt(<<>>).ok = FALSE
<1>1. Int64Max \in Nat
  BY SocketIOAssumption
<1>2. IsDecimal(s) => Value(s[1]) \in Nat
  <2> SUFFICES ASSUME IsDecimal(s) PROVE Value(s[1]) \in Nat
    OBVIOUS
  <2>1. s[1] \in ToSet(Numerals) /\ DOMAIN Numerals = 1..Len(Numerals) /\ Len(Numerals) \in Nat
    BY SocketIOAssumption, LenProperties DEF IsDecimal
  <2>2. PICK i \in 1..Len(Numerals) : Numerals[i] = s[1]
    BY <2>1 DEF ToSet
  <2>3. i - 1 \in 0..Len(Numerals) - 1 /\ (i - 1) + 1 = i
    BY <2>1
  <2>4. Value(Numerals[(i - 1) + 1]) = i - 1
    BY <2>3, NumeralValue
  <2> QED BY <2>2, <2>3, <2>4
<1>3. IsDecimal(<<>>) = FALSE
  BY DEF IsDecimal
<1>4. ParseInt(<<>>).ok = FALSE
  BY <1>3 DEF ParseInt
<1>5. ParseInt(s).ok \in BOOLEAN /\ ParseInt(s).n \in Nat
  BY <1>1, <1>2 DEF ParseInt
<1> QED BY <1>4, <1>5

\* int32 keeps what fits.
LEMMA Int32Type == ASSUME NEW n \in Nat PROVE ToInt32(n) \in Int
<1>1. Int32Max + 1 \in Nat \ {0} /\ 2 * (Int32Max + 1) \in Nat \ {0}
  BY SocketIOAssumption
<1>2. PICK w \in Nat \ {0} : w = 2 * (Int32Max + 1)
  BY <1>1
<1>3. PICK x \in Int : x = n + Int32Max + 1
  BY <1>1, SocketIOAssumption
<1>4. x % w \in Int
  OBVIOUS
<1> QED BY <1>1, <1>2, <1>3, <1>4, SocketIOAssumption DEF ToInt32

LEMMA Int32Same == ASSUME NEW n \in 0..Int32Max PROVE ToInt32(n) = n
<1>1. Int32Max \in Nat
  BY SocketIOAssumption
<1>2. PICK w \in Nat \ {0} : w = 2 * (Int32Max + 1)
  BY <1>1
<1>3. PICK x \in Int : x = n + Int32Max + 1
  BY <1>1
<1>4. x \in 0..w - 1
  BY <1>1, <1>2, <1>3
<1>5. x % w = x
  BY <1>4
<1> QED BY <1>1, <1>2, <1>3, <1>5 DEF ToInt32

\* The number of a request, as it stands in packets.
LEMMA DecimalToken ==
    ASSUME NEW n \in 0..Int32Max
    PROVE  /\ Decimal(n) = <<Numerals[n + 1]>> /\ Decimal(n) \in Seq(Tokens)
           /\ Len(Decimal(n)) = 1 /\ Decimal(n)[1] = Numerals[n + 1]
           /\ Decimal(n)[1] \notin Marks /\ Decimal(n)[1] \in ToSet(Numerals)
           /\ Value(Decimal(n)[1]) = n /\ ParseInt(Decimal(n)) = [ok |-> TRUE, n |-> n]
<1>1. /\ n \in 0..Len(Numerals) - 1 /\ n <= Int64Max /\ Int64Max \in Nat /\ ~(n < 0)
  BY SocketIOAssumption
<1>2. /\ Value(Numerals[n + 1]) = n
      /\ Numerals[n + 1] \in Tokens \ Marks /\ Numerals[n + 1] \in ToSet(Numerals)
  BY <1>1, NumeralValue
<1>3. Decimal(n) = <<Numerals[n + 1]>>
  BY <1>1 DEF Decimal
<1>4. PICK w : w = Numerals[n + 1]
  OBVIOUS
<1>5. Decimal(n) \in Seq(Tokens) /\ Len(Decimal(n)) = 1 /\ Decimal(n)[1] = w
  BY <1>2, <1>3, <1>4
<1>6. ParseInt(Decimal(n)) = [ok |-> TRUE, n |-> n]
  <2>1. IsDecimal(Decimal(n))
    BY <1>2, <1>4, <1>5 DEF IsDecimal
  <2>2. Value(Decimal(n)[1]) = n
    BY <1>2, <1>4, <1>5
  <2>3. ~(n > Int64Max)
    BY <1>1
  <2> QED BY <2>1, <2>2, <2>3, Zenon DEF ParseInt
<1> QED BY <1>2, <1>3, <1>4, <1>5, <1>6

-----------------------------------------------------------------------------
(* What is read and written.                                               *)

\* A packet is read as an error or a message, which never confirms anything; what the
\* transform sends itself is no confirmation.
WellRead(r) ==
    /\ r.msg \in Readable /\ ~Confirms(r.msg)
    /\ r.send \in Seq(Packets) /\ Len(r.send) <= 1
    /\ \A x \in ToSet(r.send) : x.type # "3"

LEMMA MsgType ==
    ASSUME NEW flag \in SUBSET Flags, NEW index \in Int, NEW path \in Seq(Tokens),
           NEW body \in Seq(Tokens)
    PROVE  Msg(flag, index, path, body) \in Messages
BY DEF Msg, Messages

LEMMA ErrorRead == \A e : WellRead(Error(e))
<1> SUFFICES ASSUME NEW e PROVE WellRead(Error(e))
  OBVIOUS
<1>1. Error(e).msg = Unfilled /\ Error(e).send = <<>>
  BY DEF Error
<1>2. Unfilled \in Readable /\ ~Confirms(Unfilled)
  BY DEF Readable, Confirms, Unfilled
<1>3. <<>> \in Seq(Packets) /\ Len(<<>>) = 0
  BY EmptySeq
<1> QED BY <1>1, <1>2, <1>3, ElementsOfOne DEF WellRead

LEMMA FilledRead ==
    ASSUME NEW m \in Readable, ~Confirms(m)
    PROVE  WellRead(Filled(m))
<1>1. Filled(m).msg = m /\ Filled(m).send = <<>>
  BY DEF Filled
<1>2. <<>> \in Seq(Packets) /\ Len(<<>>) = 0
  BY EmptySeq
<1> QED BY <1>1, <1>2, ElementsOfOne DEF WellRead

LEMMA EventRead == ASSUME NEW data \in Seq(Tokens) PROVE WellRead(ReadEvent(data))
<1>1. CASE ~Has(data, ",")
  BY <1>1, ErrorRead DEF ReadEvent
<1>2. CASE Has(data, ",")
  <2> DEFINE rest == After(data, ",")
             ack == IF Acknowledged(rest)
                    THEN ParseInt(Before(rest, ",")) ELSE [ok |-> FALSE, n |-> 0]
             flag == IF ack.n = 0 THEN {"noreply"} ELSE {}
             m == Msg(flag, ToInt32(ack.n), Before(data, ","), EventData(rest, ack))
  <2>1. rest \in Seq(Tokens) /\ Before(data, ",") \in Seq(Tokens)
    BY CutTypes
  <2>2. Before(rest, ",") \in Seq(Tokens) /\ After(rest, ",") \in Seq(Tokens)
    BY <2>1, CutTypes
  <2>3. ack.n \in Nat
    BY <2>2, ParseType
  <2>4. EventData(rest, ack) \in Seq(Tokens)
    BY <2>1, <2>2 DEF EventData
  <2>5. flag \in SUBSET Flags /\ "confirm" \notin flag
    BY DEF Flags
  <2>6. ReadEvent(data) = Filled(m)
    BY <1>2 DEF ReadEvent
  <2> HIDE DEF rest, ack, flag
  <2>7. m \in Messages
    BY <2>1, <2>3, <2>4, <2>5, Int32Type, MsgType
  <2>8. m \in Readable /\ ~Confirms(m)
    BY <2>5, <2>7 DEF Readable, Confirms, Msg
  <2> HIDE DEF m
  <2> QED BY <2>6, <2>8, FilledRead
<1> QED BY <1>1, <1>2

LEMMA ConnectRead == ASSUME NEW data \in Seq(Tokens) PROVE WellRead(HandleConnect(data))
<1> DEFINE ns == ConnectNamespace(data)
           sid == <<",", "{sid}">>
           p == Packet("0", ns \o sid)
<1>1. ns \in Seq(Tokens)
  <2>1. Namespace \in Seq(Tokens)
    BY SocketIOAssumption
  <2>2. Has(data, "/") => SubSeq(data, IndexByte(data, "/"), Len(data)) \in Seq(Tokens)
    BY CutTypes
  <2>3. Has(data, "/") => Before(SubSeq(data, IndexByte(data, "/"), Len(data)), ",") \in Seq(Tokens)
    BY <2>2, CutTypes
  <2> QED BY <2>1, <2>2, <2>3 DEF ConnectNamespace
<1>2. sid \in Seq(Tokens)
  <2>1. "," \in Tokens /\ "{sid}" \in Tokens
    BY DEF Tokens, Marks
  <2>2. \A x, y \in Tokens : <<x, y>> \in Seq(Tokens)
    OBVIOUS
  <2> QED BY <2>1, <2>2
<1> HIDE DEF ns, sid
<1>3. ns \o sid \in Seq(Tokens)
  BY <1>1, <1>2, ConcatSplit
<1>4. p \in Packets /\ p.type = "0"
  BY <1>3 DEF Packets, Packet
<1>5. HandleConnect(data) = [err |-> "none", msg |-> Unfilled, send |-> <<p>>]
  BY DEF HandleConnect, ns, sid
<1> HIDE DEF p
<1>6. <<p>> \in Seq(Packets) /\ Len(<<p>>) = 1
  BY <1>4
<1>7. Unfilled \in Readable /\ ~Confirms(Unfilled)
  BY DEF Readable, Confirms, Unfilled
<1>8. HandleConnect(data).msg = Unfilled /\ HandleConnect(data).send = <<p>>
  BY <1>5
<1> QED BY <1>4, <1>6, <1>7, <1>8, ElementsOfOne DEF WellRead

LEMMA PacketRead == ASSUME NEW p \in Packets PROVE WellRead(ReadPacket(p))
<1>1. p.data \in Seq(Tokens)
  BY DEF Packets
<1>2. WellRead(Filled(Unfilled))
  <2>1. Unfilled \in Readable /\ ~Confirms(Unfilled)
    BY DEF Readable, Confirms, Unfilled
  <2> QED BY <2>1, FilledRead
<1>3. WellRead(HandleConnect(p.data)) /\ WellRead(ReadEvent(p.data))
  BY <1>1, ConnectRead, EventRead
<1>4. WellRead(HandleAck(p.data))
  BY <1>2, ErrorRead DEF HandleAck
<1>5. WellRead(HandleBinaryEvent(p.data))
  <2>1. After(p.data, "-") \in Seq(Tokens)
    BY <1>1, CutTypes
  <2> QED BY <2>1, ErrorRead, EventRead DEF HandleBinaryEvent
<1>6. WellRead(HandleDisconnect)
  BY ErrorRead DEF HandleDisconnect
<1>7. ReadPacket(p) \in {HandleConnect(p.data), HandleDisconnect, ReadEvent(p.data),
                         HandleAck(p.data), HandleBinaryEvent(p.data), Filled(Unfilled)}
  BY DEF ReadPacket
<1> QED BY <1>2, <1>3, <1>4, <1>5, <1>6, <1>7

\* The path of a message, and of its confirmation.
LEMMA PathType ==
    ASSUME NEW m \in Messages
    PROVE  Path(m) \in Seq(Tokens) /\ Confirm(m) \in Seq(Tokens)
<1>1. m.path \in Seq(Tokens)
  BY DEF Messages
<1>2. Path(m) \in Seq(Tokens)
  BY <1>1, CutTypes DEF Path
<1> QED BY <1>2, ExchangeAssumption DEF Confirm

\* The reply is a confirmation with the index and the data of the request.
LEMMA ReplyType ==
    ASSUME NEW m \in Messages
    PROVE  /\ Reply(m) \in Messages /\ Confirms(Reply(m)) /\ ~Asks(Reply(m))
           /\ Reply(m).index = m.index /\ Reply(m).body = m.body /\ Reply(m).path = Confirm(m)
<1>1. Confirm(m) \in Seq(Tokens)
  BY PathType
<1>2. m.index \in Int /\ m.body \in Seq(Tokens) /\ m.flag \in SUBSET Flags
  BY DEF Messages
<1> DEFINE flag == {"confirm"} \cup (m.flag \cap {"heartbeat"})
<1>3. flag \in SUBSET Flags /\ "confirm" \in flag
  BY <1>2 DEF Flags
<1>4. Reply(m) = Msg(flag, m.index, Confirm(m), m.body)
  BY DEF Reply
<1> HIDE DEF flag
<1>5. Reply(m) \in Messages
  BY <1>1, <1>2, <1>3, <1>4, MsgType
<1>6. /\ Reply(m).magic = "json" /\ Reply(m).flag = flag
      /\ Reply(m).index = m.index /\ Reply(m).body = m.body /\ Reply(m).path = Confirm(m)
  BY <1>4 DEF Msg
<1> QED BY <1>3, <1>5, <1>6 DEF Confirms, Asks, Answerable

\* A sequence with a mark in it is cut there.
CutsAt(h, c, t) ==
    LET s == h \o <<c>> \o t
    IN  s \in Seq(Tokens) /\ Has(s, c) /\ Before(s, c) = h /\ After(s, c) = t

LEMMA CutMark ==
    ASSUME NEW h \in Seq(Tokens), NEW c \in Marks, NEW t \in Seq(Tokens)
    PROVE  (\A i \in 1..Len(h) : h[i] # c) => CutsAt(h, c, t)
<1>1. \A x \in Tokens : <<x>> \in Seq(Tokens) /\ Len(<<x>>) = 1 /\ <<x>>[1] = x
  OBVIOUS
<1>2. c \in Tokens
  BY DEF Tokens
<1> DEFINE o == <<c>>
<1>3. o \in Seq(Tokens)
  BY <1>1, <1>2
<1>4. Len(o) = 1 /\ o[1] = c
  BY <1>1, <1>2
<1> HIDE DEF o
<1>5. LET s == h \o o \o t
      IN  Len(o) = 1 /\ o[1] = c /\ (\A i \in 1..Len(h) : h[i] # c) =>
              Has(s, c) /\ Before(s, c) = h /\ After(s, c) = t
  BY <1>3, CutAt
<1>6. h \o o \o t \in Seq(Tokens)
  <2>1. h \o o \in Seq(Tokens)
    BY <1>3, ConcatSplit
  <2> QED BY <2>1, ConcatSplit
<1> QED BY <1>4, <1>5, <1>6, Zenon DEF CutsAt, o

\* Data behind an ack id.
LEMMA AckData ==
    ASSUME NEW n \in 0..Int32Max, NEW body \in Seq(Tokens)
    PROVE  CutsAt(Decimal(n), ",", body) /\ Acknowledged(Decimal(n) \o <<",">> \o body)
<1> DEFINE w == Decimal(n)
           s == w \o <<",">> \o body
<1>1. w \in Seq(Tokens)
  BY DecimalToken
<1>2. Len(w) = 1 /\ w[1] \notin Marks /\ w[1] \in ToSet(Numerals)
  BY DecimalToken
<1> HIDE DEF w
<1>3. \A i \in 1..Len(w) : w[i] # ","
  <2>1. w[1] # ","
    BY <1>2 DEF Marks
  <2>2. \A i \in 1..Len(w) : i = 1
    BY <1>2
  <2> QED BY <2>1, <2>2
<1>4. "," \in Marks
  BY DEF Marks
<1>5. CutsAt(w, ",", body)
  BY <1>1, <1>3, <1>4, CutMark
<1>6. s # <<>> /\ s[1] = w[1]
  <2>0. \A x \in Tokens : <<x>> \in Seq(Tokens)
    OBVIOUS
  <2>1. "," \in Tokens
    BY <1>4 DEF Tokens
  <2> DEFINE o == <<",">>
             a == w \o o
  <2>2. o \in Seq(Tokens)
    BY <2>0, <2>1
  <2> HIDE DEF o
  <2>3. a \in Seq(Tokens) /\ Len(a) = Len(w) + Len(o) /\ \A i \in 1..Len(w) : a[i] = w[i]
    BY <1>1, <2>2, ConcatSplit
  <2> HIDE DEF a
  <2>4. /\ Len(a \o body) = Len(a) + Len(body)
        /\ \A i \in 1..Len(a) : (a \o body)[i] = a[i]
    BY <2>3, ConcatSplit
  <2>5. Len(o) \in Nat /\ Len(body) \in Nat
    BY <2>2
  <2> DEFINE v == a \o body
  <2> HIDE DEF v
  <2>6. Len(v) > 0 /\ v[1] = w[1]
    BY <1>2, <2>3, <2>4, <2>5 DEF v
  <2>7. v # <<>>
    BY <2>6, EmptySeq
  <2> QED BY <2>6, <2>7, Zenon DEF v, a, o
<1>7. Acknowledged(s)
  <2>1. Has(s, ",")
    BY <1>5, Zenon DEF CutsAt
  <2> HIDE DEF s
  <2> QED BY <1>2, <1>6, <2>1 DEF Acknowledged
<1> QED BY <1>5, <1>7 DEF w

\* An event that BuildEventPacket makes, as handleEvent reads it: the request that its ack
\* id asks to confirm, or none.  An event without ack id must not begin like one with it.
THEOREM EventPacket ==
    ASSUME NEW name \in Words, NEW body \in Seq(Tokens), NEW ackId \in 0..Int32Max,
           ~Acknowledged(body) \/ ackId > 0
    PROVE  LET p == BuildEventPacket(name, body, ackId)
               m == ReadPacket(p).msg
           IN  /\ p \in Packets /\ m \in Messages
               /\ ackId = 0 => ~Asks(m)
               /\ ackId > 0 => Asks(m) /\ m.index = ackId /\ m.body = body
<1> DEFINE h == <<"/", name>>
           t == WithAck(ackId, body)
           data == h \o <<",">> \o t
           p == BuildEventPacket(name, body, ackId)
<1>1. /\ "/" \in Tokens /\ name \in Tokens /\ name # "," /\ "/" # "," /\ "," \in Marks
  BY SocketIOAssumption DEF Tokens, Marks
<1>2. h \in Seq(Tokens) /\ \A i \in 1..Len(h) : h[i] # ","
  <2>1. \A x, y \in Tokens : <<x, y>> \in Seq(Tokens)
    OBVIOUS
  <2>2. Len(h) = 2 /\ h[1] = "/" /\ h[2] = name
    OBVIOUS
  <2>3. h \in Seq(Tokens)
    BY <1>1, <2>1
  <2> HIDE DEF h
  <2>4. \A i \in 1..Len(h) : i = 1 \/ i = 2
    BY <2>2
  <2> QED BY <1>1, <2>2, <2>3, <2>4
<1>3. p = Packet("2", data)
  <2>1. <<"/", name, ",">> = <<"/", name>> \o <<",">>
    <3>1. \A x, y, z : <<x, y, z>> = <<x, y>> \o <<z>>
      OBVIOUS
    <3> QED BY <3>1
  <2> QED BY <2>1, Zenon DEF BuildEventPacket
<1> DEFINE w == Decimal(ackId)
           v == w \o <<",">> \o body
<1>4. /\ v \in Seq(Tokens) /\ Has(v, ",") /\ Before(v, ",") = w /\ After(v, ",") = body
      /\ Acknowledged(v)
  <2>1. CutsAt(w, ",", body) /\ Acknowledged(v)
    BY AckData
  <2> QED BY <2>1, Zenon DEF CutsAt
<1>5. ParseInt(w) = [ok |-> TRUE, n |-> ackId]
  BY DecimalToken
<1>6. t = IF ackId = 0 THEN body ELSE v
  <2>1. ackId > 0 <=> ackId # 0
    OBVIOUS
  <2> QED BY <2>1, Zenon DEF WithAck
<1> HIDE DEF w, h, v, t
<1>7. t \in Seq(Tokens)
  BY <1>4, <1>6
<1>8. data \in Seq(Tokens) /\ Has(data, ",") /\ Before(data, ",") = h /\ After(data, ",") = t
  <2>1. CutsAt(h, ",", t)
    BY <1>1, <1>2, <1>7, CutMark
  <2> QED BY <2>1, Zenon DEF CutsAt
<1> HIDE DEF data, p
<1>9. p \in Packets /\ ReadPacket(p) = ReadEvent(data)
  <2>1. p \in Packets /\ p.type = "2" /\ p.data = data
    BY <1>3, <1>8 DEF Packets, Packet
  <2> QED BY <2>1 DEF ReadPacket
<1> DEFINE ack == IF Acknowledged(t) THEN ParseInt(Before(t, ",")) ELSE [ok |-> FALSE, n |-> 0]
           flag == IF ack.n = 0 THEN {"noreply"} ELSE {}
           m == Msg(flag, ToInt32(ack.n), h, EventData(t, ack))
<1>10. ReadEvent(data) = Filled(m)
  BY <1>8, Zenon DEF ReadEvent
<1>11. ack.n = ackId /\ (ackId # 0 => ack.ok) /\ (ackId = 0 => ~ack.ok)
  <2>1. CASE ackId = 0
    <3>1. ack = [ok |-> FALSE, n |-> 0]
      BY <1>6, <2>1
    <3> HIDE DEF ack
    <3> QED BY <2>1, <3>1
  <2>2. CASE ackId # 0
    <3>1. ack = [ok |-> TRUE, n |-> ackId]
      BY <1>4, <1>5, <1>6, <2>2
    <3> HIDE DEF ack
    <3> QED BY <2>2, <3>1
  <2> QED BY <2>1, <2>2
<1> HIDE DEF ack
<1>12. EventData(t, ack) = body
  BY <1>4, <1>6, <1>11 DEF EventData
<1>13. flag \in SUBSET Flags /\ (ackId = 0 => flag = {"noreply"}) /\ (ackId > 0 => flag = {})
  <2>1. {"noreply"} \in SUBSET Flags
    BY DEF Flags
  <2>2. ackId > 0 => ackId # 0
    OBVIOUS
  <2>3. ack.n = ackId
    BY <1>11
  <2> QED BY <2>1, <2>2, <2>3
<1>14. m = Msg(flag, ackId, h, body)
  BY <1>11, <1>12, Int32Same
<1> HIDE DEF m, flag
<1>15. m \in Messages
  <2>1. ackId \in Int
    OBVIOUS
  <2> QED BY <1>2, <1>13, <1>14, <2>1, MsgType
<1>16. m.magic = "json" /\ m.flag = flag /\ m.index = ackId /\ m.body = body
  BY <1>14 DEF Msg
<1>17. ReadPacket(p).msg = m
  BY <1>9, <1>10 DEF Filled
<1>18. ackId = 0 => ~Asks(m)
  BY <1>13, <1>16 DEF Asks, Answerable
<1>19. ackId > 0 => Asks(m) /\ m.index = ackId /\ m.body = body
  BY <1>13, <1>16 DEF Asks, Answerable
<1> QED BY <1>9, <1>15, <1>17, <1>18, <1>19 DEF p

\* A sequence that starts with a mark has nothing before it.
Starts(s, c) == s \in Seq(Tokens) /\ Len(s) > 0 /\ s[1] = c

LEMMA StartsJoin ==
    ASSUME NEW s, NEW c, NEW t \in Seq(Tokens), Starts(s, c)
    PROVE  Starts(s \o t, c)
<1>1. s \in Seq(Tokens)
  BY DEF Starts
<1>2. /\ s \o t \in Seq(Tokens) /\ Len(s \o t) = Len(s) + Len(t)
      /\ \A i \in 1..Len(s) : (s \o t)[i] = s[i]
  BY <1>1, ConcatSplit
<1>3. Len(s) \in Nat /\ Len(t) \in Nat /\ Len(s) > 0 /\ s[1] = c
  BY <1>1 DEF Starts
<1> QED BY <1>2, <1>3 DEF Starts

LEMMA StartsRead ==
    ASSUME NEW s, NEW c, Starts(s, c)
    PROVE  s \in Seq(Tokens) /\ ~ParseInt(Before(s, c)).ok
<1>1. s \in Seq(Tokens) /\ Len(s) > 0 /\ s[1] = c
  BY DEF Starts
<1>2. Before(s, c) = <<>>
  BY <1>1, CutFirst
<1>3. ParseInt(<<>>).ok = FALSE
  BY <1>1, ParseType
<1> QED BY <1>1, <1>2, <1>3

\* What a foreign client sends that is no event is not read as a message: handleAck and
\* handleBinaryEvent refuse the packets that BuildAckPacket and BuildBinaryEventPacket make.
THEOREM PlainPackets ==
    ASSUME NEW name \in Tokens, NEW body \in Seq(Tokens),
           NEW p \in {BuildBinaryEventPacket(1, name, body, 0), BuildAckPacket(1, body),
                      BuildConnectPacket(Namespace), BuildDisconnectPacket(Namespace),
                      Packet("4", <<>>)}
    PROVE  p \in Packets /\ ReadPacket(p).msg = Unfilled
<1>0. /\ \A e : Error(e).msg = Unfilled
      /\ Filled(Unfilled).msg = Unfilled
  BY DEF Error, Filled
<1>1. /\ Starts(<<"/">>, "/") /\ Starts(<<"-">>, "-")
      /\ <<",">> \in Seq(Tokens) /\ <<"/", name, ",">> \in Seq(Tokens)
  <2>1. "/" \in Tokens /\ "-" \in Tokens /\ "," \in Tokens /\ name \in Tokens
    BY DEF Tokens, Marks
  <2>2. \A x \in Tokens : <<x>> \in Seq(Tokens) /\ Starts(<<x>>, x)
    BY DEF Starts
  <2>3. \A x, y, z \in Tokens : <<x, y, z>> \in Seq(Tokens)
    OBVIOUS
  <2> QED BY <2>1, <2>2, <2>3
<1>2. Decimal(1) \in Seq(Tokens)
  <2>1. 1 \in 0..Len(Numerals) - 1
    BY SocketIOAssumption
  <2>2. Numerals[1 + 1] \in Tokens
    BY <2>1, NumeralValue
  <2>3. PICK x \in Tokens : x = Numerals[2]
    BY <2>2
  <2>4. Decimal(1) = <<x>>
    BY <2>3 DEF Decimal
  <2>5. \A y \in Tokens : <<y>> \in Seq(Tokens)
    OBVIOUS
  <2> QED BY <2>4, <2>5
<1>3. CASE p = BuildBinaryEventPacket(1, name, body, 0)
  <2> DEFINE s == <<"-">> \o Decimal(1) \o <<"/", name, ",">> \o body
  <2>1. Starts(s, "-")
    <3>1. Starts(<<"-">> \o Decimal(1), "-")
      BY <1>1, <1>2, StartsJoin
    <3>2. Starts(<<"-">> \o Decimal(1) \o <<"/", name, ",">>, "-")
      BY <1>1, <3>1, StartsJoin
    <3> QED BY <3>2, StartsJoin
  <2>2. p = Packet("5", s)
    <3>1. WithAck(0, body) = body
      BY DEF WithAck
    <3> QED BY <1>3, <3>1, Zenon DEF BuildBinaryEventPacket
  <2> HIDE DEF s
  <2>3. p \in Packets /\ p.type = "5" /\ p.data = s
    BY <2>1, <2>2, StartsRead DEF Packets, Packet
  <2>4. ReadPacket(p) = Error("invalid binary event")
    BY <2>1, <2>3, StartsRead DEF ReadPacket, HandleBinaryEvent
  <2> QED BY <1>0, <2>3, <2>4
<1>4. CASE p = BuildAckPacket(1, body)
  <2> DEFINE s == <<"/">> \o Decimal(1) \o <<",">> \o body
  <2>1. Starts(s, "/")
    <3>1. Starts(<<"/">> \o Decimal(1), "/")
      BY <1>1, <1>2, StartsJoin
    <3>2. Starts(<<"/">> \o Decimal(1) \o <<",">>, "/")
      BY <1>1, <3>1, StartsJoin
    <3> QED BY <3>2, StartsJoin
  <2>2. p = Packet("3", s)
    BY <1>4 DEF BuildAckPacket
  <2> HIDE DEF s
  <2>3. p \in Packets /\ p.type = "3" /\ p.data = s
    BY <2>1, <2>2, StartsRead DEF Packets, Packet
  <2>4. ReadPacket(p) = Error("invalid ack")
    BY <2>1, <2>3, StartsRead DEF ReadPacket, HandleAck
  <2> QED BY <1>0, <2>3, <2>4
<1>5. CASE p \in {BuildConnectPacket(Namespace), BuildDisconnectPacket(Namespace)}
  <2> DEFINE s == <<"/">> \o Namespace
  <2>1. s \in Seq(Tokens)
    BY <1>1, SocketIOAssumption, StartsJoin, StartsRead
  <2>2. p \in {Packet("0", s), Packet("1", s)}
    BY <1>5 DEF BuildConnectPacket, BuildDisconnectPacket
  <2> HIDE DEF s
  <2>3. p \in Packets /\ p.type \in {"0", "1"}
    BY <2>1, <2>2 DEF Packets, Packet
  <2>4. ReadPacket(p) \in {HandleConnect(p.data), HandleDisconnect}
    BY <2>3 DEF ReadPacket
  <2>5. HandleConnect(p.data).msg = Unfilled /\ HandleDisconnect.msg = Unfilled
    BY <1>0 DEF HandleConnect, HandleDisconnect
  <2> QED BY <2>3, <2>4, <2>5
<1>6. CASE p = Packet("4", <<>>)
  <2>1. <<>> \in Seq(Tokens)
    BY EmptySeq
  <2>2. p \in Packets /\ p.type = "4"
    BY <1>6, <2>1 DEF Packets, Packet
  <2>3. ReadPacket(p) = Filled(Unfilled)
    BY <2>2 DEF ReadPacket
  <2> QED BY <1>0, <2>2, <2>3
<1> QED BY <1>3, <1>4, <1>5, <1>6

\* What WriteMessage makes of a message: a confirmation, which the foreign client takes for that of the
\* same request, or an event, which it does not answer.
THEOREM WrittenPacket ==
    ASSUME NEW m \in Messages, Confirms(m) => m.index \in 0..Int32Max
    PROVE  /\ WritePacket(m) \in Packets /\ Answer(WritePacket(m)) \in Readable
           /\ Confirms(m) => /\ Confirms(Answer(WritePacket(m)))
                             /\ Answer(WritePacket(m)).index = m.index
                             /\ Answer(WritePacket(m)).body = m.body
           /\ ~Confirms(m) => Answer(WritePacket(m)) = Unfilled
<1>0. m.body \in Seq(Tokens) /\ Path(m) \in Seq(Tokens) /\ m.magic = "json"
  BY PathType DEF Messages
<1>1. Starts(<<"/">>, "/") /\ <<",">> \in Seq(Tokens) /\ "/" \in Tokens /\ "," \in Tokens
  <2>1. "/" \in Tokens /\ "," \in Tokens
    BY DEF Tokens, Marks
  <2>2. \A x \in Tokens : <<x>> \in Seq(Tokens) /\ Starts(<<x>>, x)
    BY DEF Starts
  <2> QED BY <2>1, <2>2
<1>2. CASE ~Confirms(m)
  <2> DEFINE s == <<"/">> \o Path(m) \o <<",">> \o m.body
             p == WritePacket(m)
  <2>1. Starts(s, "/")
    <3>1. Starts(<<"/">> \o Path(m), "/")
      BY <1>0, <1>1, StartsJoin
    <3>2. Starts(<<"/">> \o Path(m) \o <<",">>, "/")
      BY <1>1, <3>1, StartsJoin
    <3> QED BY <1>0, <3>2, StartsJoin
  <2>2. p = Packet("2", s)
    BY <1>0, <1>2, Zenon DEF WritePacket, Confirms
  <2> HIDE DEF s, p
  <2>3. p \in Packets /\ p.type = "2"
    BY <2>1, <2>2, StartsRead DEF Packets, Packet
  <2>4. Answer(p) = Unfilled
    BY <2>3 DEF Answer
  <2>5. Unfilled \in Readable
    BY DEF Readable
  <2> QED BY <1>2, <2>3, <2>4, <2>5 DEF p
<1>3. CASE Confirms(m)
  <2> DEFINE w == Numerals[m.index + 1]
             a == <<"/">> \o Decimal(m.index)
             h == a \o <<",">>
             s == h \o m.body
             p == WritePacket(m)
  <2>1. Decimal(m.index) = <<w>> /\ w \in Tokens /\ Value(w) = m.index
    <3>1. m.index \in 0..Int32Max
      BY <1>3
    <3>2. /\ Decimal(m.index) = <<Numerals[m.index + 1]>> /\ Decimal(m.index) \in Seq(Tokens)
          /\ Len(Decimal(m.index)) = 1 /\ Decimal(m.index)[1] = Numerals[m.index + 1]
          /\ Value(Decimal(m.index)[1]) = m.index
      BY <3>1, DecimalToken
    <3>3. Decimal(m.index)[1] \in Tokens
      BY <3>2, ElementOfSeq
    <3> QED BY <3>2, <3>3
  <2> HIDE DEF w
  <2>2. p = Packet("3", s)
    <3>1. "confirm" \in m.flag
      BY <1>3 DEF Confirms
    <3> QED BY <3>1, Zenon DEF WritePacket
  <2>3. h \in Seq(Tokens) /\ Len(h) = 3 /\ h[2] = w
    <3>1. \A x \in Tokens : <<x>> \in Seq(Tokens) /\ Len(<<x>>) = 1 /\ <<x>>[1] = x
      OBVIOUS
    <3> DEFINE u == <<"/">>
               v == Decimal(m.index)
               c == <<",">>
    <3>2. u \in Seq(Tokens) /\ v \in Seq(Tokens) /\ c \in Seq(Tokens)
      BY <1>1, <2>1, <3>1
    <3>3. Len(u) = 1 /\ Len(v) = 1 /\ Len(c) = 1 /\ v[1] = w
      BY <1>1, <2>1, <3>1
    <3> HIDE DEF u, v, c
    <3>4. /\ u \o v \in Seq(Tokens) /\ Len(u \o v) = Len(u) + Len(v)
          /\ \A i \in 1..Len(v) : (u \o v)[Len(u) + i] = v[i]
      BY <3>2, ConcatSplit
    <3> DEFINE b == u \o v
    <3> HIDE DEF b
    <3>5. b \in Seq(Tokens) /\ Len(b) = 2 /\ b[2] = w
      <4>1. /\ Len(b) = 1 + 1 /\ \A i \in 1..1 : b[1 + i] = v[i]
        BY <3>3, <3>4 DEF b
      <4> QED BY <3>3, <3>4, <4>1 DEF b
    <3>6. /\ b \o c \in Seq(Tokens) /\ Len(b \o c) = Len(b) + Len(c)
          /\ \A i \in 1..Len(b) : (b \o c)[i] = b[i]
      <4>1. b \in Seq(Tokens)
        BY <3>5
      <4> QED BY <3>2, <4>1, ConcatSplit
    <3>7. b \o c \in Seq(Tokens) /\ Len(b \o c) = 3 /\ (b \o c)[2] = w
      BY <3>3, <3>5, <3>6
    <3> QED BY <3>7, Zenon DEF b, u, v, c
  <2> HIDE DEF a, h, p
  <2>4. /\ s \in Seq(Tokens) /\ Len(s) = Len(h) + Len(m.body)
        /\ \A i \in 1..Len(h) : s[i] = h[i]
        /\ \A i \in 1..Len(m.body) : s[Len(h) + i] = m.body[i]
    <3>1. h \in Seq(Tokens)
      BY <2>3
    <3> QED BY <1>0, <3>1, ConcatSplit
  <2> HIDE DEF s
  <2>5. Len(m.body) \in Nat
    BY <1>0
  <2>6. s[2] = w /\ Len(s) = 3 + Len(m.body) /\ \A i \in 1..Len(m.body) : s[3 + i] = m.body[i]
    BY <2>3, <2>4
  <2>7. SubSeq(s, 4, Len(s)) = m.body
    <3> DEFINE u == SubSeq(s, 4, Len(s))
    <3>1. /\ u \in Seq(Tokens)
          /\ Len(u) = IF 4 <= Len(s) THEN Len(s) - 4 + 1 ELSE 0
          /\ \A i \in 1..Len(s) - 4 + 1 : u[i] = s[4 + i - 1]
      <4>1. Len(s) \in Int /\ Len(s) <= Len(s)
        BY <2>5, <2>6
      <4>2. 4 \in Nat \ {0}
        OBVIOUS
      <4> QED BY <2>4, <4>1, <4>2, Part
    <3> HIDE DEF u
    <3>2. Len(u) = Len(m.body)
      BY <2>5, <2>6, <3>1
    <3>3. ASSUME NEW i \in 1..Len(m.body) PROVE u[i] = m.body[i]
      <4>1. i \in 1..Len(s) - 4 + 1 /\ 4 + i - 1 = 3 + i
        BY <2>5, <2>6
      <4>2. u[i] = s[4 + i - 1] /\ s[3 + i] = m.body[i]
        BY <2>6, <3>1, <4>1
      <4> QED BY <4>1, <4>2
    <3> QED BY <1>0, <3>1, <3>2, <3>3, SeqEqual DEF u
  <2>8. p \in Packets /\ p.type = "3" /\ p.data = s
    BY <2>2, <2>4 DEF Packets, Packet
  <2>9. Answer(p) = Msg({"confirm"}, m.index, <<>>, m.body)
    BY <2>1, <2>6, <2>7, <2>8 DEF Answer
  <2>10. /\ Confirms(Answer(p)) /\ Answer(p).index = m.index /\ Answer(p).body = m.body
    BY <2>9 DEF Confirms, Msg
  <2>11. Answer(p) \in Readable
    <3>1. {"confirm"} \in SUBSET Flags /\ <<>> \in Seq(Tokens) /\ m.index \in Int
      BY EmptySeq DEF Flags, Messages
    <3>2. Answer(p) \in Messages
      BY <1>0, <2>9, <3>1, MsgType
    <3> QED BY <3>2 DEF Readable
  <2> QED BY <1>3, <2>8, <2>10, <2>11 DEF p
<1> QED BY <1>2, <1>3

\* The client never takes a packet for a request.
LEMMA AnswerType ==
    ASSUME NEW p \in Packets
    PROVE  /\ ~Asks(Answer(p))
           /\ p.type # "3" => Answer(p) = Unfilled
           /\ p.type # "3" => ~Confirms(Answer(p))
<1>1. Unfilled.magic = "none"
  BY DEF Unfilled
<1>2. p.type # "3" => Answer(p) = Unfilled
  BY DEF Answer
<1>3. p.type = "3" => ~Asks(Answer(p))
  BY DEF Answer, Asks, Answerable, Msg
<1> QED BY <1>1, <1>2, <1>3 DEF Asks, Confirms

-----------------------------------------------------------------------------
(* The stages of a line, and what a step does to them.                     *)

Came(e) == Confirming(answers[e])
ComingBack(e) == Confirming(Seen(kind, e, wire[e]))
QueuedBack(e) == Confirming(cwrite[Other(e)])
HeldBack(e) == Confirming(reader[Other(e)])
GoingOut(e) == Asking(Seen(kind, Other(e), wire[Other(e)]))
QueuedOut(e) == Asking(cwrite[e])

\* What the ends have in front of them are messages, and what they say are numbers.
Staged(e) ==
    /\ answers[e] \in Seq(Readable) /\ Seen(kind, e, wire[e]) \in Seq(Readable)
    /\ cwrite[e] \in Seq(Readable) /\ reader[e] \in Seq(Readable)
Numbered(e) ==
    /\ Came(e) \in Seq(Int) /\ ComingBack(e) \in Seq(Int) /\ QueuedBack(e) \in Seq(Int)
    /\ HeldBack(e) \in Seq(Int) /\ GoingOut(e) \in Seq(Int) /\ QueuedOut(e) \in Seq(Int)

LEMMA LineStages ==
    ASSUME NEW e \in Ends
    PROVE  /\ Line(e) = Stages(Came(e), ComingBack(e), QueuedBack(e), HeldBack(e),
                                GoingOut(e), QueuedOut(e))
           /\ Line(e)' = Stages(Came(e)', ComingBack(e)', QueuedBack(e)', HeldBack(e)',
                                 GoingOut(e)', QueuedOut(e)')
BY Zenon DEF Line, Stages, Came, ComingBack, QueuedBack, HeldBack, GoingOut, QueuedOut

LEMMA OtherEnd ==
    ASSUME NEW e \in Ends
    PROVE  /\ Other(e) \in Ends /\ Other(e) # e /\ Other(Other(e)) = e
           /\ \A x \in Ends : x = e \/ x = Other(e)
BY DEF Other, Ends

\* A sequence of messages as a sequence of readable ones.
LEMMA MessagesReadable == \A q \in Seq(Messages) : q \in Seq(Readable)
BY DEF Readable

AllStaged == \A e \in Ends : Staged(e) /\ Numbered(e) /\ Len(asked[e]) \in Nat

LEMMA StageTypes == TypeOK /\ Linked => AllStaged
<1> SUFFICES ASSUME TypeOK, Linked PROVE AllStaged
  OBVIOUS
<1>1. ASSUME NEW e \in Ends PROVE Staged(e) /\ Len(asked[e]) \in Nat
  <2>1. /\ answers[e] \in Seq(Messages) /\ cwrite[e] \in Seq(Messages)
        /\ reader[e] \in Seq(Messages) /\ asked[e] \in Seq(Messages)
        /\ wire[e] \in Seq(IF kind = "tcp" THEN Messages ELSE Packets)
    BY DEF TypeOK
  <2>2. Len(asked[e]) \in Nat /\ Len(wire[e]) \in Nat
    BY <2>1
  <2>3. ASSUME NEW i \in 1..Len(wire[e]) PROVE Meaning(kind, e, wire[e][i]) \in Readable
    <3>1. wire[e][i] \in IF kind = "tcp" THEN Messages ELSE Packets
      BY <2>1, ElementOfSeq
    <3>2. CASE kind = "tcp"
      BY <3>1, <3>2 DEF Meaning, Readable
    <3>3. CASE kind # "tcp" /\ e = "server"
      <4>1. wire[e][i] \in Packets
        BY <3>1, <3>3
      <4>2. WellRead(ReadPacket(wire[e][i]))
        BY <4>1, PacketRead
      <4> QED BY <3>3, <4>2 DEF Meaning, WellRead
    <3>4. CASE kind # "tcp" /\ e # "server"
      <4> DEFINE p == wire[e][i]
      <4>1. p \in Packets /\ Meaning(kind, e, p) = Answer(p)
        BY <3>1, <3>4 DEF Meaning
      <4>2. CASE p.type # "3"
        BY <4>1, <4>2, AnswerType DEF Readable
      <4>3. CASE p.type = "3"
        <5>1. Answer(p) = Msg({"confirm"}, Value(p.data[2]), <<>>, SubSeq(p.data, 4, Len(p.data)))
          BY <4>3 DEF Answer
        <5>2. Confirms(Answer(p))
          BY <5>1 DEF Confirms, Msg
        <5>3. Answer(p) \in ToSet(Seen(kind, e, wire[e]))
          <6>1. DOMAIN Seen(kind, e, wire[e]) = 1..Len(wire[e]) /\ Seen(kind, e, wire[e])[i] = Answer(p)
            BY <4>1 DEF Seen
          <6> QED BY <6>1 DEF ToSet
        <5>4. Belongs(e, Answer(p))
          BY <5>2, <5>3 DEF Linked
        <5>5. Answer(p).index \in 1..Len(asked[e]) /\ Answer(p).body = asked[e][Answer(p).index].body
          BY <5>4 DEF Belongs
        <5>6. Answer(p).index \in Int /\ Answer(p).body \in Seq(Tokens)
          <6>1. asked[e][Answer(p).index] \in Messages
            BY <2>1, <5>5, ElementOfSeq
          <6>2. asked[e][Answer(p).index].body \in Seq(Tokens)
            BY <6>1 DEF Messages
          <6> QED BY <2>2, <5>5, <6>2
        <5>7. Answer(p) = Msg({"confirm"}, Answer(p).index, <<>>, Answer(p).body)
          BY <5>1 DEF Msg
        <5>8. {"confirm"} \in SUBSET Flags /\ <<>> \in Seq(Tokens)
          BY EmptySeq DEF Flags
        <5> HIDE DEF p
        <5>9. Answer(p) \in Messages
          BY <5>6, <5>7, <5>8, MsgType
        <5> QED BY <4>1, <5>9 DEF Readable, p
      <4> QED BY <4>2, <4>3
    <3> QED BY <3>2, <3>3, <3>4
  <2>4. Seen(kind, e, wire[e]) \in Seq(Readable)
    BY <2>2, <2>3, SeenType
  <2> QED BY <2>1, <2>2, <2>4, MessagesReadable DEF Staged
<1>2. ASSUME NEW e \in Ends PROVE Numbered(e)
  <2>1. Staged(e) /\ Staged(Other(e))
    BY <1>1, OtherEnd
  <2> QED BY <2>1, ConfirmingType, AskingType
          DEF Staged, Numbered, Came, ComingBack, QueuedBack, HeldBack, GoingOut, QueuedOut
<1> QED BY <1>1, <1>2 DEF AllStaged

LEMMA StageTypesNext == TypeOK' /\ Linked' => AllStaged'
BY StageTypes, PTL

-----------------------------------------------------------------------------
(* Sequences of messages as parts of a line.                               *)

LEMMA SeenOne ==
    ASSUME NEW k, NEW e, NEW x
    PROVE  Seen(k, e, <<x>>) = <<Meaning(k, e, x)>> /\ Seen(k, e, <<>>) = <<>>
BY DEF Seen

LEMMA SeenSet ==
    ASSUME NEW k, NEW e, NEW S, NEW q \in Seq(S)
    PROVE  ToSet(Seen(k, e, q)) = {Meaning(k, e, x) : x \in ToSet(q)}
<1>1. DOMAIN q = 1..Len(q)
  BY LenProperties
<1>2. DOMAIN Seen(k, e, q) = 1..Len(q) /\ \A i \in 1..Len(q) : Seen(k, e, q)[i] = Meaning(k, e, q[i])
  BY DEF Seen
<1> QED BY <1>1, <1>2 DEF ToSet

\* The numbers of a sequence, head and tail.
LEMMA NumbersHead ==
    ASSUME NEW q \in Seq(Readable), q # <<>>
    PROVE  /\ Confirming(q) = Confirming(<<Head(q)>>) \o Confirming(Tail(q))
           /\ Asking(q) = Asking(<<Head(q)>>) \o Asking(Tail(q))
<1> DEFINE h == <<Head(q)>>
           t == Tail(q)
<1>1. h \in Seq(Readable) /\ t \in Seq(Readable)
  BY HeadFirst
<1>2. q = h \o t
  BY HeadFirst
<1> HIDE DEF h, t
<1>3. Confirming(h \o t) = Confirming(h) \o Confirming(t) /\ Asking(h \o t) = Asking(h) \o Asking(t)
  BY <1>1, NumbersJoin
<1> QED BY <1>2, <1>3, Zenon DEF h, t

\* Messages that confirm nothing, or ask for nothing.
LEMMA NoNumbers ==
    ASSUME NEW q \in Seq(Readable)
    PROVE  /\ (\A m \in ToSet(q) : ~Confirms(m)) => Positive(Confirming(q)) = {}
           /\ (\A m \in ToSet(q) : ~Asks(m)) => Positive(Asking(q)) = {}
<1>1. /\ Len(Confirming(q)) = Len(q)
      /\ \A i \in 1..Len(q) : Confirming(q)[i] = IF Confirms(q[i]) THEN q[i].index ELSE 0
  BY ConfirmingType
<1>2. /\ Len(Asking(q)) = Len(q)
      /\ \A i \in 1..Len(q) : Asking(q)[i] = IF Asks(q[i]) THEN q[i].index ELSE 0
  BY AskingType
<1>3. \A i \in 1..Len(q) : q[i] \in ToSet(q)
  BY LenProperties DEF ToSet
<1>4. ASSUME \A m \in ToSet(q) : ~Confirms(m) PROVE Positive(Confirming(q)) = {}
  <2>1. \A i \in 1..Len(q) : Confirming(q)[i] = 0
    BY <1>1, <1>3, <1>4
  <2> QED BY <1>1, <2>1 DEF Positive
<1>5. ASSUME \A m \in ToSet(q) : ~Asks(m) PROVE Positive(Asking(q)) = {}
  <2>1. \A i \in 1..Len(q) : Asking(q)[i] = 0
    BY <1>2, <1>3, <1>5
  <2> QED BY <1>2, <2>1 DEF Positive
<1> QED BY <1>4, <1>5

\* They may come behind others.
LEMMA ThinsMore ==
    ASSUME NEW q \in Seq(Readable), NEW r \in Seq(Readable)
    PROVE  /\ (\A m \in ToSet(r) : ~Confirms(m)) => Thins(Confirming(q \o r), Confirming(q))
           /\ (\A m \in ToSet(r) : ~Asks(m)) => Thins(Asking(q \o r), Asking(q))
<1>1. Confirming(q \o r) = Confirming(q) \o Confirming(r) /\ Asking(q \o r) = Asking(q) \o Asking(r)
  BY NumbersJoin
<1>2. /\ Confirming(q) \in Seq(Int) /\ Confirming(r) \in Seq(Int)
      /\ Asking(q) \in Seq(Int) /\ Asking(r) \in Seq(Int)
  BY ConfirmingType, AskingType
<1>3. (\A m \in ToSet(r) : ~Confirms(m)) => Thins(Confirming(q) \o Confirming(r), Confirming(q))
  BY <1>2, NoNumbers, ThinsNothing
<1>4. (\A m \in ToSet(r) : ~Asks(m)) => Thins(Asking(q) \o Asking(r), Asking(q))
  BY <1>2, NoNumbers, ThinsNothing
<1> QED BY <1>1, <1>3, <1>4

\* Whatever names no request thins every line.
LEMMA ThinsNone ==
    ASSUME NEW s \in Seq(Int), NEW z \in Seq(Int), Positive(z) = {}
    PROVE  Thins(z, s)
<1>1. <<>> \in Seq(Int) /\ <<>> \o z = z
  BY ConcatEmptySeq, EmptySeq
<1>2. Thins(<<>> \o z, <<>>)
  BY <1>1, ThinsNothing
<1>3. Thins(<<>>, s)
  BY ThinsEmpty
<1> QED BY <1>1, <1>2, <1>3, ThinsTrans

\* The head of one part becomes the end of the part before it, or is dropped.
LEMMA ThinsMove ==
    ASSUME NEW p \in Seq(Int), NEW h \in Seq(Int), NEW t \in Seq(Int), NEW z, Thins(z, h)
    PROVE  Thins((p \o z) \o t, p \o (h \o t))
<1>1. z \in Seq(Int)
  BY DEF Thins
<1>2. Thins(z \o t, h \o t) /\ h \o t \in Seq(Int)
  BY ThinsJoin, ThinsSame, ConcatSplit
<1>3. Thins(p \o (z \o t), p \o (h \o t))
  BY <1>2, ThinsJoin, ThinsSame
<1>4. (p \o z) \o t = p \o (z \o t)
  <2>1. Grouped(p, z, t)
    BY <1>1, JoinAssociative
  <2> QED BY <2>1, Zenon DEF Grouped
<1> QED BY <1>3, <1>4

LEMMA Moves ==
    ASSUME NEW p \in Seq(Readable), NEW s \in Seq(Readable), s # <<>>, NEW z \in Seq(Readable)
    PROVE  /\ Thins(Confirming(z), Confirming(<<Head(s)>>)) =>
                  Thins(Confirming(p \o z) \o Confirming(Tail(s)), Confirming(p) \o Confirming(s))
           /\ Thins(Confirming(z), Asking(<<Head(s)>>)) =>
                  Thins(Confirming(p \o z) \o Asking(Tail(s)), Confirming(p) \o Asking(s))
           /\ Thins(Asking(z), Asking(<<Head(s)>>)) =>
                  Thins(Asking(p \o z) \o Asking(Tail(s)), Asking(p) \o Asking(s))
<1> DEFINE h == <<Head(s)>>
           t == Tail(s)
<1>1. h \in Seq(Readable) /\ t \in Seq(Readable)
  BY HeadFirst
<1>2. Confirming(s) = Confirming(h) \o Confirming(t) /\ Asking(s) = Asking(h) \o Asking(t)
  BY NumbersHead
<1>3. /\ Confirming(p \o z) = Confirming(p) \o Confirming(z)
      /\ Asking(p \o z) = Asking(p) \o Asking(z)
  BY NumbersJoin
<1> HIDE DEF h, t
<1>4. /\ Confirming(h) \in Seq(Int) /\ Confirming(t) \in Seq(Int) /\ Confirming(p) \in Seq(Int)
      /\ Asking(h) \in Seq(Int) /\ Asking(t) \in Seq(Int) /\ Asking(p) \in Seq(Int)
  BY <1>1, ConfirmingType, AskingType
<1>5. Thins(Confirming(z), Confirming(h)) =>
          Thins((Confirming(p) \o Confirming(z)) \o Confirming(t),
                Confirming(p) \o (Confirming(h) \o Confirming(t)))
  BY <1>4, ThinsMove
<1>6. Thins(Confirming(z), Asking(h)) =>
          Thins((Confirming(p) \o Confirming(z)) \o Asking(t),
                Confirming(p) \o (Asking(h) \o Asking(t)))
  BY <1>4, ThinsMove
<1>7. Thins(Asking(z), Asking(h)) =>
          Thins((Asking(p) \o Asking(z)) \o Asking(t), Asking(p) \o (Asking(h) \o Asking(t)))
  BY <1>4, ThinsMove
<1> QED BY <1>2, <1>3, <1>5, <1>6, <1>7, Zenon DEF h, t

\* The head is lost.
LEMMA ThinsTail ==
    ASSUME NEW s \in Seq(Readable), s # <<>>
    PROVE  Thins(Confirming(Tail(s)), Confirming(s)) /\ Thins(Asking(Tail(s)), Asking(s))
<1> DEFINE h == <<Head(s)>>
           t == Tail(s)
<1>1. h \in Seq(Readable) /\ t \in Seq(Readable)
  BY HeadFirst
<1>2. Confirming(s) = Confirming(h) \o Confirming(t) /\ Asking(s) = Asking(h) \o Asking(t)
  BY NumbersHead
<1> HIDE DEF h, t
<1>3. /\ Confirming(h) \in Seq(Int) /\ Confirming(t) \in Seq(Int)
      /\ Asking(h) \in Seq(Int) /\ Asking(t) \in Seq(Int)
  BY <1>1, ConfirmingType, AskingType
<1>4. /\ Thins(<<>> \o Confirming(t), Confirming(h) \o Confirming(t))
      /\ Thins(<<>> \o Asking(t), Asking(h) \o Asking(t))
  BY <1>3, ThinsEmpty, ThinsSame, ThinsJoin
<1>5. <<>> \o Confirming(t) = Confirming(t) /\ <<>> \o Asking(t) = Asking(t)
  BY <1>3, ConcatEmptySeq
<1> QED BY <1>2, <1>4, <1>5 DEF t

-----------------------------------------------------------------------------
(* What every step has to show.                                            *)

AllWithin == \A e \in Ends : Within(Line(e), Len(asked[e]))

LEMMA InLineWithin == TypeOK /\ Linked => (InLine <=> AllWithin)
<1> SUFFICES ASSUME TypeOK, Linked PROVE InLine <=> AllWithin
  OBVIOUS
<1>1. ASSUME NEW e \in Ends
      PROVE  (\A i \in 1..Len(Line(e)) : Line(e)[i] <= Len(asked[e]))
                 <=> Positive(Line(e)) \subseteq 1..Len(asked[e])
  <2> DEFINE s == Line(e)
             n == Len(asked[e])
  <2>1. n \in Nat /\ Numbered(e)
    BY StageTypes DEF AllStaged
  <2>2. s \in Seq(Int)
    BY <2>1, LineStages, StagesType, EmptySeq DEF Numbered
  <2>3. Len(s) \in Nat /\ \A i \in 1..Len(s) : s[i] \in Int
    BY <2>2, ElementOfSeq
  <2> HIDE DEF s, n
  <2>4. ASSUME \A i \in 1..Len(s) : s[i] <= n PROVE Positive(s) \subseteq 1..n
    BY <2>1, <2>3, <2>4 DEF Positive
  <2>5. ASSUME Positive(s) \subseteq 1..n, NEW i \in 1..Len(s) PROVE s[i] <= n
    <3>1. CASE s[i] <= 0
      BY <2>1, <2>3, <3>1
    <3>2. CASE s[i] > 0
      <4>1. s[i] \in Positive(s)
        BY <2>3, <3>2 DEF Positive
      <4> QED BY <2>1, <2>5, <4>1
    <3> QED BY <2>3, <3>1, <3>2
  <2>6. (\A i \in 1..Len(s) : s[i] <= n) <=> Positive(s) \subseteq 1..n
    BY <2>4, <2>5
  <2> QED BY <2>6 DEF s, n
<1> QED BY <1>1 DEF InLine, Within, AllWithin

LEMMA InLineWithinNext == TypeOK' /\ Linked' => (InLine' <=> AllWithin')
BY InLineWithin, PTL

\* Lines that lose requests stay in order.
LEMMA InLineKept ==
    ASSUME TypeOK, Linked, InLine, TypeOK', Linked', asked' = asked,
           \A e \in Ends : Thins(Line(e)', Line(e))
    PROVE  InLine'
<1>1. \A e \in Ends : Within(Line(e), Len(asked[e]))
  BY InLineWithin DEF AllWithin
<1>2. \A e \in Ends : Within(Line(e)', Len(asked[e]))
  BY <1>1, WithinThins
<1>3. AllWithin'
  BY <1>2, Zenon DEF AllWithin
<1> QED BY <1>3, InLineWithinNext

\* Messages that can be in the way of the requests of e, and of those of the other end.
Back(e) == UNION {ToSet(answers[e]), ToSet(Seen(kind, e, wire[e])),
                  ToSet(cwrite[Other(e)]), ToSet(reader[Other(e)])}
Out(e) == ToSet(Seen(kind, e, wire[e])) \cup ToSet(cwrite[Other(e)])
Held(e) == ToSet(answers[e]) \cup ToSet(reader[e])

\* They belong to requests if those that are new do.
LEMMA LinkedKept ==
    ASSUME Linked, kind' = kind, asked' = asked,
           \A e \in Ends : \A m \in Back(e)' : Confirms(m) => m \in Back(e) \/ Belongs(e, m),
           \A e \in Ends : \A m \in Out(e)' : Asks(m) => m \in Out(e) \/ Belongs(Other(e), m),
           \A e \in Ends : \A m \in Held(e)' : Confirms(m)
    PROVE  Linked'
<1>1. \A e, m : Belongs(e, m)' <=> Belongs(e, m)
  BY DEF Belongs
<1>2. \A e \in Ends : \A m \in Back(e)' : Confirms(m) => Belongs(e, m)'
  BY <1>1 DEF Linked, Back
<1>3. \A e \in Ends : \A m \in Out(e)' : Asks(m) => Belongs(Other(e), m)'
  BY <1>1 DEF Linked, Out
<1> QED BY <1>2, <1>3, Zenon DEF Linked, Back, Out, Held

\* A part that a step adds to what an end has in front of it, and one that it replaces.
Joined(S, q, p, e, s) ==
    /\ p \in [Ends -> Seq(S)] /\ p[e] = q[e] \o s /\ p[Other(e)] = q[Other(e)]
    /\ Len(p[e]) = Len(q[e]) + Len(s) /\ ToSet(p[e]) = ToSet(q[e]) \cup ToSet(s)
Replaced(S, q, p, e, s) ==
    p \in [Ends -> Seq(S)] /\ p[e] = s /\ p[Other(e)] = q[Other(e)]

LEMMA PutType ==
    ASSUME NEW S, NEW q \in [Ends -> Seq(S)], NEW e \in Ends, NEW s \in Seq(S)
    PROVE  Joined(S, q, Put(q, e, s), e, s)
<1> DEFINE v == q[e] \o s
<1>1. q[e] \in Seq(S)
  OBVIOUS
<1>2. v \in Seq(S) /\ Len(v) = Len(q[e]) + Len(s) /\ ToSet(v) = ToSet(q[e]) \cup ToSet(s)
  BY <1>1, ConcatSplit, Elements
<1>3. Put(q, e, s) = [q EXCEPT ![e] = v]
  BY DEF Put
<1> HIDE DEF v
<1>4. /\ Put(q, e, s) \in [Ends -> Seq(S)] /\ Put(q, e, s)[e] = v
      /\ Put(q, e, s)[Other(e)] = q[Other(e)]
  BY <1>2, <1>3, OtherEnd
<1> QED BY <1>2, <1>4 DEF v, Joined

LEMMA UpdateType ==
    ASSUME NEW S, NEW q \in [Ends -> Seq(S)], NEW e \in Ends, NEW s \in Seq(S)
    PROVE  Replaced(S, q, [q EXCEPT ![e] = s], e, s)
BY OtherEnd DEF Replaced

\* The variables of one end, and the sizes of its queues.
Wires == IF kind = "tcp" THEN Messages ELSE Packets
Typed ==
    /\ kind \in Kinds /\ up \subseteq Ends
    /\ wire \in [Ends -> Seq(Wires)]
    /\ cwrite \in [Ends -> Seq(Messages)] /\ reader \in [Ends -> Seq(Messages)]
    /\ asked \in [Ends -> Seq(Messages)] /\ answers \in [Ends -> Seq(Messages)]
Sized(e) ==
    /\ Len(cwrite[e]) <= ChanSize /\ Len(wire[e]) <= WireSize
    /\ Len(reader[e]) <= 1 /\ Len(asked[e]) <= MaxAsked[kind][e]

LEMMA TypeParts == TypeOK <=> Typed /\ \A e \in Ends : Sized(e)
BY DEF TypeOK, Typed, Sized, Wires

AllSized == \A e \in Ends : Sized(e)
LEMMA TypePartsNext == Typed' /\ AllSized' => TypeOK'
<1>1. Typed /\ AllSized => TypeOK
  BY TypeParts DEF AllSized
<1> QED BY <1>1, PTL

\* What an invariant state offers to the proofs of the steps.
LEMMA Setting ==
    IInv => Typed /\ AllSized /\ TypeOK /\ Linked /\ InLine /\ Foreign /\ AllStaged
BY TypeParts, StageTypes DEF IInv, AllSized

LEMMA Capacities == ChanSize \in Nat /\ WireSize \in Nat /\ ChanSize > 0 /\ WireSize > 0
BY ExchangeAssumption

\* What has room for one more.
LEMMA RoomFor == \A a, b, c \in Nat : a < c /\ b <= 1 => a + b <= c
OBVIOUS

\* A stage that keeps or loses requests.
Keeps(a1, a) == a1 = a \/ Thins(a1, a)
LEMMA KeepsThins == ASSUME NEW a \in Seq(Int), NEW a1, Keeps(a1, a) PROVE Thins(a1, a)
BY ThinsSame DEF Keeps

LEMMA LineEach ==
    ASSUME NEW e \in Ends, Numbered(e),
           Keeps(Came(e)', Came(e)), Keeps(ComingBack(e)', ComingBack(e)),
           Keeps(QueuedBack(e)', QueuedBack(e)), Keeps(HeldBack(e)', HeldBack(e)),
           Keeps(GoingOut(e)', GoingOut(e)), Keeps(QueuedOut(e)', QueuedOut(e))
    PROVE  Thins(Line(e)', Line(e))
<1>1. /\ Came(e) \in Seq(Int) /\ ComingBack(e) \in Seq(Int) /\ QueuedBack(e) \in Seq(Int)
      /\ HeldBack(e) \in Seq(Int) /\ GoingOut(e) \in Seq(Int) /\ QueuedOut(e) \in Seq(Int)
  BY DEF Numbered
<1>2. /\ Thins(Came(e)', Came(e)) /\ Thins(ComingBack(e)', ComingBack(e))
      /\ Thins(QueuedBack(e)', QueuedBack(e)) /\ Thins(HeldBack(e)', HeldBack(e))
      /\ Thins(GoingOut(e)', GoingOut(e)) /\ Thins(QueuedOut(e)', QueuedOut(e))
  BY <1>1, KeepsThins
<1>4. Thins(Stages(Came(e)', ComingBack(e)', QueuedBack(e)', HeldBack(e)', GoingOut(e)', QueuedOut(e)'),
            Stages(Came(e), ComingBack(e), QueuedBack(e), HeldBack(e), GoingOut(e), QueuedOut(e)))
  BY <1>1, <1>2, ThinEach
<1> QED BY <1>4, LineStages

LEMMA LineFirst ==
    ASSUME NEW e \in Ends, Numbered(e),
           Thins(Came(e)' \o ComingBack(e)', Came(e) \o ComingBack(e)),
           Keeps(QueuedBack(e)', QueuedBack(e)), Keeps(HeldBack(e)', HeldBack(e)),
           Keeps(GoingOut(e)', GoingOut(e)), Keeps(QueuedOut(e)', QueuedOut(e))
    PROVE  Thins(Line(e)', Line(e))
<1>1. /\ Came(e) \in Seq(Int) /\ ComingBack(e) \in Seq(Int) /\ QueuedBack(e) \in Seq(Int)
      /\ HeldBack(e) \in Seq(Int) /\ GoingOut(e) \in Seq(Int) /\ QueuedOut(e) \in Seq(Int)
  BY DEF Numbered
<1>2. /\ Thins(QueuedBack(e)', QueuedBack(e)) /\ Thins(HeldBack(e)', HeldBack(e))
      /\ Thins(GoingOut(e)', GoingOut(e)) /\ Thins(QueuedOut(e)', QueuedOut(e))
  BY <1>1, KeepsThins
<1>4. Thins(Stages(Came(e)', ComingBack(e)', QueuedBack(e)', HeldBack(e)', GoingOut(e)', QueuedOut(e)'),
            Stages(Came(e), ComingBack(e), QueuedBack(e), HeldBack(e), GoingOut(e), QueuedOut(e)))
  BY <1>1, <1>2, ThinFirst
<1> QED BY <1>4, LineStages

LEMMA LineSecond ==
    ASSUME NEW e \in Ends, Numbered(e), Numbered(e)',
           Thins(ComingBack(e)' \o QueuedBack(e)', ComingBack(e) \o QueuedBack(e)),
           Keeps(Came(e)', Came(e)), Keeps(HeldBack(e)', HeldBack(e)),
           Keeps(GoingOut(e)', GoingOut(e)), Keeps(QueuedOut(e)', QueuedOut(e))
    PROVE  Thins(Line(e)', Line(e))
<1>1. /\ Came(e) \in Seq(Int) /\ ComingBack(e) \in Seq(Int) /\ QueuedBack(e) \in Seq(Int)
      /\ HeldBack(e) \in Seq(Int) /\ GoingOut(e) \in Seq(Int) /\ QueuedOut(e) \in Seq(Int)
  BY DEF Numbered
<1>2. /\ Thins(Came(e)', Came(e)) /\ Thins(HeldBack(e)', HeldBack(e))
      /\ Thins(GoingOut(e)', GoingOut(e)) /\ Thins(QueuedOut(e)', QueuedOut(e))
  BY <1>1, KeepsThins
<1>3. /\ Came(e)' \in Seq(Int) /\ ComingBack(e)' \in Seq(Int) /\ QueuedBack(e)' \in Seq(Int)
      /\ HeldBack(e)' \in Seq(Int) /\ GoingOut(e)' \in Seq(Int) /\ QueuedOut(e)' \in Seq(Int)
  BY DEF Numbered
<1>4. Thins(Stages(Came(e)', ComingBack(e)', QueuedBack(e)', HeldBack(e)', GoingOut(e)', QueuedOut(e)'),
            Stages(Came(e), ComingBack(e), QueuedBack(e), HeldBack(e), GoingOut(e), QueuedOut(e)))
  BY <1>1, <1>2, <1>3, ThinSecond
<1> QED BY <1>4, LineStages

LEMMA LineThird ==
    ASSUME NEW e \in Ends, Numbered(e), Numbered(e)',
           Thins(QueuedBack(e)' \o HeldBack(e)', QueuedBack(e) \o HeldBack(e)),
           Keeps(Came(e)', Came(e)), Keeps(ComingBack(e)', ComingBack(e)),
           Keeps(GoingOut(e)', GoingOut(e)), Keeps(QueuedOut(e)', QueuedOut(e))
    PROVE  Thins(Line(e)', Line(e))
<1>1. /\ Came(e) \in Seq(Int) /\ ComingBack(e) \in Seq(Int) /\ QueuedBack(e) \in Seq(Int)
      /\ HeldBack(e) \in Seq(Int) /\ GoingOut(e) \in Seq(Int) /\ QueuedOut(e) \in Seq(Int)
  BY DEF Numbered
<1>2. /\ Thins(Came(e)', Came(e)) /\ Thins(ComingBack(e)', ComingBack(e))
      /\ Thins(GoingOut(e)', GoingOut(e)) /\ Thins(QueuedOut(e)', QueuedOut(e))
  BY <1>1, KeepsThins
<1>3. /\ Came(e)' \in Seq(Int) /\ ComingBack(e)' \in Seq(Int) /\ QueuedBack(e)' \in Seq(Int)
      /\ HeldBack(e)' \in Seq(Int) /\ GoingOut(e)' \in Seq(Int) /\ QueuedOut(e)' \in Seq(Int)
  BY DEF Numbered
<1>4. Thins(Stages(Came(e)', ComingBack(e)', QueuedBack(e)', HeldBack(e)', GoingOut(e)', QueuedOut(e)'),
            Stages(Came(e), ComingBack(e), QueuedBack(e), HeldBack(e), GoingOut(e), QueuedOut(e)))
  BY <1>1, <1>2, <1>3, ThinThird
<1> QED BY <1>4, LineStages

LEMMA LineFourth ==
    ASSUME NEW e \in Ends, Numbered(e), Numbered(e)',
           Thins(HeldBack(e)' \o GoingOut(e)', HeldBack(e) \o GoingOut(e)),
           Keeps(Came(e)', Came(e)), Keeps(ComingBack(e)', ComingBack(e)),
           Keeps(QueuedBack(e)', QueuedBack(e)), Keeps(QueuedOut(e)', QueuedOut(e))
    PROVE  Thins(Line(e)', Line(e))
<1>1. /\ Came(e) \in Seq(Int) /\ ComingBack(e) \in Seq(Int) /\ QueuedBack(e) \in Seq(Int)
      /\ HeldBack(e) \in Seq(Int) /\ GoingOut(e) \in Seq(Int) /\ QueuedOut(e) \in Seq(Int)
  BY DEF Numbered
<1>2. /\ Thins(Came(e)', Came(e)) /\ Thins(ComingBack(e)', ComingBack(e))
      /\ Thins(QueuedBack(e)', QueuedBack(e)) /\ Thins(QueuedOut(e)', QueuedOut(e))
  BY <1>1, KeepsThins
<1>3. /\ Came(e)' \in Seq(Int) /\ ComingBack(e)' \in Seq(Int) /\ QueuedBack(e)' \in Seq(Int)
      /\ HeldBack(e)' \in Seq(Int) /\ GoingOut(e)' \in Seq(Int) /\ QueuedOut(e)' \in Seq(Int)
  BY DEF Numbered
<1>4. Thins(Stages(Came(e)', ComingBack(e)', QueuedBack(e)', HeldBack(e)', GoingOut(e)', QueuedOut(e)'),
            Stages(Came(e), ComingBack(e), QueuedBack(e), HeldBack(e), GoingOut(e), QueuedOut(e)))
  BY <1>1, <1>2, <1>3, ThinFourth
<1> QED BY <1>4, LineStages

LEMMA LineFifth ==
    ASSUME NEW e \in Ends, Numbered(e), Numbered(e)',
           Thins(GoingOut(e)' \o QueuedOut(e)', GoingOut(e) \o QueuedOut(e)),
           Keeps(Came(e)', Came(e)), Keeps(ComingBack(e)', ComingBack(e)),
           Keeps(QueuedBack(e)', QueuedBack(e)), Keeps(HeldBack(e)', HeldBack(e))
    PROVE  Thins(Line(e)', Line(e))
<1>1. /\ Came(e) \in Seq(Int) /\ ComingBack(e) \in Seq(Int) /\ QueuedBack(e) \in Seq(Int)
      /\ HeldBack(e) \in Seq(Int) /\ GoingOut(e) \in Seq(Int) /\ QueuedOut(e) \in Seq(Int)
  BY DEF Numbered
<1>2. /\ Thins(Came(e)', Came(e)) /\ Thins(ComingBack(e)', ComingBack(e))
      /\ Thins(QueuedBack(e)', QueuedBack(e)) /\ Thins(HeldBack(e)', HeldBack(e))
  BY <1>1, KeepsThins
<1>3. /\ Came(e)' \in Seq(Int) /\ ComingBack(e)' \in Seq(Int) /\ QueuedBack(e)' \in Seq(Int)
      /\ HeldBack(e)' \in Seq(Int) /\ GoingOut(e)' \in Seq(Int) /\ QueuedOut(e)' \in Seq(Int)
  BY DEF Numbered
<1>4. Thins(Stages(Came(e)', ComingBack(e)', QueuedBack(e)', HeldBack(e)', GoingOut(e)', QueuedOut(e)'),
            Stages(Came(e), ComingBack(e), QueuedBack(e), HeldBack(e), GoingOut(e), QueuedOut(e)))
  BY <1>1, <1>2, <1>3, ThinFifth
<1> QED BY <1>4, LineStages

-----------------------------------------------------------------------------
(* The steps.                                                              *)

\* Over "socketio" only the server runs this code, and its peer is the client.
LEMMA Transport ==
    ASSUME NEW x \in Ends, Alive(x)
    PROVE  kind = "socketio" => x = "server" /\ Other(x) = "client"
BY DEF Alive, Code, Ends, Other

LEMMA ForeignKept ==
    ASSUME NEW x \in Ends, Alive(x), Foreign, kind' = kind,
           cwrite'[Other(x)] = cwrite[Other(x)], reader'[Other(x)] = reader[Other(x)]
    PROVE  Foreign'
BY Transport DEF Foreign

\* A reply goes from the reader to the queue.
LEMMA ReplySendStep == ASSUME IInv, NEW x \in Ends, ReplySend(x) PROVE IInv'
<1> DEFINE o == Other(x)
<1>0. Typed /\ AllSized /\ TypeOK /\ Linked /\ InLine /\ Foreign /\ AllStaged
  BY Setting
<1>1. o \in Ends /\ o # x /\ Other(o) = x /\ \A e \in Ends : e = x \/ e = o
  BY OtherEnd
<1>2. /\ cwrite[x] \in Seq(Messages) /\ reader[x] \in Seq(Messages)
      /\ <<>> \in Seq(Messages) /\ Len(<<>>) = 0 /\ ToSet(<<>>) = {}
  BY <1>0, EmptySeq, ElementsOfOne DEF Typed
<1>3. Joined(Messages, cwrite, cwrite', x, reader[x])
  BY <1>0, <1>2, PutType DEF Typed, ReplySend
<1>4. Replaced(Messages, reader, reader', x, <<>>)
  BY <1>0, <1>2, UpdateType DEF Typed, ReplySend
<1>5. /\ kind' = kind /\ up' = up /\ wire' = wire /\ asked' = asked /\ answers' = answers
      /\ Len(cwrite[x]) < ChanSize /\ Alive(x)
  BY DEF ReplySend, Room
<1>6. reader'[x] = <<>> /\ reader'[o] = reader[o] /\ cwrite'[o] = cwrite[o]
  BY <1>3, <1>4 DEF Joined, Replaced
<1>7. ToSet(cwrite'[x]) = ToSet(cwrite[x]) \cup ToSet(reader[x])
  BY <1>3 DEF Joined
<1> HIDE DEF o
<1>8. TypeOK'
  <2>1. Typed'
    BY <1>0, <1>3, <1>4, <1>5 DEF Typed, Wires, Joined, Replaced
  <2>2. Len(cwrite'[x]) <= ChanSize
    <3>1. Len(cwrite'[x]) = Len(cwrite[x]) + Len(reader[x])
      BY <1>3 DEF Joined
    <3>2. Len(cwrite[x]) \in Nat /\ Len(reader[x]) \in Nat
      BY <1>2
    <3>3. Len(reader[x]) <= 1
      BY <1>0 DEF AllSized, Sized
    <3>4. ChanSize \in Nat /\ Len(cwrite[x]) < ChanSize
      BY <1>5, Capacities
    <3> QED BY <3>1, <3>2, <3>3, <3>4, RoomFor
  <2>3. Sized(x)' /\ Sized(o)'
    BY <1>0, <1>1, <1>2, <1>5, <1>6, <2>2 DEF AllSized, Sized
  <2>4. AllSized'
    BY <1>1, <2>3 DEF AllSized
  <2> QED BY <2>1, <2>4, TypePartsNext
<1>9. \A m \in ToSet(reader[x]) : Confirms(m) /\ ~Asks(m)
  <2>1. ToSet(reader[x]) \subseteq Readable
    BY <1>2, Elements DEF Readable
  <2> QED BY <1>0, <2>1, Indexes DEF Linked
<1>10. Linked'
  <2>1. Back(x)' = Back(x) /\ Back(o)' = Back(o)
    BY <1>1, <1>2, <1>5, <1>6, <1>7 DEF Back, o
  <2>2. Out(x)' = Out(x) /\ \A m \in Out(o)' : Asks(m) => m \in Out(o)
    BY <1>1, <1>5, <1>6, <1>7, <1>9 DEF Out, o
  <2>3. Held(x)' \subseteq Held(x) /\ Held(o)' = Held(o)
    BY <1>2, <1>5, <1>6 DEF Held
  <2>4. \A e \in Ends : \A m \in Held(e)' : Confirms(m)
    BY <1>0, <1>1, <2>3 DEF Held, Linked
  <2>5. \A e \in Ends : \A m \in Back(e)' : Confirms(m) => m \in Back(e) \/ Belongs(e, m)
    BY <1>1, <2>1
  <2>6. \A e \in Ends : \A m \in Out(e)' : Asks(m) => m \in Out(e) \/ Belongs(Other(e), m)
    BY <1>1, <2>2
  <2> QED BY <1>0, <1>5, <2>4, <2>5, <2>6, LinkedKept
<1>11. AllStaged'
  BY <1>8, <1>10, StageTypesNext
<1>12. cwrite[x] \in Seq(Readable) /\ reader[x] \in Seq(Readable)
  BY <1>0 DEF AllStaged, Staged
<1>13. cwrite'[x] = cwrite[x] \o reader[x]
  BY <1>3 DEF Joined
<1>14. Thins(Line(x)', Line(x))
  <2>1. Thins(QueuedOut(x)', QueuedOut(x))
    BY <1>9, <1>12, <1>13, ThinsMore DEF QueuedOut
  <2>2. /\ Came(x)' = Came(x) /\ ComingBack(x)' = ComingBack(x) /\ QueuedBack(x)' = QueuedBack(x)
        /\ HeldBack(x)' = HeldBack(x) /\ GoingOut(x)' = GoingOut(x)
    BY <1>5, <1>6 DEF Came, ComingBack, QueuedBack, HeldBack, GoingOut, o
  <2> QED BY <1>0, <2>1, <2>2, LineEach DEF AllStaged, Keeps
<1>15. Thins(Line(o)', Line(o))
  <2>1. Thins(QueuedBack(o)' \o HeldBack(o)', QueuedBack(o) \o HeldBack(o))
    <3>1. Confirming(cwrite[x] \o reader[x]) = Confirming(cwrite[x]) \o Confirming(reader[x])
      BY <1>12, NumbersJoin
    <3>2. /\ QueuedBack(o)' = Confirming(cwrite[x] \o reader[x]) /\ HeldBack(o)' = <<>>
          /\ QueuedBack(o) = Confirming(cwrite[x]) /\ HeldBack(o) = Confirming(reader[x])
      <4>1. Confirming(<<>>) = <<>>
        BY DEF Confirming
      <4> QED BY <1>1, <1>6, <1>13, <4>1 DEF QueuedBack, HeldBack
    <3>3. QueuedBack(o)' \in Seq(Int)
      BY <1>1, <1>11 DEF AllStaged, Numbered
    <3>4. QueuedBack(o)' \o <<>> = QueuedBack(o)' /\ Thins(QueuedBack(o)', QueuedBack(o)')
      BY <3>3, ConcatEmptySeq, ThinsSame
    <3> QED BY <3>1, <3>2, <3>4
  <2>2. /\ Came(o)' = Came(o) /\ ComingBack(o)' = ComingBack(o) /\ GoingOut(o)' = GoingOut(o)
        /\ QueuedOut(o)' = QueuedOut(o)
    BY <1>1, <1>5, <1>6 DEF Came, ComingBack, GoingOut, QueuedOut
  <2>3. Numbered(o) /\ Numbered(o)'
    BY <1>0, <1>1, <1>11 DEF AllStaged
  <2> QED BY <1>1, <2>1, <2>2, <2>3, LineThird DEF Keeps
<1>16. InLine'
  <2>1. \A e \in Ends : Thins(Line(e)', Line(e))
    BY <1>1, <1>14, <1>15
  <2> QED BY <1>0, <1>5, <1>8, <1>10, <2>1, InLineKept
<1>17. Foreign'
  BY <1>0, <1>5, <1>6, ForeignKept DEF o
<1> QED BY <1>8, <1>10, <1>16, <1>17 DEF IInv

\* What was queued, on the wire or with a reader is lost.
Lost(q1, q) == \A e \in Ends : q1[e] = q[e] \/ q1[e] = <<>>

LEMMA Emptied ==
    ASSUME NEW S, NEW q \in [Ends -> Seq(S)], NEW x \in Ends
    PROVE  /\ Lost(q, q) /\ Lost([q EXCEPT ![x] = <<>>], q)
           /\ [q EXCEPT ![x] = <<>>] \in [Ends -> Seq(S)]
<1>1. <<>> \in Seq(S)
  BY EmptySeq
<1> QED BY <1>1 DEF Lost

LEMMA LossStep ==
    ASSUME IInv, UNCHANGED <<kind, asked, answers>>, up' \subseteq Ends,
           wire' \in [Ends -> Seq(Wires)], Lost(wire', wire),
           cwrite' \in [Ends -> Seq(Messages)], Lost(cwrite', cwrite),
           reader' \in [Ends -> Seq(Messages)], Lost(reader', reader)
    PROVE  IInv'
<1>0. Typed /\ AllSized /\ TypeOK /\ Linked /\ InLine /\ Foreign /\ AllStaged
  BY Setting
<1>1. kind' = kind /\ asked' = asked /\ answers' = answers
  OBVIOUS
<1>2. Len(<<>>) = 0 /\ ToSet(<<>>) = {} /\ Confirming(<<>>) = <<>> /\ Asking(<<>>) = <<>>
  BY EmptySeq, ElementsOfOne DEF Confirming, Asking
<1>3. \A e \in Ends : /\ wire'[e] = wire[e] \/ wire'[e] = <<>>
                      /\ cwrite'[e] = cwrite[e] \/ cwrite'[e] = <<>>
                      /\ reader'[e] = reader[e] \/ reader'[e] = <<>>
  BY DEF Lost
<1>4. \A e \in Ends : \/ Seen(kind, e, wire[e])' = <<>>
                      \/ Seen(kind, e, wire[e])' = Seen(kind, e, wire[e])
  BY <1>1, <1>3, SeenOne
<1>5. TypeOK'
  <2>1. Typed'
    BY <1>0, <1>1 DEF Typed, Wires
  <2>2. ASSUME NEW e \in Ends PROVE Sized(e)'
    <3>1. Len(cwrite'[e]) <= ChanSize /\ Len(wire'[e]) <= WireSize /\ Len(reader'[e]) <= 1
      <4>1. Len(<<>>) <= ChanSize /\ Len(<<>>) <= WireSize /\ Len(<<>>) <= 1
        BY Capacities, EmptySeq
      <4>2. Len(cwrite[e]) <= ChanSize /\ Len(wire[e]) <= WireSize /\ Len(reader[e]) <= 1
        BY <1>0 DEF AllSized, Sized
      <4> QED BY <1>3, <4>1, <4>2
    <3> QED BY <1>0, <1>1, <3>1 DEF AllSized, Sized
  <2> QED BY <2>1, <2>2, TypePartsNext DEF AllSized
<1>6. Linked'
  <2>1. ASSUME NEW e \in Ends
        PROVE  /\ Back(e)' \subseteq Back(e) /\ Out(e)' \subseteq Out(e)
               /\ Held(e)' \subseteq Held(e)
    <3>1. Other(e) \in Ends
      BY OtherEnd
    <3>2. /\ ToSet(Seen(kind, e, wire[e]))' \subseteq ToSet(Seen(kind, e, wire[e]))
          /\ ToSet(cwrite[Other(e)])' \subseteq ToSet(cwrite[Other(e)])
          /\ ToSet(reader[Other(e)])' \subseteq ToSet(reader[Other(e)])
          /\ ToSet(reader[e])' \subseteq ToSet(reader[e])
      BY <1>2, <1>3, <1>4, <3>1
    <3> QED BY <1>1, <3>2 DEF Back, Out, Held
  <2>2. \A e \in Ends : \A m \in Held(e)' : Confirms(m)
    BY <1>0, <2>1 DEF Held, Linked
  <2> QED BY <1>0, <1>1, <2>1, <2>2, LinkedKept
<1>7. ASSUME NEW e \in Ends PROVE Thins(Line(e)', Line(e))
  <2>1. Other(e) \in Ends
    BY OtherEnd
  <2>2. Numbered(e)
    BY <1>0 DEF AllStaged
  <2>3. Thins(<<>>, ComingBack(e)) /\ Thins(<<>>, QueuedBack(e)) /\ Thins(<<>>, HeldBack(e))
        /\ Thins(<<>>, GoingOut(e)) /\ Thins(<<>>, QueuedOut(e))
    BY <2>2, ThinsEmpty DEF Numbered
  <2>4. Came(e)' = Came(e)
    BY <1>1 DEF Came
  <2>5. ComingBack(e)' = ComingBack(e) \/ ComingBack(e)' = <<>>
    BY <1>2, <1>4 DEF ComingBack
  <2>6. QueuedBack(e)' = QueuedBack(e) \/ QueuedBack(e)' = <<>>
    BY <1>2, <1>3, <2>1 DEF QueuedBack
  <2>7. HeldBack(e)' = HeldBack(e) \/ HeldBack(e)' = <<>>
    BY <1>2, <1>3, <2>1 DEF HeldBack
  <2>8. GoingOut(e)' = GoingOut(e) \/ GoingOut(e)' = <<>>
    BY <1>2, <1>4, <2>1 DEF GoingOut
  <2>9. QueuedOut(e)' = QueuedOut(e) \/ QueuedOut(e)' = <<>>
    BY <1>2, <1>3 DEF QueuedOut
  <2> QED BY <2>2, <2>3, <2>4, <2>5, <2>6, <2>7, <2>8, <2>9, LineEach DEF Keeps
<1>8. InLine'
  BY <1>0, <1>1, <1>5, <1>6, <1>7, InLineKept
<1>9. Foreign'
  BY <1>0, <1>1, <1>3 DEF Foreign, Ends
<1> QED BY <1>5, <1>6, <1>8, <1>9 DEF IInv

\* The end of a connection, and of a reader that waits to reply.
LEMMA DisconnectStep ==
    ASSUME IInv, NEW x \in Ends, Disconnect(x), UNCHANGED <<kind, reader, asked, answers>>
    PROVE  IInv'
<1>1. Typed
  BY Setting
<1>2. /\ wire' \in [Ends -> Seq(Wires)] /\ Lost(wire', wire)
      /\ cwrite' \in [Ends -> Seq(Messages)] /\ Lost(cwrite', cwrite)
      /\ reader' \in [Ends -> Seq(Messages)] /\ Lost(reader', reader)
  BY <1>1, Emptied DEF Typed, Disconnect
<1>3. up' \subseteq Ends
  BY <1>1 DEF Typed, Disconnect
<1> QED BY <1>2, <1>3, LossStep

LEMMA ReplyStoppedStep == ASSUME IInv, NEW x \in Ends, ReplyStopped(x) PROVE IInv'
<1>1. Typed
  BY Setting
<1>2. /\ wire' \in [Ends -> Seq(Wires)] /\ Lost(wire', wire)
      /\ cwrite' \in [Ends -> Seq(Messages)] /\ Lost(cwrite', cwrite)
      /\ reader' \in [Ends -> Seq(Messages)] /\ Lost(reader', reader)
  BY <1>1, Emptied DEF Typed, ReplyStopped
<1>3. up' \subseteq Ends /\ UNCHANGED <<kind, asked, answers>>
  BY <1>1 DEF Typed, ReplyStopped
<1> QED BY <1>2, <1>3, LossStep

LEMMA ClientLeaveStep == ASSUME IInv, ClientLeave PROVE IInv'
<1>1. Typed /\ "client" \in Ends
  BY Setting DEF Ends
<1>2. /\ wire' \in [Ends -> Seq(Wires)] /\ Lost(wire', wire)
      /\ cwrite' \in [Ends -> Seq(Messages)] /\ Lost(cwrite', cwrite)
      /\ reader' \in [Ends -> Seq(Messages)] /\ Lost(reader', reader)
  BY <1>1, Emptied DEF Typed, ClientLeave
<1>3. up' \subseteq Ends /\ UNCHANGED <<kind, asked, answers>>
  BY <1>1 DEF Typed, ClientLeave
<1> QED BY <1>2, <1>3, LossStep

\* The number of one message.
LEMMA NumbersOne ==
    ASSUME NEW m
    PROVE  /\ Confirming(<<m>>) = <<IF Confirms(m) THEN m.index ELSE 0>>
           /\ Asking(<<m>>) = <<IF Asks(m) THEN m.index ELSE 0>>
           /\ Confirming(<<>>) = <<>> /\ Asking(<<>>) = <<>>
BY DEF Confirming, Asking

\* What the writer of x makes of a message in its queue, as the other end takes it.
WrittenFor(x, m, z) ==
    /\ Written(m) \in Seq(Wires) /\ Len(Written(m)) <= 1
    /\ z \in Seq(Readable)
    /\ Thins(Confirming(z), Confirming(<<m>>)) /\ Thins(Asking(z), Asking(<<m>>))
    /\ \A y \in ToSet(z) : /\ Confirms(y) => Belongs(Other(x), y)
                           /\ Asks(y) => y = m

LEMMA WrittenMeaning ==
    ASSUME IInv, NEW x \in Ends, Alive(x), NEW m \in ToSet(cwrite[x])
    PROVE  WrittenFor(x, m, Seen(kind, Other(x), Written(m)))
<1> DEFINE o == Other(x)
           z == Seen(kind, o, Written(m))
<1>0. Typed /\ AllSized /\ Linked
  BY Setting
<1>1. o \in Ends /\ Other(o) = x /\ cwrite[x] \in Seq(Messages) /\ asked[o] \in Seq(Messages)
  BY <1>0, OtherEnd DEF Typed
<1>2. m \in Messages
  BY <1>1, Elements
<1>3. Confirms(m) => Belongs(o, m)
  BY <1>0, <1>1 DEF Linked
<1>4. /\ Confirming(<<m>>) \in Seq(Int) /\ Asking(<<m>>) \in Seq(Int)
      /\ <<m>> \in Seq(Readable) /\ <<m>> \in Seq(Messages)
  <2>1. <<m>> \in Seq(Messages)
    BY <1>2
  <2>2. <<m>> \in Seq(Readable)
    BY <2>1, MessagesReadable
  <2> QED BY <2>1, <2>2, ConfirmingType, AskingType
<1>5. CASE kind = "tcp"
  <2>1. Written(m) = <<m>> /\ Wires = Messages
    BY <1>5 DEF Written, Wires
  <2>2. z = <<m>>
    <3>1. Meaning(kind, o, m) = m
      BY <1>5 DEF Meaning
    <3> QED BY <2>1, <3>1, SeenOne
  <2>3. Len(<<m>>) <= 1 /\ ToSet(<<m>>) = {m}
    BY ElementsOfOne
  <2>4. \A y \in ToSet(z) : (Confirms(y) => Belongs(Other(x), y)) /\ (Asks(y) => y = m)
    BY <1>3, <2>2, <2>3
  <2>5. Thins(Confirming(z), Confirming(<<m>>)) /\ Thins(Asking(z), Asking(<<m>>))
    BY <1>4, <2>2, ThinsSame
  <2> HIDE DEF o, z
  <2> QED BY <1>4, <2>1, <2>2, <2>3, <2>4, <2>5 DEF WrittenFor, o, z
<1>6. CASE kind # "tcp" /\ ~PathOk(m)
  <2>1. Written(m) = <<>>
    BY <1>6 DEF Written
  <2>2. z = <<>>
    BY <2>1, SeenOne
  <2>3. <<>> \in Seq(Wires) /\ <<>> \in Seq(Readable) /\ Len(<<>>) <= 1 /\ ToSet(<<>>) = {}
    BY EmptySeq, ElementsOfOne
  <2>4. Thins(<<>>, Confirming(<<m>>)) /\ Thins(<<>>, Asking(<<m>>))
    BY <1>4, ThinsEmpty
  <2>5. Confirming(<<>>) = <<>> /\ Asking(<<>>) = <<>>
    BY NumbersOne
  <2> HIDE DEF o, z
  <2> QED BY <2>1, <2>2, <2>3, <2>4, <2>5 DEF WrittenFor, o, z
<1>7. CASE kind # "tcp" /\ PathOk(m)
  <2> DEFINE p == WritePacket(m)
             y == Answer(p)
  <2>1. Written(m) = <<p>> /\ Wires = Packets
    BY <1>7 DEF Written, Wires
  <2>2. Confirms(m) => m.index \in 0..Int32Max
    <3> SUFFICES ASSUME Confirms(m) PROVE m.index \in 0..Int32Max
      OBVIOUS
    <3>1. m.index \in 1..Len(asked[o])
      BY <1>3 DEF Belongs
    <3>2. Len(asked[o]) \in Nat /\ Len(asked[o]) <= MaxAsked[kind][o]
      BY <1>0, <1>1 DEF AllSized, Sized
    <3>3. MaxAsked[kind][o] \in 0..Int32Max
      BY <1>0, <1>1, ExchangeAssumption DEF Typed, Ends
    <3>4. Int32Max \in Nat
      BY SocketIOAssumption
    <3> QED BY <3>1, <3>2, <3>3, <3>4
  <2>3. /\ p \in Packets /\ y \in Readable /\ ~Asks(y)
        /\ Confirms(m) => Confirms(y) /\ y.index = m.index /\ y.body = m.body
        /\ ~Confirms(m) => y = Unfilled
    BY <1>2, <2>2, WrittenPacket, AnswerType
  <2>4. z = <<y>>
    <3>1. kind = "socketio"
      BY <1>0, <1>7, ExchangeAssumption DEF Typed
    <3>2. o # "server"
      BY <3>1, Transport
    <3>3. Meaning(kind, o, p) = y
      BY <1>7, <3>2 DEF Meaning
    <3> QED BY <2>1, <3>3, SeenOne
  <2>5. ~Confirms(Unfilled)
    BY DEF Confirms, Unfilled
  <2> HIDE DEF p, y
  <2>6. <<p>> \in Seq(Packets) /\ Len(<<p>>) <= 1 /\ <<y>> \in Seq(Readable) /\ ToSet(<<y>>) = {y}
    BY <2>3, ElementsOfOne
  <2>7. Confirms(y) => Belongs(o, y)
    <3> SUFFICES ASSUME Confirms(y) PROVE Belongs(o, y)
      OBVIOUS
    <3>1. Belongs(o, m) /\ y.index = m.index /\ y.body = m.body
      BY <1>3, <2>3, <2>5
    <3> QED BY <1>7, <3>1 DEF Belongs
  <2>8. Confirming(<<y>>) = Confirming(<<m>>)
    <3>1. Confirms(y) <=> Confirms(m)
      BY <2>3, <2>5
    <3>2. Confirming(<<y>>) = <<IF Confirms(y) THEN y.index ELSE 0>>
      BY NumbersOne
    <3>3. Confirming(<<m>>) = <<IF Confirms(m) THEN m.index ELSE 0>>
      BY NumbersOne
    <3>4. Confirms(m) => y.index = m.index
      BY <2>3
    <3>5. CASE Confirms(m)
      BY <3>1, <3>2, <3>3, <3>4, <3>5
    <3>6. CASE ~Confirms(m)
      BY <3>1, <3>2, <3>3, <3>6
    <3> QED BY <3>5, <3>6
  <2>9. Thins(Confirming(<<y>>), Confirming(<<m>>))
    BY <1>4, <2>8, ThinsSame
  <2>10. Thins(Asking(<<y>>), Asking(<<m>>))
    <3>1. Positive(Asking(<<y>>)) = {} /\ Asking(<<y>>) \in Seq(Int)
      BY <2>3, <2>6, NoNumbers, AskingType
    <3> QED BY <1>4, <3>1, ThinsNone
  <2> HIDE DEF o, z
  <2> QED BY <2>1, <2>3, <2>4, <2>6, <2>7, <2>9, <2>10 DEF WrittenFor, o, z
<1> QED BY <1>5, <1>6, <1>7

LEMMA JoinedNothing ==
    ASSUME NEW S, NEW q \in [Ends -> Seq(S)], NEW e \in Ends
    PROVE  Joined(S, q, q, e, <<>>)
<1>1. q[e] \in Seq(S)
  OBVIOUS
<1>2. q[e] \o <<>> = q[e]
  BY <1>1, ConcatEmptySeq
<1>3. Len(q[e]) \in Nat /\ Len(<<>>) = 0 /\ ToSet(<<>>) = {}
  BY <1>1, ElementsOfOne
<1>4. Len(q[e]) = Len(q[e]) + Len(<<>>)
  BY <1>3
<1> QED BY <1>2, <1>3, <1>4 DEF Joined

\* A message goes from the queue to the wire, as it is or as a packet, or is dropped.
LEMMA WriteStep == ASSUME IInv, NEW x \in Ends, Write(x) PROVE IInv'
<1> DEFINE o == Other(x)
           m == Head(cwrite[x])
           w == IF o \in up THEN Written(m) ELSE <<>>
           z == Seen(kind, o, w)
<1>0. Typed /\ AllSized /\ TypeOK /\ Linked /\ InLine /\ Foreign /\ AllStaged
  BY Setting
<1>1. o \in Ends /\ o # x /\ Other(o) = x /\ \A e \in Ends : e = x \/ e = o
  BY OtherEnd
<1>2. /\ kind' = kind /\ up' = up /\ reader' = reader /\ asked' = asked /\ answers' = answers
      /\ Alive(x) /\ cwrite[x] # <<>> /\ (o \in up => Len(wire[o]) < WireSize)
  BY DEF Write, Room
<1>3. cwrite[x] \in Seq(Messages) /\ wire[o] \in Seq(Wires)
  BY <1>0, <1>1 DEF Typed
<1>4. /\ m \in ToSet(cwrite[x]) /\ Tail(cwrite[x]) \in Seq(Messages)
      /\ Len(Tail(cwrite[x])) = Len(cwrite[x]) - 1
      /\ ToSet(Tail(cwrite[x])) \subseteq ToSet(cwrite[x])
  BY <1>2, <1>3, HeadFirst
<1>6. /\ w \in Seq(Wires) /\ Len(w) <= 1 /\ (o \in up \/ Len(w) = 0)
      /\ z \in Seq(Readable)
      /\ Thins(Confirming(z), Confirming(<<m>>)) /\ Thins(Asking(z), Asking(<<m>>))
      /\ \A y \in ToSet(z) : (Confirms(y) => Belongs(o, y)) /\ (Asks(y) => y = m)
  <2>1. <<>> \in Seq(Wires) /\ <<>> \in Seq(Readable) /\ Len(<<>>) = 0 /\ ToSet(<<>>) = {}
    BY EmptySeq, ElementsOfOne
  <2>2. Thins(<<>>, Confirming(<<m>>)) /\ Thins(<<>>, Asking(<<m>>))
    <3>1. m \in Messages
      BY <1>3, <1>4, Elements
    <3>2. <<m>> \in Seq(Messages)
      BY <3>1
    <3> HIDE DEF m
    <3>3. <<m>> \in Seq(Readable)
      BY <3>2, MessagesReadable
    <3> QED BY <3>3, ConfirmingType, AskingType, ThinsEmpty
  <2>3. Confirming(<<>>) = <<>> /\ Asking(<<>>) = <<>>
    BY NumbersOne
  <2>4. CASE ~(o \in up)
    <3>1. w = <<>> /\ z = <<>>
      BY <2>4, SeenOne
    <3> HIDE DEF o, m, w, z
    <3> QED BY <2>1, <2>2, <2>3, <3>1
  <2>5. CASE o \in up
    <3>1. w = Written(m) /\ WrittenFor(x, m, z)
      BY <1>2, <1>4, <2>5, WrittenMeaning
    <3> HIDE DEF m, w, z
    <3> QED BY <2>5, <3>1 DEF WrittenFor
  <2> QED BY <2>4, <2>5
<1> HIDE DEF w
<1>7. Joined(Wires, wire, wire', o, w)
  <2>1. wire \in [Ends -> Seq(Wires)]
    BY <1>0 DEF Typed
  <2>2. CASE o \in up
    <3>1. wire' = Put(wire, o, w)
      BY <2>2 DEF Write, w
    <3> QED BY <1>1, <1>6, <2>1, <3>1, PutType
  <2>3. CASE ~(o \in up)
    <3>1. wire' = wire /\ w = <<>>
      BY <2>3 DEF Write, w
    <3> QED BY <1>1, <2>1, <3>1, JoinedNothing
  <2> QED BY <2>2, <2>3
<1>8. Replaced(Messages, cwrite, cwrite', x, Tail(cwrite[x]))
  <2>1. cwrite' = [cwrite EXCEPT ![x] = Tail(cwrite[x])]
    BY DEF Write
  <2> QED BY <1>0, <1>4, <2>1, UpdateType DEF Typed
<1>9. cwrite'[x] = Tail(cwrite[x]) /\ cwrite'[o] = cwrite[o] /\ wire'[x] = wire[x]
  BY <1>1, <1>7, <1>8 DEF Joined, Replaced
<1>10. Seen(kind, o, wire'[o]) = Seen(kind, o, wire[o]) \o z
  <2>1. wire'[o] = wire[o] \o w
    BY <1>7 DEF Joined
  <2> HIDE DEF o
  <2> QED BY <1>3, <1>6, <2>1, SeenJoin
<1>11. Seen(kind, o, wire[o]) \in Seq(Readable) /\ cwrite[x] \in Seq(Readable)
  BY <1>0, <1>1 DEF AllStaged, Staged
<1> HIDE DEF o, m, z
<1>12. ToSet(Seen(kind, o, wire'[o])) = ToSet(Seen(kind, o, wire[o])) \cup ToSet(z)
  BY <1>6, <1>10, <1>11, Elements
<1>13. TypeOK'
  <2>1. Typed'
    BY <1>0, <1>2, <1>7, <1>8 DEF Typed, Wires, Joined, Replaced
  <2>2. Len(wire'[o]) <= WireSize
    <3>1. Len(wire'[o]) = Len(wire[o]) + Len(w)
      BY <1>7 DEF Joined
    <3>2. Len(wire[o]) \in Nat /\ Len(w) \in Nat
      BY <1>3, <1>6
    <3>3. CASE o \in up
      <4>1. Len(wire[o]) < WireSize /\ Len(w) <= 1 /\ WireSize \in Nat
        BY <1>2, <1>6, <3>3, Capacities DEF o
      <4> QED BY <3>1, <3>2, <4>1, RoomFor
    <3>4. CASE ~(o \in up)
      <4>1. Len(w) = 0 /\ Len(wire[o]) <= WireSize
        BY <1>0, <1>1, <1>6, <3>4 DEF AllSized, Sized
      <4>2. Len(wire'[o]) = Len(wire[o])
        BY <3>1, <3>2, <4>1
      <4> QED BY <4>1, <4>2
    <3> QED BY <3>3, <3>4
  <2>3. Len(cwrite'[x]) <= ChanSize
    <3>1. Len(cwrite'[x]) = Len(cwrite[x]) - 1 /\ Len(cwrite[x]) \in Nat
      BY <1>3, <1>4, <1>9
    <3>2. Len(cwrite[x]) <= ChanSize
      BY <1>0 DEF AllSized, Sized
    <3> QED BY <3>1, <3>2, Capacities
  <2>4. Sized(x)' /\ Sized(o)'
    BY <1>0, <1>1, <1>2, <1>9, <2>2, <2>3 DEF AllSized, Sized
  <2>5. AllSized'
    BY <1>1, <2>4 DEF AllSized
  <2> QED BY <2>1, <2>5, TypePartsNext
<1>14. Linked'
  <2>1. Back(x)' = Back(x) /\ \A y \in Back(o)' : y \in Back(o) \/ y \in ToSet(z)
    <3>1. Back(x)' = Back(x)
      BY <1>2, <1>9 DEF Back, o
    <3>2. \A y \in Back(o)' : y \in Back(o) \/ y \in ToSet(z)
      BY <1>1, <1>2, <1>4, <1>9, <1>12 DEF Back
    <3> QED BY <3>1, <3>2
  <2>2. Out(x)' = Out(x) /\ \A y \in Out(o)' : y \in Out(o) \/ y \in ToSet(z)
    <3>1. Out(x)' = Out(x)
      BY <1>2, <1>9 DEF Out, o
    <3>2. \A y \in Out(o)' : y \in Out(o) \/ y \in ToSet(z)
      BY <1>1, <1>2, <1>4, <1>9, <1>12 DEF Out
    <3> QED BY <3>1, <3>2
  <2>3. m \in Out(o)
    BY <1>1, <1>4 DEF Out
  <2>4. \A e \in Ends : \A y \in Held(e)' : Confirms(y)
    BY <1>0, <1>2 DEF Held, Linked
  <2>5. \A e \in Ends : \A y \in Back(e)' : Confirms(y) => y \in Back(e) \/ Belongs(e, y)
    BY <1>1, <1>6, <2>1
  <2>6. \A e \in Ends : \A y \in Out(e)' : Asks(y) => y \in Out(e) \/ Belongs(Other(e), y)
    BY <1>1, <1>6, <2>2, <2>3
  <2> QED BY <1>0, <1>2, <2>4, <2>5, <2>6, LinkedKept
<1>15. AllStaged'
  BY <1>13, <1>14, StageTypesNext
<1>16. Numbered(x) /\ Numbered(o) /\ Numbered(x)' /\ Numbered(o)'
  BY <1>0, <1>1, <1>15 DEF AllStaged
<1>17. Thins(Line(x)', Line(x))
  <2>1. Thins(GoingOut(x)' \o QueuedOut(x)', GoingOut(x) \o QueuedOut(x))
    <3>1. Thins(Asking(Seen(kind, o, wire[o]) \o z) \o Asking(Tail(cwrite[x])),
                Asking(Seen(kind, o, wire[o])) \o Asking(cwrite[x]))
      BY <1>2, <1>6, <1>11, Moves DEF m
    <3> QED BY <1>2, <1>9, <1>10, <3>1 DEF GoingOut, QueuedOut, o
  <2>2. /\ Came(x)' = Came(x) /\ ComingBack(x)' = ComingBack(x) /\ QueuedBack(x)' = QueuedBack(x)
        /\ HeldBack(x)' = HeldBack(x)
    BY <1>2, <1>9 DEF Came, ComingBack, QueuedBack, HeldBack, o
  <2> QED BY <1>16, <2>1, <2>2, LineFifth DEF Keeps
<1>18. Thins(Line(o)', Line(o))
  <2>1. Thins(ComingBack(o)' \o QueuedBack(o)', ComingBack(o) \o QueuedBack(o))
    <3>1. Thins(Confirming(Seen(kind, o, wire[o]) \o z) \o Confirming(Tail(cwrite[x])),
                Confirming(Seen(kind, o, wire[o])) \o Confirming(cwrite[x]))
      BY <1>2, <1>6, <1>11, Moves DEF m
    <3> QED BY <1>1, <1>2, <1>9, <1>10, <3>1 DEF ComingBack, QueuedBack
  <2>2. /\ Came(o)' = Came(o) /\ HeldBack(o)' = HeldBack(o) /\ GoingOut(o)' = GoingOut(o)
        /\ QueuedOut(o)' = QueuedOut(o)
    BY <1>1, <1>2, <1>9 DEF Came, HeldBack, GoingOut, QueuedOut
  <2> QED BY <1>1, <1>16, <2>1, <2>2, LineSecond DEF Keeps
<1>19. InLine'
  <2>1. \A e \in Ends : Thins(Line(e)', Line(e))
    BY <1>1, <1>17, <1>18
  <2> QED BY <1>0, <1>2, <1>13, <1>14, <2>1, InLineKept
<1>20. Foreign'
  BY <1>0, <1>2, <1>9, ForeignKept DEF o
<1> QED BY <1>13, <1>14, <1>19, <1>20 DEF IInv

\* The head of what is on the wire, as its reader takes it.
LEMMA SeenHead ==
    ASSUME NEW k, NEW e, NEW S, NEW q \in Seq(S), q # <<>>
    PROVE  /\ Seen(k, e, q) # <<>> /\ Head(Seen(k, e, q)) = Meaning(k, e, Head(q))
           /\ Tail(Seen(k, e, q)) = Seen(k, e, Tail(q))
<1> DEFINE T == {Meaning(k, e, x) : x \in S}
           s == Seen(k, e, q)
           t == Tail(q)
           u == Seen(k, e, t)
<1>1. /\ t \in Seq(S) /\ Len(t) = Len(q) - 1 /\ \A i \in 1..Len(t) : t[i] = q[i + 1]
      /\ Head(q) = q[1] /\ Len(q) \in Nat /\ Len(q) > 0
  BY HeadTailProperties
<1> HIDE DEF t
<1>2. /\ \A i \in 1..Len(q) : Meaning(k, e, q[i]) \in T
      /\ \A i \in 1..Len(t) : Meaning(k, e, t[i]) \in T
  BY <1>1, ElementOfSeq
<1> HIDE DEF T
<1>3. s \in Seq(T) /\ Len(s) = Len(q) /\ \A i \in 1..Len(q) : s[i] = Meaning(k, e, q[i])
  BY <1>1, <1>2 DEF Seen
<1>4. u \in Seq(T) /\ Len(u) = Len(t) /\ \A i \in 1..Len(t) : u[i] = Meaning(k, e, t[i])
  <2>1. Len(t) \in Nat
    BY <1>1
  <2> QED BY <1>2, <2>1 DEF Seen
<1> HIDE DEF s, u
<1>5. s # <<>>
  BY <1>1, <1>3, EmptySeq
<1>6. /\ Head(s) = s[1] /\ Tail(s) \in Seq(T) /\ Len(Tail(s)) = Len(s) - 1
      /\ \A i \in 1..Len(Tail(s)) : Tail(s)[i] = s[i + 1]
  BY <1>3, <1>5, HeadTailProperties
<1>7. Head(s) = Meaning(k, e, Head(q))
  BY <1>1, <1>3, <1>6
<1>8. Tail(s) = u
  <2>1. Len(Tail(s)) = Len(u)
    BY <1>1, <1>3, <1>4, <1>6
  <2>2. ASSUME NEW i \in 1..Len(u) PROVE Tail(s)[i] = u[i]
    <3>1. i \in 1..Len(t) /\ i \in 1..Len(Tail(s))
      BY <1>4, <2>1
    <3>2. \A n \in Nat : \A j \in 1..n - 1 : j + 1 \in 1..n
      OBVIOUS
    <3>3. i + 1 \in 1..Len(q)
      BY <1>1, <3>1, <3>2
    <3>4. Tail(s)[i] = s[i + 1] /\ s[i + 1] = Meaning(k, e, q[i + 1])
      BY <1>3, <1>6, <3>1, <3>3
    <3>5. u[i] = Meaning(k, e, t[i]) /\ t[i] = q[i + 1]
      BY <1>1, <1>4, <3>1
    <3> QED BY <3>4, <3>5
  <2> QED BY <1>4, <1>6, <2>1, <2>2, SeqEqual
<1> QED BY <1>5, <1>7, <1>8 DEF s, u, t

\* What the reader of x takes from the wire: a message, and a packet for the other end
\* that it makes nothing of.
LEMMA ArrivedType ==
    ASSUME IInv, NEW x \in Ends, Alive(x), wire[x] # <<>>
    PROVE  /\ Arrived(x).msg = Meaning(kind, x, Head(wire[x])) /\ Arrived(x).msg \in Readable
           /\ Arrived(x).msg \in ToSet(Seen(kind, x, wire[x]))
           /\ Arrived(x).send \in Seq(Wires) /\ Len(Arrived(x).send) <= 1
           /\ \A p \in ToSet(Arrived(x).send) : Meaning(kind, Other(x), p) = Unfilled
<1> DEFINE y == Head(wire[x])
<1>0. Typed
  BY Setting
<1>1. wire[x] \in Seq(Wires)
  BY <1>0 DEF Typed
<1>2. y \in Wires /\ y \in ToSet(wire[x])
  BY <1>1, HeadFirst
<1>3. Meaning(kind, x, y) \in ToSet(Seen(kind, x, wire[x]))
  BY <1>1, <1>2, SeenSet
<1> HIDE DEF y
<1>4. CASE kind = "tcp"
  <2>1. Arrived(x) = Filled(y) /\ Wires = Messages /\ Meaning(kind, x, y) = y
    BY <1>4 DEF Arrived, Wires, Meaning, y
  <2>2. Filled(y).msg = y /\ Filled(y).send = <<>>
    BY DEF Filled
  <2>3. <<>> \in Seq(Wires) /\ Len(<<>>) <= 1 /\ ToSet(<<>>) = {}
    BY EmptySeq, ElementsOfOne
  <2> QED BY <1>2, <1>3, <2>1, <2>2, <2>3 DEF Readable, y
<1>5. CASE kind # "tcp"
  <2>1. kind = "socketio"
    BY <1>0, <1>5, ExchangeAssumption DEF Typed
  <2>2. x = "server" /\ Other(x) # "server"
    BY <2>1, Transport
  <2>3. Arrived(x) = ReadPacket(y) /\ Wires = Packets /\ Meaning(kind, x, y) = ReadPacket(y).msg
    BY <1>5, <2>2 DEF Arrived, Wires, Meaning, y
  <2>4. WellRead(ReadPacket(y))
    BY <1>2, <2>3, PacketRead
  <2>5. \A p \in ToSet(ReadPacket(y).send) : p \in Packets /\ p.type # "3"
    <3>1. ToSet(ReadPacket(y).send) \subseteq Packets
      BY <2>4, Elements DEF WellRead
    <3> QED BY <2>4, <3>1 DEF WellRead
  <2>6. \A p \in ToSet(ReadPacket(y).send) : Meaning(kind, Other(x), p) = Unfilled
    <3> SUFFICES ASSUME NEW p \in ToSet(ReadPacket(y).send)
                 PROVE  Meaning(kind, Other(x), p) = Unfilled
      OBVIOUS
    <3>1. Meaning(kind, Other(x), p) = Answer(p)
      BY <1>5, <2>2 DEF Meaning
    <3>2. Answer(p) = Unfilled
      BY <2>5, AnswerType
    <3> QED BY <3>1, <3>2
  <2> QED BY <1>3, <2>3, <2>4, <2>6 DEF WellRead, y
<1> QED BY <1>4, <1>5

\* What the handler of x replies, and what x notes of a confirmation.
LEMMA HandleType ==
    ASSUME NEW m \in Readable
    PROVE  /\ Handle(m) \in Seq(Messages) /\ Len(Handle(m)) <= 1
           /\ \A y \in ToSet(Handle(m)) : Asks(m) /\ y = Reply(m)
           /\ Thins(Confirming(Handle(m)), Asking(<<m>>))
<1>0. <<m>> \in Seq(Readable) /\ Asking(<<m>>) \in Seq(Int)
  <2>1. <<m>> \in Seq(Readable)
    OBVIOUS
  <2> QED BY <2>1, AskingType
<1>1. CASE Handle(m) = <<>>
  <2>1. <<>> \in Seq(Messages) /\ Len(<<>>) <= 1 /\ ToSet(<<>>) = {}
    BY EmptySeq, ElementsOfOne
  <2>2. Confirming(<<>>) = <<>>
    BY NumbersOne
  <2> QED BY <1>0, <1>1, <2>1, <2>2, ThinsEmpty
<1>2. CASE Handle(m) # <<>>
  <2>1. Handle(m) = <<Reply(m)>> /\ Asks(m)
    BY <1>2 DEF Handle, Asks
  <2>2. m \in Messages
    BY <2>1, Indexes
  <2>3. Reply(m) \in Messages /\ Confirms(Reply(m)) /\ Reply(m).index = m.index
    BY <2>2, ReplyType
  <2>4. \A r \in Messages : <<r>> \in Seq(Messages) /\ Len(<<r>>) <= 1
    OBVIOUS
  <2>5. Confirming(<<Reply(m)>>) = Asking(<<m>>)
    <3>1. Confirming(<<Reply(m)>>) = <<IF Confirms(Reply(m)) THEN Reply(m).index ELSE 0>>
      BY NumbersOne
    <3>2. Asking(<<m>>) = <<IF Asks(m) THEN m.index ELSE 0>>
      BY NumbersOne
    <3> QED BY <2>1, <2>3, <3>1, <3>2
  <2>6. Thins(Confirming(<<Reply(m)>>), Asking(<<m>>))
    BY <1>0, <2>5, ThinsSame
  <2> QED BY <2>1, <2>3, <2>4, <2>6, ElementsOfOne
<1> QED BY <1>1, <1>2

LEMMA ConfirmationType ==
    ASSUME NEW m \in Readable
    PROVE  /\ Confirmation(m) \in Seq(Messages)
           /\ \A y \in ToSet(Confirmation(m)) : Confirms(m) /\ y = m
           /\ Thins(Confirming(Confirmation(m)), Confirming(<<m>>))
<1>0. <<m>> \in Seq(Readable) /\ Confirming(<<m>>) \in Seq(Int)
  <2>1. <<m>> \in Seq(Readable)
    OBVIOUS
  <2> QED BY <2>1, ConfirmingType
<1>1. CASE ~Confirms(m)
  <2>1. Confirmation(m) = <<>>
    BY <1>1 DEF Confirmation
  <2>2. <<>> \in Seq(Messages) /\ ToSet(<<>>) = {} /\ Confirming(<<>>) = <<>>
    BY EmptySeq, ElementsOfOne, NumbersOne
  <2> QED BY <1>0, <2>1, <2>2, ThinsEmpty
<1>2. CASE Confirms(m)
  <2>1. Confirmation(m) = <<m>>
    BY <1>2 DEF Confirmation
  <2>2. m \in Messages
    BY <1>2, Indexes
  <2>3. <<m>> \in Seq(Messages)
    BY <2>2
  <2> QED BY <1>0, <1>2, <2>1, <2>3, ElementsOfOne, ThinsSame
<1> QED BY <1>1, <1>2

\* The reply to a request belongs to it as well.
LEMMA ReplyBelongs ==
    ASSUME NEW e, NEW m \in Messages, Asks(m), Belongs(e, m)
    PROVE  Belongs(e, Reply(m))
<1>1. /\ Confirms(Reply(m)) /\ Reply(m).index = m.index /\ Reply(m).body = m.body
      /\ Reply(m).path = Confirm(m) /\ ~Confirms(m)
  BY ReplyType, Indexes DEF Readable
<1>2. \A r : r.path = m.path => Confirm(r) = Confirm(m)
  BY DEF Confirm, Path
<1> QED BY <1>1, <1>2 DEF Belongs

\* The reader takes the head of the wire, notes a confirmation, and holds the reply to a
\* request; the reply to CONNECT is no message.
LEMMA ReadStep == ASSUME IInv, NEW x \in Ends, Read(x) PROVE IInv'
<1> DEFINE o == Other(x)
           s == Seen(kind, x, wire[x])
           m == Arrived(x).msg
           send == IF o \in up THEN Arrived(x).send ELSE <<>>
           u == Put(wire, o, send)
           z == Seen(kind, o, send)
           c == Confirmation(m)
           h == Handle(m)
<1>0. Typed /\ AllSized /\ TypeOK /\ Linked /\ InLine /\ Foreign /\ AllStaged
  BY Setting
<1>1. o \in Ends /\ o # x /\ Other(o) = x /\ \A e \in Ends : e = x \/ e = o
  BY OtherEnd
<1>2. /\ kind' = kind /\ up' = up /\ cwrite' = cwrite /\ asked' = asked
      /\ Alive(x) /\ reader[x] = <<>> /\ wire[x] # <<>>
      /\ (Arrived(x).send # <<>> => Len(wire[o]) < WireSize)
      /\ wire' = [u EXCEPT ![x] = Tail(u[x])]
      /\ reader' = [reader EXCEPT ![x] = h]
      /\ answers' = Put(answers, x, c)
  BY Zenon DEF Read, Room
<1>3. wire[x] \in Seq(Wires) /\ wire[o] \in Seq(Wires) /\ wire \in [Ends -> Seq(Wires)]
  BY <1>0, <1>1 DEF Typed
<1>4. /\ m = Meaning(kind, x, Head(wire[x])) /\ m \in Readable /\ m \in ToSet(s)
      /\ Arrived(x).send \in Seq(Wires) /\ Len(Arrived(x).send) <= 1
      /\ \A p \in ToSet(Arrived(x).send) : Meaning(kind, o, p) = Unfilled
  BY <1>2, ArrivedType
<1>5. /\ c \in Seq(Messages) /\ (\A y \in ToSet(c) : Confirms(m) /\ y = m)
      /\ Thins(Confirming(c), Confirming(<<m>>))
  BY <1>4, ConfirmationType
<1>6. /\ h \in Seq(Messages) /\ Len(h) <= 1 /\ (\A y \in ToSet(h) : Asks(m) /\ y = Reply(m))
      /\ Thins(Confirming(h), Asking(<<m>>))
  BY <1>4, HandleType
<1>7. /\ Tail(wire[x]) \in Seq(Wires) /\ Len(Tail(wire[x])) = Len(wire[x]) - 1
      /\ ToSet(Tail(wire[x])) \subseteq ToSet(wire[x])
  BY <1>2, <1>3, HeadFirst
<1>8. s # <<>> /\ Head(s) = m /\ Tail(s) = Seen(kind, x, Tail(wire[x]))
  <2> DEFINE q == wire[x]
  <2>1. q \in Seq(Wires)
    BY <1>3
  <2>2. q # <<>>
    BY <1>2
  <2>3. m = Meaning(kind, x, Head(q)) /\ s = Seen(kind, x, q)
    BY <1>4
  <2> HIDE DEF m, s, q
  <2>4. /\ Seen(kind, x, q) # <<>> /\ Head(Seen(kind, x, q)) = Meaning(kind, x, Head(q))
        /\ Tail(Seen(kind, x, q)) = Seen(kind, x, Tail(q))
    BY <2>1, <2>2, SeenHead
  <2> QED BY <2>3, <2>4 DEF q
<1>9. s \in Seq(Readable) /\ Seen(kind, o, wire[o]) \in Seq(Readable) /\ answers[x] \in Seq(Readable)
  BY <1>0, <1>1 DEF AllStaged, Staged
<1>10. ToSet(Tail(s)) \subseteq ToSet(s)
  BY <1>8, <1>9, HeadFirst
<1>11. /\ send \in Seq(Wires) /\ Len(send) <= 1 /\ (\A p \in ToSet(send) : Meaning(kind, o, p) = Unfilled)
       /\ (Len(send) > 0 => Len(wire[o]) < WireSize)
  <2>1. <<>> \in Seq(Wires) /\ Len(<<>>) = 0 /\ ToSet(<<>>) = {}
    BY EmptySeq, ElementsOfOne
  <2>2. send = Arrived(x).send \/ send = <<>>
    OBVIOUS
  <2>3. send # <<>> => Len(wire[o]) < WireSize
    BY <1>2, <2>2
  <2> HIDE DEF send
  <2>4. send \in Seq(Wires) /\ Len(send) <= 1
    <3>1. CASE send = <<>>
      BY <2>1, <3>1
    <3>2. CASE send = Arrived(x).send
      BY Zenon, <1>4, <3>2
    <3> QED BY <2>2, <3>1, <3>2
  <2>5. \A p \in ToSet(send) : Meaning(kind, o, p) = Unfilled
    BY <1>4, <2>1, <2>2
  <2>6. Len(send) > 0 => send # <<>>
    BY <2>1
  <2> QED BY <2>3, <2>4, <2>5, <2>6
<1> HIDE DEF m, send, c, h
<1>12. /\ z \in Seq(Readable) /\ \A y \in ToSet(z) : y = Unfilled
  <2>1. \A y \in ToSet(z) : y = Unfilled
    BY <1>11, SeenSet
  <2>2. Len(send) \in Nat /\ \A i \in 1..Len(send) : send[i] \in ToSet(send)
    BY <1>11, LenProperties DEF ToSet
  <2>3. \A i \in 1..Len(send) : Meaning(kind, o, send[i]) \in Readable
    BY <1>11, <2>2 DEF Readable
  <2>4. z \in Seq(Readable)
    BY <2>2, <2>3, SeenType
  <2> QED BY <2>1, <2>4
<1>13. Joined(Wires, wire, u, o, send)
  BY <1>1, <1>3, <1>11, PutType
<1> HIDE DEF u
<1>14. u \in [Ends -> Seq(Wires)] /\ u[x] = wire[x]
  BY <1>1, <1>13 DEF Joined
<1>15. Replaced(Wires, u, wire', x, Tail(wire[x]))
  BY <1>2, <1>7, <1>14, UpdateType
<1>16. /\ wire' \in [Ends -> Seq(Wires)] /\ wire'[x] = Tail(wire[x])
       /\ wire'[o] = wire[o] \o send /\ Len(wire'[o]) = Len(wire[o]) + Len(send)
  BY <1>13, <1>15 DEF Joined, Replaced
<1>17. Replaced(Messages, reader, reader', x, h)
  BY <1>0, <1>2, <1>6, UpdateType DEF Typed
<1>18. Joined(Messages, answers, answers', x, c)
  BY <1>0, <1>2, <1>5, PutType DEF Typed
<1>19. /\ reader'[x] = h /\ reader'[o] = reader[o]
       /\ answers'[x] = answers[x] \o c /\ answers'[o] = answers[o]
       /\ ToSet(answers'[x]) = ToSet(answers[x]) \cup ToSet(c)
  BY <1>17, <1>18 DEF Joined, Replaced
<1>20. Seen(kind, x, wire'[x]) = Tail(s)
  BY <1>8, <1>16
<1>21. Seen(kind, o, wire'[o]) = Seen(kind, o, wire[o]) \o z
  <2>1. wire'[o] = wire[o] \o send
    BY <1>16
  <2>2. wire[o] \in Seq(Wires) /\ send \in Seq(Wires)
    BY <1>3, <1>11
  <2> HIDE DEF o, s
  <2> QED BY <2>1, <2>2, SeenJoin
<1> HIDE DEF o, s, z
<1>22. ToSet(Seen(kind, o, wire'[o])) = ToSet(Seen(kind, o, wire[o])) \cup ToSet(z)
  BY <1>9, <1>12, <1>21, Elements
<1>23. TypeOK'
  <2>1. Typed'
    BY <1>0, <1>2, <1>16, <1>17, <1>18 DEF Typed, Wires, Joined, Replaced
  <2>2. Len(wire'[o]) <= WireSize
    <3>1. Len(wire[o]) \in Nat /\ Len(send) \in Nat /\ WireSize \in Nat /\ Len(wire[o]) <= WireSize
      BY <1>0, <1>1, <1>3, <1>11, Capacities DEF AllSized, Sized
    <3>2. \A a, b, d \in Nat : a <= d /\ b <= 1 /\ (b > 0 => a < d) => a + b <= d
      OBVIOUS
    <3> QED BY <1>11, <1>16, <3>1, <3>2
  <2>3. Len(wire'[x]) <= WireSize
    <3>1. Len(wire'[x]) = Len(wire[x]) - 1 /\ Len(wire[x]) \in Nat
      BY <1>3, <1>7, <1>16
    <3>2. Len(wire[x]) <= WireSize
      BY <1>0 DEF AllSized, Sized
    <3> QED BY <3>1, <3>2, Capacities
  <2>4. Sized(x)' /\ Sized(o)'
    BY <1>0, <1>1, <1>2, <1>6, <1>19, <2>2, <2>3 DEF AllSized, Sized
  <2>5. AllSized'
    BY <1>1, <2>4 DEF AllSized
  <2> QED BY <2>1, <2>5, TypePartsNext
<1>24. Linked'
  <2>0. ~Confirms(Unfilled) /\ ~Asks(Unfilled)
    BY DEF Confirms, Asks, Unfilled
  <2>1. Back(x)' \subseteq Back(x)
    <3>1. m \in Back(x)
      BY <1>4 DEF Back, s
    <3>2. ToSet(c) \subseteq Back(x)
      BY <1>5, <3>1
    <3>3. ToSet(Seen(kind, x, wire[x]))' \subseteq Back(x)
      BY <1>2, <1>10, <1>20 DEF Back, s
    <3>4. /\ ToSet(cwrite[Other(x)])' \subseteq Back(x) /\ ToSet(reader[Other(x)])' \subseteq Back(x)
          /\ ToSet(answers[x]) \subseteq Back(x)
      BY <1>2, <1>19 DEF Back, o
    <3>5. ToSet(answers[x])' \subseteq Back(x)
      BY <1>19, <3>2, <3>4
    <3> QED BY <3>3, <3>4, <3>5 DEF Back
  <2>2. \A y \in ToSet(h) : Belongs(o, y)
    <3> SUFFICES ASSUME NEW y \in ToSet(h) PROVE Belongs(o, y)
      OBVIOUS
    <3>1. Asks(m) /\ y = Reply(m)
      BY <1>6
    <3>2. m \in Messages
      BY <1>4, <3>1, Indexes
    <3>3. Belongs(o, m)
      BY <1>0, <1>4, <3>1 DEF Linked, o, s
    <3> QED BY <3>1, <3>2, <3>3, ReplyBelongs
  <2>3. \A y \in Back(o)' : y \in Back(o) \/ y \in ToSet(z) \/ y \in ToSet(h)
    BY <1>1, <1>2, <1>19, <1>22 DEF Back
  <2>4. Out(x)' \subseteq Out(x) /\ \A y \in Out(o)' : y \in Out(o) \/ y \in ToSet(z)
    <3>1. Out(x)' \subseteq Out(x)
      BY <1>2, <1>10, <1>20 DEF Out, s
    <3>2. \A y \in Out(o)' : y \in Out(o) \/ y \in ToSet(z)
      BY <1>1, <1>2, <1>22 DEF Out
    <3> QED BY <3>1, <3>2
  <2>5. \A e \in Ends : \A y \in Held(e)' : Confirms(y)
    <3>1. \A y \in ToSet(h) : Confirms(y)
      <4> SUFFICES ASSUME NEW y \in ToSet(h) PROVE Confirms(y)
        OBVIOUS
      <4>1. Asks(m) /\ y = Reply(m)
        BY <1>6
      <4>2. m \in Messages
        BY <1>4, <4>1, Indexes
      <4> QED BY <4>1, <4>2, ReplyType
    <3>2. \A y \in Held(x)' : y \in Held(x) \/ y \in ToSet(c) \/ y \in ToSet(h)
      BY <1>19 DEF Held
    <3>3. Held(o)' = Held(o)
      BY <1>19 DEF Held
    <3>4. \A e \in Ends : \A y \in Held(e) : Confirms(y)
      BY <1>0 DEF Held, Linked
    <3> QED BY <1>1, <1>5, <3>1, <3>2, <3>3, <3>4
  <2>6. \A e \in Ends : \A y \in Back(e)' : Confirms(y) => y \in Back(e) \/ Belongs(e, y)
    BY <1>1, <1>12, <2>0, <2>1, <2>2, <2>3
  <2>7. \A e \in Ends : \A y \in Out(e)' : Asks(y) => y \in Out(e) \/ Belongs(Other(e), y)
    BY <1>1, <1>12, <2>0, <2>4
  <2> QED BY <1>0, <1>2, <2>5, <2>6, <2>7, LinkedKept
<1>25. AllStaged'
  BY <1>23, <1>24, StageTypesNext
<1>26. Numbered(x) /\ Numbered(o) /\ Numbered(x)' /\ Numbered(o)'
  BY <1>0, <1>1, <1>25 DEF AllStaged
<1>27. /\ Thins(Confirming(Seen(kind, o, wire[o]) \o z), Confirming(Seen(kind, o, wire[o])))
       /\ Thins(Asking(Seen(kind, o, wire[o]) \o z), Asking(Seen(kind, o, wire[o])))
  <2>1. ~Confirms(Unfilled) /\ ~Asks(Unfilled)
    BY DEF Confirms, Asks, Unfilled
  <2>2. \A y \in ToSet(z) : ~Confirms(y) /\ ~Asks(y)
    BY <1>12, <2>1
  <2> QED BY <1>9, <1>12, <2>2, ThinsMore
<1>28. Thins(Line(x)', Line(x))
  <2>1. Thins(Came(x)' \o ComingBack(x)', Came(x) \o ComingBack(x))
    <3>1. Thins(Confirming(answers[x] \o c) \o Confirming(Tail(s)),
                Confirming(answers[x]) \o Confirming(s))
      BY <1>5, <1>8, <1>9, Moves, MessagesReadable
    <3> QED BY <1>2, <1>19, <1>20, <3>1 DEF Came, ComingBack, s
  <2>2. QueuedBack(x)' = QueuedBack(x) /\ HeldBack(x)' = HeldBack(x) /\ QueuedOut(x)' = QueuedOut(x)
    BY <1>2, <1>19 DEF QueuedBack, HeldBack, QueuedOut, o
  <2>3. Thins(GoingOut(x)', GoingOut(x))
    BY <1>2, <1>21, <1>27 DEF GoingOut, o
  <2> QED BY <1>26, <2>1, <2>2, <2>3, LineFirst DEF Keeps
<1>29. Thins(Line(o)', Line(o))
  <2>1. Thins(HeldBack(o)' \o GoingOut(o)', HeldBack(o) \o GoingOut(o))
    <3>1. <<>> \in Seq(Readable) /\ h \in Seq(Readable)
      BY <1>6, EmptySeq, MessagesReadable
    <3>2. <<>> \o h = h
      BY <3>1, ConcatEmptySeq
    <3>3. Thins(Confirming(<<>> \o h) \o Asking(Tail(s)), Confirming(<<>>) \o Asking(s))
      BY <1>6, <1>8, <1>9, <3>1, Moves
    <3> QED BY <1>1, <1>2, <1>19, <1>20, <3>2, <3>3 DEF HeldBack, GoingOut, s
  <2>2. Came(o)' = Came(o) /\ QueuedBack(o)' = QueuedBack(o) /\ QueuedOut(o)' = QueuedOut(o)
    BY <1>1, <1>2, <1>19 DEF Came, QueuedBack, QueuedOut
  <2>3. Thins(ComingBack(o)', ComingBack(o))
    BY <1>2, <1>21, <1>27 DEF ComingBack
  <2> QED BY <1>1, <1>26, <2>1, <2>2, <2>3, LineFourth DEF Keeps
<1>30. InLine'
  <2>1. \A e \in Ends : Thins(Line(e)', Line(e))
    BY <1>1, <1>28, <1>29
  <2>2. Linked' /\ TypeOK'
    BY <1>23, <1>24
  <2> QED BY <1>0, <1>2, <2>1, <2>2, InLineKept
<1>31. Foreign'
  BY <1>0, <1>2, <1>19, ForeignKept DEF o
<1> QED BY <1>23, <1>24, <1>30, <1>31 DEF IInv

\* The foreign client reads a packet, and notes a confirmation.
LEMMA ClientReadStep == ASSUME IInv, ClientRead PROVE IInv'
<1> DEFINE x == "client"
           o == "server"
           q == wire[x]
           s == Seen(kind, x, q)
           m == Answer(Head(q))
           c == Confirmation(m)
<1>0. Typed /\ AllSized /\ TypeOK /\ Linked /\ InLine /\ Foreign /\ AllStaged
  BY Setting
<1>1. /\ x \in Ends /\ o \in Ends /\ o # x /\ Other(o) = x /\ Other(x) = o
      /\ \A e \in Ends : e = x \/ e = o
  BY DEF Ends, Other
<1>2. /\ kind' = kind /\ up' = up /\ cwrite' = cwrite /\ asked' = asked /\ reader' = reader
      /\ kind = "socketio" /\ q # <<>>
      /\ wire' = [wire EXCEPT ![x] = Tail(q)]
      /\ answers' = Put(answers, x, c)
  BY Zenon DEF ClientRead
<1>3. q \in Seq(Wires)
  BY <1>0, <1>1 DEF Typed
<1>4. m = Meaning(kind, x, Head(q))
  BY <1>2 DEF Meaning
<1> HIDE DEF m
<1>5. /\ Tail(q) \in Seq(Wires) /\ Len(Tail(q)) = Len(q) - 1 /\ Head(q) \in ToSet(q)
  BY <1>2, <1>3, HeadFirst
<1>6. s # <<>> /\ Head(s) = m /\ Tail(s) = Seen(kind, x, Tail(q))
  <2> HIDE DEF x, q
  <2>1. q # <<>>
    BY <1>2
  <2>2. /\ Seen(kind, x, q) # <<>> /\ Head(Seen(kind, x, q)) = Meaning(kind, x, Head(q))
        /\ Tail(Seen(kind, x, q)) = Seen(kind, x, Tail(q))
    BY <1>3, <2>1, SeenHead
  <2> QED BY <1>4, <2>2
<1>7. s \in Seq(Readable) /\ answers[x] \in Seq(Readable)
  BY <1>0, <1>1 DEF AllStaged, Staged
<1> HIDE DEF s
<1>8. m \in Readable /\ m \in ToSet(s) /\ ToSet(Tail(s)) \subseteq ToSet(s)
  BY <1>6, <1>7, HeadFirst
<1>9. /\ c \in Seq(Messages) /\ (\A y \in ToSet(c) : Confirms(m) /\ y = m)
      /\ Thins(Confirming(c), Confirming(<<m>>))
  BY <1>8, ConfirmationType
<1> HIDE DEF c
<1>10. Replaced(Wires, wire, wire', x, Tail(q))
  BY <1>0, <1>1, <1>2, <1>5, UpdateType DEF Typed
<1>11. Joined(Messages, answers, answers', x, c)
  BY <1>0, <1>1, <1>2, <1>9, PutType DEF Typed
<1>12. /\ wire'[x] = Tail(q) /\ wire'[o] = wire[o]
       /\ answers'[x] = answers[x] \o c /\ answers'[o] = answers[o]
       /\ ToSet(answers'[x]) = ToSet(answers[x]) \cup ToSet(c)
  BY <1>1, <1>10, <1>11 DEF Joined, Replaced
<1>13. Seen(kind, x, wire'[x]) = Tail(s) /\ Seen(kind, x, wire[x]) = s
  BY <1>6, <1>12 DEF s
<1> HIDE DEF x, o
<1>14. TypeOK'
  <2>1. Typed'
    BY <1>0, <1>2, <1>10, <1>11 DEF Typed, Wires, Joined, Replaced
  <2>2. Len(wire'[x]) <= WireSize
    <3>1. Len(wire'[x]) = Len(wire[x]) - 1 /\ Len(wire[x]) \in Nat
      BY <1>3, <1>5, <1>12
    <3>2. Len(wire[x]) <= WireSize
      BY <1>0, <1>1 DEF AllSized, Sized
    <3> QED BY <3>1, <3>2, Capacities
  <2>3. Sized(x)' /\ Sized(o)'
    BY <1>0, <1>1, <1>2, <1>12, <2>2 DEF AllSized, Sized
  <2>4. AllSized'
    BY <1>1, <2>3 DEF AllSized
  <2> QED BY <2>1, <2>4, TypePartsNext
<1>15. Linked'
  <2>1. Back(x)' \subseteq Back(x) /\ Back(o)' = Back(o)
    <3>1. m \in Back(x) /\ ToSet(c) \subseteq Back(x)
      BY <1>8, <1>9, <1>13 DEF Back
    <3>2. Back(x)' \subseteq Back(x)
      <4>1. ToSet(Seen(kind, x, wire[x]))' \subseteq Back(x)
        BY <1>2, <1>8, <1>13 DEF Back
      <4>2. /\ ToSet(cwrite[Other(x)])' \subseteq Back(x) /\ ToSet(reader[Other(x)])' \subseteq Back(x)
            /\ ToSet(answers[x]) \subseteq Back(x)
        BY <1>2 DEF Back
      <4>3. ToSet(answers[x])' \subseteq Back(x)
        BY <1>12, <3>1, <4>2
      <4> QED BY <4>1, <4>2, <4>3 DEF Back
    <3>3. Back(o)' = Back(o)
      BY <1>2, <1>12 DEF Back
    <3> QED BY <3>2, <3>3
  <2>2. Out(x)' \subseteq Out(x) /\ Out(o)' = Out(o)
    BY <1>2, <1>8, <1>12, <1>13 DEF Out
  <2>3. \A e \in Ends : \A y \in Held(e)' : Confirms(y)
    <3>1. \A y \in Held(x)' : y \in Held(x) \/ y \in ToSet(c)
      BY <1>2, <1>12 DEF Held
    <3>2. Held(o)' = Held(o)
      BY <1>2, <1>12 DEF Held
    <3>3. \A e \in Ends : \A y \in Held(e) : Confirms(y)
      BY <1>0 DEF Held, Linked
    <3> QED BY <1>1, <1>9, <3>1, <3>2, <3>3
  <2>4. \A e \in Ends : \A y \in Back(e)' : Confirms(y) => y \in Back(e) \/ Belongs(e, y)
    BY <1>1, <2>1
  <2>5. \A e \in Ends : \A y \in Out(e)' : Asks(y) => y \in Out(e) \/ Belongs(Other(e), y)
    BY <1>1, <2>2
  <2> QED BY <1>0, <1>2, <2>3, <2>4, <2>5, LinkedKept
<1>16. AllStaged'
  BY <1>14, <1>15, StageTypesNext
<1>17. Numbered(x) /\ Numbered(o) /\ Numbered(x)' /\ Numbered(o)'
  BY <1>0, <1>1, <1>16 DEF AllStaged
<1>18. Thins(Line(x)', Line(x))
  <2>1. Thins(Came(x)' \o ComingBack(x)', Came(x) \o ComingBack(x))
    <3>1. Thins(Confirming(answers[x] \o c) \o Confirming(Tail(s)),
                Confirming(answers[x]) \o Confirming(s))
      BY <1>6, <1>7, <1>9, Moves, MessagesReadable
    <3> QED BY <1>2, <1>12, <1>13, <3>1 DEF Came, ComingBack
  <2>2. /\ QueuedBack(x)' = QueuedBack(x) /\ HeldBack(x)' = HeldBack(x)
        /\ GoingOut(x)' = GoingOut(x) /\ QueuedOut(x)' = QueuedOut(x)
    BY <1>1, <1>2, <1>12 DEF QueuedBack, HeldBack, GoingOut, QueuedOut
  <2> QED BY <1>1, <1>17, <2>1, <2>2, LineFirst DEF Keeps
<1>19. Thins(Line(o)', Line(o))
  <2>1. Thins(GoingOut(o)', GoingOut(o))
    BY <1>1, <1>2, <1>6, <1>7, <1>13, ThinsTail DEF GoingOut
  <2>2. /\ Came(o)' = Came(o) /\ ComingBack(o)' = ComingBack(o) /\ QueuedBack(o)' = QueuedBack(o)
        /\ HeldBack(o)' = HeldBack(o) /\ QueuedOut(o)' = QueuedOut(o)
    BY <1>2, <1>12 DEF Came, ComingBack, QueuedBack, HeldBack, QueuedOut
  <2> QED BY <1>1, <1>17, <2>1, <2>2, LineEach DEF Keeps
<1>20. InLine'
  <2>1. \A e \in Ends : Thins(Line(e)', Line(e))
    BY <1>1, <1>18, <1>19
  <2> QED BY <1>0, <1>2, <1>14, <1>15, <2>1, InLineKept
<1>21. Foreign'
  BY <1>0, <1>2 DEF Foreign
<1> QED BY <1>14, <1>15, <1>20, <1>21 DEF IInv

-----------------------------------------------------------------------------
(* The steps that ask.                                                     *)

\* What belonged to a request still does when another is sent.
LEMMA BelongsGrown ==
    ASSUME Typed, kind' = kind, NEW x \in Ends, NEW r \in Messages,
           Joined(Messages, asked, asked', x, <<r>>)
    PROVE  \A e \in Ends : \A y : Belongs(e, y) => Belongs(e, y)'
<1> SUFFICES ASSUME NEW e \in Ends, NEW y, Belongs(e, y) PROVE Belongs(e, y)'
  OBVIOUS
<1>1. asked[e] \in Seq(Messages) /\ <<r>> \in Seq(Messages)
  BY DEF Typed
<1>2. y.index \in 1..Len(asked[e])
  BY DEF Belongs
<1>3. y.index \in 1..Len(asked'[e]) /\ asked'[e][y.index] = asked[e][y.index]
  <2>1. CASE e = x
    <3>1. asked'[e] = asked[e] \o <<r>>
      BY <2>1 DEF Joined
    <3>2. /\ Len(asked[e] \o <<r>>) = Len(asked[e]) + Len(<<r>>)
          /\ \A i \in 1..Len(asked[e]) : (asked[e] \o <<r>>)[i] = asked[e][i]
      BY <1>1, ConcatSplit
    <3>3. Len(<<r>>) = 1 /\ Len(asked[e]) \in Nat
      BY <1>1
    <3> QED BY <1>2, <3>1, <3>2, <3>3
  <2>2. CASE e # x
    <3>1. asked'[e] = asked[e]
      BY <2>2, OtherEnd DEF Joined
    <3> QED BY <1>2, <3>1
  <2> QED BY <2>1, <2>2
<1> QED BY <1>3 DEF Belongs

\* The message that carries the newest request belongs to it.
LEMMA NewBelongs ==
    ASSUME Typed, NEW x \in Ends, NEW r \in Messages, NEW y,
           Joined(Messages, asked, asked', x, <<r>>),
           r.index = Len(asked[x]) + 1, y.index = r.index, y.body = r.body, Answerable(r),
           kind' # "tcp" \/ (~Confirms(y) /\ y.path = r.path)
    PROVE  Belongs(x, y)'
<1>1. asked[x] \in Seq(Messages) /\ <<r>> \in Seq(Messages)
  BY DEF Typed
<1>2. asked'[x] = asked[x] \o <<r>>
  BY DEF Joined
<1>3. /\ Len(asked[x] \o <<r>>) = Len(asked[x]) + Len(<<r>>)
      /\ \A i \in 1..Len(<<r>>) : (asked[x] \o <<r>>)[Len(asked[x]) + i] = <<r>>[i]
  BY <1>1, ConcatSplit
<1>4. Len(<<r>>) = 1 /\ <<r>>[1] = r /\ Len(asked[x]) \in Nat
  BY <1>1
<1>5. y.index \in 1..Len(asked'[x]) /\ asked'[x][y.index] = r
  BY <1>2, <1>3, <1>4
<1> QED BY <1>5 DEF Belongs

\* Messages still belong to requests when one is sent, if the new one does.
LEMMA LinkedGrown ==
    ASSUME Linked, Typed, kind' = kind, NEW x \in Ends, NEW r \in Messages,
           Joined(Messages, asked, asked', x, <<r>>),
           \A e \in Ends : \A m \in Back(e)' : Confirms(m) => m \in Back(e),
           \A e \in Ends : \A m \in Out(e)' : Asks(m) => m \in Out(e) \/ Belongs(Other(e), m)',
           \A e \in Ends : \A m \in Held(e)' : Confirms(m)
    PROVE  Linked'
<1>1. \A e \in Ends : \A m : Belongs(e, m) => Belongs(e, m)'
  BY BelongsGrown
<1>2. \A e \in Ends : \A m \in Back(e)' : Confirms(m) => Belongs(e, m)'
  BY <1>1 DEF Linked, Back
<1>3. \A e \in Ends : \A m \in Out(e)' : Asks(m) => Belongs(Other(e), m)'
  BY <1>1, OtherEnd DEF Linked, Out
<1> QED BY <1>2, <1>3, Zenon DEF Linked, Back, Out, Held

\* The line of an end stays in order when its newest request is added at the end.
LEMMA InLineGrown ==
    ASSUME TypeOK, Linked, InLine, TypeOK', Linked', NEW x \in Ends, NEW r \in Messages,
           Joined(Messages, asked, asked', x, <<r>>),
           NEW n \in {0, Len(asked[x]) + 1}, Line(x)' = Line(x) \o <<n>>,
           Thins(Line(Other(x))', Line(Other(x)))
    PROVE  InLine'
<1>1. \A e \in Ends : Within(Line(e), Len(asked[e]))
  BY InLineWithin DEF AllWithin
<1>2. Len(asked[x]) \in Nat /\ Numbered(x)
  BY StageTypes DEF AllStaged
<1>3. Line(x) \in Seq(Int)
  BY <1>2, LineStages, StagesType, EmptySeq DEF Numbered
<1>4. Len(asked'[x]) = Len(asked[x]) + 1 /\ asked'[Other(x)] = asked[Other(x)]
  BY <1>2 DEF Joined
<1>5. Within(Line(x)', Len(asked'[x]))
  BY <1>1, <1>2, <1>3, <1>4, WithinNext
<1>6. Within(Line(Other(x))', Len(asked'[Other(x)]))
  BY <1>1, <1>4, OtherEnd, WithinThins
<1>7. AllWithin'
  BY <1>5, <1>6, OtherEnd, Zenon DEF AllWithin
<1> QED BY <1>7, InLineWithinNext

LEMMA RequestTypes ==
    ASSUME NEW k \in Kinds, NEW q \in Requests[k]
    PROVE  /\ q.name \in Words /\ q.body \in Seq(Tokens) /\ q.flag \in SUBSET Flags
           /\ <<"/", q.name>> \in Seq(Tokens)
<1>1. q \in [name : Words, body : Seq(Tokens), flag : SUBSET Flags]
  BY ExchangeAssumption
<1>2. q.name \in Words /\ q.body \in Seq(Tokens) /\ q.flag \in SUBSET Flags
  BY <1>1
<1>3. "/" \in Tokens /\ q.name \in Tokens
  BY <1>2 DEF Tokens, Marks
<1> QED BY <1>2, <1>3

\* One more request, within its bound.
LEMMA AskedSize ==
    ASSUME TypeOK, kind' = kind, NEW x \in Ends, NEW r \in Messages,
           Room(asked[x], MaxAsked[kind][x]), Joined(Messages, asked, asked', x, <<r>>)
    PROVE  \A e \in Ends : Len(asked'[e]) <= MaxAsked[kind'][e]
<1>1. Typed /\ AllSized
  BY TypeParts DEF AllSized
<1>2. Len(asked[x]) \in Nat /\ MaxAsked[kind][x] \in Int
  <2>1. asked[x] \in Seq(Messages)
    BY <1>1 DEF Typed
  <2>2. MaxAsked[kind][x] \in 0..Int32Max /\ Int32Max \in Nat
    BY <1>1, ExchangeAssumption, SocketIOAssumption DEF Typed, Ends
  <2> QED BY <2>1, <2>2
<1>3. Len(asked'[x]) <= MaxAsked[kind][x]
  <2>1. Len(asked'[x]) = Len(asked[x]) + 1
    BY <1>2 DEF Joined
  <2> QED BY <1>2, <2>1 DEF Room
<1>4. asked'[Other(x)] = asked[Other(x)]
  BY DEF Joined
<1> QED BY <1>1, <1>3, <1>4, OtherEnd DEF AllSized, Sized

\* An application sends a message: its request is the last in line.
LEMMA SendStep ==
    ASSUME PlainRequests, IInv, NEW x \in Ends, NEW q \in Requests[kind], Send(x, q)
    PROVE  IInv'
<1>m. PICK m : m = Msg(q.flag, Len(asked[x]) + 1, <<"/", q.name>>, q.body)
  OBVIOUS
<1> DEFINE o == Other(x)
           n == IF Asks(m) THEN m.index ELSE 0
<1>0. Typed /\ AllSized /\ TypeOK /\ Linked /\ InLine /\ Foreign /\ AllStaged
  BY Setting
<1>1. o \in Ends /\ o # x /\ Other(o) = x /\ \A e \in Ends : e = x \/ e = o
  BY OtherEnd
<1>2. /\ kind' = kind /\ up' = up /\ wire' = wire /\ reader' = reader /\ answers' = answers
      /\ Alive(x) /\ Room(asked[x], MaxAsked[kind][x]) /\ Len(cwrite[x]) < ChanSize
      /\ cwrite' = Put(cwrite, x, <<m>>) /\ asked' = Put(asked, x, <<m>>)
  BY <1>m, Zenon DEF Send, Room
<1>3. /\ m \in Messages /\ m.index = Len(asked[x]) + 1 /\ ~Confirms(m)
      /\ Len(asked[x]) \in Nat
  <2>1. kind \in Kinds /\ asked[x] \in Seq(Messages)
    BY <1>0 DEF Typed
  <2>2. Len(asked[x]) \in Nat /\ Len(asked[x]) + 1 \in Int
    BY <2>1
  <2>3. m \in Messages
    BY <1>m, <2>1, <2>2, RequestTypes, MsgType
  <2>4. m.index = Len(asked[x]) + 1 /\ m.flag = q.flag
    BY <1>m DEF Msg
  <2>5. ~Confirms(m)
    BY <2>1, <2>4 DEF Confirms, PlainRequests
  <2> QED BY <2>2, <2>3, <2>4, <2>5
<1>4. <<m>> \in Seq(Messages) /\ Len(<<m>>) = 1 /\ ToSet(<<m>>) = {m}
  BY <1>3, ElementsOfOne
<1>5. Joined(Messages, cwrite, cwrite', x, <<m>>)
  BY <1>0, <1>2, <1>4, PutType DEF Typed
<1>6. Joined(Messages, asked, asked', x, <<m>>)
  BY <1>0, <1>2, <1>4, PutType DEF Typed
<1>7. /\ cwrite'[x] = cwrite[x] \o <<m>> /\ cwrite'[o] = cwrite[o]
      /\ ToSet(cwrite'[x]) = ToSet(cwrite[x]) \cup {m}
  BY <1>4, <1>5 DEF Joined
<1> HIDE DEF o
<1>8. TypeOK'
  <2>1. Typed'
    BY <1>0, <1>2, <1>5, <1>6 DEF Typed, Wires, Joined
  <2>2. Len(cwrite'[x]) <= ChanSize
    <3>1. Len(cwrite'[x]) = Len(cwrite[x]) + 1
      BY <1>4, <1>5 DEF Joined
    <3>2. Len(cwrite[x]) \in Nat
      BY <1>0 DEF Typed
    <3> QED BY <1>2, <3>1, <3>2, Capacities
  <2>3. \A e \in Ends : Len(asked'[e]) <= MaxAsked[kind'][e]
    BY <1>0, <1>2, <1>3, <1>6, AskedSize
  <2>4. Sized(x)' /\ Sized(o)'
    BY <1>0, <1>1, <1>2, <1>7, <2>2, <2>3 DEF AllSized, Sized
  <2>5. AllSized'
    BY <1>1, <2>4 DEF AllSized
  <2> QED BY <2>1, <2>5, TypePartsNext
<1>9. Asks(m) => Belongs(x, m)'
  <2>1. Asks(m) => Answerable(m)
    BY DEF Asks
  <2> QED BY <1>0, <1>3, <1>6, <2>1, NewBelongs
<1>10. Linked'
  <2>1. Back(x)' = Back(x) /\ \A y \in Back(o)' : y \in Back(o) \/ y = m
    <3>1. Back(x)' = Back(x)
      BY <1>2, <1>7 DEF Back, o
    <3>2. \A y \in Back(o)' : y \in Back(o) \/ y = m
      BY <1>1, <1>2, <1>7 DEF Back
    <3> QED BY <3>1, <3>2
  <2>2. Out(x)' = Out(x) /\ \A y \in Out(o)' : y \in Out(o) \/ y = m
    <3>1. Out(x)' = Out(x)
      BY <1>2, <1>7 DEF Out, o
    <3>2. \A y \in Out(o)' : y \in Out(o) \/ y = m
      BY <1>1, <1>2, <1>7 DEF Out
    <3> QED BY <3>1, <3>2
  <2>3. \A e \in Ends : \A y \in Held(e)' : Confirms(y)
    BY <1>0, <1>2 DEF Held, Linked
  <2>4. \A e \in Ends : \A y \in Back(e)' : Confirms(y) => y \in Back(e)
    BY <1>1, <1>3, <2>1
  <2>5. \A e \in Ends : \A y \in Out(e)' : Asks(y) => y \in Out(e) \/ Belongs(Other(e), y)'
    BY <1>1, <1>9, <2>2
  <2> QED BY <1>0, <1>2, <1>3, <1>6, <2>3, <2>4, <2>5, LinkedGrown
<1>11. cwrite[x] \in Seq(Readable) /\ <<m>> \in Seq(Readable)
  BY <1>0, <1>4, MessagesReadable DEF AllStaged, Staged
<1>12. Line(x)' = Line(x) \o <<n>>
  <2>1. QueuedOut(x)' = QueuedOut(x) \o <<n>>
    <3>1. Asking(cwrite[x] \o <<m>>) = Asking(cwrite[x]) \o Asking(<<m>>)
      BY <1>11, NumbersJoin
    <3>2. Asking(<<m>>) = <<n>>
      BY NumbersOne
    <3> QED BY <1>7, <3>1, <3>2 DEF QueuedOut
  <2>2. /\ Came(x)' = Came(x) /\ ComingBack(x)' = ComingBack(x) /\ QueuedBack(x)' = QueuedBack(x)
        /\ HeldBack(x)' = HeldBack(x) /\ GoingOut(x)' = GoingOut(x)
    BY <1>2, <1>7 DEF Came, ComingBack, QueuedBack, HeldBack, GoingOut, o
  <2>3. <<n>> \in Seq(Int) /\ Numbered(x)
    BY <1>0, <1>3 DEF AllStaged
  <2> HIDE DEF n
  <2>4. Longer(Came(x), ComingBack(x), QueuedBack(x), HeldBack(x), GoingOut(x), QueuedOut(x), <<n>>)
    BY <2>3, StagesType DEF Numbered
  <2> QED BY <2>1, <2>2, <2>4, LineStages DEF Longer
<1>13. Thins(Line(o)', Line(o))
  <2>1. Thins(QueuedBack(o)', QueuedBack(o))
    <3>1. \A y \in ToSet(<<m>>) : ~Confirms(y)
      BY <1>3, <1>4
    <3> QED BY <1>1, <1>7, <1>11, <3>1, ThinsMore DEF QueuedBack
  <2>2. /\ Came(o)' = Came(o) /\ ComingBack(o)' = ComingBack(o) /\ HeldBack(o)' = HeldBack(o)
        /\ GoingOut(o)' = GoingOut(o) /\ QueuedOut(o)' = QueuedOut(o)
    BY <1>1, <1>2, <1>7 DEF Came, ComingBack, HeldBack, GoingOut, QueuedOut
  <2> QED BY <1>0, <1>1, <2>1, <2>2, LineEach DEF AllStaged, Keeps
<1>14. InLine'
  <2>1. n \in {0, Len(asked[x]) + 1}
    BY <1>3
  <2> HIDE DEF n
  <2> QED BY <1>0, <1>3, <1>6, <1>8, <1>10, <1>12, <1>13, <2>1, InLineGrown DEF o
<1>15. Foreign'
  BY <1>0, <1>2, <1>7, ForeignKept DEF o
<1> QED BY <1>8, <1>10, <1>14, <1>15 DEF IInv

\* The foreign client sends a packet: the server takes it for the request it stands for,
\* the last in the client's line, or for nothing that asks.
LEMMA ClientSendStep ==
    ASSUME IInv, NEW p \in Packets, NEW r \in Messages, ClientSend(p, r),
           NEW y \in Readable, y = ReadPacket(p).msg, ~Confirms(y),
           ~Asks(y) \/ (/\ Answerable(r) /\ r.index = Len(asked["client"]) + 1
                        /\ y.index = r.index /\ y.body = r.body)
    PROVE  IInv'
<1> DEFINE x == "client"
           o == "server"
           n == IF Asks(y) THEN y.index ELSE 0
<1>0. Typed /\ AllSized /\ TypeOK /\ Linked /\ InLine /\ Foreign /\ AllStaged
  BY Setting
<1>1. /\ x \in Ends /\ o \in Ends /\ o # x /\ Other(o) = x /\ Other(x) = o
      /\ \A e \in Ends : e = x \/ e = o
  BY DEF Ends, Other
<1>2. /\ kind' = kind /\ up' = up /\ cwrite' = cwrite /\ reader' = reader /\ answers' = answers
      /\ kind = "socketio" /\ Room(asked[x], MaxAsked[kind][x]) /\ Len(wire[o]) < WireSize
      /\ wire' = Put(wire, o, <<p>>) /\ asked' = Put(asked, x, <<r>>)
  BY Zenon DEF ClientSend, Room
<1>3. cwrite[x] = <<>>
  BY <1>0, <1>2 DEF Foreign
<1>4. Meaning(kind, o, p) = y /\ Wires = Packets
  BY <1>2 DEF Meaning, Wires
<1> HIDE DEF x, o
<1>5. /\ <<p>> \in Seq(Wires) /\ <<r>> \in Seq(Messages) /\ <<y>> \in Seq(Readable)
      /\ Len(<<p>>) = 1 /\ ToSet(<<y>>) = {y} /\ Seen(kind, o, <<p>>) = <<y>>
  BY <1>4, ElementsOfOne, SeenOne
<1>6. Joined(Wires, wire, wire', o, <<p>>)
  BY <1>0, <1>1, <1>2, <1>5, PutType DEF Typed
<1>7. Joined(Messages, asked, asked', x, <<r>>)
  BY <1>0, <1>1, <1>2, <1>5, PutType DEF Typed
<1>8. wire'[x] = wire[x] /\ wire'[o] = wire[o] \o <<p>> /\ wire[o] \in Seq(Wires)
  BY <1>0, <1>1, <1>6 DEF Joined, Typed
<1>9. Seen(kind, o, wire'[o]) = Seen(kind, o, wire[o]) \o <<y>>
  <2> DEFINE v == <<p>>
             w == wire[o]
  <2>1. v \in Seq(Wires)
    BY <1>5
  <2>2. w \in Seq(Wires)
    BY <1>8
  <2>3. wire'[o] = w \o v /\ Seen(kind, o, v) = <<y>>
    BY <1>5, <1>8
  <2> HIDE DEF v, w
  <2>4. Seen(kind, o, w \o v) = Seen(kind, o, w) \o Seen(kind, o, v)
    BY <2>1, <2>2, SeenJoin
  <2> QED BY <2>3, <2>4 DEF w
<1>10. Seen(kind, o, wire[o]) \in Seq(Readable)
  BY <1>0, <1>1 DEF AllStaged, Staged
<1>11. ToSet(Seen(kind, o, wire'[o])) = ToSet(Seen(kind, o, wire[o])) \cup {y}
  <2> DEFINE v == <<y>>
  <2>1. v \in Seq(Readable) /\ ToSet(v) = {y}
    BY <1>5
  <2>2. Seen(kind, o, wire'[o]) = Seen(kind, o, wire[o]) \o v
    BY <1>9
  <2> HIDE DEF v
  <2>3. ToSet(Seen(kind, o, wire[o]) \o v) = ToSet(Seen(kind, o, wire[o])) \cup ToSet(v)
    BY <1>10, <2>1, Elements
  <2> QED BY <2>1, <2>2, <2>3
<1>12. TypeOK'
  <2>1. Typed'
    BY <1>0, <1>2, <1>6, <1>7 DEF Typed, Wires, Joined
  <2>2. Len(wire'[o]) <= WireSize
    <3>1. Len(wire'[o]) = Len(wire[o]) + 1
      BY <1>5, <1>6 DEF Joined
    <3>2. Len(wire[o]) \in Nat
      BY <1>8
    <3> QED BY <1>2, <3>1, <3>2, Capacities
  <2>3. \A e \in Ends : Len(asked'[e]) <= MaxAsked[kind'][e]
    BY <1>0, <1>1, <1>2, <1>7, AskedSize
  <2>4. Sized(x)' /\ Sized(o)'
    BY <1>0, <1>1, <1>2, <1>8, <2>2, <2>3 DEF AllSized, Sized
  <2>5. AllSized'
    BY <1>1, <2>4 DEF AllSized
  <2> QED BY <2>1, <2>5, TypePartsNext
<1>13. Asks(y) => Belongs(x, y)'
  <2>1. kind' # "tcp"
    BY <1>2
  <2>2. x = "client"
    BY DEF x
  <2> QED BY <1>0, <1>1, <1>7, <2>1, <2>2, NewBelongs
<1>14. Linked'
  <2>1. Back(x)' = Back(x) /\ \A m \in Back(o)' : m \in Back(o) \/ m = y
    <3>1. Back(x)' = Back(x)
      BY <1>2, <1>8 DEF Back
    <3>2. \A m \in Back(o)' : m \in Back(o) \/ m = y
      BY <1>2, <1>11 DEF Back
    <3> QED BY <3>1, <3>2
  <2>2. Out(x)' = Out(x) /\ \A m \in Out(o)' : m \in Out(o) \/ m = y
    <3>1. Out(x)' = Out(x)
      BY <1>2, <1>8 DEF Out
    <3>2. \A m \in Out(o)' : m \in Out(o) \/ m = y
      BY <1>2, <1>11 DEF Out
    <3> QED BY <3>1, <3>2
  <2>3. \A e \in Ends : \A m \in Held(e)' : Confirms(m)
    BY <1>0, <1>2 DEF Held, Linked
  <2>4. \A e \in Ends : \A m \in Back(e)' : Confirms(m) => m \in Back(e)
    BY <1>1, <2>1
  <2>5. \A e \in Ends : \A m \in Out(e)' : Asks(m) => m \in Out(e) \/ Belongs(Other(e), m)'
    BY <1>1, <1>13, <2>2
  <2> QED BY <1>0, <1>1, <1>2, <1>7, <2>3, <2>4, <2>5, LinkedGrown
<1>15. Line(x)' = Line(x) \o <<n>>
  <2>1. GoingOut(x)' = GoingOut(x) \o <<n>>
    <3>1. Asking(Seen(kind, o, wire[o]) \o <<y>>) = Asking(Seen(kind, o, wire[o])) \o Asking(<<y>>)
      BY <1>5, <1>10, NumbersJoin
    <3>2. Asking(<<y>>) = <<n>>
      BY NumbersOne
    <3> QED BY <1>1, <1>2, <1>9, <3>1, <3>2 DEF GoingOut
  <2>2. /\ Came(x)' = Came(x) /\ ComingBack(x)' = ComingBack(x) /\ QueuedBack(x)' = QueuedBack(x)
        /\ HeldBack(x)' = HeldBack(x) /\ QueuedOut(x)' = QueuedOut(x)
    BY <1>2, <1>8 DEF Came, ComingBack, QueuedBack, HeldBack, QueuedOut
  <2>3. QueuedOut(x) = <<>>
    BY <1>3, NumbersOne DEF QueuedOut
  <2>4. Numbered(x) /\ <<n>> \in Seq(Int)
    <3>1. n \in Int
      BY Indexes
    <3> HIDE DEF n
    <3> QED BY <1>0, <1>1, <3>1 DEF AllStaged
  <2> HIDE DEF n
  <2>5. LongerBefore(Came(x), ComingBack(x), QueuedBack(x), HeldBack(x), GoingOut(x), <<n>>)
    BY <2>4, StagesBefore DEF Numbered
  <2> QED BY <1>1, <2>1, <2>2, <2>3, <2>5, LineStages DEF LongerBefore
<1>16. Thins(Line(o)', Line(o))
  <2>1. Thins(ComingBack(o)', ComingBack(o))
    <3>1. \A m \in ToSet(<<y>>) : ~Confirms(m)
      BY <1>5
    <3> QED BY <1>2, <1>5, <1>9, <1>10, <3>1, ThinsMore DEF ComingBack
  <2>2. /\ Came(o)' = Came(o) /\ QueuedBack(o)' = QueuedBack(o) /\ HeldBack(o)' = HeldBack(o)
        /\ GoingOut(o)' = GoingOut(o) /\ QueuedOut(o)' = QueuedOut(o)
    BY <1>1, <1>2, <1>8 DEF Came, QueuedBack, HeldBack, GoingOut, QueuedOut
  <2> QED BY <1>0, <1>1, <2>1, <2>2, LineEach DEF AllStaged, Keeps
<1>17. InLine'
  <2>1. n \in {0, Len(asked[x]) + 1}
    BY DEF x
  <2> HIDE DEF n
  <2> QED BY <1>0, <1>1, <1>7, <1>12, <1>14, <1>15, <1>16, <2>1, InLineGrown
<1>18. Foreign'
  BY <1>0, <1>2 DEF Foreign
<1> QED BY <1>12, <1>14, <1>17, <1>18 DEF IInv

\* An event with an ack id is a request, any other is not.
LEMMA ClientEventStep ==
    ASSUME PlainRequests, IInv, NEW q \in Requests["socketio"], ClientEvent(q)
    PROVE  IInv'
<1>1. PICK n : n = IF q.flag = {} THEN Len(asked["client"]) + 1 ELSE 0
  OBVIOUS
<1>2. PICK p : p = BuildEventPacket(q.name, q.body, n)
  OBVIOUS
<1>3. PICK r : r = Msg(q.flag, n, <<"/", q.name>>, q.body)
  OBVIOUS
<1>4. PICK y : y = ReadPacket(p).msg
  OBVIOUS
<1>5. ClientSend(p, r)
  BY <1>1, <1>2, <1>3 DEF ClientEvent
<1>6. kind = "socketio" /\ kind \in Kinds /\ asked["client"] \in Seq(Messages)
  BY <1>5, Setting DEF ClientSend, Typed, Ends
<1>7. /\ q.name \in Words /\ q.body \in Seq(Tokens) /\ q.flag \in SUBSET Flags
      /\ <<"/", q.name>> \in Seq(Tokens)
  BY <1>6, RequestTypes
<1>8. /\ n \in 0..Int32Max /\ n \in Int /\ (q.flag = {} => n > 0)
      /\ (n > 0 => q.flag = {} /\ n = Len(asked["client"]) + 1)
  <2>1. Len(asked["client"]) \in Nat
    BY <1>6
  <2>2. Len(asked["client"]) < MaxAsked[kind]["client"]
    BY <1>5 DEF ClientSend, Room
  <2>3. MaxAsked[kind]["client"] \in 0..Int32Max /\ Int32Max \in Nat
    BY <1>6, ExchangeAssumption, SocketIOAssumption
  <2>4. CASE q.flag = {}
    BY <1>1, <2>1, <2>2, <2>3, <2>4
  <2>5. CASE q.flag # {}
    BY <1>1, <2>3, <2>5
  <2> QED BY <2>4, <2>5
<1>9. ~Acknowledged(q.body) \/ n > 0
  BY <1>6, <1>8 DEF PlainRequests
<1>10. /\ p \in Packets /\ y \in Messages
       /\ n = 0 => ~Asks(y)
       /\ n > 0 => Asks(y) /\ y.index = n /\ y.body = q.body
  BY <1>2, <1>4, <1>7, <1>8, <1>9, EventPacket
<1>11. r \in Messages /\ r.flag = q.flag /\ r.index = n /\ r.body = q.body
  <2>1. r \in Messages
    BY <1>3, <1>7, <1>8, MsgType
  <2> QED BY <1>3, <2>1 DEF Msg
<1>12. y \in Readable /\ ~Confirms(y)
  BY <1>4, <1>10, PacketRead DEF WellRead, Readable
<1>13. n = 0 \/ n > 0
  BY <1>8
<1>14. ~Asks(y) \/ (/\ Answerable(r) /\ r.index = Len(asked["client"]) + 1
                    /\ y.index = r.index /\ y.body = r.body)
  BY <1>8, <1>10, <1>11, <1>13 DEF Answerable
<1> QED BY <1>4, <1>5, <1>10, <1>11, <1>12, <1>14, ClientSendStep

\* The other packets ask for nothing.
LEMMA ClientPlainStep ==
    ASSUME IInv, NEW name \in Tokens, NEW body \in Seq(Tokens),
           NEW p \in {BuildBinaryEventPacket(1, name, body, 0), BuildAckPacket(1, body),
                      BuildConnectPacket(Namespace), BuildDisconnectPacket(Namespace),
                      Packet("4", <<>>)},
           ClientSend(p, Silent)
    PROVE  IInv'
<1>1. p \in Packets /\ ReadPacket(p).msg = Unfilled
  BY PlainPackets
<1>2. Silent \in Messages
  <2>1. {"noreply"} \in SUBSET Flags /\ 0 \in Int /\ <<>> \in Seq(Tokens)
    BY EmptySeq DEF Flags
  <2> QED BY <2>1, MsgType DEF Silent
<1>3. Unfilled \in Readable /\ ~Confirms(Unfilled) /\ ~Asks(Unfilled)
  BY DEF Readable, Confirms, Asks, Unfilled
<1> QED BY <1>1, <1>2, <1>3, ClientSendStep

-----------------------------------------------------------------------------
(* The theorems.                                                           *)

LEMMA NextStep == ASSUME PlainRequests, IInv, Next PROVE IInv'
<1>1. ASSUME NEW e \in Ends, Read(e) PROVE IInv'
  BY <1>1, ReadStep
<1>2. ASSUME NEW e \in Ends, ReadError(e) PROVE IInv'
  BY <1>2, DisconnectStep DEF ReadError
<1>3. ASSUME NEW e \in Ends, ReadEof(e) PROVE IInv'
  BY <1>3, DisconnectStep DEF ReadEof
<1>4. ASSUME NEW e \in Ends, ReplySend(e) PROVE IInv'
  BY <1>4, ReplySendStep
<1>5. ASSUME NEW e \in Ends, ReplyStopped(e) PROVE IInv'
  BY <1>5, ReplyStoppedStep
<1>6. ASSUME NEW e \in Ends, Write(e) PROVE IInv'
  BY <1>6, WriteStep
<1>7. ASSUME NEW e \in Ends, Timeout(e) PROVE IInv'
  BY <1>7, DisconnectStep DEF Timeout
<1>8. ASSUME NEW e \in Ends, NEW q \in Requests[kind], Send(e, q) PROVE IInv'
  BY <1>8, SendStep
<1>9. ASSUME NEW q \in Requests["socketio"], ClientEvent(q) PROVE IInv'
  BY <1>9, ClientEventStep
<1>10. ASSUME NEW q \in Requests["socketio"], ClientBinaryEvent(q) \/ ClientAck(q) PROVE IInv'
  <2>1. kind = "socketio" /\ kind \in Kinds
    BY <1>10, Setting DEF ClientBinaryEvent, ClientAck, ClientSend, Typed
  <2>2. q.name \in Tokens /\ q.body \in Seq(Tokens)
    BY <2>1, RequestTypes DEF Tokens
  <2> QED BY <1>10, <2>2, ClientPlainStep DEF ClientBinaryEvent, ClientAck
<1>11. ASSUME ClientConnect \/ ClientDisconnect \/ ClientOther PROVE IInv'
  <2>1. "/" \in Tokens /\ <<>> \in Seq(Tokens)
    BY EmptySeq DEF Tokens, Marks
  <2> QED BY <1>11, <2>1, ClientPlainStep DEF ClientConnect, ClientDisconnect, ClientOther
<1>12. ASSUME ClientRead \/ ClientLeave PROVE IInv'
  BY <1>12, ClientReadStep, ClientLeaveStep
<1> QED BY <1>1, <1>2, <1>3, <1>4, <1>5, <1>6, <1>7, <1>8, <1>9, <1>10, <1>11, <1>12
        DEF Next, Client

LEMMA InitHolds == Init => IInv
<1> SUFFICES ASSUME Init PROVE IInv
  OBVIOUS
<1>1. /\ kind \in Kinds /\ up = Ends
      /\ wire = [e \in Ends |-> <<>>] /\ cwrite = [e \in Ends |-> <<>>]
      /\ reader = [e \in Ends |-> <<>>] /\ asked = [e \in Ends |-> <<>>]
      /\ answers = [e \in Ends |-> <<>>]
  BY DEF Init
<1>2. \A S : <<>> \in Seq(S) /\ Len(<<>>) = 0 /\ ToSet(<<>>) = {}
  BY EmptySeq, ElementsOfOne
<1>3. TypeOK
  <2>1. Typed
    BY <1>1, <1>2 DEF Typed
  <2>2. ASSUME NEW e \in Ends PROVE Sized(e)
    <3>1. MaxAsked[kind][e] \in 0..Int32Max /\ Int32Max \in Nat
      BY <1>1, ExchangeAssumption, SocketIOAssumption DEF Ends
    <3>2. 0 <= MaxAsked[kind][e]
      BY <3>1
    <3> QED BY <1>1, <1>2, <3>2, Capacities DEF Sized
  <2> QED BY <2>1, <2>2, TypeParts
<1>4. ASSUME NEW e \in Ends PROVE Seen(kind, e, <<>>) = <<>>
  BY SeenOne
<1>5. Linked
  BY <1>1, <1>2, <1>4, OtherEnd DEF Linked
<1>6. InLine
  <2>1. ASSUME NEW e \in Ends PROVE Line(e) = <<>>
    <3>1. Confirming(<<>>) = <<>> /\ Asking(<<>>) = <<>>
      BY NumbersOne
    <3>2. <<>> \o <<>> = <<>>
      <4>1. <<>> \in Seq(Int)
        BY EmptySeq
      <4> QED BY <4>1, ConcatEmptySeq
    <3>3. Other(e) \in Ends
      BY OtherEnd
    <3> QED BY <1>1, <1>4, <3>1, <3>2, <3>3 DEF Line
  <2> QED BY <1>1, <1>2, <2>1 DEF InLine, Rising
<1>7. Foreign
  BY <1>1 DEF Foreign, Ends
<1> QED BY <1>3, <1>5, <1>6, <1>7 DEF IInv

\* Over either transport, for every size of the queues and the wire: no queue exceeds its
\* capacity, every confirmation and request on its way belongs to a request that was
\* sent, and the requests of an end stay in line from its queue to their confirmations.
THEOREM Invariant == PlainRequests => (Spec => []IInv)
<1> SUFFICES ASSUME PlainRequests PROVE Spec => []IInv
  OBVIOUS
<1>1. Init => IInv
  BY InitHolds
<1>2. IInv /\ [Next]_vars => IInv'
  <2>1. IInv /\ Next => IInv'
    BY NextStep
  <2>2. IInv /\ UNCHANGED vars => IInv'
    <3> SUFFICES ASSUME IInv, UNCHANGED vars PROVE IInv'
      OBVIOUS
    <3>1. Typed
      BY Setting
    <3>2. /\ wire' \in [Ends -> Seq(Wires)] /\ Lost(wire', wire)
          /\ cwrite' \in [Ends -> Seq(Messages)] /\ Lost(cwrite', cwrite)
          /\ reader' \in [Ends -> Seq(Messages)] /\ Lost(reader', reader)
          /\ up' \subseteq Ends /\ UNCHANGED <<kind, asked, answers>>
      BY <3>1 DEF Typed, vars, Lost
    <3> QED BY <3>2, LossStep
  <2> QED BY <2>1, <2>2
<1> QED BY <1>1, <1>2, PTL DEF Spec


\* Every confirmation that arrives names a request that wanted one and carries the answer
\* to its data, over either transport and however many requests are under way.
THEOREM AnswersMatchHolds == PlainRequests => (Spec => []AnswersMatch)
<1> SUFFICES ASSUME PlainRequests PROVE Spec => []AnswersMatch
  OBVIOUS
<1>1. IInv => AnswersMatch
  <2> SUFFICES ASSUME IInv, NEW e \in Ends, NEW a \in ToSet(answers[e])
               PROVE  \E r \in ToSet(asked[e]) :
                          /\ Answerable(r)
                          /\ a.index = r.index /\ a.body = r.body
                          /\ kind = "tcp" => a.path = Confirm(r)
    BY DEF AnswersMatch
  <2>1. Confirms(a) /\ Belongs(e, a)
    BY DEF IInv, Linked
  <2>2. asked[e][a.index] \in ToSet(asked[e])
    BY <2>1 DEF Belongs, ToSet
  <2> QED BY <2>1, <2>2 DEF Belongs
<1> QED BY <1>1, Invariant, PTL

\* Confirmations arrive in the order of their requests, each once.
THEOREM AnswersInOrderHolds == PlainRequests => (Spec => []AnswersInOrder)
<1> SUFFICES ASSUME PlainRequests PROVE Spec => []AnswersInOrder
  OBVIOUS
<1>1. IInv => AnswersInOrder
  <2> SUFFICES ASSUME IInv, NEW e \in Ends, NEW j \in 1..Len(answers[e]),
                      NEW k \in 1..Len(answers[e]), j < k
               PROVE  answers[e][j].index < answers[e][k].index
    BY DEF AnswersInOrder
  <2>1. AllStaged /\ TypeOK /\ Linked /\ InLine /\ Typed
    BY Setting
  <2>2. answers[e] \in Seq(Readable) /\ Numbered(e) /\ Len(asked[e]) \in Nat
    BY <2>1 DEF AllStaged, Staged
  <2>3. Rising(Came(e))
    <3>1. Rising(Line(e))
      BY <2>1 DEF InLine
    <3>2. Line(e) = Stages(Came(e), ComingBack(e), QueuedBack(e), HeldBack(e),
                           GoingOut(e), QueuedOut(e))
      BY LineStages
    <3> QED BY <2>2, <3>1, <3>2, StagesRising DEF Numbered
  <2>4. ASSUME NEW i \in 1..Len(answers[e])
        PROVE  /\ Came(e)[i] = answers[e][i].index /\ answers[e][i].index > 0
               /\ answers[e][i].index \in Int
    <3>1. Confirms(answers[e][i]) /\ Belongs(e, answers[e][i])
      <4>1. answers[e][i] \in ToSet(answers[e])
        BY DEF ToSet
      <4> QED BY <2>1, <4>1 DEF Linked
    <3>2. answers[e][i].index \in 1..Len(asked[e])
      BY <3>1 DEF Belongs
    <3> QED BY <2>2, <3>1, <3>2, ConfirmingType DEF Came
  <2>5. Len(Came(e)) = Len(answers[e])
    BY <2>2, ConfirmingType DEF Came
  <2>6. Came(e)[j] < Came(e)[k]
    BY <2>3, <2>4, <2>5 DEF Rising
  <2> QED BY <2>4, <2>6
<1> QED BY <1>1, Invariant, PTL
=============================================================================
