--------------------------- MODULE SocketsProofs ---------------------------
(***************************************************************************)
(* Proofs about module Sockets, for every number of listeners, connecting  *)
(* goroutines and connections and every ConnectMaxSize.  The invariants    *)
(* count goroutines and sockets, so the proofs follow how each step moves  *)
(* one goroutine, or one socket, from one finite set to another.           *)
(***************************************************************************)
EXTENDS Sockets, FiniteSetTheorems, TLAPS

\* Finitely many goroutines run Create, so they can be counted.
LEMMA Finite ==
    /\ IsFiniteSet(Creators)
    /\ Cardinality(Creators) \in Nat
BY SocketsAssumption, FS_Union, FS_CardinalityType DEF Creators

\* So can those at given steps.
LEMMA FiniteWhere ==
    ASSUME NEW L
    PROVE  /\ IsFiniteSet(Where(L))
           /\ Cardinality(Where(L)) \in Nat
           /\ Cardinality(Where(L)) <= Cardinality(Creators)
<1>1. Where(L) \subseteq Creators
  BY DEF Where
<1> QED
  BY <1>1, Finite, FS_Subset, FS_CardinalityType

\* One goroutine moves from one step to another.
LEMMA Moved ==
    ASSUME NEW L, NEW g \in Creators, NEW l, pc \in [Creators -> Steps], Goto(g, l)
    PROVE  /\ Cardinality(Where(L)) \in Nat /\ Cardinality(Where(L)') \in Nat
           /\ Cardinality(Where(L)') <= Cardinality(Creators)
           /\ (pc[g] \in L <=> l \in L) => Where(L)' = Where(L)
           /\ pc[g] \in L /\ l \notin L => Cardinality(Where(L)') = Cardinality(Where(L)) - 1
           /\ pc[g] \notin L /\ l \in L => Cardinality(Where(L)') = Cardinality(Where(L)) + 1
<1>1. \A h \in Creators : pc'[h] = IF h = g THEN l ELSE pc[h]
  BY DEF Goto
<1>2. (pc[g] \in L <=> l \in L) => Where(L)' = Where(L)
  BY <1>1 DEF Where
<1>3. ASSUME pc[g] \in L, l \notin L
      PROVE  Cardinality(Where(L)') = Cardinality(Where(L)) - 1
  <2>1. Where(L)' = Where(L) \ {g} /\ g \in Where(L)
    BY <1>1, <1>3 DEF Where
  <2> QED
    BY <2>1, FiniteWhere, FS_RemoveElement
<1>4. ASSUME pc[g] \notin L, l \in L
      PROVE  Cardinality(Where(L)') = Cardinality(Where(L)) + 1
  <2>1. Where(L)' = Where(L) \cup {g} /\ g \notin Where(L)
    BY <1>1, <1>4 DEF Where
  <2> QED
    BY <2>1, FiniteWhere, FS_AddElement
<1>5. Where(L)' \subseteq Creators
  BY DEF Where
<1>6. /\ Cardinality(Where(L)) \in Nat /\ Cardinality(Where(L)') \in Nat
      /\ Cardinality(Where(L)') <= Cardinality(Creators)
  BY <1>5, Finite, FiniteWhere, FS_Subset, FS_CardinalityType
<1> QED
  BY <1>2, <1>3, <1>4, <1>6

\* How the three sets of goroutines that the invariants count change with one move.
LEMMA MovedSets ==
    ASSUME NEW g \in Creators, NEW l, pc \in [Creators -> Steps], Goto(g, l)
    PROVE
    /\ Cardinality(Storing) \in Nat /\ Cardinality(Storing') \in Nat
    /\ Cardinality(Storing') <= Cardinality(Creators)
    /\ (pc[g] \in {"count"} <=> l \in {"count"}) => Storing' = Storing
    /\ pc[g] \in {"count"} /\ l \notin {"count"} => Cardinality(Storing') = Cardinality(Storing) - 1
    /\ pc[g] \notin {"count"} /\ l \in {"count"} => Cardinality(Storing') = Cardinality(Storing) + 1
    /\ Cardinality(Passed) \in Nat /\ Cardinality(Passed') \in Nat
    /\ Cardinality(Passed') <= Cardinality(Creators)
    /\ (pc[g] \in {"store", "count"} <=> l \in {"store", "count"}) => Passed' = Passed
    /\ pc[g] \in {"store", "count"} /\ l \notin {"store", "count"} => Cardinality(Passed') = Cardinality(Passed) - 1
    /\ pc[g] \notin {"store", "count"} /\ l \in {"store", "count"} => Cardinality(Passed') = Cardinality(Passed) + 1
    /\ Cardinality(Unstored) \in Nat /\ Cardinality(Unstored') \in Nat
    /\ Cardinality(Unstored') <= Cardinality(Creators)
    /\ (pc[g] \in {"create", "limit", "store"} <=> l \in {"create", "limit", "store"}) => Unstored' = Unstored
    /\ pc[g] \in {"create", "limit", "store"} /\ l \notin {"create", "limit", "store"} => Cardinality(Unstored') = Cardinality(Unstored) - 1
    /\ pc[g] \notin {"create", "limit", "store"} /\ l \in {"create", "limit", "store"} => Cardinality(Unstored') = Cardinality(Unstored) + 1
<1>1. /\ Cardinality(Storing) \in Nat /\ Cardinality(Storing') \in Nat
      /\ Cardinality(Storing') <= Cardinality(Creators)
      /\ (pc[g] \in {"count"} <=> l \in {"count"}) => Storing' = Storing
      /\ pc[g] \in {"count"} /\ l \notin {"count"} => Cardinality(Storing') = Cardinality(Storing) - 1
      /\ pc[g] \notin {"count"} /\ l \in {"count"} => Cardinality(Storing') = Cardinality(Storing) + 1
  <2> DEFINE L == {"count"}
  <2>1. Where(L) = Storing /\ Where(L)' = Storing'
    BY DEF Storing
  <2> HIDE DEF L
  <2>2. /\ Cardinality(Where(L)) \in Nat /\ Cardinality(Where(L)') \in Nat
        /\ Cardinality(Where(L)') <= Cardinality(Creators)
        /\ (pc[g] \in L <=> l \in L) => Where(L)' = Where(L)
        /\ pc[g] \in L /\ l \notin L => Cardinality(Where(L)') = Cardinality(Where(L)) - 1
        /\ pc[g] \notin L /\ l \in L => Cardinality(Where(L)') = Cardinality(Where(L)) + 1
    BY Moved
  <2> QED
    BY <2>1, <2>2 DEF L
<1>2. /\ Cardinality(Passed) \in Nat /\ Cardinality(Passed') \in Nat
      /\ Cardinality(Passed') <= Cardinality(Creators)
      /\ (pc[g] \in {"store", "count"} <=> l \in {"store", "count"}) => Passed' = Passed
      /\ pc[g] \in {"store", "count"} /\ l \notin {"store", "count"} => Cardinality(Passed') = Cardinality(Passed) - 1
      /\ pc[g] \notin {"store", "count"} /\ l \in {"store", "count"} => Cardinality(Passed') = Cardinality(Passed) + 1
  <2> DEFINE L == {"store", "count"}
  <2>1. Where(L) = Passed /\ Where(L)' = Passed'
    BY DEF Passed
  <2> HIDE DEF L
  <2>2. /\ Cardinality(Where(L)) \in Nat /\ Cardinality(Where(L)') \in Nat
        /\ Cardinality(Where(L)') <= Cardinality(Creators)
        /\ (pc[g] \in L <=> l \in L) => Where(L)' = Where(L)
        /\ pc[g] \in L /\ l \notin L => Cardinality(Where(L)') = Cardinality(Where(L)) - 1
        /\ pc[g] \notin L /\ l \in L => Cardinality(Where(L)') = Cardinality(Where(L)) + 1
    BY Moved
  <2> QED
    BY <2>1, <2>2 DEF L
<1>3. /\ Cardinality(Unstored) \in Nat /\ Cardinality(Unstored') \in Nat
      /\ Cardinality(Unstored') <= Cardinality(Creators)
      /\ (pc[g] \in {"create", "limit", "store"} <=> l \in {"create", "limit", "store"}) => Unstored' = Unstored
      /\ pc[g] \in {"create", "limit", "store"} /\ l \notin {"create", "limit", "store"} => Cardinality(Unstored') = Cardinality(Unstored) - 1
      /\ pc[g] \notin {"create", "limit", "store"} /\ l \in {"create", "limit", "store"} => Cardinality(Unstored') = Cardinality(Unstored) + 1
  <2> DEFINE L == {"create", "limit", "store"}
  <2>1. Where(L) = Unstored /\ Where(L)' = Unstored'
    BY DEF Unstored
  <2> HIDE DEF L
  <2>2. /\ Cardinality(Where(L)) \in Nat /\ Cardinality(Where(L)') \in Nat
        /\ Cardinality(Where(L)') <= Cardinality(Creators)
        /\ (pc[g] \in L <=> l \in L) => Where(L)' = Where(L)
        /\ pc[g] \in L /\ l \notin L => Cardinality(Where(L)') = Cardinality(Where(L)) - 1
        /\ pc[g] \notin L /\ l \in L => Cardinality(Where(L)') = Cardinality(Where(L)) + 1
    BY Moved
  <2> QED
    BY <2>1, <2>2 DEF L
<1> QED
  BY <1>1, <1>2, <1>3

\* The sets of sockets that the invariants count are finite.
LEMMA FiniteIds ==
    ASSUME TypeOK
    PROVE  /\ IsFiniteSet(Ids) /\ IsFiniteSet(sockets) /\ IsFiniteSet(Leaving)
           /\ Cardinality(sockets) \in Nat /\ Cardinality(Leaving) \in Nat
<1>1. IsFiniteSet(Ids)
  BY SocketsAssumption, FS_Interval DEF Ids
<1>2. sockets \subseteq Ids /\ Leaving \subseteq Ids
  BY DEF TypeOK, Leaving
<1> QED
  BY <1>1, <1>2, FS_Subset, FS_CardinalityType

-----------------------------------------------------------------------------
\* A step outside Create that moves one goroutine changes no count.
LEMMA Quiet ==
    ASSUME IInv, TypeOK', NEW g \in Creators, NEW l, Goto(g, l),
           UNCHANGED <<index, count, sockets, life, id>>,
           pc[g] \notin {"store", "count", "connect"}, l \notin {"store", "count", "connect"},
           l \in {"create", "limit"} => pc[g] \in {"create", "limit"}
    PROVE  IInv'
<1>1. pc \in [Creators -> Steps]
  BY DEF IInv, TypeOK
<1>2. Storing' = Storing /\ Passed' = Passed
  BY <1>1, MovedSets
<1>3. Leaving' = Leaving
  BY DEF Leaving
<1>4. /\ Cardinality(Unstored) \in Nat /\ Cardinality(Unstored)' \in Nat
      /\ Cardinality(Unstored)' <= Cardinality(Unstored)
  BY <1>1, MovedSets
<1>5. CountBalance' /\ OvershootPassed'
  BY <1>2, <1>3 DEF IInv, CountBalance, OvershootPassed
<1>6. Bounded'
  BY <1>4, SocketsAssumption DEF IInv, TypeOK, Bounded
<1>7. IdsDistinct'
  <2>1. \A h \in Creators : pc'[h] \in {"count", "connect"} <=> pc[h] \in {"count", "connect"}
    BY <1>1 DEF Goto
  <2> QED
    BY <2>1 DEF IInv, IdsDistinct
<1> QED
  BY <1>5, <1>6, <1>7 DEF IInv

\* A connection comes in: one more goroutine will take an index.
LEMMA Incoming ==
    ASSUME IInv, TypeOK', NEW g \in Creators, Goto(g, "create"), MoreConns,
           UNCHANGED <<index, count, sockets, life, id>>,
           pc[g] \in {"accept", "idle"}
    PROVE  IInv'
<1>1. pc \in [Creators -> Steps]
  BY DEF IInv, TypeOK
<1>2. Storing' = Storing /\ Passed' = Passed
  BY <1>1, MovedSets
<1>3. Leaving' = Leaving
  BY DEF Leaving
<1>4. /\ Cardinality(Unstored) \in Nat
      /\ Cardinality(Unstored)' = Cardinality(Unstored) + 1
  BY <1>1, MovedSets
<1>5. CountBalance' /\ OvershootPassed'
  BY <1>2, <1>3 DEF IInv, CountBalance, OvershootPassed
<1>6. Bounded'
  <2>1. index + Cardinality(Unstored) < MaxIndex /\ index \in Nat
    BY <1>4, SocketsAssumption DEF IInv, TypeOK, MoreConns, Limit
  <2> QED
    BY <1>4, <2>1, SocketsAssumption DEF Bounded
<1>7. IdsDistinct'
  <2>1. \A h \in Creators : pc'[h] \in {"count", "connect"} <=> pc[h] \in {"count", "connect"}
    BY <1>1 DEF Goto
  <2> QED
    BY <2>1 DEF IInv, IdsDistinct
<1> QED
  BY <1>5, <1>6, <1>7 DEF IInv

\* A goroutine passes the limit: it read a count below ConnectMaxSize.
LEMMA Pass ==
    ASSUME IInv, TypeOK', NEW g \in Creators, Goto(g, "store"),
           UNCHANGED <<index, count, sockets, life, id>>,
           pc[g] \in {"create", "limit"}, ConnectMaxSize > 0 => count < ConnectMaxSize
    PROVE  IInv'
<1>1. pc \in [Creators -> Steps]
  BY DEF IInv, TypeOK
<1>2. Storing' = Storing /\ Unstored' = Unstored
  BY <1>1, MovedSets
<1>3. Leaving' = Leaving
  BY DEF Leaving
<1>4. Cardinality(Passed)' \in Nat /\ Cardinality(Passed)' <= Cardinality(Creators)
  BY <1>1, MovedSets
<1>5. CountBalance' /\ Bounded'
  BY <1>2, <1>3 DEF IInv, CountBalance, Bounded
<1>6. OvershootPassed'
  BY <1>4, Finite, SocketsAssumption DEF IInv, TypeOK, OvershootPassed
<1>7. IdsDistinct'
  <2>1. \A h \in Creators : pc'[h] \in {"count", "connect"} <=> pc[h] \in {"count", "connect"}
    BY <1>1 DEF Goto
  <2> QED
    BY <2>1 DEF IInv, IdsDistinct
<1> QED
  BY <1>5, <1>6, <1>7 DEF IInv

\* Create stores the socket under a new index.
LEMMA Stored ==
    ASSUME IInv, NEW g \in Creators, CreateStore(g)
    PROVE  IInv'
<1>1. pc \in [Creators -> Steps] /\ pc[g] = "store" /\ Goto(g, "count")
  BY DEF IInv, TypeOK, CreateStore, At
<1>2. /\ Cardinality(Unstored) \in Nat
      /\ Cardinality(Unstored)' \in Nat
      /\ Cardinality(Unstored)' = Cardinality(Unstored) - 1
      /\ Passed' = Passed
      /\ Cardinality(Storing) \in Nat
      /\ Cardinality(Storing)' = Cardinality(Storing) + 1
  BY <1>1, MovedSets
<1>3. index + 1 \in Ids /\ index + 1 \notin sockets
  BY <1>2, SocketsAssumption DEF IInv, TypeOK, Bounded, IdsDistinct, Ids
<1>4. TypeOK'
  BY <1>1, <1>3, SocketsAssumption DEF IInv, TypeOK, CreateStore, Goto, listenerVars, Ids, Steps
<1>5. Cardinality(sockets') = Cardinality(sockets) + 1 /\ Cardinality(sockets) \in Nat
  BY <1>3, FiniteIds, FS_AddElement DEF IInv, CreateStore
<1>6. Leaving' = Leaving /\ Cardinality(Leaving) \in Nat
  BY FiniteIds DEF IInv, Leaving, CreateStore
<1>7. CountBalance'
  <2>1. count' = count /\ count \in Int
    BY DEF IInv, TypeOK, CreateStore
  <2>2. CountBalance
    BY DEF IInv
  <2> QED
    BY <1>2, <1>5, <1>6, <2>1, <2>2 DEF CountBalance
<1>8. Bounded' /\ OvershootPassed'
  BY <1>2, SocketsAssumption DEF IInv, TypeOK, Bounded, OvershootPassed, CreateStore
<1>9. IdsDistinct'
  <2>1. \A h \in Creators : h # g => pc'[h] = pc[h] /\ id'[h] = id[h]
    BY <1>1 DEF IInv, TypeOK, CreateStore, Goto
  <2>2. pc'[g] = "count" /\ id'[g] = index + 1
    BY <1>1 DEF IInv, TypeOK, CreateStore, Goto
  <2>3. life[index + 1] = "new"
    BY <1>3 DEF IInv, TypeOK, IdsDistinct, Ids
  <2>4. sockets' = sockets \cup {index + 1} /\ index' = index + 1 /\ life' = life
    BY DEF CreateStore
  <2>5. \A h \in Creators : pc[h] \in {"count", "connect"} => id[h] # index + 1
    BY <1>3 DEF IInv, IdsDistinct
  <2>6. \A h \in Creators : pc'[h] \in {"count", "connect"}
                              => id'[h] \in sockets' /\ life'[id'[h]] = "new"
    BY <2>1, <2>2, <2>3, <2>4 DEF IInv, IdsDistinct
  <2>7. \A h, k \in Creators : /\ pc'[h] \in {"count", "connect"}
                               /\ pc'[k] \in {"count", "connect"}
                               /\ id'[h] = id'[k]
                               => h = k
    BY <2>1, <2>2, <2>5 DEF IInv, IdsDistinct
  <2>8. sockets' \subseteq 1..index'
    BY <2>4, SocketsAssumption DEF IInv, TypeOK, IdsDistinct
  <2>9. \A i \in Ids : /\ life'[i] \in {"live", "leaving"} => i \in sockets'
                       /\ i > index' => life'[i] = "new"
    <3>1. \A i \in Ids : i > index + 1 => i > index
      BY SocketsAssumption DEF IInv, TypeOK, Ids
    <3> QED
      BY <3>1, <2>4 DEF IInv, IdsDistinct
  <2> QED
    BY <2>6, <2>7, <2>8, <2>9 DEF IdsDistinct
<1> QED
  BY <1>4, <1>7, <1>8, <1>9 DEF IInv

\* Create counts the socket it has stored.
LEMMA Counted ==
    ASSUME IInv, NEW g \in Creators, CreateCount(g)
    PROVE  IInv'
<1>1. pc \in [Creators -> Steps] /\ pc[g] = "count" /\ Goto(g, "connect")
  BY DEF IInv, TypeOK, CreateCount, At
<1>2. /\ Unstored' = Unstored
      /\ Cardinality(Passed) \in Nat
      /\ Cardinality(Passed)' = Cardinality(Passed) - 1
      /\ Cardinality(Storing) \in Nat
      /\ Cardinality(Storing)' = Cardinality(Storing) - 1
  BY <1>1, MovedSets
<1>3. TypeOK'
  BY <1>1 DEF IInv, TypeOK, CreateCount, Goto, listenerVars, Steps
<1>4. /\ Leaving' = Leaving /\ Cardinality(Leaving) \in Nat
      /\ sockets' = sockets /\ Cardinality(sockets) \in Nat
  BY FiniteIds DEF IInv, Leaving, CreateCount
<1>5. CountBalance' /\ OvershootPassed' /\ Bounded'
  <2>1. count' = count + 1 /\ count \in Int /\ index' = index
    BY DEF IInv, TypeOK, CreateCount
  <2>2. CountBalance'
    BY <1>2, <1>4, <2>1 DEF IInv, CountBalance
  <2>3. OvershootPassed'
    BY <1>2, <2>1, Finite, SocketsAssumption DEF IInv, OvershootPassed
  <2> QED
    BY <1>2, <2>1, <2>2, <2>3 DEF IInv, Bounded
<1>6. IdsDistinct'
  <2>1. \A h \in Creators : pc'[h] \in {"count", "connect"} <=> pc[h] \in {"count", "connect"}
    BY <1>1 DEF Goto
  <2> QED
    BY <2>1 DEF IInv, IdsDistinct, CreateCount
<1> QED
  BY <1>3, <1>5, <1>6 DEF IInv

\* connect() makes the socket live.
LEMMA Connected ==
    ASSUME IInv, NEW g \in Creators, CreateConnect(g)
    PROVE  IInv'
<1>1. PICK l \in {"loop", "idle", "close"} : Goto(g, l)
  BY DEF CreateConnect, Return, Panic
<1>2. pc \in [Creators -> Steps] /\ pc[g] = "connect"
  BY DEF IInv, TypeOK, CreateConnect, At
<1>3. Unstored' = Unstored /\ Passed' = Passed /\ Storing' = Storing
  BY <1>1, <1>2, MovedSets
<1>4. id[g] \in sockets /\ id[g] \in Ids /\ life[id[g]] = "new"
  BY <1>2 DEF IInv, TypeOK, IdsDistinct
<1>5. TypeOK'
  BY <1>1, <1>2, <1>4, SocketsAssumption
     DEF IInv, TypeOK, CreateConnect, Goto, listenerVars, Steps
<1>6. \A i \in Ids : life'[i] = IF i = id[g] THEN "live" ELSE life[i]
  BY <1>4 DEF IInv, TypeOK, CreateConnect
<1>7. Leaving' = Leaving
  BY <1>4, <1>6 DEF Leaving
<1>8. CountBalance' /\ OvershootPassed' /\ Bounded'
  BY <1>3, <1>7 DEF IInv, CountBalance, OvershootPassed, Bounded, CreateConnect
<1>9. IdsDistinct'
  <2>1. \A h \in Creators : pc'[h] \in {"count", "connect"} =>
            h # g /\ pc[h] \in {"count", "connect"} /\ id'[h] = id[h]
    BY <1>1, <1>2 DEF IInv, TypeOK, Goto, CreateConnect
  <2>2. \A h \in Creators : pc'[h] \in {"count", "connect"} => id[h] # id[g]
    BY <1>2, <2>1 DEF IInv, IdsDistinct
  <2>3. sockets' = sockets /\ index' = index
    BY DEF CreateConnect
  <2>4. id[g] <= index
    BY <1>4 DEF IInv, IdsDistinct, TypeOK
  <2>5. \A h \in Creators : pc'[h] \in {"count", "connect"} =>
            id'[h] \in sockets' /\ life'[id'[h]] = "new"
    BY <1>6, <2>1, <2>2, <2>3 DEF IInv, TypeOK, IdsDistinct
  <2>6. \A i \in Ids : /\ life'[i] \in {"live", "leaving"} => i \in sockets'
                       /\ i > index' => life'[i] = "new"
    BY <1>4, <1>6, <2>3, <2>4 DEF IInv, IdsDistinct, Ids, TypeOK
  <2> QED
    BY <2>1, <2>3, <2>5, <2>6 DEF IInv, IdsDistinct
<1> QED
  BY <1>5, <1>8, <1>9 DEF IInv

\* release(): the counter goes down, then the map shrinks.
LEMMA Released ==
    ASSUME IInv, NEW i \in Ids, ReleaseCount(i) \/ ReleaseDelete(i)
    PROVE  IInv'
<1>1. pc' = pc /\ id' = id /\ index' = index
  BY DEF ReleaseCount, ReleaseDelete
<1>2. Unstored' = Unstored /\ Passed' = Passed /\ Storing' = Storing
  BY <1>1 DEF Unstored, Passed, Storing, Where
<1>3. TypeOK'
  <2>1. CASE ReleaseCount(i)
    BY <2>1 DEF IInv, TypeOK, ReleaseCount, listenerVars
  <2>2. CASE ReleaseDelete(i)
    BY <2>2 DEF IInv, TypeOK, ReleaseDelete, listenerVars
  <2> QED
    BY <2>1, <2>2
<1>4. /\ IsFiniteSet(sockets) /\ Cardinality(sockets) \in Nat
      /\ IsFiniteSet(Leaving) /\ Cardinality(Leaving) \in Nat
      /\ Cardinality(Storing) \in Nat
      /\ Cardinality(Passed) \in Nat
  BY FiniteIds, FiniteWhere DEF IInv, Storing, Passed
<1>5. CASE ReleaseCount(i)
  <2>1. \A j \in Ids : life'[j] = IF j = i THEN "leaving" ELSE life[j]
    BY <1>5 DEF IInv, TypeOK, ReleaseCount
  <2>2. Leaving' = Leaving \cup {i} /\ i \notin Leaving
    BY <1>5, <2>1 DEF Leaving, ReleaseCount
  <2>3. Cardinality(Leaving') = Cardinality(Leaving) + 1
    BY <1>4, <2>2, FS_AddElement
  <2>4. CountBalance' /\ OvershootPassed' /\ Bounded'
    <3>1. count' = count - 1 /\ count \in Int /\ sockets' = sockets
      BY <1>5 DEF IInv, TypeOK, ReleaseCount
    <3>2. CountBalance'
      BY <1>2, <1>4, <2>3, <3>1 DEF IInv, CountBalance
    <3>3. OvershootPassed'
      BY <1>2, <1>4, <3>1, Finite, SocketsAssumption DEF IInv, OvershootPassed
    <3> QED
      BY <1>1, <1>2, <3>2, <3>3 DEF IInv, Bounded
  <2>5. IdsDistinct'
    <3>1. life[i] = "live" /\ sockets' = sockets
      BY <1>5 DEF ReleaseCount
    <3> QED
      BY <1>1, <2>1, <3>1 DEF IInv, TypeOK, IdsDistinct
  <2> QED
    BY <1>3, <2>4, <2>5 DEF IInv
<1>6. CASE ReleaseDelete(i)
  <2>1. \A j \in Ids : life'[j] = IF j = i THEN "gone" ELSE life[j]
    BY <1>6 DEF IInv, TypeOK, ReleaseDelete
  <2>2. Leaving' = Leaving \ {i} /\ i \in Leaving
    BY <1>6, <2>1 DEF Leaving, ReleaseDelete
  <2>3. life[i] = "leaving" /\ sockets' = sockets \ {i} /\ i \in sockets /\ count' = count
    BY <1>6 DEF IInv, IdsDistinct, ReleaseDelete
  <2>4. /\ Cardinality(Leaving') = Cardinality(Leaving) - 1
        /\ Cardinality(sockets') = Cardinality(sockets) - 1
    BY <1>4, <2>2, <2>3, FS_RemoveElement
  <2>5. CountBalance' /\ OvershootPassed' /\ Bounded'
    BY <1>1, <1>2, <1>4, <2>3, <2>4 DEF IInv, TypeOK, CountBalance, OvershootPassed, Bounded
  <2>6. IdsDistinct'
    BY <1>1, <2>1, <2>3 DEF IInv, TypeOK, IdsDistinct
  <2> QED
    BY <1>3, <2>5, <2>6 DEF IInv
<1> QED
  BY <1>5, <1>6

-----------------------------------------------------------------------------
\* The initial state has no sockets and no goroutine in Create.
LEMMA InitIInv == Init => IInv
<1> SUFFICES ASSUME Init PROVE IInv
  OBVIOUS
<1>1. TypeOK
  <2>1. pc \in [Creators -> Steps]
    <3>1. pc = [g \in Creators |-> IF g \in Listeners THEN "load" ELSE "idle"]
      BY DEF Init
    <3>2. "load" \in Steps /\ "idle" \in Steps
      BY DEF Steps
    <3> QED
      BY <3>1, <3>2
  <2>2. <<>> \in Seq(Listeners)
    OBVIOUS
  <2>3. life \in [Ids -> {"new", "live", "leaving", "gone"}] /\ id \in [Creators -> 0..MaxIndex]
    BY SocketsAssumption DEF Init
  <2>4. slice \in [Listeners -> Seq(Listeners)]
    BY <2>2 DEF Init
  <2>5. /\ index \in 0..MaxIndex /\ count \in Int /\ open \in Int
        /\ sockets \subseteq Ids /\ listening \subseteq Listeners
        /\ started \in {"no", "yes", "stopped"}
        /\ instance \in Seq(Listeners) /\ stopping \in Seq(Listeners)
    BY <2>2, SocketsAssumption DEF Init
  <2>6. stopped \in BOOLEAN /\ network \in [Listeners -> {"tcp", "udp", "ws"}]
    BY SocketsAssumption DEF Init
  <2> QED
    BY <2>1, <2>3, <2>4, <2>5, <2>6 DEF TypeOK
<1>2. \A g \in Creators : pc[g] \in {"load", "idle"}
  BY DEF Init
<1>3. Unstored = {} /\ Passed = {} /\ Storing = {} /\ Leaving = {} /\ sockets = {}
  BY <1>2 DEF Init, Unstored, Passed, Storing, Leaving, Where
<1>4. Cardinality({}) = 0
  BY FS_EmptySet
<1>5. Bounded /\ CountBalance /\ OvershootPassed
  BY <1>3, <1>4, Finite, SocketsAssumption DEF Init, Bounded, CountBalance, OvershootPassed
<1>6. IdsDistinct
  BY <1>2 DEF Init, IdsDistinct
<1> QED
  BY <1>1, <1>5, <1>6 DEF IInv

\* Every step of Create, Accept, Connect, release(), Start and stop() keeps IInv.
LEMMA NextIInv == IInv /\ [Next]_vars => IInv'
<1> SUFFICES ASSUME IInv, [Next]_vars PROVE IInv'
  OBVIOUS
<1>1. ASSUME NEW g \in Creators, CreateStep(g) PROVE IInv'
  <2>1. CASE CreateRefused(g)
    <3>1. TypeOK' /\ Return(g) \in {"loop", "idle"}
      BY <2>1 DEF IInv, TypeOK, CreateRefused, Goto, Return, Steps, listenerVars
    <3> QED
      BY <2>1, <3>1, Quiet DEF CreateRefused, At
  <2>2. CASE CreateChecked(g)
    <3>1. TypeOK'
      BY <2>2 DEF IInv, TypeOK, CreateChecked, Goto, Steps, listenerVars
    <3>2. CASE ConnectMaxSize > 0
      BY <2>2, <3>1, <3>2, Quiet DEF CreateChecked, At
    <3>3. CASE ~(ConnectMaxSize > 0)
      BY <2>2, <3>1, <3>3, Pass DEF CreateChecked, At
    <3> QED
      BY <3>2, <3>3
  <2>3. CASE CreateLimit(g)
    <3>1. TypeOK' /\ Return(g) \in {"loop", "idle"}
      <4>1. Return(g) \in {"loop", "idle"}
        BY DEF Return
      <4>2. pc' \in [Creators -> Steps] /\ open' \in Int
        <5>1. \E l \in Steps : pc' = [pc EXCEPT ![g] = l]
          BY <2>3, <4>1 DEF CreateLimit, Goto, Steps
        <5> QED
          BY <2>3, <5>1 DEF IInv, TypeOK, CreateLimit
      <4> QED
        BY <2>3, <4>1, <4>2 DEF IInv, TypeOK, CreateLimit, listenerVars
    <3>2. CASE count >= ConnectMaxSize
      BY <2>3, <3>1, <3>2, Quiet DEF CreateLimit, At
    <3>3. CASE ~(count >= ConnectMaxSize)
      <4>1. count < ConnectMaxSize
        BY <3>3, SocketsAssumption DEF IInv, TypeOK
      <4> QED
        BY <2>3, <3>1, <3>3, <4>1, Pass DEF CreateLimit, At
    <3> QED
      BY <3>2, <3>3
  <2> QED
    BY <1>1, <2>1, <2>2, <2>3, Stored, Counted, Connected DEF CreateStep
<1>2. ASSUME NEW g \in Listeners, AcceptStep(g) \/ AcceptError(g) PROVE IInv'
  <2>0. g \in Creators
    BY DEF Creators
  <2>1. TypeOK'
    <3>1. CASE AcceptLoad(g)
      BY <2>0, <3>1 DEF IInv, TypeOK, AcceptLoad, Goto, Steps
    <3>2. CASE AcceptAppend(g)
      BY <2>0, <3>2 DEF IInv, TypeOK, AcceptAppend, Goto, Steps
    <3>3. CASE AcceptLoop(g)
      BY <2>0, <3>3 DEF IInv, TypeOK, AcceptLoop, Goto, Steps, listenerVars
    <3>4. CASE AcceptClosed(g)
      BY <2>0, <3>4 DEF IInv, TypeOK, AcceptClosed, Goto, Steps, listenerVars
    <3>5. CASE AcceptEnd(g)
      BY <2>0, <3>5 DEF IInv, TypeOK, AcceptEnd, Goto, Steps
    <3>8. CASE AcceptStuck(g)
      BY <2>0, <3>8 DEF IInv, TypeOK, AcceptStuck, Goto, Steps
    <3>6. CASE AcceptError(g)
      BY <2>0, <3>6 DEF IInv, TypeOK, AcceptError, Goto, Steps, listenerVars
    <3>7. CASE AcceptUdpClosed(g)
      BY <2>0, <3>7 DEF IInv, TypeOK, AcceptUdpClosed, Goto, Steps, listenerVars
    <3> QED
      BY <1>2, <3>1, <3>2, <3>3, <3>4, <3>5, <3>6, <3>7, <3>8 DEF AcceptStep
  <2>2. PICK l \in {"append", "loop", "accept", "close", "stuck", "done"} : Goto(g, l)
    BY <1>2 DEF AcceptStep, AcceptError, AcceptLoad, AcceptAppend, AcceptLoop, AcceptClosed,
       AcceptUdpClosed, AcceptEnd, AcceptStuck
  <2>3. /\ UNCHANGED <<index, count, sockets, life, id>>
        /\ pc[g] \notin {"store", "count", "connect"}
    BY <1>2 DEF AcceptStep, AcceptError, AcceptLoad, AcceptAppend, AcceptLoop, AcceptClosed,
       AcceptUdpClosed, AcceptEnd, AcceptStuck, At
  <2> QED
    BY <2>0, <2>1, <2>2, <2>3, Quiet
<1>3. ASSUME NEW g \in Creators, \/ g \in Listeners /\ AcceptConn(g)
                                 \/ g \in Connectors /\ Connect(g)
      PROVE  IInv'
  <2>1. TypeOK'
    <3>1. /\ pc' = [pc EXCEPT ![g] = "create"]
          /\ open' = open + 1
          /\ UNCHANGED <<index, count, sockets, life, id>>
          /\ UNCHANGED <<network, started, instance, listening, stopping, stopped, slice>>
      BY <1>3 DEF AcceptConn, Connect, Goto, listenerVars
    <3> QED
      BY <3>1 DEF IInv, TypeOK, Steps
  <2> QED
    BY <1>3, <2>1, Incoming DEF AcceptConn, Connect, At
<1>4. ASSUME Start \/ Stop \/ StopClose \/ StopBreaks \/ Cancel \/ UNCHANGED vars PROVE IInv'
  <2>1. UNCHANGED <<index, count, sockets, life, pc, id>>
    BY <1>4 DEF Start, Stop, StopClose, StopBreaks, Cancel, vars, listenerVars
  <2>2. TypeOK'
    <3>1. CASE StopClose
      <4>1. stopping' \in Seq(Listeners)
        BY <3>1 DEF IInv, TypeOK, StopClose
      <4> QED
        BY <3>1, <4>1 DEF IInv, TypeOK, StopClose
    <3>2. CASE StopBreaks
      BY <3>2 DEF IInv, TypeOK, StopBreaks
    <3> QED
      BY <1>4, <3>1, <3>2 DEF IInv, TypeOK, Start, Stop, Cancel, vars, listenerVars
  <2>3. Unstored' = Unstored /\ Passed' = Passed /\ Storing' = Storing /\ Leaving' = Leaving
    BY <2>1 DEF Unstored, Passed, Storing, Leaving, Where
  <2> QED
    BY <2>1, <2>2, <2>3 DEF IInv, IdsDistinct, CountBalance, OvershootPassed, Bounded
<1> QED
  BY <1>1, <1>2, <1>3, <1>4, Released DEF Next, Creators

-----------------------------------------------------------------------------
\* The inductive invariant of Create and release() holds in every behaviour.
THEOREM Invariant == Spec => []IInv
BY InitIInv, NextIInv, PTL DEF Spec

\* Sockets.count is the size of the map of sockets but for those on their way in or
\* out, for any number of goroutines in Create and in release().
THEOREM CountIsBalanced == Spec => []CountBalance
<1>1. IInv => CountBalance
  BY DEF IInv
<1> QED
  BY <1>1, Invariant, PTL

\* The limit of Create is exceeded by less than the number of goroutines that run it.
THEOREM OvershootBound == Spec => []Overshoot
<1>1. IInv => Overshoot
  <2>1. Cardinality(Passed) \in Nat
    BY FiniteWhere DEF Passed
  <2> QED
    BY <2>1, Finite, SocketsAssumption DEF IInv, TypeOK, OvershootPassed, Overshoot
<1> QED
  BY <1>1, Invariant, PTL

-----------------------------------------------------------------------------
(* No connection is lost while the server runs.                            *)

\* The goroutines that hold a connection, when one goroutine moves.
LEMMA MovedHolding ==
    ASSUME NEW g \in Creators, NEW l, pc \in [Creators -> Steps], Goto(g, l)
    PROVE
    LET L == {"create", "limit", "store", "count", "connect"} IN
    /\ Cardinality(Holding) \in Nat /\ Cardinality(Holding') \in Nat
    /\ (pc[g] \in L <=> l \in L) => Holding' = Holding
    /\ pc[g] \in L /\ l \notin L => Cardinality(Holding') = Cardinality(Holding) - 1
    /\ pc[g] \notin L /\ l \in L => Cardinality(Holding') = Cardinality(Holding) + 1
<1> DEFINE L == {"create", "limit", "store", "count", "connect"}
<1>1. Where(L) = Holding /\ Where(L)' = Holding'
  BY DEF Holding
<1> HIDE DEF L
<1>2. /\ Cardinality(Where(L)) \in Nat /\ Cardinality(Where(L)') \in Nat
      /\ (pc[g] \in L <=> l \in L) => Where(L)' = Where(L)
      /\ pc[g] \in L /\ l \notin L => Cardinality(Where(L)') = Cardinality(Where(L)) - 1
      /\ pc[g] \notin L /\ l \in L => Cardinality(Where(L)') = Cardinality(Where(L)) + 1
  BY Moved
<1> QED
  BY <1>1, <1>2 DEF L

\* The live sockets can be counted, and one more or one less is one more or less.
LEMMA CountLive ==
    ASSUME TypeOK
    PROVE  /\ IsFiniteSet(Live) /\ Cardinality(Live) \in Nat
           /\ \A i \in Ids \ Live : Cardinality(Live \cup {i}) = Cardinality(Live) + 1
           /\ \A i \in Live : Cardinality(Live \ {i}) = Cardinality(Live) - 1
<1>1. IsFiniteSet(Ids) /\ Live \subseteq Ids
  BY SocketsAssumption, FS_Interval DEF Ids, Live
<1>2. IsFiniteSet(Live)
  BY <1>1, FS_Subset
<1> QED
  BY <1>2, FS_CardinalityType, FS_AddElement, FS_RemoveElement

\* Create hands the connection on from the goroutine to the socket, or closes it.
LEMMA CreateAccounted ==
    ASSUME IInv, ConnsAccounted, ~stopped, NEW g \in Creators, CreateStep(g)
    PROVE  ConnsAccounted'
<1>1. pc \in [Creators -> Steps] /\ open \in Int /\ TypeOK
  BY DEF IInv, TypeOK
<1>2. open = Cardinality(Holding) + Cardinality(Live)
  BY DEF ConnsAccounted
<1>3. Cardinality(Live) \in Nat /\ Return(g) \in {"loop", "idle"} /\ Panic(g) \in {"close", "idle"}
  BY <1>1, CountLive DEF Return, Panic
<1>4. CASE CreateConnect(g)
  <2>1. PICK l \in {"loop", "idle", "close"} : Goto(g, l)
    BY <1>4, <1>3 DEF CreateConnect
  <2>2. Cardinality(Holding') = Cardinality(Holding) - 1 /\ Cardinality(Holding) \in Nat
    BY <1>1, <1>4, <2>1, MovedHolding DEF CreateConnect, At
  <2>3. id[g] \in Ids /\ life[id[g]] = "new"
    BY <1>4 DEF CreateConnect, At, IInv, TypeOK, IdsDistinct
  <2>4. Live' = Live \cup {id[g]} /\ id[g] \in Ids \ Live
    <3>1. \A i \in Ids : life'[i] = IF i = id[g] THEN "live" ELSE life[i]
      BY <1>4, <2>3 DEF CreateConnect, IInv, TypeOK
    <3> QED
      BY <2>3, <3>1 DEF Live
  <2>5. Cardinality(Live') = Cardinality(Live) + 1
    BY <1>1, <2>4, CountLive
  <2> QED
    BY <1>2, <1>3, <1>4, <2>2, <2>5 DEF ConnsAccounted, CreateConnect
<1>5. CASE CreateLimit(g) /\ count >= ConnectMaxSize
  <2>1. Goto(g, Return(g)) /\ open' = open - 1 /\ life' = life /\ pc[g] = "limit"
    BY <1>5 DEF CreateLimit, At
  <2>2. Cardinality(Holding') = Cardinality(Holding) - 1 /\ Cardinality(Holding) \in Nat
    BY <1>1, <1>3, <2>1, MovedHolding
  <2>3. Live' = Live
    BY <2>1 DEF Live
  <2> QED
    BY <1>1, <1>2, <1>3, <2>1, <2>2, <2>3 DEF ConnsAccounted
<1>6. CASE \/ CreateChecked(g) \/ CreateStore(g) \/ CreateCount(g)
           \/ CreateLimit(g) /\ ~(count >= ConnectMaxSize)
  <2>1. PICK l \in {"limit", "store", "count", "connect"} : Goto(g, l)
    BY <1>6 DEF CreateChecked, CreateStore, CreateCount, CreateLimit
  <2>2. /\ pc[g] \in {"create", "limit", "store", "count"}
        /\ open' = open /\ life' = life
    BY <1>6 DEF CreateChecked, CreateStore, CreateCount, CreateLimit, At
  <2>3. Holding' = Holding
    BY <1>1, <2>1, <2>2, MovedHolding
  <2>4. Live' = Live
    BY <2>2 DEF Live
  <2> QED
    BY <1>2, <2>2, <2>3, <2>4 DEF ConnsAccounted
<1> QED
  BY <1>4, <1>5, <1>6 DEF CreateStep, CreateRefused

\* Accept and Connect add the connection that they put into the hands of a goroutine.
LEMMA AcceptAccounted ==
    ASSUME IInv, ConnsAccounted, ~stopped, NEW g \in Creators,
           \/ g \in Listeners /\ (AcceptStep(g) \/ AcceptConn(g) \/ AcceptError(g))
           \/ g \in Connectors /\ Connect(g)
    PROVE  ConnsAccounted'
<1>1. pc \in [Creators -> Steps] /\ open \in Int /\ TypeOK
  BY DEF IInv, TypeOK
<1>2. open = Cardinality(Holding) + Cardinality(Live) /\ Cardinality(Live) \in Nat
  BY <1>1, CountLive DEF ConnsAccounted
<1>3. life' = life /\ Live' = Live
  BY DEF AcceptStep, AcceptConn, AcceptError, Connect, AcceptLoad, AcceptAppend, AcceptLoop,
     AcceptClosed, AcceptUdpClosed, AcceptEnd, AcceptStuck, Live
<1>4. CASE AcceptConn(g) \/ Connect(g)
  <2>1. Goto(g, "create") /\ open' = open + 1 /\ pc[g] \in {"accept", "idle"}
    BY <1>4 DEF AcceptConn, Connect, At
  <2>2. Cardinality(Holding') = Cardinality(Holding) + 1 /\ Cardinality(Holding) \in Nat
    BY <1>1, <2>1, MovedHolding
  <2> QED
    BY <1>1, <1>2, <1>3, <2>1, <2>2 DEF ConnsAccounted
<1>5. CASE AcceptStep(g) \/ AcceptError(g)
  <2>1. PICK l \in {"append", "loop", "accept", "close", "stuck", "done"} : Goto(g, l)
    BY <1>5 DEF AcceptStep, AcceptError, AcceptLoad, AcceptAppend, AcceptLoop, AcceptClosed,
       AcceptUdpClosed, AcceptEnd, AcceptStuck
  <2>2. open' = open /\ pc[g] \in {"load", "append", "loop", "accept", "close"}
    BY <1>5 DEF AcceptStep, AcceptError, AcceptLoad, AcceptAppend, AcceptLoop, AcceptClosed,
       AcceptUdpClosed, AcceptEnd, AcceptStuck, At
  <2>3. Holding' = Holding
    BY <1>1, <2>1, <2>2, MovedHolding
  <2> QED
    BY <1>2, <1>3, <2>2, <2>3 DEF ConnsAccounted
<1> QED
  BY <1>4, <1>5

\* release() has closed the connection of the socket that it takes away.
LEMMA ReleaseAccounted ==
    ASSUME IInv, ConnsAccounted, ~stopped, NEW i \in Ids, ReleaseCount(i) \/ ReleaseDelete(i)
    PROVE  ConnsAccounted'
<1>1. open \in Int /\ TypeOK /\ life \in [Ids -> {"new", "live", "leaving", "gone"}]
  BY DEF IInv, TypeOK
<1>2. /\ open = Cardinality(Holding) + Cardinality(Live)
      /\ Cardinality(Live) \in Nat /\ Cardinality(Holding) \in Nat
  BY <1>1, CountLive, FiniteWhere DEF ConnsAccounted, Holding
<1>3. Holding' = Holding
  BY DEF ReleaseCount, ReleaseDelete, Holding, Where
<1>4. CASE ReleaseCount(i)
  <2>1. \A j \in Ids : life'[j] = IF j = i THEN "leaving" ELSE life[j]
    BY <1>1, <1>4 DEF ReleaseCount
  <2>2. Live' = Live \ {i} /\ i \in Live
    BY <1>4, <2>1 DEF ReleaseCount, Live
  <2>3. Cardinality(Live') = Cardinality(Live) - 1 /\ open' = open - 1
    BY <1>1, <1>4, <2>2, CountLive DEF ReleaseCount
  <2> QED
    BY <1>1, <1>2, <1>3, <2>3 DEF ConnsAccounted
<1>5. CASE ReleaseDelete(i)
  <2>1. \A j \in Ids : life'[j] = IF j = i THEN "gone" ELSE life[j]
    BY <1>1, <1>5 DEF ReleaseDelete
  <2>2. Live' = Live /\ open' = open
    BY <1>5, <2>1 DEF ReleaseDelete, Live
  <2> QED
    BY <1>2, <1>3, <2>2 DEF ConnsAccounted
<1> QED
  BY <1>4, <1>5

\* While the server runs no connection that Create was given is lost, whatever Create
\* and release() calls overlap, limits refuse and callbacks panic.
THEOREM NoConnLost == Spec => []ConnsAccounted
<1>1. Init => ConnsAccounted
  <2> SUFFICES ASSUME Init PROVE ConnsAccounted
    OBVIOUS
  <2>1. Holding = {} /\ Live = {} /\ open = 0
    BY DEF Init, Holding, Where, Live
  <2> QED
    BY <2>1, FS_EmptySet DEF ConnsAccounted
<1>2. IInv /\ ConnsAccounted /\ [Next]_vars => ConnsAccounted'
  <2> SUFFICES ASSUME IInv, ConnsAccounted, [Next]_vars, ~stopped' PROVE ConnsAccounted'
    BY DEF ConnsAccounted
  <2>1. CASE Start \/ Stop \/ StopClose \/ StopBreaks \/ Cancel \/ UNCHANGED vars
    <3>1. UNCHANGED <<open, life, pc>> /\ ~stopped
      BY <2>1 DEF Start, Stop, StopClose, StopBreaks, Cancel, vars, listenerVars
    <3> QED
      BY <3>1 DEF ConnsAccounted, Holding, Live, Where
  <2>2. ASSUME NEW g \in Creators, CreateStep(g) PROVE ConnsAccounted'
    <3>1. ~stopped
      BY <2>2 DEF CreateStep, CreateRefused, CreateChecked, CreateLimit, CreateStore, CreateCount,
         CreateConnect, listenerVars
    <3> QED
      BY <2>2, <3>1, CreateAccounted
  <2>3. ASSUME NEW g \in Creators,
               \/ g \in Listeners /\ (AcceptStep(g) \/ AcceptConn(g) \/ AcceptError(g))
               \/ g \in Connectors /\ Connect(g)
        PROVE  ConnsAccounted'
    <3>1. ~stopped
      BY <2>3 DEF AcceptStep, AcceptConn, AcceptError, Connect, AcceptLoad, AcceptAppend,
         AcceptLoop, AcceptClosed, AcceptUdpClosed, AcceptEnd, AcceptStuck, listenerVars
    <3> QED
      BY <2>3, <3>1, AcceptAccounted
  <2>4. ASSUME NEW i \in Ids, ReleaseCount(i) \/ ReleaseDelete(i) PROVE ConnsAccounted'
    <3>1. ~stopped
      BY <2>4 DEF ReleaseCount, ReleaseDelete, listenerVars
    <3> QED
      BY <2>4, <3>1, ReleaseAccounted
  <2> QED
    BY <2>1, <2>2, <2>3, <2>4 DEF Next, Creators
<1> QED
  BY <1>1, <1>2, Invariant, PTL DEF Spec
=============================================================================
