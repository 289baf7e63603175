---------------------------- MODULE SocketProofs ----------------------------
(***************************************************************************)
(* Proofs about module Socket, for every number of connections, heartbeat  *)
(* callers and application goroutines.  The inductive invariant is IInv;   *)
(* most steps are quiet: they touch neither the stop channel, the conn     *)
(* field nor the map, and no goroutine gains or loses charge of the socket.*)
(***************************************************************************)
EXTENDS Socket, TLAPS

Owning == Dialling \cup Teardown

\* The parts of TypeOK that constrain the program counters.
PcOK ==
    /\ pc \in [Agents -> Steps]
    /\ \A a \in Creators : pc[a] \in CreatorSteps \cup {"release", "drain", "new", "done"}
    /\ \A a \in Agents \ Creators : pc[a] \notin CreatorSteps

\* The parts of TypeOK about what a quiet step may write.
FieldsOK ==
    /\ status \in Status
    /\ heartbeat \in Int
    /\ data \in BOOLEAN /\ address \in BOOLEAN /\ stopped \in BOOLEAN
    /\ seen \in [Agents -> Status]
    /\ ref \in [Agents -> 0..MaxConns]
    /\ num \in [Agents -> Int]

\* The goroutines of module Socket are told apart by kind and by number.
LEMMA AgentFacts ==
    /\ \A g \in 1..MaxConns + 1 : Creator(g) \in Creators
    /\ \A a \in Creators : \E g \in 1..MaxConns + 1 : a = Creator(g)
    /\ \A g, h \in 1..MaxConns + 1 : Creator(g) = Creator(h) => g = h
    /\ Agents = Creators \cup Workers \cup Hearts \cup Apps
    /\ Creators \cap (Workers \cup Hearts \cup Apps) = {}
    /\ \A g \in 1..MaxConns + 1 : Reader(g) \notin Creators /\ Writer(g) \notin Creators
    /\ Workers = Readers \cup Writers
    /\ Hearts \cap (Workers \cup Apps) = {} /\ Workers \cap Apps = {}
BY DEF Creator, Reader, Writer, Creators, Workers, Readers, Writers, Hearts, Apps, Agents

\* The workers of every connection are goroutines of the model.
LEMMA WorkerAgents ==
    \A g \in Conn : Reader(g) \in Agents /\ Writer(g) \in Agents /\ g \in 1..MaxConns + 1
BY SocketAssumption DEF Reader, Writer, Readers, Writers, Workers, Agents, Conn

\* IInv but for the part about goroutines that have yet to start.
Core == TypeOK /\ CountMatchesMap /\ OneOwner /\ Numbered /\ ConnTracksStop

\* A quiet step: nobody gains or loses charge of the socket.
LEMMA Quiet ==
    ASSUME IInv, TypeOK', UNCHANGED <<stop, conn, closed, manager>>,
           \A b \in Agents : \/ pc'[b] = pc[b]
                             \/ pc[b] \notin Owning /\ pc'[b] \notin Owning \cup {"new"}
    PROVE  Core' /\ Phase' = Phase
<1>1. \A b \in Agents : \A s \in Owning : pc'[b] = s <=> pc[b] = s
  OBVIOUS
<1>2. \A b \in Agents : pc'[b] \in Owning <=> pc[b] \in Owning
  BY <1>1
<1>3. \A b \in Agents : pc'[b] = "new" => pc[b] = "new"
  OBVIOUS
<1>4. Owners' = Owners
  BY <1>2 DEF Owners, Owning
<1>5. Open' = Open
  BY DEF Open, closed
<1>6. CountMatchesMap'
  BY DEF IInv, CountMatchesMap, manager
<1>7. OneOwner'
  BY <1>1, <1>4, <1>5 DEF IInv, OneOwner, Owners, Owning, Dialling, manager
<1>8. Numbered'
  <2>1. \A g \in 1..MaxConns + 1 : Creator(g) \in Agents
    BY AgentFacts
  <2>2. ASSUME NEW g \in 1..MaxConns + 1
        PROVE  /\ pc'[Creator(g)] = "new" => stop' < g
               /\ pc'[Creator(g)] \in Dialling => g = stop' + 1
               /\ pc'[Creator(g)] = "store" => ~inMap' /\ stop' = 0
               /\ pc'[Creator(g)] \in {"setConn", "setStop"} => g \in Conn
               /\ pc'[Creator(g)] = "dial" => stop' # 0
    <3>1. \A s \in Owning : pc'[Creator(g)] = s <=> pc[Creator(g)] = s
      BY <1>1, <2>1
    <3>2. pc'[Creator(g)] = "new" => pc[Creator(g)] = "new"
      BY <1>3, <2>1
    <3> QED BY <3>1, <3>2 DEF IInv, Numbered, Owning, Dialling, manager
  <2>3. \A a \in Agents : pc'[a] \in Teardown => stop' # 0
    BY <1>1 DEF IInv, Numbered, Owning
  <2> QED BY <2>2, <2>3 DEF IInv, Numbered, closed
<1>9. ConnTracksStop'
  <2>1. \A g \in 1..MaxConns + 1 : pc'[Creator(g)] = "setStop" => pc[Creator(g)] = "setStop"
    BY <1>1, AgentFacts DEF Owning, Dialling
  <2>2. \A a \in Agents : pc'[a] \in {"dConn", "setStop"} <=> pc[a] \in {"dConn", "setStop"}
    BY <1>1 DEF Owning, Dialling, Teardown
  <2>3. \A a \in Agents : pc'[a] = "dConn" <=> pc[a] = "dConn"
    BY <1>1 DEF Owning, Dialling, Teardown
  <2> QED BY <2>1, <2>2, <2>3, <1>5 DEF IInv, ConnTracksStop, closed
<1>10. Phase' = Phase
  BY <1>4, <1>5 DEF Phase, manager
<1> QED BY <1>6, <1>7, <1>8, <1>9, <1>10 DEF Core

\* TypeOK is its three parts.
LEMMA TypeParts ==
    TypeOK <=> /\ PcOK /\ FieldsOK
               /\ conn \in 0..MaxConns /\ stop \in 0..MaxConns
               /\ inMap \in BOOLEAN /\ count \in Int
               /\ closedStop \subseteq Conn /\ closedConn \subseteq Conn
BY DEF TypeOK, PcOK, FieldsOK

\* Moving one goroutine to a step of its own code keeps PcOK.
LEMMA GotoPc ==
    ASSUME PcOK, NEW a \in Agents, NEW l \in Steps, Goto(a, l),
           a \in Creators => l \in CreatorSteps \cup {"release", "drain", "new", "done"},
           a \notin Creators => l \notin CreatorSteps
    PROVE  PcOK' /\ pc'[a] = l /\ \A b \in Agents : b # a => pc'[b] = pc[b]
BY DEF PcOK, Goto

\* A goroutine that moves to a step behind the installation leaves Fresh alone.
LEMMA GotoFresh ==
    ASSUME IInv, NEW a \in Agents, NEW l \in Steps, Goto(a, l), pc[a] # "new", stop' = stop,
           l \in {"setStatus", "start"} => pc[a] \in {"setStatus", "start"}
    PROVE  Fresh'
<1>1. pc \in [Agents -> Steps] /\ \A g \in 1..MaxConns + 1 : Creator(g) \in Agents
  BY AgentFacts DEF IInv, TypeOK
<1>2. \A b \in Agents : b # a => pc'[b] = pc[b]
  BY <1>1 DEF Goto
<1>3. pc'[a] = l
  BY <1>1 DEF Goto
<1>4. \A g \in 1..MaxConns + 1 : pc'[Creator(g)] \in {"setStatus", "start"}
                                => pc[Creator(g)] \in {"setStatus", "start"}
  BY <1>1, <1>2, <1>3
<1>5. \A g \in Conn : Reader(g) \in Agents /\ Writer(g) \in Agents /\ g \in 1..MaxConns + 1
  BY WorkerAgents
<1>6. \A g \in Conn : /\ pc[Reader(g)] = "new" => pc'[Reader(g)] = "new"
                      /\ pc[Writer(g)] = "new" => pc'[Writer(g)] = "new"
  BY <1>2, <1>5
<1> QED BY <1>4, <1>5, <1>6 DEF IInv, Fresh

\* The common case: one goroutine, in charge neither before nor after.
LEMMA QuietGoto ==
    ASSUME IInv, NEW a \in Agents, NEW l \in Steps, Goto(a, l),
           a \in Creators => l \in CreatorSteps \cup {"release", "drain", "new", "done"},
           a \notin Creators => l \notin CreatorSteps,
           pc[a] \notin Owning \cup {"new"}, l \notin Owning \cup {"new"},
           l \in {"setStatus", "start"} => pc[a] \in {"setStatus", "start"},
           FieldsOK', UNCHANGED <<stop, conn, closed, manager>>
    PROVE  IInv' /\ Phase' = Phase
<1>1. PcOK
  BY TypeParts DEF IInv
<1>2. PcOK' /\ pc'[a] = l /\ \A b \in Agents : b # a => pc'[b] = pc[b]
  BY <1>1, GotoPc
<1>3. TypeOK'
  BY <1>2, TypeParts DEF IInv, closed, manager, TypeOK, PcOK, FieldsOK
<1>4. \A b \in Agents : \/ pc'[b] = pc[b]
                        \/ pc[b] \notin Owning /\ pc'[b] \notin Owning \cup {"new"}
  BY <1>2
<1>5. Core' /\ Phase' = Phase
  BY <1>3, <1>4, Quiet
<1>6. Fresh'
  <2>1. pc[a] # "new" /\ stop' = stop
    OBVIOUS
  <2> QED BY <2>1, GotoFresh
<1> QED BY <1>5, <1>6 DEF Core, IInv

\* The steps of readMsg and KeepAlive are quiet.
LEMMA ReaderQuiet ==
    ASSUME IInv, NEW a \in Readers, ReaderStep(a)
    PROVE  IInv' /\ Phase' = Phase /\ stop' = stop
<1> USE DEF Owning, Dialling, Teardown, Steps, CreatorSteps, DisconnectSteps, ReaderSteps,
           WriterSteps, HeartSteps, AppSteps
<1>0. /\ a \in Agents \ Creators /\ FieldsOK /\ PcOK
      /\ conn \in 0..MaxConns /\ stop \in 0..MaxConns
  BY AgentFacts, TypeParts DEF IInv
<1>1. CASE ReadMsg(a)
  <2>1. FieldsOK'
    BY <1>0, <1>1 DEF ReadMsg, FieldsOK, fields
  <2>2. UNCHANGED <<stop, conn, closed, manager>>
    BY <1>1 DEF ReadMsg, fields
  <2>3. pc[a] \notin Owning \cup {"new"} /\ \E l \in Steps \ (CreatorSteps \cup Owning \cup {"new"}) : Goto(a, l)
    BY <1>1 DEF ReadMsg, At
  <2> QED BY <1>0, <2>1, <2>2, <2>3, QuietGoto
<1>2. CASE ReadMsgTrue(a)
  <2>1. FieldsOK'
    BY <1>0, <1>2, SocketAssumption DEF ReadMsgTrue, FieldsOK, fields
  <2>2. UNCHANGED <<stop, conn, closed, manager>>
    BY <1>2 DEF ReadMsgTrue, fields
  <2>3. pc[a] \notin Owning \cup {"new"} /\ \E l \in Steps \ (CreatorSteps \cup Owning \cup {"new"}) : Goto(a, l)
    BY <1>2 DEF ReadMsgTrue, At
  <2> QED BY <1>0, <2>1, <2>2, <2>3, QuietGoto
<1>3. CASE ReadMsgError(a)
  <2>1. FieldsOK'
    BY <1>0, <1>3, SocketAssumption DEF ReadMsgError, FieldsOK, fields
  <2>2. UNCHANGED <<stop, conn, closed, manager>>
    BY <1>3 DEF ReadMsgError, fields
  <2>3. pc[a] \notin Owning \cup {"new"} /\ \E l \in Steps \ (CreatorSteps \cup Owning \cup {"new"}) : Goto(a, l)
    BY <1>3 DEF ReadMsgError, At
  <2> QED BY <1>0, <2>1, <2>2, <2>3, QuietGoto
<1>4. CASE KeepAliveStatus(a)
  <2>1. FieldsOK'
    BY <1>0, <1>4 DEF KeepAliveStatus, FieldsOK, fields, locals
  <2>2. UNCHANGED <<stop, conn, closed, manager>>
    BY <1>4 DEF KeepAliveStatus, fields
  <2>3. pc[a] \notin Owning \cup {"new"} /\ \E l \in Steps \ (CreatorSteps \cup Owning \cup {"new"}) : Goto(a, l)
    BY <1>4 DEF KeepAliveStatus, At
  <2> QED BY <1>0, <2>1, <2>2, <2>3, QuietGoto
<1>5. CASE KeepAliveBeat(a)
  <2>1. FieldsOK'
    BY <1>0, <1>5 DEF KeepAliveBeat, FieldsOK, locals
  <2>2. UNCHANGED <<stop, conn, closed, manager>>
    BY <1>5 DEF KeepAliveBeat
  <2>3. pc[a] \notin Owning \cup {"new"} /\ \E l \in Steps \ (CreatorSteps \cup Owning \cup {"new"}) : Goto(a, l)
    BY <1>5 DEF KeepAliveBeat, At
  <2> QED BY <1>0, <2>1, <2>2, <2>3, QuietGoto
<1>6. CASE KeepAliveData(a)
  <2>1. FieldsOK'
    BY <1>0, <1>6 DEF KeepAliveData, FieldsOK, fields, locals
  <2>2. UNCHANGED <<stop, conn, closed, manager>>
    BY <1>6 DEF KeepAliveData, fields
  <2>3. pc[a] \notin Owning \cup {"new"} /\ \E l \in Steps \ (CreatorSteps \cup Owning \cup {"new"}) : Goto(a, l)
    BY <1>6 DEF KeepAliveData, At
  <2> QED BY <1>0, <2>1, <2>2, <2>3, QuietGoto
<1>7. CASE KeepAliveUse(a)
  <2>1. FieldsOK'
    BY <1>0, <1>7 DEF KeepAliveUse, FieldsOK, fields, locals
  <2>2. UNCHANGED <<stop, conn, closed, manager>>
    BY <1>7 DEF KeepAliveUse, fields
  <2>3. pc[a] \notin Owning \cup {"new"} /\ \E l \in Steps \ (CreatorSteps \cup Owning \cup {"new"}) : Goto(a, l)
    BY <1>7 DEF KeepAliveUse, At
  <2> QED BY <1>0, <2>1, <2>2, <2>3, QuietGoto
<1>8. CASE Handle(a)
  <2>1. FieldsOK'
    BY <1>0, <1>8 DEF Handle, FieldsOK, fields, locals
  <2>2. UNCHANGED <<stop, conn, closed, manager>>
    BY <1>8 DEF Handle, fields
  <2>3. pc[a] \notin Owning \cup {"new"} /\ \E l \in Steps \ (CreatorSteps \cup Owning \cup {"new"}) : Goto(a, l)
    BY <1>8 DEF Handle, At
  <2> QED BY <1>0, <2>1, <2>2, <2>3, QuietGoto
<1> QED BY <1>1, <1>2, <1>3, <1>4, <1>5, <1>6, <1>7, <1>8 DEF ReaderStep

\* The steps of writeMsg are quiet.
LEMMA WriterQuiet ==
    ASSUME IInv, NEW a \in Writers, WriterStep(a)
    PROVE  IInv' /\ Phase' = Phase /\ stop' = stop
<1> USE DEF Owning, Dialling, Teardown, Steps, CreatorSteps, DisconnectSteps, ReaderSteps,
           WriterSteps, HeartSteps, AppSteps
<1>0. /\ a \in Agents \ Creators /\ FieldsOK /\ PcOK
      /\ conn \in 0..MaxConns /\ stop \in 0..MaxConns
  BY AgentFacts, TypeParts DEF IInv
<1>1. CASE WriteMsg(a)
  <2>1. FieldsOK'
    BY <1>0, <1>1 DEF WriteMsg, FieldsOK, fields
  <2>2. UNCHANGED <<stop, conn, closed, manager>>
    BY <1>1 DEF WriteMsg, fields
  <2>3. pc[a] \notin Owning \cup {"new"} /\ \E l \in Steps \ (CreatorSteps \cup Owning \cup {"new"}) : Goto(a, l)
    BY <1>1 DEF WriteMsg, At
  <2> QED BY <1>0, <2>1, <2>2, <2>3, QuietGoto
<1>2. CASE WriteMsgDone(a)
  <2>1. FieldsOK'
    BY <1>0, <1>2, SocketAssumption DEF WriteMsgDone, FieldsOK, fields
  <2>2. UNCHANGED <<stop, conn, closed, manager>>
    BY <1>2 DEF WriteMsgDone, fields
  <2>3. pc[a] \notin Owning \cup {"new"} /\ \E l \in Steps \ (CreatorSteps \cup Owning \cup {"new"}) : Goto(a, l)
    BY <1>2 DEF WriteMsgDone, At
  <2> QED BY <1>0, <2>1, <2>2, <2>3, QuietGoto
<1>3. CASE WriteMsgTake(a)
  <2>1. FieldsOK'
    BY <1>0, <1>3, SocketAssumption DEF WriteMsgTake, FieldsOK, fields
  <2>2. UNCHANGED <<stop, conn, closed, manager>>
    BY <1>3 DEF WriteMsgTake, fields
  <2>3. pc[a] \notin Owning \cup {"new"} /\ \E l \in Steps \ (CreatorSteps \cup Owning \cup {"new"}) : Goto(a, l)
    BY <1>3 DEF WriteMsgTake, At
  <2> QED BY <1>0, <2>1, <2>2, <2>3, QuietGoto
<1>4. CASE WriteMsgTrue(a)
  <2>1. FieldsOK'
    BY <1>0, <1>4 DEF WriteMsgTrue, FieldsOK, fields
  <2>2. UNCHANGED <<stop, conn, closed, manager>>
    BY <1>4 DEF WriteMsgTrue, fields
  <2>3. pc[a] \notin Owning \cup {"new"} /\ \E l \in Steps \ (CreatorSteps \cup Owning \cup {"new"}) : Goto(a, l)
    BY <1>4 DEF WriteMsgTrue, At
  <2> QED BY <1>0, <2>1, <2>2, <2>3, QuietGoto
<1>5. CASE WriteMsgSent(a)
  <2>1. FieldsOK'
    BY <1>0, <1>5, SocketAssumption DEF WriteMsgSent, FieldsOK, fields
  <2>2. UNCHANGED <<stop, conn, closed, manager>>
    BY <1>5 DEF WriteMsgSent, fields
  <2>3. pc[a] \notin Owning \cup {"new"} /\ \E l \in Steps \ (CreatorSteps \cup Owning \cup {"new"}) : Goto(a, l)
    BY <1>5 DEF WriteMsgSent, At
  <2> QED BY <1>0, <2>1, <2>2, <2>3, QuietGoto
<1> QED BY <1>1, <1>2, <1>3, <1>4, <1>5 DEF WriterStep

\* The steps of Heartbeat, up to its disconnect(), are quiet.
LEMMA HeartQuiet ==
    ASSUME IInv, NEW a \in Hearts, HeartStep(a)
    PROVE  IInv' /\ Phase' = Phase /\ stop' = stop
<1> USE DEF Owning, Dialling, Teardown, Steps, CreatorSteps, DisconnectSteps, ReaderSteps,
           WriterSteps, HeartSteps, AppSteps
<1>0. /\ a \in Agents \ Creators /\ FieldsOK /\ PcOK
      /\ conn \in 0..MaxConns /\ stop \in 0..MaxConns
  BY AgentFacts, TypeParts DEF IInv
<1>1. CASE Heartbeat(a)
  <2>1. FieldsOK'
    BY <1>0, <1>1 DEF Heartbeat, FieldsOK, fields
  <2>2. UNCHANGED <<stop, conn, closed, manager>>
    BY <1>1 DEF Heartbeat, fields
  <2>3. pc[a] \notin Owning \cup {"new"} /\ \E l \in Steps \ (CreatorSteps \cup Owning \cup {"new"}) : Goto(a, l)
    BY <1>1 DEF Heartbeat, At
  <2> QED BY <1>0, <2>1, <2>2, <2>3, QuietGoto
<1>2. CASE HeartbeatAdd(a)
  <2>1. FieldsOK'
    BY <1>0, <1>2, SocketAssumption DEF HeartbeatAdd, FieldsOK, Capped, BeatCap
  <2>2. UNCHANGED <<stop, conn, closed, manager>>
    BY <1>2 DEF HeartbeatAdd
  <2>3. pc[a] \notin Owning \cup {"new"} /\ \E l \in Steps \ (CreatorSteps \cup Owning \cup {"new"}) : Goto(a, l)
    BY <1>2 DEF HeartbeatAdd, At
  <2> QED BY <1>0, <2>1, <2>2, <2>3, QuietGoto
<1>3. CASE HeartbeatCmp(a)
  <2>1. FieldsOK'
    BY <1>0, <1>3 DEF HeartbeatCmp, FieldsOK, fields, locals
  <2>2. UNCHANGED <<stop, conn, closed, manager>>
    BY <1>3 DEF HeartbeatCmp, fields
  <2>3. pc[a] \notin Owning \cup {"new"} /\ \E l \in Steps \ (CreatorSteps \cup Owning \cup {"new"}) : Goto(a, l)
    BY <1>3 DEF HeartbeatCmp, At
  <2> QED BY <1>0, <2>1, <2>2, <2>3, QuietGoto
<1>4. CASE DaemonDone(a)
  <2>1. FieldsOK'
    BY <1>0, <1>4 DEF DaemonDone, FieldsOK, fields, locals
  <2>2. UNCHANGED <<stop, conn, closed, manager>>
    BY <1>4 DEF DaemonDone, fields
  <2>3. pc[a] \notin Owning \cup {"new"} /\ \E l \in Steps \ (CreatorSteps \cup Owning \cup {"new"}) : Goto(a, l)
    BY <1>4 DEF DaemonDone, At
  <2> QED BY <1>0, <2>1, <2>2, <2>3, QuietGoto
<1> QED BY <1>1, <1>2, <1>3, <1>4 DEF HeartStep

\* The calls of the application are quiet: Close only moves the status and the counter.
LEMMA AppQuiet ==
    ASSUME IInv, NEW a \in Apps, AppStep(a)
    PROVE  IInv' /\ Phase' = Phase /\ stop' = stop
<1> USE DEF Owning, Dialling, Teardown, Steps, CreatorSteps, DisconnectSteps, ReaderSteps,
           WriterSteps, HeartSteps, AppSteps
<1>0. /\ a \in Agents \ Creators /\ FieldsOK /\ PcOK
      /\ conn \in 0..MaxConns /\ stop \in 0..MaxConns
  BY AgentFacts, TypeParts DEF IInv
<1>1. CASE Close(a)
  <2>1. FieldsOK'
    BY <1>0, <1>1, SocketAssumption DEF Close, FieldsOK, fields
  <2>2. UNCHANGED <<stop, conn, closed, manager>>
    BY <1>1 DEF Close, fields
  <2>3. pc[a] \notin Owning \cup {"new"} /\ \E l \in Steps \ (CreatorSteps \cup Owning \cup {"new"}) : Goto(a, l)
    BY <1>1 DEF Close, Calling, At
  <2> QED BY <1>0, <2>1, <2>2, <2>3, QuietGoto
<1>2. CASE Replaced(a)
  <2>1. FieldsOK'
    <3>1. data' \in BOOLEAN
      BY <1>2 DEF Replaced
    <3> QED BY <3>1, <1>0, <1>2, SocketAssumption DEF Replaced, FieldsOK
  <2>2. UNCHANGED <<stop, conn, closed, manager>>
    BY <1>2 DEF Replaced
  <2>3. pc[a] \notin Owning \cup {"new"} /\ \E l \in Steps \ (CreatorSteps \cup Owning \cup {"new"}) : Goto(a, l)
    BY <1>2 DEF Replaced, Calling, At
  <2> QED BY <1>0, <2>1, <2>2, <2>3, QuietGoto
<1>3. CASE Authentication(a)
  <2>1. FieldsOK'
    BY <1>0, <1>3 DEF Authentication, FieldsOK, locals
  <2>2. UNCHANGED <<stop, conn, closed, manager>>
    BY <1>3 DEF Authentication
  <2>3. pc[a] \notin Owning \cup {"new"} /\ \E l \in Steps \ (CreatorSteps \cup Owning \cup {"new"}) : Goto(a, l)
    BY <1>3 DEF Authentication, Calling, At
  <2> QED BY <1>0, <2>1, <2>2, <2>3, QuietGoto
<1>4. CASE CloseCas(a)
  <2>1. FieldsOK'
    BY <1>0, <1>4 DEF CloseCas, FieldsOK, Status
  <2>2. UNCHANGED <<stop, conn, closed, manager>>
    BY <1>4 DEF CloseCas
  <2>3. pc[a] \notin Owning \cup {"new"} /\ \E l \in Steps \ (CreatorSteps \cup Owning \cup {"new"}) : Goto(a, l)
    BY <1>4 DEF CloseCas, At
  <2> QED BY <1>0, <2>1, <2>2, <2>3, QuietGoto
<1>5. CASE CloseBeat(a)
  <2>1. FieldsOK'
    BY <1>0, <1>5, SocketAssumption DEF CloseBeat, FieldsOK, locals
  <2>2. UNCHANGED <<stop, conn, closed, manager>>
    BY <1>5 DEF CloseBeat
  <2>3. pc[a] \notin Owning \cup {"new"} /\ \E l \in Steps \ (CreatorSteps \cup Owning \cup {"new"}) : Goto(a, l)
    BY <1>5 DEF CloseBeat, At
  <2> QED BY <1>0, <2>1, <2>2, <2>3, QuietGoto
<1>6. CASE CloseDelay(a)
  <2>1. FieldsOK'
    BY <1>0, <1>6 DEF CloseDelay, FieldsOK
  <2>2. UNCHANGED <<stop, conn, closed, manager>>
    BY <1>6 DEF CloseDelay
  <2>3. pc[a] \notin Owning \cup {"new"} /\ \E l \in Steps \ (CreatorSteps \cup Owning \cup {"new"}) : Goto(a, l)
    BY <1>6 DEF CloseDelay, At
  <2> QED BY <1>0, <2>1, <2>2, <2>3, QuietGoto
<1> QED BY <1>1, <1>2, <1>3, <1>4, <1>5, <1>6 DEF AppStep

\* A goroutine in charge of the socket is alone, and the connection is not open.
LEMMA Alone ==
    ASSUME IInv, NEW a \in Agents, pc[a] \in Owning
    PROVE  /\ ~Open
           /\ Owners = {a}
           /\ \A b \in Agents : b # a => pc[b] \notin Owning
           /\ ~inMap => pc[a] = "store"
<1>1. a \in Owners
  BY DEF Owners, Owning
<1> QED BY <1>1 DEF IInv, OneOwner, Owners, Owning

\* What one goroutine in charge leaves behind when it moves to another step.
LEMMA OwnerGoto ==
    ASSUME IInv, NEW a \in Agents, pc[a] \in Owning, NEW l \in Steps, Goto(a, l),
           a \in Creators => l \in CreatorSteps \cup {"release", "drain", "done"},
           a \notin Creators => l \notin CreatorSteps
    PROVE  /\ PcOK' /\ pc'[a] = l
           /\ \A b \in Agents : b # a => pc'[b] = pc[b] /\ pc'[b] \notin Owning
           /\ Owners' = IF l \in Owning THEN {a} ELSE {}
<1>1. PcOK
  BY TypeParts DEF IInv
<1>2. PcOK' /\ pc'[a] = l /\ \A b \in Agents : b # a => pc'[b] = pc[b]
  BY <1>1, GotoPc
<1>3. \A b \in Agents : b # a => pc'[b] \notin Owning
  BY <1>2, Alone
<1>4. Owners' = IF l \in Owning THEN {a} ELSE {}
  BY <1>2, <1>3 DEF Owners, Owning
<1> QED BY <1>2, <1>3, <1>4

\* What IInv says of the numbers when the goroutine of connection g dials.
LEMMA DialFacts ==
    ASSUME IInv, NEW g \in 1..MaxConns + 1, pc[Creator(g)] \in Dialling
    PROVE  /\ Creator(g) \in Agents /\ Creator(g) \in Creators
           /\ g = stop + 1 /\ stop \in 0..MaxConns /\ ~Open
           /\ pc[Creator(g)] = "store" => ~inMap /\ stop = 0
           /\ pc[Creator(g)] # "store" => inMap
           /\ pc[Creator(g)] # "setStop" => conn = 0
           /\ pc[Creator(g)] = "setStop" => conn = g
           /\ pc[Creator(g)] \in {"setConn", "setStop"} => g \in Conn
           /\ stop # 0 => stop \in closedConn
<1>1. Creator(g) \in Agents /\ Creator(g) \in Creators
  BY AgentFacts
<1>2. /\ ~Open /\ \A b \in Agents : b # Creator(g) => pc[b] \notin Owning
      /\ ~inMap => pc[Creator(g)] = "store"
  BY <1>1, Alone DEF Owning
<1>3. /\ g = stop + 1 /\ stop \in 0..MaxConns
      /\ pc[Creator(g)] = "store" => ~inMap /\ stop = 0
      /\ pc[Creator(g)] # "store" => inMap
      /\ pc[Creator(g)] \in {"setConn", "setStop"} => g \in Conn
  BY <1>2 DEF IInv, Numbered, TypeOK
<1>4. CASE pc[Creator(g)] = "setStop"
  BY <1>1, <1>2, <1>3, <1>4 DEF IInv, ConnTracksStop
<1>5. CASE pc[Creator(g)] # "setStop"
  <2>1. \A b \in Agents : pc[b] \notin {"dConn", "setStop"}
    BY <1>2, <1>5 DEF Owning, Teardown, Dialling
  <2> QED BY <1>1, <1>2, <1>3, <1>5, <2>1 DEF IInv, ConnTracksStop
<1> QED BY <1>4, <1>5

\* The numbering survives every step of a dialling goroutine.
LEMMA DialNumbered ==
    ASSUME IInv, NEW g \in 1..MaxConns + 1, pc[Creator(g)] \in Dialling,
           NEW l \in {"setConn", "setStop", "setStatus", "release"}, Goto(Creator(g), l),
           closedStop' = closedStop,
           l \in {"setConn", "setStop"} => g \in Conn /\ stop' = stop,
           l = "setStatus" => g \in Conn /\ stop' = g,
           l = "release" => stop' = stop /\ stop # 0
    PROVE  Numbered'
<1>1. /\ Creator(g) \in Agents /\ Creator(g) \in Creators /\ g = stop + 1 /\ stop \in 0..MaxConns
  BY DialFacts
<1>2. /\ pc'[Creator(g)] = l
      /\ \A b \in Agents : b # Creator(g) => pc'[b] = pc[b] /\ pc'[b] \notin Owning
  BY <1>1, OwnerGoto DEF Owning, Dialling, Steps, CreatorSteps
<1>3. ASSUME NEW h \in 1..MaxConns + 1
      PROVE  /\ pc'[Creator(h)] = "new" => stop' < h
             /\ pc'[Creator(h)] \in Dialling => h = stop' + 1
             /\ pc'[Creator(h)] = "store" => ~inMap' /\ stop' = 0
             /\ pc'[Creator(h)] \in {"setConn", "setStop"} => h \in Conn
             /\ pc'[Creator(h)] = "dial" => stop' # 0
  <2>1. CASE h = g
    BY <1>1, <1>2, <2>1 DEF Dialling
  <2>2. CASE h # g
    <3>1. Creator(h) \in Agents /\ Creator(h) # Creator(g)
      BY <2>2, AgentFacts
    <3>2. pc'[Creator(h)] = pc[Creator(h)] /\ pc'[Creator(h)] \notin Owning
      BY <3>1, <1>2
    <3>3. pc[Creator(h)] = "new" => stop < h
      BY DEF IInv, Numbered
    <3> QED BY <1>1, <2>2, <3>2, <3>3 DEF Owning, Dialling
  <2> QED BY <2>1, <2>2
<1>4. \A a \in Agents : pc'[a] \in Teardown => stop' # 0
  BY <1>1, <1>2 DEF Owning, Teardown
<1>5. closedStop' \subseteq 1..stop'
  BY <1>1 DEF IInv, Numbered
<1> QED BY <1>3, <1>4, <1>5 DEF Numbered

\* Create, the dial and the assignment of conn keep the goroutine in charge.
LEMMA CreateStep ==
    ASSUME IInv, NEW g \in 1..MaxConns + 1, Create(g)
    PROVE  IInv' /\ Phase' = Phase /\ stop' = stop
<1>1. At(Creator(g), "store") /\ Goto(Creator(g), "setConn")
  BY DEF Create
<1>2. pc[Creator(g)] \in Dialling
  BY <1>1 DEF At, Dialling
<1>3. /\ UNCHANGED <<stop, conn, closedStop, closedConn>>
      /\ inMap' = TRUE /\ count' = count + 1
  BY DEF Create, fields, closed
<1>4. /\ Creator(g) \in Agents /\ Creator(g) \in Creators /\ g = stop + 1 /\ ~Open
      /\ ~inMap /\ stop = 0 /\ conn = 0 /\ g \in Conn
  BY <1>1, <1>2, DialFacts, SocketAssumption DEF At, Conn
<1>5. /\ PcOK' /\ pc'[Creator(g)] = "setConn"
      /\ \A b \in Agents : b # Creator(g) => pc'[b] \notin Owning
      /\ Owners' = {Creator(g)}
  BY <1>1, <1>2, <1>4, OwnerGoto DEF Owning, Dialling, Steps, CreatorSteps
<1>6. Owners = {Creator(g)}
  BY <1>2, <1>4, Alone DEF Owning
<1>7. TypeOK'
  BY <1>3, <1>5 DEF IInv, TypeOK, PcOK, Create, fields, closed, locals
<1>8. CountMatchesMap'
  BY <1>3, <1>4 DEF IInv, CountMatchesMap
<1>9. ~Open'
  BY <1>3, <1>4 DEF Open
<1>10. OneOwner'
  BY <1>3, <1>5, <1>9 DEF OneOwner
<1>11. Numbered'
  BY <1>1, <1>2, <1>3, <1>4, DialNumbered
<1>12. ConnTracksStop'
  <2>1. \A b \in Agents : pc'[b] \notin {"dConn", "setStop"}
    BY <1>5 DEF Owning, Dialling, Teardown
  <2>2. \A h \in 1..MaxConns + 1 : Creator(h) \in Agents
    BY AgentFacts
  <2> QED BY <1>3, <1>4, <1>9, <2>1, <2>2 DEF IInv, ConnTracksStop
<1>13. Phase' = Phase
  BY <1>4, <1>5, <1>6, <1>9 DEF Phase
<1>14. Fresh'
  BY <1>1, <1>2, <1>3, <1>4, GotoFresh DEF Dialling, Steps, CreatorSteps
<1> QED BY <1>3, <1>7, <1>8, <1>10, <1>11, <1>12, <1>13, <1>14 DEF IInv

\* The redial of tryReconnect succeeds or moves on to release().
LEMMA TryConnectStep ==
    ASSUME IInv, NEW g \in 1..MaxConns + 1, TryConnect(g)
    PROVE  IInv' /\ Phase' = Phase /\ stop' = stop
<1>1. PICK l \in {"setConn", "release"} :
         Goto(Creator(g), l) /\ (l = "setConn" => g \in Conn)
  BY DEF TryConnect, Redialled
<1>2. pc[Creator(g)] = "dial" /\ pc[Creator(g)] \in Dialling
  BY DEF TryConnect, At, Dialling
<1>3. UNCHANGED <<stop, conn, inMap, count, closedStop, closedConn>>
  BY DEF TryConnect, fields, closed, manager
<1>4. /\ Creator(g) \in Agents /\ Creator(g) \in Creators /\ ~Open /\ inMap /\ conn = 0
      /\ stop # 0 => stop \in closedConn
  BY <1>2, DialFacts
<1>5. stop # 0
  BY <1>2 DEF IInv, Numbered
<1>6. /\ PcOK' /\ pc'[Creator(g)] = l
      /\ \A b \in Agents : b # Creator(g) => pc'[b] \notin Owning
      /\ Owners' = {Creator(g)}
  BY <1>1, <1>2, <1>4, OwnerGoto DEF Owning, Dialling, Teardown, Steps, CreatorSteps
<1>7. Owners = {Creator(g)}
  BY <1>2, <1>4, Alone DEF Owning
<1>8. TypeOK'
  BY <1>6 DEF IInv, TypeOK, PcOK, TryConnect, fields, manager, closed, locals
<1>9. CountMatchesMap'
  BY <1>3 DEF IInv, CountMatchesMap
<1>10. ~Open'
  BY <1>3, <1>4 DEF Open
<1>11. OneOwner'
  BY <1>3, <1>4, <1>6, <1>10 DEF OneOwner
<1>12. Numbered'
  BY <1>1, <1>2, <1>3, <1>5, DialNumbered
<1>13. ConnTracksStop'
  <2>1. \A b \in Agents : pc'[b] \notin {"dConn", "setStop"}
    BY <1>6 DEF Owning, Dialling, Teardown
  <2>2. \A h \in 1..MaxConns + 1 : Creator(h) \in Agents
    BY AgentFacts
  <2> QED BY <1>3, <1>4, <1>10, <2>1, <2>2 DEF IInv, ConnTracksStop
<1>14. Phase' = Phase
  BY <1>4, <1>6, <1>7, <1>10 DEF Phase
<1>15. Fresh'
  BY <1>1, <1>2, <1>3, <1>4, GotoFresh DEF Dialling, Steps, CreatorSteps
<1> QED BY <1>3, <1>8, <1>9, <1>11, <1>12, <1>13, <1>14, <1>15 DEF IInv

\* connect() assigns conn: the field was nil and the last connection is closed.
LEMMA ConnectConnStep ==
    ASSUME IInv, NEW g \in 1..MaxConns + 1, ConnectConn(g)
    PROVE  IInv' /\ Phase' = Phase /\ stop' = stop
<1>1. Goto(Creator(g), "setStop")
  BY DEF ConnectConn
<1>2. pc[Creator(g)] = "setConn" /\ pc[Creator(g)] \in Dialling
  BY DEF ConnectConn, At, Dialling
<1>3. UNCHANGED <<stop, inMap, count, closedStop, closedConn>> /\ conn' = g
  BY DEF ConnectConn, closed, manager
<1>4. /\ Creator(g) \in Agents /\ Creator(g) \in Creators /\ ~Open /\ inMap
      /\ g = stop + 1 /\ g \in Conn /\ (stop # 0 => stop \in closedConn)
  BY <1>2, DialFacts
<1>5. /\ PcOK' /\ pc'[Creator(g)] = "setStop"
      /\ \A b \in Agents : b # Creator(g) => pc'[b] \notin Owning
      /\ Owners' = {Creator(g)}
  BY <1>1, <1>2, <1>4, OwnerGoto DEF Owning, Dialling, Steps, CreatorSteps
<1>6. Owners = {Creator(g)}
  BY <1>2, <1>4, Alone DEF Owning
<1>7. TypeOK'
  BY <1>3, <1>4, <1>5 DEF IInv, TypeOK, PcOK, ConnectConn, manager, closed, locals, Conn
<1>8. CountMatchesMap'
  BY <1>3 DEF IInv, CountMatchesMap
<1>9. ~Open'
  BY <1>3, <1>4 DEF Open
<1>10. OneOwner'
  BY <1>3, <1>4, <1>5, <1>9 DEF OneOwner
<1>11. Numbered'
  BY <1>1, <1>2, <1>3, <1>4, DialNumbered
<1>12. ConnTracksStop'
  <2>1. \A h \in 1..MaxConns + 1 : pc'[Creator(h)] = "setStop" => h = g
    BY <1>5, AgentFacts DEF Owning, Dialling
  <2>2. \A b \in Agents : pc'[b] # "dConn"
    BY <1>5 DEF Owning, Teardown
  <2> QED BY <1>3, <1>4, <1>5, <1>9, <2>1, <2>2 DEF IInv, ConnTracksStop
<1>13. Phase' = Phase
  BY <1>4, <1>5, <1>6, <1>9 DEF Phase
<1>14. Fresh'
  BY <1>1, <1>2, <1>3, <1>4, GotoFresh DEF Dialling, Steps, CreatorSteps
<1> QED BY <1>3, <1>7, <1>8, <1>10, <1>11, <1>12, <1>13, <1>14 DEF IInv

\* connect() assigns the new stop channel: the connection is open and nobody is
\* in charge of it (the Install step of ConnToken).
LEMMA ConnectStopStep ==
    ASSUME IInv, NEW g \in 1..MaxConns + 1, ConnectStop(g)
    PROVE  IInv' /\ Token!Install
<1>1. Goto(Creator(g), "setStatus")
  BY DEF ConnectStop
<1>2. pc[Creator(g)] = "setStop" /\ pc[Creator(g)] \in Dialling
  BY DEF ConnectStop, At, Dialling
<1>3. UNCHANGED <<conn, inMap, count, closedStop, closedConn>> /\ stop' = g
  BY DEF ConnectStop, closed, manager
<1>4. /\ Creator(g) \in Agents /\ Creator(g) \in Creators /\ ~Open /\ inMap
      /\ g = stop + 1 /\ stop \in 0..MaxConns
      /\ g \in Conn /\ conn = g /\ (stop # 0 => stop \in closedConn)
  BY <1>2, DialFacts
<1>5. /\ PcOK' /\ pc'[Creator(g)] = "setStatus"
      /\ \A b \in Agents : b # Creator(g) => pc'[b] \notin Owning
      /\ Owners' = {}
  BY <1>1, <1>2, <1>4, OwnerGoto DEF Owning, Dialling, Teardown, Steps, CreatorSteps
<1>6. Owners = {Creator(g)}
  BY <1>2, <1>4, Alone DEF Owning
<1>7. TypeOK'
  BY <1>3, <1>4, <1>5 DEF IInv, TypeOK, PcOK, ConnectStop, manager, closed, locals, Conn
<1>8. CountMatchesMap'
  BY <1>3 DEF IInv, CountMatchesMap
<1>9. Open'
  <2>1. closedStop \subseteq 1..stop
    BY DEF IInv, Numbered
  <2> QED BY <1>3, <1>4, <2>1 DEF Open
<1>10. OneOwner'
  BY <1>3, <1>4, <1>5, <1>9 DEF OneOwner
<1>11. Numbered'
  BY <1>1, <1>2, <1>3, <1>4, DialNumbered
<1>12. ConnTracksStop'
  <2>1. \A b \in Agents : pc'[b] \notin {"dConn", "setStop"}
    BY <1>5 DEF Owning, Dialling, Teardown
  <2>2. \A h \in 1..MaxConns + 1 : Creator(h) \in Agents
    BY AgentFacts
  <2>3. \A h \in Conn : h < stop' => h \in closedConn'
    BY <1>3, <1>4 DEF IInv, ConnTracksStop, Conn
  <2> QED BY <1>3, <1>4, <1>9, <2>1, <2>2, <2>3 DEF ConnTracksStop
<1>13. Token!Install
  <2>1. Phase = "dial" /\ Phase' = "up"
    BY <1>4, <1>6, <1>9 DEF Phase
  <2>2. stop < MaxConns /\ stop' = stop + 1
    BY <1>3, <1>4, SocketAssumption DEF Conn
  <2> QED BY <2>1, <2>2 DEF Token!Install
<1>14. Fresh'
  <2>1. \A b \in Agents : b # Creator(g) => pc'[b] = pc[b]
    BY <1>1, <1>2, <1>4, OwnerGoto DEF Owning, Dialling, Steps, CreatorSteps
  <2>2. \A h \in 1..MaxConns + 1 : Creator(h) \in Agents /\ (h # g => Creator(h) # Creator(g))
    BY AgentFacts
  <2>3. \A h \in Conn : Reader(h) \in Agents /\ Writer(h) \in Agents /\ h \in 1..MaxConns + 1
    BY WorkerAgents
  <2>4. \A h \in Conn : Reader(h) # Creator(g) /\ Writer(h) # Creator(g)
    BY <2>3, <1>4, AgentFacts
  <2>5. \A h \in 1..MaxConns + 1 : pc'[Creator(h)] \in {"setStatus", "start"} => h \in 1..stop'
    BY <1>3, <1>4, <2>1, <2>2 DEF IInv, Fresh
  <2>6. ASSUME NEW h \in Conn, stop' < h \/ pc'[Creator(h)] \in {"setStatus", "start"}
        PROVE  pc'[Reader(h)] = "new" /\ pc'[Writer(h)] = "new"
    <3>1. stop < g
      BY <1>4
    <3>2. stop' < h => stop < h
      BY <1>3, <1>4 DEF Conn
    <3>3. ASSUME pc'[Creator(h)] \in {"setStatus", "start"}, h # g
          PROVE  pc[Creator(h)] \in {"setStatus", "start"}
      BY <3>3, <2>1, <2>2, <2>3
    <3>4. stop < h \/ pc[Creator(h)] \in {"setStatus", "start"}
      <4>1. CASE stop' < h
        BY <3>2, <4>1
      <4>2. CASE h = g
        BY <3>1, <4>2
      <4>3. CASE pc'[Creator(h)] \in {"setStatus", "start"} /\ h # g
        BY <3>3, <4>3
      <4> QED BY <2>6, <4>1, <4>2, <4>3
    <3> QED BY <3>4, <2>1, <2>3, <2>4 DEF IInv, Fresh
  <2> QED BY <2>5, <2>6 DEF Fresh
<1> QED BY <1>7, <1>8, <1>10, <1>11, <1>12, <1>13, <1>14 DEF IInv

\* The other steps of connect() and Connect are quiet; the workers start here.
LEMMA ConnectQuiet ==
    ASSUME IInv, NEW g \in 1..MaxConns + 1,
           ConnectStatus(g) \/ ConnectStart(g) \/ ConnectAddress(g)
    PROVE  IInv' /\ Phase' = Phase /\ stop' = stop
<1> USE DEF Owning, Dialling, Teardown, Steps, CreatorSteps
<1>0. Creator(g) \in Agents /\ Creator(g) \in Creators /\ FieldsOK /\ PcOK /\ TypeOK
  BY AgentFacts, TypeParts DEF IInv
<1>1. CASE ConnectStatus(g)
  <2>1. FieldsOK'
    BY <1>0, <1>1 DEF ConnectStatus, FieldsOK, Status, locals
  <2>2. UNCHANGED <<stop, conn, closed, manager>>
    BY <1>1 DEF ConnectStatus
  <2>3. pc[Creator(g)] = "setStatus" /\ Goto(Creator(g), "start")
    BY <1>1 DEF ConnectStatus, At
  <2> QED BY <1>0, <2>1, <2>2, <2>3, QuietGoto
<1>2. CASE ConnectAddress(g)
  <2>1. FieldsOK'
    <3>1. address' \in BOOLEAN
      BY <1>2 DEF ConnectAddress
    <3> QED BY <1>0, <1>2, <3>1 DEF ConnectAddress, FieldsOK, locals
  <2>2. UNCHANGED <<stop, conn, closed, manager>>
    BY <1>2 DEF ConnectAddress
  <2>3. pc[Creator(g)] = "setAddress" /\ Goto(Creator(g), "done")
    BY <1>2 DEF ConnectAddress, At
  <2> QED BY <1>0, <2>1, <2>2, <2>3, QuietGoto
<1>3. CASE ConnectStart(g)
  <2>1. FieldsOK'
    BY <1>0, <1>3 DEF ConnectStart, FieldsOK, locals
  <2>2. UNCHANGED <<stop, conn, closed, manager>>
    BY <1>3 DEF ConnectStart
  <2>3. pc[Creator(g)] = "start"
    BY <1>3 DEF ConnectStart, At
  <2>4. g \in 1..stop /\ g \in Conn
    BY <1>0, <2>3, SocketAssumption DEF IInv, Fresh, TypeOK, Conn
  <2>5. CASE Goto(Creator(g), "done")
    BY <1>0, <2>1, <2>2, <2>3, <2>5, QuietGoto
  <2>6. CASE pc' = [pc EXCEPT ![Creator(g)] = IF Client /\ g = 1 THEN "setAddress" ELSE "done",
                              ![Reader(g)] = "read", ![Writer(g)] = "select"]
    <3>1. /\ Reader(g) \in Agents /\ Writer(g) \in Agents
          /\ Reader(g) \notin Creators /\ Writer(g) \notin Creators
      BY <2>4, WorkerAgents, AgentFacts
    <3>2. pc[Reader(g)] = "new" /\ pc[Writer(g)] = "new"
      BY <2>3, <2>4 DEF IInv, Fresh
    <3>3. /\ \A b \in Agents \ {Creator(g), Reader(g), Writer(g)} : pc'[b] = pc[b]
          /\ pc'[Creator(g)] \in {"setAddress", "done"}
          /\ pc'[Reader(g)] \in {"read", "select"} /\ pc'[Writer(g)] \in {"read", "select"}
      BY <1>0, <2>6, <3>1 DEF PcOK
    <3>4. PcOK'
      <4>1. {"setAddress", "done", "read", "select"} \subseteq Steps
        BY DEF ReaderSteps, WriterSteps
      <4>2. pc' \in [Agents -> Steps]
        BY <1>0, <2>6, <4>1 DEF PcOK
      <4>3. ASSUME NEW b \in Creators
            PROVE  pc'[b] \in CreatorSteps \cup {"release", "drain", "new", "done"}
        BY <1>0, <3>1, <3>3, AgentFacts DEF PcOK
      <4>4. ASSUME NEW b \in Agents \ Creators
            PROVE  pc'[b] \notin CreatorSteps
        BY <1>0, <3>3 DEF PcOK
      <4> QED BY <4>2, <4>3, <4>4 DEF PcOK
    <3>5. TypeOK'
      BY <2>1, <2>2, <3>4 DEF IInv, TypeOK, PcOK, FieldsOK, closed, manager
    <3>6. \A b \in Agents : \/ pc'[b] = pc[b]
                            \/ pc[b] \notin Owning /\ pc'[b] \notin Owning \cup {"new"}
      BY <2>3, <3>2, <3>3
    <3>7. Core' /\ Phase' = Phase
      BY <2>2, <3>5, <3>6, Quiet
    <3>8. Fresh'
      <4>1. \A h \in 1..MaxConns + 1 : /\ Creator(h) \in Agents
                                       /\ Creator(h) # Reader(g) /\ Creator(h) # Writer(g)
                                       /\ h # g => Creator(h) # Creator(g)
        BY <2>4, AgentFacts
      <4>2. \A h \in Conn : /\ Reader(h) \in Agents /\ Writer(h) \in Agents /\ h \in 1..MaxConns + 1
                            /\ Reader(h) # Creator(g) /\ Writer(h) # Creator(g)
                            /\ h # g => Reader(h) # Reader(g) /\ Writer(h) # Writer(g)
                            /\ Reader(h) # Writer(g) /\ Writer(h) # Reader(g)
        BY WorkerAgents DEF Reader, Writer, Creator
      <4>3. \A h \in 1..MaxConns + 1 : pc'[Creator(h)] \in {"setStatus", "start"}
                                       => h # g /\ pc[Creator(h)] \in {"setStatus", "start"}
        BY <3>3, <4>1
      <4>4. ASSUME NEW h \in Conn, stop' < h \/ pc'[Creator(h)] \in {"setStatus", "start"}
            PROVE  pc'[Reader(h)] = "new" /\ pc'[Writer(h)] = "new"
        <5>1. h # g /\ (stop < h \/ pc[Creator(h)] \in {"setStatus", "start"})
          BY <1>0, <2>2, <2>4, <4>2, <4>3, <4>4 DEF TypeOK, Conn
        <5> QED BY <5>1, <3>3, <4>2 DEF IInv, Fresh
      <4> QED BY <2>2, <4>3, <4>4 DEF IInv, Fresh
    <3> QED BY <2>2, <3>7, <3>8 DEF Core, IInv
  <2> QED BY <1>3, <2>5, <2>6 DEF ConnectStart
<1> QED BY <1>1, <1>2, <1>3

\* The end of release() is quiet.
LEMMA DrainedQuiet ==
    ASSUME IInv, NEW a \in Agents, Drained(a)
    PROVE  IInv' /\ Phase' = Phase /\ stop' = stop
<1>1. FieldsOK'
  <2>1. FieldsOK
    BY TypeParts DEF IInv
  <2> QED BY <2>1 DEF Drained, FieldsOK, fields, locals
<1>2. UNCHANGED <<stop, conn, closed, manager>>
  BY DEF Drained, fields
<1>3. pc[a] = "drain" /\ Goto(a, Return(a)) /\ Return(a) \in {"rest", "done"}
  BY DEF Drained, At, Return
<1>4. a \in Creators => Return(a) = "done"
  BY AgentFacts DEF Return
<1> QED BY <1>1, <1>2, <1>3, <1>4, QuietGoto
        DEF Owning, Dialling, Teardown, Steps, CreatorSteps, HeartSteps

\* The stop of the process only raises a flag.
LEMMA ShutdownQuiet ==
    ASSUME IInv, Shutdown
    PROVE  IInv' /\ Phase' = Phase /\ stop' = stop
<1>1. UNCHANGED <<stop, conn, closed, manager, pc>>
  BY DEF Shutdown, fields
<1>2. stopped' \in BOOLEAN
  BY DEF Shutdown
<1>3. TypeOK'
  BY <1>1, <1>2 DEF IInv, TypeOK, Shutdown, fields, locals, closed, manager
<1>4. Core' /\ Phase' = Phase
  BY <1>1, <1>3, Quiet
<1>5. Fresh'
  BY <1>1 DEF IInv, Fresh
<1> QED BY <1>1, <1>4, <1>5 DEF Core, IInv

\* disconnect() up to close(sock.stop), and a close that panics, are quiet.
LEMMA DisconnectQuiet ==
    ASSUME IInv, NEW a \in Workers \cup Hearts,
           DisconnectRead(a) \/ DisconnectCas(a) \/ (DisconnectStop(a) /\ ~Open)
    PROVE  IInv' /\ Phase' = Phase /\ stop' = stop
<1> USE DEF Owning, Dialling, Teardown, Steps, CreatorSteps, DisconnectSteps, HeartSteps
<1>0. a \in Agents \ Creators /\ FieldsOK
  BY AgentFacts, TypeParts DEF IInv
<1>1. CASE DisconnectRead(a)
  <2>1. FieldsOK'
    BY <1>0, <1>1 DEF DisconnectRead, FieldsOK, fields
  <2>2. UNCHANGED <<stop, conn, closed, manager>>
    BY <1>1 DEF DisconnectRead, fields
  <2>3. pc[a] = "dRead" /\ \E l \in {"dCas", "rest", "done"} : Goto(a, l)
    BY <1>1 DEF DisconnectRead, At, Return
  <2> QED BY <1>0, <2>1, <2>2, <2>3, QuietGoto
<1>2. CASE DisconnectCas(a)
  <2>1. FieldsOK'
    BY <1>0, <1>2 DEF DisconnectCas, FieldsOK, Status
  <2>2. UNCHANGED <<stop, conn, closed, manager>>
    BY <1>2 DEF DisconnectCas
  <2>3. pc[a] = "dCas" /\ \E l \in {"dStop", "rest", "done"} : Goto(a, l)
    BY <1>2 DEF DisconnectCas, At, Return
  <2> QED BY <1>0, <2>1, <2>2, <2>3, QuietGoto
<1>3. CASE DisconnectStop(a) /\ ~Open
  <2>1. FieldsOK'
    BY <1>0, <1>3 DEF DisconnectStop, FieldsOK, fields, locals
  <2>2. UNCHANGED <<stop, conn, closed, manager>>
    BY <1>3 DEF DisconnectStop, Open, fields, closed
  <2>3. pc[a] = "dStop" /\ \E l \in {"rest", "done"} : Goto(a, l)
    BY <1>3 DEF DisconnectStop, Open, At, Return
  <2> QED BY <1>0, <2>1, <2>2, <2>3, QuietGoto
<1> QED BY <1>1, <1>2, <1>3

\* A goroutine that closes the stop channel takes charge of the teardown.
LEMMA DisconnectStopStep ==
    ASSUME IInv, NEW a \in Workers \cup Hearts, DisconnectStop(a), Open
    PROVE  IInv' /\ Token!TearDown
<1>1. a \in Agents \ Creators /\ PcOK
  BY AgentFacts, TypeParts DEF IInv
<1>2. pc[a] = "dStop" /\ Goto(a, "dConn") /\ closedStop' = closedStop \cup {stop}
  BY DEF DisconnectStop, Open, At
<1>3. UNCHANGED <<stop, conn, inMap, count, closedConn>>
  BY DEF DisconnectStop, fields, manager
<1>4. Owners = {} /\ inMap /\ conn = stop /\ stop # 0 /\ stop \in Conn
  BY SocketAssumption DEF IInv, OneOwner, ConnTracksStop, Open, TypeOK, Conn
<1>5. PcOK' /\ pc'[a] = "dConn" /\ \A b \in Agents : b # a => pc'[b] = pc[b]
  BY <1>1, <1>2, GotoPc DEF Steps, DisconnectSteps, CreatorSteps
<1>6. \A b \in Agents : b # a => pc'[b] \notin Owning
  BY <1>4, <1>5 DEF Owners, Owning
<1>7. Owners' = {a}
  BY <1>1, <1>5, <1>6 DEF Owners, Owning, Teardown
<1>8. ~Open'
  BY <1>2, <1>3 DEF Open
<1>9. TypeOK'
  BY <1>2, <1>3, <1>4, <1>5 DEF IInv, TypeOK, PcOK, DisconnectStop, fields, locals
<1>10. CountMatchesMap'
  BY <1>3 DEF IInv, CountMatchesMap
<1>11. OneOwner'
  BY <1>3, <1>4, <1>7, <1>8 DEF OneOwner
<1>12. Numbered'
  <2>1. \A g \in 1..MaxConns + 1 : Creator(g) \in Agents /\ Creator(g) # a
    BY <1>1, AgentFacts
  <2>2. \A g \in 1..MaxConns + 1 : pc'[Creator(g)] = pc[Creator(g)]
    BY <1>5, <2>1
  <2>3. closedStop' \subseteq 1..stop'
    BY <1>2, <1>3, <1>4 DEF IInv, Numbered, Conn
  <2> QED BY <1>3, <1>4, <2>2, <2>3 DEF IInv, Numbered
<1>13. ConnTracksStop'
  <2>1. \A g \in 1..MaxConns + 1 : pc'[Creator(g)] # "setStop"
    BY <1>1, <1>6, AgentFacts DEF Owning, Dialling
  <2> QED BY <1>1, <1>3, <1>4, <1>5, <1>8, <2>1 DEF IInv, ConnTracksStop
<1>14. Fresh'
  BY <1>1, <1>2, <1>3, GotoFresh DEF Steps, DisconnectSteps
<1>15. Token!TearDown
  BY <1>1, <1>3, <1>7, <1>8 DEF Phase, Token!TearDown
<1> QED BY <1>9, <1>10, <1>11, <1>12, <1>13, <1>14, <1>15 DEF IInv

\* The numbering survives every teardown step that leaves the stop channel alone.
LEMMA TeardownNumbered ==
    ASSUME IInv, NEW a \in Agents, pc[a] \in Teardown,
           NEW l \in {"dEmit", "release", "drain", "rest", "done"},
           Goto(a, l), UNCHANGED <<stop, closedStop>>
    PROVE  Numbered'
<1>1. pc \in [Agents -> Steps] /\ stop # 0
  BY DEF IInv, TypeOK, Numbered
<1>2. \A b \in Agents : b # a => pc'[b] = pc[b] /\ pc[b] \notin Owning
  BY <1>1, Alone DEF Goto, Owning
<1>3. pc'[a] = l
  BY <1>1 DEF Goto
<1>4. \A g \in 1..MaxConns + 1 : /\ Creator(g) \in Agents
                                 /\ pc'[Creator(g)] = "new" => pc[Creator(g)] = "new"
                                 /\ pc'[Creator(g)] \notin Dialling
  BY <1>2, <1>3, AgentFacts DEF Owning, Dialling
<1> QED BY <1>1, <1>4 DEF IInv, Numbered, Dialling

\* disconnect() closes the connection: the one that the stop channel belongs to.
LEMMA DisconnectConnStep ==
    ASSUME IInv, NEW a \in Workers \cup Hearts, DisconnectConn(a)
    PROVE  IInv' /\ Phase' = Phase /\ stop' = stop
<1>1. a \in Agents \ Creators
  BY AgentFacts
<1>2. pc[a] = "dConn" /\ Goto(a, "dEmit") /\ conn' = 0
  BY DEF DisconnectConn, At
<1>3. UNCHANGED <<stop, inMap, count, closedStop>>
  BY DEF DisconnectConn, manager
<1>4. ~Open /\ Owners = {a} /\ inMap
  BY <1>1, <1>2, Alone DEF Owning, Teardown
<1>5. conn = stop /\ stop # 0 /\ stop \in Conn
  BY <1>1, <1>2, SocketAssumption DEF IInv, ConnTracksStop, Numbered, Teardown, TypeOK, Conn
<1>6. closedConn' = closedConn \cup {stop}
  BY <1>5 DEF DisconnectConn
<1>7. /\ PcOK' /\ pc'[a] = "dEmit" /\ Owners' = {a}
      /\ \A b \in Agents : b # a => pc'[b] \notin Owning
  BY <1>1, <1>2, OwnerGoto DEF Owning, Teardown, Steps, DisconnectSteps, CreatorSteps
<1>8. TypeOK'
  BY <1>2, <1>3, <1>5, <1>6, <1>7, SocketAssumption
     DEF IInv, TypeOK, PcOK, DisconnectConn, locals
<1>9. CountMatchesMap'
  BY <1>3 DEF IInv, CountMatchesMap
<1>10. ~Open'
  BY <1>3, <1>4 DEF Open
<1>11. OneOwner'
  BY <1>3, <1>4, <1>7, <1>10 DEF OneOwner
<1>12. Numbered'
  BY <1>1, <1>2, <1>3, TeardownNumbered DEF Teardown
<1>13. ConnTracksStop'
  <2>1. \A b \in Agents : pc'[b] \notin {"dConn", "setStop"}
    BY <1>7 DEF Owning, Dialling, Teardown
  <2>2. \A h \in 1..MaxConns + 1 : Creator(h) \in Agents
    BY AgentFacts
  <2> QED BY <1>2, <1>3, <1>6, <1>10, <2>1, <2>2 DEF IInv, ConnTracksStop
<1>14. Fresh'
  BY <1>1, <1>2, <1>3, GotoFresh DEF Steps, DisconnectSteps
<1>15. Phase' = Phase
  BY <1>3, <1>4, <1>7, <1>10 DEF Phase
<1> QED BY <1>3, <1>8, <1>9, <1>11, <1>12, <1>13, <1>14, <1>15 DEF IInv

\* release() ends the life of the socket (the Destroy step of ConnToken).
LEMMA ReleaseStep ==
    ASSUME IInv, NEW a \in Agents, Release(a)
    PROVE  IInv' /\ Token!Destroy
<1>1. pc[a] = "release" /\ Goto(a, "drain")
  BY DEF Release, At
<1>2. UNCHANGED <<stop, conn, closedStop, closedConn>> /\ inMap' = FALSE /\ count' = count - 1
  BY DEF Release, closed
<1>3. /\ ~Open /\ Owners = {a} /\ inMap /\ stop # 0
      /\ \A b \in Agents : b # a => pc[b] \notin Owning
  BY <1>1, Alone DEF Owning, Teardown, IInv, Numbered
<1>4. conn = 0 /\ stop \in closedConn
  <2>1. \A b \in Agents : pc[b] \notin {"dConn", "setStop"}
    BY <1>1, <1>3 DEF Owning, Dialling, Teardown
  <2> QED BY <1>3, <2>1 DEF IInv, ConnTracksStop
<1>5. /\ PcOK' /\ Owners' = {} /\ pc'[a] = "drain"
      /\ \A b \in Agents : b # a => pc'[b] \notin Owning
  BY <1>1, OwnerGoto DEF Owning, Dialling, Teardown, Steps, CreatorSteps
<1>6. TypeOK'
  <2>1. data' \in BOOLEAN /\ inMap' \in BOOLEAN
    BY DEF Release
  <2> QED BY <1>2, <1>5, <2>1 DEF IInv, TypeOK, PcOK, Release, locals, Status
<1>7. CountMatchesMap'
  BY <1>2, <1>3 DEF IInv, CountMatchesMap
<1>8. ~Open'
  BY <1>2, <1>3 DEF Open
<1>9. OneOwner'
  BY <1>5, <1>8 DEF OneOwner
<1>10. Numbered'
  BY <1>1, <1>2, TeardownNumbered DEF Teardown
<1>11. ConnTracksStop'
  <2>1. \A b \in Agents : pc'[b] \notin {"dConn", "setStop"}
    BY <1>5 DEF Owning, Dialling, Teardown
  <2>2. \A h \in 1..MaxConns + 1 : Creator(h) \in Agents
    BY AgentFacts
  <2> QED BY <1>2, <1>4, <1>8, <2>1, <2>2 DEF IInv, ConnTracksStop
<1>12. Fresh'
  BY <1>1, <1>2, GotoFresh DEF Steps
<1>13. Token!Destroy
  <2>1. Phase \in {"down", "dial"} /\ Phase' = "gone"
    BY <1>2, <1>3, <1>5, <1>8 DEF Phase
  <2>2. stop > 0
    BY <1>3, SocketAssumption DEF IInv, TypeOK
  <2> QED BY <1>2, <2>1, <2>2 DEF Token!Destroy
<1> QED BY <1>6, <1>7, <1>9, <1>10, <1>11, <1>12, <1>13 DEF IInv

\* The end of disconnect(): a client hands the socket to a redial, a server
\* socket goes on to release(), a callback that panics leaves nobody in charge.
LEMMA DisconnectEmitStep ==
    ASSUME IInv, NEW a \in Workers \cup Hearts, DisconnectEmit(a)
    PROVE  /\ IInv'
           /\ Token!Redial \/ Token!Lose \/ (Phase' = Phase /\ stop' = stop)
<1>1. a \in Agents \ Creators /\ PcOK
  BY AgentFacts, TypeParts DEF IInv
<1>2. pc[a] = "dEmit"
  BY DEF DisconnectEmit, At
<1>3. UNCHANGED <<stop, conn, inMap, count, closedStop, closedConn>>
  BY DEF DisconnectEmit, closed, manager
<1>4. /\ ~Open /\ Owners = {a} /\ inMap /\ stop # 0
      /\ \A b \in Agents : b # a => pc[b] \notin Owning
  BY <1>1, <1>2, Alone DEF Owning, Teardown, IInv, Numbered
<1>5. conn = 0 /\ stop \in closedConn
  <2>1. \A b \in Agents : pc[b] \notin {"dConn", "setStop"}
    BY <1>2, <1>4 DEF Owning, Dialling, Teardown
  <2> QED BY <1>4, <2>1 DEF IInv, ConnTracksStop
<1>6. ~Open' /\ CountMatchesMap'
  BY <1>3, <1>4 DEF Open, IInv, CountMatchesMap
<1>7. status' \in Status
  BY DEF DisconnectEmit, IInv, TypeOK, Status
<1> DEFINE Goal == IInv' /\ (Token!Redial \/ Token!Lose \/ (Phase' = Phase /\ stop' = stop))
<1>8. ASSUME NEW l \in {"release", "rest", "done"}, Goto(a, l),
             l # "release" => "Disconnect" \in CallbackPanics
      PROVE  Goal
  <2>2. /\ PcOK' /\ pc'[a] = l /\ Owners' = (IF l = "release" THEN {a} ELSE {})
        /\ \A b \in Agents : b # a => pc'[b] \notin Owning
    BY <1>1, <1>2, <1>8, OwnerGoto
       DEF Owning, Dialling, Teardown, Steps, CreatorSteps, HeartSteps
  <2>3. TypeOK'
    BY <1>7, <2>2 DEF IInv, TypeOK, PcOK, DisconnectEmit, manager, closed, locals
  <2>4. OneOwner'
    BY <1>3, <1>4, <1>6, <2>2 DEF OneOwner
  <2>5. Numbered'
    BY <1>1, <1>2, <1>3, <1>8, TeardownNumbered DEF Teardown
  <2>6. ConnTracksStop'
    <3>1. \A b \in Agents : pc'[b] \notin {"dConn", "setStop"}
      BY <2>2 DEF Owning, Dialling, Teardown
    <3>2. \A h \in 1..MaxConns + 1 : Creator(h) \in Agents
      BY AgentFacts
    <3> QED BY <1>3, <1>5, <1>6, <3>1, <3>2 DEF IInv, ConnTracksStop
  <2>7. Fresh'
    BY <1>1, <1>2, <1>3, <1>8, GotoFresh DEF Steps, HeartSteps
  <2>8. IInv'
    BY <1>6, <2>3, <2>4, <2>5, <2>6, <2>7 DEF IInv
  <2>9. CASE l = "release"
    BY <1>3, <1>4, <1>6, <2>2, <2>8, <2>9 DEF Phase
  <2>10. CASE l # "release"
    <3>1. Phase = "down" /\ Phase' = "lost"
      BY <1>1, <1>3, <1>4, <1>6, <2>2, <2>10 DEF Phase
    <3> QED BY <1>3, <1>8, <2>8, <2>10, <3>1 DEF Token!Lose
  <2> QED BY <2>9, <2>10
<1>9. CASE pc' = [pc EXCEPT ![a] = Return(a), ![Creator(stop + 1)] = "dial"]
  <2>1. stop + 1 \in 1..MaxConns + 1
    BY SocketAssumption DEF IInv, TypeOK
  <2> DEFINE c == Creator(stop + 1)
  <2>2. c \in Agents /\ c \in Creators /\ c # a
    BY <1>1, <2>1, AgentFacts
  <2>3. /\ pc'[c] = "dial" /\ pc'[a] \in {"rest", "done"}
        /\ \A b \in Agents \ {a, c} : pc'[b] = pc[b] /\ pc'[b] \notin Owning
    BY <1>1, <1>4, <1>9, <2>2 DEF PcOK, Return
  <2>4. PcOK'
    <3>1. pc' \in [Agents -> Steps]
      BY <1>1, <1>9, <2>2 DEF PcOK, Return, Steps, CreatorSteps, HeartSteps
    <3>2. \A b \in Creators : pc'[b] \in CreatorSteps \cup {"release", "drain", "new", "done"}
      BY <1>1, <2>2, <2>3, AgentFacts DEF PcOK, CreatorSteps
    <3>3. \A b \in Agents \ Creators : pc'[b] \notin CreatorSteps
      BY <1>1, <2>2, <2>3 DEF PcOK, CreatorSteps
    <3> QED BY <3>1, <3>2, <3>3 DEF PcOK
  <2>5. Owners' = {c}
    BY <1>1, <2>2, <2>3 DEF Owners, Owning, Dialling, Teardown
  <2>6. TypeOK'
    BY <1>7, <2>4 DEF IInv, TypeOK, PcOK, DisconnectEmit, manager, closed, locals
  <2>7. OneOwner'
    BY <1>3, <1>4, <1>6, <2>5 DEF OneOwner
  <2>8. Numbered'
    <3>1. ASSUME NEW g \in 1..MaxConns + 1
          PROVE  /\ pc'[Creator(g)] = "new" => stop' < g
                 /\ pc'[Creator(g)] \in Dialling => g = stop' + 1
                 /\ pc'[Creator(g)] = "store" => ~inMap' /\ stop' = 0
                 /\ pc'[Creator(g)] \in {"setConn", "setStop"} => g \in Conn
                 /\ pc'[Creator(g)] = "dial" => stop' # 0
      <4>1. CASE g = stop + 1
        BY <1>3, <1>4, <2>3, <4>1 DEF Dialling
      <4>2. CASE g # stop + 1
        <5>1. Creator(g) \in Agents \ {a, c}
          BY <1>1, <2>1, <4>2, AgentFacts
        <5>2. pc'[Creator(g)] = pc[Creator(g)] /\ pc'[Creator(g)] \notin Owning
          BY <2>3, <5>1
        <5> QED BY <1>3, <5>2 DEF IInv, Numbered, Owning, Dialling
      <4> QED BY <4>1, <4>2
    <3>2. \A b \in Agents : pc'[b] \notin Teardown
      BY <2>3 DEF Owning, Teardown
    <3> QED BY <1>3, <3>1, <3>2 DEF IInv, Numbered
  <2>9. ConnTracksStop'
    <3>1. \A b \in Agents : pc'[b] \notin {"dConn", "setStop"}
      BY <2>3 DEF Owning, Dialling, Teardown
    <3>2. \A h \in 1..MaxConns + 1 : Creator(h) \in Agents
      BY AgentFacts
    <3> QED BY <1>3, <1>5, <1>6, <3>1, <3>2 DEF IInv, ConnTracksStop
  <2>10. Fresh'
    <3>1. \A g \in 1..MaxConns + 1 : pc'[Creator(g)] \in {"setStatus", "start"}
                                     => pc[Creator(g)] \in {"setStatus", "start"}
      BY <1>1, <2>3, AgentFacts
    <3>2. \A g \in Conn : /\ Reader(g) \in Agents /\ Writer(g) \in Agents /\ g \in 1..MaxConns + 1
                          /\ Reader(g) # c /\ Writer(g) # c
      BY <2>2, WorkerAgents, AgentFacts
    <3>3. \A g \in Conn : /\ pc[Reader(g)] = "new" => pc'[Reader(g)] = "new"
                          /\ pc[Writer(g)] = "new" => pc'[Writer(g)] = "new"
      BY <1>2, <2>3, <3>2
    <3> QED BY <1>3, <3>1, <3>2, <3>3 DEF IInv, Fresh
  <2>11. Token!Redial
    <3>1. Phase = "down" /\ Phase' = "dial"
      BY <1>1, <1>4, <1>6, <2>2, <2>5 DEF Phase
    <3> QED BY <1>3, <3>1 DEF Token!Redial
  <2> QED BY <1>6, <2>6, <2>7, <2>8, <2>9, <2>10, <2>11 DEF IInv
<1>10. CASE ~address /\ Goto(a, "release")
  BY <1>8, <1>10
<1>11. CASE "Disconnect" \in CallbackPanics /\ Goto(a, Return(a))
  BY <1>8, <1>11 DEF Return
<1> QED BY <1>9, <1>10, <1>11 DEF DisconnectEmit

\* Where the goroutines are at the start.
LEMMA InitPc ==
    ASSUME Init
    PROVE  /\ pc \in [Agents -> Steps] /\ pc[Creator(1)] = "store"
           /\ \A b \in Agents \ {Creator(1)} : pc[b] \in {"rest", "idle", "new"}
           /\ \A b \in Creators \ {Creator(1)} : pc[b] = "new"
           /\ \A b \in Workers : pc[b] = "new"
<1>0. Creator(1) \in Agents /\ Creator(1) \in Creators
  BY SocketAssumption, AgentFacts
<1>1. \A b \in Agents : pc[b] = CASE b = Creator(1) -> "store"
                                   [] b \in Hearts -> "rest"
                                   [] b \in Apps -> "idle"
                                   [] OTHER -> "new"
  BY DEF Init
<1>2. pc[Creator(1)] = "store"
  BY <1>0, <1>1, AgentFacts
<1>3. \A b \in Agents : /\ b \in Hearts => pc[b] = "rest"
                        /\ b \in Apps => pc[b] = "idle"
                        /\ b \notin Hearts \cup Apps \cup {Creator(1)} => pc[b] = "new"
  BY <1>0, <1>1, AgentFacts
<1>4. DOMAIN pc = Agents /\ pc = [b \in DOMAIN pc |-> pc[b]]
  BY DEF Init
<1>5. \A b \in Agents : pc[b] \in Steps
  BY <1>2, <1>3 DEF Steps, CreatorSteps, HeartSteps, AppSteps
<1> QED BY <1>0, <1>2, <1>3, <1>4, <1>5, AgentFacts

\* The initial state: only Create is in charge.
LEMMA InitIInv == Init => IInv /\ Token!TokenInit
<1> SUFFICES ASSUME Init PROVE IInv /\ Token!TokenInit
  OBVIOUS
<1>1. 1 \in 1..MaxConns + 1 /\ Creator(1) \in Agents /\ Creator(1) \in Creators
  BY SocketAssumption, AgentFacts
<1>2. /\ pc \in [Agents -> Steps] /\ pc[Creator(1)] = "store"
      /\ \A b \in Agents \ {Creator(1)} : pc[b] \in {"rest", "idle", "new"}
      /\ \A b \in Creators \ {Creator(1)} : pc[b] = "new"
      /\ \A b \in Workers : pc[b] = "new"
  BY InitPc
<1>3. Owners = {Creator(1)} /\ ~Open
  BY <1>1, <1>2 DEF Init, Owners, Open, Dialling, Teardown
<1>4. TypeOK
  <2>1. data \in BOOLEAN /\ address \in BOOLEAN /\ inMap \in BOOLEAN /\ stopped \in BOOLEAN
    BY DEF Init
  <2> QED BY <1>1, <1>2, <2>1, SocketAssumption DEF Init, TypeOK, Status, CreatorSteps
<1>5. CountMatchesMap
  BY DEF Init, CountMatchesMap
<1>6. OneOwner
  BY <1>2, <1>3 DEF OneOwner
<1>7. Numbered
  <2>1. \A g \in 1..MaxConns + 1 : Creator(g) \in Creators /\ (g # 1 => Creator(g) # Creator(1))
    BY <1>1, AgentFacts
  <2>2. ~inMap
    BY DEF Init
  <2> QED BY <1>2, <2>1, <2>2 DEF Init, Numbered, Dialling, Teardown
<1>8. ConnTracksStop
  BY <1>2, <1>3, AgentFacts, SocketAssumption DEF Init, ConnTracksStop, Conn
<1>9. Fresh
  <2>1. \A g \in Conn : Reader(g) \in Workers /\ Writer(g) \in Workers
    BY DEF Reader, Writer, Workers, Readers, Writers
  <2>2. \A g \in 1..MaxConns + 1 : pc[Creator(g)] \notin {"setStatus", "start"}
    BY <1>2, AgentFacts
  <2> QED BY <1>2, <2>1, <2>2 DEF Fresh, Conn
<1>10. Token!TokenInit
  BY <1>1, <1>3 DEF Init, Token!TokenInit, Phase
<1> QED BY <1>4, <1>5, <1>6, <1>7, <1>8, <1>9, <1>10 DEF IInv

\* Every step of socket.go keeps IInv and is a step, or a stutter, of ConnToken.
LEMMA StepIInv ==
    IInv /\ [Next]_vars => IInv' /\ [Token!TokenNext]_<<Phase, stop>>
<1> SUFFICES ASSUME IInv, [Next]_vars
             PROVE  IInv' /\ (Token!TokenNext \/ (Phase' = Phase /\ stop' = stop))
  OBVIOUS
<1>1. ASSUME NEW g \in 1..MaxConns + 1, CreatorStep(g)
      PROVE  IInv' /\ (Token!TokenNext \/ (Phase' = Phase /\ stop' = stop))
  BY <1>1, CreateStep, TryConnectStep, ConnectConnStep, ConnectStopStep, ConnectQuiet
     DEF CreatorStep, Token!TokenNext
<1>2. ASSUME NEW a \in Workers \cup Hearts, DisconnectStep(a)
      PROVE  IInv' /\ (Token!TokenNext \/ (Phase' = Phase /\ stop' = stop))
  BY <1>2, DisconnectQuiet, DisconnectStopStep, DisconnectConnStep, DisconnectEmitStep
     DEF DisconnectStep, Token!TokenNext
<1>3. ASSUME NEW a \in Agents, Release(a) \/ Drained(a)
      PROVE  IInv' /\ (Token!TokenNext \/ (Phase' = Phase /\ stop' = stop))
  BY <1>3, ReleaseStep, DrainedQuiet DEF Token!TokenNext
<1>4. CASE UNCHANGED vars
  <2>1. UNCHANGED <<stop, conn, closed, manager, pc>> /\ TypeOK'
    BY <1>4 DEF vars, fields, locals, manager, closed, IInv, TypeOK
  <2>2. Core' /\ Phase' = Phase
    BY <2>1, Quiet
  <2>3. Fresh'
    BY <2>1 DEF IInv, Fresh
  <2> QED BY <2>1, <2>2, <2>3 DEF Core, IInv
<1> QED BY <1>1, <1>2, <1>3, <1>4, ReaderQuiet, WriterQuiet, HeartQuiet, AppQuiet, ShutdownQuiet
        DEF Next

\* ConnsClosed follows from the invariant: IInv fixes which connections are closed.
LEMMA IInvConnsClosed == IInv => ConnsClosed
<1> SUFFICES ASSUME IInv PROVE ConnsClosed
  OBVIOUS
<1>1. /\ stop \in 0..MaxConns /\ conn \in 0..MaxConns
      /\ \A g \in Conn : g < stop => g \in closedConn
  BY DEF IInv, TypeOK, ConnTracksStop
<1>2. conn = 0 \/ conn = stop \/ (conn = stop + 1 /\ (stop # 0 => stop \in closedConn))
  <2>1. CASE Open \/ \E a \in Agents : pc[a] = "dConn"
    BY <2>1 DEF IInv, ConnTracksStop
  <2>2. CASE ~Open /\ (\A a \in Agents : pc[a] \notin {"dConn", "setStop"})
    BY <2>2 DEF IInv, ConnTracksStop
  <2>3. CASE \E a \in Agents : pc[a] = "setStop"
    <3>1. PICK a \in Agents : pc[a] = "setStop"
      BY <2>3
    <3>2. a \in Creators
      BY <3>1 DEF IInv, TypeOK, CreatorSteps
    <3>3. PICK g \in 1..MaxConns + 1 : a = Creator(g)
      BY <3>2, AgentFacts
    <3> QED BY <3>1, <3>3, DialFacts DEF Dialling
  <2> QED BY <2>1, <2>2, <2>3
<1>3. \A g \in Conn : (g < stop \/ g < conn) => g \in closedConn
  BY <1>1, <1>2, SocketAssumption DEF Conn
<1>4. ASSUME ~inMap, stop # 0
      PROVE  conn = 0 /\ stop \in closedConn
  <2>1. ~Open /\ \A a \in Agents : pc[a] \in Owning => pc[a] = "store"
    BY <1>4 DEF IInv, OneOwner, Owners, Owning
  <2>2. \A a \in Agents : pc[a] \notin {"dConn", "setStop"}
    BY <2>1 DEF Owning, Dialling, Teardown
  <2> QED BY <1>4, <2>1, <2>2 DEF IInv, ConnTracksStop
<1> QED BY <1>3, <1>4 DEF ConnsClosed

\* IInv is an invariant of the socket.
THEOREM Invariant == Spec => []IInv
<1>1. Init => IInv
  BY InitIInv
<1>2. IInv /\ [Next]_vars => IInv'
  BY StepIInv
<1> QED BY <1>1, <1>2, PTL DEF Spec

\* Type correctness of the socket, for every size.
THEOREM TypeCorrect == Spec => []TypeOK
<1>1. IInv => TypeOK
  BY DEF IInv
<1> QED BY <1>1, Invariant, PTL

\* release() of socket.go runs at most once however many workers, heartbeats and
\* reconnects race into disconnect(): Sockets.count and the map agree.
THEOREM CountCorrect == Spec => []CountMatchesMap
<1>1. IInv => CountMatchesMap
  BY DEF IInv
<1> QED BY <1>1, Invariant, PTL

\* Closing the stop channel is a mutual exclusion: one goroutine at a time tears
\* a connection down or installs the next one.
THEOREM Exclusion == Spec => []OneOwner
<1>1. IInv => OneOwner
  BY DEF IInv
<1> QED BY <1>1, Invariant, PTL

\* No connection is leaked: a replaced connection, and the last one of a released
\* socket, were closed by disconnect().
THEOREM NoLeak == Spec => []ConnsClosed
<1> QED BY IInvConnsClosed, Invariant, PTL

\* The socket implements ConnToken, under the mapping of module Socket.
THEOREM Refinement == Spec => TokenSpec
<1>1. Init => Token!TokenInit
  BY InitIInv
<1>2. IInv /\ [Next]_vars => [Token!TokenNext]_(Token!tokenVars)
  BY StepIInv DEF Token!tokenVars
<1> QED BY <1>1, <1>2, Invariant, PTL DEF Spec, TokenSpec, Token!TokenSpec
=============================================================================
