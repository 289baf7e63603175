-------------------------- MODULE SocketSendProofs --------------------------
(***************************************************************************)
(* Proofs about module SocketSend: it implements module Socket, so that    *)
(* the theorems of SocketProofs hold of it, and no message has two owners. *)
(***************************************************************************)
EXTENDS SocketSend, SocketProofs

\* The composed specification, with broadcasts too, starts and steps as the socket does.
LEMMA SendImplementsStep == [SharedNext]_allVars => [Next]_vars
<1> SUFFICES ASSUME [SharedNext]_allVars PROVE [Next]_vars
  OBVIOUS
<1>1. ASSUME NEW a \in CallerIds, Call(a) PROVE UNCHANGED vars
  BY <1>1 DEF Call, Start
<1>2. ASSUME NEW a \in Readers, Reply(a) PROVE UNCHANGED vars
  BY <1>2 DEF Reply, Start
<1>3. ASSUME NEW a \in Senders, SendStep(a) PROVE UNCHANGED vars
  BY <1>3 DEF SendStep, WriteReady, WriteSelect, WriteEnqueue, WriteStopped, WriteFull, WriteFailed
<1>4. ASSUME NEW a \in Readers, Receive(a) \/ ReceiveFailed(a) \/ Handled(a) \/ Kept(a)
      PROVE  Next
  BY <1>4 DEF Receive, ReceiveFailed, Handled, Kept, Next, ReaderStep
<1>5. ASSUME NEW a \in Writers, Take(a) \/ Transmit(a) \/ Transmitted(a)
      PROVE  Next
  BY <1>5 DEF Take, Transmit, Transmitted, Next, WriterStep
<1>6. ASSUME NEW a \in Agents, DrainOne(a) \/ DrainEnd(a)
      PROVE  [Next]_vars
  BY <1>6 DEF DrainOne, DrainEnd, Next
<1>7. ASSUME Elsewhere PROVE Next
  BY <1>7 DEF Elsewhere, Next, ReaderStep, WriterStep
<1>8. CASE UNCHANGED allVars
  BY <1>8 DEF allVars
<1>9. ASSUME NEW a \in CallerIds, Broadcast(a) \/ LentFreed(a) PROVE UNCHANGED vars
  BY <1>9 DEF Broadcast, LentFreed
<1> QED BY <1>1, <1>2, <1>3, <1>4, <1>5, <1>6, <1>7, <1>8, <1>9 DEF SharedNext, SendNext, CallerIds

\* Sending and draining are stutters of the socket; every other step is one of its
\* own, so that what SocketProofs proves of socket.go holds with messages too.
THEOREM SendImplementsSocket == SharedSpec => Spec
<1>1. SendInit => Init
  BY DEF SendInit
<1> QED BY <1>1, SendImplementsStep, PTL DEF SharedSpec, Spec

\* The slots of different goroutines and of different roles are different.
OwnSlots == ({"in"} \X Readers) \cup ({"out"} \X Senders) \cup ({"wr"} \X Writers)

LEMMA SlotFacts ==
    /\ \A a \in Readers : In(a) \in OwnSlots
    /\ \A a \in Senders : Out(a) \in OwnSlots
    /\ \A a \in Writers : Wr(a) \in OwnSlots
    /\ \A a \in CallerIds : Lent(a) \in Slots /\ Lent(a) \notin OwnSlots
    /\ OwnSlots \subseteq Slots
    /\ \A a \in Readers : \A b \in Senders : In(a) # Out(b)
    /\ \A a \in Readers : \A b \in Writers : In(a) # Wr(b)
    /\ \A a \in Senders : \A b \in Writers : Out(a) # Wr(b)
    /\ \A a, b \in Readers : In(a) = In(b) => a = b
    /\ \A a, b \in Senders : Out(a) = Out(b) => a = b
    /\ \A a, b \in Writers : Wr(a) = Wr(b) => a = b
    /\ Readers \subseteq Senders
BY DEF In, Out, Wr, Lent, Slots, OwnSlots, Senders, CallerIds

\* Only a broadcast, never a step on a message in somebody's hands, makes one shared.
LEMMA SharedBefore ==
    ASSUME NEW x \in OwnSlots, \A y \in Slots : y # x => hold'[y] = hold[y]
    PROVE  Shared' <=> Shared
BY SlotFacts DEF Shared

\* What the ownership of messages needs of the types.
Typed ==
    /\ cwrite \in Seq(Msgs) /\ Len(cwrite) <= WriteChanSize
    /\ pool \subseteq Msgs
    /\ hold \in [Slots -> Msgs \cup {NoMsg}]

\* Require gives a message to one slot that held none.
LEMMA RequireOwns ==
    ASSUME Typed, NoSharing, NEW x \in OwnSlots, Require(x), cwrite' = cwrite
    PROVE  /\ Typed' /\ NoSharing' /\ hold'[x] # NoMsg
           /\ \A y \in Slots : y # x => hold'[y] = hold[y]
<1>1. PICK m \in pool \cup (Msgs \ InUse) :
         hold' = [hold EXCEPT ![x] = m] /\ pool' = pool \ {m}
  BY DEF Require
<1>2. m \in Msgs /\ m # NoMsg
  BY <1>1, SendAssumption DEF Typed
<1>3. hold'[x] = m /\ \A y \in Slots : y # x => hold'[y] = hold[y]
  BY <1>1, SlotFacts DEF Typed
<1>4. Typed'
  BY <1>1, <1>2, SlotFacts DEF Typed
<1>5. ASSUME OneOwnerEach PROVE OneOwnerEach'
  <2>1. (\A y \in Slots : hold[y] # m) /\ (\A i \in 1..Len(cwrite) : cwrite[i] # m)
    BY <1>1, <1>5 DEF OneOwnerEach, InUse, Queued
  <2> QED BY <1>1, <1>3, <1>5, <2>1 DEF OneOwnerEach
<1>6. NoSharing'
  BY <1>3, <1>5, SharedBefore DEF NoSharing
<1> QED BY <1>2, <1>3, <1>4, <1>6

\* Release takes a message from its only owner.
LEMMA ReleaseOwns ==
    ASSUME Typed, NoSharing, NEW x \in OwnSlots, hold[x] # NoMsg, ReleaseMsg(x), cwrite' = cwrite
    PROVE  /\ Typed' /\ NoSharing' /\ hold'[x] = NoMsg
           /\ \A y \in Slots : y # x => hold'[y] = hold[y]
<1>1. hold'[x] = NoMsg /\ \A y \in Slots : y # x => hold'[y] = hold[y]
  BY SlotFacts DEF Typed, ReleaseMsg
<1>2. Typed'
  BY SlotFacts DEF Typed, ReleaseMsg
<1>3. ASSUME OneOwnerEach PROVE OneOwnerEach'
  <2>1. NoMsg \notin pool' /\ \A i \in 1..Len(cwrite) : cwrite[i] # hold[x]
    BY <1>2, <1>3, SlotFacts, SendAssumption DEF Typed, OneOwnerEach
  <2> QED BY <1>1, <1>3, <2>1, SlotFacts, SendAssumption DEF OneOwnerEach, ReleaseMsg, Typed
<1>4. NoSharing'
  BY <1>1, <1>3, SharedBefore DEF NoSharing
<1> QED BY <1>1, <1>2, <1>4

\* A message that is forgotten has no owner.
LEMMA ForgetOwns ==
    ASSUME Typed, NoSharing, NEW x \in OwnSlots, Forget(x), cwrite' = cwrite
    PROVE  /\ Typed' /\ NoSharing' /\ hold'[x] = NoMsg
           /\ \A y \in Slots : y # x => hold'[y] = hold[y]
<1>1. hold'[x] = NoMsg /\ \A y \in Slots : y # x => hold'[y] = hold[y]
  BY SlotFacts DEF Typed, Forget
<1>2. Typed'
  BY SlotFacts DEF Typed, Forget
<1>3. ASSUME OneOwnerEach PROVE OneOwnerEach'
  BY <1>1, <1>2, <1>3, SendAssumption DEF OneOwnerEach, Forget, Typed
<1>4. NoSharing'
  BY <1>1, <1>3, SharedBefore DEF NoSharing
<1> QED BY <1>1, <1>2, <1>4

\* Queueing moves a message from its owner to the end of the channel.
LEMMA EnqueueOwns ==
    ASSUME Typed, NoSharing, NEW x \in OwnSlots, hold[x] # NoMsg, Len(cwrite) < WriteChanSize,
           cwrite' = Append(cwrite, hold[x]), hold' = [hold EXCEPT ![x] = NoMsg], pool' = pool
    PROVE  /\ Typed' /\ NoSharing' /\ hold'[x] = NoMsg
           /\ \A y \in Slots : y # x => hold'[y] = hold[y]
<1>1. hold'[x] = NoMsg /\ \A y \in Slots : y # x => hold'[y] = hold[y]
  BY SlotFacts DEF Typed
<1>2. /\ cwrite \in Seq(Msgs) /\ hold[x] \in Msgs /\ Len(cwrite) \in Nat
      /\ Len(cwrite') = Len(cwrite) + 1 /\ cwrite'[Len(cwrite) + 1] = hold[x]
      /\ \A i \in 1..Len(cwrite) : cwrite'[i] = cwrite[i]
  BY SlotFacts DEF Typed
<1>3. Typed'
  BY <1>2, SlotFacts, SendAssumption DEF Typed
<1>4. \A i \in 1..Len(cwrite') : i \in 1..Len(cwrite) \/ i = Len(cwrite) + 1
  BY <1>2
<1>5. \A i \in 1..Len(cwrite') : cwrite'[i] \in Msgs /\ cwrite'[i] # NoMsg
  BY <1>3, SendAssumption DEF Typed
<1>6. ASSUME OneOwnerEach PROVE OneOwnerEach'
  <2>1. \A y, z \in Slots : hold'[y] = hold'[z] /\ hold'[y] # NoMsg => y = z
    BY <1>1, <1>6 DEF OneOwnerEach
  <2>2. \A y \in Slots : hold'[y] \notin pool'
    BY <1>1, <1>6, SendAssumption DEF OneOwnerEach, Typed
  <2>3. ASSUME NEW i \in 1..Len(cwrite')
        PROVE  cwrite'[i] \notin pool' /\ \A y \in Slots : hold'[y] # cwrite'[i]
    BY <1>1, <1>2, <1>4, <1>5, <1>6, SlotFacts DEF OneOwnerEach
  <2>4. ASSUME NEW i \in 1..Len(cwrite'), NEW j \in 1..Len(cwrite'), cwrite'[i] = cwrite'[j]
        PROVE  i = j
    BY <1>1, <1>2, <1>4, <1>6, <2>4, SlotFacts DEF OneOwnerEach
  <2> QED BY <2>1, <2>2, <2>3, <2>4 DEF OneOwnerEach
<1>7. NoSharing'
  BY <1>1, <1>6, SharedBefore DEF NoSharing
<1> QED BY <1>1, <1>3, <1>7

\* The head of the channel leaves it; the others move up.
LEMMA TailFacts ==
    ASSUME Typed, cwrite # <<>>
    PROVE  /\ Head(cwrite) = cwrite[1] /\ 1 \in 1..Len(cwrite) /\ Head(cwrite) \in Msgs
           /\ Tail(cwrite) \in Seq(Msgs) /\ Len(Tail(cwrite)) = Len(cwrite) - 1
           /\ Len(cwrite) \in Nat
           /\ \A i \in 1..Len(Tail(cwrite)) : Tail(cwrite)[i] = cwrite[i + 1] /\ i + 1 \in 1..Len(cwrite)
BY DEF Typed

\* The writer takes the head of the channel.
LEMMA TakeOwns ==
    ASSUME Typed, NoSharing, NEW x \in OwnSlots, hold[x] = NoMsg, cwrite # <<>>,
           cwrite' = Tail(cwrite), hold' = [hold EXCEPT ![x] = Head(cwrite)], pool' = pool
    PROVE  /\ Typed' /\ NoSharing' /\ hold'[x] # NoMsg
           /\ \A y \in Slots : y # x => hold'[y] = hold[y]
<1>1. hold'[x] = Head(cwrite) /\ \A y \in Slots : y # x => hold'[y] = hold[y]
  BY SlotFacts DEF Typed
<1>2. hold'[x] # NoMsg
  BY <1>1, TailFacts, SendAssumption
<1>3. Typed'
  BY TailFacts, SlotFacts, SendAssumption DEF Typed
<1>4. \A i \in 1..Len(cwrite') : cwrite'[i] = cwrite[i + 1] /\ i + 1 \in 1..Len(cwrite)
  BY TailFacts
<1>5. ASSUME OneOwnerEach PROVE OneOwnerEach'
  <2>1. \A y \in Slots : hold[y] # Head(cwrite) /\ Head(cwrite) \notin pool
    BY <1>5, TailFacts DEF OneOwnerEach
  <2>6. \A i \in 1..Len(cwrite') : cwrite'[i] # Head(cwrite)
    BY <1>4, <1>5, TailFacts DEF OneOwnerEach
  <2>2. \A y, z \in Slots : hold'[y] = hold'[z] /\ hold'[y] # NoMsg => y = z
    BY <1>1, <1>5, <2>1 DEF OneOwnerEach
  <2>3. \A y \in Slots : hold'[y] \notin pool'
    BY <1>1, <1>5, <2>1 DEF OneOwnerEach
  <2>4. \A i \in 1..Len(cwrite') : cwrite'[i] \notin pool' /\ \A y \in Slots : hold'[y] # cwrite'[i]
    BY <1>1, <1>4, <1>5, <2>6 DEF OneOwnerEach
  <2>5. ASSUME NEW i \in 1..Len(cwrite'), NEW j \in 1..Len(cwrite'), cwrite'[i] = cwrite'[j]
        PROVE  i = j
    BY <1>4, <1>5, <2>5 DEF OneOwnerEach
  <2> QED BY <2>2, <2>3, <2>4, <2>5 DEF OneOwnerEach
<1>6. NoSharing'
  BY <1>1, <1>5, SharedBefore DEF NoSharing
<1> QED BY <1>1, <1>2, <1>3, <1>6

\* release() moves the head of the channel to the pool.
LEMMA DrainOwns ==
    ASSUME Typed, NoSharing, cwrite # <<>>,
           cwrite' = Tail(cwrite), hold' = hold, pool' = pool \cup {Head(cwrite)}
    PROVE  Typed' /\ NoSharing'
<1>1. Typed'
  BY TailFacts, SendAssumption DEF Typed
<1>2. \A i \in 1..Len(cwrite') : cwrite'[i] = cwrite[i + 1] /\ i + 1 \in 1..Len(cwrite)
  BY TailFacts
<1>3. ASSUME OneOwnerEach PROVE OneOwnerEach'
  <2>1. \A i \in 1..Len(cwrite') : cwrite'[i] # Head(cwrite)
    BY <1>2, <1>3, TailFacts DEF OneOwnerEach
  <2>2. \A y \in Slots : hold[y] # Head(cwrite)
    BY <1>3, TailFacts DEF OneOwnerEach
  <2>3. ASSUME NEW i \in 1..Len(cwrite'), NEW j \in 1..Len(cwrite'), cwrite'[i] = cwrite'[j]
        PROVE  i = j
    BY <1>2, <1>3, <2>3 DEF OneOwnerEach
  <2> QED BY <1>2, <1>3, <2>1, <2>2, <2>3 DEF OneOwnerEach
<1>4. NoSharing'
  BY <1>3 DEF NoSharing, Shared
<1> QED BY <1>1, <1>4

-----------------------------------------------------------------------------
\* The steps at which a reader, or a writer, has a message in its hands.
ReaderHas == ReaderSteps \ {"read"}
WriterHas == {"write", "sending"}

SndOK == snd \in [Senders -> [at : {"idle", "ready", "select", "waiting", "failed"},
                              op : {"Send", "Write", "Broadcast"}, safe : BOOLEAN, stop : 0..MaxConns]]

\* SendInv in the parts that the steps below treat one by one.
LEMMA SendParts ==
    SendInv <=> /\ Typed /\ SndOK /\ NoSharing
                /\ \A a \in Senders : hold[Out(a)] = NoMsg <=> snd[a].at = "idle"
                /\ \A a \in Writers : hold[Wr(a)] = NoMsg <=> pc[a] \notin WriterHas
                /\ \A a \in Readers : hold[In(a)] = NoMsg <=> pc[a] \notin ReaderHas
BY DEF SendInv, SendTypeOK, HoldsAtSteps, Typed, SndOK, ReaderHas, WriterHas

\* The same after a step.
LEMMA SendPartsNext ==
    ASSUME Typed', SndOK', NoSharing',
           \A a \in Senders : hold'[Out(a)] = NoMsg <=> snd'[a].at = "idle",
           \A a \in Writers : hold'[Wr(a)] = NoMsg <=> pc'[a] \notin WriterHas,
           \A a \in Readers : hold'[In(a)] = NoMsg <=> pc'[a] \notin ReaderHas
    PROVE  SendInv'
BY DEF SendInv, SendTypeOK, HoldsAtSteps, Typed, SndOK, ReaderHas, WriterHas

\* What a step of one goroutine does to the program counters of the workers.
LEMMA GotoWorkers ==
    ASSUME TypeOK, NEW a \in Agents, NEW l, Goto(a, l)
    PROVE  pc'[a] = l /\ \A b \in Agents : b # a => pc'[b] = pc[b]
BY DEF TypeOK, Goto

\* The workers are goroutines of the socket.
LEMMA WorkersAreAgents == Readers \subseteq Agents /\ Writers \subseteq Agents /\ Readers \cap Writers = {}
BY DEF Agents, Workers, Readers, Writers

\* No step outside the message path gives or takes a message from a worker: its
\* program counter stays on the same side.
LEMMA ElsewherePc ==
    ASSUME IInv, Elsewhere
    PROVE  /\ \A b \in Readers : pc'[b] \in ReaderHas <=> pc[b] \in ReaderHas
           /\ \A b \in Writers : pc'[b] \in WriterHas <=> pc[b] \in WriterHas
<1> DEFINE Same == /\ \A b \in Readers : pc'[b] \in ReaderHas <=> pc[b] \in ReaderHas
                   /\ \A b \in Writers : pc'[b] \in WriterHas <=> pc[b] \in WriterHas
<1>0. TypeOK /\ PcOK
  BY TypeParts DEF IInv
<1>1. ASSUME NEW a \in Agents, NEW l, Goto(a, l),
             a \in Workers => /\ pc[a] \in ReaderHas <=> l \in ReaderHas
                              /\ pc[a] \in WriterHas <=> l \in WriterHas
      PROVE  Same
  BY <1>0, <1>1, GotoWorkers, AgentFacts, WorkersAreAgents
<1>2. ASSUME NEW g \in 1..MaxConns + 1, CreatorStep(g) PROVE Same
  <2>1. Creator(g) \in Agents /\ Creator(g) \notin Workers
    BY AgentFacts
  <2>2. CASE \E l : Goto(Creator(g), l)
    BY <1>1, <2>1, <2>2
  <2>3. CASE /\ At(Creator(g), "start")
             /\ pc' = [pc EXCEPT ![Creator(g)] = IF Client /\ g = 1 THEN "setAddress" ELSE "done",
                                 ![Reader(g)] = "read", ![Writer(g)] = "select"]
    <3>1. g \in Conn /\ pc[Reader(g)] = "new" /\ pc[Writer(g)] = "new"
      BY <2>3, SocketAssumption DEF IInv, Fresh, TypeOK, Conn, At
    <3>2. Reader(g) \in Agents /\ Writer(g) \in Agents /\ Reader(g) # Writer(g)
      BY <3>1, WorkerAgents DEF Reader, Writer
    <3>3. Creator(g) # Reader(g) /\ Creator(g) # Writer(g)
      BY AgentFacts
    <3>4. /\ pc'[Reader(g)] = "read" /\ pc'[Writer(g)] = "select"
          /\ \A b \in Agents \ {Creator(g), Reader(g), Writer(g)} : pc'[b] = pc[b]
      BY <1>0, <2>1, <2>3, <3>2, <3>3 DEF TypeOK
    <3> QED BY <2>1, <3>1, <3>4, WorkersAreAgents, AgentFacts DEF ReaderHas, WriterHas, ReaderSteps
  <2> QED BY <1>2, <2>2, <2>3 DEF CreatorStep, Create, ConnectConn, ConnectStop, ConnectStatus,
             ConnectStart, ConnectAddress, TryConnect
<1>3. ASSUME NEW a \in Workers \cup Hearts, DisconnectStep(a) PROVE Same
  <2>1. a \in Agents /\ a \notin Creators
    BY AgentFacts
  <2>2. pc[a] \in DisconnectSteps
    BY <1>3 DEF DisconnectStep, DisconnectRead, DisconnectCas, DisconnectStop, DisconnectConn,
                DisconnectEmit, At, DisconnectSteps
  <2>3. CASE \E l \in DisconnectSteps \cup {"release", "rest", "done"} : Goto(a, l)
    BY <1>1, <2>1, <2>2, <2>3 DEF ReaderHas, WriterHas, ReaderSteps, DisconnectSteps
  <2>4. CASE pc' = [pc EXCEPT ![a] = Return(a), ![Creator(stop + 1)] = "dial"]
    <3>1. stop + 1 \in 1..MaxConns + 1
      BY <1>0, SocketAssumption DEF TypeOK
    <3>2. Creator(stop + 1) \in Agents /\ Creator(stop + 1) \notin Workers /\ Creator(stop + 1) # a
      BY <2>1, <3>1, AgentFacts
    <3>3. /\ pc'[a] \in {"rest", "done"}
          /\ \A b \in Agents \ {a, Creator(stop + 1)} : pc'[b] = pc[b]
      BY <1>0, <2>1, <2>4, <3>2 DEF TypeOK, Return
    <3> QED BY <2>2, <3>2, <3>3, WorkersAreAgents, AgentFacts
            DEF ReaderHas, WriterHas, ReaderSteps, DisconnectSteps
  <2> QED BY <1>3, <2>3, <2>4 DEF DisconnectStep, DisconnectRead, DisconnectCas, DisconnectStop,
             DisconnectConn, DisconnectEmit, Return, DisconnectSteps
<1>4. ASSUME NEW a \in Agents, Release(a) PROVE Same
  BY <1>1, <1>4 DEF Release, At, ReaderHas, WriterHas, ReaderSteps
<1>5. ASSUME NEW a \in Readers,
             ReadMsgTrue(a) \/ KeepAliveStatus(a) \/ KeepAliveBeat(a) \/ KeepAliveData(a)
      PROVE  Same
  BY <1>1, <1>5, WorkersAreAgents
     DEF ReadMsgTrue, KeepAliveStatus, KeepAliveBeat, KeepAliveData, At, ReaderHas, WriterHas, ReaderSteps
<1>6. ASSUME NEW a \in Writers, WriteMsg(a) \/ WriteMsgDone(a) PROVE Same
  BY <1>1, <1>6, WorkersAreAgents DEF WriteMsg, WriteMsgDone, At, ReaderHas, WriterHas, ReaderSteps
<1>7. ASSUME NEW a \in Hearts, HeartStep(a) PROVE Same
  BY <1>1, <1>7, AgentFacts DEF HeartStep, Heartbeat, HeartbeatAdd, HeartbeatCmp, DaemonDone
<1>8. ASSUME NEW a \in Apps, AppStep(a) PROVE Same
  BY <1>1, <1>8, AgentFacts
     DEF AppStep, Close, Replaced, Authentication, CloseCas, CloseBeat, CloseDelay
<1>9. ASSUME Shutdown PROVE Same
  BY <1>9 DEF Shutdown
<1> QED BY <1>2, <1>3, <1>4, <1>5, <1>6, <1>7, <1>8, <1>9 DEF Elsewhere

-----------------------------------------------------------------------------
\* The senders' steps: the message moves from the pool to the sender, from there
\* to the channel, or back.
LEMMA SenderStep ==
    ASSUME SendInv, IInv, NEW a \in Senders,
           \/ SendStep(a)
           \/ \E op \in {"Send", "Write"}, safe \in BOOLEAN : Start(a, op, safe)
    PROVE  SendInv'
<1>0. /\ Typed /\ SndOK /\ NoSharing /\ Out(a) \in OwnSlots /\ Out(a) \in Slots
      /\ hold[Out(a)] = NoMsg <=> snd[a].at = "idle"
  BY SendParts, SlotFacts
<1>1. ASSUME Typed', NoSharing', SndOK', pc' = pc,
             \A y \in Slots : y # Out(a) => hold'[y] = hold[y],
             \A b \in Senders : b # a => snd'[b] = snd[b],
             hold'[Out(a)] = NoMsg <=> snd'[a].at = "idle"
      PROVE  SendInv'
  BY <1>1, SendParts, SendPartsNext, SlotFacts
<1>2. ASSUME WriteReady(a) \/ WriteSelect(a) \/ WriteStopped(a) \/ WriteFull(a) PROVE SendInv'
  <2>1. UNCHANGED <<cwrite, pool, hold, pc>>
    BY <1>2 DEF WriteReady, WriteSelect, WriteStopped, WriteFull, vars
  <2>2. Typed' /\ NoSharing'
    BY <1>0, <2>1 DEF Typed, NoSharing, OneOwnerEach, Shared
  <2>3. stop \in 0..MaxConns
    BY DEF IInv, TypeOK
  <2>4. /\ SndOK' /\ snd'[a].at # "idle" /\ snd[a].at # "idle"
        /\ \A b \in Senders : b # a => snd'[b] = snd[b]
    BY <1>0, <1>2, <2>3 DEF WriteReady, WriteSelect, WriteStopped, WriteFull, SndOK, SndAt, SndGoto
  <2> QED BY <1>0, <1>1, <2>1, <2>2, <2>4
<1>3. ASSUME SndIdle(a)
      PROVE  /\ SndOK' /\ snd'[a].at = "idle"
             /\ \A b \in Senders : b # a => snd'[b] = snd[b]
  BY <1>0, <1>3, SocketAssumption DEF SndOK, SndIdle
<1>4. ASSUME WriteEnqueue(a) PROVE SendInv'
  <2>1. hold[Out(a)] # NoMsg /\ SndIdle(a) /\ pc' = pc
    BY <1>0, <1>4 DEF WriteEnqueue, SndAt, vars
  <2>2. /\ Typed' /\ NoSharing' /\ hold'[Out(a)] = NoMsg
        /\ \A y \in Slots : y # Out(a) => hold'[y] = hold[y]
    BY <1>0, <1>4, <2>1, EnqueueOwns DEF WriteEnqueue
  <2> QED BY <1>1, <1>3, <2>1, <2>2
<1>5. ASSUME WriteFailed(a) PROVE SendInv'
  <2>1. hold[Out(a)] # NoMsg /\ SndIdle(a) /\ pc' = pc /\ cwrite' = cwrite
    BY <1>0, <1>5 DEF WriteFailed, SndAt, vars
  <2>2. ReleaseMsg(Out(a)) \/ Forget(Out(a))
    BY <1>5 DEF WriteFailed
  <2>3. /\ Typed' /\ NoSharing' /\ hold'[Out(a)] = NoMsg
        /\ \A y \in Slots : y # Out(a) => hold'[y] = hold[y]
    BY <1>0, <2>1, <2>2, ReleaseOwns, ForgetOwns
  <2> QED BY <1>1, <1>3, <2>1, <2>3
<1>6. ASSUME NEW op \in {"Send", "Write"}, NEW safe \in BOOLEAN, Start(a, op, safe) PROVE SendInv'
  <2>1. pc' = pc /\ cwrite' = cwrite /\ snd[a].at = "idle"
    BY <1>6 DEF Start, SndAt, vars
  <2>2. CASE /\ Require(Out(a))
             /\ snd' = [snd EXCEPT ![a] = [at |-> "ready", op |-> op, safe |-> safe, stop |-> 0]]
    <3>1. /\ Typed' /\ NoSharing' /\ hold'[Out(a)] # NoMsg
          /\ \A y \in Slots : y # Out(a) => hold'[y] = hold[y]
      BY <1>0, <2>1, <2>2, RequireOwns
    <3>2. /\ SndOK' /\ snd'[a].at = "ready"
          /\ \A b \in Senders : b # a => snd'[b] = snd[b]
      BY <1>0, <2>2, SocketAssumption DEF SndOK
    <3> QED BY <1>1, <2>1, <3>1, <3>2
  <2>3. CASE /\ \E m \in pool \cup (Msgs \ InUse) : pool' = pool \cup {m}
             /\ UNCHANGED <<hold, snd>>
    <3>1. PICK m \in pool \cup (Msgs \ InUse) : pool' = pool \cup {m}
      BY <2>3
    <3>2. ASSUME OneOwnerEach PROVE OneOwnerEach'
      <4>1. (\A y \in Slots : hold[y] # m) /\ (\A i \in 1..Len(cwrite) : cwrite[i] # m)
        BY <3>1, <3>2 DEF OneOwnerEach, InUse, Queued
      <4> QED BY <2>1, <2>3, <3>1, <3>2, <4>1 DEF OneOwnerEach
    <3>3. Typed' /\ NoSharing'
      BY <1>0, <2>1, <2>3, <3>1, <3>2 DEF Typed, NoSharing, Shared
    <3>4. SndOK'
      BY <1>0, <2>3 DEF SndOK
    <3> QED BY <1>0, <1>1, <2>1, <2>3, <3>3, <3>4
  <2> QED BY <1>6, <2>2, <2>3 DEF Start
<1> QED BY <1>2, <1>4, <1>5, <1>6 DEF SendStep

\* The reader's steps on the message it received.
LEMMA ReceiverStep ==
    ASSUME SendInv, IInv, NEW a \in Readers,
           Receive(a) \/ ReceiveFailed(a) \/ Handled(a) \/ Kept(a)
    PROVE  SendInv'
<1> USE DEF ReaderHas, ReaderSteps
<1>0. /\ Typed /\ SndOK /\ NoSharing /\ In(a) \in OwnSlots /\ In(a) \in Slots /\ a \in Agents /\ TypeOK
      /\ hold[In(a)] = NoMsg <=> pc[a] \notin ReaderHas
  BY SendParts, SlotFacts, WorkersAreAgents DEF IInv
<1>1. cwrite' = cwrite /\ snd' = snd /\ SndOK'
  BY <1>0 DEF Receive, ReceiveFailed, Handled, Kept, SndOK
<1>2. \E l : Goto(a, l)
  BY DEF Receive, ReceiveFailed, Handled, Kept, ReadMsg, ReadMsgError, Handle, KeepAliveUse
<1>3. \A b \in Agents : b # a => pc'[b] = pc[b]
  BY <1>0, <1>2, GotoWorkers
<1>4. ASSUME Typed', NoSharing',
             \A y \in Slots : y # In(a) => hold'[y] = hold[y],
             hold'[In(a)] = NoMsg <=> pc'[a] \notin ReaderHas
      PROVE  SendInv'
  BY <1>1, <1>3, <1>4, SendParts, SendPartsNext, SlotFacts, WorkersAreAgents
<1>5. CASE Receive(a)
  <2>1. pc[a] = "read" /\ pc'[a] \in {"dRead", "recv"}
    BY <1>0, <1>5, GotoWorkers DEF Receive, ReadMsg, At
  <2>2. CASE pc'[a] = "recv"
    BY <1>0, <1>1, <1>4, <1>5, <2>2, RequireOwns DEF Receive
  <2>3. CASE pc'[a] = "dRead"
    <3>1. UNCHANGED <<pool, hold>>
      BY <1>5, <2>3 DEF Receive
    <3>2. Typed' /\ NoSharing'
      BY <1>0, <1>1, <3>1 DEF Typed, NoSharing, OneOwnerEach, Shared
    <3> QED BY <1>0, <1>4, <2>1, <2>3, <3>1, <3>2
  <2> QED BY <2>1, <2>2, <2>3
<1>6. CASE ReceiveFailed(a) \/ Handled(a)
  <2>1. pc[a] \in ReaderHas /\ pc'[a] \notin ReaderHas /\ ReleaseMsg(In(a))
    BY <1>0, <1>6, GotoWorkers DEF ReceiveFailed, Handled, ReadMsgError, Handle, At
  <2> QED BY <1>0, <1>1, <1>4, <2>1, ReleaseOwns
<1>7. CASE Kept(a)
  <2>1. pc[a] = "aliveUse" /\ pc'[a] \in {"handle", "dRead"}
    BY <1>0, <1>7, GotoWorkers DEF Kept, KeepAliveUse, At
  <2>2. CASE pc'[a] = "dRead"
    BY <1>0, <1>1, <1>4, <1>7, <2>2, ForgetOwns DEF Kept
  <2>3. CASE pc'[a] = "handle"
    <3>1. UNCHANGED <<pool, hold>>
      BY <1>7, <2>3 DEF Kept
    <3>2. Typed' /\ NoSharing'
      BY <1>0, <1>1, <3>1 DEF Typed, NoSharing, OneOwnerEach, Shared
    <3> QED BY <1>0, <1>4, <2>1, <2>3, <3>1, <3>2
  <2> QED BY <2>1, <2>2, <2>3
<1> QED BY <1>5, <1>6, <1>7

\* The writer's steps on the message it took.
LEMMA TransmitterStep ==
    ASSUME SendInv, IInv, NEW a \in Writers, Take(a) \/ Transmit(a) \/ Transmitted(a)
    PROVE  SendInv'
<1> USE DEF WriterHas
<1>0. /\ Typed /\ SndOK /\ NoSharing /\ Wr(a) \in OwnSlots /\ Wr(a) \in Slots /\ a \in Agents /\ TypeOK
      /\ hold[Wr(a)] = NoMsg <=> pc[a] \notin WriterHas
  BY SendParts, SlotFacts, WorkersAreAgents DEF IInv
<1>1. snd' = snd /\ SndOK'
  BY <1>0 DEF Take, Transmit, Transmitted, SndOK
<1>2. \E l : Goto(a, l)
  BY DEF Take, Transmit, Transmitted, WriteMsgTake, WriteMsgTrue, WriteMsgSent
<1>3. \A b \in Agents : b # a => pc'[b] = pc[b]
  BY <1>0, <1>2, GotoWorkers
<1>4. ASSUME Typed', NoSharing',
             \A y \in Slots : y # Wr(a) => hold'[y] = hold[y],
             hold'[Wr(a)] = NoMsg <=> pc'[a] \notin WriterHas
      PROVE  SendInv'
  BY <1>1, <1>3, <1>4, SendParts, SendPartsNext, SlotFacts, WorkersAreAgents
<1>5. CASE Take(a)
  <2>1. pc[a] = "wait" /\ pc'[a] = "write"
    BY <1>0, <1>5, GotoWorkers DEF Take, WriteMsgTake, At
  <2> QED BY <1>0, <1>4, <1>5, <2>1, TakeOwns DEF Take
<1>6. CASE Transmitted(a)
  <2>1. pc[a] = "sending" /\ pc'[a] = "select" /\ ReleaseMsg(Wr(a)) /\ cwrite' = cwrite
    BY <1>0, <1>6, GotoWorkers DEF Transmitted, WriteMsgSent, At
  <2> QED BY <1>0, <1>4, <2>1, ReleaseOwns
<1>7. CASE Transmit(a)
  <2>1. pc[a] = "write" /\ pc'[a] \in {"select", "sending"} /\ cwrite' = cwrite
    BY <1>0, <1>7, GotoWorkers DEF Transmit, WriteMsgTrue, At
  <2>2. CASE pc'[a] = "select"
    BY <1>0, <1>4, <1>7, <2>1, <2>2, ReleaseOwns DEF Transmit
  <2>3. CASE pc'[a] = "sending"
    <3>1. UNCHANGED <<pool, hold>>
      BY <1>7, <2>3 DEF Transmit
    <3>2. Typed' /\ NoSharing'
      BY <1>0, <2>1, <3>1 DEF Typed, NoSharing, OneOwnerEach, Shared
    <3> QED BY <1>0, <1>4, <2>1, <2>3, <3>1, <3>2
  <2> QED BY <2>1, <2>2, <2>3
<1> QED BY <1>5, <1>6, <1>7

\* A broadcast makes a message shared for good: nothing is said of owners then.
LEMMA BroadcastStep ==
    ASSUME SendInv, IInv, NEW a \in CallerIds, Broadcast(a) \/ LentFreed(a)
    PROVE  SendInv'
<1>0. /\ Typed /\ SndOK /\ a \in Senders /\ Lent(a) \in Slots /\ Out(a) \in OwnSlots
      /\ Lent(a) # Out(a) /\ Out(a) \in Slots
  BY SendParts, SlotFacts DEF Senders, CallerIds
<1>1. pc' = pc /\ cwrite' = cwrite
  BY DEF Broadcast, LentFreed, vars
<1>2. CASE Broadcast(a)
  <2>1. PICK m \in pool \cup (Msgs \ InUse) :
           /\ hold' = [hold EXCEPT ![Out(a)] = m, ![Lent(a)] = m]
           /\ pool' = pool \ {m}
    BY <1>2 DEF Broadcast
  <2>2. m \in Msgs /\ m # NoMsg
    BY <1>0, <2>1, SendAssumption DEF Typed
  <2>3. /\ hold'[Out(a)] = m /\ hold'[Lent(a)] = m
        /\ \A y \in Slots \ {Out(a), Lent(a)} : hold'[y] = hold[y]
    BY <1>0, <2>1 DEF Typed
  <2>4. Typed' /\ NoSharing'
    BY <1>0, <1>1, <2>1, <2>2, <2>3 DEF Typed, NoSharing, Shared
  <2>5. /\ SndOK' /\ snd'[a].at = "ready" /\ snd[a].at = "idle"
        /\ \A b \in Senders : b # a => snd'[b] = snd[b]
    BY <1>0, <1>2, SocketAssumption DEF Broadcast, SndOK, SndAt
  <2>6. \A x \in OwnSlots : x # Out(a) => hold'[x] = hold[x]
    BY <2>3, SlotFacts
  <2>7. \A b \in Senders : hold'[Out(b)] = NoMsg <=> snd'[b].at = "idle"
    BY <1>0, <2>2, <2>3, <2>5, <2>6, SendParts, SlotFacts
  <2>8. /\ \A b \in Writers : hold'[Wr(b)] = hold[Wr(b)]
        /\ \A b \in Readers : hold'[In(b)] = hold[In(b)]
    BY <1>0, <2>6, SlotFacts
  <2> QED BY <1>1, <2>4, <2>5, <2>7, <2>8, SendParts, SendPartsNext
<1>3. CASE LentFreed(a)
  <2>1. hold' = hold /\ snd' = snd /\ pool' \subseteq Msgs /\ Shared'
    BY <1>0, <1>3 DEF LentFreed, Typed, Shared
  <2>2. Typed' /\ NoSharing' /\ SndOK'
    BY <1>0, <1>1, <2>1 DEF Typed, NoSharing, SndOK
  <2> QED BY <1>1, <2>1, <2>2, SendParts, SendPartsNext
<1> QED BY <1>2, <1>3

\* Every step keeps SendInv.
LEMMA StepSendInv ==
    SendInv /\ IInv /\ [SharedNext]_allVars => SendInv'
<1> SUFFICES ASSUME SendInv, IInv, [SharedNext]_allVars PROVE SendInv'
  OBVIOUS
<1>0. Typed /\ SndOK /\ NoSharing
  BY SendParts
<1>1. ASSUME UNCHANGED sendVars,
             \A b \in Readers : pc'[b] \in ReaderHas <=> pc[b] \in ReaderHas,
             \A b \in Writers : pc'[b] \in WriterHas <=> pc[b] \in WriterHas
      PROVE  SendInv'
  <2>1. Typed' /\ SndOK' /\ NoSharing' /\ hold' = hold /\ snd' = snd
    BY <1>0, <1>1 DEF Typed, SndOK, NoSharing, OneOwnerEach, Shared, sendVars
  <2> QED BY <1>1, <2>1, SendParts, SendPartsNext
<1>2. ASSUME NEW a \in CallerIds, Call(a) PROVE SendInv'
  BY <1>2, SenderStep, SendAssumption DEF Call, Senders, CallerIds
<1>3. ASSUME NEW a \in Readers, Reply(a) PROVE SendInv'
  BY <1>3, SenderStep, SlotFacts DEF Reply
<1>4. ASSUME NEW a \in Agents, DrainOne(a) PROVE SendInv'
  <2>1. Typed' /\ NoSharing' /\ UNCHANGED <<hold, snd, pc>>
    BY <1>0, <1>4, DrainOwns DEF DrainOne, vars
  <2>2. SndOK'
    BY <1>0, <2>1 DEF SndOK
  <2> QED BY <2>1, <2>2, SendParts, SendPartsNext
<1>5. ASSUME NEW a \in Agents, DrainEnd(a) PROVE SendInv'
  <2>1. pc[a] = "drain" /\ Goto(a, Return(a)) /\ Return(a) \in {"rest", "done"}
    BY <1>5 DEF DrainEnd, Drained, At, Return
  <2>2. pc'[a] \in {"rest", "done"} /\ \A b \in Agents : b # a => pc'[b] = pc[b]
    BY <2>1, GotoWorkers DEF IInv
  <2> QED BY <1>1, <1>5, <2>1, <2>2, WorkersAreAgents
          DEF DrainEnd, ReaderHas, WriterHas, ReaderSteps
<1>6. ASSUME Elsewhere PROVE SendInv'
  BY <1>1, <1>6, ElsewherePc DEF Elsewhere
<1>7. CASE UNCHANGED allVars
  BY <1>1, <1>7 DEF allVars, vars
<1> QED BY <1>2, <1>3, <1>4, <1>5, <1>6, <1>7, SenderStep, ReceiverStep, TransmitterStep,
        BroadcastStep DEF SharedNext, SendNext

\* At the start nobody has a message.
LEMMA InitSendInv == SendInit => SendInv
<1> SUFFICES ASSUME SendInit PROVE SendInv
  OBVIOUS
<1>1. Typed /\ SndOK /\ NoSharing
  BY SendAssumption, SocketAssumption, SlotFacts
     DEF SendInit, Typed, SndOK, NoSharing, OneOwnerEach
<1>2. \A a \in Senders : hold[Out(a)] = NoMsg /\ snd[a].at = "idle"
  BY SlotFacts DEF SendInit
<1>3. \A a \in Workers : pc[a] = "new"
  BY InitPc DEF SendInit
<1>4. /\ \A a \in Writers : hold[Wr(a)] = NoMsg /\ a \in Workers
      /\ \A a \in Readers : hold[In(a)] = NoMsg /\ a \in Workers
  BY SlotFacts, AgentFacts DEF SendInit
<1> QED BY <1>1, <1>2, <1>3, <1>4, SendParts DEF ReaderHas, WriterHas, ReaderSteps

\* The invariant of the message path, whatever the callers do.
THEOREM SendInvariant == SharedSpec => []SendInv
<1>1. SharedSpec => []IInv
  BY SendImplementsSocket, Invariant, PTL
<1> QED BY <1>1, InitSendInv, StepSendInv, PTL DEF SharedSpec

\* Until the application broadcasts a message, none of the pool is freed twice or used
\* after it was freed, for any number of senders, connections and messages and any
\* capacity of cwrite.  (With a broadcast it is: run Send_broadcast.)
THEOREM OneOwnerPerMessage == SharedSpec => []NoSharing
<1>1. SendInv => NoSharing
  BY DEF SendInv
<1> QED BY <1>1, SendInvariant, PTL
=============================================================================
