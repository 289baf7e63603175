----------------------------- MODULE SocketSend -----------------------------
(***************************************************************************)
(* The message path of a Socket on top of module Socket: the write channel *)
(* cwrite, the message pool (message/pool.go), the senders (Send, Write,   *)
(* Async, the reply of a handler on the reader's own goroutine), the writer*)
(* that takes messages from cwrite and release() that empties it.          *)
(*                                                                         *)
(* A message is a pointer.  hold says which message is in the hands of     *)
(* which goroutine: a reader holds the message it received, a sender the   *)
(* one it wants to queue, a writer the one it took from cwrite.  Callers of*)
(* Write and Async choose the message themselves.  In SendSpec they hand   *)
(* over one of their own; in SharedSpec they may also broadcast one: give  *)
(* it to other sockets too, whose writers release it, and release it       *)
(* themselves (README, broadcast).                                         *)
(***************************************************************************)
EXTENDS Socket, Sequences

CONSTANTS
    Callers,        \* goroutines that send (application code, Async)
    SendOps,        \* the calls they make: "Send", "Write" (also under Async)
    Msgs,           \* bound: message objects in existence at one time
    NoMsg,          \* nil
    WriteChanSize   \* capacity of cwrite

ASSUME SendAssumption ==
    /\ SendOps \subseteq {"Send", "Write"}
    /\ NoMsg \notin Msgs
    /\ WriteChanSize \in Nat \ {0}

VARIABLES
    cwrite,     \* Socket.cwrite
    pool,       \* messages put back by message.Release
    hold,       \* the message in the hands of a goroutine, by slot
    snd         \* where each sender is in Write, and what it evaluated there

sendVars == <<cwrite, pool, hold, snd>>
allVars == <<vars, sendVars>>

Senders == Readers \cup ({"S"} \X Callers)
In(a) == <<"in", a>>
Out(a) == <<"out", a>>
Wr(a) == <<"wr", a>>
\* The message of a broadcast, for the caller and the other sockets that have it.
Lent(a) == <<"lent", a>>
CallerIds == {"S"} \X Callers
Slots == ({"in"} \X Readers) \cup ({"out"} \X Senders) \cup ({"wr"} \X Writers)
           \cup ({"lent"} \X CallerIds)

Queued == {cwrite[i] : i \in 1..Len(cwrite)}
\* The application has made a broadcast.
Shared == \E a \in CallerIds : hold[Lent(a)] # NoMsg
InUse == {hold[x] : x \in Slots} \cup Queued

SendInit ==
    /\ Init
    /\ cwrite = <<>>
    /\ pool = {}
    /\ hold = [x \in Slots |-> NoMsg]
    /\ snd = [a \in Senders |-> [at |-> "idle", op |-> "Send", safe |-> TRUE, stop |-> 0]]

-----------------------------------------------------------------------------
(* message/pool.go.                                                        *)

\* Require: a message from the pool, or a new one, goes to slot x.
Require(x) ==
    \E m \in pool \cup (Msgs \ InUse) :
        /\ hold' = [hold EXCEPT ![x] = m]
        /\ pool' = pool \ {m}

\* Release: the message of slot x goes back to the pool.
ReleaseMsg(x) ==
    /\ pool' = pool \cup {hold[x]}
    /\ hold' = [hold EXCEPT ![x] = NoMsg]

\* The message of slot x is forgotten without a Release.
Forget(x) ==
    /\ hold' = [hold EXCEPT ![x] = NoMsg]
    /\ UNCHANGED pool

-----------------------------------------------------------------------------
(* Send, Write, Async and the reply of a handler.                          *)

SndAt(a, l) == snd[a].at = l
SndGoto(a, l) == snd' = [snd EXCEPT ![a].at = l]
\* Back to rest, with the locals of the call gone.
SndIdle(a) == snd' = [snd EXCEPT ![a] = [at |-> "idle", op |-> "Send", safe |-> TRUE, stop |-> 0]]

\* SendWithMagic, Write or Async begins with a message from the pool.  For Send
\* the library marshals it, and releases it when that fails.
Start(a, op, safe) ==
    /\ SndAt(a, "idle")
    /\ \/ /\ Require(Out(a))
          /\ snd' = [snd EXCEPT ![a] = [at |-> "ready", op |-> op, safe |-> safe, stop |-> 0]]
       \/ /\ op = "Send"
          /\ \E m \in pool \cup (Msgs \ InUse) : pool' = pool \cup {m}
          /\ UNCHANGED <<hold, snd>>
    /\ UNCHANGED <<vars, cwrite>>

Call(a) ==
    /\ HaveSocket
    /\ \E op \in SendOps, safe \in BOOLEAN : Start(a, op, safe)

\* Async with a message that the caller keeps and gives to other sockets as well
\* (bound: one such message per caller).
Broadcast(a) ==
    /\ HaveSocket
    /\ SndAt(a, "idle") /\ hold[Lent(a)] = NoMsg
    /\ \E m \in pool \cup (Msgs \ InUse) :
        /\ hold' = [hold EXCEPT ![Out(a)] = m, ![Lent(a)] = m]
        /\ pool' = pool \ {m}
    /\ snd' = [snd EXCEPT ![a] = [at |-> "ready", op |-> "Broadcast", safe |-> TRUE, stop |-> 0]]
    /\ UNCHANGED <<vars, cwrite>>

\* The deferred Release of that caller, or the writer of another socket: each of them
\* has the pointer and releases it when it is done.
LentFreed(a) ==
    /\ hold[Lent(a)] # NoMsg
    /\ pool' = pool \cup {hold[Lent(a)]}
    /\ UNCHANGED <<vars, cwrite, hold, snd>>

\* Handler.reply sends in safe mode, on the reader, before handle() returns.
Reply(a) == At(a, "handle") /\ Start(a, "Send", TRUE)

\* Write: IsReady ...
WriteReady(a) ==
    /\ SndAt(a, "ready")
    /\ SndGoto(a, IF status = "Connected" THEN "select" ELSE "failed")
    /\ UNCHANGED <<vars, cwrite, pool, hold>>

\* ... then the select, which evaluates sock.stop once.
WriteSelect(a) ==
    /\ SndAt(a, "select")
    /\ snd' = [snd EXCEPT ![a].at = "waiting", ![a].stop = stop]
    /\ UNCHANGED <<vars, cwrite, pool, hold>>

\* Mutant of WriteEnqueue: Send releases the message although it was queued.
WriteEnqueueFreed(a) ==
    /\ SndAt(a, "waiting")
    /\ Len(cwrite) < WriteChanSize
    /\ cwrite' = Append(cwrite, hold[Out(a)])
    /\ ReleaseMsg(Out(a))
    /\ SndIdle(a)
    /\ UNCHANGED vars

WriteEnqueue(a) ==
    /\ SndAt(a, "waiting")
    /\ Len(cwrite) < WriteChanSize
    /\ cwrite' = Append(cwrite, hold[Out(a)])
    /\ hold' = [hold EXCEPT ![Out(a)] = NoMsg]
    /\ SndIdle(a)
    /\ UNCHANGED <<vars, pool>>

\* Mutant of WriteStopped: the safe select does not listen to sock.stop.
WriteStoppedUnsafe(a) ==
    /\ SndAt(a, "waiting") /\ ~snd[a].safe
    /\ snd[a].stop \in closedStop
    /\ SndGoto(a, "failed")
    /\ UNCHANGED <<vars, cwrite, pool, hold>>

\* Mutant of WriteStopped: Write releases the message, and Send does it again.
WriteStoppedFreed(a) ==
    /\ SndAt(a, "waiting")
    /\ snd[a].stop \in closedStop
    /\ pool' = pool \cup {hold[Out(a)]}
    /\ SndGoto(a, "failed")
    /\ UNCHANGED <<vars, cwrite, hold>>

WriteStopped(a) ==
    /\ SndAt(a, "waiting")
    /\ snd[a].stop \in closedStop
    /\ SndGoto(a, "failed")
    /\ UNCHANGED <<vars, cwrite, pool, hold>>

\* The default case of the unsafe select: neither of the others is ready.
WriteFull(a) ==
    /\ SndAt(a, "waiting") /\ ~snd[a].safe
    /\ Len(cwrite) >= WriteChanSize /\ snd[a].stop \notin closedStop
    /\ SndGoto(a, "failed")
    /\ UNCHANGED <<vars, cwrite, pool, hold>>

\* Write returned an error.  Send releases the message; Write and Async leave it
\* to their caller, who may have taken it for handed over; a broadcast does nothing.
WriteFailed(a) ==
    /\ SndAt(a, "failed")
    /\ \/ snd[a].op # "Broadcast" /\ ReleaseMsg(Out(a))
       \/ snd[a].op # "Send" /\ Forget(Out(a))
    /\ SndIdle(a)
    /\ UNCHANGED <<vars, cwrite>>

SendStep(a) == \/ WriteReady(a) \/ WriteSelect(a) \/ WriteEnqueue(a)
               \/ WriteStopped(a) \/ WriteFull(a) \/ WriteFailed(a)

-----------------------------------------------------------------------------
(* The steps of module Socket that move messages.                          *)

\* readMsg takes a message from the pool before it reads.  With a nil conn it
\* panics holding that message, which is then garbage.
Receive(a) ==
    /\ ReadMsg(a)
    /\ IF pc'[a] = "recv" THEN Require(In(a)) ELSE UNCHANGED <<pool, hold>>
    /\ UNCHANGED <<cwrite, snd>>

\* The message is released when the read failed ...
ReceiveFailed(a) == ReadMsgError(a) /\ ReleaseMsg(In(a)) /\ UNCHANGED <<cwrite, snd>>

\* ... and after the handler, which has sent its reply if it sends one.
Handled(a) == SndAt(a, "idle") /\ Handle(a) /\ ReleaseMsg(In(a)) /\ UNCHANGED <<cwrite, snd>>

\* A panic in KeepAlive skips the Release.
Kept(a) ==
    /\ KeepAliveUse(a)
    /\ IF pc'[a] = "dRead" THEN Forget(In(a)) ELSE UNCHANGED <<pool, hold>>
    /\ UNCHANGED <<cwrite, snd>>

Take(a) ==
    /\ WriteMsgTake(a)
    /\ cwrite # <<>>
    /\ hold' = [hold EXCEPT ![Wr(a)] = Head(cwrite)]
    /\ cwrite' = Tail(cwrite)
    /\ UNCHANGED <<pool, snd>>

\* writeMsgTrue: its deferred function releases the message, panic or not.
Transmit(a) ==
    /\ WriteMsgTrue(a)
    /\ IF pc'[a] = "select" THEN ReleaseMsg(Wr(a)) ELSE UNCHANGED <<pool, hold>>
    /\ UNCHANGED <<cwrite, snd>>

Transmitted(a) == WriteMsgSent(a) /\ ReleaseMsg(Wr(a)) /\ UNCHANGED <<cwrite, snd>>

\* release() takes one message from cwrite and releases it; it ends on empty.
DrainOne(a) ==
    /\ At(a, "drain")
    /\ cwrite # <<>>
    /\ pool' = pool \cup {Head(cwrite)}
    /\ cwrite' = Tail(cwrite)
    /\ UNCHANGED <<vars, hold, snd>>

DrainEnd(a) == cwrite = <<>> /\ Drained(a) /\ UNCHANGED sendVars

\* Every other step of the socket leaves the messages alone.
Elsewhere ==
    /\ \/ \E g \in 1..MaxConns + 1 : CreatorStep(g)
       \/ \E a \in Workers \cup Hearts : DisconnectStep(a)
       \/ \E a \in Agents : Release(a)
       \/ \E a \in Readers : \/ ReadMsgTrue(a) \/ KeepAliveStatus(a)
                             \/ KeepAliveBeat(a) \/ KeepAliveData(a)
       \/ \E a \in Writers : WriteMsg(a) \/ WriteMsgDone(a)
       \/ \E a \in Hearts : HeartStep(a)
       \/ \E a \in Apps : AppStep(a)
       \/ Shutdown
    /\ UNCHANGED sendVars

SendNext ==
    \/ \E a \in CallerIds : Call(a)
    \/ \E a \in Readers : Reply(a)
    \/ \E a \in Senders : SendStep(a)
    \/ \E a \in Readers : Receive(a) \/ ReceiveFailed(a) \/ Handled(a) \/ Kept(a)
    \/ \E a \in Writers : Take(a) \/ Transmit(a) \/ Transmitted(a)
    \/ \E a \in Agents : DrainOne(a) \/ DrainEnd(a)
    \/ Elsewhere

SendSpec == SendInit /\ [][SendNext]_allVars

\* The same with callers that broadcast.
SharedNext == SendNext \/ \E a \in CallerIds : Broadcast(a) \/ LentFreed(a)
SharedSpec == SendInit /\ [][SharedNext]_allVars

-----------------------------------------------------------------------------
(* Fairness, as in module Socket: goroutines run, the peer owes nothing.    *)

ReceiverRuns(a) == \/ Receive(a) \/ Handled(a) \/ Kept(a)
                   \/ /\ KeepAliveStatus(a) \/ KeepAliveBeat(a) \/ KeepAliveData(a)
                      /\ UNCHANGED sendVars
                   \/ ref[a] \in closedConn /\ ReceiveFailed(a)
TransmitterRuns(a) == \/ (WriteMsg(a) \/ WriteMsgDone(a)) /\ UNCHANGED sendVars
                      \/ Take(a) \/ Transmit(a)
                      \/ ref[a] \in closedConn /\ Transmitted(a)

SendFairness ==
    /\ \A g \in 1..MaxConns + 1 : WF_allVars(CreatorRuns(g) /\ UNCHANGED sendVars)
    /\ \A a \in Workers \cup Hearts : WF_allVars(DisconnectStep(a) /\ UNCHANGED sendVars)
    /\ \A a \in Agents : WF_allVars((Release(a) /\ UNCHANGED sendVars) \/ DrainOne(a) \/ DrainEnd(a))
    /\ \A a \in Readers : WF_allVars(ReceiverRuns(a))
    /\ \A a \in Writers : WF_allVars(TransmitterRuns(a))
    /\ \A a \in Hearts : WF_allVars(HeartStep(a) /\ UNCHANGED sendVars)
    /\ \A a \in Apps : WF_allVars(AppRuns(a) /\ UNCHANGED sendVars)

\* The goroutines in Write run; the others owe nothing.
SendersRun == \A a \in Senders : WF_allVars(SendStep(a))

SendersSpec == SendSpec /\ SendersRun
SendFairSpec == SendSpec /\ SendersRun /\ SendFairness

-----------------------------------------------------------------------------
(* Properties.                                                             *)

\* The types of the variables of the message path.
SendTypeOK ==
    /\ cwrite \in Seq(Msgs) /\ Len(cwrite) <= WriteChanSize
    /\ pool \subseteq Msgs
    /\ hold \in [Slots -> Msgs \cup {NoMsg}]
    /\ snd \in [Senders -> [at : {"idle", "ready", "select", "waiting", "failed"},
                            op : {"Send", "Write", "Broadcast"}, safe : BOOLEAN, stop : 0..MaxConns]]

\* As long as the application makes no broadcast, every message has one owner: it is
\* in the hands of one goroutine, or in the write channel once, or in the pool.  No
\* path of Send, Write, writeMsg, readMsg and release() frees a message twice or frees
\* one that is still used, so the pool never hands out a message on its way.
OneOwnerEach ==
    /\ \A x, y \in Slots : hold[x] = hold[y] /\ hold[x] # NoMsg => x = y
    /\ \A x \in Slots : hold[x] \notin pool
    /\ \A i \in 1..Len(cwrite) : cwrite[i] \notin pool /\ \A x \in Slots : hold[x] # cwrite[i]
    /\ \A i, j \in 1..Len(cwrite) : cwrite[i] = cwrite[j] => i = j
NoSharing == ~Shared => OneOwnerEach

\* A goroutine holds a message exactly at the steps where its code has one: what
\* is released or queued is never a nil message.
HoldsAtSteps ==
    /\ \A a \in Senders : hold[Out(a)] = NoMsg <=> snd[a].at = "idle"
    /\ \A a \in Writers : hold[Wr(a)] = NoMsg <=> pc[a] \notin {"write", "sending"}
    /\ \A a \in Readers : hold[In(a)] = NoMsg <=> pc[a] \notin ReaderSteps \ {"read"}

\* The inductive invariant of the message path.
SendInv == SendTypeOK /\ NoSharing /\ HoldsAtSteps

\* A handler whose reply waits for room in the write channel does not wait for
\* ever, even when the peer has stopped reading: the reader sits in the reply and
\* resets no heartbeat, so the daemon times the socket out and closes stop.
ReplyUnblocks == \A a \in Readers : snd[a].at = "waiting" ~> snd[a].at # "waiting"

\* No sender waits for ever on a socket that is gone (comment in Write): the stop
\* channel it listens to is the one that the teardown closed.  It needs nobody else.
SenderFreed == \A a \in Senders : (snd[a].at = "waiting" /\ ~inMap) ~> snd[a].at # "waiting"

-----------------------------------------------------------------------------
(* What comments and README say of the message path and the code does not do. *)

\* release() frees every message of the channel (comment in release): none is
\* left in it once release() has returned.
QueueFreed == ~inMap /\ stop # 0 /\ (\A a \in Agents : pc[a] # "drain") => cwrite = <<>>

\* A broadcast message is shared read-only until every socket has sent it (README,
\* broadcast): while it is in a write channel or in the hands of a writer, nobody has
\* got it from the pool to fill it.
Filling == {hold[In(a)] : a \in Readers}
             \cup {hold[Out(a)] : a \in {b \in Senders : snd[b].op = "Send"}}
Sending == Queued \cup {hold[Wr(a)] : a \in Writers}
SharedIsReadOnly == Filling \cap Sending \subseteq {NoMsg}

\* A message given to Write or Async is freed by the library (README, notes):
\* a failed Write never leaves it with nobody.
HandedOverIsFreed ==
    [][\A a \in Senders : snd[a].at = "failed" /\ snd'[a].at = "idle"
                            => hold[Out(a)] \in pool']_allVars

\* Closing waits until the messages of the channel were sent (comment of
\* SocketStatusClosing): the heartbeat does not tear the socket down before.
ClosingFlushes ==
    [][\A a \in Hearts : pc[a] = "dCas" /\ status = "Closing" /\ pc'[a] = "dStop"
                            => cwrite = <<>>]_allVars
=============================================================================
