---------------------------- MODULE TcpConnection ----------------------------
(***************************************************************************)
(* muduo/net/TcpConnection.cc with the parts of Channel it drives: one     *)
(* connection, in the loop of the TcpServer or TcpClient that owns it.     *)
(*                                                                         *)
(* The loop thread handles the events of the channel, calls the functors   *)
(* in batches (in the order of EventLoop.tla) and runs user callbacks,     *)
(* which call back into the connection.  Another thread that got the       *)
(* connection's shared_ptr in the connection callback calls send(),        *)
(* shutdown(), forceClose(), startRead() or stopRead(); each of these      *)
(* reads state_, writes it and queues a functor in separate steps.  The    *)
(* kernel's send buffer, the peer and the reference count are modelled; a  *)
(* byte is <<thread that sent it, its number>>.                            *)
(***************************************************************************)
EXTENDS Integers, Sequences, FiniteSetsExt

CONSTANTS
  LocalOps,      \* calls of user code in the loop thread
  RemoteOps,     \* calls of user code in the other thread
  MaxCalls,      \* bound on the calls of both threads
  MsgLen,        \* bytes of a message
  SndBuf,        \* bytes the kernel's send buffer takes
  HighWaterMark  \* highWaterMark_

Ops == {"send", "shutdown", "forceClose", "forceCloseWithDelay", "startRead", "stopRead"}

ASSUME TcpConnectionAssumption ==
  /\ LocalOps \subseteq Ops /\ RemoteOps \subseteq Ops \ {"forceCloseWithDelay"}
  /\ MaxCalls \in Nat
  /\ MsgLen \in Nat \ {0} /\ SndBuf \in Nat \ {0} /\ HighWaterMark \in Nat \ {0}

VARIABLES
  state_,         \* StateE
  reading_,
  events,         \* the channel's events_
  added,          \* the channel's addedToLoop_
  polled,         \* the channel is registered with epoll
  outputBuffer_,  \* bytes not taken by the kernel yet
  pending,        \* pendingFunctors_ of the loop, as far as they are this connection's
  batch,          \* functors of doPendingFunctors() not called yet
  batchHolds,     \* the batch has a functor with a shared_ptr of the connection
  lpc,            \* where loop() is: "accept", "poll", "events", "functors"
  frames,         \* what handlers on the stack still have to do, innermost first
  revents,        \* events poll() has reported and handleEvent() not handled yet
  owned,          \* the owner has its shared_ptr
  held,           \* the other thread has a shared_ptr
  rpc,            \* where the other thread is: Idle or <<call, next step>>
  delayed,        \* the timer of forceCloseWithDelay() runs
  room,           \* free bytes of the kernel's send buffer
  wire,           \* bytes the kernel took
  wclosed,        \* shutdownWrite() was called
  peer,           \* "open", "fin" received, "reset" received
  inbox,          \* bytes of the peer wait to be read
  error,          \* SO_ERROR is set
  fault,          \* history: a direct write failed for good
  sent,           \* history: bytes each thread handed to send()
  calls,          \* history: calls of user code
  promised,       \* history: <<thread, bytes>> sent when shutdown() was called
  unguarded,      \* history: what the code does not guard against has happened; see Unless
  notified,       \* history: the high-water callback was queued since the last low
  ups, downs,     \* history: calls of connectionCallback_
  destroys        \* history: calls of connectDestroyed()

conn == <<state_, reading_, events, added, polled, outputBuffer_>>
functors == <<pending, batch, batchHolds>>
stack == <<lpc, frames, revents>>
refs == <<owned, held>>
other == <<rpc, delayed>>
kernel == <<room, wire, wclosed, peer, inbox, error>>
past == <<promised, unguarded>>
history == <<fault, sent, calls, past, notified, ups, downs, destroys>>
vars == <<conn, functors, stack, refs, other, kernel, history>>

Threads == {"loop", "other"}
Byte == Threads \X Nat
Shared == {"forceClose", "connectDestroyed", "writeComplete", "highWater"}
Functor == [op : Ops \cup Shared, data : Seq(Byte)]
Idle == <<"idle", "idle">>
F(op) == [op |-> op, data |-> <<>>]

TypeOK ==
  /\ state_ \in {"kConnecting", "kConnected", "kDisconnecting", "kDisconnected"}
  /\ reading_ \in BOOLEAN /\ added \in BOOLEAN /\ polled \in BOOLEAN /\ events \subseteq {"read", "write"}
  /\ outputBuffer_ \in Seq(Byte) /\ wire \in Seq(Byte)
  /\ pending \in Seq(Functor) /\ batch \in Seq(Functor) /\ batchHolds \in BOOLEAN
  /\ lpc \in {"accept", "poll", "events", "functors"}
  /\ frames \in Seq({"user", "closeCallback", "remove"})
  /\ revents \subseteq {"hup", "err", "in", "out"}
  /\ owned \in BOOLEAN /\ held \in BOOLEAN /\ delayed \in BOOLEAN
  /\ rpc \in {Idle} \cup (RemoteOps \X {"set", "queue"})
  /\ room \in 0 .. SndBuf /\ peer \in {"open", "fin", "reset"}
  /\ wclosed \in BOOLEAN /\ inbox \in BOOLEAN /\ error \in BOOLEAN /\ fault \in BOOLEAN
  /\ sent \in [Threads -> Nat] /\ calls \in Nat /\ promised \in Byte
  /\ unguarded \in BOOLEAN /\ notified \in BOOLEAN /\ ups \in Nat /\ downs \in Nat /\ destroys \in Nat

\* TcpServer::newConnection() has made the connection and is about to call
\* connectEstablished() on it.
Init ==
  /\ state_ = "kConnecting" /\ reading_ = TRUE /\ events = {} /\ added = FALSE /\ polled = FALSE
  /\ outputBuffer_ = <<>> /\ wire = <<>>
  /\ pending = <<>> /\ batch = <<>> /\ batchHolds = FALSE
  /\ lpc = "accept" /\ frames = <<>> /\ revents = {}
  /\ owned = TRUE /\ held = FALSE /\ delayed = FALSE /\ rpc = Idle
  /\ room = SndBuf /\ peer = "open" /\ wclosed = FALSE /\ inbox = FALSE /\ error = FALSE
  /\ fault = FALSE /\ sent = [t \in Threads |-> 0] /\ calls = 0
  /\ promised = <<"loop", 0>> /\ unguarded = FALSE /\ notified = FALSE /\ ups = 0 /\ downs = 0 /\ destroys = 0

-----------------------------------------------------------------------------
(* Operators.                                                              *)

IsShared(f) == f.op \in Shared
Holds(fs) == \E i \in 1 .. Len(fs) : IsShared(fs[i])

\* Somebody has a shared_ptr of the connection: its owner, the other thread,
\* a functor, or handleEvent() through the channel's tie_.  When nobody has,
\* ~TcpConnection() has run.
Referenced == owned \/ held \/ batchHolds \/ Holds(pending) \/ lpc = "events"

Broken == wclosed \/ peer = "reset"
Running == frames # <<>> /\ Head(frames) = "user"
AtHandler == frames = <<>> /\ lpc = "events"
AtFunctor(op) == frames = <<>> /\ lpc = "functors" /\ batch # <<>> /\ Head(batch).op = op

\* Channel::update() through EPollPoller::updateChannel(), which takes a channel
\* without events out of epoll, or puts it back when it was out already.
Interest(new) ==
  /\ events' = new
  /\ added' = TRUE
  /\ polled' = (new # {} \/ ~polled)

\* The bytes of a message that a thread sends next.
Message(t) == [i \in 1 .. MsgLen |-> <<t, sent[t] + i>>]

\* Mutant of TriesDirectWrite: a message overtakes the output buffer.
TriesAlways == TRUE

\* sendInLoop() writes directly when nothing is waiting in the output buffer.
TriesDirectWrite == "write" \notin events /\ outputBuffer_ = <<>>

\* Mutant of CrossesHighWaterMark: a message that lands on the mark is missed.
CrossesAbove(old, new) == new > HighWaterMark /\ old < HighWaterMark

CrossesHighWaterMark(old, new) == new >= HighWaterMark /\ old < HighWaterMark

\* Mutant of Taken: a short write is taken for a whole one.
TakenWhole(len) == IF Broken THEN 0 ELSE len

\* What write() takes of len bytes; nothing when it fails.
Taken(len) == IF Broken THEN 0 ELSE Min({room, len})

\* sendInLoop(): write what the kernel takes, keep the rest and watch for
\* POLLOUT.
SendInLoop(data) ==
  IF state_ = "kDisconnected"
  THEN UNCHANGED <<conn, pending, kernel, fault, notified>>
  ELSE
    LET direct == TriesDirectWrite
        n == IF direct THEN Taken(Len(data)) ELSE 0
        rest == SubSeq(data, n + 1, Len(data))
        faultError == direct /\ Broken
        keep == rest # <<>> /\ ~faultError
        crosses == keep /\ CrossesHighWaterMark(Len(outputBuffer_), Len(outputBuffer_ \o rest))
    IN /\ wire' = wire \o SubSeq(data, 1, n)
       /\ room' = room - n
       /\ error' = (error /\ ~faultError)
       /\ fault' = (fault \/ faultError)
       /\ outputBuffer_' = IF keep THEN outputBuffer_ \o rest ELSE outputBuffer_
       /\ events' = IF keep THEN events \cup {"write"} ELSE events
       /\ added' = (added \/ keep) /\ polled' = (polled \/ keep)
       /\ notified' = (notified \/ crosses)
       /\ pending' = IF rest = <<>> THEN Append(pending, F("writeComplete"))
                     ELSE IF crosses THEN Append(pending, F("highWater"))
                     ELSE pending
       /\ UNCHANGED <<state_, reading_, wclosed, peer, inbox>>

\* Mutant of ShutdownInLoop: the write side is closed at once.
ShutdownAtOnce == wclosed' = TRUE

\* shutdownInLoop(): handleWrite() comes back to it when output is pending.
ShutdownInLoop == wclosed' = (wclosed \/ "write" \notin events)

StartReadInLoop ==
  IF ~reading_ \/ "read" \notin events
  THEN Interest(events \cup {"read"}) /\ reading_' = TRUE
  ELSE UNCHANGED <<events, reading_, added, polled>>

StopReadInLoop ==
  IF reading_ \/ "read" \in events
  THEN Interest(events \ {"read"}) /\ reading_' = FALSE
  ELSE UNCHANGED <<events, reading_, added, polled>>

\* Mutant of HandleClose: the channel keeps its events.
CloseKeepsEvents ==
  /\ state_' = "kDisconnected"
  /\ downs' = downs + 1
  /\ frames' = <<"user", "closeCallback">>
  /\ UNCHANGED <<events, added, polled>>

\* handleClose(): the connection callback, and then the close callback.
HandleClose ==
  /\ state_' = "kDisconnected"
  /\ Interest({})
  /\ downs' = downs + 1
  /\ frames' = <<"user", "closeCallback">>

\* Mutant of ForceClosable: a connection being closed is closed again.
AlwaysClosable == TRUE

\* The test of forceClose(), forceCloseWithDelay() and forceCloseInLoop().
ForceClosable == state_ \in {"kConnected", "kDisconnecting"}

-----------------------------------------------------------------------------
(* The loop thread: events.                                                *)

\* connectEstablished(), called by newConnection().  The connection callback
\* may hand the shared_ptr to the other thread.
ConnectEstablished ==
  /\ lpc = "accept"
  /\ lpc' = "poll"
  /\ state_' = "kConnected"
  /\ Interest({"read"})
  /\ ups' = ups + 1
  /\ frames' = <<"user">>
  /\ held' = (RemoteOps # {})
  /\ UNCHANGED <<reading_, outputBuffer_, functors, revents, owned, other, kernel,
                 fault, sent, calls, past, notified, downs, destroys>>

\* What epoll reports of the socket: the events the channel is interested in,
\* hangups and errors whether it is or not.
Ready ==
  {e \in {"in"} : "read" \in events /\ (inbox \/ peer # "open")} \cup
  {e \in {"out"} : "write" \in events /\ (room > 0 \/ Broken)} \cup
  {e \in {"hup"} : polled /\ (peer = "reset" \/ (peer = "fin" /\ wclosed))} \cup
  {e \in {"err"} : polled /\ error}

\* poll() reports the channel.  handleEventWithGuard() looks at POLLHUP only
\* without POLLIN.
Poll ==
  /\ lpc = "poll" /\ frames = <<>>
  /\ Ready # {}
  /\ lpc' = "events"
  /\ revents' = IF "in" \in Ready THEN Ready \ {"hup"} ELSE Ready
  /\ UNCHANGED <<conn, functors, frames, refs, other, kernel, history>>

\* closeCallback_ of the channel.  The assertion of handleClose() fails when a
\* hangup is reported for a connection that is down.
HandleHup ==
  /\ AtHandler
  /\ unguarded' = (state_ = "kDisconnected")
  /\ "hup" \in revents
  /\ revents' = revents \ {"hup"}
  /\ HandleClose
  /\ UNCHANGED <<reading_, outputBuffer_, functors, lpc, refs, other, kernel,
                 fault, sent, calls, promised, notified, ups, destroys>>

\* handleError(): getSocketError() clears SO_ERROR.
HandleError ==
  /\ AtHandler
  /\ "hup" \notin revents /\ "err" \in revents
  /\ revents' = revents \ {"err"}
  /\ error' = FALSE
  /\ UNCHANGED <<conn, functors, lpc, frames, refs, other, room, wire, wclosed, peer,
                 inbox, history>>

\* handleRead(): data, an error, or the end of the stream.
HandleRead ==
  /\ AtHandler
  /\ revents \cap {"hup", "err"} = {} /\ "in" \in revents
  /\ revents' = revents \ {"in"}
  /\ inbox' = FALSE
  /\ error' = (error /\ inbox)
  /\ \/ /\ inbox
        /\ frames' = <<"user">>
        /\ UNCHANGED <<state_, events, added, polled, downs>>
     \/ /\ ~inbox /\ error
        /\ UNCHANGED <<state_, events, added, polled, downs, frames>>
     \/ /\ ~inbox /\ ~error
        /\ HandleClose
  /\ UNCHANGED <<reading_, outputBuffer_, functors, lpc, refs, other, room, wire,
                 wclosed, peer, fault, sent, calls, past, notified, ups, destroys>>

\* Mutant of FinishesShutdown: handleWrite() forgets the shutdown.
NeverFinishes == FALSE

FinishesShutdown == state_ = "kDisconnecting"

\* Mutant of EventsAfterWrite: POLLOUT is watched for ever.
EventsKept(done) == events

\* disableWriting() of handleWrite()
EventsAfterWrite(done) == IF done THEN events \ {"write"} ELSE events

\* handleWrite(): write what the kernel takes; when nothing is left, stop
\* watching POLLOUT, queue the callback and finish a shutdown().
HandleWrite ==
  /\ AtHandler
  /\ revents = {"out"}
  /\ revents' = {}
  /\ LET n == IF "write" \in events THEN Taken(Len(outputBuffer_)) ELSE 0
         rest == SubSeq(outputBuffer_, n + 1, Len(outputBuffer_))
         done == n > 0 /\ rest = <<>>
     IN /\ wire' = wire \o SubSeq(outputBuffer_, 1, n)
        /\ room' = room - n
        /\ outputBuffer_' = rest
        /\ notified' = (notified /\ Len(rest) >= HighWaterMark)
        /\ events' = EventsAfterWrite(done)
        /\ polled' = (polled /\ EventsAfterWrite(done) # {})
        /\ pending' = IF done THEN Append(pending, F("writeComplete")) ELSE pending
        /\ wclosed' = (wclosed \/ (done /\ FinishesShutdown))
        /\ error' = (error /\ ~("write" \in events /\ Broken))
  /\ UNCHANGED <<state_, reading_, added, batch, batchHolds, lpc, frames, refs, other,
                 peer, inbox, fault, sent, calls, past, ups, downs, destroys>>

\* The events are handled, or a wakeup ended poll(): doPendingFunctors() swaps
\* the functors out.
DoPendingFunctors ==
  /\ frames = <<>>
  /\ \/ lpc = "events" /\ revents = {}
     \/ lpc = "poll" /\ pending # <<>>
  /\ lpc' = "functors"
  /\ batch' = pending /\ pending' = <<>>
  /\ batchHolds' = Holds(pending)
  /\ UNCHANGED <<conn, frames, revents, refs, other, kernel, history>>

\* The batch, with the shared_ptrs bound in it, is destroyed as a whole.
FunctorsDone ==
  /\ lpc = "functors" /\ frames = <<>> /\ batch = <<>>
  /\ lpc' = "poll"
  /\ batchHolds' = FALSE
  /\ UNCHANGED <<conn, pending, batch, frames, revents, refs, other, kernel, history>>

-----------------------------------------------------------------------------
(* The loop thread: functors.                                              *)

RunSend ==
  /\ AtFunctor("send")
  /\ batch' = Tail(batch)
  /\ SendInLoop(Head(batch).data)
  /\ UNCHANGED <<batchHolds, stack, refs, other, sent, calls, past, ups, downs, destroys>>

RunShutdown ==
  /\ AtFunctor("shutdown")
  /\ batch' = Tail(batch)
  /\ ShutdownInLoop
  /\ UNCHANGED <<conn, pending, batchHolds, stack, refs, other, room, wire, peer, inbox,
                 error, history>>

\* startReadInLoop() and stopReadInLoop() do not look at state_: the connection
\* may have gone down since the call.
RunRead ==
  /\ unguarded' = (state_ = "kDisconnected")
  /\ \/ AtFunctor("startRead") /\ StartReadInLoop
     \/ AtFunctor("stopRead") /\ StopReadInLoop
  /\ batch' = Tail(batch)
  /\ UNCHANGED <<state_, outputBuffer_, pending, batchHolds, stack, refs, other, kernel,
                 fault, sent, calls, promised, notified, ups, downs, destroys>>

\* forceCloseInLoop()
RunForceClose ==
  /\ AtFunctor("forceClose")
  /\ batch' = Tail(batch)
  /\ IF ForceClosable
     THEN HandleClose
     ELSE UNCHANGED <<state_, events, added, polled, downs, frames>>
  /\ UNCHANGED <<reading_, outputBuffer_, pending, batchHolds, lpc, revents, refs, other, kernel,
                 fault, sent, calls, past, notified, ups, destroys>>

\* writeCompleteCallback_ and highWaterMarkCallback_
RunUserCallback ==
  /\ AtFunctor("writeComplete") \/ AtFunctor("highWater")
  /\ batch' = Tail(batch)
  /\ frames' = <<"user">>
  /\ UNCHANGED <<conn, pending, batchHolds, lpc, revents, refs, other, kernel, history>>

\* Mutant of ConnectDestroyed: it only removes the channel.
ConnectDestroyedQuietly ==
  /\ destroys' = destroys + 1
  /\ frames' = <<"remove">>
  /\ UNCHANGED <<state_, events, added, polled, reading_, outputBuffer_, fault, sent, calls,
                 promised, notified, ups, downs>>

\* connectDestroyed(): a connection that is still connected goes down first.
ConnectDestroyed ==
  /\ destroys' = destroys + 1
  /\ IF state_ = "kConnected"
     THEN /\ state_' = "kDisconnected"
          /\ Interest({})
          /\ downs' = downs + 1
          /\ frames' = <<"user", "remove">>
     ELSE /\ frames' = <<"remove">>
          /\ UNCHANGED <<state_, events, added, polled, downs>>
  /\ UNCHANGED <<reading_, outputBuffer_, fault, sent, calls, promised, notified, ups>>

RunConnectDestroyed ==
  /\ AtFunctor("connectDestroyed")
  /\ batch' = Tail(batch)
  /\ ConnectDestroyed
  /\ UNCHANGED <<unguarded, pending, batchHolds, lpc, revents, refs, other, kernel>>

\* ~TcpServer() in the loop thread: connectDestroyed() at once, with the
\* destructor's local shared_ptr in place of a functor's.  No race is needed for
\* a connection that is being shut down to keep its state and its events then.
OwnerDestroyed ==
  /\ lpc = "poll" /\ frames = <<>>
  /\ owned
  /\ unguarded' = (state_ = "kDisconnecting")
  /\ owned' = FALSE
  /\ batchHolds' = TRUE
  /\ lpc' = "functors"
  /\ ConnectDestroyed
  /\ UNCHANGED <<pending, batch, revents, held, other, kernel>>

-----------------------------------------------------------------------------
(* The loop thread: the rest of a handler, and user code.                  *)

\* Mutant of CloseCallback: the owner keeps its shared_ptr.
CloseCallbackKeeps ==
  /\ frames # <<>> /\ Head(frames) = "closeCallback"
  /\ frames' = Tail(frames)
  /\ pending' = Append(pending, F("connectDestroyed"))
  /\ UNCHANGED <<conn, batch, batchHolds, lpc, revents, refs, other, kernel, history>>

\* closeCallback_: the owner drops its shared_ptr into a functor.
CloseCallback ==
  /\ frames # <<>> /\ Head(frames) = "closeCallback"
  /\ frames' = Tail(frames)
  /\ owned' = FALSE
  /\ pending' = Append(pending, F("connectDestroyed"))
  /\ UNCHANGED <<conn, batch, batchHolds, lpc, revents, held, other, kernel, history>>

\* Channel::remove()
ChannelRemove ==
  /\ frames # <<>> /\ Head(frames) = "remove"
  /\ frames' = Tail(frames)
  /\ added' = FALSE /\ polled' = FALSE
  /\ UNCHANGED <<state_, reading_, events, outputBuffer_, functors, lpc, revents, refs,
                 other, kernel, history>>

\* User code of another channel or a timer has the connection from its owner.
OtherCallback ==
  /\ lpc = "poll" /\ frames = <<>>
  /\ owned
  /\ calls < MaxCalls
  /\ calls' = calls + 1
  /\ frames' = <<"user">>
  /\ UNCHANGED <<conn, functors, lpc, revents, refs, other, kernel, fault, sent, past,
                 notified, ups, downs, destroys>>

UserReturn ==
  /\ Running
  /\ frames' = Tail(frames)
  /\ UNCHANGED <<conn, functors, lpc, revents, refs, other, kernel, history>>

LocalCall(op) ==
  /\ Running
  /\ op \in LocalOps
  /\ calls < MaxCalls
  /\ calls' = calls + 1
  /\ UNCHANGED <<batch, batchHolds, stack, refs, rpc, ups, downs, destroys>>

\* send(), in the loop thread
LocalSend ==
  /\ LocalCall("send")
  /\ IF state_ = "kConnected"
     THEN /\ SendInLoop(Message("loop"))
          /\ sent' = [sent EXCEPT !["loop"] = @ + MsgLen]
     ELSE UNCHANGED <<conn, pending, kernel, fault, notified, sent>>
  /\ UNCHANGED <<delayed, past>>

LocalShutdown ==
  /\ LocalCall("shutdown")
  /\ IF state_ = "kConnected"
     THEN /\ state_' = "kDisconnecting"
          /\ promised' = <<"loop", sent["loop"]>>
          /\ ShutdownInLoop
     ELSE UNCHANGED <<state_, promised, wclosed>>
  /\ UNCHANGED <<unguarded, reading_, events, added, polled, outputBuffer_, pending, delayed, room, wire, peer,
                 inbox, error, fault, sent, notified>>

ForceClose ==
  IF ForceClosable
  THEN state_' = "kDisconnecting" /\ pending' = Append(pending, F("forceClose"))
  ELSE UNCHANGED <<state_, pending>>

LocalForceClose ==
  /\ LocalCall("forceClose")
  /\ ForceClose
  /\ UNCHANGED <<reading_, events, added, polled, outputBuffer_, delayed, kernel, fault, sent, past,
                 notified>>

LocalForceCloseWithDelay ==
  /\ LocalCall("forceCloseWithDelay")
  /\ IF ForceClosable
     THEN state_' = "kDisconnecting" /\ delayed' = TRUE
     ELSE UNCHANGED <<state_, delayed>>
  /\ UNCHANGED <<reading_, events, added, polled, outputBuffer_, pending, kernel, fault, sent, past,
                 notified>>

\* The timer of forceCloseWithDelay() calls forceClose() on what it can lock.
DelayExpires ==
  /\ lpc = "poll" /\ frames = <<>>
  /\ delayed
  /\ delayed' = FALSE
  /\ IF Referenced THEN ForceClose ELSE UNCHANGED <<state_, pending>>
  /\ UNCHANGED <<reading_, events, added, polled, outputBuffer_, batch, batchHolds, stack, refs, rpc,
                 kernel, history>>

LocalRead ==
  /\ unguarded' = (state_ = "kDisconnected")
  /\ \/ LocalCall("startRead") /\ StartReadInLoop
     \/ LocalCall("stopRead") /\ StopReadInLoop
  /\ UNCHANGED <<state_, outputBuffer_, pending, delayed, kernel, fault, sent, promised, notified>>

-----------------------------------------------------------------------------
(* The other thread.                                                       *)

\* The test of state_ that begins a call.
Passes(op) ==
  CASE op \in {"send", "shutdown"} -> state_ = "kConnected"
    [] op = "forceClose" -> ForceClosable
    [] OTHER -> TRUE

RemoteCall(op) ==
  /\ held /\ rpc = Idle
  /\ calls < MaxCalls
  /\ calls' = calls + 1
  /\ rpc' = IF ~Passes(op) THEN Idle
            ELSE <<op, IF op \in {"shutdown", "forceClose"} THEN "set" ELSE "queue">>
  /\ UNCHANGED <<conn, functors, stack, refs, delayed, kernel, fault, sent, past,
                 notified, ups, downs, destroys>>

\* setState(kDisconnecting) of shutdown() and forceClose(); the state may have
\* changed since they tested it
RemoteSetState ==
  /\ rpc[2] = "set"
  /\ unguarded' = ~Passes(rpc[1])
  /\ state_' = "kDisconnecting"
  /\ promised' = IF rpc[1] = "shutdown" THEN <<"other", sent["other"]>> ELSE promised
  /\ rpc' = <<rpc[1], "queue">>
  /\ UNCHANGED <<reading_, events, added, polled, outputBuffer_, functors, stack, refs, delayed,
                 kernel, fault, sent, calls, notified, ups, downs, destroys>>

\* runInLoop() or queueInLoop()
RemoteQueue ==
  /\ rpc[2] = "queue"
  /\ pending' = Append(pending, [F(rpc[1]) EXCEPT !.data =
                   IF rpc[1] = "send" THEN Message("other") ELSE <<>>])
  /\ sent' = [sent EXCEPT !["other"] = IF rpc[1] = "send" THEN @ + MsgLen ELSE @]
  /\ rpc' = Idle
  /\ UNCHANGED <<conn, batch, batchHolds, stack, refs, delayed, kernel, fault, calls,
                 past, notified, ups, downs, destroys>>

RawQueued == \E fs \in {pending, batch} : \E i \in 1 .. Len(fs) : ~IsShared(fs[i])

\* The other thread drops its shared_ptr, perhaps before functors that have
\* only the raw pointer have run.
RemoteRelease ==
  /\ held /\ rpc = Idle
  /\ held' = FALSE
  /\ UNCHANGED <<conn, functors, stack, owned, other, kernel, fault, sent, calls, promised,
                 notified, ups, downs, destroys>>
  /\ unguarded' = (RawQueued /\ ~Referenced')

-----------------------------------------------------------------------------
(* The kernel and the peer.                                                *)

\* The peer acknowledges what is in the send buffer.
PeerAcks ==
  /\ room < SndBuf
  /\ room' = SndBuf
  /\ UNCHANGED <<conn, functors, stack, refs, other, wire, wclosed, peer, inbox, error, history>>

PeerSends ==
  /\ peer = "open" /\ ~inbox
  /\ inbox' = TRUE
  /\ UNCHANGED <<conn, functors, stack, refs, other, room, wire, wclosed, peer, error, history>>

PeerCloses ==
  /\ peer = "open"
  /\ peer' = "fin"
  /\ UNCHANGED <<conn, functors, stack, refs, other, room, wire, wclosed, inbox, error, history>>

PeerResets ==
  /\ peer # "reset"
  /\ peer' = "reset" /\ error' = TRUE
  /\ inbox' = FALSE
  /\ UNCHANGED <<conn, functors, stack, refs, other, room, wire, wclosed, history>>

LoopStep ==
  \/ ConnectEstablished \/ Poll \/ HandleHup \/ HandleError \/ HandleRead \/ HandleWrite
  \/ DoPendingFunctors \/ FunctorsDone
  \/ RunSend \/ RunShutdown \/ RunRead \/ RunForceClose \/ RunUserCallback
  \/ RunConnectDestroyed \/ CloseCallback \/ ChannelRemove \/ UserReturn \/ DelayExpires

UserStep ==
  \/ OtherCallback \/ OwnerDestroyed
  \/ LocalSend \/ LocalShutdown \/ LocalForceClose \/ LocalForceCloseWithDelay \/ LocalRead
  \/ \E op \in RemoteOps : RemoteCall(op)

RemoteStep == RemoteSetState \/ RemoteQueue

\* A connection is not followed any further when the code has done what its
\* assertions exclude or it does not guard against.  Two of these are races: state_
\* set after it changed since the test (RemoteSetState), and the last shared_ptr
\* released with functors left that have the raw pointer (RemoteRelease).  Three
\* need none: reading started or stopped on a closed connection (RunRead,
\* LocalRead), a hangup handled twice (HandleHup), and the owner destroyed in its
\* loop during a shutdown (OwnerDestroyed).
Unless(step) == ~unguarded /\ step

Next ==
  \/ Unless(LoopStep) \/ Unless(UserStep) \/ Unless(RemoteStep) \/ Unless(RemoteRelease)
  \/ Unless(PeerAcks) \/ Unless(PeerSends) \/ Unless(PeerCloses) \/ Unless(PeerResets)

Spec == Init /\ [][Next]_vars

\* The loop goes on, callbacks return, and the other thread finishes its calls
\* and drops its shared_ptr.
FairSpec ==
  /\ Spec
  /\ WF_vars(Unless(LoopStep)) /\ WF_vars(Unless(RemoteStep)) /\ WF_vars(Unless(RemoteRelease))

-----------------------------------------------------------------------------
(* Properties.                                                             *)

\* The bytes with the kernel and in the output buffer, and the functors not
\* called yet, oldest first.
Stream == wire \o outputBuffer_
Undone == batch \o pending

\* The parts the bytes of send() are in: the stream, then functor after functor.
Parts == 0 .. Len(Undone)
Part(i) == IF i = 0 THEN Stream ELSE Undone[i].data

\* Byte b was sent before byte c, if the same thread sent both.
SentBefore(b, c) == b[1] = c[1] => b[2] < c[2]

InOrder(bytes) == \A i, j \in 1 .. Len(bytes) : i < j => SentBefore(bytes[i], bytes[j])

\* The stream send() promises, over partial writes, the output buffer and
\* functors: the bytes of each thread reach the kernel in the order sent, none
\* twice and none missing before another; while the connection is up and no
\* write failed for good, those not there yet are in the output buffer or in a
\* functor.
StreamIntact ==
  /\ \A b \in Range(Stream) : {b[1]} \X (1 .. b[2]) \subseteq Range(Stream)
  /\ \A i \in Parts :
       /\ InOrder(Part(i))
       /\ \A b \in Range(Part(i)) : b[2] \in 1 .. sent[b[1]]
       /\ \A j \in Parts : i < j =>
            \A b \in Range(Part(i)), c \in Range(Part(j)) : SentBefore(b, c)
  /\ downs = 0 /\ ~fault =>
       \A t \in Threads : {t} \X (1 .. sent[t]) \subseteq UNION {Range(Part(i)) : i \in Parts}

\* shutdown() in the loop thread closes the write side only after every byte
\* that thread had sent is with the kernel, and is not forgotten: when the loop has
\* nothing left to do and the peer has read everything, the write side of a
\* connection in kDisconnecting is closed (handleWrite() finishes what
\* shutdownInLoop() put off).
ShutdownHonoured ==
  /\ wclosed /\ ~fault /\ downs = 0 /\ promised[1] = "loop" =>
       \A i \in 1 .. promised[2] : <<"loop", i>> \in Range(wire)
  /\ /\ lpc = "poll" /\ frames = <<>> /\ pending = <<>> /\ Ready = {}
     /\ rpc = Idle /\ ~delayed /\ room = SndBuf
     => (state_ = "kDisconnecting" => wclosed \/ unguarded)

\* The channel watches POLLOUT exactly when there is output to write: neither
\* are bytes left behind nor does the loop spin, up to the cases of Unless.
WritingIffPending ==
  ~unguarded /\ state_ # "kDisconnected" => ("write" \in events <=> outputBuffer_ # <<>>)

\* When the output buffer is at the high-water mark, the callback has been
\* queued since it was last below.
HighWaterNotified == Len(outputBuffer_) >= HighWaterMark => notified

\* connectDestroyed() is about to call Channel::remove().
RemovesChannel == frames # <<>> /\ Head(frames) = "remove"

\* The connection goes up once, and connectDestroyed() "should be called only
\* once", however close, error, forceClose(), the calls of another thread and the
\* destruction of the owner meet.  Channel::remove() finds a channel without
\* events, except when connectDestroyed() came to a connection in kDisconnecting.
\* And until one of the cases of Unless: the connection goes down at most once,
\* Channel::remove() has no exception, ~TcpConnection() finds the connection
\* kDisconnected, and ~Channel() finds the channel removed from the loop.
LifecycleOnce ==
  /\ ups <= 1 /\ destroys <= 1
  /\ RemovesChannel /\ events # {} => state_ = "kDisconnecting"
  /\ ~unguarded =>
       /\ downs <= 1
       /\ RemovesChannel => events = {}
       /\ ~Referenced => state_ = "kDisconnected" /\ ~added

\* handleClose() asserts that the connection is up or being shut down: it goes
\* down once, whatever the peer does after that.
ClosedOnce == downs <= 1

\* A connection that went down is destroyed, unless one of the cases of Unless
\* comes first: no reference cycle or forgotten functor keeps it.
ClosedIsFreed == downs > 0 ~> ~Referenced \/ unguarded
=============================================================================
