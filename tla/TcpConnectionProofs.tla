------------------------ MODULE TcpConnectionProofs ------------------------
(***************************************************************************)
(* Theorems about TcpConnection.tla, for any messages, send buffer, high-  *)
(* water mark and number of calls: its six invariants.                     *)
(*                                                                         *)
(* ConnInv is inductive.  It has five ideas.  The stream: what sendInLoop()*)
(* and handleWrite() do is to append to Stream = wire \o outputBuffer_ and  *)
(* to move its border, and the functors Undone = batch \o pending wait      *)
(* behind it, so that all bytes of one thread are in one order (Flow).  The*)
(* interest in POLLOUT follows the output buffer, which lets sendInLoop()  *)
(* decide by it.  A closed write side or a failed write leaves no output   *)
(* (Draining).  A shutdown that was asked for is done, with the channel, in*)
(* a functor or with its caller (Closing).  The owner, the functor of      *)
(* connectDestroyed() and the handler that calls it pass one reference on  *)
(* (Lifecycle, Holding).                                                   *)
(*                                                                         *)
(* The step lemmas have one case per action and one for all actions that   *)
(* leave the variables of the conjunct alone.                              *)
(***************************************************************************)
EXTENDS TcpConnection, SequenceTheorems, TLAPS

\* Zenon comes first: most leaves are propositional.
USE ZenonT(20), SMTT(30)

-----------------------------------------------------------------------------
(* The inductive invariant.  The model stops where the code guards against  *)
(* nothing, so much of it need only hold until then.                       *)

\* What handlers can have left to do: nothing, user code, and after it the
\* close callback or the removal of the channel.
AtClose == {<<"user", "closeCallback">>, <<"closeCallback">>}
AtRemove == {<<"user", "remove">>, <<"remove">>}
Stacks == {<<>>, <<"user">>} \cup AtClose \cup AtRemove

\* TypeOK in four parts, with the stacks that occur.
TypeControl ==
  /\ state_ \in {"kConnecting", "kConnected", "kDisconnecting", "kDisconnected"}
  /\ events \subseteq {"read", "write"}
  /\ lpc \in {"accept", "poll", "events", "functors"}
  /\ frames \in Stacks
  /\ revents \subseteq {"hup", "err", "in", "out"}
  /\ rpc \in {Idle} \cup (RemoteOps \X {"set", "queue"})
  /\ peer \in {"open", "fin", "reset"}

TypeFlags ==
  /\ reading_ \in BOOLEAN /\ added \in BOOLEAN /\ polled \in BOOLEAN
  /\ batchHolds \in BOOLEAN /\ owned \in BOOLEAN /\ held \in BOOLEAN /\ delayed \in BOOLEAN
  /\ wclosed \in BOOLEAN /\ inbox \in BOOLEAN /\ error \in BOOLEAN /\ fault \in BOOLEAN
  /\ unguarded \in BOOLEAN /\ notified \in BOOLEAN

TypeSeqs ==
  /\ outputBuffer_ \in Seq(Byte) /\ wire \in Seq(Byte)
  /\ pending \in Seq(Functor) /\ batch \in Seq(Functor)

TypeNumbers ==
  /\ room \in 0 .. SndBuf /\ sent \in [Threads -> Nat] /\ calls \in Nat /\ promised \in Byte
  /\ ups \in Nat /\ downs \in Nat /\ destroys \in Nat

Types == TypeControl /\ TypeFlags /\ TypeSeqs /\ TypeNumbers

\* A connection that connectEstablished() has not seen is as it was made.
Fresh ==
  /\ lpc = "accept" <=> state_ = "kConnecting"
  /\ ups = IF lpc = "accept" THEN 0 ELSE 1
  /\ lpc = "accept" =>
       /\ frames = <<>> /\ ~held /\ rpc = Idle /\ ~delayed
       /\ events = {} /\ ~wclosed /\ ~fault
       /\ Stream = <<>> /\ Undone = <<>>

\* The part of an iteration in which there are functors and events left.
Phases ==
  /\ batch # <<>> => lpc = "functors"
  /\ revents # {} => lpc = "events"
  /\ "hup" \in revents => "in" \notin revents

\* The functors of connectDestroyed() in a queue: none, or exactly one.
None(fs) == \A i \in 1 .. Len(fs) : fs[i].op # "connectDestroyed"
One(fs) ==
  \E i \in 1 .. Len(fs) :
    /\ fs[i].op = "connectDestroyed"
    /\ \A j \in 1 .. Len(fs) : fs[j].op = "connectDestroyed" => j = i

\* The connection is down when its callback said so; the owner gives it up then,
\* once, and connectDestroyed() is in exactly one place until it was called.
Lifecycle ==
  /\ downs = IF state_ = "kDisconnected" THEN 1 ELSE 0
  /\ state_ = "kDisconnected" => events = {} /\ "in" \notin revents
  /\ frames \in AtClose \cup AtRemove => state_ = "kDisconnected"
  /\ owned <=> state_ # "kDisconnected" \/ frames \in AtClose
  /\ owned => destroys = 0 /\ None(Undone) /\ frames \notin AtRemove
  /\ ~owned => \/ destroys = 0 /\ One(Undone) /\ frames \notin AtRemove
               \/ destroys = 1 /\ None(Undone)
  /\ added => owned \/ One(Undone) \/ frames \in AtRemove

\* The functors that are left, and what they put on the stack, hold the connection.
Holding == Holds(batch) \/ frames \in AtRemove => batchHolds

\* Calls that have set kDisconnecting and have still to be carried out.
Closers == {"shutdown", "forceClose"}
ToClose(fs) == \E i \in 1 .. Len(fs) : fs[i].op \in Closers

\* Where a shutdown or a forced close that was asked for is.
Closing ==
  /\ state_ = "kDisconnecting" =>
       wclosed \/ delayed \/ "write" \in events \/ ToClose(Undone) \/ rpc \in Closers \X {"queue"}
  /\ wclosed \/ ToClose(Undone) \/ rpc \in Closers \X {"queue"} => state_ # "kConnected"
  /\ rpc[2] = "set" => rpc[1] \in Closers

\* The write side is closed when nothing is left to write, and a write that
\* failed for good leaves nothing and makes the next one fail.
Draining ==
  /\ wclosed /\ downs = 0 => outputBuffer_ = <<>>
  /\ fault => Broken /\ (downs = 0 => outputBuffer_ = <<>>)
  /\ promised[1] = "loop" => promised[2] <= sent["loop"]

\* Only functors of send() have data, and only the other thread queues them.
Data(fs) ==
  \A i \in 1 .. Len(fs) :
    /\ fs[i].op = "send" \/ fs[i].data = <<>>
    /\ \A b \in Range(fs[i].data) : b[1] = "other"

\* What holds of the life of a connection after an unguarded step, too.
Always ==
  /\ ups <= 1 /\ destroys <= 1
  /\ RemovesChannel /\ events # {} => state_ = "kDisconnecting"

Guarded == Fresh /\ Phases /\ Lifecycle /\ Holding /\ Closing

ConnInv ==
  /\ Always
  /\ Types /\ StreamIntact /\ HighWaterNotified /\ WritingIffPending
  /\ Draining /\ Data(Undone)
  /\ ~unguarded => Guarded
-----------------------------------------------------------------------------
(* Sequences.                                                              *)

\* Appending to the second of two sequences appends to both.
LEMMA AppendToConcat ==
  ASSUME NEW S, NEW s \in Seq(S), NEW t \in Seq(S), NEW e \in S
  PROVE  s \o Append(t, e) = Append(s \o t, e)
<1>1. <<e>> \in Seq(S) /\ s \o t \in Seq(S)
  BY ConcatProperties, SMTT(30)
<1>2. QED
  BY <1>1, AppendIsConcat, ConcatAssociative, SMTT(30)

\* The first functor of the batch is the first that was not called.
LEMMA HeadTailOfConcat ==
  ASSUME NEW S, NEW s \in Seq(S), NEW t \in Seq(S), s # <<>>
  PROVE  s \o t # <<>> /\ Head(s \o t) = Head(s) /\ Tail(s \o t) = Tail(s) \o t
<1>1. /\ s \o t \in Seq(S) /\ Len(s \o t) = Len(s) + Len(t)
      /\ Len(s) \in Nat \ {0} /\ Len(t) \in Nat
  BY ConcatProperties, LenProperties, EmptySeq
<1>2. s \o t # <<>> /\ Head(s \o t) = (s \o t)[1] /\ Head(s) = s[1]
  BY <1>1, SMTT(30)
<1>3. (s \o t)[1] = s[1]
  BY <1>1, ConcatProperties, SMTT(30)
<1>4. /\ Tail(s) \in Seq(S) /\ Len(Tail(s)) = Len(s) - 1
      /\ \A i \in 1 .. Len(Tail(s)) : Tail(s)[i] = s[i + 1]
  BY HeadTailProperties
<1>5. /\ Tail(s \o t) \in Seq(S) /\ Len(Tail(s \o t)) = Len(s) + Len(t) - 1
      /\ \A i \in 1 .. Len(Tail(s \o t)) : Tail(s \o t)[i] = (s \o t)[i + 1]
  BY <1>1, <1>2, HeadTailProperties, SMTT(30)
<1>6. /\ Tail(s) \o t \in Seq(S) /\ Len(Tail(s) \o t) = Len(s) + Len(t) - 1
      /\ \A i \in 1 .. Len(s) + Len(t) - 1 :
           (Tail(s) \o t)[i] = IF i <= Len(s) - 1 THEN Tail(s)[i] ELSE t[i - (Len(s) - 1)]
  BY <1>1, <1>4, ConcatProperties, SMTT(30)
<1>7. ASSUME NEW i \in 1 .. Len(s) + Len(t) - 1
      PROVE  Tail(s \o t)[i] = (Tail(s) \o t)[i]
  <2>1. Tail(s \o t)[i] = IF i + 1 <= Len(s) THEN s[i + 1] ELSE t[i + 1 - Len(s)]
    BY <1>1, <1>5, ConcatProperties, SMTT(30)
  <2>2. (Tail(s) \o t)[i] = IF i <= Len(s) - 1 THEN s[i + 1] ELSE t[i - (Len(s) - 1)]
    BY <1>1, <1>4, <1>6, SMTT(30)
  <2>3. QED
    BY <1>1, <2>1, <2>2, SMTT(30)
<1>8. Tail(s \o t) = Tail(s) \o t
  BY <1>5, <1>6, <1>7, SeqEqual
<1>9. QED
  BY <1>2, <1>3, <1>8

\* The first n elements of a sequence, and the others.
Front(d, n) == SubSeq(d, 1, n)
Back(d, n) == SubSeq(d, n + 1, Len(d))

\* Moving the first elements of one sequence to the end of the one before it.
LEMMA MoveFront ==
  ASSUME NEW w \in Seq(Byte), NEW d \in Seq(Byte), NEW n \in 0 .. Len(d)
  PROVE  /\ Front(d, n) \in Seq(Byte) /\ Back(d, n) \in Seq(Byte)
         /\ Len(Back(d, n)) = Len(d) - n
         /\ (w \o Front(d, n)) \o Back(d, n) = w \o d
<1> DEFINE a == Front(d, n)
           b == Back(d, n)
<1>1. Len(d) \in Nat /\ \A i \in 1 .. Len(d) : d[i] \in Byte
  BY LenProperties, ElementOfSeq
<1>2. a \in Seq(Byte) /\ Len(a) = n /\ \A i \in 1 .. n : a[i] = d[i]
  BY <1>1, SubSeqProperties, SMTT(30) DEF Front
<1>3. b \in Seq(Byte) /\ Len(b) = Len(d) - n /\ \A i \in 1 .. Len(d) - n : b[i] = d[n + i]
  BY <1>1, SubSeqProperties, SMTT(30) DEF Back
<1> HIDE DEF a, b
<1>4. /\ a \o b \in Seq(Byte) /\ Len(a \o b) = Len(d)
      /\ \A i \in 1 .. Len(d) : (a \o b)[i] = IF i <= n THEN a[i] ELSE b[i - n]
  BY <1>1, <1>2, <1>3, ConcatProperties, SMTT(30)
<1>5. \A i \in 1 .. Len(d) : (a \o b)[i] = d[i]
  BY <1>1, <1>2, <1>3, <1>4, SMTT(30)
<1>6. a \o b = d
  BY <1>4, <1>5, SeqEqual
<1>7. (w \o a) \o b = w \o (a \o b)
  BY <1>2, <1>3, ConcatAssociative, SMTT(30)
<1>8. QED
  BY <1>2, <1>3, <1>6, <1>7 DEF a, b

\* What a functor that is added, or taken from the front, does to the functors
\* that are left.
LEMMA QueueAppend ==
  ASSUME NEW q \in Seq(Functor), NEW f \in Functor
  PROVE  /\ Append(q, f) \in Seq(Functor)
         /\ None(q) /\ f.op # "connectDestroyed" => None(Append(q, f))
         /\ One(q) /\ f.op # "connectDestroyed" => One(Append(q, f))
         /\ None(q) /\ f.op = "connectDestroyed" => One(Append(q, f))
         /\ ToClose(Append(q, f)) <=> ToClose(q) \/ f.op \in Closers
<1> DEFINE a == Append(q, f)
           n == Len(q)
<1>1. /\ n \in Nat /\ a \in Seq(Functor) /\ Len(a) = n + 1 /\ a[n + 1] = f
      /\ \A i \in 1 .. n : a[i] = q[i]
  BY AppendProperties, LenProperties, SMTT(30)
<1> HIDE DEF a
<1>2. \A i \in 1 .. n + 1 : i \in 1 .. n \/ i = n + 1
  BY <1>1, SMTT(30)
<1>3. None(q) /\ f.op # "connectDestroyed" => None(a)
  BY <1>1, <1>2 DEF None
<1>4. ASSUME One(q), f.op # "connectDestroyed" PROVE One(a)
  <2>1. PICK i \in 1 .. n : /\ q[i].op = "connectDestroyed"
                            /\ \A j \in 1 .. n : q[j].op = "connectDestroyed" => j = i
    BY <1>4 DEF One
  <2>2. i \in 1 .. n + 1 /\ a[i].op = "connectDestroyed"
    BY <1>1, <2>1, SMTT(30)
  <2>3. ASSUME NEW j \in 1 .. n + 1, a[j].op = "connectDestroyed" PROVE j = i
    BY <1>1, <1>2, <1>4, <2>1, <2>3, ZenonT(20)
  <2>4. QED
    BY <1>1, <2>2, <2>3 DEF One
<1>5. None(q) /\ f.op = "connectDestroyed" => One(a)
  BY <1>1, <1>2, SMTT(30) DEF None, One
<1>6. ToClose(a) <=> ToClose(q) \/ f.op \in Closers
  BY <1>1, <1>2, SMTT(30) DEF ToClose
<1>7. QED
  BY <1>1, <1>3, <1>4, <1>5, <1>6 DEF a

\* What is left of a queue when its first functor is taken.
LEMMA QueueTail ==
  ASSUME NEW q \in Seq(Functor), q # <<>>
  PROVE  /\ Head(q) \in Functor /\ Tail(q) \in Seq(Functor)
         /\ None(q) => None(Tail(q)) /\ Head(q).op # "connectDestroyed"
         /\ One(q) /\ Head(q).op = "connectDestroyed" => None(Tail(q))
         /\ One(q) /\ Head(q).op # "connectDestroyed" => One(Tail(q))
         /\ ToClose(Tail(q)) => ToClose(q)
         /\ ToClose(q) => ToClose(Tail(q)) \/ Head(q).op \in Closers
         /\ Head(q).op \in Closers => ToClose(q)
         /\ Head(q).op = "connectDestroyed" => ~None(q)
<1> DEFINE t == Tail(q)
           h == Head(q)
           n == Len(q)
<1>1. /\ n \in Nat \ {0} /\ t \in Seq(Functor) /\ Len(t) = n - 1 /\ h = q[1] /\ h \in Functor
      /\ \A i \in 1 .. n - 1 : t[i] = q[i + 1]
  BY HeadTailProperties, LenProperties, EmptySeq, SMTT(30)
<1> HIDE DEF t, h
<1>2. /\ \A i \in 1 .. n : i = 1 \/ (i - 1 \in 1 .. n - 1 /\ q[i] = t[i - 1])
      /\ \A i \in 1 .. n - 1 : i + 1 \in 1 .. n /\ i + 1 # 1
      /\ 1 \in 1 .. n
  BY <1>1, SMTT(30)
<1>3. None(q) => None(t) /\ h.op # "connectDestroyed"
  BY <1>1, <1>2 DEF None
<1>4. One(q) /\ h.op = "connectDestroyed" => None(t)
  BY <1>1, <1>2, SMTT(30) DEF None, One
<1>5. ASSUME One(q), h.op # "connectDestroyed" PROVE One(t)
  <2>1. PICK i \in 1 .. n : /\ q[i].op = "connectDestroyed"
                            /\ \A j \in 1 .. n : q[j].op = "connectDestroyed" => j = i
    BY <1>5 DEF One
  <2>2. i - 1 \in 1 .. Len(t) /\ t[i - 1].op = "connectDestroyed"
    BY <1>1, <1>2, <1>5, <2>1
  <2>3. ASSUME NEW j \in 1 .. Len(t), t[j].op = "connectDestroyed" PROVE j = i - 1
    BY <1>1, <1>2, <2>1, <2>3, SMTT(30)
  <2>4. QED
    BY <2>2, <2>3 DEF One
<1>6. ToClose(t) => ToClose(q)
  BY <1>1, <1>2 DEF ToClose
<1>7. ToClose(q) => ToClose(t) \/ h.op \in Closers
  BY <1>1, <1>2 DEF ToClose
<1>8. /\ h.op \in Closers => ToClose(q)
      /\ h.op = "connectDestroyed" => ~None(q)
  BY <1>1, <1>2 DEF ToClose, None
<1>9. QED
  BY <1>1, <1>3, <1>4, <1>5, <1>6, <1>7, <1>8 DEF t, h

-----------------------------------------------------------------------------
(* What the model's operators do.                                          *)

\* What write() takes fits in the send buffer.
LEMMA TakenFits ==
  ASSUME TypeOK, NEW len \in Nat
  PROVE  /\ Taken(len) \in 0 .. len /\ room - Taken(len) \in 0 .. SndBuf
         /\ Broken => Taken(len) = 0
<1>1. room \in 0 .. SndBuf /\ SndBuf \in Nat
  BY TcpConnectionAssumption DEF TypeOK
<1>2. Min({room, len}) \in {room, len} /\ Min({room, len}) <= room /\ Min({room, len}) <= len
  <2>1. \E x \in {room, len} : \A y \in {room, len} : x =< y
    BY <1>1, SMTT(30)
  <2>2. QED
    BY <1>1, <2>1, ZenonT(30) DEF Min
<1>3. QED
  BY <1>1, <1>2, SMTT(30) DEF Taken

\* A functor without data.
LEMMA FunctorType ==
  ASSUME NEW op \in Ops \cup Shared
  PROVE  F(op) \in Functor /\ F(op).op = op /\ F(op).data = <<>>
BY EmptySeq DEF F, Functor

\* A message is MsgLen bytes, numbered on from what the thread has sent.
LEMMA MessageType ==
  ASSUME TypeOK, NEW t \in Threads
  PROVE  /\ Message(t) \in Seq(Byte) /\ Len(Message(t)) = MsgLen
         /\ \A i \in 1 .. MsgLen : Message(t)[i] = <<t, sent[t] + i>>
<1>1. MsgLen \in Nat /\ sent[t] \in Nat
  BY TcpConnectionAssumption DEF TypeOK
<1>2. \A i \in 1 .. MsgLen : <<t, sent[t] + i>> \in Byte
  BY <1>1, SMTT(30) DEF Byte
<1>3. [i \in 1 .. MsgLen |-> <<t, sent[t] + i>>] \in Seq(Byte)
  BY <1>1, <1>2, IsASeq, SMTT(30)
<1>4. QED
  BY <1>1, <1>3, SMTT(30) DEF Message

\* The stream and the functors not called yet are sequences; when they are empty.
LEMMA SeqTypes ==
  ASSUME TypeOK
  PROVE  /\ Stream \in Seq(Byte) /\ Undone \in Seq(Functor)
         /\ Undone = <<>> <=> batch = <<>> /\ pending = <<>>
         /\ Stream = <<>> <=> wire = <<>> /\ outputBuffer_ = <<>>
         /\ outputBuffer_ = <<>> => Stream = wire
<1>1. /\ wire \in Seq(Byte) /\ outputBuffer_ \in Seq(Byte)
      /\ batch \in Seq(Functor) /\ pending \in Seq(Functor)
  BY DEF TypeOK
<1>2. Stream \in Seq(Byte) /\ Undone \in Seq(Functor)
  BY <1>1, ConcatProperties DEF Stream, Undone
<1>3. /\ Undone = <<>> <=> batch = <<>> /\ pending = <<>>
      /\ Stream = <<>> <=> wire = <<>> /\ outputBuffer_ = <<>>
  BY <1>1, ConcatEqualIffEmpty, SMTT(30) DEF Stream, Undone
<1>4. outputBuffer_ = <<>> => Stream = wire
  BY <1>1, ConcatEmptySeq DEF Stream
<1>5. QED
  BY <1>2, <1>3, <1>4

\* The functors not called yet, when one is queued, called, or both.
LEMMA UndoneQueue ==
  ASSUME TypeOK, NEW f \in Functor, batch' = batch, pending' = Append(pending, f)
  PROVE  Undone' = Append(Undone, f)
BY AppendToConcat, SMTT(30) DEF TypeOK, Undone

\* The first functor of the batch is called, which may queue another.
LEMMA UndoneCall ==
  ASSUME TypeOK, batch # <<>>
  PROVE  /\ Undone # <<>> /\ Head(Undone) = Head(batch) /\ Tail(batch) \in Seq(Functor)
         /\ batch' = Tail(batch) /\ pending' = pending => Undone' = Tail(Undone)
         /\ \A f \in Functor : batch' = Tail(batch) /\ pending' = Append(pending, f) =>
              Undone' = Append(Tail(Undone), f)
<1>1. batch \in Seq(Functor) /\ pending \in Seq(Functor) /\ Tail(batch) \in Seq(Functor)
  BY HeadTailProperties DEF TypeOK
<1>2. Undone # <<>> /\ Head(Undone) = Head(batch) /\ Tail(Undone) = Tail(batch) \o pending
  BY <1>1, HeadTailOfConcat DEF Undone
<1>3. \A f \in Functor : Tail(batch) \o Append(pending, f) = Append(Tail(batch) \o pending, f)
  BY <1>1, AppendToConcat, SMTT(30)
<1>4. QED
  BY <1>1, <1>2, <1>3 DEF Undone

\* sendInLoop() on a connection that is not down: the whole message goes to the
\* end of the stream, or the write fails for good and nothing does.
Extends(data) ==
  /\ wire' \in Seq(Byte) /\ outputBuffer_' \in Seq(Byte) /\ room' \in 0 .. SndBuf
  /\ events' \in {events, events \cup {"write"}}
  /\ "write" \in events' <=> outputBuffer_' # <<>>
  /\ \/ Stream' = Stream \o data /\ ~(outputBuffer_ = <<>> /\ Broken) /\ fault' = fault
     \/ Stream' = Stream /\ outputBuffer_ = <<>> /\ outputBuffer_' = <<>> /\ Broken /\ fault' = TRUE
  /\ outputBuffer_ = <<>> /\ Broken => outputBuffer_' = <<>>
  /\ pending' \in {pending, Append(pending, F("writeComplete")), Append(pending, F("highWater"))}
  /\ HighWaterNotified => (Len(outputBuffer_') >= HighWaterMark => notified')
  /\ notified' \in BOOLEAN /\ error' \in BOOLEAN /\ fault' \in BOOLEAN
  /\ added' \in BOOLEAN /\ polled' \in BOOLEAN
  /\ UNCHANGED <<state_, reading_, wclosed, peer, inbox>>

\* sendInLoop() does that, by a full, a partial, a refused or no direct write.
LEMMA SendExtends ==
  ASSUME TypeOK, WritingIffPending, ~unguarded, state_ # "kDisconnected",
         NEW data \in Seq(Byte), SendInLoop(data)
  PROVE  Extends(data)
<1> DEFINE direct == TriesDirectWrite
           n == IF direct THEN Taken(Len(data)) ELSE 0
           rest == Back(data, n)
           faultError == direct /\ Broken
           keep == rest # <<>> /\ ~faultError
           crosses == keep /\ CrossesHighWaterMark(Len(outputBuffer_), Len(outputBuffer_ \o rest))
<1>1. /\ wire' = wire \o Front(data, n)
      /\ room' = room - n
      /\ error' = (error /\ ~faultError)
      /\ fault' = (fault \/ faultError)
      /\ outputBuffer_' = IF keep THEN outputBuffer_ \o rest ELSE outputBuffer_
      /\ events' = IF keep THEN events \cup {"write"} ELSE events
      /\ added' = (added \/ keep) /\ polled' = (polled \/ keep)
      /\ notified' = (notified \/ crosses)
      /\ pending' = IF rest = <<>> THEN Append(pending, F("writeComplete"))
                    ELSE IF crosses THEN Append(pending, F("highWater"))
                    ELSE pending
      /\ UNCHANGED <<state_, reading_, wclosed, peer, inbox>>
  BY DEF SendInLoop, Front, Back
<1>2. direct <=> outputBuffer_ = <<>>
  BY DEF WritingIffPending, TriesDirectWrite
<1>3. Len(data) \in Nat /\ wire \in Seq(Byte) /\ outputBuffer_ \in Seq(Byte) /\ room \in 0 .. SndBuf
  BY LenProperties DEF TypeOK
<1>4. n \in 0 .. Len(data) /\ room - n \in 0 .. SndBuf /\ (Broken => n = 0)
  BY <1>3, TakenFits, SMTT(30)
<1> HIDE DEF direct, n
<1>5. /\ Front(data, n) \in Seq(Byte) /\ rest \in Seq(Byte)
      /\ (wire \o Front(data, n)) \o rest = wire \o data
  BY <1>3, <1>4, MoveFront
<1>6. n = 0 => rest = data /\ Front(data, n) = <<>>
  BY <1>3, SubSeqFull, SubSeqEmpty, SMTT(30) DEF Front, Back
<1> HIDE DEF rest
<1>7. /\ wire' \in Seq(Byte) /\ room' \in 0 .. SndBuf /\ outputBuffer_' \in Seq(Byte)
  BY <1>1, <1>3, <1>4, <1>5, ConcatProperties
<1>8. /\ events' \in {events, events \cup {"write"}}
      /\ pending' \in {pending, Append(pending, F("writeComplete")), Append(pending, F("highWater"))}
      /\ UNCHANGED <<state_, reading_, wclosed, peer, inbox>>
  BY <1>1
<1>9. "write" \in events' <=> outputBuffer_' # <<>>
  <2>1. outputBuffer_ \o rest = <<>> <=> outputBuffer_ = <<>> /\ rest = <<>>
    BY <1>3, <1>5, ConcatEqualIffEmpty, SMTT(30)
  <2>2. "write" \in events <=> outputBuffer_ # <<>>
    BY DEF WritingIffPending
  <2>3. QED
    BY <1>1, <2>1, <2>2
<1>10. \/ Stream' = Stream \o data /\ ~(outputBuffer_ = <<>> /\ Broken) /\ fault' = fault
       \/ Stream' = Stream /\ outputBuffer_ = <<>> /\ outputBuffer_' = <<>> /\ Broken /\ fault' = TRUE
  <2>1. CASE faultError
    <3>1. n = 0 /\ outputBuffer_' = outputBuffer_ /\ fault' = TRUE /\ outputBuffer_ = <<>>
      BY <1>1, <1>2, <1>4, <2>1
    <3>2. wire' = wire
      BY <1>1, <1>3, <1>6, <3>1, ConcatEmptySeq
    <3>3. QED
      BY <2>1, <3>1, <3>2 DEF Stream
  <2>2. CASE ~faultError /\ direct
    <3>1. outputBuffer_ = <<>> /\ Stream = wire
      BY <1>2, <2>2, SeqTypes
    <3>2. outputBuffer_' = rest
      BY <1>1, <1>5, <2>2, <3>1, ConcatEmptySeq
    <3>3. Stream' = Stream \o data
      BY <1>1, <1>5, <3>1, <3>2 DEF Stream
    <3>4. fault' = fault /\ ~(outputBuffer_ = <<>> /\ Broken)
      BY <1>1, <2>2 DEF TypeOK
    <3>5. QED
      BY <3>3, <3>4
  <2>3. CASE ~direct
    <3>1. n = 0
      BY <2>3 DEF n
    <3>2. wire' = wire /\ rest = data
      BY <1>1, <1>3, <1>6, <3>1, ConcatEmptySeq
    <3>3. outputBuffer_' = outputBuffer_ \o data
      BY <1>1, <1>3, <2>3, <3>2, ConcatEmptySeq
    <3>4. Stream' = Stream \o data
      BY <1>3, <3>2, <3>3, ConcatAssociative, SMTT(30) DEF Stream
    <3>5. fault' = fault /\ ~(outputBuffer_ = <<>> /\ Broken)
      BY <1>1, <1>2, <2>3 DEF TypeOK
    <3>6. QED
      BY <3>4, <3>5
  <2>4. QED
    BY <2>1, <2>2, <2>3
<1>11. outputBuffer_ = <<>> /\ Broken => outputBuffer_' = <<>>
  BY <1>1, <1>2
<1>12. HighWaterNotified => (Len(outputBuffer_') >= HighWaterMark => notified')
  <2>1. Len(outputBuffer_) \in Nat /\ Len(outputBuffer_') \in Nat /\ HighWaterMark \in Nat
    BY <1>3, <1>7, LenProperties, TcpConnectionAssumption
  <2>2. ASSUME HighWaterNotified, Len(outputBuffer_') >= HighWaterMark PROVE notified \/ crosses
    <3>1. CASE keep
      BY <1>1, <2>1, <2>2, <3>1, SMTT(30) DEF HighWaterNotified, CrossesHighWaterMark
    <3>2. CASE ~keep
      BY <1>1, <2>2, <3>2 DEF HighWaterNotified
    <3>3. QED
      BY <3>1, <3>2
  <2>3. QED
    BY <1>1, <2>2
<1>13. /\ notified' \in BOOLEAN /\ error' \in BOOLEAN /\ fault' \in BOOLEAN
       /\ added' \in BOOLEAN /\ polled' \in BOOLEAN
  BY <1>1
<1>14. QED
  BY <1>7, <1>8, <1>9, <1>10, <1>11, <1>12, <1>13 DEF Extends

\* handleWrite(): bytes move from the output buffer to the kernel; when none is
\* left, the channel stops watching POLLOUT and a shutdown is finished.
Drains ==
  /\ wire' \in Seq(Byte) /\ outputBuffer_' \in Seq(Byte) /\ room' \in 0 .. SndBuf
  /\ Stream' = Stream
  /\ events' \in {events, events \ {"write"}}
  /\ state_ # "kDisconnected" => ("write" \in events' <=> outputBuffer_' # <<>>)
  /\ outputBuffer_ = <<>> => outputBuffer_' = <<>>
  /\ wclosed' => wclosed \/ (outputBuffer_' = <<>> /\ state_ = "kDisconnecting")
  /\ wclosed => wclosed'
  /\ state_ = "kDisconnecting" /\ "write" \in events => wclosed' \/ "write" \in events'
  /\ pending' \in {pending, Append(pending, F("writeComplete"))}
  /\ HighWaterNotified => (Len(outputBuffer_') >= HighWaterMark => notified')
  /\ notified' \in BOOLEAN /\ error' \in BOOLEAN /\ wclosed' \in BOOLEAN /\ polled' \in BOOLEAN
  /\ AtHandler /\ revents = {"out"} /\ revents' = {}
  /\ UNCHANGED <<state_, reading_, added, batch, batchHolds, lpc, frames, refs, other,
                 peer, inbox, fault, sent, calls, past, ups, downs, destroys>>

\* handleWrite() does that.
LEMMA WriteDrains ==
  ASSUME TypeOK, WritingIffPending, ~unguarded, HandleWrite
  PROVE  Drains
<1> DEFINE n == IF "write" \in events THEN Taken(Len(outputBuffer_)) ELSE 0
           rest == Back(outputBuffer_, n)
           done == n > 0 /\ rest = <<>>
<1>1. /\ wire' = wire \o Front(outputBuffer_, n)
      /\ room' = room - n
      /\ outputBuffer_' = rest
      /\ notified' = (notified /\ Len(rest) >= HighWaterMark)
      /\ events' = IF done THEN events \ {"write"} ELSE events
      /\ polled' = (polled /\ events' # {})
      /\ pending' = IF done THEN Append(pending, F("writeComplete")) ELSE pending
      /\ wclosed' = (wclosed \/ (done /\ state_ = "kDisconnecting"))
      /\ error' = (error /\ ~("write" \in events /\ Broken))
  BY DEF HandleWrite, Front, Back, EventsAfterWrite, FinishesShutdown
<1>2. /\ Len(outputBuffer_) \in Nat /\ wire \in Seq(Byte) /\ outputBuffer_ \in Seq(Byte)
      /\ room \in 0 .. SndBuf /\ HighWaterMark \in Nat
      /\ outputBuffer_ = <<>> <=> Len(outputBuffer_) = 0
  BY LenProperties, EmptySeq, TcpConnectionAssumption DEF TypeOK
<1>3. n \in 0 .. Len(outputBuffer_) /\ room - n \in 0 .. SndBuf /\ ("write" \notin events => n = 0)
  BY <1>2, TakenFits, SMTT(30)
<1> HIDE DEF n
<1>4. /\ Front(outputBuffer_, n) \in Seq(Byte) /\ rest \in Seq(Byte)
      /\ Len(rest) = Len(outputBuffer_) - n
      /\ (wire \o Front(outputBuffer_, n)) \o rest = wire \o outputBuffer_
  BY <1>2, <1>3, MoveFront
<1>5. rest = <<>> <=> Len(rest) = 0
  BY <1>4, EmptySeq
<1> HIDE DEF rest
<1>6. /\ wire' \in Seq(Byte) /\ room' \in 0 .. SndBuf /\ outputBuffer_' \in Seq(Byte)
  BY <1>1, <1>2, <1>3, <1>4, ConcatProperties
<1>7. Stream' = Stream
  BY <1>1, <1>4 DEF Stream
<1>8. /\ events' \in {events, events \ {"write"}}
      /\ pending' \in {pending, Append(pending, F("writeComplete"))}
  BY <1>1
<1>9. done <=> n > 0 /\ Len(rest) = 0
  BY <1>5
<1> HIDE DEF done
<1>10. outputBuffer_ = <<>> => outputBuffer_' = <<>>
  BY <1>1, <1>2, <1>3, <1>4, <1>5, SMTT(30)
<1>11. done => outputBuffer_' = <<>>
  BY <1>1, <1>5, <1>9
<1>12. "write" \in events /\ outputBuffer_ # <<>> /\ ~done => outputBuffer_' # <<>>
  BY <1>1, <1>2, <1>3, <1>4, <1>5, <1>9, SMTT(30)
<1>13. state_ # "kDisconnected" => ("write" \in events' <=> outputBuffer_' # <<>>)
  <2>1. state_ # "kDisconnected" => ("write" \in events <=> outputBuffer_ # <<>>)
    BY DEF WritingIffPending
  <2>2. QED
    BY <1>1, <1>10, <1>11, <1>12, <2>1
<1>14. /\ wclosed' => wclosed \/ (outputBuffer_' = <<>> /\ state_ = "kDisconnecting")
       /\ wclosed => wclosed'
       /\ state_ = "kDisconnecting" /\ "write" \in events => wclosed' \/ "write" \in events'
  BY <1>1, <1>11
<1>15. HighWaterNotified => (Len(outputBuffer_') >= HighWaterMark => notified')
  <2>1. ASSUME HighWaterNotified, Len(outputBuffer_') >= HighWaterMark
        PROVE  notified /\ Len(rest) >= HighWaterMark
    BY <1>1, <1>2, <1>3, <1>4, <2>1, SMTT(30) DEF HighWaterNotified
  <2>2. QED
    BY <1>1, <2>1
<1>16. notified' \in BOOLEAN /\ error' \in BOOLEAN /\ wclosed' \in BOOLEAN /\ polled' \in BOOLEAN
  BY <1>1
<1>17. /\ AtHandler /\ revents = {"out"} /\ revents' = {}
       /\ UNCHANGED <<state_, reading_, added, batch, batchHolds, lpc, frames, refs, other,
                      peer, inbox, fault, sent, calls, past, ups, downs, destroys>>
  BY DEF HandleWrite
<1>18. QED
  BY <1>6, <1>7, <1>8, <1>10, <1>13, <1>14, <1>15, <1>16, <1>17 DEF Drains

-----------------------------------------------------------------------------
(* Types.                                                                  *)

USE DEF conn, functors, stack, refs, other, kernel, past, history

\* The types of the invariant are those of TypeOK.
LEMMA TypesHold == Types => TypeOK
<1> DEFINE Q == Seq({"user", "closeCallback", "remove"})
<1>1. <<>> \in Q /\ <<"user">> \in Q /\ <<"closeCallback">> \in Q /\ <<"remove">> \in Q
  BY SMTT(30)
<1>2. <<"user", "closeCallback">> \in Q /\ <<"user", "remove">> \in Q
  BY SMTT(30)
<1> HIDE DEF Q
<1>3. Stacks \subseteq Q
  BY <1>1, <1>2 DEF Stacks, AtClose, AtRemove
<1>4. QED
  BY <1>3 DEF Types, TypeControl, TypeFlags, TypeSeqs, TypeNumbers, TypeOK, Q

\* The frames that a handler leaves and those it returns to.
LEMMA StackFacts ==
  /\ <<>> \in Stacks \ (AtClose \cup AtRemove) /\ <<"user">> \in Stacks \ (AtClose \cup AtRemove)
  /\ <<"user", "closeCallback">> \in AtClose \ AtRemove
  /\ <<"user", "remove">> \in AtRemove \ AtClose /\ <<"remove">> \in AtRemove \ AtClose
  /\ AtClose \subseteq Stacks /\ AtRemove \subseteq Stacks
BY DEF Stacks, AtClose, AtRemove

\* What is left of a stack when its innermost frame returns.
LEMMA StackReturns ==
  ASSUME NEW s \in Stacks, s # <<>>
  PROVE  /\ Tail(s) \in Stacks
         /\ Head(s) = "user" => /\ s \in AtClose <=> Tail(s) \in AtClose
                                /\ s \in AtRemove <=> Tail(s) \in AtRemove
         /\ Head(s) = "closeCallback" => s \in AtClose /\ Tail(s) = <<>>
         /\ Head(s) = "remove" => s \in AtRemove /\ Tail(s) = <<>>
<1>1. /\ Tail(<<"user">>) = <<>> /\ Tail(<<"closeCallback">>) = <<>> /\ Tail(<<"remove">>) = <<>>
      /\ Tail(<<"user", "closeCallback">>) = <<"closeCallback">>
      /\ Tail(<<"user", "remove">>) = <<"remove">>
  BY SMTT(30)
<1>2. CASE s = <<"user">>
  BY <1>1, <1>2, SMTT(30) DEF Stacks, AtClose, AtRemove
<1>3. CASE s = <<"user", "closeCallback">>
  BY <1>1, <1>3, SMTT(30) DEF Stacks, AtClose, AtRemove
<1>4. CASE s = <<"user", "remove">>
  BY <1>1, <1>4, SMTT(30) DEF Stacks, AtClose, AtRemove
<1>5. CASE s = <<"closeCallback">>
  BY <1>1, <1>5, SMTT(30) DEF Stacks, AtClose, AtRemove
<1>6. CASE s = <<"remove">>
  BY <1>1, <1>6, SMTT(30) DEF Stacks, AtClose, AtRemove
<1>7. QED
  BY <1>2, <1>3, <1>4, <1>5, <1>6 DEF Stacks, AtClose, AtRemove

RemoteCalls == \E op \in RemoteOps : RemoteCall(op)

\* The two places where a message is sent.
Outcome(data) ==
  \/ state_ = "kDisconnected" /\ UNCHANGED <<conn, pending, kernel, fault, notified>>
  \/ state_ # "kDisconnected" /\ Extends(data)

\* The functor of send() has the first or the second outcome.
LEMMA RunSendOutcome ==
  ASSUME Types, WritingIffPending, ~unguarded, RunSend
  PROVE  /\ Head(batch) \in Functor /\ Head(batch).data \in Seq(Byte)
         /\ Outcome(Head(batch).data)
<1>1. TypeOK
  BY TypesHold
<1>2. batch \in Seq(Functor) /\ batch # <<>>
  BY <1>1 DEF TypeOK, RunSend, AtFunctor
<1>3. Head(batch) \in Functor /\ Head(batch).data \in Seq(Byte)
  <2>1. Head(batch) \in Functor
    BY <1>2, HeadTailProperties
  <2>2. QED
    BY <2>1 DEF Functor
<1>4. SendInLoop(Head(batch).data)
  BY DEF RunSend
<1>5. CASE state_ = "kDisconnected"
  BY <1>3, <1>4, <1>5 DEF SendInLoop, Outcome
<1>6. CASE state_ # "kDisconnected"
  <2>1. Extends(Head(batch).data)
    BY <1>1, <1>3, <1>4, <1>6, SendExtends
  <2>2. QED
    BY <1>3, <1>6, <2>1 DEF Outcome
<1>7. QED
  BY <1>5, <1>6

\* send() in the loop thread, on a connection that is up.
LEMMA LocalSendOutcome ==
  ASSUME Types, WritingIffPending, ~unguarded, LocalSend, state_ = "kConnected"
  PROVE  Extends(Message("loop"))
<1>1. TypeOK
  BY TypesHold
<1>2. Message("loop") \in Seq(Byte)
  BY <1>1, MessageType DEF Threads
<1>3. SendInLoop(Message("loop"))
  BY DEF LocalSend
<1>4. QED
  BY <1>1, <1>2, <1>3, SendExtends

\* startReadInLoop() and stopReadInLoop() touch the interest in reading only.
ReadChange ==
  /\ events' \in {events, events \cup {"read"}, events \ {"read"}}
  /\ added' \in BOOLEAN /\ polled' \in BOOLEAN /\ reading_' \in BOOLEAN

\* startRead() and stopRead() do that, as functors and in the loop thread.
LEMMA ReadChanges ==
  ASSUME Types, RunRead \/ LocalRead
  PROVE  ReadChange
<1>1. StartReadInLoop \/ StopReadInLoop
  BY DEF RunRead, LocalRead
<1>2. events' \in {events, events \cup {"read"}, events \ {"read"}}
  BY <1>1 DEF StartReadInLoop, StopReadInLoop, Interest
<1>3. added' \in BOOLEAN /\ polled' \in BOOLEAN /\ reading_' \in BOOLEAN
  BY <1>1, ZenonT(30) DEF Types, TypeFlags, StartReadInLoop, StopReadInLoop, Interest
<1>4. QED
  BY <1>2, <1>3 DEF ReadChange

\* What the other thread queues is a functor; that of send() has a message.
LEMMA RemoteFunctor ==
  ASSUME Types, RemoteQueue
  PROVE  LET f == [F(rpc[1]) EXCEPT !.data = IF rpc[1] = "send" THEN Message("other") ELSE <<>>]
         IN  /\ f \in Functor /\ f.op = rpc[1] /\ rpc[1] \in RemoteOps
             /\ f.data = IF rpc[1] = "send" THEN Message("other") ELSE <<>>
<1>1. rpc # Idle
  BY SMTT(30) DEF RemoteQueue, Idle
<1>2. rpc[1] \in RemoteOps
  BY <1>1 DEF Types, TypeControl
<1>3. rpc[1] \in Ops
  BY <1>2, TcpConnectionAssumption
<1>4. Message("other") \in Seq(Byte)
  BY TypesHold, MessageType DEF Threads
<1>5. QED
  BY <1>2, <1>3, <1>4, EmptySeq DEF F, Functor

\* Every step keeps the types of states, events and stack.
LEMMA ControlStep ==
  ASSUME Types, WritingIffPending, ~unguarded, Next
  PROVE  TypeControl'
<1>1. CASE \/ RunShutdown
            \/ RemoteRelease
            \/ PeerAcks
            \/ PeerSends
  <2>1. UNCHANGED <<state_, events, lpc, frames, revents, rpc, peer>>
    BY <1>1 DEF RunShutdown, RemoteRelease, PeerAcks, PeerSends
  <2>2. QED
    BY <2>1 DEF TypeControl, Types
<1>2. CASE ConnectEstablished
  BY <1>2, StackFacts DEF TypeControl, Types, ConnectEstablished, Interest
<1>3. CASE Poll
  BY <1>3, StackFacts DEF TypeControl, Types, Poll, Ready
<1>4. CASE HandleHup
  BY <1>4, StackFacts DEF TypeControl, Types, HandleHup, AtHandler, HandleClose, Interest
<1>5. CASE HandleError
  BY <1>5, StackFacts DEF TypeControl, Types, HandleError, AtHandler
<1>6. CASE HandleRead
  BY <1>6, StackFacts DEF TypeControl, Types, HandleRead, AtHandler, HandleClose, Interest
<1>7. CASE HandleWrite
  <2>1. Drains
    BY <1>7, TypesHold, WriteDrains
  <2>2. QED
    BY <2>1 DEF Types, TypeControl, Drains
<1>8. CASE DoPendingFunctors
  BY <1>8, StackFacts DEF TypeControl, Types, DoPendingFunctors
<1>9. CASE FunctorsDone
  BY <1>9, StackFacts DEF TypeControl, Types, FunctorsDone
<1>10. CASE RunSend
  <2>1. Outcome(Head(batch).data)
    BY <1>10, RunSendOutcome
  <2>2. QED
    BY <1>10, <2>1 DEF Types, TypeControl, RunSend, Outcome, Extends
<1>11. CASE RunRead
  BY <1>11, StackFacts DEF TypeControl, Types, RunRead, AtFunctor, StartReadInLoop,
       StopReadInLoop, Interest
<1>12. CASE RunForceClose
  BY <1>12, StackFacts DEF TypeControl, Types, RunForceClose, AtFunctor, ForceClosable,
       HandleClose, Interest
<1>13. CASE RunUserCallback
  BY <1>13, StackFacts DEF TypeControl, Types, RunUserCallback, AtFunctor
<1>14. CASE RunConnectDestroyed
  BY <1>14, StackFacts DEF TypeControl, Types, RunConnectDestroyed, AtFunctor, ConnectDestroyed,
       Interest
<1>15. CASE CloseCallback
  <2>1. Tail(frames) \in Stacks
    BY <1>15, StackReturns DEF Types, TypeControl, CloseCallback
  <2>2. QED
    BY <1>15, <2>1 DEF Types, TypeControl, CloseCallback
<1>16. CASE ChannelRemove
  <2>1. Tail(frames) \in Stacks
    BY <1>16, StackReturns DEF Types, TypeControl, ChannelRemove
  <2>2. QED
    BY <1>16, <2>1 DEF Types, TypeControl, ChannelRemove
<1>17. CASE UserReturn
  <2>1. Tail(frames) \in Stacks
    BY <1>17, StackReturns DEF Types, TypeControl, UserReturn, Running
  <2>2. QED
    BY <1>17, <2>1 DEF Types, TypeControl, UserReturn
<1>18. CASE DelayExpires
  BY <1>18, StackFacts DEF TypeControl, Types, DelayExpires, ForceClose, ForceClosable
<1>19. CASE OtherCallback
  BY <1>19, StackFacts DEF TypeControl, Types, OtherCallback
<1>20. CASE OwnerDestroyed
  BY <1>20, StackFacts DEF TypeControl, Types, OwnerDestroyed, ConnectDestroyed, Interest
<1>21. CASE LocalSend
  <2>1. CASE state_ = "kConnected"
    <3>1. Extends(Message("loop"))
      BY <1>21, <2>1, LocalSendOutcome
    <3>2. QED
      BY <1>21, <3>1 DEF Types, TypeControl, LocalSend, LocalCall, Extends
  <2>2. CASE state_ # "kConnected"
    BY <1>21, <2>2 DEF Types, TypeControl, LocalSend, LocalCall
  <2>3. QED
    BY <2>1, <2>2
<1>22. CASE LocalShutdown
  BY <1>22, StackFacts DEF TypeControl, Types, LocalShutdown, LocalCall, ShutdownInLoop
<1>23. CASE LocalForceClose
  BY <1>23, StackFacts DEF TypeControl, Types, LocalForceClose, LocalCall, ForceClose,
       ForceClosable
<1>24. CASE LocalForceCloseWithDelay
  BY <1>24, StackFacts DEF TypeControl, Types, LocalForceCloseWithDelay, LocalCall,
       ForceClosable
<1>25. CASE LocalRead
  BY <1>25, StackFacts DEF TypeControl, Types, LocalRead, LocalCall, StartReadInLoop,
       StopReadInLoop, Interest
<1>26. CASE RemoteCalls
  BY <1>26, StackFacts, SMTT(30) DEF TypeControl, Types, RemoteCall, RemoteCalls
<1>27. CASE RemoteSetState
  <2>1. rpc # Idle
    BY <1>27, SMTT(30) DEF RemoteSetState, Idle
  <2>2. rpc[1] \in RemoteOps
    BY <2>1 DEF Types, TypeControl
  <2>3. <<rpc[1], "queue">> \in RemoteOps \X {"set", "queue"}
    BY <2>2
  <2>4. QED
    BY <1>27, <2>3 DEF Types, TypeControl, RemoteSetState
<1>28. CASE RemoteQueue
  BY <1>28, StackFacts DEF TypeControl, Types, RemoteQueue
<1>29. CASE PeerCloses
  BY <1>29, StackFacts DEF TypeControl, Types, PeerCloses
<1>30. CASE PeerResets
  BY <1>30, StackFacts DEF TypeControl, Types, PeerResets
<1>31. QED
  <2>1. CASE LoopStep
    BY <2>1, <1>1, <1>2, <1>3, <1>4, <1>5, <1>6, <1>7, <1>8, <1>9, <1>10, <1>11, <1>12, <1>13,
         <1>14, <1>15, <1>16, <1>17, <1>18 DEF LoopStep
  <2>2. CASE UserStep
    BY <2>2, <1>19, <1>20, <1>21, <1>22, <1>23, <1>24, <1>25, <1>26 DEF UserStep, RemoteCalls
  <2>3. CASE RemoteStep
    BY <2>3, <1>27, <1>28 DEF RemoteStep
  <2>4. QED
    BY <2>1, <2>2, <2>3, <1>1, <1>29, <1>30 DEF Next, Unless

\* Every step keeps the flags Boolean.
LEMMA FlagsStep ==
  ASSUME Types, WritingIffPending, ~unguarded, Next
  PROVE  TypeFlags'
<1>1. CASE \/ Poll
            \/ RunUserCallback
            \/ UserReturn
            \/ OtherCallback
            \/ LocalForceClose
            \/ RemoteCalls
            \/ RemoteQueue
            \/ PeerAcks
            \/ PeerCloses
  <2>1. UNCHANGED <<reading_, added, polled, batchHolds, owned, held, delayed, wclosed,
                    inbox, error, fault, unguarded, notified>>
    BY <1>1 DEF Poll, RunUserCallback, UserReturn, OtherCallback, LocalForceClose, RemoteCall,
         RemoteQueue, PeerAcks, PeerCloses, LocalCall, RemoteCalls
  <2>2. QED
    BY <2>1, SMTT(30) DEF TypeFlags, Types
<1>2. CASE ConnectEstablished
  BY <1>2 DEF TypeFlags, Types, ConnectEstablished, Interest
<1>3. CASE HandleHup
  BY <1>3 DEF TypeFlags, Types, HandleHup, AtHandler, HandleClose, Interest
<1>4. CASE HandleError
  BY <1>4 DEF TypeFlags, Types, HandleError, AtHandler
<1>5. CASE HandleRead
  BY <1>5 DEF TypeFlags, Types, HandleRead, AtHandler, HandleClose, Interest
<1>6. CASE HandleWrite
  <2>1. Drains
    BY <1>6, TypesHold, WriteDrains
  <2>2. QED
    BY <2>1 DEF Types, TypeFlags, Drains
<1>7. CASE DoPendingFunctors
  BY <1>7, SMTT(30) DEF TypeFlags, Types, DoPendingFunctors, Holds
<1>8. CASE FunctorsDone
  BY <1>8 DEF TypeFlags, Types, FunctorsDone
<1>9. CASE RunSend
  <2>1. Outcome(Head(batch).data)
    BY <1>9, RunSendOutcome
  <2>2. QED
    BY <1>9, <2>1, SMTT(30) DEF Types, TypeFlags, RunSend, Outcome, Extends
<1>10. CASE RunShutdown
  BY <1>10, SMTT(30) DEF TypeFlags, Types, RunShutdown, AtFunctor, ShutdownInLoop
<1>11. CASE RunRead
  BY <1>11, ZenonT(60) DEF TypeFlags, Types, RunRead, AtFunctor, StartReadInLoop,
       StopReadInLoop, Interest
<1>12. CASE RunForceClose
  BY <1>12, ZenonT(30) DEF TypeFlags, Types, RunForceClose, AtFunctor, ForceClosable,
       HandleClose, Interest
<1>13. CASE RunConnectDestroyed
  BY <1>13, ZenonT(60) DEF TypeFlags, Types, RunConnectDestroyed, AtFunctor,
       ConnectDestroyed, Interest
<1>14. CASE CloseCallback
  BY <1>14, ZenonT(30) DEF TypeFlags, Types, CloseCallback
<1>15. CASE ChannelRemove
  BY <1>15 DEF TypeFlags, Types, ChannelRemove
<1>16. CASE DelayExpires
  BY <1>16, ZenonT(30) DEF TypeFlags, Types, DelayExpires, ForceClose, ForceClosable
<1>17. CASE OwnerDestroyed
  BY <1>17 DEF TypeFlags, Types, OwnerDestroyed, ConnectDestroyed, Interest
<1>18. CASE LocalSend
  <2>1. CASE state_ = "kConnected"
    <3>1. Extends(Message("loop"))
      BY <1>18, <2>1, LocalSendOutcome
    <3>2. QED
      BY <1>18, <3>1 DEF Types, TypeFlags, LocalSend, LocalCall, Extends
  <2>2. CASE state_ # "kConnected"
    BY <1>18, <2>2, SMTT(30) DEF Types, TypeFlags, LocalSend, LocalCall
  <2>3. QED
    BY <2>1, <2>2
<1>19. CASE LocalShutdown
  BY <1>19, ZenonT(60) DEF TypeFlags, Types, LocalShutdown, LocalCall, ShutdownInLoop
<1>20. CASE LocalForceCloseWithDelay
  BY <1>20, ZenonT(30) DEF TypeFlags, Types, LocalForceCloseWithDelay, LocalCall, ForceClosable
<1>21. CASE LocalRead
  <2>1. unguarded' \in BOOLEAN /\ UNCHANGED <<batchHolds, owned, held, delayed, wclosed, inbox, error,
                                          fault, notified>>
    BY <1>21 DEF LocalRead, LocalCall
  <2>2. QED
    BY <1>21, <2>1, ReadChanges DEF Types, TypeFlags, ReadChange
<1>22. CASE RemoteSetState
  BY <1>22, SMTT(30) DEF TypeFlags, Types, RemoteSetState, Passes, ForceClosable
<1>23. CASE RemoteRelease
  BY <1>23, ZenonT(30) DEF TypeFlags, Types, RemoteRelease
<1>24. CASE PeerSends
  BY <1>24, SMTT(30) DEF TypeFlags, Types, PeerSends
<1>25. CASE PeerResets
  BY <1>25 DEF TypeFlags, Types, PeerResets
<1>26. QED
  <2>1. CASE LoopStep
    BY <2>1, <1>1, <1>2, <1>3, <1>4, <1>5, <1>6, <1>7, <1>8, <1>9, <1>10, <1>11, <1>12, <1>13,
         <1>14, <1>15, <1>16 DEF LoopStep
  <2>2. CASE UserStep
    BY <2>2, <1>1, <1>17, <1>18, <1>19, <1>20, <1>21 DEF UserStep, RemoteCalls
  <2>3. CASE RemoteStep
    BY <2>3, <1>1, <1>22 DEF RemoteStep
  <2>4. QED
    BY <2>1, <2>2, <2>3, <1>1, <1>23, <1>24, <1>25 DEF Next, Unless

\* Every step keeps the types of buffers and queues.
LEMMA SeqsStep ==
  ASSUME Types, WritingIffPending, ~unguarded, Next
  PROVE  TypeSeqs'
<1>1. CASE \/ ConnectEstablished
            \/ Poll
            \/ HandleHup
            \/ HandleError
            \/ HandleRead
            \/ FunctorsDone
            \/ ChannelRemove
            \/ UserReturn
            \/ OtherCallback
            \/ OwnerDestroyed
            \/ LocalShutdown
            \/ LocalForceCloseWithDelay
            \/ LocalRead
            \/ RemoteCalls
            \/ RemoteSetState
            \/ RemoteRelease
            \/ PeerAcks
            \/ PeerSends
            \/ PeerCloses
            \/ PeerResets
  <2>1. UNCHANGED <<outputBuffer_, wire, pending, batch>>
    BY <1>1 DEF ConnectEstablished, Poll, HandleHup, HandleError, HandleRead, FunctorsDone,
         ChannelRemove, UserReturn, OtherCallback, OwnerDestroyed, LocalShutdown,
         LocalForceCloseWithDelay, LocalRead, RemoteCall, RemoteSetState, RemoteRelease,
         PeerAcks, PeerSends, PeerCloses, PeerResets, LocalCall, ConnectDestroyed, RemoteCalls
  <2>2. QED
    BY <2>1 DEF TypeSeqs, Types
<1>2. CASE HandleWrite
  <2>1. Drains
    BY <1>2, TypesHold, WriteDrains
  <2>2. Append(pending, F("writeComplete")) \in Seq(Functor)
    BY FunctorType, AppendProperties DEF Types, TypeSeqs, Shared
  <2>3. QED
    BY <2>1, <2>2 DEF Types, TypeSeqs, Drains
<1>3. CASE DoPendingFunctors
  BY <1>3, SMTT(30) DEF TypeSeqs, Types, DoPendingFunctors
<1>4. CASE RunSend
  <2>1. Outcome(Head(batch).data)
    BY <1>4, RunSendOutcome
  <2>2. /\ Append(pending, F("writeComplete")) \in Seq(Functor)
        /\ Append(pending, F("highWater")) \in Seq(Functor)
    BY FunctorType, AppendProperties DEF Types, TypeSeqs, Shared
  <2>3. Tail(batch) \in Seq(Functor)
    BY <1>4, HeadTailProperties DEF Types, TypeSeqs, RunSend, AtFunctor
  <2>4. QED
    BY <1>4, <2>1, <2>2, <2>3 DEF Types, TypeSeqs, RunSend, Outcome, Extends
<1>5. CASE RunShutdown
  <2>1. Tail(batch) \in Seq(Functor)
    BY <1>5, HeadTailProperties DEF Types, TypeSeqs, RunShutdown, AtFunctor
  <2>2. QED
    BY <1>5, <2>1 DEF Types, TypeSeqs, RunShutdown
<1>6. CASE RunRead
  <2>1. Tail(batch) \in Seq(Functor)
    BY <1>6, HeadTailProperties DEF Types, TypeSeqs, RunRead, AtFunctor
  <2>2. QED
    BY <1>6, <2>1 DEF Types, TypeSeqs, RunRead
<1>7. CASE RunForceClose
  <2>1. Tail(batch) \in Seq(Functor)
    BY <1>7, HeadTailProperties DEF Types, TypeSeqs, RunForceClose, AtFunctor
  <2>2. QED
    BY <1>7, <2>1 DEF Types, TypeSeqs, RunForceClose
<1>8. CASE RunUserCallback
  <2>1. Tail(batch) \in Seq(Functor)
    BY <1>8, HeadTailProperties DEF Types, TypeSeqs, RunUserCallback, AtFunctor
  <2>2. QED
    BY <1>8, <2>1 DEF Types, TypeSeqs, RunUserCallback
<1>9. CASE RunConnectDestroyed
  <2>1. Tail(batch) \in Seq(Functor)
    BY <1>9, HeadTailProperties DEF Types, TypeSeqs, RunConnectDestroyed, AtFunctor
  <2>2. QED
    BY <1>9, <2>1 DEF Types, TypeSeqs, RunConnectDestroyed, ConnectDestroyed
<1>10. CASE CloseCallback
  <2>1. Append(pending, F("connectDestroyed")) \in Seq(Functor)
    BY FunctorType, AppendProperties DEF Types, TypeSeqs, Shared
  <2>2. QED
    BY <1>10, <2>1 DEF Types, TypeSeqs, CloseCallback
<1>11. CASE DelayExpires
  <2>1. Append(pending, F("forceClose")) \in Seq(Functor)
    BY FunctorType, AppendProperties DEF Types, TypeSeqs, Shared
  <2>2. QED
    BY <1>11, <2>1 DEF Types, TypeSeqs, DelayExpires, ForceClose
<1>12. CASE LocalSend
  <2>1. batch' = batch
    BY <1>12 DEF LocalSend, LocalCall
  <2>2. /\ Append(pending, F("writeComplete")) \in Seq(Functor)
        /\ Append(pending, F("highWater")) \in Seq(Functor)
    BY FunctorType, AppendProperties DEF Types, TypeSeqs, Shared
  <2>3. CASE state_ = "kConnected"
    <3>1. Extends(Message("loop"))
      BY <1>12, <2>3, LocalSendOutcome
    <3>2. QED
      BY <2>1, <2>2, <3>1 DEF Types, TypeSeqs, Extends
  <2>4. CASE state_ # "kConnected"
    BY <1>12, <2>1, <2>4 DEF Types, TypeSeqs, LocalSend
  <2>5. QED
    BY <2>3, <2>4
<1>13. CASE LocalForceClose
  <2>1. Append(pending, F("forceClose")) \in Seq(Functor)
    BY FunctorType, AppendProperties DEF Types, TypeSeqs, Shared
  <2>2. QED
    BY <1>13, <2>1 DEF Types, TypeSeqs, LocalForceClose, LocalCall, ForceClose
<1>14. CASE RemoteQueue
  <2>1. [F(rpc[1]) EXCEPT !.data = IF rpc[1] = "send" THEN Message("other") ELSE <<>>] \in Functor
    BY <1>14, RemoteFunctor
  <2>2. QED
    BY <1>14, <2>1, AppendProperties DEF Types, TypeSeqs, RemoteQueue
<1>15. QED
  <2>1. CASE LoopStep
    BY <2>1, <1>1, <1>2, <1>3, <1>4, <1>5, <1>6, <1>7, <1>8, <1>9, <1>10, <1>11 DEF LoopStep
  <2>2. CASE UserStep
    BY <2>2, <1>1, <1>12, <1>13 DEF UserStep, RemoteCalls
  <2>3. CASE RemoteStep
    BY <2>3, <1>1, <1>14 DEF RemoteStep
  <2>4. QED
    BY <2>1, <2>2, <2>3, <1>1 DEF Next, Unless

\* Every step keeps the counters natural and the send buffer within its size.
LEMMA NumbersStep ==
  ASSUME Types, WritingIffPending, ~unguarded, Next
  PROVE  TypeNumbers'
<1>1. CASE \/ Poll
            \/ HandleError
            \/ DoPendingFunctors
            \/ FunctorsDone
            \/ RunShutdown
            \/ RunRead
            \/ RunUserCallback
            \/ CloseCallback
            \/ ChannelRemove
            \/ UserReturn
            \/ DelayExpires
            \/ RemoteRelease
            \/ PeerSends
            \/ PeerCloses
            \/ PeerResets
  <2>1. UNCHANGED <<room, sent, calls, promised, ups, downs, destroys>>
    BY <1>1 DEF Poll, HandleError, DoPendingFunctors, FunctorsDone, RunShutdown, RunRead,
         RunUserCallback, CloseCallback, ChannelRemove, UserReturn, DelayExpires, RemoteRelease,
         PeerSends, PeerCloses, PeerResets
  <2>2. QED
    BY <2>1 DEF TypeNumbers, Types
<1>2. CASE ConnectEstablished
  BY <1>2, SMTT(30) DEF TypeNumbers, Types, ConnectEstablished, Interest
<1>3. CASE HandleHup
  BY <1>3, SMTT(30) DEF TypeNumbers, Types, HandleHup, AtHandler, HandleClose, Interest
<1>4. CASE HandleRead
  BY <1>4, SMTT(30) DEF TypeNumbers, Types, HandleRead, AtHandler, HandleClose, Interest
<1>5. CASE HandleWrite
  <2>1. Drains
    BY <1>5, TypesHold, WriteDrains
  <2>2. QED
    BY <2>1 DEF Types, TypeNumbers, Drains
<1>6. CASE RunSend
  <2>1. Outcome(Head(batch).data)
    BY <1>6, RunSendOutcome
  <2>2. QED
    BY <1>6, <2>1 DEF Types, TypeNumbers, RunSend, Outcome, Extends
<1>7. CASE RunForceClose
  BY <1>7, SMTT(30) DEF TypeNumbers, Types, RunForceClose, AtFunctor, ForceClosable,
       HandleClose, Interest
<1>8. CASE RunConnectDestroyed
  BY <1>8, SMTT(30) DEF TypeNumbers, Types, RunConnectDestroyed, AtFunctor,
       ConnectDestroyed, Interest
<1>9. CASE OtherCallback
  BY <1>9, SMTT(30) DEF TypeNumbers, Types, OtherCallback
<1>10. CASE OwnerDestroyed
  BY <1>10, SMTT(30) DEF TypeNumbers, Types, OwnerDestroyed, ConnectDestroyed, Interest
<1>11. CASE LocalSend
  <2>1. CASE state_ = "kConnected"
    <3>1. Extends(Message("loop"))
      BY <1>11, <2>1, LocalSendOutcome
    <3>2. sent' \in [Threads -> Nat]
      BY <1>11, <2>1, TcpConnectionAssumption, SMTT(30) DEF Types, TypeNumbers, LocalSend
    <3>3. QED
      BY <1>11, <3>1, <3>2, SMTT(30) DEF Types, TypeNumbers, LocalSend, LocalCall, Extends
  <2>2. CASE state_ # "kConnected"
    BY <1>11, <2>2, SMTT(30) DEF Types, TypeNumbers, LocalSend, LocalCall
  <2>3. QED
    BY <2>1, <2>2
<1>12. CASE LocalShutdown
  <2>1. <<"loop", sent["loop"]>> \in Byte
    BY DEF Types, TypeNumbers, Byte, Threads
  <2>2. QED
    BY <1>12, <2>1, SMTT(30) DEF Types, TypeNumbers, LocalShutdown, LocalCall
<1>13. CASE LocalForceClose
  BY <1>13, SMTT(30) DEF TypeNumbers, Types, LocalForceClose, LocalCall, ForceClose,
       ForceClosable
<1>14. CASE LocalForceCloseWithDelay
  BY <1>14, SMTT(30) DEF TypeNumbers, Types, LocalForceCloseWithDelay, LocalCall, ForceClosable
<1>15. CASE LocalRead
  BY <1>15, SMTT(30) DEF TypeNumbers, Types, LocalRead, LocalCall, StartReadInLoop,
       StopReadInLoop,
       Interest
<1>16. CASE RemoteCalls
  BY <1>16, SMTT(30) DEF TypeNumbers, Types, RemoteCall, RemoteCalls
<1>17. CASE RemoteSetState
  <2>1. <<"other", sent["other"]>> \in Byte
    BY DEF Types, TypeNumbers, Byte, Threads
  <2>2. QED
    BY <1>17, <2>1 DEF Types, TypeNumbers, RemoteSetState
<1>18. CASE RemoteQueue
  <2>1. sent["other"] \in Nat /\ sent["other"] + MsgLen \in Nat
    BY TcpConnectionAssumption, SMTT(30) DEF Types, TypeNumbers, Threads
  <2>2. sent' \in [Threads -> Nat]
    <3>1. CASE rpc[1] = "send"
      BY <1>18, <2>1, <3>1 DEF Types, TypeNumbers, RemoteQueue
    <3>2. CASE rpc[1] # "send"
      BY <1>18, <2>1, <3>2 DEF Types, TypeNumbers, RemoteQueue
    <3>3. QED
      BY <3>1, <3>2
  <2>3. QED
    BY <1>18, <2>2 DEF Types, TypeNumbers, RemoteQueue
<1>19. CASE PeerAcks
  BY <1>19, TcpConnectionAssumption, SMTT(30) DEF TypeNumbers, Types, PeerAcks
<1>20. QED
  <2>1. CASE LoopStep
    BY <2>1, <1>1, <1>2, <1>3, <1>4, <1>5, <1>6, <1>7, <1>8 DEF LoopStep
  <2>2. CASE UserStep
    BY <2>2, <1>9, <1>10, <1>11, <1>12, <1>13, <1>14, <1>15, <1>16 DEF UserStep, RemoteCalls
  <2>3. CASE RemoteStep
    BY <2>3, <1>17, <1>18 DEF RemoteStep
  <2>4. QED
    BY <2>1, <2>2, <2>3, <1>1, <1>19 DEF Next, Unless

-----------------------------------------------------------------------------
(* The steps keep the other parts of the invariant.                        *)

\* Every step keeps the high-water mark reported.
LEMMA HighWaterStep ==
  ASSUME Types, WritingIffPending, HighWaterNotified, ~unguarded, Next
  PROVE  HighWaterNotified'
<1>1. CASE \/ ConnectEstablished
            \/ Poll
            \/ HandleHup
            \/ HandleError
            \/ HandleRead
            \/ DoPendingFunctors
            \/ FunctorsDone
            \/ RunShutdown
            \/ RunRead
            \/ RunForceClose
            \/ RunUserCallback
            \/ RunConnectDestroyed
            \/ CloseCallback
            \/ ChannelRemove
            \/ UserReturn
            \/ DelayExpires
            \/ OtherCallback
            \/ OwnerDestroyed
            \/ LocalShutdown
            \/ LocalForceClose
            \/ LocalForceCloseWithDelay
            \/ LocalRead
            \/ RemoteCalls
            \/ RemoteSetState
            \/ RemoteQueue
            \/ RemoteRelease
            \/ PeerAcks
            \/ PeerSends
            \/ PeerCloses
            \/ PeerResets
  <2>1. UNCHANGED <<outputBuffer_, notified>>
    BY <1>1 DEF ConnectEstablished, Poll, HandleHup, HandleError, HandleRead, DoPendingFunctors,
         FunctorsDone, RunShutdown, RunRead, RunForceClose, RunUserCallback,
         RunConnectDestroyed, CloseCallback, ChannelRemove, UserReturn, DelayExpires,
         OtherCallback, OwnerDestroyed, LocalShutdown, LocalForceClose,
         LocalForceCloseWithDelay, LocalRead, RemoteCall, RemoteSetState, RemoteQueue,
         RemoteRelease, PeerAcks, PeerSends, PeerCloses, PeerResets, LocalCall,
         ConnectDestroyed, RemoteCalls
  <2>2. QED
    BY <2>1 DEF HighWaterNotified
<1>2. CASE HandleWrite
  <2>1. Drains
    BY <1>2, TypesHold, WriteDrains
  <2>2. QED
    BY <2>1 DEF HighWaterNotified, Drains
<1>3. CASE RunSend
  <2>1. Outcome(Head(batch).data)
    BY <1>3, RunSendOutcome
  <2>2. QED
    BY <1>3, <2>1 DEF HighWaterNotified, RunSend, Outcome, Extends
<1>4. CASE LocalSend
  <2>1. CASE state_ = "kConnected"
    <3>1. Extends(Message("loop"))
      BY <1>4, <2>1, LocalSendOutcome
    <3>2. QED
      BY <1>4, <3>1 DEF HighWaterNotified, LocalSend, LocalCall, Extends
  <2>2. CASE state_ # "kConnected"
    BY <1>4, <2>2 DEF HighWaterNotified, LocalSend, LocalCall
  <2>3. QED
    BY <2>1, <2>2
<1>5. QED
  <2>1. CASE LoopStep
    BY <2>1, <1>1, <1>2, <1>3 DEF LoopStep
  <2>2. CASE UserStep
    BY <2>2, <1>1, <1>4 DEF UserStep, RemoteCalls
  <2>3. CASE RemoteStep
    BY <2>3, <1>1 DEF RemoteStep
  <2>4. QED
    BY <2>1, <2>2, <2>3, <1>1 DEF Next, Unless

\* The race of setState(kDisconnecting) is the only one: without it, the state
\* is still one that shutdown() or forceClose() tested for.
LEMMA RemoteSetFrom ==
  ASSUME Types, Closing, RemoteSetState, ~unguarded'
  PROVE  rpc[1] \in Closers /\ state_ \in {"kConnected", "kDisconnecting"}
<1>1. rpc[1] \in Closers
  BY DEF Closing, RemoteSetState
<1>2. Passes(rpc[1])
  BY DEF RemoteSetState
<1>3. QED
  BY <1>1, <1>2 DEF Passes, ForceClosable, Closers

\* Every step keeps POLLOUT watched exactly when there is output.
LEMMA WritingStep ==
  ASSUME Types, WritingIffPending, Guarded, ~unguarded, Next
  PROVE  WritingIffPending'
<1>1. CASE \/ Poll
            \/ HandleError
            \/ DoPendingFunctors
            \/ FunctorsDone
            \/ RunShutdown
            \/ RunUserCallback
            \/ CloseCallback
            \/ ChannelRemove
            \/ UserReturn
            \/ OtherCallback
            \/ RemoteCalls
            \/ RemoteQueue
            \/ PeerAcks
            \/ PeerSends
            \/ PeerCloses
            \/ PeerResets
  <2>1. UNCHANGED <<unguarded, state_, events, outputBuffer_>>
    BY <1>1 DEF Poll, HandleError, DoPendingFunctors, FunctorsDone, RunShutdown,
         RunUserCallback, CloseCallback, ChannelRemove, UserReturn, OtherCallback, RemoteCall,
         RemoteQueue, PeerAcks, PeerSends, PeerCloses, PeerResets, RemoteCalls
  <2>2. QED
    BY <2>1 DEF WritingIffPending
<1>2. CASE ConnectEstablished
  <2>1. outputBuffer_ = <<>>
    BY <1>2, TypesHold, SeqTypes DEF Guarded, Fresh, ConnectEstablished
  <2>2. QED
    BY <1>2, <2>1 DEF WritingIffPending, ConnectEstablished, Interest
<1>3. CASE HandleHup
  BY <1>3 DEF WritingIffPending, HandleHup, AtHandler, HandleClose, Interest
<1>4. CASE HandleRead
  BY <1>4 DEF WritingIffPending, HandleRead, AtHandler, HandleClose, Interest
<1>5. CASE HandleWrite
  <2>1. Drains
    BY <1>5, TypesHold, WriteDrains
  <2>2. QED
    BY <2>1 DEF WritingIffPending, Drains
<1>6. CASE RunSend
  <2>1. Outcome(Head(batch).data)
    BY <1>6, RunSendOutcome
  <2>2. QED
    BY <1>6, <2>1 DEF WritingIffPending, RunSend, Outcome, Extends
<1>7. CASE RunRead
  BY <1>7, ReadChanges, SMTT(30) DEF WritingIffPending, ReadChange, RunRead
<1>8. CASE RunForceClose
  BY <1>8 DEF WritingIffPending, RunForceClose, AtFunctor, ForceClosable, HandleClose, Interest
<1>9. CASE RunConnectDestroyed
  BY <1>9 DEF WritingIffPending, RunConnectDestroyed, AtFunctor, ConnectDestroyed, Interest
<1>10. CASE DelayExpires
  BY <1>10 DEF WritingIffPending, DelayExpires, ForceClose, ForceClosable
<1>11. CASE OwnerDestroyed
  BY <1>11 DEF WritingIffPending, OwnerDestroyed, ConnectDestroyed, Interest
<1>12. CASE LocalSend
  <2>1. CASE state_ = "kConnected"
    <3>1. Extends(Message("loop"))
      BY <1>12, <2>1, LocalSendOutcome
    <3>2. QED
      BY <1>12, <3>1 DEF WritingIffPending, LocalSend, LocalCall, Extends
  <2>2. CASE state_ # "kConnected"
    BY <1>12, <2>2 DEF WritingIffPending, LocalSend, LocalCall
  <2>3. QED
    BY <2>1, <2>2
<1>13. CASE LocalShutdown
  BY <1>13 DEF WritingIffPending, LocalShutdown, LocalCall, ShutdownInLoop
<1>14. CASE LocalForceClose
  BY <1>14 DEF WritingIffPending, LocalForceClose, LocalCall, ForceClose, ForceClosable
<1>15. CASE LocalForceCloseWithDelay
  BY <1>15 DEF WritingIffPending, LocalForceCloseWithDelay, LocalCall, ForceClosable
<1>16. CASE LocalRead
  BY <1>16, ReadChanges, SMTT(30) DEF WritingIffPending, ReadChange, LocalRead, LocalCall
<1>17. CASE RemoteSetState
  BY <1>17, RemoteSetFrom DEF WritingIffPending, Guarded, RemoteSetState
<1>18. CASE RemoteRelease
  BY <1>18 DEF WritingIffPending, RemoteRelease
<1>19. QED
  <2>1. CASE LoopStep
    BY <2>1, <1>1, <1>2, <1>3, <1>4, <1>5, <1>6, <1>7, <1>8, <1>9, <1>10 DEF LoopStep
  <2>2. CASE UserStep
    BY <2>2, <1>1, <1>11, <1>12, <1>13, <1>14, <1>15, <1>16 DEF UserStep, RemoteCalls
  <2>3. CASE RemoteStep
    BY <2>3, <1>1, <1>17 DEF RemoteStep
  <2>4. QED
    BY <2>1, <2>2, <2>3, <1>1, <1>18 DEF Next, Unless

\* Before connectEstablished() only the peer can do something.
LEMMA Established ==
  ASSUME Types, Guarded, ~unguarded, Next, lpc = "accept"
  PROVE  ConnectEstablished \/ PeerAcks \/ PeerSends \/ PeerCloses \/ PeerResets
<1>1. frames = <<>> /\ ~held /\ rpc = Idle /\ ~delayed
  BY DEF Guarded, Fresh
<1>2. ASSUME LoopStep PROVE ConnectEstablished
  BY <1>1, <1>2 DEF LoopStep, Poll, HandleHup, HandleError, HandleRead, HandleWrite, AtHandler,
     DoPendingFunctors, FunctorsDone, RunSend, RunShutdown, RunRead, RunForceClose, RunUserCallback,
     RunConnectDestroyed, AtFunctor, CloseCallback, ChannelRemove, UserReturn, Running, DelayExpires
<1>3. ~UserStep
  BY <1>1 DEF UserStep, OtherCallback, OwnerDestroyed, LocalSend, LocalShutdown,
       LocalForceClose,
     LocalForceCloseWithDelay, LocalRead, LocalCall, Running, RemoteCall
<1>4. ~RemoteStep /\ ~RemoteRelease
  BY <1>1 DEF RemoteStep, RemoteSetState, RemoteQueue, RemoteRelease, Idle
<1>5. QED
  BY <1>2, <1>3, <1>4 DEF Next, Unless

\* A connection that connectEstablished() has seen does not become new again.
LEMMA AfterAccept ==
  ASSUME Types, WritingIffPending, Guarded, lpc # "accept", ~unguarded, Next
  PROVE  Fresh'
<1>1. CASE \/ HandleError
            \/ HandleWrite
            \/ RunShutdown
            \/ RunRead
            \/ RunUserCallback
            \/ CloseCallback
            \/ ChannelRemove
            \/ UserReturn
            \/ OtherCallback
            \/ LocalRead
            \/ RemoteCalls
            \/ RemoteQueue
            \/ RemoteRelease
            \/ PeerAcks
            \/ PeerSends
            \/ PeerCloses
            \/ PeerResets
  <2>1. UNCHANGED <<lpc, state_, ups>>
    BY <1>1 DEF HandleError, HandleWrite, RunShutdown, RunRead, RunUserCallback, CloseCallback,
         ChannelRemove, UserReturn, OtherCallback, LocalRead, RemoteCall, RemoteQueue,
         RemoteRelease, PeerAcks, PeerSends, PeerCloses, PeerResets, LocalCall, RemoteCalls
  <2>2. QED
    BY <2>1 DEF Fresh, Guarded
<1>2. CASE ConnectEstablished
  BY <1>2 DEF Fresh, Guarded, ConnectEstablished, Interest
<1>3. CASE Poll
  BY <1>3 DEF Fresh, Guarded, Poll, Ready
<1>4. CASE HandleHup
  BY <1>4 DEF Fresh, Guarded, HandleHup, AtHandler, HandleClose, Interest
<1>5. CASE HandleRead
  BY <1>5 DEF Fresh, Guarded, HandleRead, AtHandler, HandleClose, Interest
<1>6. CASE DoPendingFunctors
  BY <1>6 DEF Fresh, Guarded, DoPendingFunctors
<1>7. CASE FunctorsDone
  BY <1>7 DEF Fresh, Guarded, FunctorsDone
<1>8. CASE RunSend
  <2>1. Outcome(Head(batch).data)
    BY <1>8, RunSendOutcome
  <2>2. QED
    BY <1>8, <2>1 DEF Guarded, Fresh, RunSend, Outcome, Extends
<1>9. CASE RunForceClose
  BY <1>9 DEF Fresh, Guarded, RunForceClose, AtFunctor, ForceClosable, HandleClose, Interest
<1>10. CASE RunConnectDestroyed
  BY <1>10 DEF Fresh, Guarded, RunConnectDestroyed, AtFunctor, ConnectDestroyed, Interest
<1>11. CASE DelayExpires
  BY <1>11 DEF Fresh, Guarded, DelayExpires, ForceClose, ForceClosable
<1>12. CASE OwnerDestroyed
  BY <1>12 DEF Fresh, Guarded, OwnerDestroyed, ConnectDestroyed, Interest
<1>13. CASE LocalSend
  <2>1. CASE state_ = "kConnected"
    <3>1. Extends(Message("loop"))
      BY <1>13, <2>1, LocalSendOutcome
    <3>2. QED
      BY <1>13, <3>1 DEF Guarded, Fresh, LocalSend, LocalCall, Extends
  <2>2. CASE state_ # "kConnected"
    BY <1>13, <2>2 DEF Guarded, Fresh, LocalSend, LocalCall
  <2>3. QED
    BY <2>1, <2>2
<1>14. CASE LocalShutdown
  BY <1>14 DEF Fresh, Guarded, LocalShutdown, LocalCall, ShutdownInLoop
<1>15. CASE LocalForceClose
  BY <1>15 DEF Fresh, Guarded, LocalForceClose, LocalCall, ForceClose, ForceClosable
<1>16. CASE LocalForceCloseWithDelay
  BY <1>16 DEF Fresh, Guarded, LocalForceCloseWithDelay, LocalCall, ForceClosable
<1>17. CASE RemoteSetState
  BY <1>17 DEF Fresh, Guarded, RemoteSetState
<1>18. QED
  <2>1. CASE LoopStep
    BY <2>1, <1>1, <1>2, <1>3, <1>4, <1>5, <1>6, <1>7, <1>8, <1>9, <1>10, <1>11 DEF LoopStep
  <2>2. CASE UserStep
    BY <2>2, <1>1, <1>12, <1>13, <1>14, <1>15, <1>16 DEF UserStep, RemoteCalls
  <2>3. CASE RemoteStep
    BY <2>3, <1>1, <1>17 DEF RemoteStep
  <2>4. QED
    BY <2>1, <2>2, <2>3, <1>1 DEF Next, Unless

\* Every step keeps Fresh.
LEMMA FreshStep ==
  ASSUME Types, WritingIffPending, Guarded, ~unguarded, Next
  PROVE  Fresh'
<1>1. CASE lpc # "accept"
  BY <1>1, AfterAccept
<1>2. CASE lpc = "accept" /\ ConnectEstablished
  BY <1>2, SMTT(30) DEF Guarded, Fresh, ConnectEstablished
<1>3. CASE lpc = "accept" /\ (PeerAcks \/ PeerSends \/ PeerCloses \/ PeerResets)
  <2>1. UNCHANGED <<lpc, state_, ups, frames, held, rpc, delayed, events, wclosed, fault, wire,
                    outputBuffer_, batch, pending>>
    BY <1>3 DEF PeerAcks, PeerSends, PeerCloses, PeerResets
  <2>2. QED
    BY <2>1 DEF Guarded, Fresh, Stream, Undone
<1>4. QED
  BY <1>1, <1>2, <1>3, Established

\* Every step keeps functors and events to their part of an iteration.
LEMMA PhasesStep ==
  ASSUME Types, WritingIffPending, Guarded, ~unguarded, Next
  PROVE  Phases'
<1>1. CASE \/ CloseCallback
            \/ ChannelRemove
            \/ UserReturn
            \/ DelayExpires
            \/ OtherCallback
            \/ LocalSend
            \/ LocalShutdown
            \/ LocalForceClose
            \/ LocalForceCloseWithDelay
            \/ LocalRead
            \/ RemoteCalls
            \/ RemoteSetState
            \/ RemoteQueue
            \/ RemoteRelease
            \/ PeerAcks
            \/ PeerSends
            \/ PeerCloses
            \/ PeerResets
  <2>1. UNCHANGED <<batch, lpc, revents>>
    BY <1>1 DEF CloseCallback, ChannelRemove, UserReturn, DelayExpires, OtherCallback,
         LocalSend, LocalShutdown, LocalForceClose, LocalForceCloseWithDelay, LocalRead,
         RemoteCall, RemoteSetState, RemoteQueue, RemoteRelease, PeerAcks, PeerSends,
         PeerCloses, PeerResets, LocalCall, RemoteCalls
  <2>2. QED
    BY <2>1 DEF Phases, Guarded
<1>2. CASE ConnectEstablished
  BY <1>2 DEF Phases, Guarded, ConnectEstablished
<1>3. CASE Poll
  BY <1>3 DEF Phases, Guarded, Poll, Ready
<1>4. CASE HandleHup
  BY <1>4 DEF Phases, Guarded, HandleHup, AtHandler
<1>5. CASE HandleError
  BY <1>5 DEF Phases, Guarded, HandleError, AtHandler
<1>6. CASE HandleRead
  BY <1>6 DEF Phases, Guarded, HandleRead, AtHandler
<1>7. CASE HandleWrite
  <2>1. Drains
    BY <1>7, TypesHold, WriteDrains
  <2>2. QED
    BY <2>1 DEF Guarded, Phases, Drains
<1>8. CASE DoPendingFunctors
  BY <1>8 DEF Phases, Guarded, DoPendingFunctors
<1>9. CASE FunctorsDone
  BY <1>9 DEF Phases, Guarded, FunctorsDone
<1>10. CASE RunSend
  BY <1>10 DEF Phases, Guarded, RunSend, AtFunctor
<1>11. CASE RunShutdown
  BY <1>11 DEF Phases, Guarded, RunShutdown, AtFunctor
<1>12. CASE RunRead
  BY <1>12 DEF Phases, Guarded, RunRead, AtFunctor
<1>13. CASE RunForceClose
  BY <1>13 DEF Phases, Guarded, RunForceClose, AtFunctor
<1>14. CASE RunUserCallback
  BY <1>14 DEF Phases, Guarded, RunUserCallback, AtFunctor
<1>15. CASE RunConnectDestroyed
  BY <1>15 DEF Phases, Guarded, RunConnectDestroyed, AtFunctor
<1>16. CASE OwnerDestroyed
  BY <1>16 DEF Phases, Guarded, OwnerDestroyed
<1>17. QED
  <2>1. CASE LoopStep
    BY <2>1, <1>1, <1>2, <1>3, <1>4, <1>5, <1>6, <1>7, <1>8, <1>9, <1>10, <1>11, <1>12, <1>13,
         <1>14, <1>15 DEF LoopStep
  <2>2. CASE UserStep
    BY <2>2, <1>1, <1>16 DEF UserStep, RemoteCalls
  <2>3. CASE RemoteStep
    BY <2>3, <1>1 DEF RemoteStep
  <2>4. QED
    BY <2>1, <2>2, <2>3, <1>1 DEF Next, Unless

\* Fewer functors have no more shared_ptrs.
LEMMA HoldsTail ==
  ASSUME Types, batch # <<>>
  PROVE  /\ Holds(Tail(batch)) => Holds(batch)
         /\ Head(batch).op \in Shared => Holds(batch)
<1>1. /\ Len(batch) \in Nat \ {0} /\ Len(Tail(batch)) = Len(batch) - 1 /\ Head(batch) = batch[1]
      /\ \A i \in 1 .. Len(batch) - 1 : Tail(batch)[i] = batch[i + 1]
  BY HeadTailProperties, LenProperties, EmptySeq, SMTT(30) DEF Types, TypeSeqs
<1>2. \A i \in 1 .. Len(batch) - 1 : i + 1 \in 1 .. Len(batch)
  BY <1>1, SMTT(30)
<1>3. QED
  BY <1>1, <1>2, SMTT(30) DEF Holds, IsShared

\* Every step keeps the connection held by the batch that needs it.
LEMMA HoldingStep ==
  ASSUME Types, Guarded, ~unguarded, Next
  PROVE  Holding'
<1>1. CASE \/ Poll
            \/ HandleError
            \/ HandleWrite
            \/ DelayExpires
            \/ LocalSend
            \/ LocalShutdown
            \/ LocalForceClose
            \/ LocalForceCloseWithDelay
            \/ LocalRead
            \/ RemoteCalls
            \/ RemoteSetState
            \/ RemoteQueue
            \/ RemoteRelease
            \/ PeerAcks
            \/ PeerSends
            \/ PeerCloses
            \/ PeerResets
  <2>1. UNCHANGED <<batch, frames, batchHolds>>
    BY <1>1 DEF Poll, HandleError, HandleWrite, DelayExpires, LocalSend, LocalShutdown,
         LocalForceClose, LocalForceCloseWithDelay, LocalRead, RemoteCall, RemoteSetState,
         RemoteQueue, RemoteRelease, PeerAcks, PeerSends, PeerCloses, PeerResets, LocalCall,
         RemoteCalls
  <2>2. QED
    BY <2>1 DEF Holding, Guarded
<1>2. CASE ConnectEstablished
  BY <1>2, StackFacts DEF Holding, Guarded, ConnectEstablished
<1>3. CASE HandleHup
  BY <1>3, StackFacts DEF Holding, Guarded, HandleHup, AtHandler, HandleClose
<1>4. CASE HandleRead
  BY <1>4, StackFacts DEF Holding, Guarded, HandleRead, AtHandler, HandleClose
<1>5. CASE DoPendingFunctors
  BY <1>5, StackFacts DEF Holding, Guarded, DoPendingFunctors
<1>6. CASE FunctorsDone
  <2>1. batch' = <<>> /\ frames' = <<>>
    BY <1>6 DEF FunctorsDone
  <2>2. QED
    BY <2>1, StackFacts, SMTT(30) DEF Holding, Holds
<1>7. CASE RunSend
  <2>1. batch # <<>> /\ batch' = Tail(batch) /\ UNCHANGED <<frames, batchHolds>>
    BY <1>7 DEF RunSend, AtFunctor
  <2>2. QED
    BY <2>1, HoldsTail DEF Guarded, Holding
<1>8. CASE RunShutdown
  <2>1. batch # <<>> /\ batch' = Tail(batch) /\ UNCHANGED <<frames, batchHolds>>
    BY <1>8 DEF RunShutdown, AtFunctor
  <2>2. QED
    BY <2>1, HoldsTail DEF Guarded, Holding
<1>9. CASE RunRead
  <2>1. batch # <<>> /\ batch' = Tail(batch) /\ UNCHANGED <<frames, batchHolds>>
    BY <1>9 DEF RunRead, AtFunctor
  <2>2. QED
    BY <2>1, HoldsTail DEF Guarded, Holding
<1>10. CASE RunForceClose
  <2>1. batch # <<>> /\ batch' = Tail(batch) /\ batchHolds' = batchHolds /\ frames = <<>>
    BY <1>10 DEF RunForceClose, AtFunctor
  <2>2. frames' \notin AtRemove
    BY <1>10, <2>1, StackFacts DEF RunForceClose, HandleClose
  <2>3. QED
    BY <2>1, <2>2, HoldsTail DEF Guarded, Holding
<1>11. CASE RunUserCallback
  <2>1. batch # <<>> /\ batch' = Tail(batch) /\ batchHolds' = batchHolds /\ frames = <<>>
    BY <1>11 DEF RunUserCallback, AtFunctor
  <2>2. frames' \notin AtRemove
    BY <1>11, <2>1, StackFacts DEF RunUserCallback
  <2>3. QED
    BY <2>1, <2>2, HoldsTail DEF Guarded, Holding
<1>12. CASE RunConnectDestroyed
  <2>1. /\ batch # <<>> /\ batch' = Tail(batch) /\ batchHolds' = batchHolds
        /\ Head(batch).op = "connectDestroyed"
    BY <1>12 DEF RunConnectDestroyed, AtFunctor
  <2>2. QED
    BY <2>1, HoldsTail DEF Guarded, Holding, Shared
<1>13. CASE CloseCallback
  <2>1. frames # <<>> /\ frames' = Tail(frames) /\ UNCHANGED <<batch, batchHolds>>
    BY <1>13 DEF CloseCallback
  <2>2. Tail(frames) = <<>>
    BY <1>13, StackReturns DEF Types, TypeControl, CloseCallback
  <2>3. QED
    BY <2>1, <2>2, StackFacts DEF Guarded, Holding
<1>14. CASE ChannelRemove
  <2>1. frames # <<>> /\ frames' = Tail(frames) /\ UNCHANGED <<batch, batchHolds>>
    BY <1>14 DEF ChannelRemove
  <2>2. Tail(frames) = <<>>
    BY <1>14, StackReturns DEF Types, TypeControl, ChannelRemove
  <2>3. QED
    BY <2>1, <2>2, StackFacts DEF Guarded, Holding
<1>15. CASE UserReturn
  <2>1. frames # <<>> /\ frames' = Tail(frames) /\ UNCHANGED <<batch, batchHolds>>
    BY <1>15 DEF UserReturn, Running
  <2>2. frames' \in AtRemove => frames \in AtRemove
    BY <1>15, <2>1, StackReturns, StackFacts, SMTT(30) DEF Types, TypeControl, UserReturn,
         Running
  <2>3. QED
    BY <2>1, <2>2 DEF Guarded, Holding
<1>16. CASE OtherCallback
  BY <1>16, StackFacts DEF Holding, Guarded, OtherCallback
<1>17. CASE OwnerDestroyed
  BY <1>17, StackFacts DEF Holding, Guarded, OwnerDestroyed, ConnectDestroyed
<1>18. QED
  <2>1. CASE LoopStep
    BY <2>1, <1>1, <1>2, <1>3, <1>4, <1>5, <1>6, <1>7, <1>8, <1>9, <1>10, <1>11, <1>12, <1>13,
         <1>14, <1>15 DEF LoopStep
  <2>2. CASE UserStep
    BY <2>2, <1>1, <1>16, <1>17 DEF UserStep, RemoteCalls
  <2>3. CASE RemoteStep
    BY <2>3, <1>1 DEF RemoteStep
  <2>4. QED
    BY <2>1, <2>2, <2>3, <1>1 DEF Next, Unless

-----------------------------------------------------------------------------
(* The functors not called yet.                                            *)

\* A functor is queued.
LEMMA QueueAdd ==
  ASSUME Types, NEW f \in Functor, batch' = batch, pending' = Append(pending, f)
  PROVE  /\ f.op # "connectDestroyed" =>
              (None(Undone) => None(Undone')) /\ (One(Undone) => One(Undone'))
         /\ f.op = "connectDestroyed" => (None(Undone) => One(Undone'))
         /\ ToClose(Undone') <=> ToClose(Undone) \/ f.op \in Closers
<1>1. Undone' = Append(Undone, f) /\ Undone \in Seq(Functor)
  BY TypesHold, UndoneQueue, SeqTypes
<1>2. QED
  BY <1>1, QueueAppend

\* The first functor of the batch is called.
LEMMA QueueCall ==
  ASSUME Types, NEW op, AtFunctor(op), batch' = Tail(batch), pending' = pending
  PROVE  /\ op = "connectDestroyed" => ~None(Undone) /\ (One(Undone) => None(Undone'))
         /\ op # "connectDestroyed" =>
              (None(Undone) => None(Undone')) /\ (One(Undone) => One(Undone'))
         /\ op \in Closers => ToClose(Undone)
         /\ ToClose(Undone') => ToClose(Undone)
         /\ op \notin Closers => (ToClose(Undone) => ToClose(Undone'))
<1>1. batch # <<>> /\ Head(batch).op = op
  BY DEF AtFunctor
<1>2. /\ Undone # <<>> /\ Head(Undone) = Head(batch) /\ Undone' = Tail(Undone)
      /\ Undone \in Seq(Functor)
  BY <1>1, TypesHold, UndoneCall, SeqTypes
<1>3. QED
  BY <1>1, <1>2, QueueTail

\* Steps that neither queue nor call what destroys or closes the connection.
QueueSame ==
  /\ None(Undone) => None(Undone')
  /\ One(Undone) => One(Undone')
  /\ ToClose(Undone) <=> ToClose(Undone')

\* A write-complete or high-water callback is queued, or none.
LEMMA CallbackQueued ==
  ASSUME Types, batch' = batch,
         pending' \in {pending, Append(pending, F("writeComplete")), Append(pending, F("highWater"))}
  PROVE  QueueSame
<1>1. CASE pending' = pending
  BY <1>1 DEF QueueSame, Undone
<1>2. CASE pending' = Append(pending, F("writeComplete"))
  <2>1. F("writeComplete") \in Functor /\ F("writeComplete").op = "writeComplete"
    BY FunctorType DEF Shared
  <2>2. QED
    BY <1>2, <2>1, QueueAdd DEF QueueSame, Closers
<1>3. CASE pending' = Append(pending, F("highWater"))
  <2>1. F("highWater") \in Functor /\ F("highWater").op = "highWater"
    BY FunctorType DEF Shared
  <2>2. QED
    BY <1>3, <2>1, QueueAdd DEF QueueSame, Closers
<1>4. QED
  BY <1>1, <1>2, <1>3

\* The functor of send() is called, and may queue a callback.
LEMMA RunSendQueue ==
  ASSUME Types, WritingIffPending, ~unguarded, RunSend
  PROVE  QueueSame
<1>1. Outcome(Head(batch).data)
  BY RunSendOutcome
<1>2. pending' \in {pending, Append(pending, F("writeComplete")), Append(pending, F("highWater"))}
  BY <1>1 DEF Outcome, Extends
<1>3. batch # <<>> /\ Head(batch).op = "send" /\ batch' = Tail(batch)
  BY DEF RunSend, AtFunctor
<1>4. /\ Undone # <<>> /\ Head(Undone) = Head(batch) /\ Undone \in Seq(Functor)
      /\ \A f \in Functor : pending' = Append(pending, f) => Undone' = Append(Tail(Undone), f)
      /\ pending' = pending => Undone' = Tail(Undone)
  BY <1>3, TypesHold, UndoneCall, SeqTypes
<1>5. /\ Tail(Undone) \in Seq(Functor)
      /\ None(Undone) => None(Tail(Undone))
      /\ One(Undone) => One(Tail(Undone))
      /\ ToClose(Undone) <=> ToClose(Tail(Undone))
  BY <1>3, <1>4, QueueTail DEF Closers
<1>6. CASE pending' = pending
  BY <1>4, <1>5, <1>6 DEF QueueSame
<1>7. ASSUME NEW op \in {"writeComplete", "highWater"}, pending' = Append(pending, F(op))
      PROVE  QueueSame
  <2>1. F(op) \in Functor /\ F(op).op = op /\ op \notin Closers /\ op # "connectDestroyed"
    BY FunctorType DEF Shared, Closers
  <2>2. Undone' = Append(Tail(Undone), F(op))
    BY <1>4, <1>7, <2>1
  <2>3. QED
    BY <1>5, <2>1, <2>2, QueueAppend DEF QueueSame
<1>8. QED
  BY <1>2, <1>6, <1>7

\* All the steps that neither destroy nor close.
LEMMA QueueQuiet ==
  ASSUME Types, WritingIffPending, Guarded, ~unguarded,
         \/ UNCHANGED <<batch, pending>> \/ HandleWrite \/ DoPendingFunctors
         \/ RunSend \/ RunRead \/ RunUserCallback \/ LocalSend
  PROVE  QueueSame
<1>1. CASE UNCHANGED <<batch, pending>>
  BY <1>1 DEF QueueSame, Undone
<1>2. CASE HandleWrite
  <2>1. Drains
    BY <1>2, TypesHold, WriteDrains
  <2>2. QED
    BY <2>1, CallbackQueued DEF Drains
<1>3. CASE DoPendingFunctors
  <2>1. batch = <<>> /\ batch' = pending /\ pending' = <<>>
    BY <1>3 DEF Guarded, Phases, DoPendingFunctors
  <2>2. Undone' = Undone
    BY <2>1, ConcatEmptySeq DEF Types, TypeSeqs, Undone
  <2>3. QED
    BY <2>2 DEF QueueSame
<1>4. CASE RunSend
  BY <1>4, RunSendQueue
<1>5. CASE RunRead \/ RunUserCallback
  <2>1. PICK op \in {"startRead", "stopRead", "writeComplete", "highWater"} : AtFunctor(op)
    BY <1>5 DEF RunRead, RunUserCallback
  <2>2. batch' = Tail(batch) /\ pending' = pending
    BY <1>5 DEF RunRead, RunUserCallback
  <2>3. op \notin Closers /\ op # "connectDestroyed"
    BY <2>1 DEF Closers
  <2>4. QED
    BY <2>1, <2>2, <2>3, QueueCall DEF QueueSame
<1>6. CASE LocalSend
  <2>1. batch' = batch
    BY <1>6 DEF LocalSend, LocalCall
  <2>2. CASE state_ = "kConnected"
    <3>1. Extends(Message("loop"))
      BY <1>6, <2>2, LocalSendOutcome
    <3>2. QED
      BY <2>1, <3>1, CallbackQueued DEF Extends
  <2>3. CASE state_ # "kConnected"
    BY <1>6, <2>1, <2>3 DEF LocalSend, QueueSame, Undone
  <2>4. QED
    BY <2>2, <2>3
<1>7. QED
  BY <1>1, <1>2, <1>3, <1>4, <1>5, <1>6

\* forceClose(), in the loop thread or from the timer
LEMMA ForceCloseQueue ==
  ASSUME Types, batch' = batch, ForceClose
  PROVE  /\ None(Undone) => None(Undone')
         /\ One(Undone) => One(Undone')
         /\ ForceClosable => ToClose(Undone')
         /\ ~ForceClosable => (ToClose(Undone) <=> ToClose(Undone'))
<1>1. CASE ForceClosable
  <2>1. pending' = Append(pending, F("forceClose"))
    BY <1>1 DEF ForceClose
  <2>2. F("forceClose") \in Functor /\ F("forceClose").op = "forceClose"
    BY FunctorType DEF Shared
  <2>3. QED
    BY <1>1, <2>1, <2>2, QueueAdd DEF Closers
<1>2. CASE ~ForceClosable
  BY <1>2 DEF ForceClose, Undone
<1>3. QED
  BY <1>1, <1>2

\* The other thread queues its call.
LEMMA RemoteQueueQueue ==
  ASSUME Types, RemoteQueue
  PROVE  /\ None(Undone) => None(Undone')
         /\ One(Undone) => One(Undone')
         /\ ToClose(Undone') <=> ToClose(Undone) \/ rpc[1] \in Closers
<1> DEFINE f == [F(rpc[1]) EXCEPT !.data = IF rpc[1] = "send" THEN Message("other") ELSE <<>>]
<1>1. f \in Functor /\ f.op = rpc[1] /\ rpc[1] \in RemoteOps
  BY RemoteFunctor
<1>2. batch' = batch /\ pending' = Append(pending, f)
  BY DEF RemoteQueue
<1>3. rpc[1] # "connectDestroyed"
  BY <1>1, TcpConnectionAssumption DEF Ops
<1> HIDE DEF f
<1>4. QED
  BY <1>1, <1>2, <1>3, QueueAdd

\* handleClose() on a connection that is not down
LEMMA GoesDown ==
  ASSUME Types, Lifecycle, None(Undone) => None(Undone'), state_ # "kDisconnected", HandleClose,
         UNCHANGED <<owned, destroys>>, "in" \notin revents'
  PROVE  Lifecycle'
<1>1. owned /\ destroys = 0 /\ None(Undone) /\ downs = 0
  BY DEF Lifecycle
<1>2. owned' /\ destroys' = 0 /\ None(Undone')
  BY <1>1
<1>3. state_' = "kDisconnected" /\ events' = {} /\ downs' = 1
  BY <1>1, SMTT(30) DEF HandleClose, Interest
<1>4. frames' \in AtClose /\ frames' \notin AtRemove
  BY StackFacts DEF HandleClose
<1>5. QED
  BY <1>2, <1>3, <1>4 DEF Lifecycle

\* Every guarded step keeps the order of the life of a connection.
LEMMA LifecycleStep ==
  ASSUME Types, WritingIffPending, Guarded, ~unguarded, Next
  PROVE  ~unguarded' => Lifecycle'
<1>1. CASE \/ FunctorsDone
            \/ RemoteCalls
            \/ PeerAcks
            \/ PeerSends
            \/ PeerCloses
            \/ PeerResets
  <2>1. UNCHANGED <<state_, downs, events, revents, owned, frames, destroys, added, batch,
                    pending, unguarded>>
    BY <1>1 DEF FunctorsDone, RemoteCall, PeerAcks, PeerSends, PeerCloses, PeerResets,
         RemoteCalls
  <2>2. QED
    BY <2>1 DEF Lifecycle, Guarded, Undone
<1>2. CASE ConnectEstablished
  <2>1. QueueSame
    BY <1>2, QueueQuiet DEF ConnectEstablished
  <2>2. state_ = "kConnecting"
    BY <1>2 DEF Guarded, Fresh, ConnectEstablished
  <2>3. owned /\ destroys = 0 /\ None(Undone) /\ downs = 0
    BY <2>2 DEF Guarded, Lifecycle
  <2>4. owned' /\ destroys' = 0 /\ None(Undone') /\ downs' = 0 /\ state_' = "kConnected"
    BY <1>2, <2>1, <2>3 DEF QueueSame, ConnectEstablished
  <2>5. frames' \notin AtClose /\ frames' \notin AtRemove
    BY <1>2, StackFacts DEF ConnectEstablished
  <2>6. QED
    BY <2>4, <2>5 DEF Lifecycle
<1>3. CASE Poll
  <2>1. QueueSame
    BY <1>3, QueueQuiet DEF Poll
  <2>2. QED
    BY <1>3, <2>1, StackFacts DEF Guarded, Lifecycle, QueueSame, Poll, Ready
<1>4. CASE HandleHup
  <2>1. QueueSame
    BY <1>4, QueueQuiet DEF HandleHup
  <2>2. HandleClose /\ UNCHANGED <<owned, destroys>> /\ (~unguarded' => state_ # "kDisconnected")
    BY <1>4 DEF HandleHup
  <2>3. "in" \notin revents'
    BY <1>4 DEF Guarded, Phases, HandleHup
  <2>4. QED
    BY <2>1, <2>2, <2>3, GoesDown DEF Guarded, QueueSame
<1>5. CASE HandleError
  <2>1. QueueSame
    BY <1>5, QueueQuiet DEF HandleError
  <2>2. QED
    BY <1>5, <2>1, StackFacts DEF Guarded, Lifecycle, QueueSame, HandleError, AtHandler
<1>6. CASE HandleRead
  <2>1. QueueSame
    BY <1>6, QueueQuiet DEF HandleRead
  <2>2. QED
    BY <1>6, <2>1, StackFacts, SMTT(30) DEF Guarded, Lifecycle, QueueSame, HandleRead,
         AtHandler, HandleClose, Interest
<1>7. CASE HandleWrite
  <2>1. QueueSame
    BY <1>7, QueueQuiet
  <2>2. Drains
    BY <1>7, TypesHold, WriteDrains
  <2>3. QED
    BY <2>1, <2>2 DEF Guarded, Lifecycle, QueueSame, Drains
<1>8. CASE DoPendingFunctors
  <2>1. QueueSame
    BY <1>8, QueueQuiet DEF DoPendingFunctors
  <2>2. QED
    BY <1>8, <2>1, StackFacts DEF Guarded, Lifecycle, QueueSame, DoPendingFunctors
<1>9. CASE RunSend
  <2>1. QueueSame
    BY <1>9, QueueQuiet
  <2>2. Outcome(Head(batch).data)
    BY <1>9, RunSendOutcome
  <2>3. QED
    BY <1>9, <2>1, <2>2 DEF Guarded, Lifecycle, QueueSame, RunSend, Outcome, Extends
<1>10. CASE RunShutdown
  <2>1. AtFunctor("shutdown") /\ batch' = Tail(batch) /\ pending' = pending
    BY <1>10 DEF RunShutdown
  <2>2. QED
    BY <1>10, <2>1, QueueCall, StackFacts DEF Guarded, Lifecycle, RunShutdown, AtFunctor,
         ShutdownInLoop
<1>11. CASE RunRead
  <2>1. QueueSame
    BY <1>11, QueueQuiet DEF RunRead
  <2>2. QED
    BY <1>11, <2>1, ReadChanges DEF ReadChange, Guarded, Lifecycle, QueueSame, RunRead,
         AtFunctor
<1>12. CASE RunForceClose
  <2>1. AtFunctor("forceClose") /\ batch' = Tail(batch) /\ pending' = pending
    BY <1>12 DEF RunForceClose
  <2>2. (None(Undone) => None(Undone')) /\ (One(Undone) => One(Undone'))
    BY <2>1, QueueCall, SMTT(30)
  <2>3. CASE ForceClosable
    <3>1. state_ # "kDisconnected" /\ HandleClose /\ UNCHANGED <<owned, destroys>>
      BY <1>12, <2>3 DEF RunForceClose, ForceClosable
    <3>2. "in" \notin revents'
      BY <1>12, <2>1 DEF Guarded, Phases, RunForceClose, AtFunctor
    <3>3. QED
      BY <2>2, <3>1, <3>2, GoesDown DEF Guarded
  <2>4. CASE ~ForceClosable
    BY <1>12, <2>2, <2>4 DEF Guarded, Lifecycle, RunForceClose
  <2>5. QED
    BY <2>3, <2>4
<1>13. CASE RunUserCallback
  <2>1. QueueSame
    BY <1>13, QueueQuiet DEF RunUserCallback
  <2>2. QED
    BY <1>13, <2>1, StackFacts DEF Guarded, Lifecycle, QueueSame, RunUserCallback, AtFunctor
<1>14. CASE RunConnectDestroyed
  <2>1. AtFunctor("connectDestroyed") /\ batch' = Tail(batch) /\ pending' = pending
    BY <1>14 DEF RunConnectDestroyed
  <2>2. QED
    BY <1>14, <2>1, QueueCall, StackFacts, SMTT(30) DEF Guarded, Lifecycle,
         RunConnectDestroyed, AtFunctor, ConnectDestroyed, Interest
<1>15. CASE CloseCallback
  <2>1. F("connectDestroyed") \in Functor /\ F("connectDestroyed").op = "connectDestroyed"
    BY FunctorType DEF Shared
  <2>2. None(Undone) => One(Undone')
    BY <1>15, <2>1, QueueAdd DEF CloseCallback
  <2>3. frames \in AtClose /\ frames' = <<>>
    BY <1>15, StackReturns DEF Types, TypeControl, CloseCallback
  <2>4. owned /\ destroys = 0 /\ None(Undone) /\ ~owned'
    BY <1>15, <2>3 DEF Guarded, Lifecycle, CloseCallback
  <2>5. frames' \notin AtClose /\ frames' \notin AtRemove
    BY <2>3, StackFacts
  <2>6. state_ = "kDisconnected"
    BY <2>3 DEF Guarded, Lifecycle
  <2>7. QED
    BY <1>15, <2>2, <2>4, <2>5, <2>6 DEF Guarded, Lifecycle, CloseCallback
<1>16. CASE ChannelRemove
  <2>1. QueueSame
    BY <1>16, QueueQuiet DEF ChannelRemove
  <2>2. frames \in AtRemove /\ frames' = <<>>
    BY <1>16, StackReturns DEF Types, TypeControl, ChannelRemove
  <2>3. QED
    BY <1>16, <2>1, <2>2, StackFacts DEF Guarded, Lifecycle, QueueSame, ChannelRemove
<1>17. CASE UserReturn
  <2>1. QueueSame
    BY <1>17, QueueQuiet DEF UserReturn
  <2>2. frames \in Stacks /\ frames # <<>> /\ Head(frames) = "user" /\ frames' = Tail(frames)
    BY <1>17 DEF Types, TypeControl, UserReturn, Running
  <2>3. (frames \in AtClose <=> frames' \in AtClose) /\ (frames \in AtRemove <=> frames' \in AtRemove)
    BY <2>2, StackReturns
  <2>4. QED
    BY <1>17, <2>1, <2>3 DEF Guarded, Lifecycle, QueueSame, UserReturn, Running
<1>18. CASE DelayExpires
  <2>1. (None(Undone) => None(Undone')) /\ (One(Undone) => One(Undone'))
    BY <1>18, ForceCloseQueue, QueueQuiet DEF QueueSame, DelayExpires
  <2>2. QED
    BY <1>18, <2>1 DEF Guarded, Lifecycle, DelayExpires, ForceClose, ForceClosable
<1>19. CASE OtherCallback
  <2>1. QueueSame
    BY <1>19, QueueQuiet DEF OtherCallback
  <2>2. QED
    BY <1>19, <2>1, StackFacts DEF Guarded, Lifecycle, QueueSame, OtherCallback
<1>20. CASE OwnerDestroyed
  <2>1. QueueSame
    BY <1>20, QueueQuiet DEF OwnerDestroyed
  <2>2. frames \notin AtClose
    BY <1>20, StackFacts DEF OwnerDestroyed
  <2>3. ASSUME ~unguarded' PROVE state_ = "kConnected"
    BY <1>20, <2>2, <2>3 DEF Types, TypeControl, Guarded, Fresh, Lifecycle, OwnerDestroyed
  <2>4. owned /\ destroys = 0 /\ None(Undone) /\ ~owned'
    BY <1>20 DEF Guarded, Lifecycle, OwnerDestroyed
  <2>5. destroys' = 1 /\ None(Undone')
    BY <1>20, <2>1, <2>4, SMTT(30) DEF QueueSame, OwnerDestroyed, ConnectDestroyed
  <2>6. ASSUME state_ = "kConnected"
        PROVE  /\ state_' = "kDisconnected" /\ events' = {} /\ downs' = 1
               /\ frames' = <<"user", "remove">> /\ "in" \notin revents'
    BY <1>20, <2>6, SMTT(30) DEF Guarded, Phases, Lifecycle, OwnerDestroyed,
         ConnectDestroyed, Interest
  <2>7. QED
    BY <2>3, <2>4, <2>5, <2>6, StackFacts DEF Lifecycle
<1>21. CASE LocalSend
  <2>1. QueueSame
    BY <1>21, QueueQuiet
  <2>2. CASE state_ = "kConnected"
    <3>1. Extends(Message("loop"))
      BY <1>21, <2>2, LocalSendOutcome
    <3>2. QED
      BY <1>21, <2>1, <2>2, <3>1 DEF Guarded, Lifecycle, QueueSame, LocalSend, LocalCall,
           Extends
  <2>3. CASE state_ # "kConnected"
    BY <1>21, <2>1, <2>3 DEF Guarded, Lifecycle, QueueSame, LocalSend, LocalCall
  <2>4. QED
    BY <2>2, <2>3
<1>22. CASE LocalShutdown
  <2>1. QueueSame
    BY <1>22, QueueQuiet DEF LocalShutdown, LocalCall
  <2>2. QED
    BY <1>22, <2>1, StackFacts DEF Guarded, Lifecycle, QueueSame, LocalShutdown, LocalCall,
         ShutdownInLoop
<1>23. CASE LocalForceClose
  <2>1. (None(Undone) => None(Undone')) /\ (One(Undone) => One(Undone'))
    BY <1>23, ForceCloseQueue, QueueQuiet DEF QueueSame, LocalForceClose, LocalCall
  <2>2. QED
    BY <1>23, <2>1 DEF Guarded, Lifecycle, LocalForceClose, LocalCall, ForceClose, ForceClosable
<1>24. CASE LocalForceCloseWithDelay
  <2>1. QueueSame
    BY <1>24, QueueQuiet DEF LocalForceCloseWithDelay, LocalCall
  <2>2. QED
    BY <1>24, <2>1, StackFacts DEF Guarded, Lifecycle, QueueSame, LocalForceCloseWithDelay,
         LocalCall, ForceClosable
<1>25. CASE LocalRead
  <2>1. QueueSame
    BY <1>25, QueueQuiet DEF LocalRead, LocalCall
  <2>2. QED
    BY <1>25, <2>1, ReadChanges DEF ReadChange, Guarded, Lifecycle, QueueSame, LocalRead,
         LocalCall
<1>26. CASE RemoteSetState
  <2>1. QueueSame
    BY <1>26, QueueQuiet DEF RemoteSetState
  <2>2. QED
    BY <1>26, <2>1, RemoteSetFrom DEF Guarded, Lifecycle, QueueSame, RemoteSetState
<1>27. CASE RemoteQueue
  BY <1>27, RemoteQueueQueue DEF Guarded, Lifecycle, RemoteQueue
<1>28. CASE RemoteRelease
  <2>1. QueueSame
    BY <1>28, QueueQuiet DEF RemoteRelease
  <2>2. QED
    BY <1>28, <2>1, StackFacts DEF Guarded, Lifecycle, QueueSame, RemoteRelease
<1>29. QED
  <2>1. CASE LoopStep
    BY <2>1, <1>1, <1>2, <1>3, <1>4, <1>5, <1>6, <1>7, <1>8, <1>9, <1>10, <1>11, <1>12, <1>13,
         <1>14, <1>15, <1>16, <1>17, <1>18 DEF LoopStep
  <2>2. CASE UserStep
    BY <2>2, <1>1, <1>19, <1>20, <1>21, <1>22, <1>23, <1>24, <1>25 DEF UserStep, RemoteCalls
  <2>3. CASE RemoteStep
    BY <2>3, <1>26, <1>27 DEF RemoteStep
  <2>4. QED
    BY <2>1, <2>2, <2>3, <1>1, <1>28 DEF Next, Unless

\* The steps after which the model stops: a race on state_, reading started or
\* stopped on a closed connection, a second hangup, the owner destroyed during a
\* shutdown, a functor left with the raw pointer.
LEMMA Stops ==
  ASSUME ~unguarded, unguarded', Next
  PROVE  HandleHup \/ RunRead \/ LocalRead \/ OwnerDestroyed \/ RemoteSetState \/ RemoteRelease
<1>1. ~(PeerAcks \/ PeerSends \/ PeerCloses \/ PeerResets)
  BY DEF PeerAcks, PeerSends, PeerCloses, PeerResets
<1>2. CASE LoopStep
  BY <1>2 DEF LoopStep, ConnectEstablished, Poll, HandleError, HandleRead, HandleWrite, DoPendingFunctors,
       FunctorsDone, RunSend, RunShutdown, RunForceClose, RunUserCallback, RunConnectDestroyed,
       CloseCallback, ChannelRemove, UserReturn, DelayExpires
<1>3. CASE UserStep
  BY <1>3 DEF UserStep, OtherCallback, LocalSend, LocalShutdown, LocalForceClose,
       LocalForceCloseWithDelay, RemoteCall, LocalCall
<1>4. CASE RemoteStep
  BY <1>4 DEF RemoteStep, RemoteQueue
<1>5. QED
  BY <1>1, <1>2, <1>3, <1>4 DEF Next, Unless

\* Every step, an unguarded one too, keeps Always.
LEMMA AlwaysStep ==
  ASSUME Types, Guarded, ~unguarded, Next, Types', Fresh', ~unguarded' => Lifecycle'
  PROVE  Always'
<1>1. ups' <= 1
  BY SMTT(30) DEF Fresh
<1>2. destroys <= 1 /\ (owned => destroys = 0)
  BY SMTT(30) DEF Guarded, Lifecycle
<1>3. CASE ~unguarded'
  <2>1. destroys' <= 1
    BY <1>3, SMTT(30) DEF Lifecycle
  <2>2. RemovesChannel' => events' = {}
    BY <1>3, StackReturns DEF Types, TypeControl, RemovesChannel, Lifecycle
  <2>3. QED
    BY <1>1, <2>1, <2>2 DEF Always
<1>4. CASE unguarded' /\ HandleHup
  BY <1>1, <1>2, <1>4 DEF Always, RemovesChannel, HandleHup, HandleClose
<1>5. CASE unguarded' /\ RunRead
  BY <1>1, <1>2, <1>5 DEF Always, RemovesChannel, RunRead, AtFunctor
<1>6. CASE unguarded' /\ LocalRead
  BY <1>1, <1>2, <1>6 DEF Always, RemovesChannel, LocalRead, LocalCall, Running
<1>7. CASE unguarded' /\ OwnerDestroyed
  <2>1. state_' = "kDisconnecting"
    BY <1>7 DEF OwnerDestroyed, ConnectDestroyed
  <2>2. destroys' <= 1
    BY <1>2, <1>7, SMTT(30) DEF OwnerDestroyed, ConnectDestroyed
  <2>3. QED
    BY <1>1, <2>1, <2>2 DEF Always
<1>8. CASE unguarded' /\ RemoteSetState
  BY <1>1, <1>2, <1>8 DEF Always, RemoteSetState
<1>9. CASE unguarded' /\ RemoteRelease
  <2>1. UNCHANGED <<frames, events, destroys>>
    BY <1>9 DEF RemoteRelease
  <2>2. RemovesChannel => events = {}
    BY StackReturns DEF Types, TypeControl, RemovesChannel, Guarded, Lifecycle
  <2>3. QED
    BY <1>1, <1>2, <2>1, <2>2 DEF Always, RemovesChannel
<1>10. QED
  BY <1>3, <1>4, <1>5, <1>6, <1>7, <1>8, <1>9, Stops

\* Every guarded step keeps track of the shutdown that was asked for.
LEMMA ClosingStep ==
  ASSUME Types, WritingIffPending, Guarded, ~unguarded, Next
  PROVE  ~unguarded' => Closing'
<1>1. CASE \/ Poll
            \/ HandleError
            \/ FunctorsDone
            \/ ChannelRemove
            \/ UserReturn
            \/ OtherCallback
            \/ RemoteRelease
            \/ PeerAcks
            \/ PeerSends
            \/ PeerCloses
            \/ PeerResets
  <2>1. UNCHANGED <<state_, wclosed, delayed, events, batch, pending, rpc>>
    BY <1>1 DEF Poll, HandleError, FunctorsDone, ChannelRemove, UserReturn, OtherCallback,
         RemoteRelease, PeerAcks, PeerSends, PeerCloses, PeerResets
  <2>2. QED
    BY <2>1 DEF Closing, Guarded, Undone
<1>2. CASE ConnectEstablished
  <2>1. Undone = <<>> /\ ~wclosed /\ rpc = Idle
    BY <1>2 DEF Guarded, Fresh, ConnectEstablished
  <2>2. Undone' = <<>> /\ ~wclosed' /\ rpc' = Idle /\ state_' = "kConnected"
    BY <1>2, <2>1 DEF ConnectEstablished, Undone
  <2>3. ~ToClose(Undone')
    BY <2>2, SMTT(30) DEF ToClose
  <2>4. QED
    BY <2>2, <2>3 DEF Closing, Closers, Idle
<1>3. CASE HandleHup
  <2>1. QueueSame
    BY <1>3, QueueQuiet DEF HandleHup
  <2>2. QED
    BY <1>3, <2>1 DEF Guarded, Closing, QueueSame, HandleHup, AtHandler, HandleClose, Interest
<1>4. CASE HandleRead
  <2>1. QueueSame
    BY <1>4, QueueQuiet DEF HandleRead
  <2>2. QED
    BY <1>4, <2>1 DEF Guarded, Closing, QueueSame, HandleRead, AtHandler, HandleClose, Interest
<1>5. CASE HandleWrite
  <2>1. QueueSame
    BY <1>5, QueueQuiet
  <2>2. Drains
    BY <1>5, TypesHold, WriteDrains
  <2>3. QED
    BY <2>1, <2>2 DEF Guarded, Closing, QueueSame, Drains
<1>6. CASE DoPendingFunctors
  <2>1. QueueSame
    BY <1>6, QueueQuiet DEF DoPendingFunctors
  <2>2. QED
    BY <1>6, <2>1 DEF Guarded, Closing, QueueSame, DoPendingFunctors
<1>7. CASE RunSend
  <2>1. QueueSame
    BY <1>7, QueueQuiet
  <2>2. Outcome(Head(batch).data)
    BY <1>7, RunSendOutcome
  <2>3. QED
    BY <1>7, <2>1, <2>2 DEF Guarded, Closing, QueueSame, RunSend, Outcome, Extends
<1>8. CASE RunShutdown
  <2>1. AtFunctor("shutdown") /\ batch' = Tail(batch) /\ pending' = pending
    BY <1>8 DEF RunShutdown
  <2>2. QED
    BY <1>8, <2>1, QueueCall DEF Guarded, Closing, Closers, RunShutdown, ShutdownInLoop
<1>9. CASE RunRead
  <2>1. QueueSame
    BY <1>9, QueueQuiet DEF RunRead
  <2>2. QED
    BY <1>9, <2>1, ReadChanges DEF ReadChange, Guarded, Closing, QueueSame, RunRead, AtFunctor
<1>10. CASE RunForceClose
  <2>1. AtFunctor("forceClose") /\ batch' = Tail(batch) /\ pending' = pending
    BY <1>10 DEF RunForceClose
  <2>2. QED
    BY <1>10, <2>1, QueueCall DEF Types, TypeControl, Guarded, Closing, Closers,
         RunForceClose, ForceClosable, HandleClose, Interest
<1>11. CASE RunUserCallback
  <2>1. QueueSame
    BY <1>11, QueueQuiet DEF RunUserCallback
  <2>2. QED
    BY <1>11, <2>1 DEF Guarded, Closing, QueueSame, RunUserCallback, AtFunctor
<1>12. CASE RunConnectDestroyed
  <2>1. AtFunctor("connectDestroyed") /\ batch' = Tail(batch) /\ pending' = pending
    BY <1>12 DEF RunConnectDestroyed
  <2>2. QED
    BY <1>12, <2>1, QueueCall, SMTT(30) DEF Guarded, Closing, Closers, RunConnectDestroyed,
         ConnectDestroyed, Interest
<1>13. CASE CloseCallback
  <2>1. F("connectDestroyed") \in Functor /\ F("connectDestroyed").op = "connectDestroyed"
    BY FunctorType DEF Shared
  <2>2. ToClose(Undone') <=> ToClose(Undone)
    BY <1>13, <2>1, QueueAdd DEF CloseCallback, Closers
  <2>3. QED
    BY <1>13, <2>2 DEF Guarded, Closing, CloseCallback
<1>14. CASE DelayExpires
  <2>1. CASE Referenced
    <3>1. ForceClose /\ batch' = batch
      BY <1>14, <2>1 DEF DelayExpires
    <3>2. QED
      BY <1>14, <3>1, ForceCloseQueue DEF Guarded, Closing, DelayExpires, ForceClose,
           ForceClosable
  <2>2. CASE ~Referenced
    <3>1. UNCHANGED <<state_, wclosed, events, batch, pending, rpc>>
      BY <1>14, <2>2 DEF DelayExpires
    <3>2. state_ = "kDisconnected"
      BY <2>2 DEF Guarded, Lifecycle, Referenced
    <3>3. QED
      BY <3>1, <3>2 DEF Guarded, Closing
  <2>3. QED
    BY <2>1, <2>2
<1>15. CASE OwnerDestroyed
  <2>1. QueueSame
    BY <1>15, QueueQuiet DEF OwnerDestroyed
  <2>2. state_' # "kConnected" /\ (~unguarded' => state_' # "kDisconnecting")
    BY <1>15 DEF OwnerDestroyed, ConnectDestroyed
  <2>3. QED
    BY <1>15, <2>1, <2>2 DEF Guarded, Closing, OwnerDestroyed
<1>16. CASE LocalSend
  <2>1. QueueSame
    BY <1>16, QueueQuiet
  <2>2. CASE state_ = "kConnected"
    <3>1. Extends(Message("loop"))
      BY <1>16, <2>2, LocalSendOutcome
    <3>2. QED
      BY <1>16, <2>1, <2>2, <3>1 DEF Guarded, Closing, QueueSame, LocalSend, LocalCall, Extends
  <2>3. CASE state_ # "kConnected"
    BY <1>16, <2>1, <2>3 DEF Guarded, Closing, QueueSame, LocalSend, LocalCall
  <2>4. QED
    BY <2>2, <2>3
<1>17. CASE LocalShutdown
  <2>1. QueueSame
    BY <1>17, QueueQuiet DEF LocalShutdown, LocalCall
  <2>2. QED
    BY <1>17, <2>1 DEF Guarded, Closing, QueueSame, LocalShutdown, LocalCall, ShutdownInLoop
<1>18. CASE LocalForceClose
  <2>1. ForceClose /\ batch' = batch
    BY <1>18 DEF LocalForceClose, LocalCall
  <2>2. QED
    BY <1>18, <2>1, ForceCloseQueue DEF Guarded, Closing, LocalForceClose, LocalCall,
         ForceClose, ForceClosable
<1>19. CASE LocalForceCloseWithDelay
  <2>1. QueueSame
    BY <1>19, QueueQuiet DEF LocalForceCloseWithDelay, LocalCall
  <2>2. QED
    BY <1>19, <2>1 DEF Guarded, Closing, QueueSame, LocalForceCloseWithDelay, LocalCall,
         ForceClosable
<1>20. CASE LocalRead
  <2>1. QueueSame
    BY <1>20, QueueQuiet DEF LocalRead, LocalCall
  <2>2. QED
    BY <1>20, <2>1, ReadChanges DEF ReadChange, Guarded, Closing, QueueSame, LocalRead,
         LocalCall
<1>21. CASE RemoteCalls
  <2>1. QueueSame
    BY <1>21, QueueQuiet DEF RemoteCalls, RemoteCall
  <2>2. PICK op \in RemoteOps : RemoteCall(op)
    BY <1>21 DEF RemoteCalls
  <2>3. rpc = Idle /\ UNCHANGED <<state_, wclosed, events, delayed>>
    BY <2>2 DEF RemoteCall
  <2>4. rpc' \in {Idle, <<op, IF op \in Closers THEN "set" ELSE "queue">>}
    BY <2>2 DEF RemoteCall, Closers
  <2>5. rpc' \notin Closers \X {"queue"} /\ (rpc'[2] = "set" => rpc'[1] \in Closers)
    BY <2>4, SMTT(30) DEF Closers, Idle
  <2>6. QED
    BY <2>1, <2>3, <2>5 DEF Guarded, Closing, QueueSame, Idle, Closers
<1>22. CASE RemoteSetState
  <2>1. ASSUME ~unguarded' PROVE Closing'
    <3>1. rpc[1] \in Closers
      BY <1>22, <2>1, RemoteSetFrom DEF Guarded
    <3>2. rpc' \in Closers \X {"queue"} /\ rpc'[2] = "queue" /\ state_' = "kDisconnecting"
      BY <1>22, <3>1 DEF RemoteSetState
    <3>3. QED
      BY <3>2 DEF Closing
  <2>2. QED
    BY <2>1
<1>23. CASE RemoteQueue
  <2>1. rpc # Idle
    BY <1>23, SMTT(30) DEF RemoteQueue, Idle
  <2>2. rpc[1] \in Closers => rpc \in Closers \X {"queue"}
    BY <1>23, <2>1 DEF Types, TypeControl, RemoteQueue
  <2>3. rpc' = Idle /\ UNCHANGED <<state_, wclosed, events, delayed>>
    BY <1>23 DEF RemoteQueue
  <2>4. QED
    BY <1>23, <2>2, <2>3, RemoteQueueQueue DEF Guarded, Closing, Idle
<1>24. QED
  <2>1. CASE LoopStep
    BY <2>1, <1>1, <1>2, <1>3, <1>4, <1>5, <1>6, <1>7, <1>8, <1>9, <1>10, <1>11, <1>12, <1>13,
         <1>14 DEF LoopStep
  <2>2. CASE UserStep
    BY <2>2, <1>1, <1>15, <1>16, <1>17, <1>18, <1>19, <1>20, <1>21 DEF UserStep, RemoteCalls
  <2>3. CASE RemoteStep
    BY <2>3, <1>22, <1>23 DEF RemoteStep
  <2>4. QED
    BY <2>1, <2>2, <2>3, <1>1 DEF Next, Unless

\* Every step keeps a closed write side without output.
LEMMA DrainingStep ==
  ASSUME Types, WritingIffPending, Guarded, Draining, ~unguarded, Next
  PROVE  Draining'
<1>1. CASE \/ ConnectEstablished
            \/ Poll
            \/ HandleError
            \/ DoPendingFunctors
            \/ FunctorsDone
            \/ RunRead
            \/ RunUserCallback
            \/ CloseCallback
            \/ ChannelRemove
            \/ UserReturn
            \/ DelayExpires
            \/ OtherCallback
            \/ LocalForceClose
            \/ LocalForceCloseWithDelay
            \/ LocalRead
            \/ RemoteCalls
            \/ RemoteRelease
            \/ PeerAcks
            \/ PeerSends
  <2>1. UNCHANGED <<wclosed, downs, outputBuffer_, fault, peer, promised, sent>>
    BY <1>1 DEF ConnectEstablished, Poll, HandleError, DoPendingFunctors, FunctorsDone, RunRead,
         RunUserCallback, CloseCallback, ChannelRemove, UserReturn, DelayExpires, OtherCallback,
         LocalForceClose, LocalForceCloseWithDelay, LocalRead, RemoteCall, RemoteRelease,
         PeerAcks, PeerSends, LocalCall, RemoteCalls
  <2>2. QED
    BY <2>1 DEF Draining, Broken
<1>2. CASE HandleHup
  <2>1. downs' # 0 \/ downs' = downs
    BY <1>2, SMTT(30) DEF Types, TypeNumbers, HandleHup, HandleClose
  <2>2. QED
    BY <1>2, <2>1 DEF Draining, Broken, HandleHup
<1>3. CASE HandleRead
  <2>1. downs' # 0 \/ downs' = downs
    BY <1>3, SMTT(30) DEF Types, TypeNumbers, HandleRead, HandleClose
  <2>2. QED
    BY <1>3, <2>1 DEF Draining, Broken, HandleRead
<1>4. CASE HandleWrite
  <2>1. Drains
    BY <1>4, TypesHold, WriteDrains
  <2>2. QED
    BY <2>1 DEF Draining, Drains, Broken
<1>5. CASE RunSend
  <2>1. Outcome(Head(batch).data)
    BY <1>5, RunSendOutcome
  <2>2. UNCHANGED <<sent, promised, downs>>
    BY <1>5 DEF RunSend, past
  <2>3. UNCHANGED <<wclosed, peer>>
    BY <2>1 DEF Outcome, Extends, kernel
  <2>4. outputBuffer_ = <<>> /\ Broken => outputBuffer_' = <<>>
    BY <2>1 DEF Outcome, Extends, conn
  <2>5. fault' = fault \/ (Broken /\ outputBuffer_' = <<>>)
    BY <2>1 DEF Outcome, Extends
  <2>6. QED
    BY <2>2, <2>3, <2>4, <2>5 DEF Draining, Broken
<1>6. CASE RunShutdown
  <2>1. "write" \notin events /\ downs = 0 => outputBuffer_ = <<>>
    BY SMTT(30) DEF WritingIffPending, Guarded, Lifecycle
  <2>2. QED
    BY <1>6, <2>1 DEF Draining, Broken, RunShutdown, ShutdownInLoop
<1>7. CASE RunForceClose
  <2>1. downs' # 0 \/ downs' = downs
    BY <1>7, SMTT(30) DEF Types, TypeNumbers, RunForceClose, HandleClose
  <2>2. QED
    BY <1>7, <2>1 DEF Draining, Broken, RunForceClose
<1>8. CASE RunConnectDestroyed
  <2>1. downs' # 0 \/ downs' = downs
    BY <1>8, SMTT(30) DEF Types, TypeNumbers, RunConnectDestroyed, ConnectDestroyed
  <2>2. QED
    BY <1>8, <2>1 DEF Draining, Broken, RunConnectDestroyed, ConnectDestroyed
<1>9. CASE OwnerDestroyed
  <2>1. downs' # 0 \/ downs' = downs
    BY <1>9, SMTT(30) DEF Types, TypeNumbers, OwnerDestroyed, ConnectDestroyed
  <2>2. QED
    BY <1>9, <2>1 DEF Draining, Broken, OwnerDestroyed, ConnectDestroyed
<1>10. CASE LocalSend
  <2>1. CASE state_ = "kConnected"
    <3>1. Extends(Message("loop"))
      BY <1>10, <2>1, LocalSendOutcome
    <3>2. sent["loop"] \in Nat /\ sent'["loop"] = sent["loop"] + MsgLen
      BY <1>10, <2>1 DEF Types, TypeNumbers, Threads, LocalSend
    <3>3. UNCHANGED <<downs, promised>>
      BY <1>10 DEF LocalSend, LocalCall
    <3>4. promised[1] = "loop" => promised[2] <= sent'["loop"]
      BY <3>2, TcpConnectionAssumption, SMTT(30) DEF Types, TypeNumbers, Byte, Draining
    <3>5. QED
      BY <3>1, <3>3, <3>4, SMTT(30) DEF Draining, Extends, Broken
  <2>2. CASE state_ # "kConnected"
    BY <1>10, <2>2 DEF Draining, LocalSend, LocalCall, Broken
  <2>3. QED
    BY <2>1, <2>2
<1>11. CASE LocalShutdown
  <2>1. "write" \notin events /\ downs = 0 => outputBuffer_ = <<>>
    BY SMTT(30) DEF WritingIffPending, Guarded, Lifecycle
  <2>2. promised'[1] = "loop" => promised'[2] <= sent'["loop"]
    <3>1. sent["loop"] \in Nat
      BY DEF Types, TypeNumbers, Threads
    <3>2. CASE promised' = <<"loop", sent["loop"]>> /\ sent' = sent
      BY <3>1, <3>2, SMTT(30)
    <3>3. CASE UNCHANGED <<promised, sent>>
      BY <3>3 DEF Draining
    <3>4. QED
      BY <1>11, <3>2, <3>3 DEF LocalShutdown
  <2>3. wclosed' => wclosed \/ "write" \notin events
    BY <1>11 DEF LocalShutdown, ShutdownInLoop
  <2>4. (wclosed => wclosed') /\ UNCHANGED <<downs, outputBuffer_, fault, peer>>
    BY <1>11 DEF LocalShutdown, LocalCall, ShutdownInLoop
  <2>5. QED
    BY <2>1, <2>2, <2>3, <2>4 DEF Draining, Broken
<1>12. CASE RemoteSetState
  BY <1>12 DEF Draining, Broken, RemoteSetState
<1>13. CASE RemoteQueue
  <2>1. sent'["loop"] = sent["loop"]
    BY <1>13 DEF RemoteQueue, Types, TypeNumbers, Threads
  <2>2. QED
    BY <1>13, <2>1 DEF Draining, Broken, RemoteQueue
<1>14. CASE PeerCloses
  BY <1>14 DEF Draining, Broken, PeerCloses
<1>15. CASE PeerResets
  BY <1>15 DEF Draining, Broken, PeerResets
<1>16. QED
  <2>1. CASE LoopStep
    BY <2>1, <1>1, <1>2, <1>3, <1>4, <1>5, <1>6, <1>7, <1>8 DEF LoopStep
  <2>2. CASE UserStep
    BY <2>2, <1>1, <1>9, <1>10, <1>11 DEF UserStep, RemoteCalls
  <2>3. CASE RemoteStep
    BY <2>3, <1>12, <1>13 DEF RemoteStep
  <2>4. QED
    BY <2>1, <2>2, <2>3, <1>1, <1>14, <1>15 DEF Next, Unless

-----------------------------------------------------------------------------
(* The stream, as a sequence of bytes s, a queue of functors w and the       *)
(* numbers of bytes sent.                                                  *)

\* No byte is missing before one of s.
Closed(s) == \A b \in Range(s) : \A k \in 1 .. b[2] : <<b[1], k>> \in Range(s)

Bounded(s, n) == \A b \in Range(s) : b[2] \in 1 .. n[b[1]]
Precedes(s, u) == \A b \in Range(s), c \in Range(u) : SentBefore(b, c)

Ordered(s, w, n) ==
  /\ InOrder(s) /\ Bounded(s, n)
  /\ \A i \in 1 .. Len(w) : InOrder(w[i].data) /\ Bounded(w[i].data, n) /\ Precedes(s, w[i].data)
  /\ \A i, j \in 1 .. Len(w) : i < j => Precedes(w[i].data, w[j].data)

\* Every byte sent is in s or in a functor.
Complete(s, w, n) ==
  \A t \in Threads : \A k \in 1 .. n[t] :
    <<t, k>> \in Range(s) \/ \E i \in 1 .. Len(w) : <<t, k>> \in Range(w[i].data)

\* StreamIntact, with the stream and the functors in separate quantifiers.
LEMMA StreamForm ==
  ASSUME Types
  PROVE  StreamIntact <=>
           /\ Closed(Stream) /\ Ordered(Stream, Undone, sent)
           /\ downs = 0 /\ ~fault => Complete(Stream, Undone, sent)
<1> DEFINE n == Len(Undone)
           d(i) == Undone[i].data
<1>1. n \in Nat
  BY TypesHold, SeqTypes, LenProperties
<1>2. /\ \A i \in 0 .. n : i = 0 \/ i \in 1 .. n
      /\ \A i \in 1 .. n : i \in 0 .. n /\ i # 0 /\ 0 < i
      /\ 0 \in 0 .. n
  BY <1>1, SMTT(30)
<1>3. Part(0) = Stream /\ \A i \in 1 .. n : Part(i) = d(i)
  BY <1>2 DEF Part
<1> HIDE DEF n, d
<1>4. (\A b \in Range(Stream) : {b[1]} \X (1 .. b[2]) \subseteq Range(Stream)) <=> Closed(Stream)
  BY SMTT(30) DEF Closed
<1>5. Ordered(Stream, Undone, sent) <=>
        /\ InOrder(Stream) /\ Bounded(Stream, sent)
        /\ \A i \in 1 .. n : InOrder(d(i)) /\ Bounded(d(i), sent) /\ Precedes(Stream, d(i))
        /\ \A i, j \in 1 .. n : i < j => Precedes(d(i), d(j))
  BY DEF Ordered, n, d
<1> DEFINE Kept(i) == InOrder(Part(i)) /\ Bounded(Part(i), sent)
<1>6. (\A i \in Parts :
         /\ InOrder(Part(i))
         /\ \A b \in Range(Part(i)) : b[2] \in 1 .. sent[b[1]]
         /\ \A j \in Parts : i < j => \A b \in Range(Part(i)), c \in Range(Part(j)) : SentBefore(b, c))
      <=> \A i \in 0 .. n : Kept(i) /\ \A j \in 0 .. n : i < j => Precedes(Part(i), Part(j))
  BY DEF Parts, Kept, Bounded, Precedes, n
<1>7. (\A i \in 0 .. n : Kept(i)) <=> Kept(0) /\ \A i \in 1 .. n : Kept(i)
  BY <1>2
<1>8. (\A i, j \in 0 .. n : i < j => Precedes(Part(i), Part(j)))
      <=> /\ \A j \in 1 .. n : Precedes(Part(0), Part(j))
          /\ \A i, j \in 1 .. n : i < j => Precedes(Part(i), Part(j))
  <2>1. \A i, j \in 0 .. n : i < j => j \in 1 .. n
    BY <1>1, SMTT(30)
  <2>2. QED
    BY <1>2, <2>1
<1>9. (\A i \in 0 .. n : Kept(i) /\ \A j \in 0 .. n : i < j => Precedes(Part(i), Part(j)))
      <=> Ordered(Stream, Undone, sent)
  BY <1>3, <1>5, <1>7, <1>8
<1>10. (\A t \in Threads : {t} \X (1 .. sent[t]) \subseteq UNION {Range(Part(i)) : i \in Parts})
       <=> Complete(Stream, Undone, sent)
  <2>1. ASSUME NEW x
        PROVE  x \in UNION {Range(Part(i)) : i \in Parts} <=>
                 x \in Range(Stream) \/ \E i \in 1 .. n : x \in Range(d(i))
    <3>1. x \in UNION {Range(Part(i)) : i \in Parts} <=> \E i \in 0 .. n : x \in Range(Part(i))
      BY DEF Parts, n
    <3>2. QED
      BY <1>2, <1>3, <3>1
  <2>2. (\A t \in Threads : {t} \X (1 .. sent[t]) \subseteq UNION {Range(Part(i)) : i \in Parts})
        <=> \A t \in Threads : \A k \in 1 .. sent[t] :
              <<t, k>> \in UNION {Range(Part(i)) : i \in Parts}
    BY SMTT(30)
  <2>3. QED
    BY <2>1, <2>2 DEF Complete, n, d
<1>11. QED
  BY <1>4, <1>6, <1>9, <1>10 DEF StreamIntact

\* What follows in order can be put at the end.
LEMMA OrderConcat ==
  ASSUME NEW s \in Seq(Byte), NEW d \in Seq(Byte), InOrder(s), InOrder(d), Precedes(s, d)
  PROVE  InOrder(s \o d)
<1> DEFINE a == s \o d
<1>1. /\ Len(s) \in Nat /\ Len(d) \in Nat /\ Len(a) = Len(s) + Len(d)
      /\ \A i \in 1 .. Len(s) + Len(d) : a[i] = IF i <= Len(s) THEN s[i] ELSE d[i - Len(s)]
  BY ConcatProperties, LenProperties
<1>2. /\ \A i \in 1 .. Len(s) : s[i] \in Range(s)
      /\ \A i \in 1 .. Len(d) : d[i] \in Range(d)
  BY RangeEquality
<1> HIDE DEF a
<1>3. ASSUME NEW i \in 1 .. Len(a), NEW j \in 1 .. Len(a), i < j
      PROVE  SentBefore(a[i], a[j])
  <2>1. CASE j <= Len(s)
    BY <1>1, <1>3, <2>1, SMTT(30) DEF InOrder
  <2>2. CASE i <= Len(s) /\ ~(j <= Len(s))
    <3>1. a[i] = s[i] /\ a[j] = d[j - Len(s)] /\ i \in 1 .. Len(s) /\ j - Len(s) \in 1 .. Len(d)
      BY <1>1, <1>3, <2>2, SMTT(30)
    <3>2. QED
      BY <1>2, <3>1 DEF Precedes
  <2>3. CASE ~(i <= Len(s))
    <3>1. /\ a[i] = d[i - Len(s)] /\ a[j] = d[j - Len(s)] /\ i - Len(s) < j - Len(s)
          /\ i - Len(s) \in 1 .. Len(d) /\ j - Len(s) \in 1 .. Len(d)
      BY <1>1, <1>3, <2>3, SMTT(30)
    <3>2. QED
      BY <3>1 DEF InOrder
  <2>4. QED
    BY <1>1, <2>1, <2>2, <2>3
<1>4. QED
  BY <1>3 DEF InOrder, a

\* The bytes of the functors that are left when the first is taken.
LEMMA TailIndex ==
  ASSUME NEW w \in Seq(Functor), w # <<>>
  PROVE  /\ Len(w) \in Nat \ {0} /\ Len(Tail(w)) = Len(w) - 1 /\ Head(w) = w[1]
         /\ \A i \in 1 .. Len(Tail(w)) : i + 1 \in 1 .. Len(w) /\ 1 < i + 1 /\ Tail(w)[i] = w[i + 1]
         /\ \A i \in 1 .. Len(w) : i = 1 \/ (i - 1 \in 1 .. Len(Tail(w)) /\ w[i] = Tail(w)[i - 1])
<1>1. /\ Len(w) \in Nat \ {0} /\ Len(Tail(w)) = Len(w) - 1 /\ Head(w) = w[1]
      /\ \A i \in 1 .. Len(w) - 1 : Tail(w)[i] = w[i + 1]
  BY HeadTailProperties, LenProperties, EmptySeq, SMTT(30)
<1>2. QED
  BY <1>1, SMTT(30)

\* A functor without data, or one whose data is dropped, is called.
LEMMA StreamDrop ==
  ASSUME NEW s \in Seq(Byte), NEW w \in Seq(Functor), w # <<>>, NEW n \in [Threads -> Nat],
         Ordered(s, w, n), Data(w)
  PROVE  /\ Ordered(s, Tail(w), n) /\ Data(Tail(w))
         /\ Head(w).op # "send" /\ Complete(s, w, n) => Complete(s, Tail(w), n)
<1> DEFINE t == Tail(w)
<1>1. /\ Len(w) \in Nat \ {0} /\ Len(t) = Len(w) - 1 /\ Head(w) = w[1]
      /\ \A i \in 1 .. Len(t) : i + 1 \in 1 .. Len(w) /\ 1 < i + 1 /\ t[i] = w[i + 1]
      /\ \A i \in 1 .. Len(w) : i = 1 \/ (i - 1 \in 1 .. Len(t) /\ w[i] = t[i - 1])
  BY TailIndex
<1> HIDE DEF t
<1>2. \A i \in 1 .. Len(t) : InOrder(t[i].data) /\ Bounded(t[i].data, n) /\ Precedes(s, t[i].data)
  BY <1>1 DEF Ordered
<1>3. ASSUME NEW i \in 1 .. Len(t), NEW j \in 1 .. Len(t), i < j
      PROVE  Precedes(t[i].data, t[j].data)
  <2>1. i + 1 < j + 1
    BY <1>1, <1>3, SMTT(30)
  <2>2. QED
    BY <1>1, <2>1 DEF Ordered
<1>4. Ordered(s, t, n)
  BY <1>2, <1>3 DEF Ordered
<1>5. Data(t)
  BY <1>1, SMTT(30) DEF Data
<1>6. ASSUME Head(w).op # "send", Complete(s, w, n) PROVE Complete(s, t, n)
  <2>1. w[1].data = <<>>
    BY <1>1, <1>6, SMTT(30) DEF Data
  <2>2. Range(w[1].data) = {}
    BY <2>1, SMTT(30) DEF Range
  <2>3. ASSUME NEW x, NEW i \in 1 .. Len(w), x \in Range(w[i].data)
        PROVE  \E j \in 1 .. Len(t) : x \in Range(t[j].data)
    BY <1>1, <2>2, <2>3
  <2>4. QED
    BY <1>6, <2>3 DEF Complete
<1>7. QED
  BY <1>4, <1>5, <1>6 DEF t

\* The data of the first functor goes to the end of the stream.
LEMMA StreamTake ==
  ASSUME NEW s \in Seq(Byte), NEW w \in Seq(Functor), w # <<>>, NEW n \in [Threads -> Nat],
         Ordered(s, w, n), Head(w).data \in Seq(Byte)
  PROVE  /\ Ordered(s \o Head(w).data, Tail(w), n)
         /\ Complete(s, w, n) => Complete(s \o Head(w).data, Tail(w), n)
         /\ Closed(s) /\ Complete(s, w, n) => Closed(s \o Head(w).data)
<1> DEFINE t == Tail(w)
           d == Head(w).data
           a == s \o d
<1>1. /\ Len(w) \in Nat \ {0} /\ Len(t) = Len(w) - 1 /\ Head(w) = w[1]
      /\ \A i \in 1 .. Len(t) : i + 1 \in 1 .. Len(w) /\ 1 < i + 1 /\ t[i] = w[i + 1]
      /\ \A i \in 1 .. Len(w) : i = 1 \/ (i - 1 \in 1 .. Len(t) /\ w[i] = t[i - 1])
  BY TailIndex
<1>2. 1 \in 1 .. Len(w) /\ d = w[1].data
  BY <1>1, SMTT(30)
<1>3. Range(a) = Range(s) \cup Range(d) /\ Range(d) \subseteq Byte
  BY RangeConcatenation, RangeOfSeq, SMTT(30)
<1>4. InOrder(s) /\ InOrder(d) /\ Precedes(s, d) /\ Bounded(s, n) /\ Bounded(d, n)
  BY <1>2 DEF Ordered
<1>5. InOrder(a)
  BY <1>4, OrderConcat
<1> HIDE DEF t, d, a
<1>6. Bounded(a, n)
  BY <1>3, <1>4 DEF Bounded
<1>7. \A i \in 1 .. Len(t) : InOrder(t[i].data) /\ Bounded(t[i].data, n) /\ Precedes(d, t[i].data)
  BY <1>1, <1>2 DEF Ordered
<1>8. \A i \in 1 .. Len(t) : Precedes(a, t[i].data)
  <2>1. \A i \in 1 .. Len(t) : Precedes(s, t[i].data)
    BY <1>1 DEF Ordered
  <2>2. QED
    BY <1>3, <1>7, <2>1 DEF Precedes
<1>9. ASSUME NEW i \in 1 .. Len(t), NEW j \in 1 .. Len(t), i < j
      PROVE  Precedes(t[i].data, t[j].data)
  <2>1. i + 1 < j + 1
    BY <1>1, <1>9, SMTT(30)
  <2>2. QED
    BY <1>1, <2>1 DEF Ordered
<1>10. Ordered(a, t, n)
  BY <1>5, <1>6, <1>7, <1>8, <1>9 DEF Ordered
<1>11. ASSUME Complete(s, w, n), NEW u \in Threads, NEW k \in 1 .. n[u]
       PROVE  <<u, k>> \in Range(a) \/ \E i \in 1 .. Len(t) : <<u, k>> \in Range(t[i].data)
  <2>1. CASE <<u, k>> \in Range(s)
    BY <1>3, <2>1
  <2>2. CASE \E i \in 1 .. Len(w) : <<u, k>> \in Range(w[i].data)
    BY <1>1, <1>2, <1>3, <2>2
  <2>3. QED
    BY <1>11, <2>1, <2>2 DEF Complete
<1>12. Complete(s, w, n) => Complete(a, t, n)
  BY <1>11 DEF Complete
<1>13. ASSUME Closed(s), Complete(s, w, n), NEW b \in Range(a), NEW k \in 1 .. b[2]
       PROVE  <<b[1], k>> \in Range(a)
  <2>1. CASE b \in Range(s)
    BY <1>3, <1>13, <2>1 DEF Closed
  <2>2. CASE b \in Range(d)
    <3>1. b[1] \in Threads /\ b[2] \in 1 .. n[b[1]] /\ n[b[1]] \in Nat
      BY <1>3, <1>4, <2>2 DEF Byte, Bounded
    <3>2. k \in 1 .. n[b[1]]
      BY <3>1, SMTT(30)
    <3>3. \A i \in 1 .. Len(t) : <<b[1], k>> \notin Range(t[i].data)
      <4>1. SUFFICES ASSUME NEW i \in 1 .. Len(t), <<b[1], k>> \in Range(t[i].data) PROVE FALSE
        OBVIOUS
      <4>2. SentBefore(b, <<b[1], k>>)
        BY <1>7, <2>2, <4>1 DEF Precedes
      <4>3. QED
        BY <3>1, <4>2, SMTT(30) DEF SentBefore
    <3>4. QED
      BY <1>11, <1>13, <3>1, <3>2, <3>3
  <2>3. QED
    BY <1>3, <2>1, <2>2
<1>14. QED
  BY <1>10, <1>12, <1>13 DEF Closed, t, d, a

Flow(s, w, n) == Closed(s) /\ Ordered(s, w, n) /\ Data(w)

\* The bytes m are what thread t sends next after n.
Follows(m, t, n, next) ==
  /\ m \in Seq(Byte) /\ InOrder(m)
  /\ \A b \in Range(m) : b[1] = t /\ b[2] \in n[t] + 1 .. next[t]
  /\ \A k \in n[t] + 1 .. next[t] : <<t, k>> \in Range(m)
  /\ n[t] <= next[t] /\ \A u \in Threads \ {t} : next[u] = n[u]

\* More may be sent than is queued.
LEMMA OrderedMore ==
  ASSUME NEW s \in Seq(Byte), NEW w \in Seq(Functor), NEW n \in [Threads -> Nat],
         NEW next \in [Threads -> Nat], \A u \in Threads : n[u] <= next[u], Ordered(s, w, n)
  PROVE  Ordered(s, w, next)
<1>1. ASSUME NEW d \in Seq(Byte), Bounded(d, n) PROVE Bounded(d, next)
  <2>1. ASSUME NEW b \in Range(d) PROVE b[2] \in 1 .. next[b[1]]
    <3>1. b \in Byte
      BY RangeOfSeq
    <3>2. b[1] \in Threads /\ b[2] \in 1 .. n[b[1]]
      BY <1>1, <3>1 DEF Byte, Bounded
    <3>3. n[b[1]] \in Nat /\ next[b[1]] \in Nat /\ n[b[1]] <= next[b[1]]
      BY <3>2
    <3>4. QED
      BY <3>2, <3>3, SMTT(30)
  <2>2. QED
    BY <2>1 DEF Bounded
<1>2. \A i \in 1 .. Len(w) : w[i].data \in Seq(Byte)
  <2>1. \A i \in 1 .. Len(w) : w[i] \in Functor
    BY ElementOfSeq
  <2>2. QED
    BY <2>1 DEF Functor
<1>3. QED
  BY <1>1, <1>2 DEF Ordered

\* A functor with the next bytes of its thread, or with none, is queued.
LEMMA FlowQueue ==
  ASSUME NEW s \in Seq(Byte), NEW w \in Seq(Functor), NEW n \in [Threads -> Nat],
         NEW next \in [Threads -> Nat], NEW f \in Functor, NEW t \in Threads,
         Flow(s, w, n), Follows(f.data, t, n, next), Data(<<f>>)
  PROVE  /\ Flow(s, Append(w, f), next)
         /\ Complete(s, w, n) => Complete(s, Append(w, f), next)
<1> DEFINE a == Append(w, f)
           d == f.data
<1>1. /\ Len(w) \in Nat /\ Len(a) = Len(w) + 1
      /\ \A i \in 1 .. Len(w) : a[i] = w[i] /\ i \in 1 .. Len(a)
      /\ a[Len(a)] = f /\ Len(a) \in 1 .. Len(a)
  BY AppendProperties, LenProperties, SMTT(30)
<1>2. \A i \in 1 .. Len(a) : i = Len(a) \/ i \in 1 .. Len(w)
  BY <1>1, SMTT(30)
<1>3. \A i, j \in 1 .. Len(a) : i < j => i \in 1 .. Len(w)
  BY <1>1, SMTT(30)
<1> HIDE DEF a, d
<1>4. \A u \in Threads : n[u] \in Nat /\ next[u] \in Nat /\ n[u] <= next[u]
  <2>1. ASSUME NEW u \in Threads PROVE n[u] \in Nat /\ next[u] \in Nat /\ n[u] <= next[u]
    <3>1. n[u] \in Nat /\ next[u] \in Nat
      OBVIOUS
    <3>2. u = t \/ next[u] = n[u]
      BY DEF Follows
    <3>3. QED
      BY <3>1, <3>2, SMTT(30) DEF Follows
  <2>2. QED
    BY <2>1
<1>5. Ordered(s, w, next)
  BY <1>4, OrderedMore DEF Flow
<1>6. InOrder(d) /\ \A b \in Range(d) : b[1] = t /\ b[2] \in n[t] + 1 .. next[t]
  BY DEF Follows, d
<1>7. Bounded(d, next)
  <2>1. ASSUME NEW b \in Range(d) PROVE b[2] \in 1 .. next[b[1]]
    <3>1. b[1] = t /\ b[2] \in n[t] + 1 .. next[t] /\ n[t] \in Nat /\ next[t] \in Nat
      BY <1>4, <1>6
    <3>2. QED
      BY <3>1, SMTT(30)
  <2>2. QED
    BY <2>1 DEF Bounded
<1>8. ASSUME NEW e \in Seq(Byte), Bounded(e, n) PROVE Precedes(e, d)
  <2>1. ASSUME NEW b \in Range(e), NEW c \in Range(d), b[1] = c[1] PROVE b[2] < c[2]
    <3>1. c[1] = t /\ c[2] \in n[t] + 1 .. next[t] /\ n[t] \in Nat /\ next[t] \in Nat
      BY <1>4, <1>6
    <3>2. b[2] \in 1 .. n[t]
      BY <1>8, <2>1, <3>1 DEF Bounded
    <3>3. QED
      BY <3>1, <3>2, SMTT(30)
  <2>2. QED
    BY <2>1 DEF Precedes, SentBefore
<1>9. \A i \in 1 .. Len(w) : w[i].data \in Seq(Byte)
  <2>1. \A i \in 1 .. Len(w) : w[i] \in Functor
    BY ElementOfSeq
  <2>2. QED
    BY <2>1 DEF Functor
<1>10. Precedes(s, d) /\ \A i \in 1 .. Len(w) : Precedes(w[i].data, d)
  BY <1>8, <1>9 DEF Flow, Ordered
<1>11. \A i \in 1 .. Len(a) : InOrder(a[i].data) /\ Bounded(a[i].data, next) /\ Precedes(s, a[i].data)
  BY <1>1, <1>2, <1>5, <1>6, <1>7, <1>10 DEF Ordered, d
<1>12. ASSUME NEW i \in 1 .. Len(a), NEW j \in 1 .. Len(a), i < j
       PROVE  Precedes(a[i].data, a[j].data)
  <2>1. i \in 1 .. Len(w)
    BY <1>3, <1>12
  <2>2. CASE j = Len(a)
    BY <1>1, <1>10, <2>1, <2>2 DEF d
  <2>3. CASE j \in 1 .. Len(w)
    BY <1>1, <1>5, <1>12, <2>1, <2>3 DEF Ordered
  <2>4. QED
    BY <1>2, <2>2, <2>3
<1>13. Ordered(s, a, next)
  BY <1>5, <1>11, <1>12 DEF Ordered
<1>14. Data(a)
  <2>1. (f.op = "send" \/ f.data = <<>>) /\ \A b \in Range(f.data) : b[1] = "other"
    <3>1. Len(<<f>>) = 1 /\ <<f>>[1] = f /\ 1 \in 1 .. 1
      BY SMTT(30)
    <3>2. QED
      BY <3>1 DEF Data
  <2>2. QED
    BY <1>1, <1>2, <2>1 DEF Flow, Data
<1>15. ASSUME Complete(s, w, n) PROVE Complete(s, a, next)
  <2>1. ASSUME NEW u \in Threads, NEW k \in 1 .. next[u]
        PROVE  <<u, k>> \in Range(s) \/ \E i \in 1 .. Len(a) : <<u, k>> \in Range(a[i].data)
    <3>1. CASE k \in 1 .. n[u]
      BY <1>1, <1>15, <3>1 DEF Complete
    <3>2. CASE ~(k \in 1 .. n[u])
      <4>1. u = t /\ k \in n[t] + 1 .. next[t]
        BY <1>4, <3>2, SMTT(30) DEF Follows
      <4>2. <<u, k>> \in Range(d)
        BY <4>1 DEF Follows, d
      <4>3. QED
        BY <1>1, <4>2 DEF d
    <3>3. QED
      BY <3>1, <3>2
  <2>2. QED
    BY <2>1 DEF Complete
<1>16. QED
  BY <1>13, <1>14, <1>15 DEF Flow, a

\* The loop's next bytes go to the end of the stream: the functors have none of
\* the loop's.
LEMMA FlowSend ==
  ASSUME NEW s \in Seq(Byte), NEW w \in Seq(Functor), NEW n \in [Threads -> Nat],
         NEW next \in [Threads -> Nat], NEW m, Follows(m, "loop", n, next),
         Flow(s, w, n), Complete(s, w, n)
  PROVE  Flow(s \o m, w, next) /\ Complete(s \o m, w, next)
<1> DEFINE a == s \o m
<1>1. /\ m \in Seq(Byte) /\ InOrder(m)
      /\ \A b \in Range(m) : b[1] = "loop" /\ b[2] \in n["loop"] + 1 .. next["loop"]
      /\ \A k \in n["loop"] + 1 .. next["loop"] : <<"loop", k>> \in Range(m)
      /\ n["loop"] <= next["loop"] /\ next["other"] = n["other"]
      /\ n["loop"] \in Nat /\ next["loop"] \in Nat /\ n["other"] \in Nat
  BY DEF Follows, Threads
<1>2. Range(a) = Range(s) \cup Range(m) /\ Range(s) \subseteq Byte
  BY <1>1, RangeConcatenation, RangeOfSeq
<1>3. Precedes(s, m)
  <2>1. ASSUME NEW b \in Range(s), NEW c \in Range(m), b[1] = c[1] PROVE b[2] < c[2]
    <3>1. b[1] = "loop" /\ c[2] \in n["loop"] + 1 .. next["loop"]
      BY <1>1, <2>1
    <3>2. b[2] \in 1 .. n["loop"]
      BY <3>1 DEF Flow, Ordered, Bounded
    <3>3. QED
      BY <1>1, <3>1, <3>2, SMTT(30)
  <2>2. QED
    BY <2>1 DEF Precedes, SentBefore
<1>4. InOrder(a)
  BY <1>1, <1>3, OrderConcat DEF Flow, Ordered
<1> HIDE DEF a
<1>5. \A u \in Threads : n[u] <= next[u]
  BY <1>1, SMTT(30) DEF Threads
<1>6. Ordered(s, w, next)
  BY <1>5, OrderedMore DEF Flow
<1>7. Bounded(a, next)
  <2>1. ASSUME NEW b \in Range(m) PROVE b[2] \in 1 .. next[b[1]]
    BY <1>1, SMTT(30)
  <2>2. QED
    BY <1>2, <1>6, <2>1 DEF Ordered, Bounded
<1>8. \A i \in 1 .. Len(w) : Precedes(a, w[i].data)
  <2>1. \A i \in 1 .. Len(w) : Precedes(m, w[i].data)
    <3>1. ASSUME NEW i \in 1 .. Len(w), NEW b \in Range(m), NEW c \in Range(w[i].data)
          PROVE  b[1] # c[1]
      BY <1>1 DEF Flow, Data
    <3>2. QED
      BY <3>1 DEF Precedes, SentBefore
  <2>2. QED
    BY <1>2, <1>6, <2>1 DEF Ordered, Precedes
<1>9. Ordered(a, w, next)
  BY <1>4, <1>6, <1>7, <1>8 DEF Ordered
<1>10. ASSUME NEW u \in Threads, NEW k \in 1 .. next[u]
       PROVE  <<u, k>> \in Range(a) \/ \E i \in 1 .. Len(w) : <<u, k>> \in Range(w[i].data)
  <2>1. CASE k \in 1 .. n[u]
    BY <1>2, <2>1 DEF Complete
  <2>2. CASE ~(k \in 1 .. n[u])
    <3>1. u = "loop" /\ k \in n["loop"] + 1 .. next["loop"]
      BY <1>1, <2>2, SMTT(30) DEF Threads
    <3>2. QED
      BY <1>1, <1>2, <3>1
  <2>3. QED
    BY <2>1, <2>2
<1>11. Closed(a)
  <2>1. ASSUME NEW b \in Range(s), NEW k \in 1 .. b[2] PROVE <<b[1], k>> \in Range(a)
    BY <1>2, <2>1 DEF Flow, Closed
  <2>2. ASSUME NEW b \in Range(m), NEW k \in 1 .. b[2] PROVE <<b[1], k>> \in Range(a)
    <3>1. b[1] = "loop" /\ k \in 1 .. next["loop"] /\ "loop" \in Threads
      BY <1>1, SMTT(30) DEF Threads
    <3>2. \A i \in 1 .. Len(w) : <<"loop", k>> \notin Range(w[i].data)
      BY DEF Flow, Data
    <3>3. QED
      BY <1>10, <3>1, <3>2
  <2>3. QED
    BY <1>2, <2>1, <2>2 DEF Closed
<1>12. QED
  BY <1>9, <1>10, <1>11 DEF Flow, Complete, a

\* A message is what its thread sends next.
LEMMA MessageFollows ==
  ASSUME Types, NEW t \in Threads
  PROVE  Follows(Message(t), t, sent, [sent EXCEPT ![t] = @ + MsgLen])
<1> DEFINE next == [sent EXCEPT ![t] = @ + MsgLen]
<1>1. sent \in [Threads -> Nat] /\ sent[t] \in Nat /\ MsgLen \in Nat
  BY TcpConnectionAssumption DEF Types, TypeNumbers
<1>2. next[t] = sent[t] + MsgLen /\ \A u \in Threads \ {t} : next[u] = sent[u]
  BY <1>1
<1>3. /\ Message(t) \in Seq(Byte) /\ Len(Message(t)) = MsgLen
      /\ \A i \in 1 .. MsgLen : Message(t)[i] = <<t, sent[t] + i>>
  BY TypesHold, MessageType
<1>4. InOrder(Message(t))
  BY <1>1, <1>3, SMTT(30) DEF InOrder, SentBefore
<1>5. Range(Message(t)) = {Message(t)[i] : i \in 1 .. MsgLen}
  BY <1>3, RangeEquality
<1>6. \A b \in Range(Message(t)) : b[1] = t /\ b[2] \in sent[t] + 1 .. sent[t] + MsgLen
  BY <1>1, <1>3, <1>5, SMTT(30)
<1>7. ASSUME NEW k \in sent[t] + 1 .. sent[t] + MsgLen PROVE <<t, k>> \in Range(Message(t))
  <2>1. k - sent[t] \in 1 .. MsgLen /\ sent[t] + (k - sent[t]) = k
    BY <1>1, SMTT(30)
  <2>2. Message(t)[k - sent[t]] = <<t, k>>
    BY <1>3, <2>1
  <2>3. QED
    BY <1>5, <2>1, <2>2
<1> HIDE DEF next
<1>8. QED
  BY <1>1, <1>2, <1>3, <1>4, <1>6, <1>7, SMTT(30) DEF Follows, next

\* A functor without data is queued.
LEMMA FlowAdd ==
  ASSUME NEW s \in Seq(Byte), NEW w \in Seq(Functor), NEW n \in [Threads -> Nat],
         NEW op \in Ops \cup Shared, Flow(s, w, n)
  PROVE  /\ Flow(s, Append(w, F(op)), n)
         /\ Complete(s, w, n) => Complete(s, Append(w, F(op)), n)
<1>1. F(op) \in Functor /\ F(op).data = <<>>
  BY FunctorType
<1>2. <<>> \in Seq(Byte) /\ Len(<<>>) = 0 /\ Range(<<>>) = {}
  BY EmptySeq, SMTT(30) DEF Range
<1>3. InOrder(<<>>)
  BY <1>2, SMTT(30) DEF InOrder
<1>4. n["loop"] \in Nat /\ "loop" \in Threads
  BY DEF Threads
<1>5. n["loop"] + 1 .. n["loop"] = {} /\ n["loop"] <= n["loop"]
  BY <1>4, SMTT(30)
<1>6. Follows(<<>>, "loop", n, n)
  BY <1>2, <1>3, <1>5 DEF Follows
<1>7. Data(<<F(op)>>)
  <2>1. Len(<<F(op)>>) = 1 /\ <<F(op)>>[1] = F(op) /\ \A i \in 1 .. 1 : i = 1
    BY SMTT(30)
  <2>2. QED
    BY <1>1, <1>2, <2>1 DEF Data
<1>8. QED
  BY <1>1, <1>4, <1>6, <1>7, FlowQueue

StreamFlow ==
  /\ Flow(Stream, Undone, sent)
  /\ downs = 0 /\ ~fault => Complete(Stream, Undone, sent)

\* StreamIntact as an invariant of the stream.
LEMMA FlowForm == Types => (StreamIntact /\ Data(Undone) <=> StreamFlow)
BY StreamForm DEF StreamFlow, Flow

\* StreamFlow after a step
FlowNext ==
  /\ Flow(Stream', Undone', sent')
  /\ downs' = 0 /\ ~fault' => Complete(Stream', Undone', sent')

\* The types of what the stream is made of.
LEMMA FlowTypes ==
  ASSUME Types
  PROVE  /\ Stream \in Seq(Byte) /\ Undone \in Seq(Functor) /\ sent \in [Threads -> Nat]
         /\ downs \in Nat /\ fault \in BOOLEAN
BY TypesHold, SeqTypes DEF Types, TypeNumbers, TypeFlags

\* A step that leaves the stream alone; the connection may go down.
LEMMA FlowSame ==
  ASSUME Types, StreamFlow, UNCHANGED <<wire, outputBuffer_, batch, pending, sent, fault>>,
         downs' \in {downs, downs + 1}
  PROVE  FlowNext
<1>1. Stream' = Stream /\ Undone' = Undone
  BY DEF Stream, Undone
<1>2. downs \in Nat
  BY FlowTypes
<1>3. downs' = 0 => downs = 0
  BY <1>2, SMTT(30)
<1>4. QED
  BY <1>1, <1>3 DEF StreamFlow, FlowNext

\* A functor other than that of send() is called.
LEMMA FlowCall ==
  ASSUME Types, StreamFlow, NEW op, AtFunctor(op), op # "send", batch' = Tail(batch),
         UNCHANGED <<wire, outputBuffer_, pending, sent, fault>>, downs' \in {downs, downs + 1}
  PROVE  FlowNext
<1>1. Stream' = Stream
  BY DEF Stream
<1>2. batch # <<>> /\ Head(batch).op = op
  BY DEF AtFunctor
<1>3. Undone # <<>> /\ Head(Undone).op = op /\ Undone' = Tail(Undone)
  BY <1>2, TypesHold, UndoneCall
<1>4. /\ Stream \in Seq(Byte) /\ Undone \in Seq(Functor) /\ sent \in [Threads -> Nat] /\ downs \in Nat
  BY FlowTypes
<1>5. /\ Ordered(Stream, Tail(Undone), sent) /\ Data(Tail(Undone))
      /\ Complete(Stream, Undone, sent) => Complete(Stream, Tail(Undone), sent)
  BY <1>3, <1>4, StreamDrop DEF StreamFlow, Flow
<1>6. downs' = 0 => downs = 0
  BY <1>4, SMTT(30)
<1>7. QED
  BY <1>1, <1>3, <1>5, <1>6 DEF StreamFlow, FlowNext, Flow

\* A functor without data is queued, or none.
LEMMA FlowQueued ==
  ASSUME Types, StreamFlow, NEW op \in Ops \cup Shared, batch' = batch,
         pending' \in {pending, Append(pending, F(op))},
         Stream' = Stream, UNCHANGED <<sent, fault, downs>>
  PROVE  FlowNext
<1>1. CASE pending' = pending
  <2>1. Undone' = Undone
    BY <1>1 DEF Undone
  <2>2. QED
    BY <2>1 DEF StreamFlow, FlowNext
<1>2. CASE pending' = Append(pending, F(op))
  <2>1. Undone' = Append(Undone, F(op))
    BY <1>2, FunctorType, TypesHold, UndoneQueue
  <2>2. /\ Stream \in Seq(Byte) /\ Undone \in Seq(Functor) /\ sent \in [Threads -> Nat]
    BY FlowTypes
  <2>3. QED
    BY <2>1, <2>2, FlowAdd DEF StreamFlow, FlowNext
<1>3. QED
  BY <1>1, <1>2

\* sendInLoop() has put data at the end of the stream, or has failed for good,
\* and perhaps queued a callback behind the functors w.
LEMMA FlowCallback ==
  ASSUME NEW s \in Seq(Byte), NEW w \in Seq(Functor), NEW n \in [Threads -> Nat], NEW w2,
         w2 \in {w, Append(w, F("writeComplete")), Append(w, F("highWater"))}, Flow(s, w, n)
  PROVE  Flow(s, w2, n) /\ (Complete(s, w, n) => Complete(s, w2, n))
<1>1. "writeComplete" \in Ops \cup Shared /\ "highWater" \in Ops \cup Shared
  BY DEF Shared
<1>2. QED
  BY <1>1, FlowAdd

\* A direct write did not fail before if one succeeds.
LEMMA NotBroken ==
  ASSUME Types, Lifecycle, Draining, StreamFlow, state_ # "kDisconnected",
         ~(outputBuffer_ = <<>> /\ Broken)
  PROVE  downs = 0 /\ ~fault /\ Complete(Stream, Undone, sent)
<1>1. downs = 0
  BY DEF Lifecycle
<1>2. ~fault
  BY <1>1 DEF Draining
<1>3. QED
  BY <1>1, <1>2 DEF StreamFlow

\* The functor of send() is called: its data follows the stream, as no functor
\* of the same thread is before it.
LEMMA FlowRunSend ==
  ASSUME Types, WritingIffPending, Lifecycle, Draining, StreamFlow, ~unguarded, RunSend
  PROVE  FlowNext
<1> DEFINE d == Head(batch).data
           t == Tail(Undone)
<1>1. d \in Seq(Byte) /\ Outcome(d)
  BY RunSendOutcome
<1>2. batch # <<>> /\ batch' = Tail(batch) /\ UNCHANGED <<sent, downs>>
  BY DEF RunSend, AtFunctor
<1>3. /\ Stream \in Seq(Byte) /\ Undone \in Seq(Functor) /\ sent \in [Threads -> Nat]
  BY FlowTypes
<1>4. /\ Undone # <<>> /\ Head(Undone) = Head(batch) /\ t \in Seq(Functor)
  BY <1>2, <1>3, TypesHold, UndoneCall, HeadTailProperties
<1>5. pending' \in {pending, Append(pending, F("writeComplete")), Append(pending, F("highWater"))}
  BY <1>1 DEF Outcome, Extends
<1>6. Undone' \in {t, Append(t, F("writeComplete")), Append(t, F("highWater"))}
  <2>1. F("writeComplete") \in Functor /\ F("highWater") \in Functor
    BY FunctorType DEF Shared
  <2>2. /\ pending' = pending => Undone' = t
        /\ \A f \in Functor : pending' = Append(pending, f) => Undone' = Append(t, f)
    BY <1>2, TypesHold, UndoneCall
  <2>3. QED
    BY <1>5, <2>1, <2>2
<1>7. Flow(Stream, t, sent)
  BY <1>3, <1>4, StreamDrop DEF StreamFlow, Flow
<1>8. CASE state_ # "kDisconnected" /\ Extends(d) /\ ~(outputBuffer_ = <<>> /\ Broken)
  <2>1. Stream' = Stream \o d
    BY <1>8 DEF Extends
  <2>2. Complete(Stream, Undone, sent)
    BY <1>8, NotBroken
  <2>3. Flow(Stream \o d, t, sent) /\ Complete(Stream \o d, t, sent)
    BY <1>1, <1>3, <1>4, <1>7, <2>2, StreamTake DEF StreamFlow, Flow
  <2>4. Stream \o d \in Seq(Byte)
    BY <1>1, <1>3, ConcatProperties
  <2>5. Flow(Stream \o d, Undone', sent) /\ Complete(Stream \o d, Undone', sent)
    BY <1>3, <1>4, <1>6, <2>3, <2>4, FlowCallback
  <2>6. QED
    BY <1>2, <2>1, <2>5 DEF FlowNext
<1>9. CASE state_ # "kDisconnected" /\ Extends(d) /\ outputBuffer_ = <<>> /\ Broken
  <2>1. Stream' = Stream /\ fault'
    BY <1>9 DEF Extends
  <2>2. Flow(Stream, Undone', sent)
    BY <1>3, <1>4, <1>6, <1>7, FlowCallback
  <2>3. QED
    BY <1>2, <2>1, <2>2 DEF FlowNext
<1>10. CASE state_ = "kDisconnected" /\ UNCHANGED <<conn, pending, kernel, fault, notified>>
  <2>1. Stream' = Stream
    BY <1>10 DEF Stream
  <2>2. downs' # 0
    BY <1>2, <1>10, SMTT(30) DEF Lifecycle
  <2>3. Flow(Stream, Undone', sent)
    BY <1>3, <1>4, <1>6, <1>7, FlowCallback
  <2>4. QED
    BY <1>2, <2>1, <2>2, <2>3 DEF FlowNext
<1>11. QED
  BY <1>1, <1>8, <1>9, <1>10 DEF Outcome

\* send() in the loop thread: no functor has bytes of this thread.
LEMMA FlowLocalSend ==
  ASSUME Types, WritingIffPending, Lifecycle, Draining, StreamFlow, ~unguarded, LocalSend
  PROVE  FlowNext
<1>1. /\ Stream \in Seq(Byte) /\ Undone \in Seq(Functor) /\ sent \in [Threads -> Nat]
      /\ "loop" \in Threads
  BY FlowTypes DEF Threads
<1>2. UNCHANGED <<batch, downs>>
  BY DEF LocalSend, LocalCall
<1>3. CASE state_ # "kConnected"
  <2>1. UNCHANGED <<wire, outputBuffer_, batch, pending, sent, fault, downs>>
    BY <1>2, <1>3 DEF LocalSend
  <2>2. QED
    BY <2>1, FlowSame
<1>4. CASE state_ = "kConnected"
  <2> DEFINE m == Message("loop")
             n == [sent EXCEPT !["loop"] = @ + MsgLen]
  <2>1. Extends(m) /\ sent' = n
    BY <1>4, LocalSendOutcome DEF LocalSend
  <2>2. Follows(m, "loop", sent, n) /\ n \in [Threads -> Nat]
    <3>1. sent["loop"] + MsgLen \in Nat
      BY <1>1, TcpConnectionAssumption, SMTT(30)
    <3>2. n \in [Threads -> Nat]
      BY <1>1, <3>1
    <3>3. QED
      BY <1>1, <3>2, MessageFollows
  <2> HIDE DEF m, n
  <2>3. m \in Seq(Byte)
    BY <2>2 DEF Follows
  <2>4. Undone' \in {Undone, Append(Undone, F("writeComplete")), Append(Undone, F("highWater"))}
    <3>1. pending' \in {pending, Append(pending, F("writeComplete")), Append(pending, F("highWater"))}
      BY <2>1 DEF Extends
    <3>2. F("writeComplete") \in Functor /\ F("highWater") \in Functor
      BY FunctorType DEF Shared
    <3>3. pending' = pending => Undone' = Undone
      BY <1>2 DEF Undone
    <3>4. \A f \in Functor : pending' = Append(pending, f) => Undone' = Append(Undone, f)
      BY <1>2, TypesHold, UndoneQueue
    <3>5. QED
      BY <3>1, <3>2, <3>3, <3>4
  <2>5. CASE ~(outputBuffer_ = <<>> /\ Broken)
    <3>1. Stream' = Stream \o m
      BY <2>1, <2>5 DEF Extends
    <3>2. Complete(Stream, Undone, sent)
      BY <1>4, <2>5, NotBroken
    <3>3. Flow(Stream \o m, Undone, n) /\ Complete(Stream \o m, Undone, n)
      BY <1>1, <2>2, <3>2, FlowSend DEF StreamFlow
    <3>4. Stream \o m \in Seq(Byte)
      BY <1>1, <2>3, ConcatProperties
    <3>5. Flow(Stream \o m, Undone', n) /\ Complete(Stream \o m, Undone', n)
      BY <1>1, <2>2, <2>4, <3>3, <3>4, FlowCallback
    <3>6. QED
      BY <2>1, <3>1, <3>5 DEF FlowNext
  <2>6. CASE outputBuffer_ = <<>> /\ Broken
    <3>1. Stream' = Stream /\ fault'
      BY <2>1, <2>6 DEF Extends
    <3>2. \A u \in Threads : sent[u] <= n[u]
      BY <1>1, TcpConnectionAssumption, SMTT(30) DEF n
    <3>3. Flow(Stream, Undone, n)
      BY <1>1, <2>2, <3>2, OrderedMore DEF StreamFlow, Flow
    <3>4. Flow(Stream, Undone', n)
      BY <1>1, <2>2, <2>4, <3>3, FlowCallback
    <3>5. QED
      BY <2>1, <3>1, <3>4 DEF FlowNext
  <2>7. QED
    BY <2>5, <2>6
<1>5. QED
  BY <1>3, <1>4

\* send() of the other thread: its bytes follow those in the functors.
LEMMA FlowRemoteQueue ==
  ASSUME Types, StreamFlow, RemoteQueue
  PROVE  FlowNext
<1> DEFINE f == [F(rpc[1]) EXCEPT !.data = IF rpc[1] = "send" THEN Message("other") ELSE <<>>]
           n == [sent EXCEPT !["other"] = @ + MsgLen]
<1>1. /\ f \in Functor /\ f.op = rpc[1] /\ rpc[1] \in RemoteOps
      /\ f.data = IF rpc[1] = "send" THEN Message("other") ELSE <<>>
  BY RemoteFunctor
<1>2. batch' = batch /\ pending' = Append(pending, f) /\ UNCHANGED <<wire, outputBuffer_, fault, downs>>
  BY DEF RemoteQueue
<1>3. /\ Stream \in Seq(Byte) /\ Undone \in Seq(Functor) /\ sent \in [Threads -> Nat]
      /\ "other" \in Threads
  BY FlowTypes DEF Threads
<1>4. Stream' = Stream
  BY <1>2 DEF Stream
<1>5. CASE rpc[1] = "send"
  <2>1. sent' = n
    BY <1>5 DEF RemoteQueue
  <2>2. Follows(f.data, "other", sent, n) /\ n \in [Threads -> Nat]
    <3>1. sent["other"] + MsgLen \in Nat
      BY <1>3, TcpConnectionAssumption, SMTT(30)
    <3>2. n \in [Threads -> Nat]
      BY <1>3, <3>1
    <3>3. f.data = Message("other")
      BY <1>1, <1>5
    <3>4. QED
      BY <1>3, <3>2, <3>3, MessageFollows
  <2> HIDE DEF f, n
  <2>3. Data(<<f>>)
    <3>1. Len(<<f>>) = 1 /\ <<f>>[1] = f /\ \A i \in 1 .. 1 : i = 1
      BY SMTT(30)
    <3>2. QED
      BY <1>1, <1>5, <2>2, <3>1 DEF Data, Follows
  <2>4. Undone' = Append(Undone, f)
    BY <1>1, <1>2, TypesHold, UndoneQueue
  <2>5. Flow(Stream, Append(Undone, f), n)
        /\ (Complete(Stream, Undone, sent) => Complete(Stream, Append(Undone, f), n))
    BY <1>1, <1>3, <2>2, <2>3, FlowQueue DEF StreamFlow
  <2>6. QED
    BY <1>2, <1>4, <2>1, <2>4, <2>5 DEF StreamFlow, FlowNext
<1>6. CASE rpc[1] # "send"
  <2>1. f = F(rpc[1])
    BY <1>6, SMTT(30) DEF F
  <2>2. sent' = sent
    BY <1>3, <1>6 DEF RemoteQueue
  <2>3. rpc[1] \in Ops \cup Shared
    BY <1>1, TcpConnectionAssumption
  <2> HIDE DEF f
  <2>4. pending' \in {pending, Append(pending, F(rpc[1]))}
    BY <1>2, <2>1
  <2>5. QED
    BY <1>2, <1>4, <2>2, <2>3, <2>4, FlowQueued
<1>7. QED
  BY <1>5, <1>6

\* Every step keeps the stream.
LEMMA StreamStep ==
  ASSUME Types, WritingIffPending, Guarded, Draining, StreamFlow, ~unguarded, Next
  PROVE  FlowNext
<1>1. CASE \/ ConnectEstablished
            \/ Poll
            \/ HandleError
            \/ FunctorsDone
            \/ ChannelRemove
            \/ UserReturn
            \/ OtherCallback
            \/ LocalShutdown
            \/ LocalForceCloseWithDelay
            \/ LocalRead
            \/ RemoteCalls
            \/ RemoteSetState
            \/ RemoteRelease
            \/ PeerAcks
            \/ PeerSends
            \/ PeerCloses
            \/ PeerResets
  <2>1. UNCHANGED <<wire, outputBuffer_, batch, pending, sent, downs, fault>>
    BY <1>1 DEF ConnectEstablished, Poll, HandleError, FunctorsDone, ChannelRemove, UserReturn,
         OtherCallback, LocalShutdown, LocalForceCloseWithDelay, LocalRead, RemoteCall,
         RemoteSetState, RemoteRelease, PeerAcks, PeerSends, PeerCloses, PeerResets, LocalCall,
         RemoteCalls
  <2>2. QED
    BY <2>1 DEF FlowNext, StreamFlow, Stream, Undone
<1>2. CASE HandleHup
  <2>1. UNCHANGED <<wire, outputBuffer_, batch, pending, sent, fault>> /\ downs' \in {downs,
                    downs + 1}
    BY <1>2 DEF HandleHup, HandleClose, Interest
  <2>2. QED
    BY <2>1, FlowSame
<1>3. CASE HandleRead
  <2>1. UNCHANGED <<wire, outputBuffer_, batch, pending, sent, fault>> /\ downs' \in {downs,
                    downs + 1}
    BY <1>3 DEF HandleRead, HandleClose, Interest
  <2>2. QED
    BY <2>1, FlowSame
<1>4. CASE HandleWrite
  <2>1. Drains
    BY <1>4, TypesHold, WriteDrains
  <2>2. /\ batch' = batch /\ pending' \in {pending, Append(pending, F("writeComplete"))}
        /\ Stream' = Stream /\ UNCHANGED <<sent, fault, downs>>
    BY <2>1 DEF Drains
  <2>3. "writeComplete" \in Ops \cup Shared
    BY DEF Shared
  <2>4. QED
    BY <2>2, <2>3, FlowQueued
<1>5. CASE DoPendingFunctors
  <2>1. /\ batch = <<>> /\ batch' = pending /\ pending' = <<>>
        /\ UNCHANGED <<wire, outputBuffer_, sent, fault, downs>>
    BY <1>5 DEF Guarded, Phases, DoPendingFunctors
  <2>2. Undone' = Undone
    BY <2>1, ConcatEmptySeq DEF Types, TypeSeqs, Undone
  <2>3. Stream' = Stream
    BY <2>1 DEF Stream
  <2>4. QED
    BY <2>1, <2>2, <2>3 DEF StreamFlow, FlowNext
<1>6. CASE RunSend
  BY <1>6, FlowRunSend DEF Guarded
<1>7. CASE RunShutdown
  <2>1. PICK op \in {"shutdown"} : AtFunctor(op)
    BY <1>7 DEF RunShutdown
  <2>2. batch' = Tail(batch) /\ UNCHANGED <<wire, outputBuffer_, pending, sent, fault>>
        /\ downs' \in {downs, downs + 1}
    BY <1>7 DEF RunShutdown
  <2>3. op # "send"
    BY <2>1
  <2>4. QED
    BY <2>1, <2>2, <2>3, FlowCall
<1>8. CASE RunRead
  <2>1. PICK op \in {"startRead", "stopRead"} : AtFunctor(op)
    BY <1>8 DEF RunRead
  <2>2. batch' = Tail(batch) /\ UNCHANGED <<wire, outputBuffer_, pending, sent, fault>>
        /\ downs' \in {downs, downs + 1}
    BY <1>8 DEF RunRead
  <2>3. op # "send"
    BY <2>1
  <2>4. QED
    BY <2>1, <2>2, <2>3, FlowCall
<1>9. CASE RunForceClose
  <2>1. PICK op \in {"forceClose"} : AtFunctor(op)
    BY <1>9 DEF RunForceClose
  <2>2. batch' = Tail(batch) /\ UNCHANGED <<wire, outputBuffer_, pending, sent, fault>>
        /\ downs' \in {downs, downs + 1}
    BY <1>9 DEF RunForceClose, HandleClose
  <2>3. op # "send"
    BY <2>1
  <2>4. QED
    BY <2>1, <2>2, <2>3, FlowCall
<1>10. CASE RunUserCallback
  <2>1. PICK op \in {"writeComplete", "highWater"} : AtFunctor(op)
    BY <1>10 DEF RunUserCallback
  <2>2. batch' = Tail(batch) /\ UNCHANGED <<wire, outputBuffer_, pending, sent, fault>>
        /\ downs' \in {downs, downs + 1}
    BY <1>10 DEF RunUserCallback
  <2>3. op # "send"
    BY <2>1
  <2>4. QED
    BY <2>1, <2>2, <2>3, FlowCall
<1>11. CASE RunConnectDestroyed
  <2>1. PICK op \in {"connectDestroyed"} : AtFunctor(op)
    BY <1>11 DEF RunConnectDestroyed
  <2>2. batch' = Tail(batch) /\ UNCHANGED <<wire, outputBuffer_, pending, sent, fault>>
        /\ downs' \in {downs, downs + 1}
    BY <1>11 DEF RunConnectDestroyed, ConnectDestroyed
  <2>3. op # "send"
    BY <2>1
  <2>4. QED
    BY <2>1, <2>2, <2>3, FlowCall
<1>12. CASE CloseCallback
  <2>1. batch' = batch /\ pending' \in {pending, Append(pending, F("connectDestroyed"))}
        /\ UNCHANGED <<wire, outputBuffer_, sent, fault, downs>>
    BY <1>12 DEF CloseCallback
  <2>2. Stream' = Stream /\ "connectDestroyed" \in Ops \cup Shared
    BY <2>1 DEF Stream, Shared
  <2>3. QED
    BY <2>1, <2>2, FlowQueued
<1>13. CASE DelayExpires
  <2>1. batch' = batch /\ pending' \in {pending, Append(pending, F("forceClose"))}
        /\ UNCHANGED <<wire, outputBuffer_, sent, fault, downs>>
    BY <1>13 DEF DelayExpires, ForceClose
  <2>2. Stream' = Stream /\ "forceClose" \in Ops \cup Shared
    BY <2>1 DEF Stream, Shared
  <2>3. QED
    BY <2>1, <2>2, FlowQueued
<1>14. CASE OwnerDestroyed
  <2>1. UNCHANGED <<wire, outputBuffer_, batch, pending, sent, fault>> /\ downs' \in {downs,
                    downs + 1}
    BY <1>14 DEF OwnerDestroyed, ConnectDestroyed, Interest
  <2>2. QED
    BY <2>1, FlowSame
<1>15. CASE LocalSend
  BY <1>15, FlowLocalSend DEF Guarded
<1>16. CASE LocalForceClose
  <2>1. batch' = batch /\ pending' \in {pending, Append(pending, F("forceClose"))}
        /\ UNCHANGED <<wire, outputBuffer_, sent, fault, downs>>
    BY <1>16 DEF LocalForceClose, ForceClose, LocalCall
  <2>2. Stream' = Stream /\ "forceClose" \in Ops \cup Shared
    BY <2>1 DEF Stream, Shared
  <2>3. QED
    BY <2>1, <2>2, FlowQueued
<1>17. CASE RemoteQueue
  BY <1>17, FlowRemoteQueue
<1>18. QED
  <2>1. CASE LoopStep
    BY <2>1, <1>1, <1>2, <1>3, <1>4, <1>5, <1>6, <1>7, <1>8, <1>9, <1>10, <1>11, <1>12, <1>13
         DEF LoopStep
  <2>2. CASE UserStep
    BY <2>2, <1>1, <1>14, <1>15, <1>16 DEF UserStep, RemoteCalls
  <2>3. CASE RemoteStep
    BY <2>3, <1>1, <1>17 DEF RemoteStep
  <2>4. QED
    BY <2>1, <2>2, <2>3, <1>1 DEF Next, Unless


-----------------------------------------------------------------------------
(* The invariant and the theorems.                                         *)

\* The invariant holds of a connection that newConnection() has made.
LEMMA ConnInit == Init => ConnInv
<1> SUFFICES ASSUME Init PROVE ConnInv
  OBVIOUS
<1>1. TypeControl
  BY StackFacts DEF Init, TypeControl
<1>2. TypeFlags
  BY DEF Init, TypeFlags
<1>3. TypeSeqs
  BY EmptySeq DEF Init, TypeSeqs
<1>4. TypeNumbers
  BY TcpConnectionAssumption, SMTT(30) DEF Init, TypeNumbers, Threads, Byte
<1>5. Types
  BY <1>1, <1>2, <1>3, <1>4 DEF Types
<1>6. Stream = <<>> /\ Undone = <<>> /\ Len(<<>>) = 0 /\ 1 .. 0 = {}
  BY <1>5, TypesHold, SeqTypes, SMTT(30) DEF Init
<1>7. None(Undone) /\ ~ToClose(Undone) /\ ~Holds(batch)
  BY <1>6 DEF Init, None, ToClose, Holds
<1>8. StreamIntact /\ Data(Undone)
  <2>1. Data(Undone)
    BY <1>6 DEF Data
  <2>2. Range(Stream) = {}
    BY <1>6, SMTT(30) DEF Range
  <2>3. Closed(Stream) /\ Ordered(Stream, Undone, sent)
    BY <1>6, <2>2 DEF Closed, Ordered, InOrder, Bounded, Precedes
  <2>4. Complete(Stream, Undone, sent)
    <3>1. \A t \in Threads : 1 .. sent[t] = {}
      BY SMTT(30) DEF Init
    <3>2. QED
      BY <3>1 DEF Complete
  <2>5. QED
    BY <1>5, <2>1, <2>3, <2>4, FlowForm DEF StreamFlow, Flow
<1>9. HighWaterNotified
  BY <1>6, TcpConnectionAssumption, SMTT(30) DEF Init, HighWaterNotified
<1>10. WritingIffPending
  BY DEF Init, WritingIffPending
<1>11. Draining
  BY SMTT(30) DEF Init, Draining, Threads
<1>12. Fresh /\ Phases
  BY <1>6, SMTT(30) DEF Init, Fresh, Phases
<1>13. Lifecycle
  BY <1>7, StackFacts DEF Init, Lifecycle
<1>14. Holding
  BY <1>7, StackFacts DEF Init, Holding
<1>15. Closing
  BY <1>7 DEF Init, Closing, Idle
<1>16. Always
  BY SMTT(30) DEF Init, Always, RemovesChannel
<1>17. QED
  BY <1>5, <1>8, <1>9, <1>10, <1>11, <1>12, <1>13, <1>14, <1>15, <1>16 DEF ConnInv, Guarded

\* Every step keeps the invariant.
LEMMA ConnStep == ConnInv /\ Next => ConnInv'
<1> SUFFICES ASSUME ConnInv, Next PROVE ConnInv'
  OBVIOUS
<1>1. ~unguarded
  BY DEF Next, Unless
<1>2. /\ Types /\ StreamIntact /\ HighWaterNotified /\ WritingIffPending
      /\ Draining /\ Data(Undone) /\ Guarded
  BY <1>1 DEF ConnInv
<1>3. Types'
  <2>1. TypeControl' /\ TypeFlags' /\ TypeSeqs' /\ TypeNumbers'
    BY <1>1, <1>2, ControlStep, FlagsStep, SeqsStep, NumbersStep
  <2>2. QED
    BY <2>1 DEF Types
<1>4. StreamIntact' /\ Data(Undone)'
  <2>1. StreamFlow
    BY <1>2, FlowForm
  <2>2. FlowNext
    BY <1>1, <1>2, <2>1, StreamStep
  <2>3. StreamFlow'
    BY <2>2 DEF FlowNext, StreamFlow
  <2>4. (Types => (StreamIntact /\ Data(Undone) <=> StreamFlow))'
    BY FlowForm, PTL
  <2>5. QED
    BY <1>3, <2>3, <2>4
<1>5. HighWaterNotified'
  BY <1>1, <1>2, HighWaterStep
<1>6. WritingIffPending'
  BY <1>1, <1>2, WritingStep
<1>7. Draining'
  BY <1>1, <1>2, DrainingStep
<1>8. Fresh' /\ Phases' /\ Holding'
  BY <1>1, <1>2, FreshStep, PhasesStep, HoldingStep
<1>9. ~unguarded' => Lifecycle' /\ Closing'
  BY <1>1, <1>2, LifecycleStep, ClosingStep
<1>10. Always'
  BY <1>1, <1>2, <1>3, <1>8, <1>9, AlwaysStep
<1>11. QED
  BY <1>3, <1>4, <1>5, <1>6, <1>7, <1>8, <1>9, <1>10 DEF ConnInv, Guarded

\* A step of the rest of the system keeps it.
LEMMA ConnStutter == ConnInv /\ UNCHANGED vars => ConnInv'
<1> SUFFICES ASSUME ConnInv, UNCHANGED vars PROVE ConnInv'
  OBVIOUS
<1>1. /\ UNCHANGED <<state_, reading_, events, added, polled, outputBuffer_, pending, batch,
                     batchHolds>>
      /\ UNCHANGED <<lpc, frames, revents, owned, held, rpc, delayed>>
      /\ UNCHANGED <<room, wire, wclosed, peer, inbox, error>>
      /\ UNCHANGED <<fault, sent, calls, promised, unguarded, notified, ups, downs, destroys>>
  BY DEF vars
<1>2. Stream' = Stream /\ Undone' = Undone /\ Broken' = Broken
  BY <1>1 DEF Stream, Undone, Broken
<1>3. Types'
  BY <1>1, SMTT(30) DEF ConnInv, Types, TypeControl, TypeFlags, TypeSeqs, TypeNumbers
<1>4. StreamIntact' /\ Data(Undone)'
  <2>1. StreamFlow'
    BY <1>1, <1>2, FlowForm DEF ConnInv, StreamFlow
  <2>2. (Types => (StreamIntact /\ Data(Undone) <=> StreamFlow))'
    BY FlowForm, PTL
  <2>3. QED
    BY <1>3, <2>1, <2>2
<1>5. HighWaterNotified' /\ WritingIffPending'
  BY <1>1 DEF ConnInv, HighWaterNotified, WritingIffPending
<1>6. Draining'
  BY <1>1, <1>2 DEF ConnInv, Draining
<1>7. ASSUME ~unguarded PROVE Fresh' /\ Phases'
  BY <1>1, <1>2, <1>7 DEF ConnInv, Guarded, Fresh, Phases
<1>8. ASSUME ~unguarded PROVE Lifecycle'
  BY <1>1, <1>2, <1>8 DEF ConnInv, Guarded, Lifecycle
<1>9. ASSUME ~unguarded PROVE Holding' /\ Closing'
  BY <1>1, <1>2, <1>9 DEF ConnInv, Guarded, Holding, Closing
<1>10. unguarded' = unguarded
  BY <1>1
<1>11. Always'
  BY <1>1 DEF ConnInv, Always, RemovesChannel
<1>12. QED
  BY <1>3, <1>4, <1>5, <1>6, <1>7, <1>8, <1>9, <1>10, <1>11 DEF ConnInv, Guarded

\* The invariant holds in every state.
LEMMA ConnAlways == Spec => []ConnInv
<1>1. ConnInv /\ [Next]_vars => ConnInv'
  BY ConnStep, ConnStutter
<1>2. QED
  BY <1>1, ConnInit, PTL DEF Spec

\* No step of either thread, of the kernel or of the peer makes the connection
\* hold a value of the wrong kind: send-buffer room stays in its bounds over
\* partial writes, and the stack has only the frames the handlers leave.
THEOREM TypesCorrect == Spec => []TypeOK
<1>1. ConnInv => TypeOK
  BY TypesHold DEF ConnInv
<1>2. QED
  BY <1>1, ConnAlways, PTL

\* What send() promises, for messages, buffers and call numbers of any size: the
\* bytes of each thread reach the kernel in the order sent, none twice and none
\* missing before another, however direct writes, handleWrite() and functors
\* interleave.
THEOREM StreamNeverBroken == Spec => []StreamIntact
<1>1. ConnInv => StreamIntact
  BY DEF ConnInv
<1>2. QED
  BY <1>1, ConnAlways, PTL

\* sendInLoop() and handleWrite() keep the interest in POLLOUT equal to there
\* being output, so no byte is left behind and the loop does not spin.
THEOREM OutputWatched == Spec => []WritingIffPending
<1>1. ConnInv => WritingIffPending
  BY DEF ConnInv
<1>2. QED
  BY <1>1, ConnAlways, PTL

\* An output buffer at the high-water mark has had its callback queued by
\* sendInLoop(), since handleWrite() last took it below the mark.
THEOREM HighWaterReported == Spec => []HighWaterNotified
<1>1. ConnInv => HighWaterNotified
  BY DEF ConnInv
<1>2. QED
  BY <1>1, ConnAlways, PTL

\* A functor of connectDestroyed() has a shared_ptr.
LEMMA OneHolds ==
  ASSUME Types, One(Undone)
  PROVE  Holds(batch) \/ Holds(pending)
<1>1. batch \in Seq(Functor) /\ pending \in Seq(Functor)
  BY DEF Types, TypeSeqs
<1>2. /\ Len(batch) \in Nat /\ Len(pending) \in Nat /\ Len(Undone) = Len(batch) + Len(pending)
      /\ \A i \in 1 .. Len(batch) + Len(pending) :
           Undone[i] = IF i <= Len(batch) THEN batch[i] ELSE pending[i - Len(batch)]
  BY <1>1, ConcatProperties, LenProperties DEF Undone
<1>3. PICK i \in 1 .. Len(Undone) : Undone[i].op = "connectDestroyed"
  BY DEF One
<1>4. IsShared(Undone[i])
  BY <1>3 DEF IsShared, Shared
<1>5. CASE i <= Len(batch)
  <2>1. i \in 1 .. Len(batch) /\ Undone[i] = batch[i]
    BY <1>2, <1>3, <1>5, SMTT(30)
  <2>2. QED
    BY <1>4, <2>1 DEF Holds
<1>6. CASE ~(i <= Len(batch))
  <2>1. i - Len(batch) \in 1 .. Len(pending) /\ Undone[i] = pending[i - Len(batch)]
    BY <1>2, <1>3, <1>6, SMTT(30)
  <2>2. QED
    BY <1>4, <2>1 DEF Holds
<1>7. QED
  BY <1>5, <1>6

\* In every interleaving the connection goes up once and connectDestroyed() is
\* called at most once, and Channel::remove() finds events only on a connection
\* that was being shut down when its owner was destroyed.  Until one of the five
\* cases of Unless, it goes down at most once and the assertions of
\* Channel::remove(), ~TcpConnection() and ~Channel() hold.
THEOREM LifecycleKept == Spec => []LifecycleOnce
<1>1. ASSUME ConnInv, ~unguarded
      PROVE  /\ downs <= 1
             /\ RemovesChannel => events = {}
             /\ ~Referenced => state_ = "kDisconnected" /\ ~added
  <2>1. Types /\ Fresh /\ Lifecycle /\ Holding
    BY <1>1 DEF ConnInv, Guarded
  <2>2. downs <= 1
    BY <2>1, SMTT(30) DEF Lifecycle
  <2>3. ASSUME RemovesChannel PROVE events = {}
    <3>1. frames \in AtRemove
      BY <2>1, <2>3, StackReturns DEF Types, TypeControl, RemovesChannel
    <3>2. QED
      BY <2>1, <3>1 DEF Lifecycle
  <2>4. ASSUME ~Referenced PROVE state_ = "kDisconnected" /\ ~added
    <3>1. ~owned /\ ~batchHolds /\ ~Holds(pending)
      BY <2>4 DEF Referenced
    <3>2. state_ = "kDisconnected"
      BY <2>1, <3>1 DEF Lifecycle
    <3>3. ~Holds(batch) /\ frames \notin AtRemove
      BY <2>1, <3>1 DEF Holding
    <3>4. ~One(Undone)
      BY <2>1, <3>1, <3>3, OneHolds
    <3>5. ~added
      BY <2>1, <3>1, <3>3, <3>4 DEF Lifecycle
    <3>6. QED
      BY <3>2, <3>5
  <2>5. QED
    BY <2>2, <2>3, <2>4
<1>2. ConnInv => LifecycleOnce
  BY <1>1 DEF LifecycleOnce, ConnInv, Always
<1>3. QED
  BY <1>2, ConnAlways, PTL

\* shutdown() in the loop thread closes the write side only behind the bytes that
\* thread had sent, and is not forgotten when handleWrite() has to finish it.
THEOREM ShutdownKept == Spec => []ShutdownHonoured
<1>1. ASSUME ConnInv, wclosed, ~fault, downs = 0, promised[1] = "loop", NEW i \in 1 .. promised[2]
      PROVE  <<"loop", i>> \in Range(wire)
  <2>1. Types /\ Draining /\ Data(Undone)
    BY <1>1 DEF ConnInv
  <2>2. Complete(Stream, Undone, sent)
    BY <1>1, FlowForm DEF ConnInv, StreamFlow
  <2>3. Stream = wire
    BY <1>1, <2>1, TypesHold, SeqTypes DEF Draining
  <2>4. "loop" \in Threads /\ i \in 1 .. sent["loop"]
    <3>1. promised[2] \in Nat /\ sent["loop"] \in Nat /\ "loop" \in Threads
      BY <2>1 DEF Types, TypeNumbers, Byte, Threads
    <3>2. promised[2] <= sent["loop"]
      BY <1>1, <2>1 DEF Draining
    <3>3. QED
      BY <3>1, <3>2, SMTT(30)
  <2>5. \A j \in 1 .. Len(Undone) : <<"loop", i>> \notin Range(Undone[j].data)
    BY <2>1 DEF Data
  <2>6. QED
    BY <2>2, <2>3, <2>4, <2>5 DEF Complete
<1>2. ASSUME ConnInv, lpc = "poll", frames = <<>>, pending = <<>>, Ready = {}, rpc = Idle,
             ~delayed, room = SndBuf, state_ = "kDisconnecting", ~unguarded
      PROVE  wclosed
  <2>1. Types /\ Phases /\ Closing
    BY <1>2 DEF ConnInv, Guarded
  <2>2. batch = <<>>
    BY <1>2, <2>1 DEF Phases
  <2>3. Undone = <<>>
    BY <1>2, <2>1, <2>2, TypesHold, SeqTypes
  <2>4. ~ToClose(Undone)
    BY <2>3, EmptySeq, SMTT(30) DEF ToClose
  <2>5. "write" \notin events
    <3>1. room > 0
      BY <1>2, TcpConnectionAssumption, SMTT(30)
    <3>2. "write" \in events => "out" \in Ready
      BY <3>1 DEF Ready
    <3>3. QED
      BY <1>2, <3>2
  <2>6. rpc \notin Closers \X {"queue"}
    BY <1>2 DEF Idle, Closers
  <2>7. QED
    BY <1>2, <2>1, <2>4, <2>5, <2>6 DEF Closing
<1>3. ConnInv => ShutdownHonoured
  BY <1>1, <1>2 DEF ShutdownHonoured
<1>4. QED
  BY <1>3, ConnAlways, PTL

=============================================================================
