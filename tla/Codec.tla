-------------------------------- MODULE Codec --------------------------------
(***************************************************************************)
(* muduo/net/protobuf/ProtobufCodecLite.cc: messages as frames               *)
(*                                                                         *)
(*     length (4 bytes) | tag | payload | checksum (4 bytes)                *)
(*                                                                         *)
(* built in one Buffer and taken apart in the input buffer of a connection, *)
(* which gets the bytes in pieces of any size.                              *)
(***************************************************************************)
EXTENDS Buffer, FiniteSets, SequencesExt

CONSTANTS
  Tag,             \* tag_
  Payloads,        \* serialized messages
  Unparsable,      \* payloads that ParseFromArray() refuses
  Taken,           \* payloads of frames that rawCb_ keeps for itself
  kMaxMessageLen,
  MaxFrames        \* bound on the frames sent

VARIABLES
  wire,            \* bytes on their way
  inputBuffer_,    \* of the connection
  connected,       \* state_ of the connection is kConnected
  delivered,       \* history: payloads given to messageCallback_
  errors,          \* history: calls of errorCallback_
  frames           \* history: what was sent, [kind, payload, size]

codecVars == <<wire, inputBuffer_, connected, delivered, errors, frames>>

kHeaderLen == 4
kChecksumLen == 4
kMinMessageLen == Len(Tag) + kChecksumLen

\* zlib's adler32(1, data), as an int32_t
Checksum(data) ==
  LET a == FoldLeft(LAMBDA s, x : (s + x) % 65521, 1, data)
      b == FoldLeft(LAMBDA s, x : <<(s[1] + x) % 65521, (s[2] + s[1] + x) % 65521>>, <<1, 0>>, data)[2]
  IN (IF b < 32768 THEN b ELSE b - 65536) * 65536 + a

\* asInt32(), peekInt32()
AsInt32(b) ==
  (((IF b[1] < 128 THEN b[1] ELSE b[1] - 256) * 256 + b[2]) * 256 + b[3]) * 256 + b[4]

\* fillEmptyBuffer(): the frame of a payload with the given tag
FillEmptyBuffer(tag, payload) ==
  LET tagged == AppendBytes(NewBuffer(kInitialSize), tag)
      serialized == AppendBytes(EnsureWritableBytes(tagged, Len(payload) + kChecksumLen), payload)
      summed == AppendBytes(serialized, IntBytes(Checksum(Content(serialized)), 4))
  IN PrependBytes(summed, IntBytes(ReadableBytes(summed), 4))

ValidateChecksum(data) ==
  LET n == Len(data) - kChecksumLen
  IN Checksum(SubSeq(data, 1, n)) = AsInt32(SubSeq(data, n + 1, n + 4))

PayloadOf(data) == SubSeq(data, Len(Tag) + 1, Len(data) - kChecksumLen)

\* Mutant of Parse: the tag is not compared.
ParseAnyTag(data) ==
  CASE ~ ValidateChecksum(data) -> "kCheckSumError"
    [] ValidateChecksum(data) ->
         IF PayloadOf(data) \in Unparsable THEN "kParseError" ELSE "kNoError"

Parse(data) ==
  CASE ~ ValidateChecksum(data) -> "kCheckSumError"
    [] ValidateChecksum(data) /\ SubSeq(data, 1, Len(Tag)) # Tag -> "kUnknownMessageType"
    [] ValidateChecksum(data) /\ SubSeq(data, 1, Len(Tag)) = Tag ->
         IF PayloadOf(data) \in Unparsable THEN "kParseError" ELSE "kNoError"

\* onMessage(): st has the input buffer, what messageCallback_ was given and how
\* often errorCallback_ was called.
RECURSIVE OnMessage(_)
OnMessage(st) ==
  LET b == st.buf
      len == AsInt32(Content(b))
      data == SubSeq(Content(b), kHeaderLen + 1, kHeaderLen + len)
      rest == RetrieveBytes(b, kHeaderLen + len)
  IN IF ReadableBytes(b) < kMinMessageLen + kHeaderLen THEN st
     ELSE IF len > kMaxMessageLen \/ len < kMinMessageLen THEN [st EXCEPT !.errors = @ + 1]
     ELSE IF ReadableBytes(b) < kHeaderLen + len THEN st
     ELSE IF PayloadOf(data) \in Taken THEN OnMessage([st EXCEPT !.buf = rest])
     ELSE IF Parse(data) = "kNoError"
     THEN OnMessage([st EXCEPT !.buf = rest, !.out = Append(@, PayloadOf(data))])
     ELSE [st EXCEPT !.errors = @ + 1]

-----------------------------------------------------------------------------

CodecInit ==
  /\ wire = <<>> /\ inputBuffer_ = NewBuffer(kInitialSize) /\ connected = TRUE
  /\ delivered = <<>> /\ errors = 0 /\ frames = <<>>

Transmit(kind, payload, bytes) ==
  /\ Len(frames) < MaxFrames
  /\ wire' = wire \o bytes
  /\ frames' = Append(frames, [kind |-> kind, payload |-> payload, size |-> Len(bytes)])
  /\ UNCHANGED <<inputBuffer_, connected, delivered, errors>>

\* send()
Send(payload) == Transmit("good", payload, Content(FillEmptyBuffer(Tag, payload)))

\* A peer with another tag
SendForeign(payload) ==
  Transmit("foreign", payload, Content(FillEmptyBuffer([i \in DOMAIN Tag |-> 0], payload)))

\* A frame with its last byte damaged
SendDamaged(payload) ==
  LET bytes == Content(FillEmptyBuffer(Tag, payload))
  IN Transmit("damaged", payload, [bytes EXCEPT ![Len(bytes)] = (@ + 1) % 256])

\* A length that is negative, too small or too large
SendBadLength(len) ==
  /\ len > kMaxMessageLen \/ len < kMinMessageLen
  /\ Transmit("length", <<>>, IntBytes(len, 4) \o Tag \o IntBytes(0, 4))

\* handleRead() of the connection: n bytes are read, then onMessage() is called.
\* defaultErrorCallback() shuts the connection down.
HandleRead(n) ==
  LET st == OnMessage([buf |-> ReadInto(inputBuffer_, SubSeq(wire, 1, n)), out |-> delivered,
                       errors |-> errors])
  IN /\ n <= ReadMax(inputBuffer_)
     /\ wire' = SubSeq(wire, n + 1, Len(wire))
     /\ inputBuffer_' = st.buf /\ delivered' = st.out /\ errors' = st.errors
     /\ connected' = (connected /\ st.errors = errors)
     /\ UNCHANGED frames

CodecNext ==
  \/ \E p \in Payloads : Send(p) \/ SendForeign(p) \/ SendDamaged(p)
  \/ \E len \in {-1, 0, kMinMessageLen - 1, kMaxMessageLen + 1} : SendBadLength(len)
  \/ \E n \in 1 .. Len(wire) : HandleRead(n)

-----------------------------------------------------------------------------
(* Properties.                                                              *)

Size(n) == FoldLeft(LAMBDA s, f : s + f.size, 0, SubSeq(frames, 1, n))
Arrived == Size(Len(frames)) - Len(wire)
Passes(f) ==
  \/ f.kind = "good" /\ f.payload \notin Unparsable
  \/ f.kind # "length" /\ f.payload \in Taken

\* The frames that have arrived whole, with no bad one before them
Received ==
  {n \in 1 .. Len(frames) : Size(n) <= Arrived /\ \A m \in 1 .. n : Passes(frames[m])}

\* However the bytes are split, onMessage() has delivered exactly the messages
\* whose frames have arrived, in order; the first bad frame ends delivery for
\* good and the connection is shut down once it has arrived.
FramesIntact ==
  /\ delivered = SelectSeq([n \in 1 .. Cardinality(Received) |-> frames[n].payload],
                           LAMBDA p : p \notin Taken)
  /\ LET next == Cardinality(Received) + 1
     IN next <= Len(frames) /\ Size(next) <= Arrived => ~ connected
  /\ (\A n \in 1 .. Len(frames) : Passes(frames[n])) => errors = 0 /\ connected
===============================================================================
