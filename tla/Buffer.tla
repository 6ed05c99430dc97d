-------------------------------- MODULE Buffer --------------------------------
(***************************************************************************)
(* muduo/net/Buffer.h and Buffer.cc: a vector with two indices.  Operations *)
(* are operators on records [v, r, w]: the vector buffer_, readerIndex_ and *)
(* writerIndex_.  Cell i of the vector is v[i + 1].                         *)
(***************************************************************************)
EXTENDS Integers, Sequences

CONSTANTS
  Byte,           \* values of a cell
  Data,           \* byte strings that are written
  Lens,           \* lengths that are read or reserved
  MaxContent,     \* bound on the readable bytes
  kCheapPrepend,
  kInitialSize,
  ExtraBuf        \* size of extrabuf in readFd()

ASSUME BufferAssumption ==
  /\ 0 \in Byte /\ Data \subseteq Seq(Byte) /\ Lens \subseteq Nat
  /\ kCheapPrepend \in Nat /\ kInitialSize \in Nat /\ ExtraBuf \in Nat

VARIABLES
  buf,            \* the Buffer
  content         \* history: the queue of bytes a Buffer stands for

bufferVars == <<buf, content>>

Buf(v, r, w) == [v |-> v, r |-> r, w |-> w]

ReadableBytes(b) == b.w - b.r
WritableBytes(b) == Len(b.v) - b.w
PrependableBytes(b) == b.r

\* toStringPiece(), peek()
Content(b) == SubSeq(b.v, b.r + 1, b.w)

\* Cells that vector::resize() adds.
Zeros(n) == [i \in 1 .. n |-> 0]

NewBuffer(initialSize) == Buf(Zeros(kCheapPrepend + initialSize), kCheapPrepend, kCheapPrepend)

\* std::copy() of data to the cells from at on
Copy(v, at, data) ==
  [i \in 1 .. Len(v) |-> IF i \in at + 1 .. at + Len(data) THEN data[i - at] ELSE v[i]]

\* Mutant of MakeSpace: the room in front is counted without what is kept there.
MakeSpaceTight(b, len) ==
  IF WritableBytes(b) + PrependableBytes(b) < len
  THEN Buf(b.v \o Zeros(b.w + len - Len(b.v)), b.r, b.w)
  ELSE Buf(Copy(b.v, kCheapPrepend, Content(b)), kCheapPrepend, kCheapPrepend + ReadableBytes(b))

\* makeSpace(): the vector grows, or the readable bytes move to the front.
MakeSpace(b, len) ==
  IF WritableBytes(b) + PrependableBytes(b) < len + kCheapPrepend
  THEN Buf(b.v \o Zeros(b.w + len - Len(b.v)), b.r, b.w)
  ELSE Buf(Copy(b.v, kCheapPrepend, Content(b)), kCheapPrepend, kCheapPrepend + ReadableBytes(b))

EnsureWritableBytes(b, len) == IF WritableBytes(b) < len THEN MakeSpace(b, len) ELSE b

\* append(), and a copy to beginWrite() followed by hasWritten()
AppendBytes(b, data) ==
  LET e == EnsureWritableBytes(b, Len(data))
  IN Buf(Copy(e.v, e.w, data), e.r, e.w + Len(data))

\* prepend()
PrependBytes(b, data) == Buf(Copy(b.v, b.r - Len(data), data), b.r - Len(data), b.w)

RetrieveAll(b) == Buf(b.v, kCheapPrepend, kCheapPrepend)

\* retrieve(), and the calls that retrieve a string or an integer
RetrieveBytes(b, len) ==
  IF len < ReadableBytes(b) THEN Buf(b.v, b.r + len, b.w) ELSE RetrieveAll(b)

UnwriteBytes(b, len) == Buf(b.v, b.r, b.w - len)

\* shrink()
Shrunk(b, reserve) ==
  AppendBytes(EnsureWritableBytes(NewBuffer(kInitialSize), ReadableBytes(b) + reserve), Content(b))

\* How much readFd() reads at most.
ReadMax(b) == WritableBytes(b) + (IF WritableBytes(b) < ExtraBuf THEN ExtraBuf ELSE 0)

\* Mutant of ReadInto: writerIndex_ stays where it was before extrabuf is appended.
ReadIntoExtra(b, data) ==
  LET writable == WritableBytes(b)
  IN IF Len(data) <= writable
     THEN Buf(Copy(b.v, b.w, data), b.r, b.w + Len(data))
     ELSE AppendBytes(Buf(Copy(b.v, b.w, SubSeq(data, 1, writable)), b.r, b.w),
                      SubSeq(data, writable + 1, Len(data)))

\* readFd() that gets data from readv()
ReadInto(b, data) ==
  LET writable == WritableBytes(b)
  IN IF Len(data) <= writable
     THEN Buf(Copy(b.v, b.w, data), b.r, b.w + Len(data))
     ELSE AppendBytes(Buf(Copy(b.v, b.w, SubSeq(data, 1, writable)), b.r, Len(b.v)),
                      SubSeq(data, writable + 1, Len(data)))

\* appendInt8() ... appendInt64(), prependInt*(): x in n bytes, two's complement,
\* network order
IntBytes(x, n) == [i \in 1 .. n |-> (x \div (256 ^ (n - i))) % 256]

-----------------------------------------------------------------------------
(* The operations, beside what they do to a queue of bytes.                 *)

BufferInit == buf = NewBuffer(kInitialSize) /\ content = <<>>

Fits(data) == Len(content) + Len(data) <= MaxContent

Append_(data) ==
  /\ Fits(data)
  /\ buf' = AppendBytes(buf, data)
  /\ content' = content \o data

Prepend(data) ==
  /\ Fits(data)
  /\ Len(data) <= PrependableBytes(buf)
  /\ buf' = PrependBytes(buf, data)
  /\ content' = data \o content

ReadFd(data) ==
  /\ Fits(data)
  /\ Len(data) <= ReadMax(buf)
  /\ buf' = ReadInto(buf, data)
  /\ content' = content \o data

Retrieve(n) ==
  /\ n <= ReadableBytes(buf)
  /\ buf' = RetrieveBytes(buf, n)
  /\ content' = SubSeq(content, n + 1, Len(content))

Unwrite(n) ==
  /\ n <= ReadableBytes(buf)
  /\ buf' = UnwriteBytes(buf, n)
  /\ content' = SubSeq(content, 1, Len(content) - n)

Reserve(n) ==
  /\ buf' = EnsureWritableBytes(buf, n)
  /\ UNCHANGED content

Shrink(n) ==
  /\ buf' = Shrunk(buf, n)
  /\ UNCHANGED content

BufferNext ==
  \/ \E data \in Data : Append_(data) \/ Prepend(data) \/ ReadFd(data)
  \/ \E n \in Lens : Retrieve(n) \/ Unwrite(n) \/ Reserve(n) \/ Shrink(n)

BufferSpec == BufferInit /\ [][BufferNext]_bufferVars

-----------------------------------------------------------------------------
(* Properties.                                                              *)

\* 0 <= readerIndex_ <= writerIndex_ <= size, as the picture in Buffer.h has it,
\* so that no operation touches a cell outside the vector.
IndicesOrdered ==
  /\ buf.v \in Seq(Byte)
  /\ buf.r \in Nat /\ buf.w \in Nat
  /\ buf.r <= buf.w /\ buf.w <= Len(buf.v)

\* The readable bytes are those that were written and not read yet, in order,
\* wherever makeSpace(), shrink() and readFd() have moved them.
ContentKept == Content(buf) = content
===============================================================================
