------------------------------ MODULE NetProofs -------------------------------
(***************************************************************************)
(* Two classes of muduo/net that others are built on.                       *)
(*                                                                         *)
(* A Buffer is a queue of bytes, for every size of the vector, of the space *)
(* in front and of the stack buffer of readFd(), and for all data.  Lemmas  *)
(* about a vector v and two indices come first; then each operation has a   *)
(* lemma: it keeps a buffer well formed, and leaves the content that the    *)
(* operation on a queue would leave.                                        *)
(*                                                                         *)
(* An RpcChannel completes every call once, with its own response or an     *)
(* error, for any number of threads and calls, responses in any order and a *)
(* connection that may go down: an id stands for one call, and a message    *)
(* with that id for that call, until the response has come.                 *)
(***************************************************************************)
EXTENDS Buffer, FiniteSetTheorems, SequenceTheorems, TLAPS

\* The provers of a step that names none, with their time limits.
USE SMTT(30), ZenonT(30)

\* The cells between two indices
Slice(v, r, w) == SubSeq(v, r + 1, w)

\* A vector resized by n cells
Grown(v, n) == v \o Zeros(n)

\* A string without its first n bytes, and without its last n
DropFirst(s, n) == SubSeq(s, n + 1, Len(s))
DropLast(s, n) == SubSeq(s, 1, Len(s) - n)

\* Cells added by vector::resize() are bytes.
LEMMA ZerosAreBytes ==
  ASSUME NEW n \in Nat
  PROVE  Zeros(n) \in Seq(Byte) /\ Len(Zeros(n)) = n
  <1>1. 0 \in Byte
    BY BufferAssumption
  <1>2. Zeros(n) \in [1 .. n -> Byte]
    BY <1>1 DEF Zeros
  <1> QED
    BY <1>2, SMT

\* std::copy() within the vector changes the cells it writes, and no others.
LEMMA CopyCells ==
  ASSUME NEW v \in Seq(Byte), NEW data \in Seq(Byte), NEW at \in Nat,
         at + Len(data) <= Len(v)
  PROVE  /\ Copy(v, at, data) \in Seq(Byte)
         /\ Len(Copy(v, at, data)) = Len(v)
         /\ \A i \in 1 .. Len(v) :
              Copy(v, at, data)[i] = IF i \in at + 1 .. at + Len(data) THEN data[i - at] ELSE v[i]
  <1> DEFINE c == Copy(v, at, data)
  <1>1. \A i \in 1 .. Len(v) :
          (IF i \in at + 1 .. at + Len(data) THEN data[i - at] ELSE v[i]) \in Byte
    OBVIOUS
  <1>2. c \in [1 .. Len(v) -> Byte]
    BY <1>1 DEF Copy
  <1>3. c \in Seq(Byte) /\ Len(c) = Len(v)
    BY <1>2, Len(v) \in Nat
  <1> QED
    BY <1>3 DEF Copy

\* What a slice consists of.
LEMMA SliceCells ==
  ASSUME NEW v \in Seq(Byte), NEW r \in Nat, NEW w \in Nat, r <= w, w <= Len(v)
  PROVE  /\ Slice(v, r, w) \in Seq(Byte)
         /\ Len(Slice(v, r, w)) = w - r
         /\ \A i \in 1 .. w - r : Slice(v, r, w)[i] = v[r + i]
  <1>1. \A i \in r + 1 .. w : v[i] \in Byte
    OBVIOUS
  <1>2. /\ SubSeq(v, r + 1, w) \in Seq(Byte)
        /\ Len(SubSeq(v, r + 1, w)) = IF r + 1 <= w THEN w - (r + 1) + 1 ELSE 0
        /\ \A i \in 1 .. w - (r + 1) + 1 : SubSeq(v, r + 1, w)[i] = v[r + 1 + i - 1]
    BY <1>1, SubSeqProperties
  <1> QED
    BY <1>2 DEF Slice

\* A sequence with the same bytes is the slice.
LEMMA SliceIs ==
  ASSUME NEW v \in Seq(Byte), NEW r \in Nat, NEW w \in Nat, r <= w, w <= Len(v),
         NEW s \in Seq(Byte), Len(s) = w - r, \A i \in 1 .. w - r : s[i] = v[r + i]
  PROVE  Slice(v, r, w) = s
  <1>1. PICK t \in Seq(Byte) : /\ t = Slice(v, r, w) /\ Len(t) = w - r
                               /\ \A i \in 1 .. w - r : t[i] = v[r + i]
    BY SliceCells, ZenonT(30)
  <1>2. Len(t) = Len(s) /\ \A i \in 1 .. Len(t) : t[i] = s[i]
    BY <1>1
  <1> QED
    BY <1>1, <1>2, SeqEqual

\* Growing the vector leaves a slice as it is.
LEMMA SliceOfGrown ==
  ASSUME NEW v \in Seq(Byte), NEW r \in Nat, NEW w \in Nat, r <= w, w <= Len(v), NEW n \in Nat
  PROVE  /\ Grown(v, n) \in Seq(Byte)
         /\ Len(Grown(v, n)) = Len(v) + n
         /\ Slice(Grown(v, n), r, w) = Slice(v, r, w)
  <1> DEFINE z == Zeros(n)
             g == v \o z
             s == Slice(v, r, w)
  <1>1. z \in Seq(Byte) /\ Len(z) = n
    BY ZerosAreBytes
  <1>2. s \in Seq(Byte) /\ Len(s) = w - r /\ \A i \in 1 .. w - r : s[i] = v[r + i]
    BY SliceCells, ZenonT(30)
  <1> HIDE DEF z, s
  <1>3. /\ g \in Seq(Byte) /\ Len(g) = Len(v) + Len(z)
        /\ \A i \in 1 .. Len(v) + Len(z) : g[i] = IF i <= Len(v) THEN v[i] ELSE z[i - Len(v)]
    BY <1>1, ConcatProperties, ZenonT(30)
  <1> HIDE DEF g
  <1>4. ASSUME NEW i \in 1 .. w - r
        PROVE  s[i] = g[r + i]
    <2>1. r + i \in 1 .. Len(v) + Len(z) /\ r + i <= Len(v)
      BY <1>1
    <2> QED
      BY <1>2, <1>3, <2>1
  <1>5. w <= Len(g)
    BY <1>1, <1>3
  <1>6. Slice(g, r, w) = s
    BY <1>2, <1>3, <1>4, <1>5, SliceIs, ZenonT(30)
  <1> QED
    BY <1>1, <1>3, <1>6 DEF g, s, z, Grown

\* Moving a slice towards the front leaves it as it is.
LEMMA SliceMoved ==
  ASSUME NEW v \in Seq(Byte), NEW r \in Nat, NEW w \in Nat, r <= w, w <= Len(v),
         NEW p \in Nat, p <= r
  PROVE  /\ Copy(v, p, Slice(v, r, w)) \in Seq(Byte)
         /\ Len(Copy(v, p, Slice(v, r, w))) = Len(v)
         /\ Slice(Copy(v, p, Slice(v, r, w)), p, p + (w - r)) = Slice(v, r, w)
  <1> DEFINE s == Slice(v, r, w)
             c == Copy(v, p, s)
             q == p + (w - r)
  <1>1. s \in Seq(Byte) /\ Len(s) = w - r
    BY SliceCells
  <1> HIDE DEF s
  <1>2. p + Len(s) <= Len(v)
    BY <1>1
  <1>3. /\ c \in Seq(Byte) /\ Len(c) = Len(v)
        /\ \A i \in 1 .. Len(v) : c[i] = IF i \in p + 1 .. p + Len(s) THEN s[i - p] ELSE v[i]
    BY <1>1, <1>2, CopyCells
  <1> HIDE DEF c
  <1>4. q \in Nat /\ p <= q /\ q <= Len(c) /\ Len(s) = q - p
    BY <1>1, <1>3
  <1>5. ASSUME NEW i \in 1 .. q - p
        PROVE  s[i] = c[p + i]
    <2>1. p + i \in 1 .. Len(v) /\ p + i \in p + 1 .. p + Len(s) /\ p + i - p = i
      BY <1>1, <1>2
    <2> QED
      BY <1>3, <2>1
  <1> HIDE DEF q
  <1>6. Slice(c, p, q) = s
    BY <1>1, <1>3, <1>4, <1>5, SliceIs
  <1> QED
    BY <1>3, <1>6 DEF c, s, q

\* Data written behind a slice.
LEMMA SliceAppended ==
  ASSUME NEW v \in Seq(Byte), NEW r \in Nat, NEW w \in Nat, r <= w,
         NEW data \in Seq(Byte), w + Len(data) <= Len(v)
  PROVE  /\ Copy(v, w, data) \in Seq(Byte)
         /\ Len(Copy(v, w, data)) = Len(v)
         /\ Slice(Copy(v, w, data), r, w + Len(data)) = Slice(v, r, w) \o data
  <1> DEFINE s == Slice(v, r, w)
             c == Copy(v, w, data)
             t == s \o data
             q == w + Len(data)
  <1>1. w <= Len(v) /\ Len(data) \in Nat
    OBVIOUS
  <1>2. s \in Seq(Byte) /\ Len(s) = w - r /\ \A i \in 1 .. w - r : s[i] = v[r + i]
    BY <1>1, SliceCells, ZenonT(30)
  <1>3. /\ c \in Seq(Byte) /\ Len(c) = Len(v)
        /\ \A i \in 1 .. Len(v) : c[i] = IF i \in w + 1 .. w + Len(data) THEN data[i - w] ELSE v[i]
    BY CopyCells
  <1> HIDE DEF s, c
  <1>4. /\ t \in Seq(Byte) /\ Len(t) = Len(s) + Len(data)
        /\ \A i \in 1 .. Len(s) + Len(data) : t[i] = IF i <= Len(s) THEN s[i] ELSE data[i - Len(s)]
    BY <1>2, ConcatProperties, ZenonT(30)
  <1> HIDE DEF t
  <1>5. ASSUME NEW i \in 1 .. q - r
        PROVE  t[i] = c[r + i]
    <2>0. r + i \in 1 .. Len(v) /\ i \in 1 .. Len(s) + Len(data)
      BY <1>1, <1>2
    <2>1. CASE i <= w - r
      <3>1. t[i] = s[i]
        BY <1>2, <1>4, <2>0, <2>1
      <3>2. c[r + i] = v[r + i]
        BY <1>3, <2>0, <2>1
      <3> QED
        BY <1>2, <2>1, <3>1, <3>2
    <2>2. CASE ~ (i <= w - r)
      <3>1. t[i] = data[i - (w - r)]
        BY <1>2, <1>4, <2>0, <2>2
      <3>2. r + i \in w + 1 .. w + Len(data)
        BY <1>1, <2>2
      <3>3. c[r + i] = data[r + i - w]
        BY <1>3, <2>0, <3>2
      <3>4. i - (w - r) = r + i - w
        OBVIOUS
      <3> QED
        BY <3>1, <3>3, <3>4
    <2> QED
      BY <2>1, <2>2
  <1>6. q \in Nat /\ r <= q /\ q <= Len(c) /\ Len(t) = q - r
    BY <1>1, <1>2, <1>3, <1>4
  <1> HIDE DEF q
  <1>7. Slice(c, r, q) = t
    BY <1>3, <1>4, <1>5, <1>6, SliceIs
  <1> QED
    BY <1>3, <1>7 DEF s, c, t, q

\* Data written in front of a slice.
LEMMA SlicePrepended ==
  ASSUME NEW v \in Seq(Byte), NEW r \in Nat, NEW w \in Nat, r <= w, w <= Len(v),
         NEW data \in Seq(Byte), Len(data) <= r
  PROVE  /\ Copy(v, r - Len(data), data) \in Seq(Byte)
         /\ Len(Copy(v, r - Len(data), data)) = Len(v)
         /\ Slice(Copy(v, r - Len(data), data), r - Len(data), w) = data \o Slice(v, r, w)
  <1> DEFINE s == Slice(v, r, w)
             p == r - Len(data)
             c == Copy(v, p, data)
             t == data \o s
  <1>1. s \in Seq(Byte) /\ Len(s) = w - r /\ \A i \in 1 .. w - r : s[i] = v[r + i]
    BY SliceCells
  <1>2. p \in Nat /\ p + Len(data) = r /\ r <= Len(v) /\ Len(data) \in Nat
    OBVIOUS
  <1> HIDE DEF s, p
  <1>3. /\ c \in Seq(Byte) /\ Len(c) = Len(v)
        /\ \A i \in 1 .. Len(v) : c[i] = IF i \in p + 1 .. p + Len(data) THEN data[i - p] ELSE v[i]
    BY <1>2, CopyCells
  <1> HIDE DEF c
  <1>4. /\ t \in Seq(Byte) /\ Len(t) = Len(data) + Len(s)
        /\ \A i \in 1 .. Len(data) + Len(s) : t[i] = IF i <= Len(data) THEN data[i] ELSE s[i - Len(data)]
    BY <1>1, ConcatProperties
  <1> HIDE DEF t
  <1>5. ASSUME NEW i \in 1 .. w - p
        PROVE  t[i] = c[p + i]
    <2>0. p + i \in 1 .. Len(v) /\ i \in 1 .. Len(data) + Len(s)
      BY <1>1, <1>2
    <2>1. CASE i <= Len(data)
      <3>1. p + i \in p + 1 .. p + Len(data) /\ p + i - p = i
        BY <1>2, <2>1
      <3>2. t[i] = data[i]
        BY <1>4, <2>0, <2>1
      <3>3. PICK k \in 1 .. Len(v) : k = p + i
        BY <2>0
      <3>4. k \in p + 1 .. p + Len(data) /\ k - p = i
        BY <1>2, <3>1, <3>3
      <3>5. c[k] = data[k - p]
        BY <1>3, <3>4
      <3> QED
        BY <3>2, <3>3, <3>4, <3>5
    <2>2. CASE ~ (i <= Len(data))
      <3>0. t[i] = s[i - Len(data)]
        BY <1>4, <2>0, <2>2
      <3>1. i - Len(data) \in 1 .. w - r
        <4>1. Len(data) + Len(s) = Len(data) + (w - r)
          BY <1>1
        <4> QED
          BY <1>2, <2>0, <2>2, <4>1
      <3>2. c[p + i] = v[p + i]
        BY <1>2, <1>3, <2>0, <2>2
      <3>3. r + (i - Len(data)) = p + i
        BY <1>2
      <3> QED
        BY <1>1, <3>0, <3>1, <3>2, <3>3
    <2> QED
      BY <2>1, <2>2
  <1>6. p <= w /\ w <= Len(c) /\ Len(t) = w - p
    <2>1. Len(t) = Len(data) + (w - r) /\ Len(c) = Len(v)
      BY <1>1, <1>3, <1>4
    <2> QED
      BY <1>2, <2>1
  <1>7. Slice(c, p, w) = t
    <2>1. c \in Seq(Byte) /\ t \in Seq(Byte) /\ p \in Nat
      BY <1>2, <1>3, <1>4
    <2> QED
      BY <1>5, <1>6, <2>1, SliceIs
  <1> QED
    BY <1>3, <1>7 DEF s, p, c, t

\* A slice without its first n cells, and without its last n.
LEMMA SliceCut ==
  ASSUME NEW v \in Seq(Byte), NEW r \in Nat, NEW w \in Nat, r <= w, w <= Len(v),
         NEW n \in Nat, n <= w - r
  PROVE  /\ Slice(v, r + n, w) = DropFirst(Slice(v, r, w), n)
         /\ Slice(v, r, w - n) = DropLast(Slice(v, r, w), n)
  <1> DEFINE s == Slice(v, r, w)
             a == Slice(s, n, w - r)
             z == Slice(s, 0, w - r - n)
  <1>1. s \in Seq(Byte) /\ Len(s) = w - r /\ \A i \in 1 .. w - r : s[i] = v[r + i]
    BY SliceCells, ZenonT(30)
  <1> HIDE DEF s
  <1>2. /\ w - r \in Nat /\ w - r - n \in Nat /\ r + n \in Nat /\ w - n \in Nat /\ 0 \in Nat
        /\ 0 <= w - r - n /\ w - r - n <= w - r
    OBVIOUS
  <1>3. /\ a \in Seq(Byte) /\ Len(a) = (w - r) - n
        /\ \A i \in 1 .. (w - r) - n : a[i] = s[n + i]
    <2>1. n <= w - r /\ w - r <= Len(s)
      BY <1>1, <1>2
    <2> QED
      BY <1>1, <1>2, <2>1, SliceCells, ZenonT(30)
  <1>4. /\ z \in Seq(Byte) /\ Len(z) = (w - r - n) - 0
        /\ \A i \in 1 .. (w - r - n) - 0 : z[i] = s[0 + i]
    <2>1. w - r - n <= Len(s)
      BY <1>1, <1>2
    <2> QED
      BY <1>1, <1>2, <2>1, SliceCells, ZenonT(30)
  <1> HIDE DEF a, z
  <1>5. ASSUME NEW i \in 1 .. w - (r + n)
        PROVE  a[i] = v[r + n + i]
    <2>1. n + i \in 1 .. w - r /\ i \in 1 .. (w - r) - n /\ r + (n + i) = r + n + i
      BY <1>2
    <2> QED
      BY <1>1, <1>3, <2>1, ZenonT(30)
  <1>6. ASSUME NEW i \in 1 .. (w - n) - r
        PROVE  z[i] = v[r + i]
    <2>1. i \in 1 .. w - r /\ i \in 1 .. (w - r - n) - 0 /\ 0 + i = i
      BY <1>2
    <2> QED
      BY <1>1, <1>4, <2>1
  <1>7. Slice(v, r + n, w) = a
    <2>1. r + n <= w /\ Len(a) = w - (r + n)
      BY <1>2, <1>3
    <2> QED
      BY <1>2, <1>3, <1>5, <2>1, SliceIs, ZenonT(30)
  <1>8. Slice(v, r, w - n) = z
    <2>1. r <= w - n /\ w - n <= Len(v) /\ Len(z) = (w - n) - r
      BY <1>2, <1>4
    <2> QED
      BY <1>2, <1>4, <1>6, <2>1, SliceIs, ZenonT(30)
  <1>9. a = DropFirst(s, n) /\ z = DropLast(s, n)
    BY <1>1 DEF a, z, Slice, DropFirst, DropLast
  <1> QED
    BY <1>7, <1>8, <1>9 DEF s

-----------------------------------------------------------------------------
(* The operations.                                                          *)

WellFormed(b) ==
  /\ b = Buf(b.v, b.r, b.w)
  /\ b.v \in Seq(Byte) /\ b.r \in Nat /\ b.w \in Nat
  /\ b.r <= b.w /\ b.w <= Len(b.v)
  /\ kCheapPrepend <= Len(b.v)

\* A buffer is well formed when its vector and indices are.
LEMMA BufIs ==
  ASSUME NEW v \in Seq(Byte), NEW r \in Nat, NEW w \in Nat, r <= w, w <= Len(v),
         kCheapPrepend <= Len(v)
  PROVE  /\ WellFormed(Buf(v, r, w))
         /\ Content(Buf(v, r, w)) = Slice(v, r, w)
         /\ Buf(v, r, w).v = v /\ Buf(v, r, w).r = r /\ Buf(v, r, w).w = w
         /\ WritableBytes(Buf(v, r, w)) = Len(v) - w
  <1>1. Buf(v, r, w).v = v /\ Buf(v, r, w).r = r /\ Buf(v, r, w).w = w
    BY DEF Buf
  <1> QED
    BY <1>1 DEF WellFormed, Content, Slice, WritableBytes

\* Buffer(initialSize) is empty and has initialSize writable bytes.
LEMMA NewBufferEmpty ==
  ASSUME NEW n \in Nat
  PROVE  WellFormed(NewBuffer(n)) /\ Content(NewBuffer(n)) = <<>> /\ WritableBytes(NewBuffer(n)) = n
  <1> DEFINE z == Zeros(kCheapPrepend + n)
  <1>1. kCheapPrepend \in Nat /\ kCheapPrepend + n \in Nat
    BY BufferAssumption
  <1>2. z \in Seq(Byte) /\ Len(z) = kCheapPrepend + n
    BY <1>1, ZerosAreBytes
  <1> HIDE DEF z
  <1>3. kCheapPrepend <= kCheapPrepend /\ kCheapPrepend <= Len(z) /\ Len(z) - kCheapPrepend = n
    BY <1>1, <1>2
  <1>4. /\ WellFormed(Buf(z, kCheapPrepend, kCheapPrepend))
        /\ Content(Buf(z, kCheapPrepend, kCheapPrepend)) = Slice(z, kCheapPrepend, kCheapPrepend)
        /\ WritableBytes(Buf(z, kCheapPrepend, kCheapPrepend)) = n
    BY <1>1, <1>2, <1>3, BufIs
  <1>5. Slice(z, kCheapPrepend, kCheapPrepend) = <<>>
    <2>1. /\ Slice(z, kCheapPrepend, kCheapPrepend) \in Seq(Byte)
          /\ Len(Slice(z, kCheapPrepend, kCheapPrepend)) = kCheapPrepend - kCheapPrepend
      BY <1>1, <1>2, <1>3, SliceCells
    <2> QED
      BY <1>1, <2>1, EmptySeq
  <1> QED
    BY <1>4, <1>5 DEF NewBuffer, z

\* makeSpace(), called when the writable bytes do not suffice, keeps the content
\* and makes room for len bytes.  When it moves the content it moves it towards
\* the front, as its assertion has it (kCheapPrepend < readerIndex_).
LEMMA MakeSpaceKeeps ==
  ASSUME NEW b, WellFormed(b), NEW len \in Nat, WritableBytes(b) < len
  PROVE  /\ WellFormed(MakeSpace(b, len))
         /\ Content(MakeSpace(b, len)) = Content(b)
         /\ len <= WritableBytes(MakeSpace(b, len))
         /\ MakeSpace(b, len).r # b.r => kCheapPrepend < b.r
  <1> DEFINE v == b.v
             r == b.r
             w == b.w
             s == Slice(v, r, w)
  <1>1. v \in Seq(Byte) /\ Len(v) \in Nat /\ r \in Nat /\ w \in Nat /\ r <= w /\ w <= Len(v)
    BY DEF WellFormed
  <1>2. kCheapPrepend \in Nat /\ kCheapPrepend <= Len(v) /\ Len(v) - w < len
    BY BufferAssumption DEF WellFormed, WritableBytes
  <1>3. Content(b) = s
    BY DEF Content, Slice
  <1>4. MakeSpace(b, len) =
          IF (Len(v) - w) + r < len + kCheapPrepend
          THEN Buf(Grown(v, w + len - Len(v)), r, w)
          ELSE Buf(Copy(v, kCheapPrepend, s), kCheapPrepend, kCheapPrepend + (w - r))
    BY DEF MakeSpace, Grown, WritableBytes, PrependableBytes, ReadableBytes, Content, Slice
  <1>5. b.r = r
    OBVIOUS
  <1> HIDE DEF v, r, w
  <1>6. CASE (Len(v) - w) + r < len + kCheapPrepend
    <2> DEFINE n == w + len - Len(v)
               g == Grown(v, n)
    <2>0. n \in Nat
      BY <1>1, <1>2
    <2>1. (Len(v) + n) - w = len
      BY <1>1, <1>2
    <2>2. MakeSpace(b, len) = Buf(g, r, w)
      BY <1>4, <1>6
    <2> HIDE DEF n
    <2>3. g \in Seq(Byte) /\ Len(g) = Len(v) + n /\ Slice(g, r, w) = s
      <3>1. Grown(v, n) \in Seq(Byte)
        BY <1>1, <2>0, SliceOfGrown
      <3>2. Len(Grown(v, n)) = Len(v) + n
        BY <1>1, <2>0, SliceOfGrown, ZenonT(30)
      <3>3. Slice(Grown(v, n), r, w) = Slice(v, r, w)
        BY <1>1, <2>0, SliceOfGrown
      <3> QED
        BY <3>1, <3>2, <3>3
    <2> HIDE DEF g, s
    <2>4. w <= Len(g) /\ kCheapPrepend <= Len(g) /\ len <= Len(g) - w
      BY <1>1, <1>2, <2>0, <2>1, <2>3
    <2>5. /\ WellFormed(Buf(g, r, w))
          /\ Content(Buf(g, r, w)) = Slice(g, r, w)
          /\ Buf(g, r, w).r = r
          /\ WritableBytes(Buf(g, r, w)) = Len(g) - w
      BY <1>1, <2>3, <2>4, BufIs
    <2> QED
      BY <1>3, <1>5, <2>2, <2>3, <2>4, <2>5
  <1>7. CASE ~ ((Len(v) - w) + r < len + kCheapPrepend)
    <2> DEFINE c == Copy(v, kCheapPrepend, s)
               q == kCheapPrepend + (w - r)
    <2>1. kCheapPrepend < r
      BY <1>1, <1>2, <1>7
    <2>2. q \in Nat /\ kCheapPrepend <= q /\ q <= Len(v) /\ len <= Len(v) - q
      BY <1>1, <1>2, <1>7
    <2>3. MakeSpace(b, len) = Buf(c, kCheapPrepend, q)
      BY <1>4, <1>7
    <2>4. c \in Seq(Byte) /\ Len(c) = Len(v) /\ Slice(c, kCheapPrepend, q) = s
      <3>1. kCheapPrepend <= r
        BY <1>1, <1>2, <2>1
      <3> QED
        BY <1>1, <1>2, <3>1, SliceMoved
    <2> HIDE DEF c, s, q
    <2>5. q <= Len(c) /\ kCheapPrepend <= Len(c) /\ len <= Len(c) - q
      BY <1>2, <2>2, <2>4
    <2>6. /\ WellFormed(Buf(c, kCheapPrepend, q))
          /\ Content(Buf(c, kCheapPrepend, q)) = Slice(c, kCheapPrepend, q)
          /\ WritableBytes(Buf(c, kCheapPrepend, q)) = Len(c) - q
      BY <1>2, <2>2, <2>4, <2>5, BufIs
    <2> QED
      BY <1>3, <1>5, <2>1, <2>3, <2>4, <2>5, <2>6
  <1> QED
    BY <1>6, <1>7

\* ensureWritableBytes() does what its name says, and keeps the content.
LEMMA EnsureKeeps ==
  ASSUME NEW b, WellFormed(b), NEW len \in Nat
  PROVE  /\ WellFormed(EnsureWritableBytes(b, len))
         /\ Content(EnsureWritableBytes(b, len)) = Content(b)
         /\ len <= WritableBytes(EnsureWritableBytes(b, len))
  <1>1. CASE WritableBytes(b) < len
    BY <1>1, MakeSpaceKeeps DEF EnsureWritableBytes
  <1>2. CASE ~ (WritableBytes(b) < len)
    <2>1. WritableBytes(b) \in Int
      BY DEF WellFormed, WritableBytes
    <2> QED
      BY <1>2, <2>1 DEF EnsureWritableBytes
  <1> QED
    BY <1>1, <1>2

\* A copy to beginWrite(), and hasWritten()
Written(b, data) == Buf(Copy(b.v, b.w, data), b.r, b.w + Len(data))

\* Bytes written from beginWrite() on, within the writable bytes, follow the content.
LEMMA WrittenAppends ==
  ASSUME NEW b, WellFormed(b), NEW data \in Seq(Byte), Len(data) <= WritableBytes(b)
  PROVE  /\ WellFormed(Written(b, data))
         /\ Content(Written(b, data)) = Content(b) \o data
         /\ WritableBytes(Written(b, data)) = WritableBytes(b) - Len(data)
  <1> DEFINE v == b.v
             r == b.r
             w == b.w
             c == Copy(v, w, data)
             q == w + Len(data)
  <1>1. Written(b, data) = Buf(c, r, q) /\ Content(b) = Slice(v, r, w) /\ WritableBytes(b) = Len(v) - w
    BY DEF Written, Content, Slice, WritableBytes
  <1>2. v \in Seq(Byte) /\ Len(v) \in Nat /\ r \in Nat /\ w \in Nat /\ r <= w /\ w <= Len(v)
    BY DEF WellFormed
  <1>3. kCheapPrepend <= Len(v) /\ Len(data) \in Nat /\ Len(data) <= Len(v) - w
    BY DEF WellFormed, WritableBytes
  <1> HIDE DEF v, r, w
  <1>4. w + Len(data) <= Len(v) /\ q \in Nat /\ r <= q
    BY <1>2, <1>3
  <1>5. c \in Seq(Byte) /\ Len(c) = Len(v) /\ Slice(c, r, q) = Slice(v, r, w) \o data
    BY <1>2, <1>4, SliceAppended
  <1> HIDE DEF c
  <1>6. q <= Len(c) /\ kCheapPrepend <= Len(c) /\ Len(c) - q = (Len(v) - w) - Len(data)
    BY <1>2, <1>3, <1>4, <1>5
  <1> HIDE DEF q
  <1>7. /\ WellFormed(Buf(c, r, q)) /\ Content(Buf(c, r, q)) = Slice(c, r, q)
        /\ WritableBytes(Buf(c, r, q)) = Len(c) - q
    <2>1. c \in Seq(Byte) /\ r \in Nat /\ q \in Nat /\ r <= q
      BY <1>2, <1>4, <1>5
    <2> QED
      BY <1>6, <2>1, BufIs
  <1> QED
    BY <1>1, <1>5, <1>6, <1>7

\* append(): the bytes follow the content.
LEMMA AppendAppends ==
  ASSUME NEW b, WellFormed(b), NEW data \in Seq(Byte)
  PROVE  /\ WellFormed(AppendBytes(b, data))
         /\ Content(AppendBytes(b, data)) = Content(b) \o data
  <1> DEFINE e == EnsureWritableBytes(b, Len(data))
  <1>1. Len(data) \in Nat
    OBVIOUS
  <1>2. WellFormed(e) /\ Content(e) = Content(b) /\ Len(data) <= WritableBytes(e)
    BY <1>1, EnsureKeeps
  <1>3. AppendBytes(b, data) = Written(e, data)
    BY DEF AppendBytes, Written
  <1> HIDE DEF e
  <1>4. WellFormed(Written(e, data)) /\ Content(Written(e, data)) = Content(e) \o data
    BY <1>2, WrittenAppends, ZenonT(30)
  <1> QED
    BY <1>2, <1>3, <1>4

\* The content of a buffer is a sequence of bytes.
LEMMA ContentIsBytes ==
  ASSUME NEW b, WellFormed(b)
  PROVE  Content(b) \in Seq(Byte) /\ Len(Content(b)) = ReadableBytes(b) /\ ReadableBytes(b) \in Nat
  <1>1. b.v \in Seq(Byte) /\ b.r \in Nat /\ b.w \in Nat /\ b.r <= b.w /\ b.w <= Len(b.v)
    BY DEF WellFormed
  <1>2. Slice(b.v, b.r, b.w) \in Seq(Byte) /\ Len(Slice(b.v, b.r, b.w)) = b.w - b.r
    BY <1>1, SliceCells, ZenonT(30)
  <1> QED
    BY <1>1, <1>2 DEF Content, Slice, ReadableBytes

\* prepend(), within the prependable bytes: the bytes come before the content.
LEMMA PrependPrepends ==
  ASSUME NEW b, WellFormed(b), NEW data \in Seq(Byte), Len(data) <= PrependableBytes(b)
  PROVE  /\ WellFormed(PrependBytes(b, data))
         /\ Content(PrependBytes(b, data)) = data \o Content(b)
  <1> DEFINE v == b.v
             r == b.r
             w == b.w
             p == r - Len(data)
             c == Copy(v, p, data)
  <1>1. PrependBytes(b, data) = Buf(c, p, w) /\ Content(b) = Slice(v, r, w)
    BY DEF PrependBytes, Content, Slice
  <1>2. /\ v \in Seq(Byte) /\ Len(v) \in Nat /\ r \in Nat /\ w \in Nat /\ r <= w /\ w <= Len(v)
        /\ kCheapPrepend <= Len(v) /\ Len(data) \in Nat /\ Len(data) <= r
    BY DEF WellFormed, PrependableBytes
  <1> HIDE DEF v, r, w
  <1>3. p \in Nat /\ p <= w
    BY <1>2
  <1>4. c \in Seq(Byte) /\ Len(c) = Len(v) /\ Slice(c, p, w) = data \o Slice(v, r, w)
    BY <1>2, SlicePrepended
  <1> HIDE DEF c, p
  <1>5. w <= Len(c) /\ kCheapPrepend <= Len(c)
    BY <1>2, <1>4
  <1>6. WellFormed(Buf(c, p, w)) /\ Content(Buf(c, p, w)) = Slice(c, p, w)
    BY <1>2, <1>3, <1>4, <1>5, BufIs
  <1> QED
    BY <1>1, <1>4, <1>6

\* retrieve(), within the readable bytes: the first bytes go.  When all of them
\* go the indices return to kCheapPrepend.
LEMMA RetrieveRetrieves ==
  ASSUME NEW b, WellFormed(b), NEW n \in Nat, n <= ReadableBytes(b)
  PROVE  /\ WellFormed(RetrieveBytes(b, n))
         /\ Content(RetrieveBytes(b, n)) = DropFirst(Content(b), n)
  <1> DEFINE v == b.v
             r == b.r
             w == b.w
  <1>1. Content(b) = Slice(v, r, w)
    BY DEF Content, Slice
  <1>2. RetrieveBytes(b, n) = IF n < w - r THEN Buf(v, r + n, w)
                              ELSE Buf(v, kCheapPrepend, kCheapPrepend)
    BY DEF RetrieveBytes, RetrieveAll, ReadableBytes
  <1>3. /\ v \in Seq(Byte) /\ Len(v) \in Nat /\ r \in Nat /\ w \in Nat /\ r <= w /\ w <= Len(v)
        /\ n <= w - r
    BY DEF WellFormed, ReadableBytes
  <1>4. kCheapPrepend \in Nat /\ kCheapPrepend <= Len(v) /\ kCheapPrepend <= kCheapPrepend
    BY BufferAssumption DEF WellFormed
  <1> HIDE DEF v, r, w
  <1>5. Len(Slice(v, r, w)) = w - r
    BY <1>3, SliceCells
  <1>6. Slice(v, r + n, w) = DropFirst(Slice(v, r, w), n)
    BY <1>3, SliceCut
  <1>7. r + n \in Nat /\ r + n <= w
    BY <1>3
  <1>8. CASE n < w - r
    <2>1. WellFormed(Buf(v, r + n, w)) /\ Content(Buf(v, r + n, w)) = Slice(v, r + n, w)
      BY <1>3, <1>4, <1>7, BufIs
    <2> QED
      BY <1>1, <1>2, <1>5, <1>6, <1>8, <2>1
  <1>9. CASE ~ (n < w - r)
    <2>1. /\ WellFormed(Buf(v, kCheapPrepend, kCheapPrepend))
          /\ Content(Buf(v, kCheapPrepend, kCheapPrepend)) = Slice(v, kCheapPrepend, kCheapPrepend)
      BY <1>3, <1>4, BufIs
    <2>2. /\ Slice(v, kCheapPrepend, kCheapPrepend) \in Seq(Byte)
          /\ Len(Slice(v, kCheapPrepend, kCheapPrepend)) = kCheapPrepend - kCheapPrepend
      BY <1>3, <1>4, SliceCells, ZenonT(30)
    <2>3. /\ Slice(v, r + n, w) \in Seq(Byte)
          /\ Len(Slice(v, r + n, w)) = w - (r + n)
      BY <1>3, <1>7, SliceCells, ZenonT(30)
    <2>4. kCheapPrepend - kCheapPrepend = 0 /\ w - (r + n) = 0
      BY <1>3, <1>4, <1>9
    <2>5. Slice(v, kCheapPrepend, kCheapPrepend) = <<>> /\ Slice(v, r + n, w) = <<>>
      BY <2>2, <2>3, <2>4, EmptySeq
    <2> QED
      BY <1>1, <1>2, <1>5, <1>6, <1>9, <2>1, <2>5
  <1> QED
    BY <1>8, <1>9

\* unwrite(), within the readable bytes: the last bytes go.
LEMMA UnwriteUnwrites ==
  ASSUME NEW b, WellFormed(b), NEW n \in Nat, n <= ReadableBytes(b)
  PROVE  /\ WellFormed(UnwriteBytes(b, n))
         /\ Content(UnwriteBytes(b, n)) = DropLast(Content(b), n)
  <1> DEFINE v == b.v
             r == b.r
             w == b.w
  <1>1. Content(b) = Slice(v, r, w) /\ UnwriteBytes(b, n) = Buf(v, r, w - n)
    BY DEF Content, Slice, UnwriteBytes
  <1>2. /\ v \in Seq(Byte) /\ Len(v) \in Nat /\ r \in Nat /\ w \in Nat /\ r <= w /\ w <= Len(v)
        /\ n <= w - r
    BY DEF WellFormed, ReadableBytes
  <1>3. kCheapPrepend <= Len(v)
    BY DEF WellFormed
  <1> HIDE DEF v, r, w
  <1>4. Slice(v, r, w - n) = DropLast(Slice(v, r, w), n)
    BY <1>2, SliceCut
  <1>5. w - n \in Nat /\ r <= w - n /\ w - n <= Len(v)
    BY <1>2
  <1>6. WellFormed(Buf(v, r, w - n)) /\ Content(Buf(v, r, w - n)) = Slice(v, r, w - n)
    BY <1>2, <1>3, <1>5, BufIs
  <1> QED
    BY <1>1, <1>4, <1>6

\* A string cut in two at n, and put together again.
LEMMA CutAndJoined ==
  ASSUME NEW data \in Seq(Byte), NEW n \in Nat, n <= Len(data)
  PROVE  /\ Slice(data, 0, n) \in Seq(Byte) /\ Len(Slice(data, 0, n)) = n
         /\ DropFirst(data, n) \in Seq(Byte)
         /\ Slice(data, 0, n) \o DropFirst(data, n) = data
  <1>1. Len(data) \in Nat /\ 0 <= n /\ Len(data) <= Len(data) /\ n - 0 = n
    OBVIOUS
  <1>2. Slice(data, 0, n) \in Seq(Byte) /\ Len(Slice(data, 0, n)) = n - 0
    BY <1>1, SliceCells, ZenonT(30)
  <1>3. Slice(data, n, Len(data)) \in Seq(Byte)
    BY <1>1, SliceCells, ZenonT(30)
  <1>4. SubSeq(data, 1, n) \o SubSeq(data, n + 1, Len(data)) = SubSeq(data, 1, Len(data))
    <2>1. 1 \in 1 .. Len(data) + 1 /\ n \in 1 - 1 .. Len(data) /\ Len(data) \in n .. Len(data)
      BY <1>1
    <2> QED
      BY <2>1, ConcatAdjacentSubSeq, ZenonT(30)
  <1>5. SubSeq(data, 1, Len(data)) = data
    BY SubSeqFull
  <1>6. Slice(data, 0, n) = SubSeq(data, 1, n) /\ Slice(data, n, Len(data)) = DropFirst(data, n)
    BY DEF Slice, DropFirst
  <1> QED
    BY <1>1, <1>2, <1>3, <1>4, <1>5, <1>6, ZenonT(30) DEF DropFirst

\* readFd(): what readv() put behind writerIndex_ and what it put into extrabuf
\* follow the content, in this order.
LEMMA ReadIntoAppends ==
  ASSUME NEW b, WellFormed(b), NEW data \in Seq(Byte)
  PROVE  /\ WellFormed(ReadInto(b, data))
         /\ Content(ReadInto(b, data)) = Content(b) \o data
  <1> DEFINE n == WritableBytes(b)
  <1>1. n \in Nat /\ Len(data) \in Nat /\ b.w + n = Len(b.v)
    BY DEF WellFormed, WritableBytes
  <1>2. CASE Len(data) <= n
    <2>1. ReadInto(b, data) = Written(b, data)
      BY <1>2 DEF ReadInto, Written
    <2> QED
      BY <1>2, <2>1, WrittenAppends
  <1>3. CASE ~ (Len(data) <= n)
    <2> DEFINE first == Slice(data, 0, n)
               rest == DropFirst(data, n)
               f == Written(b, first)
    <2>1. n <= Len(data) /\ n <= n
      BY <1>1, <1>3
    <2>2. first \in Seq(Byte) /\ Len(first) = n /\ rest \in Seq(Byte) /\ first \o rest = data
      BY <1>1, <2>1, CutAndJoined, ZenonT(30)
    <2>3. ReadInto(b, data) = AppendBytes(f, rest)
      <3>1. f = Buf(Copy(b.v, b.w, SubSeq(data, 1, n)), b.r, Len(b.v))
        BY <1>1, <2>2 DEF Written, Slice
      <3> QED
        BY <1>3, <3>1 DEF ReadInto, DropFirst
    <2> HIDE DEF first, rest, n
    <2>4. WellFormed(f) /\ Content(f) = Content(b) \o first
      BY <2>1, <2>2, WrittenAppends DEF n
    <2> HIDE DEF f
    <2>5. WellFormed(AppendBytes(f, rest)) /\ Content(AppendBytes(f, rest)) = Content(f) \o rest
      BY <2>2, <2>4, AppendAppends, ZenonT(30)
    <2>6. (Content(b) \o first) \o rest = Content(b) \o (first \o rest)
      <3>1. Content(b) \in Seq(Byte)
        BY ContentIsBytes
      <3>2. first \in Seq(Byte) /\ rest \in Seq(Byte)
        BY <2>2
      <3> QED
        BY <3>1, <3>2, ConcatAssociative
    <2> QED
      BY <2>2, <2>3, <2>4, <2>5, <2>6
  <1> QED
    BY <1>2, <1>3

\* shrink(): another buffer with the same content.
LEMMA ShrunkKeeps ==
  ASSUME NEW b, WellFormed(b), NEW n \in Nat
  PROVE  WellFormed(Shrunk(b, n)) /\ Content(Shrunk(b, n)) = Content(b)
  <1> DEFINE e == EnsureWritableBytes(NewBuffer(kInitialSize), ReadableBytes(b) + n)
  <1>1. Content(b) \in Seq(Byte) /\ ReadableBytes(b) + n \in Nat /\ kInitialSize \in Nat
    BY ContentIsBytes, BufferAssumption
  <1>2. WellFormed(e) /\ Content(e) = <<>>
    BY <1>1, NewBufferEmpty, EnsureKeeps
  <1>3. Shrunk(b, n) = AppendBytes(e, Content(b))
    BY DEF Shrunk
  <1> HIDE DEF e
  <1>4. /\ WellFormed(AppendBytes(e, Content(b)))
        /\ Content(AppendBytes(e, Content(b))) = Content(e) \o Content(b)
    BY <1>1, <1>2, AppendAppends, ZenonT(30)
  <1> QED
    BY <1>1, <1>2, <1>3, <1>4, ConcatEmptySeq

-----------------------------------------------------------------------------
(* The specification.                                                       *)

\* The indices are ordered, the vector never gets smaller than the space in
\* front (retrieveAll() relies on it), and the content is the queue's.
BufferInv == WellFormed(buf) /\ ContentKept

\* Every operation of Buffer, called as its assertions demand, keeps the
\* buffer well formed and does to the content what it would do to a queue.
THEOREM BufferInvariant == BufferSpec => []BufferInv
  <1>1. BufferInit => BufferInv
    <2>1. kInitialSize \in Nat
      BY BufferAssumption
    <2> QED
      BY <2>1, NewBufferEmpty DEF BufferInit, BufferInv, ContentKept
  <1>2. BufferInv /\ [BufferNext]_bufferVars => BufferInv'
    <2> SUFFICES ASSUME BufferInv, [BufferNext]_bufferVars
                 PROVE  BufferInv'
      OBVIOUS
    <2>0. WellFormed(buf) /\ Content(buf) = content
      BY DEF BufferInv, ContentKept
    <2> SUFFICES WellFormed(buf') /\ Content(buf') = content'
      BY DEF BufferInv, ContentKept, WellFormed, Content, Buf
    <2>1. ASSUME NEW data \in Data, Append_(data)
          PROVE  WellFormed(buf') /\ Content(buf') = content'
      BY <2>0, <2>1, AppendAppends, BufferAssumption, ZenonT(30) DEF Append_
    <2>2. ASSUME NEW data \in Data, Prepend(data)
          PROVE  WellFormed(buf') /\ Content(buf') = content'
      BY <2>0, <2>2, PrependPrepends, BufferAssumption, ZenonT(30) DEF Prepend
    <2>3. ASSUME NEW data \in Data, ReadFd(data)
          PROVE  WellFormed(buf') /\ Content(buf') = content'
      BY <2>0, <2>3, ReadIntoAppends, BufferAssumption, ZenonT(30) DEF ReadFd
    <2>4. ASSUME NEW n \in Lens, Retrieve(n)
          PROVE  WellFormed(buf') /\ Content(buf') = content'
      BY <2>0, <2>4, RetrieveRetrieves, BufferAssumption DEF Retrieve, DropFirst
    <2>5. ASSUME NEW n \in Lens, Unwrite(n)
          PROVE  WellFormed(buf') /\ Content(buf') = content'
      BY <2>0, <2>5, UnwriteUnwrites, BufferAssumption DEF Unwrite, DropLast
    <2>6. ASSUME NEW n \in Lens, Reserve(n)
          PROVE  WellFormed(buf') /\ Content(buf') = content'
      BY <2>0, <2>6, EnsureKeeps, BufferAssumption DEF Reserve
    <2>7. ASSUME NEW n \in Lens, Shrink(n)
          PROVE  WellFormed(buf') /\ Content(buf') = content'
      BY <2>0, <2>7, ShrunkKeeps, BufferAssumption DEF Shrink
    <2>8. CASE UNCHANGED bufferVars
      BY <2>0, <2>8 DEF bufferVars
    <2> QED
      BY <2>1, <2>2, <2>3, <2>4, <2>5, <2>6, <2>7, <2>8 DEF BufferNext
  <1> QED
    BY <1>1, <1>2, PTL DEF BufferSpec

\* 0 <= readerIndex_ <= writerIndex_ <= size() at all times, as Buffer.h draws
\* it, so that no operation touches a cell outside of the vector.
THEOREM BufferIndicesOrdered == BufferSpec => []IndicesOrdered
  <1>1. BufferInv => IndicesOrdered
    BY DEF BufferInv, WellFormed, IndicesOrdered
  <1> QED
    BY <1>1, BufferInvariant, PTL

\* A Buffer is a queue: the readable bytes are the ones written and not read
\* yet, in order, whatever makeSpace(), shrink() and readFd() have moved.
THEOREM BufferIsQueue == BufferSpec => []ContentKept
  <1>1. BufferInv => ContentKept
    BY DEF BufferInv
  <1> QED
    BY <1>1, BufferInvariant, PTL

-----------------------------------------------------------------------------
(* RpcChannel.                                                             *)

CONSTANTS Callers, MaxCalls
VARIABLES id_, outstandings_, cpc, cid, made, requests, replies, serving, up, alive, ran, deleted

Rpc == INSTANCE RpcChannel

\* Calls are counted.
CallsCounted == MaxCalls \in Nat

Members(s) == {s[i] : i \in 1 .. Len(s)}
Message == [id : 1 .. id_, call : Rpc!Calls]
Reply == [id : 1 .. id_, reply : Rpc!Calls \cup {Rpc!Error}]
Busy == {c \in Callers : cpc[c] # "idle"}
Latest(c) == <<c, made[c]>>

RpcTypes ==
  /\ Rpc!TypeOK
  /\ requests \in Seq(Message) /\ replies \in Seq(Reply)
  /\ ran \in Seq(Rpc!Calls \X (Rpc!Calls \cup {Rpc!Error})) /\ deleted \subseteq Rpc!Calls

\* Which id goes with which call, as far as anything tells.
Pairs ==
  outstandings_ \cup {<<r.id, r.call>> : r \in Members(requests)} \cup {<<s.id, s.call>> : s \in serving}
    \cup {<<r.id, r.reply>> : r \in {q \in Members(replies) : q.reply # Rpc!Error}}

\* The ids of the messages on their way.
MessageIds ==
  {r.id : r \in Members(requests)} \cup {s.id : s \in serving} \cup {r.id : r \in Members(replies)}

\* An id stands for one call, and a call has one id.
OneToOne == \A p, q \in Pairs : p[1] = q[1] <=> p[2] = q[2]

\* What has an id, or was run, was made.
OnlyMade ==
  /\ \A p \in Pairs : p[2][2] <= made[p[2][1]]
  /\ \A call \in Rpc!RanCalls : call[2] <= made[call[1]]

\* The id of a call that is being made is its own, and not in any message yet.
BusyInv ==
  \A c \in Busy :
    /\ cid[c] \in 1 .. id_ /\ made[c] \in 1 .. MaxCalls /\ cid[c] \notin MessageIds
    /\ \A d \in Busy : cid[c] = cid[d] => c = d
    /\ IF cpc[c] = "insert"
       THEN /\ \A p \in Pairs : p[1] # cid[c] /\ p[2] # Latest(c)
            /\ Latest(c) \notin Rpc!RanCalls
       ELSE <<cid[c], Latest(c)>> \in outstandings_

\* A call runs once: it is not outstanding any more.
RanOnce ==
  /\ \A i, j \in 1 .. Len(ran) : ran[i][1] = ran[j][1] => i = j
  /\ \A i \in 1 .. Len(ran) : ran[i][2] \in {ran[i][1], Rpc!Error}
  /\ \A o \in outstandings_ : o[2] \notin Rpc!RanCalls

\* A call that was made was run or is outstanding, or will be in a moment.
NoneForgotten ==
  \A c \in Callers : \A k \in 1 .. made[c] :
    \/ <<c, k>> \in Rpc!RanCalls \/ \E o \in outstandings_ : o[2] = <<c, k>>
    \/ k = made[c] /\ cpc[c] = "insert"

\* After the connection nothing is on its way, and after the channel nothing moves.
EndInv ==
  /\ ~ up => requests = <<>> /\ replies = <<>> /\ serving = {}
  /\ IF alive THEN deleted = {}
     ELSE ~ up /\ Busy = {} /\ deleted = {o[2] : o \in outstandings_}

\* Where an outstanding call is.
Underway(o) ==
  \/ \E c \in Callers : cpc[c] = "send" /\ o = <<cid[c], Latest(c)>>
  \/ [id |-> o[1], call |-> o[2]] \in serving
  \/ [id |-> o[1], call |-> o[2]] \in Members(requests)
  \/ \E r \in Members(replies) : r.id = o[1] /\ r.reply \in {o[2], Rpc!Error}

AllUnderway == up => \A o \in outstandings_ : Underway(o)

RpcInv ==
  /\ RpcTypes /\ OneToOne /\ OnlyMade /\ BusyInv /\ RanOnce /\ NoneForgotten /\ EndInv
  /\ AllUnderway

-----------------------------------------------------------------------------
\* What Append() adds to the members.
LEMMA MembersAppend ==
  ASSUME NEW S, NEW s \in Seq(S), NEW x \in S
  PROVE  /\ Append(s, x) \in Seq(S) /\ Members(Append(s, x)) = Members(s) \cup {x}
  <1> DEFINE t == Append(s, x)
  <1>1. t \in Seq(S) /\ Len(t) = Len(s) + 1 /\ t[Len(s) + 1] = x /\ \A i \in 1 .. Len(s) : t[i] = s[i]
    BY AppendProperties
  <1>2. Len(s) \in Nat
    OBVIOUS
  <1> HIDE DEF t
  <1>3. ASSUME NEW y \in Members(t) PROVE y \in Members(s) \cup {x}
    BY <1>1, <1>2, <1>3 DEF Members
  <1>4. ASSUME NEW y \in Members(s) \cup {x} PROVE y \in Members(t)
    BY <1>1, <1>2, <1>4 DEF Members
  <1> QED
    BY <1>1, <1>3, <1>4 DEF t

\* What Head() and Tail() split the members into.
LEMMA MembersSplit ==
  ASSUME NEW S, NEW s \in Seq(S), s # <<>>
  PROVE  Head(s) \in S /\ Tail(s) \in Seq(S) /\ Members(s) = {Head(s)} \cup Members(Tail(s))
  <1> DEFINE t == Tail(s)
             h == Head(s)
  <1>1. /\ h \in S /\ t \in Seq(S) /\ Len(t) = Len(s) - 1 /\ Len(s) \in Nat /\ Len(s) > 0
        /\ h = s[1] /\ \A i \in 1 .. Len(t) : t[i] = s[i + 1]
    BY HeadTailProperties
  <1> HIDE DEF t, h
  <1>2. ASSUME NEW y \in Members(s) PROVE y \in {h} \cup Members(t)
    <2> PICK i \in 1 .. Len(s) : y = s[i]
      BY <1>2 DEF Members
    <2>1. CASE i = 1
      BY <2>1, <1>1
    <2>2. CASE i # 1
      <3>1. i - 1 \in 1 .. Len(t) /\ t[i - 1] = s[i]
        BY <2>2, <1>1
      <3> QED
        BY <3>1 DEF Members
    <2> QED
      BY <2>1, <2>2
  <1>3. ASSUME NEW y \in {h} \cup Members(t) PROVE y \in Members(s)
    BY <1>1, <1>3 DEF Members
  <1> QED
    BY <1>1, <1>2, <1>3 DEF t, h

\* The members of a sequence over a set are in the set.
LEMMA MembersIn == ASSUME NEW S, NEW s \in Seq(S) PROVE Members(s) \subseteq S
  BY DEF Members

\* Nothing is in an empty sequence.
LEMMA MembersEmpty == Members(<<>>) = {}
  BY DEF Members

\* The calls that were run are the members of ran.
LEMMA RanMembers == Rpc!RanCalls = {r[1] : r \in Members(ran)}
  BY DEF Rpc!RanCalls, Members

\* Error is no call.
LEMMA ErrorNoCall == Rpc!Error \notin Rpc!Calls
  BY DEF Rpc!Error, Rpc!Calls

-----------------------------------------------------------------------------
\* The steps of the network: messages go on or are dropped.
NetworkMoves ==
  /\ UNCHANGED <<id_, outstandings_, Rpc!caller, alive, ran, deleted>>
  /\ requests' \in Seq(Message) /\ replies' \in Seq(Reply) /\ serving' \subseteq Message
  /\ up' \in BOOLEAN /\ Pairs' \subseteq Pairs /\ MessageIds' \subseteq MessageIds
  /\ ~ up' => requests' = <<>> /\ replies' = <<>> /\ serving' = {}
  /\ ~ up => ~ up'
  /\ AllUnderway'

\* A step of the server or of the connection keeps the invariant: the client has
\* nothing to do with it, and no message gets an id or a call it did not have.
LEMMA NetworkKeeps ==
  ASSUME RpcInv, NetworkMoves
  PROVE  RpcInv'
  <1>1. UNCHANGED <<id_, outstandings_, cpc, cid, made, alive, ran, deleted, Rpc!RanCalls, Busy,
                    Message, Reply>>
    BY DEF NetworkMoves, Rpc!caller, Rpc!RanCalls, Busy, Message, Reply
  <1>2. RpcTypes'
    BY <1>1 DEF RpcInv, RpcTypes, Rpc!TypeOK, NetworkMoves, Message, Reply
  <1>3. Pairs' \subseteq Pairs /\ MessageIds' \subseteq MessageIds
    BY DEF NetworkMoves
  <1>4. OneToOne'
    BY <1>3, ZenonT(30) DEF RpcInv, OneToOne
  <1>5. OnlyMade'
    BY <1>1, <1>3, ZenonT(30) DEF RpcInv, OnlyMade
  <1>6. \A c \in Callers : Latest(c)' = Latest(c)
    BY <1>1 DEF Latest
  <1>7. BusyInv'
    <2> SUFFICES ASSUME NEW c \in Busy
                 PROVE  /\ cid[c] \in 1 .. id_ /\ made[c] \in 1 .. MaxCalls /\ cid[c] \notin MessageIds'
                        /\ \A d \in Busy : cid[c] = cid[d] => c = d
                        /\ IF cpc[c] = "insert"
                           THEN /\ \A p \in Pairs' : p[1] # cid[c] /\ p[2] # Latest(c)
                                /\ Latest(c) \notin Rpc!RanCalls
                           ELSE <<cid[c], Latest(c)>> \in outstandings_
      BY <1>1, ZenonT(30) DEF BusyInv, Latest
    <2> QED
      BY <1>3 DEF RpcInv, BusyInv
  <1>8. RanOnce' /\ NoneForgotten'
    BY <1>1, ZenonT(30) DEF RpcInv, RanOnce, NoneForgotten
  <1>9. EndInv'
    BY <1>1 DEF RpcInv, EndInv, NetworkMoves
  <1> QED
    BY <1>2, <1>4, <1>5, <1>7, <1>8, <1>9 DEF RpcInv, NetworkMoves

\* onRpcMessage(), a request: the server gives it to a service, or refuses it.
LEMMA ServeKeeps == ASSUME RpcInv, Rpc!Serve \/ Rpc!Refuse PROVE RpcInv'
  <1> DEFINE h == Head(requests)
             t == Tail(requests)
  <1>t. requests \in Seq(Message) /\ replies \in Seq(Reply) /\ serving \subseteq Message
    BY DEF RpcInv, RpcTypes, Rpc!TypeOK, Message
  <1>1. /\ requests # <<>> /\ requests' = t /\ up' = up
        /\ UNCHANGED <<id_, outstandings_, Rpc!caller, alive, ran, deleted>>
    BY DEF Rpc!Serve, Rpc!Refuse
  <1>2. up
    BY <1>1 DEF RpcInv, EndInv
  <1>3. h \in Message /\ t \in Seq(Message) /\ Members(requests) = {h} \cup Members(t)
    BY <1>1, <1>t, MembersSplit, SMTT(30)
  <1>4. UNCHANGED <<cpc, cid, made>>
    BY <1>1 DEF Rpc!caller
  <1>5. [id |-> h.id, call |-> h.call] = h
    BY <1>3 DEF Message
  <1> HIDE DEF h, t
  <1>6. CASE Rpc!Serve
    <2>1. serving' = serving \cup {h} /\ replies' = replies
      BY <1>6 DEF Rpc!Serve, h
    <2>2. Pairs' \subseteq Pairs /\ MessageIds' \subseteq MessageIds
      BY <1>1, <1>3, <2>1 DEF Pairs, MessageIds
    <2>3. AllUnderway'
      <3> SUFFICES ASSUME NEW o \in outstandings_ PROVE Underway(o)'
        BY <1>1 DEF AllUnderway
      <3>1. Underway(o)
        BY <1>2 DEF RpcInv, AllUnderway
      <3> QED
        BY <3>1, <1>1, <1>3, <1>4, <2>1 DEF Underway, Latest
    <2> QED
      BY <1>1, <1>2, <1>3, <1>t, <2>1, <2>2, <2>3, NetworkKeeps DEF NetworkMoves
  <1>7. CASE Rpc!Refuse
    <2> DEFINE e == [id |-> h.id, reply |-> Rpc!Error]
    <2>1. serving' = serving /\ replies' = Append(replies, e)
      BY <1>7 DEF Rpc!Refuse, h
    <2>2. e \in Reply /\ e.id = h.id /\ e.reply = Rpc!Error
      BY <1>3 DEF Reply, Message
    <2> HIDE DEF e
    <2>3. replies' \in Seq(Reply) /\ Members(replies') = Members(replies) \cup {e}
      BY <2>1, <2>2, <1>t, MembersAppend, SMTT(30)
    <2>4. Pairs' \subseteq Pairs /\ MessageIds' \subseteq MessageIds
      BY <1>1, <1>3, <2>1, <2>2, <2>3 DEF Pairs, MessageIds
    <2>5. AllUnderway'
      <3> SUFFICES ASSUME NEW o \in outstandings_ PROVE Underway(o)'
        BY <1>1 DEF AllUnderway
      <3>1. Underway(o)
        BY <1>2 DEF RpcInv, AllUnderway
      <3>2. CASE [id |-> o[1], call |-> o[2]] = h
        <4>1. e.id = o[1] /\ e \in Members(replies')
          BY <3>2, <2>2, <2>3
        <4> QED
          BY <4>1, <2>2 DEF Underway
      <3>3. CASE [id |-> o[1], call |-> o[2]] # h
        BY <3>1, <3>3, <1>1, <1>3, <1>4, <2>1, <2>3 DEF Underway, Latest
      <3> QED
        BY <3>2, <3>3
    <2> QED
      BY <1>1, <1>2, <1>3, <1>t, <2>1, <2>3, <2>4, <2>5, NetworkKeeps DEF NetworkMoves
  <1> QED
    BY <1>6, <1>7

\* doneCallback(): the answer of a service goes out.
LEMMA DoneKeeps == ASSUME RpcInv, NEW s \in serving, Rpc!DoneCallback(s) PROVE RpcInv'
  <1> DEFINE e == [id |-> s.id, reply |-> s.call]
  <1>t. requests \in Seq(Message) /\ replies \in Seq(Reply) /\ serving \subseteq Message
    BY DEF RpcInv, RpcTypes, Rpc!TypeOK, Message
  <1>1. /\ up /\ up' /\ requests' = requests /\ serving' = serving \ {s} /\ replies' = Append(replies, e)
        /\ UNCHANGED <<id_, outstandings_, Rpc!caller, alive, ran, deleted>>
    BY DEF Rpc!DoneCallback
  <1>2. s.call \in Rpc!Calls /\ s = [id |-> s.id, call |-> s.call] /\ e \in Reply
    BY <1>t DEF Message, Reply
  <1>3. e.id = s.id /\ e.reply = s.call /\ e.reply # Rpc!Error
    BY <1>2, ErrorNoCall
  <1>4. UNCHANGED <<cpc, cid, made>>
    BY <1>1 DEF Rpc!caller
  <1> HIDE DEF e
  <1>5. replies' \in Seq(Reply) /\ Members(replies') = Members(replies) \cup {e}
    BY <1>1, <1>2, <1>t, MembersAppend, SMTT(30)
  <1>6. Pairs' \subseteq Pairs /\ MessageIds' \subseteq MessageIds
    BY <1>1, <1>3, <1>5 DEF Pairs, MessageIds
  <1>7. AllUnderway'
    <2> SUFFICES ASSUME NEW o \in outstandings_ PROVE Underway(o)'
      BY <1>1 DEF AllUnderway
    <2>1. Underway(o)
      BY <1>1 DEF RpcInv, AllUnderway
    <2>2. CASE [id |-> o[1], call |-> o[2]] = s
      <3>1. e.id = o[1] /\ e.reply = o[2] /\ e \in Members(replies')
        BY <2>2, <1>3, <1>5
      <3> QED
        BY <3>1 DEF Underway
    <2>3. CASE [id |-> o[1], call |-> o[2]] # s
      BY <2>1, <2>3, <1>1, <1>4, <1>5 DEF Underway, Latest
    <2> QED
      BY <2>2, <2>3
  <1> QED
    BY <1>1, <1>t, <1>5, <1>6, <1>7, NetworkKeeps DEF NetworkMoves

\* The connection goes down.
LEMMA DownKeeps == ASSUME RpcInv, Rpc!Down PROVE RpcInv'
  <1>1. /\ up' = FALSE /\ requests' = <<>> /\ replies' = <<>> /\ serving' = {}
        /\ UNCHANGED <<id_, outstandings_, Rpc!caller, alive, ran, deleted>>
    BY DEF Rpc!Down
  <1>2. Pairs' \subseteq Pairs /\ MessageIds' \subseteq MessageIds
    BY <1>1, MembersEmpty DEF Pairs, MessageIds
  <1>3. requests' \in Seq(Message) /\ replies' \in Seq(Reply) /\ serving' \subseteq Message
    BY <1>1, EmptySeq
  <1>4. AllUnderway'
    BY <1>1 DEF AllUnderway
  <1> QED
    BY <1>1, <1>2, <1>3, <1>4, NetworkKeeps DEF NetworkMoves

-----------------------------------------------------------------------------
\* A sequence over a set is one over a larger set.
LEMMA SeqWider == ASSUME NEW S, NEW T, S \subseteq T, NEW s \in Seq(S) PROVE s \in Seq(T)
  OBVIOUS

\* What the pairs and the ids are, and what was run.
LEMMA PairTypes ==
  ASSUME RpcTypes
  PROVE  /\ Pairs \subseteq (1 .. id_) \X Rpc!Calls /\ MessageIds \subseteq 1 .. id_
         /\ Rpc!RanCalls \subseteq Rpc!Calls
  <1>1. Members(requests) \subseteq Message /\ Members(replies) \subseteq Reply /\ serving \subseteq Message
    <2>1. requests \in Seq(Message) /\ replies \in Seq(Reply)
      BY DEF RpcTypes
    <2>2. serving \subseteq Message
      BY DEF RpcTypes, Rpc!TypeOK, Message
    <2> QED
      BY <2>1, <2>2, MembersIn, ZenonT(30)
  <1>2. outstandings_ \subseteq (1 .. id_) \X Rpc!Calls
    BY DEF RpcTypes, Rpc!TypeOK
  <1>3. \A r \in Message : r.id \in 1 .. id_ /\ r.call \in Rpc!Calls
    BY DEF Message
  <1>4. \A r \in Reply : r.id \in 1 .. id_ /\ (r.reply # Rpc!Error => r.reply \in Rpc!Calls)
    BY DEF Reply
  <1>5. Pairs \subseteq (1 .. id_) \X Rpc!Calls
    BY <1>1, <1>2, <1>3, <1>4 DEF Pairs
  <1>6. MessageIds \subseteq 1 .. id_
    BY <1>1, <1>3, <1>4 DEF MessageIds
  <1>7. Rpc!RanCalls \subseteq Rpc!Calls
    <2> SUFFICES ASSUME NEW i \in 1 .. Len(ran) PROVE ran[i][1] \in Rpc!Calls
      BY DEF Rpc!RanCalls
    <2>1. ran[i] \in Rpc!Calls \X (Rpc!Calls \cup {Rpc!Error})
      BY DEF RpcTypes
    <2> QED
      BY <2>1
  <1> QED
    BY <1>5, <1>6, <1>7

\* A call is a caller and a number.
LEMMA CallParts ==
  ASSUME CallsCounted, NEW call \in Rpc!Calls
  PROVE  call[1] \in Callers /\ call[2] \in 1 .. MaxCalls /\ call = <<call[1], call[2]>>
  BY DEF Rpc!Calls

\* CallMethod() takes its id: nothing has it yet.
LEMMA CallMethodKeeps ==
  ASSUME CallsCounted, RpcInv, NEW c \in Callers, Rpc!CallMethod(c)
  PROVE  RpcInv'
  <1>t. /\ id_ \in Nat /\ made \in [Callers -> 0 .. MaxCalls] /\ cid \in [Callers -> 0 .. id_]
        /\ cpc \in [Callers -> {"idle", "insert", "send"}] /\ MaxCalls \in Nat
    BY DEF RpcInv, RpcTypes, Rpc!TypeOK, CallsCounted
  <1>1. /\ alive /\ cpc[c] = "idle" /\ made[c] < MaxCalls /\ id_' = id_ + 1
        /\ cid' = [cid EXCEPT ![c] = id_ + 1] /\ made' = [made EXCEPT ![c] = @ + 1]
        /\ cpc' = [cpc EXCEPT ![c] = "insert"]
        /\ UNCHANGED <<outstandings_, requests, replies, serving, up, alive, ran, deleted>>
    BY DEF Rpc!CallMethod, Rpc!NewId, Rpc!network
  <1>2. /\ cid'[c] = id_ + 1 /\ made'[c] = made[c] + 1 /\ cpc'[c] = "insert"
        /\ \A d \in Callers \ {c} : cid'[d] = cid[d] /\ made'[d] = made[d] /\ cpc'[d] = cpc[d]
    BY <1>1, <1>t
  <1>3. Pairs' = Pairs /\ MessageIds' = MessageIds /\ Rpc!RanCalls' = Rpc!RanCalls
    BY <1>1 DEF Pairs, MessageIds, Rpc!RanCalls
  <1>4. /\ Pairs \subseteq (1 .. id_) \X Rpc!Calls /\ MessageIds \subseteq 1 .. id_
        /\ Rpc!RanCalls \subseteq Rpc!Calls
    BY PairTypes DEF RpcInv
  <1>5. Busy' = Busy \cup {c} /\ c \notin Busy
    BY <1>1, <1>2 DEF Busy
  <1>6. \A d \in Callers \ {c} : Latest(d)' = Latest(d)
    BY <1>2 DEF Latest
  <1>7. Latest(c)' = <<c, made[c] + 1>>
    BY <1>2 DEF Latest
  <1>8. RpcTypes'
    <2>1. Message \subseteq Message' /\ Reply \subseteq Reply'
      BY <1>1, <1>t DEF Message, Reply
    <2>2. requests' \in Seq(Message') /\ replies' \in Seq(Reply')
      <3>1. requests \in Seq(Message) /\ replies \in Seq(Reply)
        BY DEF RpcInv, RpcTypes
      <3> QED
        BY <1>1, <2>1, <3>1, SeqWider, ZenonT(30)
    <2>3. Rpc!TypeOK'
      <3>1. made' \in [Callers -> 0 .. MaxCalls] /\ cid' \in [Callers -> 0 .. id_']
        BY <1>1, <1>t
      <3>2. serving' \subseteq Message'
        BY <1>1, <2>1 DEF RpcInv, RpcTypes, Rpc!TypeOK, Message
      <3>3. outstandings_' \subseteq (1 .. id_') \X Rpc!Calls
        BY <1>1, <1>t DEF RpcInv, RpcTypes, Rpc!TypeOK
      <3> QED
        BY <1>1, <1>t, <3>1, <3>2, <3>3 DEF RpcInv, RpcTypes, Rpc!TypeOK, Message
    <2> QED
      BY <1>1, <2>2, <2>3 DEF RpcInv, RpcTypes
  <1>9. OneToOne'
    BY <1>3, ZenonT(30) DEF RpcInv, OneToOne
  <1>10. \A call \in Rpc!Calls :
           call[2] <= made[call[1]] => call[2] <= made'[call[1]] /\ call # <<c, made[c] + 1>>
    <2> SUFFICES ASSUME NEW call \in Rpc!Calls, call[2] <= made[call[1]]
                 PROVE  call[2] <= made'[call[1]] /\ call # <<c, made[c] + 1>>
      OBVIOUS
    <2>1. call[1] \in Callers /\ call[2] \in 1 .. MaxCalls
      BY CallParts
    <2>2. made[c] \in Nat /\ made[call[1]] \in Nat
      BY <2>1, <1>t
    <2>3. CASE call[1] = c
      BY <2>1, <2>2, <2>3, <1>2
    <2>4. CASE call[1] # c
      <3>1. call # <<c, made[c] + 1>>
        BY <2>4
      <3> QED
        BY <3>1, <2>1, <2>4, <1>2
    <2> QED
      BY <2>3, <2>4
  <1>11. \A p \in Pairs : p[1] \in 1 .. id_ /\ p[2] \in Rpc!Calls /\ p[2][2] <= made[p[2][1]]
    BY <1>4 DEF RpcInv, OnlyMade
  <1>12. \A call \in Rpc!RanCalls : call \in Rpc!Calls /\ call[2] <= made[call[1]]
    BY <1>4 DEF RpcInv, OnlyMade
  <1>13. OnlyMade'
    BY <1>3, <1>10, <1>11, <1>12, ZenonT(30) DEF OnlyMade
  <1>14. BusyInv'
    <2> DEFINE B(d) == /\ cid'[d] \in 1 .. id_' /\ made'[d] \in 1 .. MaxCalls /\ cid'[d] \notin MessageIds
                       /\ \A e \in Busy' : cid'[d] = cid'[e] => d = e
                       /\ IF cpc'[d] = "insert"
                          THEN /\ \A p \in Pairs : p[1] # cid'[d] /\ p[2] # Latest(d)'
                               /\ Latest(d)' \notin Rpc!RanCalls
                          ELSE <<cid'[d], Latest(d)'>> \in outstandings_
    <2>1. \A d \in Busy : cid[d] \in 1 .. id_ /\ d \in Callers /\ d # c
      BY <1>5 DEF RpcInv, BusyInv, Busy
    <2>2. B(c)
      <3>1. cid'[c] \in 1 .. id_' /\ made'[c] \in 1 .. MaxCalls /\ cid'[c] \notin MessageIds
        BY <1>1, <1>2, <1>4, <1>t
      <3>2. ASSUME NEW e \in Busy', cid'[c] = cid'[e] PROVE c = e
        <4> SUFFICES ASSUME e # c PROVE FALSE
          OBVIOUS
        <4>1. e \in Busy
          BY <1>5
        <4>2. cid[e] \in 1 .. id_ /\ cid'[e] = cid[e]
          BY <4>1, <2>1, <1>2
        <4> QED
          BY <4>2, <3>2, <1>2, <1>t
      <3>3. \A p \in Pairs : p[1] # cid'[c] /\ p[2] # Latest(c)'
        BY <1>2, <1>7, <1>10, <1>11, <1>t
      <3>4. Latest(c)' \notin Rpc!RanCalls
        BY <1>7, <1>10, <1>12
      <3> QED
        BY <3>1, <3>2, <3>3, <3>4, <1>2
    <2>3. ASSUME NEW d \in Busy PROVE B(d)
      <3>1. /\ cid[d] \in 1 .. id_ /\ made[d] \in 1 .. MaxCalls /\ cid[d] \notin MessageIds
            /\ \A e \in Busy : cid[d] = cid[e] => d = e
            /\ IF cpc[d] = "insert"
               THEN /\ \A p \in Pairs : p[1] # cid[d] /\ p[2] # Latest(d)
                    /\ Latest(d) \notin Rpc!RanCalls
               ELSE <<cid[d], Latest(d)>> \in outstandings_
        BY DEF RpcInv, BusyInv
      <3>2. cid'[d] = cid[d] /\ made'[d] = made[d] /\ cpc'[d] = cpc[d] /\ Latest(d)' = Latest(d)
        BY <2>1, <1>2, <1>6
      <3>3. cid'[d] \in 1 .. id_'
        BY <3>1, <3>2, <1>1, <1>t
      <3>4. ASSUME NEW e \in Busy', cid'[d] = cid'[e] PROVE d = e
        <4>1. CASE e = c
          BY <4>1, <3>1, <3>2, <3>4, <1>2, <1>t
        <4>2. CASE e # c
          BY <4>2, <3>1, <3>2, <3>4, <2>1, <1>2, <1>5
        <4> QED
          BY <4>1, <4>2
      <3> QED
        BY <3>1, <3>2, <3>3, <3>4, ZenonT(30)
    <2>4. \A d \in Busy' : B(d)
      BY <2>2, <2>3, <1>5
    <2> QED
      BY <2>4, <1>1, <1>3, ZenonT(30) DEF BusyInv
  <1>15. RanOnce'
    BY <1>1, <1>3, ZenonT(30) DEF RpcInv, RanOnce
  <1>16. NoneForgotten'
    <2>n. NoneForgotten
      BY DEF RpcInv
    <2> SUFFICES ASSUME NEW d \in Callers, NEW k \in 1 .. made'[d]
                 PROVE  \/ <<d, k>> \in Rpc!RanCalls \/ \E o \in outstandings_ : o[2] = <<d, k>>
                        \/ k = made'[d] /\ cpc'[d] = "insert"
      BY <1>1, <1>3, ZenonT(30) DEF NoneForgotten
    <2>1. \A m \in 1 .. made[d] : \/ <<d, m>> \in Rpc!RanCalls \/ \E o \in outstandings_ : o[2] = <<d, m>>
                                  \/ m = made[d] /\ cpc[d] = "insert"
      BY <2>n DEF NoneForgotten
    <2>2. CASE d = c
      <3>1. k = made'[c] \/ k \in 1 .. made[c]
        BY <2>2, <1>2, <1>t
      <3> QED
        BY <2>1, <2>2, <3>1, <1>1, <1>2
    <2>3. CASE d # c
      BY <2>1, <2>3, <1>2
    <2> QED
      BY <2>2, <2>3
  <1>17. EndInv'
    BY <1>1 DEF RpcInv, EndInv
  <1>18. AllUnderway'
    <2> SUFFICES ASSUME up, NEW o \in outstandings_ PROVE Underway(o)'
      BY <1>1 DEF AllUnderway
    <2>1. Underway(o)
      BY DEF RpcInv, AllUnderway
    <2>2. CASE \E d \in Callers : cpc[d] = "send" /\ o = <<cid[d], Latest(d)>>
      <3> PICK d \in Callers : cpc[d] = "send" /\ o = <<cid[d], Latest(d)>>
        BY <2>2
      <3>1. d # c
        BY <1>1
      <3>2. cpc'[d] = "send" /\ o = <<cid'[d], Latest(d)'>>
        BY <3>1, <1>2, <1>6
      <3> QED
        BY <3>2, ZenonT(30) DEF Underway
    <2>3. CASE ~ \E d \in Callers : cpc[d] = "send" /\ o = <<cid[d], Latest(d)>>
      BY <2>1, <2>3, <1>1, ZenonT(30) DEF Underway
    <2> QED
      BY <2>2, <2>3
  <1> QED
    BY <1>8, <1>9, <1>13, <1>14, <1>15, <1>16, <1>17, <1>18 DEF RpcInv

\* CallMethod() stores the call: nothing else is stored under its id.
LEMMA InsertKeeps ==
  ASSUME CallsCounted, RpcInv, NEW c \in Callers, Rpc!Insert(c)
  PROVE  RpcInv'
  <1> DEFINE n == <<cid[c], Latest(c)>>
  <1>t. /\ made \in [Callers -> 0 .. MaxCalls] /\ cpc \in [Callers -> {"idle", "insert", "send"}]
        /\ outstandings_ \subseteq (1 .. id_) \X Rpc!Calls
    BY DEF RpcInv, RpcTypes, Rpc!TypeOK
  <1>1. /\ cpc[c] = "insert" /\ cpc' = [cpc EXCEPT ![c] = "send"]
        /\ UNCHANGED <<id_, cid, made, requests, replies, serving, up, alive, ran, deleted>>
    BY DEF Rpc!Insert, Rpc!network
  <1>2. c \in Busy
    BY <1>1 DEF Busy
  <1>3. /\ cid[c] \in 1 .. id_ /\ made[c] \in 1 .. MaxCalls /\ cid[c] \notin MessageIds
        /\ \A d \in Busy : cid[c] = cid[d] => c = d
        /\ \A p \in Pairs : p[1] # cid[c] /\ p[2] # Latest(c)
        /\ Latest(c) \notin Rpc!RanCalls
    BY <1>1, <1>2 DEF RpcInv, BusyInv
  <1>4. outstandings_' = outstandings_ \cup {n}
    <2>1. \A o \in outstandings_ : o[1] # cid[c]
      BY <1>3 DEF Pairs
    <2> QED
      BY <2>1 DEF Rpc!Insert, Latest
  <1>5. n[1] = cid[c] /\ n[2] = Latest(c) /\ Latest(c) \in Rpc!Calls /\ n \in (1 .. id_) \X Rpc!Calls
    BY <1>3 DEF Latest, Rpc!Calls
  <1>6. Latest(c)[1] = c /\ Latest(c)[2] = made[c]
    BY DEF Latest
  <1> HIDE DEF n
  <1>7. /\ cpc'[c] = "send" /\ \A d \in Callers \ {c} : cpc'[d] = cpc[d]
        /\ Busy' = Busy /\ Rpc!RanCalls' = Rpc!RanCalls /\ MessageIds' = MessageIds
    BY <1>1, <1>t DEF Busy, Rpc!RanCalls, MessageIds
  <1>8. Pairs' = Pairs \cup {n}
    BY <1>1, <1>4 DEF Pairs
  <1>9. \A d \in Callers : Latest(d)' = Latest(d)
    BY <1>1 DEF Latest
  <1>10. RpcTypes'
    <2>1. cpc' \in [Callers -> {"idle", "insert", "send"}]
      BY <1>1, <1>t
    <2>2. outstandings_' \subseteq (1 .. id_) \X Rpc!Calls
      BY <1>4, <1>5, <1>t
    <2>3. Rpc!TypeOK'
      BY <1>1, <2>1, <2>2 DEF RpcInv, RpcTypes, Rpc!TypeOK
    <2> QED
      BY <1>1, <2>3, ZenonT(30) DEF RpcInv, RpcTypes, Message, Reply
  <1>11. OneToOne'
    <2>1. \A p, q \in Pairs : p[1] = q[1] <=> p[2] = q[2]
      BY DEF RpcInv, OneToOne
    <2>2. \A p, q \in Pairs \cup {n} : p[1] = q[1] <=> p[2] = q[2]
      BY <2>1, <1>3, <1>5
    <2> QED
      BY <2>2, <1>8, ZenonT(30) DEF OneToOne
  <1>12. OnlyMade'
    <2>1. \A p \in Pairs : p[2][2] <= made[p[2][1]]
      BY DEF RpcInv, OnlyMade
    <2>2. n[2][2] <= made[n[2][1]]
      BY <1>3, <1>5, <1>6
    <2>3. \A call \in Rpc!RanCalls : call[2] <= made[call[1]]
      BY DEF RpcInv, OnlyMade
    <2> QED
      BY <2>1, <2>2, <2>3, <1>1, <1>7, <1>8, ZenonT(30) DEF OnlyMade
  <1>13. BusyInv'
    <2> SUFFICES ASSUME NEW d \in Busy
                 PROVE  /\ cid[d] \in 1 .. id_ /\ made[d] \in 1 .. MaxCalls /\ cid[d] \notin MessageIds
                        /\ \A e \in Busy : cid[d] = cid[e] => d = e
                        /\ IF cpc'[d] = "insert"
                           THEN /\ \A p \in Pairs' : p[1] # cid[d] /\ p[2] # Latest(d)
                                /\ Latest(d) \notin Rpc!RanCalls
                           ELSE <<cid[d], Latest(d)>> \in outstandings_'
      BY <1>1, <1>7, ZenonT(30) DEF BusyInv, Latest
    <2>1. /\ cid[d] \in 1 .. id_ /\ made[d] \in 1 .. MaxCalls /\ cid[d] \notin MessageIds
          /\ \A e \in Busy : cid[d] = cid[e] => d = e
          /\ IF cpc[d] = "insert"
             THEN /\ \A p \in Pairs : p[1] # cid[d] /\ p[2] # Latest(d)
                  /\ Latest(d) \notin Rpc!RanCalls
             ELSE <<cid[d], Latest(d)>> \in outstandings_
      BY DEF RpcInv, BusyInv
    <2>2. CASE d = c
      BY <2>1, <2>2, <1>4, <1>7 DEF n
    <2>3. CASE d # c
      <3>1. n[1] # cid[d] /\ n[2] # Latest(d)
        <4>1. n[1] # cid[d]
          BY <2>3, <1>3, <1>5
        <4>2. Latest(d)[1] = d
          BY DEF Latest
        <4> QED
          BY <2>3, <4>1, <4>2, <1>5, <1>6
      <3>2. cpc'[d] = cpc[d]
        BY <2>3, <1>7 DEF Busy
      <3> QED
        BY <2>1, <3>1, <3>2, <1>4, <1>8
    <2> QED
      BY <2>2, <2>3
  <1>14. RanOnce'
    <2>1. \A o \in outstandings_' : o[2] \notin Rpc!RanCalls
      BY <1>3, <1>4, <1>5 DEF RpcInv, RanOnce
    <2> QED
      BY <2>1, <1>1, <1>7, ZenonT(30) DEF RpcInv, RanOnce
  <1>15. NoneForgotten'
    <2> SUFFICES ASSUME NEW d \in Callers, NEW k \in 1 .. made[d]
                 PROVE  \/ <<d, k>> \in Rpc!RanCalls \/ \E o \in outstandings_' : o[2] = <<d, k>>
                        \/ k = made[d] /\ cpc'[d] = "insert"
      BY <1>1, <1>7, ZenonT(30) DEF NoneForgotten
    <2>1. \/ <<d, k>> \in Rpc!RanCalls \/ \E o \in outstandings_ : o[2] = <<d, k>>
          \/ k = made[d] /\ cpc[d] = "insert"
      BY ZenonT(30) DEF RpcInv, NoneForgotten
    <2>2. CASE d = c /\ k = made[c]
      <3>1. n \in outstandings_' /\ n[2] = <<d, k>>
        BY <2>2, <1>4, <1>5 DEF Latest
      <3> QED
        BY <3>1
    <2>3. CASE ~ (d = c /\ k = made[c])
      BY <2>1, <2>3, <1>4, <1>7
    <2> QED
      BY <2>2, <2>3
  <1>16. EndInv'
    <2>1. alive
      BY <1>2 DEF RpcInv, EndInv
    <2> QED
      BY <2>1, <1>1 DEF RpcInv, EndInv
  <1>17. AllUnderway'
    <2> SUFFICES ASSUME up, NEW o \in outstandings_' PROVE Underway(o)'
      BY <1>1 DEF AllUnderway
    <2>1. CASE o = n
      <3>1. cpc'[c] = "send" /\ o = <<cid'[c], Latest(c)'>>
        BY <2>1, <1>1, <1>7, <1>9 DEF n
      <3> QED
        BY <3>1, ZenonT(30) DEF Underway
    <2>2. CASE o # n
      <3>1. Underway(o)
        BY <2>2, <1>4 DEF RpcInv, AllUnderway
      <3>2. CASE \E d \in Callers : cpc[d] = "send" /\ o = <<cid[d], Latest(d)>>
        <4> PICK d \in Callers : cpc[d] = "send" /\ o = <<cid[d], Latest(d)>>
          BY <3>2
        <4>1. cpc'[d] = "send" /\ o = <<cid'[d], Latest(d)'>>
          BY <1>1, <1>7, <1>9
        <4> QED
          BY <4>1, ZenonT(30) DEF Underway
      <3>3. CASE ~ \E d \in Callers : cpc[d] = "send" /\ o = <<cid[d], Latest(d)>>
        BY <3>1, <3>3, <1>1, ZenonT(30) DEF Underway
      <3> QED
        BY <3>2, <3>3
    <2> QED
      BY <2>1, <2>2
  <1> QED
    BY <1>10, <1>11, <1>12, <1>13, <1>14, <1>15, <1>16, <1>17 DEF RpcInv

\* CallMethod() sends the request, unless the connection is down.
LEMMA SendKeeps ==
  ASSUME CallsCounted, RpcInv, NEW c \in Callers, Rpc!Send(c)
  PROVE  RpcInv'
  <1> DEFINE m == [id |-> cid[c], call |-> Latest(c)]
  <1>t. /\ cpc \in [Callers -> {"idle", "insert", "send"}] /\ requests \in Seq(Message)
    BY DEF RpcInv, RpcTypes, Rpc!TypeOK
  <1>1. /\ cpc[c] = "send" /\ cpc' = [cpc EXCEPT ![c] = "idle"]
        /\ requests' = IF up THEN Append(requests, m) ELSE requests
        /\ UNCHANGED <<id_, outstandings_, cid, made, replies, serving, up, alive, ran, deleted>>
    BY DEF Rpc!Send, Latest
  <1>2. c \in Busy
    BY <1>1 DEF Busy
  <1>3. /\ cid[c] \in 1 .. id_ /\ made[c] \in 1 .. MaxCalls
        /\ \A d \in Busy : cid[c] = cid[d] => c = d
        /\ <<cid[c], Latest(c)>> \in outstandings_
    BY <1>1, <1>2 DEF RpcInv, BusyInv
  <1>4. m \in Message /\ m.id = cid[c] /\ m.call = Latest(c)
    BY <1>3 DEF Message, Latest, Rpc!Calls
  <1> HIDE DEF m
  <1>5. /\ requests' \in Seq(Message)
        /\ Members(requests') = IF up THEN Members(requests) \cup {m} ELSE Members(requests)
    <2>1. Append(requests, m) \in Seq(Message) /\ Members(Append(requests, m)) = Members(requests) \cup {m}
      BY <1>t, <1>4, MembersAppend, SMTT(30)
    <2> QED
      BY <2>1, <1>1, <1>t
  <1>6. /\ cpc'[c] = "idle" /\ \A d \in Callers \ {c} : cpc'[d] = cpc[d]
        /\ Busy' = Busy \ {c} /\ Rpc!RanCalls' = Rpc!RanCalls
    BY <1>1, <1>t DEF Busy, Rpc!RanCalls
  <1>7. Pairs' \subseteq Pairs /\ MessageIds' \subseteq MessageIds \cup {cid[c]}
    BY <1>1, <1>3, <1>4, <1>5 DEF Pairs, MessageIds
  <1>8. \A d \in Callers : Latest(d)' = Latest(d)
    BY <1>1 DEF Latest
  <1>9. RpcTypes'
    <2>1. cpc' \in [Callers -> {"idle", "insert", "send"}]
      BY <1>1, <1>t
    <2>2. Rpc!TypeOK'
      BY <1>1, <2>1 DEF RpcInv, RpcTypes, Rpc!TypeOK
    <2>3. Message' = Message /\ Reply' = Reply
      BY <1>1 DEF Message, Reply
    <2> QED
      BY <1>1, <1>5, <2>2, <2>3, ZenonT(30) DEF RpcInv, RpcTypes
  <1>10. OneToOne' /\ OnlyMade'
    BY <1>1, <1>6, <1>7, ZenonT(30) DEF RpcInv, OneToOne, OnlyMade
  <1>11. BusyInv'
    <2> SUFFICES ASSUME NEW d \in Busy \ {c}
                 PROVE  /\ cid[d] \in 1 .. id_ /\ made[d] \in 1 .. MaxCalls /\ cid[d] \notin MessageIds'
                        /\ \A e \in Busy \ {c} : cid[d] = cid[e] => d = e
                        /\ IF cpc'[d] = "insert"
                           THEN /\ \A p \in Pairs' : p[1] # cid[d] /\ p[2] # Latest(d)
                                /\ Latest(d) \notin Rpc!RanCalls
                           ELSE <<cid[d], Latest(d)>> \in outstandings_
      BY <1>1, <1>6, ZenonT(30) DEF BusyInv, Latest
    <2>1. /\ cid[d] \in 1 .. id_ /\ made[d] \in 1 .. MaxCalls /\ cid[d] \notin MessageIds
          /\ \A e \in Busy : cid[d] = cid[e] => d = e
          /\ IF cpc[d] = "insert"
             THEN /\ \A p \in Pairs : p[1] # cid[d] /\ p[2] # Latest(d)
                  /\ Latest(d) \notin Rpc!RanCalls
             ELSE <<cid[d], Latest(d)>> \in outstandings_
      BY DEF RpcInv, BusyInv
    <2>2. cid[d] # cid[c] /\ cpc'[d] = cpc[d]
      BY <1>3, <1>6 DEF Busy
    <2> QED
      BY <2>1, <2>2, <1>7
  <1>12. RanOnce'
    BY <1>1, <1>6, ZenonT(30) DEF RpcInv, RanOnce
  <1>13. NoneForgotten'
    <2> SUFFICES ASSUME NEW d \in Callers, NEW k \in 1 .. made[d]
                 PROVE  \/ <<d, k>> \in Rpc!RanCalls \/ \E o \in outstandings_ : o[2] = <<d, k>>
                        \/ k = made[d] /\ cpc'[d] = "insert"
      BY <1>1, <1>6, ZenonT(30) DEF NoneForgotten
    <2>1. \/ <<d, k>> \in Rpc!RanCalls \/ \E o \in outstandings_ : o[2] = <<d, k>>
          \/ k = made[d] /\ cpc[d] = "insert"
      BY ZenonT(30) DEF RpcInv, NoneForgotten
    <2> QED
      BY <2>1, <1>1, <1>6
  <1>14. EndInv'
    <2>1. alive
      BY <1>2 DEF RpcInv, EndInv
    <2> QED
      BY <2>1, <1>1 DEF RpcInv, EndInv
  <1>15. AllUnderway'
    <2> SUFFICES ASSUME up, NEW o \in outstandings_ PROVE Underway(o)'
      BY <1>1 DEF AllUnderway
    <2>1. Underway(o)
      BY DEF RpcInv, AllUnderway
    <2>2. CASE o = <<cid[c], Latest(c)>>
      <3>1. [id |-> o[1], call |-> o[2]] = m
        BY <2>2 DEF m
      <3>2. [id |-> o[1], call |-> o[2]] \in Members(requests')
        BY <3>1, <1>5
      <3> QED
        BY <3>2, ZenonT(30) DEF Underway
    <2>3. CASE \E d \in Callers : d # c /\ cpc[d] = "send" /\ o = <<cid[d], Latest(d)>>
      <3> PICK d \in Callers : d # c /\ cpc[d] = "send" /\ o = <<cid[d], Latest(d)>>
        BY <2>3
      <3>1. cpc'[d] = "send" /\ o = <<cid'[d], Latest(d)'>>
        BY <1>1, <1>6, <1>8
      <3> QED
        BY <3>1, ZenonT(30) DEF Underway
    <2>4. CASE ~ \E d \in Callers : cpc[d] = "send" /\ o = <<cid[d], Latest(d)>>
      <3>1. Members(requests) \subseteq Members(requests')
        BY <1>5
      <3> QED
        BY <2>1, <2>4, <3>1, <1>1, ZenonT(30) DEF Underway
    <2> QED
      BY <2>2, <2>3, <2>4
  <1> QED
    BY <1>9, <1>10, <1>11, <1>12, <1>13, <1>14, <1>15 DEF RpcInv

\* onRpcMessage(), a response: the call that waits for it is run, and no more
\* outstanding.
LEMMA OnResponseKeeps == ASSUME CallsCounted, RpcInv, Rpc!OnResponse PROVE RpcInv'
  <1> DEFINE m == Head(replies)
             t == Tail(replies)
             found == {o \in outstandings_ : o[1] = m.id}
             a == CHOOSE o \in found : TRUE
             x == <<a[2], m.reply>>
  <1>t. /\ replies \in Seq(Reply) /\ ran \in Seq(Rpc!Calls \X (Rpc!Calls \cup {Rpc!Error}))
        /\ outstandings_ \subseteq (1 .. id_) \X Rpc!Calls
    BY DEF RpcInv, RpcTypes, Rpc!TypeOK
  <1>1. /\ replies # <<>> /\ replies' = t /\ outstandings_' = outstandings_ \ found
        /\ ran' = IF found = {} THEN ran ELSE Append(ran, x)
        /\ UNCHANGED <<id_, cpc, cid, made, requests, serving, up, alive, deleted>>
    BY DEF Rpc!OnResponse, Rpc!Erased, Rpc!caller
  <1>2. up /\ alive /\ deleted = {}
    BY <1>1 DEF RpcInv, EndInv
  <1>3. m \in Reply /\ t \in Seq(Reply) /\ Members(replies) = {m} \cup Members(t)
    BY <1>1, <1>t, MembersSplit, SMTT(30)
  <1>4. m.id \in MessageIds
    BY <1>3 DEF MessageIds
  <1>5. Pairs' \subseteq Pairs /\ MessageIds' \subseteq MessageIds /\ outstandings_ \subseteq Pairs
    BY <1>1, <1>3 DEF Pairs, MessageIds
  <1>6. /\ UNCHANGED <<Message, Reply, Busy>> /\ \A d \in Callers : Latest(d)' = Latest(d)
    BY <1>1 DEF Message, Reply, Busy, Latest
  \* What was found is one call, and the reply is its reply.
  <1>7. ASSUME found # {}
        PROVE  /\ a \in outstandings_ /\ a[1] = m.id /\ found = {a} /\ a[2] \in Rpc!Calls
               /\ m.reply \in {a[2], Rpc!Error} /\ x \in Rpc!Calls \X (Rpc!Calls \cup {Rpc!Error})
    <2>1. a \in found
      BY <1>7
    <2>2. \A o \in found : o = a
      <3> SUFFICES ASSUME NEW o \in found PROVE o = a
        OBVIOUS
      <3>1. o[1] = a[1] /\ o \in Pairs /\ a \in Pairs
        BY <2>1, <1>5
      <3>2. o[2] = a[2]
        BY <3>1 DEF RpcInv, OneToOne
      <3>3. o \in (1 .. id_) \X Rpc!Calls /\ a \in (1 .. id_) \X Rpc!Calls
        BY <2>1, <1>t
      <3> QED
        BY <3>1, <3>2, <3>3
    <2>3. m.reply # Rpc!Error => m.reply = a[2]
      <3> SUFFICES ASSUME m.reply # Rpc!Error PROVE m.reply = a[2]
        OBVIOUS
      <3> DEFINE p == <<m.id, m.reply>>
      <3>1. p \in Pairs /\ a \in Pairs /\ p[1] = a[1]
        BY <2>1, <1>3, <1>5 DEF Pairs
      <3>2. p[2] = a[2]
        BY <3>1 DEF RpcInv, OneToOne
      <3> QED
        BY <3>2
    <2>4. a[2] \in Rpc!Calls
      BY <2>1, <1>t
    <2> QED
      BY <2>1, <2>2, <2>3, <2>4
  <1> HIDE DEF m, t, found, a
  <1>8. Rpc!RanCalls' = IF found = {} THEN Rpc!RanCalls ELSE Rpc!RanCalls \cup {a[2]}
    <2>1. CASE found = {}
      BY <2>1, <1>1 DEF Rpc!RanCalls
    <2>2. CASE found # {}
      <3> DEFINE R == Rpc!Calls \X (Rpc!Calls \cup {Rpc!Error})
      <3>0. ran' = Append(ran, x) /\ x \in R /\ x[1] = a[2] /\ ran \in Seq(R)
        BY <2>2, <1>1, <1>7, <1>t
      <3> HIDE DEF x, R
      <3>r. ran \in Seq(R) /\ x \in R
        BY <3>0
      <3>1. Append(ran, x) \in Seq(R) /\ Members(Append(ran, x)) = Members(ran) \cup {x}
        BY <3>r, MembersAppend, SMTT(30)
      <3>2. Rpc!RanCalls = {r[1] : r \in Members(ran)} /\ Rpc!RanCalls' = {r[1] : r \in Members(ran')}
        BY DEF Rpc!RanCalls, Members
      <3> QED
        BY <2>2, <3>0, <3>1, <3>2
    <2> QED
      BY <2>1, <2>2
  <1>9. RpcTypes'
    <2>1. ran' \in Seq(Rpc!Calls \X (Rpc!Calls \cup {Rpc!Error}))
      <3>1. found # {} => Append(ran, x) \in Seq(Rpc!Calls \X (Rpc!Calls \cup {Rpc!Error}))
        BY <1>7, <1>t, MembersAppend, SMTT(30)
      <3> QED
        BY <3>1, <1>1, <1>t
    <2>2. Rpc!TypeOK'
      BY <1>1 DEF RpcInv, RpcTypes, Rpc!TypeOK
    <2> QED
      BY <2>1, <2>2, <1>1, <1>3, <1>6, ZenonT(30) DEF RpcInv, RpcTypes
  <1>10. OneToOne'
    BY <1>5, ZenonT(30) DEF RpcInv, OneToOne
  <1>11. \A p \in Pairs : p[2][2] <= made[p[2][1]]
    BY DEF RpcInv, OnlyMade
  <1>12. OnlyMade'
    <2>1. \A call \in Rpc!RanCalls' : call[2] <= made[call[1]]
      BY <1>5, <1>7, <1>8, <1>11 DEF RpcInv, OnlyMade
    <2> QED
      BY <2>1, <1>1, <1>5, <1>11, ZenonT(30) DEF OnlyMade
  <1>13. BusyInv'
    <2> SUFFICES ASSUME NEW d \in Busy
                 PROVE  /\ cid[d] \in 1 .. id_ /\ made[d] \in 1 .. MaxCalls /\ cid[d] \notin MessageIds'
                        /\ \A e \in Busy : cid[d] = cid[e] => d = e
                        /\ IF cpc[d] = "insert"
                           THEN /\ \A p \in Pairs' : p[1] # cid[d] /\ p[2] # Latest(d)
                                /\ Latest(d) \notin Rpc!RanCalls'
                           ELSE <<cid[d], Latest(d)>> \in outstandings_'
      BY <1>1, <1>6, ZenonT(30) DEF BusyInv, Latest
    <2>1. /\ cid[d] \in 1 .. id_ /\ made[d] \in 1 .. MaxCalls /\ cid[d] \notin MessageIds
          /\ \A e \in Busy : cid[d] = cid[e] => d = e
          /\ IF cpc[d] = "insert"
             THEN /\ \A p \in Pairs : p[1] # cid[d] /\ p[2] # Latest(d)
                  /\ Latest(d) \notin Rpc!RanCalls
             ELSE <<cid[d], Latest(d)>> \in outstandings_
      BY DEF RpcInv, BusyInv
    <2>2. CASE cpc[d] = "insert"
      BY <2>1, <2>2, <1>5, <1>7, <1>8
    <2>3. CASE cpc[d] # "insert"
      <3>1. <<cid[d], Latest(d)>> \notin found
        BY <2>1, <1>4 DEF found
      <3> QED
        BY <2>1, <2>3, <3>1, <1>1, <1>5
    <2> QED
      BY <2>2, <2>3
  <1>14. RanOnce'
    <2>1. \A o \in outstandings_' : o[2] \notin Rpc!RanCalls'
      <3> SUFFICES ASSUME NEW o \in outstandings_' PROVE o[2] \notin Rpc!RanCalls'
        OBVIOUS
      <3>1. o \in outstandings_ /\ o \notin found /\ o[2] \notin Rpc!RanCalls
        BY <1>1 DEF RpcInv, RanOnce
      <3>2. ASSUME found # {} PROVE o[2] # a[2]
        <4>1. o[1] # a[1] /\ o \in Pairs /\ a \in Pairs
          BY <3>1, <3>2, <1>5, <1>7 DEF found
        <4> QED
          BY <4>1 DEF RpcInv, OneToOne
      <3> QED
        BY <3>1, <3>2, <1>8
    <2>2. CASE found = {}
      BY <2>1, <2>2, <1>1, ZenonT(30) DEF RpcInv, RanOnce
    <2>3. CASE found # {}
      <3>1. ran' = Append(ran, x) /\ x \in Rpc!Calls \X (Rpc!Calls \cup {Rpc!Error}) /\ Len(ran) \in Nat
        BY <2>3, <1>1, <1>7, <1>t
      <3>2. Len(ran') = Len(ran) + 1 /\ ran'[Len(ran) + 1] = x /\ \A i \in 1 .. Len(ran) : ran'[i] = ran[i]
        BY <3>1, <1>t, AppendProperties
      <3>3. a[2] \notin Rpc!RanCalls /\ x[1] = a[2] /\ x[2] \in {x[1], Rpc!Error}
        BY <2>3, <1>7 DEF RpcInv, RanOnce
      <3>4. \A i \in 1 .. Len(ran) : ran[i][1] # x[1] /\ ran[i][2] \in {ran[i][1], Rpc!Error}
        BY <3>3 DEF Rpc!RanCalls, RpcInv, RanOnce
      <3>5. \A i, j \in 1 .. Len(ran) : ran[i][1] = ran[j][1] => i = j
        BY DEF RpcInv, RanOnce
      <3> HIDE DEF x
      <3>6. \A i \in 1 .. Len(ran') : i = Len(ran) + 1 \/ i \in 1 .. Len(ran)
        BY <3>1, <3>2
      <3>7. \A i, j \in 1 .. Len(ran') : ran'[i][1] = ran'[j][1] => i = j
        BY <3>2, <3>4, <3>5, <3>6, ZenonT(30)
      <3>8. \A i \in 1 .. Len(ran') : ran'[i][2] \in {ran'[i][1], Rpc!Error}
        BY <3>2, <3>3, <3>4, <3>6, ZenonT(30)
      <3> QED
        BY <2>1, <3>7, <3>8, ZenonT(30) DEF RanOnce
    <2> QED
      BY <2>2, <2>3
  <1>15. NoneForgotten'
    <2> SUFFICES ASSUME NEW d \in Callers, NEW k \in 1 .. made[d]
                 PROVE  \/ <<d, k>> \in Rpc!RanCalls' \/ \E o \in outstandings_' : o[2] = <<d, k>>
                        \/ k = made[d] /\ cpc[d] = "insert"
      BY <1>1, ZenonT(30) DEF NoneForgotten
    <2>1. \/ <<d, k>> \in Rpc!RanCalls \/ \E o \in outstandings_ : o[2] = <<d, k>>
          \/ k = made[d] /\ cpc[d] = "insert"
      BY ZenonT(30) DEF RpcInv, NoneForgotten
    <2>2. ASSUME NEW o \in outstandings_, o[2] = <<d, k>>
          PROVE  <<d, k>> \in Rpc!RanCalls' \/ \E p \in outstandings_' : p[2] = <<d, k>>
      <3>1. CASE o \in found
        BY <2>2, <3>1, <1>7, <1>8
      <3>2. CASE o \notin found
        BY <2>2, <3>2, <1>1
      <3> QED
        BY <3>1, <3>2
    <2> QED
      BY <2>1, <2>2, <1>8
  <1>16. EndInv'
    BY <1>1, <1>2 DEF EndInv
  <1>17. AllUnderway'
    <2> SUFFICES ASSUME NEW o \in outstandings_' PROVE Underway(o)'
      BY DEF AllUnderway
    <2>1. o \in outstandings_ /\ o[1] # m.id
      BY <1>1 DEF found
    <2>2. Underway(o)
      BY <2>1, <1>2 DEF RpcInv, AllUnderway
    <2>3. CASE \E r \in Members(replies) : r.id = o[1] /\ r.reply \in {o[2], Rpc!Error}
      <3>1. \E r \in Members(replies') : r.id = o[1] /\ r.reply \in {o[2], Rpc!Error}
        BY <2>1, <2>3, <1>1, <1>3
      <3> QED
        BY <3>1, ZenonT(30) DEF Underway
    <2>4. CASE ~ \E r \in Members(replies) : r.id = o[1] /\ r.reply \in {o[2], Rpc!Error}
      BY <2>2, <2>4, <1>1, <1>6, ZenonT(30) DEF Underway, Latest
    <2> QED
      BY <2>3, <2>4
  <1> QED
    BY <1>9, <1>10, <1>12, <1>13, <1>14, <1>15, <1>16, <1>17 DEF RpcInv

\* ~RpcChannel(): what is outstanding is deleted.
LEMMA DestroyKeeps == ASSUME RpcInv, Rpc!Destroy PROVE RpcInv'
  <1>1. /\ ~ up /\ Busy = {} /\ deleted' = {o[2] : o \in outstandings_} /\ alive' = FALSE
        /\ UNCHANGED <<id_, outstandings_, cpc, cid, made, requests, replies, serving, up, ran>>
    BY DEF Rpc!Destroy, Busy, Rpc!caller, Rpc!network
  <1>2. UNCHANGED <<Message, Reply, Busy, Pairs, MessageIds, Rpc!RanCalls>>
    BY <1>1 DEF Message, Reply, Busy, Pairs, MessageIds, Rpc!RanCalls
  <1>3. RpcTypes'
    <2>1. deleted' \subseteq Rpc!Calls
      BY <1>1 DEF RpcInv, RpcTypes, Rpc!TypeOK
    <2>2. Rpc!TypeOK'
      BY <1>1 DEF RpcInv, RpcTypes, Rpc!TypeOK
    <2> QED
      BY <2>1, <2>2, <1>1, <1>2, ZenonT(30) DEF RpcInv, RpcTypes
  <1>4. OneToOne' /\ OnlyMade' /\ RanOnce' /\ NoneForgotten'
    BY <1>1, <1>2, ZenonT(30) DEF RpcInv, OneToOne, OnlyMade, RanOnce, NoneForgotten
  <1>5. BusyInv'
    BY <1>1, <1>2 DEF BusyInv
  <1>6. EndInv' /\ AllUnderway'
    BY <1>1, <1>2 DEF RpcInv, EndInv, AllUnderway
  <1> QED
    BY <1>3, <1>4, <1>5, <1>6 DEF RpcInv

\* Before the first call.
LEMMA RpcInit == ASSUME CallsCounted PROVE Rpc!Init => RpcInv
  <1> SUFFICES ASSUME Rpc!Init PROVE RpcInv
    OBVIOUS
  <1>1. Pairs = {} /\ Rpc!RanCalls = {} /\ Busy = {}
    BY MembersEmpty DEF Rpc!Init, Pairs, Rpc!RanCalls, Busy
  <1>2. RpcTypes
    BY EmptySeq DEF Rpc!Init, RpcTypes, Rpc!TypeOK, CallsCounted
  <1>3. OneToOne /\ OnlyMade /\ BusyInv
    BY <1>1 DEF OneToOne, OnlyMade, BusyInv
  <1>4. RanOnce /\ NoneForgotten /\ EndInv /\ AllUnderway
    BY DEF Rpc!Init, RanOnce, NoneForgotten, EndInv, AllUnderway
  <1> QED
    BY <1>2, <1>3, <1>4 DEF RpcInv

\* Every step keeps the invariant.
LEMMA RpcNext == ASSUME CallsCounted, RpcInv, [Rpc!Next]_(Rpc!rpcVars) PROVE RpcInv'
  <1>1. CASE UNCHANGED Rpc!rpcVars
    <2>1. UNCHANGED <<id_, outstandings_, cpc, cid, made, requests, replies, serving, up, alive, ran, deleted>>
      BY <1>1 DEF Rpc!rpcVars, Rpc!caller, Rpc!network
    <2>2. UNCHANGED <<id_, outstandings_, Rpc!caller, alive, ran, deleted>> /\ up' = up
      BY <2>1 DEF Rpc!caller
    <2>3. requests' \in Seq(Message) /\ replies' \in Seq(Reply) /\ serving' \subseteq Message /\ up' \in BOOLEAN
      BY <2>1 DEF RpcInv, RpcTypes, Rpc!TypeOK, Message
    <2>4. Pairs' \subseteq Pairs /\ MessageIds' \subseteq MessageIds
      BY <2>1 DEF Pairs, MessageIds
    <2>5. (~ up' => requests' = <<>> /\ replies' = <<>> /\ serving' = {}) /\ AllUnderway'
      BY <2>1 DEF RpcInv, EndInv, AllUnderway, Underway, Latest
    <2> QED
      BY <2>2, <2>3, <2>4, <2>5, NetworkKeeps DEF NetworkMoves
  <1> QED
    BY <1>1, CallMethodKeeps, InsertKeeps, SendKeeps, ServeKeeps, OnResponseKeeps, DownKeeps, DestroyKeeps,
       DoneKeeps, ZenonT(30) DEF Rpc!Next

\* Distinct calls are counted by the length.
LEMMA RanCounted == ASSUME RpcInv PROVE Rpc!Cardinality(Rpc!RanCalls) = Len(ran)
  <1> DEFINE f == [i \in 1 .. Len(ran) |-> ran[i][1]]
  <1>1. Len(ran) \in Nat
    BY DEF RpcInv, RpcTypes
  <1>2. f \in Bijection(1 .. Len(ran), Rpc!RanCalls)
    BY DEF RpcInv, RanOnce, Rpc!RanCalls, Bijection, Injection, Surjection, IsInjective
  <1>3. IsFiniteSet(1 .. Len(ran)) /\ Cardinality(1 .. Len(ran)) = Len(ran)
    BY <1>1, FS_Interval
  <1>4. ExistsBijection(1 .. Len(ran), Rpc!RanCalls)
    BY <1>2 DEF ExistsBijection
  <1>5. Cardinality(Rpc!RanCalls) = Len(ran)
    BY <1>3, <1>4, FS_Bijection
  <1>6. Rpc!Cardinality(Rpc!RanCalls) = Cardinality(Rpc!RanCalls)
    BY ZenonT(30) DEF Rpc!Cardinality, Rpc!IsFiniteSet, Cardinality, IsFiniteSet
  <1> QED
    BY <1>5, <1>6

-----------------------------------------------------------------------------
\* The done closure of a call is run at most once, with its own response or an
\* error, and the destructor deletes the others, however threads and answers
\* interleave.
THEOREM RpcDoneOnce ==
  ASSUME CallsCounted
  PROVE  Rpc!Spec => []Rpc!DoneOnce
  <1>1. Rpc!Init => RpcInv
    BY RpcInit
  <1>2. RpcInv /\ [Rpc!Next]_(Rpc!rpcVars) => RpcInv'
    BY RpcNext
  <1>3. RpcInv => Rpc!DoneOnce
    <2> SUFFICES ASSUME RpcInv PROVE Rpc!DoneOnce
      OBVIOUS
    <2>1. Rpc!Cardinality(Rpc!RanCalls) = Len(ran)
      BY RanCounted
    <2>2. \A i \in 1 .. Len(ran) : ran[i][2] \in {ran[i][1], Rpc!Error}
      BY DEF RpcInv, RanOnce
    <2>3. Rpc!RanCalls \cap deleted = {}
      BY DEF RpcInv, RanOnce, EndInv
    <2>4. ASSUME ~ alive
          PROVE  Rpc!RanCalls \cup deleted = {call \in Rpc!Calls : call[2] <= made[call[1]]}
      <3>1. deleted = {o[2] : o \in outstandings_} /\ Busy = {}
        BY <2>4 DEF RpcInv, EndInv
      <3>2. ASSUME NEW call \in Rpc!RanCalls \cup deleted
            PROVE  call \in Rpc!Calls /\ call[2] <= made[call[1]]
        <4>1. /\ outstandings_ \subseteq Pairs /\ Pairs \subseteq (1 .. id_) \X Rpc!Calls
              /\ Rpc!RanCalls \subseteq Rpc!Calls
          BY PairTypes DEF Pairs, RpcInv
        <4>2. /\ \A p \in Pairs : p[2][2] <= made[p[2][1]]
              /\ \A ranCall \in Rpc!RanCalls : ranCall[2] <= made[ranCall[1]]
          BY DEF RpcInv, OnlyMade
        <4> QED
          BY <3>1, <3>2, <4>1, <4>2
      <3>3. ASSUME NEW call \in Rpc!Calls, call[2] <= made[call[1]]
            PROVE  call \in Rpc!RanCalls \cup deleted
        <4>1. call[1] \in Callers /\ call[2] \in 1 .. MaxCalls /\ call = <<call[1], call[2]>>
          BY CallParts
        <4>2. made[call[1]] \in 0 .. MaxCalls /\ cpc[call[1]] # "insert"
          BY <4>1, <3>1 DEF RpcInv, RpcTypes, Rpc!TypeOK, Busy
        <4>3. call[2] \in 1 .. made[call[1]]
          BY <3>3, <4>1, <4>2
        <4>4. <<call[1], call[2]>> \in Rpc!RanCalls \/ \E o \in outstandings_ : o[2] = <<call[1], call[2]>>
          BY <4>1, <4>2, <4>3, ZenonT(30) DEF RpcInv, NoneForgotten
        <4> QED
          BY <4>1, <4>4, <3>1
      <3> QED
        BY <3>2, <3>3
    <2> QED
      BY <2>1, <2>2, <2>3, <2>4 DEF Rpc!DoneOnce
  <1> QED
    BY <1>1, <1>2, <1>3, PTL DEF Rpc!Spec

\* As long as the connection is up, a call that was made and not completed is on
\* its way, and its response will find it in outstandings_.
THEOREM RpcCallsTracked ==
  ASSUME CallsCounted
  PROVE  Rpc!Spec => []Rpc!CallsTracked
  <1>1. Rpc!Init => RpcInv
    BY RpcInit
  <1>2. RpcInv /\ [Rpc!Next]_(Rpc!rpcVars) => RpcInv'
    BY RpcNext
  <1>3. RpcInv => Rpc!CallsTracked
    <2> SUFFICES ASSUME RpcInv, up, NEW c \in Callers, NEW k \in 1 .. made[c]
                 PROVE  \/ <<c, k>> \in Rpc!RanCalls
                        \/ k = made[c] /\ cpc[c] = "insert"
                        \/ \E o \in outstandings_ :
                             /\ o[2] = <<c, k>>
                             /\ \/ k = made[c] /\ cpc[c] = "send"
                                \/ [id |-> o[1], call |-> <<c, k>>] \in serving
                                \/ \E i \in 1 .. Len(requests) : requests[i] = [id |-> o[1], call |-> <<c, k>>]
                                \/ \E i \in 1 .. Len(replies) : /\ replies[i].id = o[1]
                                                              /\ replies[i].reply \in {<<c, k>>, Rpc!Error}
      BY DEF Rpc!CallsTracked
    <2>1. \/ <<c, k>> \in Rpc!RanCalls \/ \E o \in outstandings_ : o[2] = <<c, k>>
          \/ k = made[c] /\ cpc[c] = "insert"
      BY ZenonT(30) DEF RpcInv, NoneForgotten
    <2>2. ASSUME NEW o \in outstandings_, o[2] = <<c, k>>
          PROVE  \/ k = made[c] /\ cpc[c] = "send"
                 \/ [id |-> o[1], call |-> <<c, k>>] \in serving
                 \/ \E i \in 1 .. Len(requests) : requests[i] = [id |-> o[1], call |-> <<c, k>>]
                 \/ \E i \in 1 .. Len(replies) : /\ replies[i].id = o[1]
                                               /\ replies[i].reply \in {<<c, k>>, Rpc!Error}
      <3>1. Underway(o)
        BY DEF RpcInv, AllUnderway
      <3>2. ASSUME NEW d \in Callers, cpc[d] = "send", o = <<cid[d], Latest(d)>>
            PROVE  k = made[c] /\ cpc[c] = "send"
        BY <2>2, <3>2 DEF Latest
      <3> QED
        BY <2>2, <3>1, <3>2 DEF Underway, Members
    <2> QED
      BY <2>1, <2>2, ZenonT(30)
  <1> QED
    BY <1>1, <1>2, <1>3, PTL DEF Rpc!Spec
===============================================================================
