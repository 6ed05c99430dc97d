-------------------------- MODULE AsyncLoggingProofs --------------------------
(***************************************************************************)
(* AsyncLogging and LogFile for any sizes of buffers and files and any       *)
(* number of lines: the buffers that threadFunc() exchanges with the front   *)
(* end are what its assertions say, lines reach the file in order, none is   *)
(* dropped without a notice, and files are rolled and flushed in time.       *)
(***************************************************************************)
EXTENDS AsyncLogging, FiniteSetTheorems, SequenceTheorems, TLAPS

\* The provers of a step that names none, with their time limits.
USE SMTT(30), ZenonT(30)

\* A log buffer has room for a line, and a buffer is kept.
LogSizes == Capacity \in Nat /\ Capacity > 1 /\ MaxBuffers \in Nat \ {0}

FileSizes ==
  /\ Lengths \subseteq Nat /\ RollSize \in Nat /\ FlushInterval \in Nat
  /\ CheckEveryN \in Nat \ {0} /\ Period \in Nat \ {0}
  /\ MaxTime \in Nat /\ Period <= MaxTime /\ MaxAppends \in Nat

-----------------------------------------------------------------------------
(* AsyncLogging: buffers and the lines in them.                            *)

\* A line of the buffers is a number in one of them, other than the notice's.
LEMMA InLines ==
  ASSUME NEW s, NEW a
  PROVE  a \in LinesOf(s) <=>
           a # 0 /\ \E i \in DOMAIN s : \E k \in DOMAIN s[i] : a = s[i][k]
  <1>1. a \in LinesOf(s) <=> a # 0 /\ \E b \in Range(s) : a \in Range(b)
    BY ZenonT(30) DEF LinesOf
  <1>2. \A b : b \in Range(s) <=> \E i \in DOMAIN s : b = s[i]
    BY ZenonT(30) DEF Range
  <1>3. \A b : a \in Range(b) <=> \E k \in DOMAIN b : a = b[k]
    BY ZenonT(30) DEF Range
  <1>4. ASSUME NEW b \in Range(s), a \in Range(b)
        PROVE  \E i \in DOMAIN s : \E k \in DOMAIN s[i] : a = s[i][k]
    <2>1. PICK i \in DOMAIN s : b = s[i]
      BY <1>2, ZenonT(30)
    <2>2. PICK k \in DOMAIN b : a = b[k]
      BY <1>3, <1>4, ZenonT(30)
    <2> QED
      BY <2>1, <2>2, ZenonT(30)
  <1>5. ASSUME NEW i \in DOMAIN s, NEW k \in DOMAIN s[i], a = s[i][k]
        PROVE  s[i] \in Range(s) /\ a \in Range(s[i])
    BY <1>2, <1>3, <1>5, ZenonT(30)
  <1> QED
    BY <1>1, <1>4, <1>5, ZenonT(30)

\* Where the buffers of two sequences are in the one made of them.
LEMMA Joined ==
  ASSUME NEW s \in Seq(Buffer), NEW t \in Seq(Buffer)
  PROVE  /\ Len(s) \in Nat /\ Len(t) \in Nat
         /\ s \o t \in Seq(Buffer) /\ Len(s \o t) = Len(s) + Len(t)
         /\ DOMAIN s = 1 .. Len(s) /\ DOMAIN t = 1 .. Len(t)
         /\ DOMAIN (s \o t) = 1 .. Len(s) + Len(t)
         /\ \A i \in DOMAIN s : i \in DOMAIN (s \o t) /\ (s \o t)[i] = s[i]
         /\ \A i \in DOMAIN t : i + Len(s) \in DOMAIN (s \o t) /\ (s \o t)[i + Len(s)] = t[i]
         /\ \A i \in DOMAIN (s \o t) : i \in DOMAIN s \/ i - Len(s) \in DOMAIN t
  <1>1. /\ Len(s) \in Nat /\ Len(t) \in Nat
        /\ s \o t \in Seq(Buffer) /\ Len(s \o t) = Len(s) + Len(t)
        /\ DOMAIN s = 1 .. Len(s) /\ DOMAIN t = 1 .. Len(t)
    BY ConcatProperties, LenProperties
  <1>2. DOMAIN (s \o t) = 1 .. Len(s) + Len(t)
    BY <1>1, LenProperties, ZenonT(30)
  <1>3. \A i \in DOMAIN s : (s \o t)[i] = s[i]
    BY <1>1, ConcatProperties
  <1>4. \A i \in DOMAIN t : (s \o t)[i + Len(s)] = t[i]
    BY <1>1, ConcatProperties
  <1> QED
    BY <1>1, <1>2, <1>3, <1>4

\* The lines of two sequences of buffers.
LEMMA LinesJoined ==
  ASSUME NEW s \in Seq(Buffer), NEW t \in Seq(Buffer)
  PROVE  LinesOf(s \o t) = LinesOf(s) \cup LinesOf(t)
  <1> DEFINE u == s \o t
             n == Len(s)
  <1>1. /\ \A i \in DOMAIN s : i \in DOMAIN u /\ u[i] = s[i]
        /\ \A i \in DOMAIN t : i + n \in DOMAIN u /\ u[i + n] = t[i]
    BY Joined, ZenonT(30)
  <1>2. \A i \in DOMAIN u : i \in DOMAIN s \/ \E j \in DOMAIN t : i = j + n
    <2> SUFFICES ASSUME NEW i \in DOMAIN u, i \notin DOMAIN s PROVE \E j \in DOMAIN t : i = j + n
      OBVIOUS
    <2>1. i - n \in DOMAIN t
      BY Joined, ZenonT(30)
    <2>2. i = (i - n) + n
      BY Joined
    <2> QED
      BY <2>1, <2>2, ZenonT(30)
  <1> HIDE DEF u, n
  <1>3. ASSUME NEW a \in LinesOf(u) PROVE a \in LinesOf(s) \cup LinesOf(t)
    <2>1. PICK i \in DOMAIN u : \E k \in DOMAIN u[i] : a = u[i][k] /\ a # 0
      BY <1>3, InLines, ZenonT(30)
    <2>2. \/ i \in DOMAIN s /\ u[i] = s[i]
          \/ \E j \in DOMAIN t : u[i] = t[j]
      BY <1>1, <1>2, ZenonT(30)
    <2> QED
      BY <2>1, <2>2, InLines, ZenonT(30)
  <1>4. ASSUME NEW a \in LinesOf(s) \cup LinesOf(t) PROVE a \in LinesOf(u)
    <2>1. CASE a \in LinesOf(s)
      <3>1. PICK i \in DOMAIN s : \E k \in DOMAIN s[i] : a = s[i][k] /\ a # 0
        BY <2>1, InLines, ZenonT(30)
      <3> QED
        BY <1>1, <3>1, InLines, ZenonT(30)
    <2>2. CASE a \in LinesOf(t)
      <3>1. PICK i \in DOMAIN t : \E k \in DOMAIN t[i] : a = t[i][k] /\ a # 0
        BY <2>2, InLines, ZenonT(30)
      <3>2. i + n \in DOMAIN u /\ u[i + n] = t[i]
        BY <1>1, ZenonT(30)
      <3> QED
        BY <3>1, <3>2, InLines, ZenonT(30)
    <2> QED
      BY <1>4, <2>1, <2>2
  <1>5. LinesOf(u) = LinesOf(s) \cup LinesOf(t)
    BY <1>3, <1>4, ZenonT(30)
  <1> QED
    BY <1>5, ZenonT(30) DEF u

\* The lines of s come before those of t.
Before(s, t) == \A a \in LinesOf(s), b \in LinesOf(t) : a < b

\* Two sequences of buffers are in order together.
LEMMA IncreasingJoined ==
  ASSUME NEW s \in Seq(Buffer), NEW t \in Seq(Buffer)
  PROVE  Increasing(s \o t) <=>
           Increasing(s) /\ Increasing(t) /\ Before(s, t)
  <1> DEFINE u == s \o t
             n == Len(s)
  <1>n. n \in Nat /\ DOMAIN s = 1 .. n /\ DOMAIN t = 1 .. Len(t) /\ Len(t) \in Nat
    BY Joined
  <1>1. /\ \A i \in DOMAIN s : i \in DOMAIN u /\ u[i] = s[i]
        /\ \A i \in DOMAIN t : i + n \in DOMAIN u /\ u[i + n] = t[i]
        /\ \A i \in DOMAIN u : i \in DOMAIN s \/ i - n \in DOMAIN t
    BY Joined, ZenonT(30)
  <1>2. /\ \A i \in DOMAIN u : i \in DOMAIN s \/ \E j \in DOMAIN t : i = j + n
        /\ \A i \in DOMAIN s, j \in DOMAIN t : i < j + n /\ ~(j + n < i) /\ i # j + n
        /\ \A i, j \in DOMAIN t : (i < j <=> i + n < j + n) /\ (i = j <=> i + n = j + n)
    <2>1. \A i \in DOMAIN u : i \in DOMAIN s \/ \E j \in DOMAIN t : i = j + n
      <3> SUFFICES ASSUME NEW i \in DOMAIN u, i \notin DOMAIN s PROVE \E j \in DOMAIN t : i = j + n
        OBVIOUS
      <3>1. i - n \in DOMAIN t /\ DOMAIN u = 1 .. n + Len(t)
        BY Joined, ZenonT(30)
      <3>2. i = (i - n) + n
        BY <1>n, <3>1
      <3> QED
        BY <3>1, <3>2, ZenonT(30)
    <2>2. /\ \A i \in DOMAIN s, j \in DOMAIN t : i < j + n /\ ~(j + n < i) /\ i # j + n
          /\ \A i, j \in DOMAIN t : (i < j <=> i + n < j + n) /\ (i = j <=> i + n = j + n)
      BY <1>n
    <2> QED
      BY <2>1, <2>2
  <1> HIDE DEF u, n
  <1>3. ASSUME Increasing(u) PROVE Increasing(s)
    BY <1>1, <1>3, ZenonT(30) DEF Increasing
  <1>4. ASSUME Increasing(u) PROVE Increasing(t)
    <2> SUFFICES ASSUME NEW i \in DOMAIN t, NEW j \in DOMAIN t, NEW k \in DOMAIN t[i],
                        NEW m \in DOMAIN t[j], i < j \/ (i = j /\ k < m), t[i][k] # 0, t[j][m] # 0
                 PROVE  t[i][k] < t[j][m]
      BY ZenonT(30) DEF Increasing
    <2>1. /\ i + n \in DOMAIN u /\ u[i + n] = t[i] /\ j + n \in DOMAIN u /\ u[j + n] = t[j]
          /\ i + n < j + n \/ (i + n = j + n /\ k < m)
      BY <1>1, <1>2, ZenonT(30)
    <2> QED
      BY <1>4, <2>1, ZenonT(30) DEF Increasing
  <1>5. ASSUME Increasing(u) PROVE Before(s, t)
    <2> SUFFICES ASSUME NEW a \in LinesOf(s), NEW b \in LinesOf(t) PROVE a < b
      BY DEF Before
    <2>1. PICK i \in DOMAIN s : \E k \in DOMAIN s[i] : a = s[i][k] /\ a # 0
      BY InLines, ZenonT(30)
    <2>2. PICK k \in DOMAIN s[i] : a = s[i][k] /\ a # 0
      BY <2>1
    <2>3. PICK j \in DOMAIN t : \E m \in DOMAIN t[j] : b = t[j][m] /\ b # 0
      BY InLines, ZenonT(30)
    <2>4. PICK m \in DOMAIN t[j] : b = t[j][m] /\ b # 0
      BY <2>3
    <2>5. /\ i \in DOMAIN u /\ u[i] = s[i] /\ j + n \in DOMAIN u /\ u[j + n] = t[j] /\ i < j + n
      BY <1>1, <1>2, ZenonT(30)
    <2> QED
      BY <1>5, <2>2, <2>4, <2>5, ZenonT(30) DEF Increasing
  <1>6. ASSUME Increasing(s), Increasing(t), Before(s, t)
        PROVE  Increasing(u)
    <2> SUFFICES ASSUME NEW i \in DOMAIN u, NEW j \in DOMAIN u, NEW k \in DOMAIN u[i],
                        NEW m \in DOMAIN u[j], i < j \/ (i = j /\ k < m), u[i][k] # 0, u[j][m] # 0
                 PROVE  u[i][k] < u[j][m]
      BY ZenonT(30) DEF Increasing
    <2>1. CASE i \in DOMAIN s /\ j \in DOMAIN s
      BY <1>1, <1>6, <2>1, ZenonT(30) DEF Increasing
    <2>2. CASE i \in DOMAIN s /\ j \notin DOMAIN s
      <3>1. PICK q \in DOMAIN t : j = q + n
        BY <1>2, <2>2, ZenonT(30)
      <3>2. u[i] = s[i] /\ u[j] = t[q]
        BY <1>1, <2>2, <3>1, ZenonT(30)
      <3>3. u[i][k] \in LinesOf(s) /\ u[j][m] \in LinesOf(t)
        BY <2>2, <3>1, <3>2, InLines, ZenonT(30)
      <3> QED
        BY <1>6, <3>3, ZenonT(30) DEF Before
    <2>3. CASE i \notin DOMAIN s /\ j \in DOMAIN s
      <3>1. PICK q \in DOMAIN t : i = q + n
        BY <1>2, <2>3, ZenonT(30)
      <3> QED
        BY <1>2, <2>3, <3>1, ZenonT(30)
    <2>4. CASE i \notin DOMAIN s /\ j \notin DOMAIN s
      <3>1. PICK p \in DOMAIN t : i = p + n
        BY <1>2, <2>4, ZenonT(30)
      <3>2. PICK q \in DOMAIN t : j = q + n
        BY <1>2, <2>4, ZenonT(30)
      <3>3. /\ u[i] = t[p] /\ u[j] = t[q]
            /\ p < q \/ (p = q /\ k < m)
        BY <1>1, <1>2, <3>1, <3>2, ZenonT(30)
      <3> QED
        BY <1>6, <3>3, ZenonT(30) DEF Increasing
    <2> QED
      BY <2>1, <2>2, <2>3, <2>4
  <1>7. Increasing(u) <=>
          Increasing(s) /\ Increasing(t) /\ Before(s, t)
    BY <1>3, <1>4, <1>5, <1>6
  <1> QED
    BY <1>7, ZenonT(30) DEF u

\* No buffers, an empty buffer and the notice hold no lines.
LEMMA NoLines ==
  /\ LinesOf(<<>>) = {} /\ Increasing(<<>>)
  /\ LinesOf(<< <<>> >>) = {} /\ Increasing(<< <<>> >>)
  /\ LinesOf(<<Notice>>) = {} /\ Increasing(<<Notice>>)
  <1>1. LinesOf(<<>>) = {} /\ Increasing(<<>>)
    <2>1. DOMAIN <<>> = {}
      OBVIOUS
    <2> QED
      BY <2>1, InLines, ZenonT(30) DEF Increasing
  <1>2. LinesOf(<< <<>> >>) = {} /\ Increasing(<< <<>> >>)
    <2> DEFINE s == << <<>> >>
    <2>1. \A i \in DOMAIN s : DOMAIN s[i] = {}
      OBVIOUS
    <2> HIDE DEF s
    <2>2. LinesOf(s) = {} /\ Increasing(s)
      BY <2>1, InLines, ZenonT(30) DEF Increasing
    <2> QED
      BY <2>2 DEF s
  <1>3. LinesOf(<<Notice>>) = {} /\ Increasing(<<Notice>>)
    <2> DEFINE s == <<Notice>>
    <2>1. \A i \in DOMAIN s : \A k \in DOMAIN s[i] : s[i][k] = 0
      BY DEF Notice
    <2> HIDE DEF s
    <2>2. ASSUME NEW a \in LinesOf(s) PROVE FALSE
      <3>1. PICK i \in DOMAIN s : \E k \in DOMAIN s[i] : a = s[i][k] /\ a # 0
        BY InLines, ZenonT(30)
      <3> QED
        BY <2>1, <3>1, ZenonT(30)
    <2>3. Increasing(s)
      BY <2>1, ZenonT(30) DEF Increasing
    <2> QED
      BY <2>2, <2>3 DEF s
  <1> QED
    BY <1>1, <1>2, <1>3

\* The lines of one buffer.
LEMMA OneBuffer ==
  ASSUME NEW b, NEW a
  PROVE  a \in LinesOf(<<b>>) <=> a # 0 /\ \E k \in DOMAIN b : a = b[k]
  <1> DEFINE s == <<b>>
  <1>1. DOMAIN s = {1} /\ s[1] = b
    OBVIOUS
  <1> HIDE DEF s
  <1>2. ASSUME a \in LinesOf(s) PROVE a # 0 /\ \E k \in DOMAIN b : a = b[k]
    <2>1. PICK i \in DOMAIN s : \E k \in DOMAIN s[i] : a = s[i][k] /\ a # 0
      BY <1>2, InLines, ZenonT(30)
    <2> QED
      BY <1>1, <2>1
  <1>3. ASSUME a # 0, NEW k \in DOMAIN b, a = b[k] PROVE a \in LinesOf(s)
    <2>1. 1 \in DOMAIN s /\ k \in DOMAIN s[1] /\ a = s[1][k]
      BY <1>1, <1>3
    <2> QED
      BY <1>3, <2>1, InLines, ZenonT(30)
  <1>4. a \in LinesOf(s) <=> a # 0 /\ \E k \in DOMAIN b : a = b[k]
    BY <1>2, <1>3
  <1> QED
    BY <1>4, ZenonT(30) DEF s

\* A line is appended to a buffer of earlier lines.
LEMMA LineAdded ==
  ASSUME NEW b \in Buffer, NEW x \in Nat, x # 0, Increasing(<<b>>),
         \A a \in LinesOf(<<b>>) : a < x
  PROVE  /\ LinesOf(<<Append(b, x)>>) = LinesOf(<<b>>) \cup {x}
         /\ Increasing(<<Append(b, x)>>)
  <1> DEFINE c == Append(b, x)
             n == Len(b)
             s == <<b>>
             t == <<c>>
  <1>1. /\ n \in Nat /\ DOMAIN b = 1 .. n /\ DOMAIN c = 1 .. n + 1 /\ c[n + 1] = x
        /\ \A k \in 1 .. n : c[k] = b[k]
    BY AppendProperties, LenProperties DEF Buffer
  <1>2. /\ \A k \in DOMAIN b : k \in DOMAIN c /\ c[k] = b[k] /\ ~(n + 1 < k)
        /\ \A k \in DOMAIN c : k \in DOMAIN b \/ k = n + 1
        /\ n + 1 \in DOMAIN c /\ ~(n + 1 < n + 1)
    BY <1>1
  <1>3. /\ DOMAIN s = {1} /\ s[1] = b /\ DOMAIN t = {1} /\ t[1] = c /\ ~(1 < 1)
    OBVIOUS
  <1>i. Increasing(s)
    OBVIOUS
  <1> HIDE DEF c, n, s, t
  <1>4. \A a : a \in LinesOf(s) <=> a # 0 /\ \E k \in DOMAIN b : a = b[k]
    BY OneBuffer, ZenonT(30) DEF s
  <1>5. \A a : a \in LinesOf(t) <=> a # 0 /\ \E k \in DOMAIN c : a = c[k]
    BY OneBuffer, ZenonT(30) DEF t
  <1>6. LinesOf(t) = LinesOf(s) \cup {x}
    BY <1>1, <1>2, <1>4, <1>5
  <1>7. ASSUME NEW k \in DOMAIN c, NEW m \in DOMAIN c, k < m, c[k] # 0, c[m] # 0
        PROVE  c[k] < c[m]
    <2>1. k \in DOMAIN b
      BY <1>1, <1>2, <1>7
    <2>2. CASE m \in DOMAIN b
      <3>1. b[k] < b[m]
        <4>1. 1 \in DOMAIN s /\ k \in DOMAIN s[1] /\ m \in DOMAIN s[1] /\ s[1][k] = b[k] /\ s[1][m] = b[m]
          BY <1>3, <2>1, <2>2, ZenonT(30)
        <4>2. b[k] # 0 /\ b[m] # 0
          BY <1>2, <1>7, <2>1, <2>2, ZenonT(30)
        <4>3. s[1][k] < s[1][m]
          BY <1>i, <1>7, <4>1, <4>2, ZenonT(30) DEF Increasing
        <4> QED
          BY <4>1, <4>3, ZenonT(30)
      <3> QED
        BY <1>2, <2>1, <2>2, <3>1, ZenonT(30)
    <2>3. CASE m = n + 1
      <3>1. b[k] \in LinesOf(s)
        BY <1>2, <1>4, <1>7, <2>1, ZenonT(30)
      <3>2. b[k] < x
        BY <3>1 DEF s
      <3> QED
        BY <1>1, <1>2, <2>1, <2>3, <3>2
    <2> QED
      BY <1>2, <2>2, <2>3
  <1>8. Increasing(t)
    BY <1>3, <1>7, ZenonT(30) DEF Increasing
  <1> QED
    BY <1>6, <1>8 DEF c, s, t

\* Lines are numbers.
LEMMA LinesTyped == ASSUME NEW s \in Seq(Buffer) PROVE \A a \in LinesOf(s) : a \in Nat
  <1> SUFFICES ASSUME NEW a \in LinesOf(s) PROVE a \in Nat
    OBVIOUS
  <1>1. PICK i \in DOMAIN s : \E k \in DOMAIN s[i] : a = s[i][k] /\ a # 0
    BY InLines, ZenonT(30)
  <1>2. s[i] \in Seq(Nat)
    BY ElementOfSeq, LenProperties DEF Buffer
  <1> QED
    BY <1>1, <1>2, ElementOfSeq, LenProperties

\* An empty buffer adds no line.
LEMMA EmptyAdded ==
  ASSUME NEW P \in Seq(Buffer)
  PROVE  /\ LinesOf(P \o << <<>> >>) = LinesOf(P)
         /\ Increasing(P) => Increasing(P \o << <<>> >>)
  <1>1. << <<>> >> \in Seq(Buffer)
    BY DEF Buffer
  <1>2. LinesOf(P \o << <<>> >>) = LinesOf(P) \cup {}
    BY <1>1, LinesJoined, NoLines, ZenonT(30)
  <1>3. Before(P, << <<>> >>)
    BY NoLines, ZenonT(30) DEF Before
  <1>4. Increasing(P) => Increasing(P \o << <<>> >>)
    BY <1>1, <1>3, IncreasingJoined, NoLines, ZenonT(30)
  <1> QED
    BY <1>2, <1>4

\* append(): a line later than all of them is appended to the last buffer.
LEMMA LastLine ==
  ASSUME NEW P \in Seq(Buffer), NEW b \in Buffer, NEW x \in Nat, x # 0,
         Increasing(P \o <<b>>), \A a \in LinesOf(P \o <<b>>) : a < x
  PROVE  /\ LinesOf(P \o <<Append(b, x)>>) = LinesOf(P \o <<b>>) \cup {x}
         /\ Increasing(P \o <<Append(b, x)>>)
  <1> DEFINE s == <<b>>
             t == <<Append(b, x)>>
  <1>1. s \in Seq(Buffer) /\ t \in Seq(Buffer)
    BY AppendProperties DEF Buffer
  <1>2. /\ LinesOf(P \o s) = LinesOf(P) \cup LinesOf(s)
        /\ LinesOf(P \o t) = LinesOf(P) \cup LinesOf(t)
    BY <1>1, LinesJoined, ZenonT(30)
  <1>3. Increasing(P) /\ Increasing(s) /\ Before(P, s)
    BY <1>1, IncreasingJoined, ZenonT(30)
  <1>4. \A a \in LinesOf(P) \cup LinesOf(s) : a < x
    BY <1>2, ZenonT(30)
  <1>5. LinesOf(t) = LinesOf(s) \cup {x} /\ Increasing(t)
    <2>1. \A a \in LinesOf(s) : a < x
      BY <1>4, ZenonT(30)
    <2> QED
      BY <1>3, <2>1, LineAdded, ZenonT(30)
  <1> HIDE DEF s, t
  <1>6. Before(P, t)
    BY <1>3, <1>4, <1>5, ZenonT(30) DEF Before
  <1>7. Increasing(P \o t)
    BY <1>1, <1>3, <1>5, <1>6, IncreasingJoined, ZenonT(30)
  <1>8. LinesOf(P \o t) = LinesOf(P \o s) \cup {x}
    BY <1>2, <1>5, ZenonT(30)
  <1> QED
    BY <1>7, <1>8, ZenonT(30) DEF s, t

\* The lines of S are gone, and only they.
OnlyDropped(F, N, K, R, S, T) ==
  /\ Increasing(((F \o N) \o K) \o T)
  /\ LinesOf((F \o ((K \o R) \o S)) \o T) =
       LinesOf(((F \o N) \o K) \o T) \cup LinesOf(S)
  /\ LinesOf(((F \o N) \o K) \o T) \cap LinesOf(S) = {}
  /\ LinesOf((K \o R) \o S) \ LinesOf(K \o R) = LinesOf(S)

\* threadFunc(): of the buffers K, R and S behind what was written, K is written, R
\* holds nothing and S is dropped; the notice N, if there is one, goes before them.
LEMMA SomeDropped ==
  ASSUME NEW F \in Seq(Buffer), NEW N \in Seq(Buffer), NEW K \in Seq(Buffer), NEW R \in Seq(Buffer),
         NEW S \in Seq(Buffer), NEW T \in Seq(Buffer),
         LinesOf(N) = {}, Increasing(N), LinesOf(R) = {},
         Increasing((F \o ((K \o R) \o S)) \o T)
  PROVE  OnlyDropped(F, N, K, R, S, T)
  <1> DEFINE D(s) == LinesOf(s)
             I(s) == Increasing(s)
             a == K \o R
             b == a \o S
             c == F \o b
             d == F \o N
             e == d \o K
  <1>1. /\ a \in Seq(Buffer) /\ b \in Seq(Buffer) /\ c \in Seq(Buffer) /\ d \in Seq(Buffer)
        /\ e \in Seq(Buffer)
    BY ConcatProperties
  <1>2. /\ D(a) = D(K) \cup D(R) /\ D(b) = D(a) \cup D(S) /\ D(c) = D(F) \cup D(b)
        /\ D(c \o T) = D(c) \cup D(T)
        /\ D(d) = D(F) \cup D(N) /\ D(e) = D(d) \cup D(K) /\ D(e \o T) = D(e) \cup D(T)
    <2>1. D(a) = D(K) \cup D(R) /\ D(d) = D(F) \cup D(N)
      BY LinesJoined, ZenonT(30)
    <2> HIDE DEF a, b, c, d, e
    <2>2. D(a \o S) = D(a) \cup D(S) /\ D(F \o b) = D(F) \cup D(b) /\ D(d \o K) = D(d) \cup D(K)
      BY <1>1, LinesJoined, ZenonT(30)
    <2>3. D(c \o T) = D(c) \cup D(T) /\ D(e \o T) = D(e) \cup D(T)
      BY <1>1, LinesJoined, ZenonT(30)
    <2> QED
      BY <2>1, <2>2, <2>3, ZenonT(30) DEF b, c, e
  <1>3. I(K) /\ I(F) /\ I(T) /\ Before(c, T) /\ Before(F, b) /\ Before(a, S)
    <2>1. I(c \o T)
      OBVIOUS
    <2>2. (I(c \o T) <=> I(c) /\ I(T) /\ Before(c, T)) /\ (I(F \o b) <=> I(F) /\ I(b) /\ Before(F, b))
      BY <1>1, IncreasingJoined, ZenonT(30)
    <2>3. (I(a \o S) <=> I(a) /\ I(S) /\ Before(a, S)) /\ (I(K \o R) <=> I(K) /\ I(R) /\ Before(K, R))
      BY <1>1, IncreasingJoined, ZenonT(30)
    <2> QED
      BY <2>1, <2>2, <2>3, ZenonT(30)
  <1>4. (I(d) <=> I(F) /\ I(N) /\ Before(F, N)) /\ (I(e) <=> I(d) /\ I(K) /\ Before(d, K))
    BY <1>1, IncreasingJoined, ZenonT(30)
  <1>5. I(e \o T) <=> I(e) /\ I(T) /\ Before(e, T)
    BY <1>1, IncreasingJoined, ZenonT(30)
  <1>6. \A n \in D(S) : n \in Nat
    BY LinesTyped, ZenonT(30)
  <1>n. D(N) = {} /\ D(R) = {} /\ I(N)
    OBVIOUS
  <1>9. /\ D(c \o T) = LinesOf((F \o ((K \o R) \o S)) \o T)
        /\ I(e \o T) <=> Increasing(((F \o N) \o K) \o T)
        /\ D(e \o T) = LinesOf(((F \o N) \o K) \o T)
        /\ D(b) = LinesOf((K \o R) \o S) /\ D(a) = LinesOf(K \o R)
        /\ D(S) = LinesOf(S)
    OBVIOUS
  <1> HIDE DEF D, I, a, b, c, d, e
  <1>10. /\ \A m \in D(c), n \in D(T) : m < n
         /\ \A m \in D(F), n \in D(b) : m < n
         /\ \A m \in D(a), n \in D(S) : m < n
    BY <1>3, ZenonT(30) DEF Before, D
  <1>11. /\ \A m \in D(F), n \in D(N) : m < n
         /\ \A m \in D(d), n \in D(K) : m < n
         /\ \A m \in D(e), n \in D(T) : m < n
    BY <1>2, <1>10, <1>n, ZenonT(30)
  <1>12. Before(F, N) /\ Before(d, K) /\ Before(e, T)
    BY <1>11, ZenonT(30) DEF Before, D
  <1>13. I(e \o T)
    BY <1>3, <1>4, <1>5, <1>12, <1>n, ZenonT(30)
  <1>14. D(c \o T) = D(e \o T) \cup D(S)
    BY <1>2, <1>n, ZenonT(30)
  <1>15. \A n \in D(S) : n \notin D(F) /\ n \notin D(a) /\ n \notin D(T)
    <2>1. \A n \in D(S) : ~(n < n)
      BY <1>6
    <2>2. \A n \in D(S) : n \in D(b) /\ n \in D(c)
      BY <1>2, ZenonT(30)
    <2> QED
      BY <1>10, <2>1, <2>2, ZenonT(30)
  <1>16. D(e \o T) \cap D(S) = {}
    BY <1>2, <1>15, <1>n, ZenonT(30)
  <1>17. D(b) \ D(a) = D(S)
    BY <1>2, <1>15, ZenonT(30)
  <1> QED
    BY <1>9, <1>13, <1>14, <1>16, <1>17, ZenonT(30) DEF OnlyDropped

\* The buffers of the logging thread that are not in the file yet.
Held == IF pc = "write" THEN buffersToWrite ELSE <<>>

\* What was logged, but for the current buffer.
Earlier == (file \o Held) \o buffers_

\* The reserve of the front end is used only when a buffer is full, so the logging
\* thread, which replaces it then, gets two buffers to make spare ones again.
SpareInv ==
  /\ nextBuffer_ \in {<<>>, Null}
  /\ nextBuffer_ = Null => buffers_ # <<>>
  /\ pc \notin {"write", "recycle"} =>
       newBuffer1 = <<>> /\ newBuffer2 = <<>> /\ buffersToWrite = <<>>
  /\ pc \in {"write", "recycle"} =>
       /\ buffersToWrite # <<>> /\ newBuffer1 = Null
       /\ newBuffer2 = <<>> \/ (newBuffer2 = Null /\ Len(buffersToWrite) >= 2)
  /\ \A k \in DOMAIN currentBuffer_ : currentBuffer_[k] # 0

\* There is no logging thread before start().
NotStarted == opc = "new" => pc = "new"

LoggingInv == TypeOK /\ SpareInv /\ NotStarted /\ LinesInOrder

\* The invariant is what is asked of the logging.
LEMMA LoggingMeans ==
  LoggingInv => TypeOK /\ BuffersReady /\ LinesInOrder
  <1> SUFFICES ASSUME LoggingInv PROVE BuffersReady
    BY DEF LoggingInv
  <1>1. DOMAIN Null = {1} /\ Null[1] = 0
    BY DEF Null
  <1>2. currentBuffer_ # Null
    BY <1>1, ZenonT(30) DEF LoggingInv, SpareInv
  <1> QED
    BY <1>2 DEF LoggingInv, SpareInv, BuffersReady

\* The parts of what was logged.
LEMMA LoggedParts ==
  ASSUME TypeOK
  PROVE  /\ Logged = Earlier \o <<currentBuffer_>>
         /\ Held \in Seq(Buffer) /\ Earlier \in Seq(Buffer) /\ currentBuffer_ \in Buffer
         /\ <<currentBuffer_>> \in Seq(Buffer) /\ Logged \in Seq(Buffer)
  <1>1. /\ file \in Seq(Buffer) /\ buffersToWrite \in Seq(Buffer) /\ buffers_ \in Seq(Buffer)
        /\ currentBuffer_ \in Buffer /\ <<currentBuffer_>> \in Seq(Buffer)
    BY DEF TypeOK, Buffer
  <1>2. Held \in Seq(Buffer)
    BY <1>1 DEF Held
  <1>3. file \o Held \in Seq(Buffer)
    BY <1>1, <1>2, ConcatProperties
  <1>4. Earlier \in Seq(Buffer)
    BY <1>1, <1>3, ConcatProperties DEF Earlier
  <1>5. Logged = Earlier \o <<currentBuffer_>>
    BY ZenonT(30) DEF Logged, Earlier, Held
  <1> QED
    BY <1>1, <1>2, <1>4, <1>5, ConcatProperties

\* A step that leaves the lines alone leaves them in order.
LEMMA SameLogged ==
  ASSUME LinesInOrder, Held' = Held,
         UNCHANGED <<file, buffers_, currentBuffer_, lines, lost>>
  PROVE  LinesInOrder'
  <1>1. Logged' = Logged
    BY ZenonT(30) DEF Logged, Held
  <1>2. Increasing(Logged)' <=> Increasing(Logged)
    BY <1>1, ZenonT(30)
  <1>3. LinesOf(Logged)' = LinesOf(Logged)
    BY <1>1, ZenonT(30) DEF LinesOf, Range
  <1>4. (Notice \in Range(file))' <=> Notice \in Range(file)
    BY ZenonT(30) DEF Notice, Range
  <1> QED
    BY <1>2, <1>3, <1>4, ZenonT(30) DEF LinesInOrder

\* The state before any line.
LEMMA LoggingInit == ASSUME LogSizes PROVE Init => LoggingInv
  <1> SUFFICES ASSUME Init PROVE LoggingInv
    OBVIOUS
  <1>1. TypeOK
    <2>1. <<>> \in Seq(Nat) /\ <<>> \in Seq(Seq(Nat)) /\ Len(<<>>) = 0 /\ DOMAIN <<>> = {}
      OBVIOUS
    <2>2. 0 < Capacity /\ 0 \in 0 .. 0 /\ 0 \in Nat
      BY DEF LogSizes
    <2> QED
      BY <2>1, <2>2, ZenonT(30) DEF Init, TypeOK, Buffer
  <1>2. SpareInv /\ NotStarted
    BY DEF Init, SpareInv, NotStarted, Null
  <1>3. Logged = << <<>> >> /\ lost = {} /\ lines = 0
    BY DEF Init, Logged
  <1>4. LinesOf(<< <<>> >>) = {} /\ Increasing(<< <<>> >>)
    BY NoLines
  <1>5. 1 .. lines = {}
    BY <1>3
  <1> HIDE DEF Logged
  <1>6. Increasing(Logged) /\ LinesOf(Logged) = {}
    BY <1>3, <1>4, ZenonT(30)
  <1>7. LinesInOrder
    BY <1>3, <1>5, <1>6, ZenonT(30) DEF LinesInOrder
  <1> QED
    BY <1>1, <1>2, <1>7 DEF LoggingInv

\* Lines were logged in order up to this one, and it is the next.
LEMMA NextLine ==
  ASSUME LinesInOrder, lines \in Nat, lines' = lines + 1, UNCHANGED <<file, lost>>,
         Increasing(Logged)',
         LinesOf(Logged)' = LinesOf(Logged) \cup {lines + 1}
  PROVE  LinesInOrder'
  <1> DEFINE L == LinesOf(Logged)
             M == LinesOf(Logged)'
  <1>1. L \cup lost = 1 .. lines /\ L \cap lost = {} /\ M = L \cup {lines + 1}
    BY ZenonT(30) DEF LinesInOrder
  <1> HIDE DEF L, M
  <1>2. 1 .. lines + 1 = (1 .. lines) \cup {lines + 1} /\ lines + 1 \notin 1 .. lines
    OBVIOUS
  <1>3. M \cup lost = 1 .. lines + 1 /\ M \cap lost = {}
    BY <1>1, <1>2, ZenonT(30)
  <1>4. lost # {} => (Notice \in Range(file))'
    <2>1. lost # {} => Notice \in Range(file)
      BY ZenonT(30) DEF LinesInOrder
    <2> QED
      BY <2>1, ZenonT(30) DEF Notice, Range
  <1> QED
    BY <1>3, <1>4, ZenonT(30) DEF M, LinesInOrder

\* append() of a line that fits in the current buffer, and of one that needs a new one.
LEMMA LoggingAppend == ASSUME LogSizes, LoggingInv, AppendLine PROVE LoggingInv'
  <1> DEFINE x == lines + 1
             cur == currentBuffer_
  <1>1. lines \in Nat /\ x \in Nat /\ x # 0 /\ cur \in Buffer /\ Len(cur) < Capacity /\ Len(cur) \in Nat
    BY LenProperties DEF LoggingInv, TypeOK, Buffer
  <1>2. /\ lines' = x
        /\ UNCHANGED <<running_, newBuffer1, newBuffer2, buffersToWrite, opc, file, flushed, lost>>
    BY DEF AppendLine, back
  <1>3. pc' = pc \/ (pc = "wait" /\ pc' = "retest")
    BY DEF AppendLine, Notify
  <1>4. Held' = Held
    BY <1>2, <1>3 DEF Held
  <1>n. NotStarted'
    BY <1>2, <1>3 DEF LoggingInv, NotStarted
  <1>5. /\ Logged = Earlier \o <<cur>> /\ Logged' = Earlier' \o <<cur>>'
        /\ Held \in Seq(Buffer) /\ Earlier \in Seq(Buffer) /\ Logged \in Seq(Buffer)
    <2>1. Logged = Earlier \o <<cur>>
      BY ZenonT(30) DEF Logged, Earlier, Held
    <2>2. Logged' = Earlier' \o <<cur>>'
      BY ZenonT(30) DEF Logged, Earlier, Held
    <2> QED
      BY <2>1, <2>2, LoggedParts, ZenonT(30) DEF LoggingInv
  <1>6. Increasing(Logged) /\ \A a \in LinesOf(Logged) : a < x
    <2>1. /\ Increasing(Logged)
          /\ \A a \in LinesOf(Logged) : a \in 1 .. lines
      BY ZenonT(30) DEF LoggingInv, LinesInOrder
    <2> QED
      BY <1>1, <2>1
  <1>7. CASE Fits(cur)
    <2>1. cur' = Append(cur, x) /\ UNCHANGED <<nextBuffer_, buffers_, pc>>
      BY <1>7 DEF AppendLine
    <2>2. Logged' = Earlier \o <<Append(cur, x)>>
      <3>1. Earlier' = Earlier
        BY <1>2, <1>4, <2>1, ZenonT(30) DEF Earlier
      <3> QED
        BY <1>5, <2>1, <3>1, ZenonT(30)
    <2>3. /\ LinesOf(Earlier \o <<Append(cur, x)>>) = LinesOf(Earlier \o <<cur>>) \cup {x}
          /\ Increasing(Earlier \o <<Append(cur, x)>>)
      <3>1. Increasing(Earlier \o <<cur>>) /\ \A a \in LinesOf(Earlier \o <<cur>>) : a < x
        BY <1>5, <1>6, ZenonT(30)
      <3> HIDE DEF cur, x
      <3> QED
        BY <1>1, <1>5, <3>1, LastLine, ZenonT(30)
    <2>4. /\ Increasing(Logged)'
          /\ LinesOf(Logged)' = LinesOf(Logged) \cup {lines + 1}
      BY <1>5, <2>2, <2>3, ZenonT(30)
    <2>5. LinesInOrder'
      BY <1>1, <1>2, <2>4, NextLine, ZenonT(30) DEF LoggingInv
    <2>6. cur' \in Seq(Nat) /\ Len(cur') = Len(cur) + 1
      BY <1>1, <2>1, AppendProperties DEF Buffer
    <2>7. TypeOK'
      <3>1. lines' \in Nat /\ Len(cur') < Capacity
        BY <1>1, <1>2, <1>7, <2>6 DEF LogSizes, Fits
      <3> QED
        BY <1>2, <2>1, <2>6, <3>1, ZenonT(30) DEF LoggingInv, TypeOK, Buffer
    <2>8. \A k \in DOMAIN cur' : cur'[k] # 0
      <3>1. \A k \in DOMAIN cur : cur[k] # 0
        BY DEF LoggingInv, SpareInv
      <3> QED
        BY <1>1, <2>1, <3>1, AppendProperties, LenProperties DEF Buffer
    <2>9. SpareInv'
      BY <1>2, <2>1, <2>8, ZenonT(30) DEF LoggingInv, SpareInv, Null
    <2> QED
      BY <1>n, <2>5, <2>7, <2>9 DEF LoggingInv
  <1>8. CASE ~ Fits(cur)
    <2>1. buffers_' = Append(buffers_, cur) /\ nextBuffer_' = Null
      BY <1>8 DEF AppendLine
    <2>2. cur' = Append(<<>>, x)
      <3>1. NextCurrent = <<>>
        BY DEF LoggingInv, SpareInv, NextCurrent
      <3> QED
        BY <1>8, <3>1 DEF AppendLine
    <2>3. Earlier' = Logged
      <3> DEFINE F == file \o Held
      <3>1. file \in Seq(Buffer) /\ buffers_ \in Seq(Buffer) /\ <<cur>> \in Seq(Buffer)
        BY DEF LoggingInv, TypeOK, Buffer
      <3>2. F \in Seq(Buffer)
        BY <1>5, <3>1, ConcatProperties
      <3>3. buffers_' = buffers_ \o <<cur>>
        BY <2>1, <3>1, <1>1, AppendIsConcat
      <3>4. Earlier' = F \o (buffers_ \o <<cur>>)
        BY <1>2, <1>4, <3>3, ZenonT(30) DEF Earlier
      <3>5. Earlier = F \o buffers_
        BY ZenonT(30) DEF Earlier
      <3> HIDE DEF F, cur
      <3>6. (F \o buffers_) \o <<cur>> = F \o (buffers_ \o <<cur>>)
        BY <3>1, <3>2, ConcatAssociative
      <3> QED
        BY <1>5, <3>4, <3>5, <3>6, ZenonT(30)
    <2>4. Logged' = Logged \o <<Append(<<>>, x)>>
      BY <1>5, <2>2, <2>3, ZenonT(30)
    <2>5. /\ Increasing(Logged)'
          /\ LinesOf(Logged)' = LinesOf(Logged) \cup {lines + 1}
      <3> DEFINE P == Logged
      <3>1. P \in Seq(Buffer) /\ Increasing(P) /\ \A a \in LinesOf(P) : a < x
        BY <1>5, <1>6, ZenonT(30)
      <3>2. Logged' = P \o <<Append(<<>>, x)>>
        BY <2>4
      <3> HIDE DEF P, x
      <3>3. LinesOf(P \o << <<>> >>) = LinesOf(P) /\ Increasing(P \o << <<>> >>)
        BY <3>1, EmptyAdded, ZenonT(30)
      <3>4. \A a \in LinesOf(P \o << <<>> >>) : a < x
        BY <3>1, <3>3, ZenonT(30)
      <3>5. <<>> \in Buffer
        BY DEF Buffer
      <3>6. /\ LinesOf(P \o <<Append(<<>>, x)>>) = LinesOf(P \o << <<>> >>) \cup {x}
            /\ Increasing(P \o <<Append(<<>>, x)>>)
        BY <1>1, <3>1, <3>3, <3>4, <3>5, LastLine, ZenonT(30)
      <3> QED
        BY <3>2, <3>3, <3>6, ZenonT(30) DEF P, x
    <2>6. LinesInOrder'
      BY <1>1, <1>2, <2>5, NextLine, ZenonT(30) DEF LoggingInv
    <2>7. /\ cur' \in Seq(Nat) /\ Len(cur') = 1 /\ DOMAIN cur' = {1} /\ cur'[1] = x
          /\ Len(cur) = Capacity - 1
      BY <1>1, <1>8, <2>2 DEF LogSizes, Fits
    <2>8. /\ buffers_' \in Seq(Seq(Nat)) /\ buffers_' # <<>>
          /\ \A i \in DOMAIN buffers_' : Len(buffers_'[i]) = Capacity - 1
      <3>1. /\ buffers_ \in Seq(Buffer) /\ cur \in Buffer
            /\ \A i \in DOMAIN buffers_ : Len(buffers_[i]) = Capacity - 1
        BY <1>1 DEF LoggingInv, TypeOK, Buffer
      <3> HIDE DEF cur
      <3>2. /\ Append(buffers_, cur) \in Seq(Buffer) /\ Len(buffers_) \in Nat
            /\ DOMAIN buffers_ = 1 .. Len(buffers_)
            /\ DOMAIN Append(buffers_, cur) = 1 .. Len(buffers_) + 1
            /\ Len(Append(buffers_, cur)) = Len(buffers_) + 1
            /\ \A i \in 1 .. Len(buffers_) : Append(buffers_, cur)[i] = buffers_[i]
            /\ Append(buffers_, cur)[Len(buffers_) + 1] = cur
        BY <3>1, AppendProperties, LenProperties
      <3> DEFINE s == Append(buffers_, cur)
                 n == Len(buffers_)
      <3> HIDE DEF s, n
      <3>3. \A i \in DOMAIN s : i \in DOMAIN buffers_ \/ i = n + 1
        BY <3>2 DEF s, n
      <3>4. \A i \in DOMAIN s : Len(s[i]) = Capacity - 1
        BY <2>7, <3>1, <3>2, <3>3, ZenonT(30) DEF s, n
      <3>5. s # <<>>
        BY <3>2 DEF s, n
      <3> QED
        BY <2>1, <3>2, <3>4, <3>5, ZenonT(30) DEF s, Buffer
    <2>9. TypeOK'
      <3>1. lines' \in Nat /\ Len(cur') < Capacity
        BY <1>1, <1>2, <2>7 DEF LogSizes
      <3>2. nextBuffer_' \in Seq(Nat)
        BY <2>1 DEF Null
      <3>3. pc' \in {"new", "while", "lock", "wait", "retest", "write", "recycle", "done"}
        BY <1>3 DEF LoggingInv, TypeOK
      <3> QED
        BY <1>2, <2>7, <2>8, <3>1, <3>2, <3>3, ZenonT(30) DEF LoggingInv, TypeOK, Buffer
    <2>10. SpareInv'
      <3>1. \A k \in DOMAIN cur' : cur'[k] # 0
        BY <1>1, <2>7
      <3>2. pc' \in {"write", "recycle"} <=> pc \in {"write", "recycle"}
        BY <1>3
      <3> QED
        BY <1>2, <2>1, <2>8, <3>1, <3>2, ZenonT(30) DEF LoggingInv, SpareInv, Null
    <2> QED
      BY <1>n, <2>6, <2>9, <2>10 DEF LoggingInv
  <1> QED
    BY <1>7, <1>8

\* The swap of the buffers, with an empty spare buffer as the current one.
LEMMA LoggingSwap == ASSUME LogSizes, LoggingInv, Swap PROVE LoggingInv'
  <1> DEFINE cur == currentBuffer_
             W == Append(buffers_, cur)
  <1>1. /\ file \in Seq(Buffer) /\ buffers_ \in Seq(Buffer) /\ cur \in Buffer /\ <<cur>> \in Seq(Buffer)
        /\ Len(cur) < Capacity /\ \A i \in DOMAIN buffers_ : Len(buffers_[i]) = Capacity - 1
    BY DEF LoggingInv, TypeOK, Buffer
  <1>2. /\ pc \notin {"write", "recycle"} /\ pc' = "write"
        /\ newBuffer1 = <<>> /\ newBuffer2 = <<>> /\ buffersToWrite = <<>>
    BY DEF LoggingInv, SpareInv, Swap
  <1>3. /\ buffersToWrite' = W /\ buffers_' = <<>> /\ cur' = <<>> /\ newBuffer1' = Null
        /\ UNCHANGED <<running_, opc, file, flushed, lines, lost>>
    BY <1>2 DEF Swap, SwapBuffers
  <1>n. NotStarted'
    BY <1>3 DEF LoggingInv, NotStarted, Swap
  <1>4. \/ nextBuffer_ = Null /\ nextBuffer_' = <<>> /\ newBuffer2' = Null
        \/ nextBuffer_ = <<>> /\ nextBuffer_' = <<>> /\ newBuffer2' = <<>>
    BY <1>2 DEF LoggingInv, SpareInv, Swap, SwapBuffers
  <1>5. /\ W \in Seq(Buffer) /\ Len(buffers_) \in Nat /\ Len(W) = Len(buffers_) + 1
        /\ DOMAIN buffers_ = 1 .. Len(buffers_) /\ DOMAIN W = 1 .. Len(buffers_) + 1
        /\ \A i \in 1 .. Len(buffers_) : W[i] = buffers_[i]
        /\ W[Len(buffers_) + 1] = cur /\ W = buffers_ \o <<cur>>
    BY <1>1, AppendProperties, LenProperties, AppendIsConcat
  <1> HIDE DEF W
  <1>6. \A i \in DOMAIN W : Len(W[i]) < Capacity
    <2>1. \A i \in DOMAIN W : i \in DOMAIN buffers_ \/ i = Len(buffers_) + 1
      BY <1>5
    <2>2. Capacity - 1 < Capacity
      BY DEF LogSizes
    <2> QED
      BY <1>1, <1>5, <2>1, <2>2, ZenonT(30)
  <1>7. TypeOK'
    <2>1. <<>> \in Seq(Nat) /\ <<>> \in Seq(Seq(Nat)) /\ Len(<<>>) = 0 /\ DOMAIN <<>> = {} /\ 0 < Capacity
      BY DEF LogSizes
    <2>2. Null \in Seq(Nat) /\ W \in Seq(Seq(Nat))
      BY <1>5 DEF Null, Buffer
    <2>3. nextBuffer_' \in Seq(Nat) /\ newBuffer2' \in Seq(Nat)
      BY <1>4, <2>1, <2>2, ZenonT(30)
    <2> QED
      BY <1>2, <1>3, <1>6, <2>1, <2>2, <2>3, ZenonT(30) DEF LoggingInv, TypeOK, Buffer
  <1>8. SpareInv'
    <2>1. nextBuffer_' = <<>> /\ <<>> # Null /\ DOMAIN cur' = {}
      BY <1>3, <1>4 DEF Null
    <2>2. W # <<>> /\ (nextBuffer_ = Null => Len(W) >= 2)
      <3>1. buffers_ # <<>> => Len(buffers_) >= 1
        BY <1>1, <1>5, EmptySeq
      <3>2. nextBuffer_ = Null => buffers_ # <<>>
        BY DEF LoggingInv, SpareInv
      <3> QED
        BY <1>5, <3>1, <3>2
    <2>3. newBuffer2' = <<>> \/ (newBuffer2' = Null /\ Len(W) >= 2)
      BY <1>4, <2>2, ZenonT(30)
    <2>4. pc' \in {"write", "recycle"}
      BY <1>2
    <2> QED
      BY <1>3, <2>1, <2>2, <2>3, <2>4, ZenonT(30) DEF SpareInv, Null
  <1>9. Logged' = Logged \o << <<>> >>
    <2>1. Held = <<>> /\ Held' = W
      BY <1>2, <1>3 DEF Held
    <2>2. Logged = ((file \o <<>>) \o buffers_) \o <<cur>>
      BY <2>1, ZenonT(30) DEF Logged, Held
    <2>3. Logged' = ((file \o W) \o <<>>) \o << <<>> >>
      BY <1>3, <2>1, ZenonT(30) DEF Logged, Held
    <2> HIDE DEF cur
    <2>4. file \o <<>> = file
      BY <1>1, ConcatEmptySeq
    <2>5. file \o W \in Seq(Buffer)
      BY <1>1, <1>5, ConcatProperties
    <2>6. (file \o W) \o <<>> = file \o W
      BY <2>5, ConcatEmptySeq
    <2>7. (file \o buffers_) \o <<cur>> = file \o (buffers_ \o <<cur>>)
      BY <1>1, ConcatAssociative
    <2> QED
      BY <1>5, <2>2, <2>3, <2>4, <2>6, <2>7, ZenonT(30)
  <1>10. LinesInOrder'
    <2>1. Logged \in Seq(Buffer)
      BY LoggedParts DEF LoggingInv
    <2>2. /\ Increasing(Logged)
          /\ LinesOf(Logged) \cup lost = 1 .. lines
          /\ LinesOf(Logged) \cap lost = {}
          /\ lost # {} => Notice \in Range(file)
      BY ZenonT(30) DEF LoggingInv, LinesInOrder
    <2>3. /\ Increasing(Logged)'
          /\ LinesOf(Logged)' = LinesOf(Logged)
      BY <1>9, <2>1, <2>2, EmptyAdded, ZenonT(30)
    <2>4. lost # {} => (Notice \in Range(file))'
      BY <1>3, <2>2, ZenonT(30) DEF Notice, Range
    <2> QED
      BY <1>3, <2>2, <2>3, <2>4, ZenonT(30) DEF LinesInOrder
  <1> QED
    BY <1>n, <1>7, <1>8, <1>10 DEF LoggingInv

\* The buffers are spare ones again.
LEMMA LoggingRecycle == ASSUME LoggingInv, Recycle PROVE LoggingInv'
  <1>1. /\ pc = "recycle" /\ pc' = "while" /\ buffersToWrite' = <<>> /\ flushed' = Len(file)
        /\ UNCHANGED <<running_, currentBuffer_, nextBuffer_, buffers_, opc, file, lines, lost>>
    BY DEF Recycle, front
  <1>2. /\ buffersToWrite # <<>> /\ newBuffer1 = Null
        /\ newBuffer2 = <<>> \/ (newBuffer2 = Null /\ Len(buffersToWrite) >= 2)
    BY <1>1 DEF LoggingInv, SpareInv
  <1>3. Len(buffersToWrite) \in Nat /\ Len(buffersToWrite) >= 1
    BY <1>2, EmptySeq, LenProperties DEF LoggingInv, TypeOK
  <1>4. newBuffer1' = <<>> /\ newBuffer2' = <<>>
    <2>1. Null # <<>>
      BY DEF Null
    <2> QED
      BY <1>2, <1>3, <2>1 DEF Recycle
  <1>5. TypeOK'
    <2>1. <<>> \in Seq(Nat) /\ <<>> \in Seq(Seq(Nat)) /\ DOMAIN <<>> = {}
      OBVIOUS
    <2>2. Len(file) \in 0 .. Len(file)
      BY LenProperties DEF LoggingInv, TypeOK
    <2> QED
      BY <1>1, <1>4, <2>1, <2>2, ZenonT(30) DEF LoggingInv, TypeOK, Buffer
  <1>6. SpareInv'
    BY <1>1, <1>4, ZenonT(30) DEF LoggingInv, SpareInv, Null
  <1>7. Held' = Held /\ NotStarted'
    BY <1>1 DEF Held, LoggingInv, NotStarted
  <1>8. LinesInOrder'
    BY <1>1, <1>7, SameLogged, ZenonT(30) DEF LoggingInv
  <1> QED
    BY <1>5, <1>6, <1>7, <1>8 DEF LoggingInv

\* What is not written of the buffers is nothing or an empty one.
LEMMA WrittenParts ==
  ASSUME NEW s \in Seq(Buffer), s # <<>>
  PROVE  /\ Written(s) \in Seq(Buffer)
         /\ \E r \in {<<>>, << <<>> >>} : s = Written(s) \o r
  <1> DEFINE n == Len(s)
  <1>1. n \in Nat /\ n >= 1 /\ n \in 1 .. n /\ 1 \in 1 .. n
    BY EmptySeq, LenProperties
  <1>2. CASE s[n] = <<>>
    <2>1. Written(s) = SubSeq(s, 1, n - 1)
      BY <1>2 DEF Written
    <2>2. \A i \in 1 .. n - 1 : s[i] \in Buffer
      BY <1>1, ElementOfSeq
    <2>3. SubSeq(s, 1, n - 1) \in Seq(Buffer)
      BY <1>1, <2>2, SubSeqProperties
    <2>4. SubSeq(s, 1, n) = SubSeq(s, 1, n - 1) \o <<s[n]>>
      BY <1>1, SubSeqRecursiveSecond
    <2>5. SubSeq(s, 1, n) = s
      BY SubSeqFull
    <2> QED
      BY <1>2, <2>1, <2>3, <2>4, <2>5, ZenonT(30)
  <1>3. CASE s[n] # <<>>
    <2>1. Written(s) = s
      BY <1>3 DEF Written
    <2>2. s = s \o <<>>
      BY ConcatEmptySeq
    <2> QED
      BY <2>1, <2>2, ZenonT(30)
  <1> QED
    BY <1>2, <1>3

\* What threadFunc() keeps of the buffers, and what it drops.
Kept(s) == IF Len(s) > MaxBuffers THEN SubSeq(s, 1, 2) ELSE s

LEMMA KeptParts ==
  ASSUME LogSizes, NEW s \in Seq(Buffer), s # <<>>
  PROVE  /\ Kept(s) \in Seq(Buffer) /\ Kept(s) # <<>> /\ (Len(s) >= 2 => Len(Kept(s)) >= 2)
         /\ \A i \in DOMAIN Kept(s) : i \in DOMAIN s /\ Kept(s)[i] = s[i]
         /\ \E t \in Seq(Buffer) : s = Kept(s) \o t
  <1> DEFINE n == Len(s)
  <1>1. n \in Nat /\ n >= 1 /\ DOMAIN s = 1 .. n /\ MaxBuffers \in Nat /\ MaxBuffers >= 1
    BY EmptySeq, LenProperties DEF LogSizes
  <1>2. CASE n > MaxBuffers
    <2> DEFINE k == SubSeq(s, 1, 2)
               t == SubSeq(s, 3, n)
    <2>1. Kept(s) = k /\ n >= 2
      BY <1>1, <1>2 DEF Kept
    <2>2. \A i \in 1 .. n : s[i] \in Buffer
      BY <1>1, ElementOfSeq
    <2>3. k \in Seq(Buffer) /\ Len(k) = 2 /\ \A i \in 1 .. 2 : k[i] = s[i]
      BY <1>1, <2>1, <2>2, SubSeqProperties
    <2>4. t \in Seq(Buffer)
      BY <1>1, <2>1, <2>2, SubSeqProperties
    <2>5. s = k \o t
      <3>1. SubSeq(s, 1, n) = s
        BY SubSeqFull
      <3>2. SubSeq(s, 1, 2) \o SubSeq(s, 2 + 1, n) = SubSeq(s, 1, n)
        BY <1>1, <2>1, ConcatAdjacentSubSeq
      <3> QED
        BY <3>1, <3>2
    <2> HIDE DEF k, t
    <2>6. DOMAIN k = 1 .. 2 /\ k # <<>>
      <3>1. DOMAIN k = 1 .. Len(k)
        BY <2>3, LenProperties, ZenonT(30)
      <3>2. Len(<<>>) # 2
        OBVIOUS
      <3> QED
        BY <2>3, <3>1, <3>2, ZenonT(30)
    <2>7. \A i \in DOMAIN k : i \in DOMAIN s /\ k[i] = s[i]
      BY <1>1, <2>1, <2>3, <2>6
    <2>8. Len(k) >= 2
      BY <2>3
    <2> QED
      BY <2>1, <2>3, <2>4, <2>5, <2>6, <2>7, <2>8, ZenonT(30)
  <1>3. CASE ~ (n > MaxBuffers)
    <2>1. Kept(s) = s
      BY <1>3 DEF Kept
    <2>2. s = s \o <<>> /\ <<>> \in Seq(Buffer)
      BY ConcatEmptySeq
    <2> QED
      BY <2>1, <2>2, ZenonT(30)
  <1> QED
    BY <1>2, <1>3

\* The write of what is kept, with a notice in front if anything is dropped.
LEMMA LoggingWrite == ASSUME LogSizes, LoggingInv, Write PROVE LoggingInv'
  <1> DEFINE W == buffersToWrite
             C == <<currentBuffer_>>
             Q == Kept(W)
             K == Written(Q)
             N == IF Len(W) > MaxBuffers THEN <<Notice>> ELSE <<>>
             T == buffers_ \o C
  <1>1. /\ file \in Seq(Buffer) /\ W \in Seq(Buffer) /\ buffers_ \in Seq(Buffer) /\ C \in Seq(Buffer)
        /\ N \in Seq(Buffer)
    BY DEF LoggingInv, TypeOK, Buffer, Notice
  <1>2. pc = "write" /\ pc' = "recycle" /\ W # <<>>
    BY DEF LoggingInv, SpareInv, Write
  <1>3. /\ Q \in Seq(Buffer) /\ Q # <<>> /\ (Len(W) >= 2 => Len(Q) >= 2)
        /\ \A i \in DOMAIN Q : i \in DOMAIN W /\ Q[i] = W[i]
    BY <1>1, <1>2, KeptParts, ZenonT(30)
  <1>4. PICK S \in Seq(Buffer) : W = Q \o S
    BY <1>1, <1>2, KeptParts, ZenonT(30)
  <1>5. K \in Seq(Buffer) /\ \E r \in {<<>>, << <<>> >>} : Q = K \o r
    BY <1>3, WrittenParts, ZenonT(30)
  <1>6. PICK R \in {<<>>, << <<>> >>} : Q = K \o R
    BY <1>5
  <1>7. R \in Seq(Buffer)
    <2>1. <<>> \in Seq(Buffer) /\ << <<>> >> \in Seq(Buffer)
      BY DEF Buffer
    <2> QED
      BY <1>6, <2>1, ZenonT(30)
  <1>8. T \in Seq(Buffer) /\ file \o W \in Seq(Buffer) /\ file \o N \in Seq(Buffer)
    BY <1>1, ConcatProperties
  <1>9. (file \o N) \o K \in Seq(Buffer)
    BY <1>5, <1>8, ConcatProperties
  <1>10. /\ file' = (file \o N) \o K /\ W' = Q
         /\ lost' = lost \cup (LinesOf(W) \ LinesOf(Q))
         /\ UNCHANGED <<running_, currentBuffer_, nextBuffer_, buffers_, newBuffer1, newBuffer2, opc,
                        flushed, lines>>
    <2>1. file \o <<>> = file /\ Append(file, Notice) = file \o <<Notice>>
      <3>1. Notice \in Buffer
        BY DEF Notice, Buffer
      <3> QED
        BY <1>1, <3>1, ConcatEmptySeq, AppendIsConcat
    <2>2. (IF Len(W) > MaxBuffers THEN Append(file, Notice) ELSE file) = file \o N
      BY <2>1
    <2>3. file' = (IF Len(W) > MaxBuffers THEN Append(file, Notice) ELSE file) \o K
      BY ZenonT(30) DEF Write, Kept
    <2>4. W' = Q /\ lost' = lost \cup (LinesOf(W) \ LinesOf(Q))
      BY ZenonT(30) DEF Write, Kept
    <2>5. UNCHANGED <<running_, currentBuffer_, nextBuffer_, buffers_, newBuffer1, newBuffer2, opc,
                      flushed, lines>>
      BY DEF Write, front
    <2> QED
      BY <2>2, <2>3, <2>4, <2>5, ZenonT(30)
  <1>11. Logged = (file \o W) \o T
    <2>1. Logged = ((file \o W) \o buffers_) \o C
      BY <1>2 DEF Logged
    <2> HIDE DEF W, C
    <2>2. ((file \o W) \o buffers_) \o C = (file \o W) \o (buffers_ \o C)
      BY <1>1, <1>8, ConcatAssociative
    <2> QED
      BY <2>1, <2>2
  <1>12. Logged' = ((file \o N) \o K) \o T
    <2> DEFINE H == (file \o N) \o K
    <2>1. Logged' = ((H \o <<>>) \o buffers_) \o C
      <3>1. ~ (pc' = "write")
        BY <1>2
      <3> QED
        BY <1>10, <3>1, ZenonT(30) DEF Logged
    <2>2. H \in Seq(Buffer)
      BY <1>9
    <2> HIDE DEF H, W, C
    <2>3. H \o <<>> = H
      BY <2>2, ConcatEmptySeq
    <2>4. (H \o buffers_) \o C = H \o (buffers_ \o C)
      BY <1>1, <2>2, ConcatAssociative
    <2>5. Logged' = H \o (buffers_ \o C)
      BY <2>1, <2>3, <2>4, ZenonT(30)
    <2> QED
      BY <2>5 DEF H
  <1>13. /\ LinesOf(N) = {} /\ Increasing(N) /\ LinesOf(R) = {}
    <2>1. N = <<>> \/ N = <<Notice>>
      OBVIOUS
    <2> HIDE DEF N
    <2> QED
      BY <1>6, <2>1, NoLines, ZenonT(30)
  <1>14. /\ Increasing(Logged)
         /\ LinesOf(Logged) \cup lost = 1 .. lines
         /\ LinesOf(Logged) \cap lost = {}
         /\ lost # {} => Notice \in Range(file)
    BY ZenonT(30) DEF LoggingInv, LinesInOrder
  <1>15. Logged = (file \o ((K \o R) \o S)) \o T /\ W = (K \o R) \o S
    BY <1>4, <1>6, <1>11, ZenonT(30)
  <1>16. Len(W) > MaxBuffers => N = <<Notice>>
    OBVIOUS
  <1>17. ~ (Len(W) > MaxBuffers) => Q = W
    BY DEF Kept
  <1> HIDE DEF W, C, Q, K, N, T
  <1>18. /\ Increasing(((file \o N) \o K) \o T)
         /\ LinesOf((file \o ((K \o R) \o S)) \o T) =
              LinesOf(((file \o N) \o K) \o T) \cup LinesOf(S)
         /\ LinesOf(((file \o N) \o K) \o T) \cap LinesOf(S) = {}
         /\ LinesOf((K \o R) \o S) \ LinesOf(K \o R) = LinesOf(S)
    <2>1. Increasing((file \o ((K \o R) \o S)) \o T)
      BY <1>14, <1>15, ZenonT(30)
    <2>2. OnlyDropped(file, N, K, R, S, T)
      BY <1>1, <1>4, <1>5, <1>7, <1>8, <1>13, <2>1, SomeDropped, ZenonT(30)
    <2> QED
      BY <2>2, ZenonT(30) DEF OnlyDropped
  <1>19. lost' = lost \cup LinesOf(S)
    BY <1>6, <1>10, <1>15, <1>18, ZenonT(30)
  <1>20. /\ Increasing(Logged)'
         /\ LinesOf(Logged) = LinesOf(Logged)' \cup LinesOf(S)
         /\ LinesOf(Logged)' \cap LinesOf(S) = {}
    BY <1>12, <1>15, <1>18, ZenonT(30)
  <1>21. lost' # {} => (Notice \in Range(file))'
    <2>0. \A i \in DOMAIN (file \o N) : i \in DOMAIN file' /\ file'[i] = (file \o N)[i]
      BY <1>5, <1>8, <1>10, Joined, ZenonT(30)
    <2>1. \A i \in DOMAIN file : i \in DOMAIN file' /\ file'[i] = file[i]
      <3>1. \A i \in DOMAIN file : i \in DOMAIN (file \o N) /\ (file \o N)[i] = file[i]
        BY <1>1, Joined, ZenonT(30)
      <3> QED
        BY <2>0, <3>1, ZenonT(30)
    <2>2. CASE lost # {}
      <3>1. PICK i \in DOMAIN file : file[i] = Notice
        BY <1>14, <2>2, ZenonT(30) DEF Range
      <3>2. i \in DOMAIN file' /\ file'[i] = Notice
        BY <2>1, <3>1, ZenonT(30)
      <3> QED
        BY <3>2, ZenonT(30) DEF Range, Notice
    <2>3. CASE Len(W) > MaxBuffers
      <3>1. 1 \in DOMAIN N /\ N[1] = Notice
        BY <1>16, <2>3
      <3>2. \A i \in DOMAIN N : i + Len(file) \in DOMAIN (file \o N) /\ (file \o N)[i + Len(file)] = N[i]
        BY <1>1, Joined, ZenonT(30)
      <3>3. 1 + Len(file) \in DOMAIN file' /\ file'[1 + Len(file)] = Notice
        BY <2>0, <3>1, <3>2, ZenonT(30)
      <3> QED
        BY <3>3, ZenonT(30) DEF Range, Notice
    <2>4. CASE lost = {} /\ ~ (Len(W) > MaxBuffers)
      <3>1. lost' = {}
        BY <1>10, <1>17, <2>4, ZenonT(30)
      <3> QED
        BY <3>1
    <2> QED
      BY <2>2, <2>3, <2>4
  <1>22. LinesInOrder'
    <2>1. LinesOf(Logged)' \cup lost' = 1 .. lines
      BY <1>14, <1>19, <1>20, ZenonT(30)
    <2>2. LinesOf(Logged)' \cap lost' = {}
      BY <1>14, <1>19, <1>20, ZenonT(30)
    <2>3. lines' = lines
      BY <1>10
    <2> QED
      BY <1>20, <1>21, <2>1, <2>2, <2>3, ZenonT(30) DEF LinesInOrder
  <1>23. SpareInv'
    <2>1. W' = Q /\ UNCHANGED <<currentBuffer_, nextBuffer_, buffers_, newBuffer1, newBuffer2>>
      BY <1>10
    <2>2. newBuffer1 = Null /\ (newBuffer2 = <<>> \/ (newBuffer2 = Null /\ Len(Q) >= 2))
      BY <1>2, <1>3, ZenonT(30) DEF LoggingInv, SpareInv, W
    <2>3. pc' \in {"write", "recycle"}
      BY <1>2
    <2> QED
      BY <1>3, <2>1, <2>2, <2>3, ZenonT(30) DEF LoggingInv, SpareInv, Null, W
  <1>24. TypeOK'
    <2>1. \A i \in DOMAIN Q : Len(Q[i]) < Capacity
      BY <1>3, ZenonT(30) DEF LoggingInv, TypeOK, W
    <2>2. Len(file) \in Nat /\ Len(file') \in Nat /\ Len(file) <= Len(file')
      <3>1. Len(file \o N) = Len(file) + Len(N) /\ Len(file) \in Nat /\ Len(N) \in Nat
        BY <1>1, Joined
      <3>2. Len(file') = Len(file \o N) + Len(K) /\ Len(K) \in Nat
        BY <1>5, <1>8, <1>10, Joined, ZenonT(30)
      <3> QED
        BY <3>1, <3>2
    <2>3. flushed' \in 0 .. Len(file')
      <3>1. flushed \in 0 .. Len(file) /\ flushed' = flushed
        BY <1>10 DEF LoggingInv, TypeOK
      <3> QED
        BY <2>2, <3>1
    <2>4. lost' \subseteq Nat
      BY <1>4, <1>19, LinesTyped, ZenonT(30) DEF LoggingInv, TypeOK
    <2>5. file' \in Seq(Seq(Nat)) /\ Q \in Seq(Seq(Nat))
      BY <1>3, <1>9, <1>10, ZenonT(30) DEF Buffer
    <2>6. W' = Q /\ UNCHANGED <<running_, currentBuffer_, nextBuffer_, buffers_, newBuffer1, newBuffer2, opc,
                                lines>>
      BY <1>10
    <2> QED
      BY <1>2, <2>1, <2>3, <2>4, <2>5, <2>6, ZenonT(30) DEF LoggingInv, TypeOK, Buffer, W
  <1>25. NotStarted'
    BY <1>2, <1>10 DEF LoggingInv, NotStarted
  <1> QED
    BY <1>22, <1>23, <1>24, <1>25 DEF LoggingInv

\* The other steps of the owner and of the logging thread move nothing but them.
LEMMA LoggingMoves ==
  ASSUME LoggingInv,
         UNCHANGED <<currentBuffer_, nextBuffer_, buffers_, newBuffer1, newBuffer2, buffersToWrite, file,
                     lines, lost>>,
         running_' \in BOOLEAN, opc' \in {"new", "running", "notify", "join", "stopped"},
         flushed' \in 0 .. Len(file), pc \notin {"write", "recycle"} \/ pc' = pc,
         pc' \in {"new", "while", "lock", "wait", "retest", "done"} \/ pc' = pc, NotStarted'
  PROVE  LoggingInv'
  <1>1. TypeOK'
    <2>1. pc' \in {"new", "while", "lock", "wait", "retest", "write", "recycle", "done"}
      BY DEF LoggingInv, TypeOK
    <2> QED
      BY <2>1, ZenonT(30) DEF LoggingInv, TypeOK, Buffer
  <1>2. pc' \in {"write", "recycle"} <=> pc \in {"write", "recycle"}
    OBVIOUS
  <1>3. SpareInv'
    BY <1>2, ZenonT(30) DEF LoggingInv, SpareInv, Null
  <1>4. Held' = Held
    BY DEF Held
  <1>5. LinesInOrder'
    BY <1>4, SameLogged, ZenonT(30) DEF LoggingInv
  <1> QED
    BY <1>1, <1>3, <1>5, ZenonT(30) DEF LoggingInv

\* Every step of the logging keeps the invariant.
LEMMA LoggingSteps == ASSUME LogSizes, LoggingInv, [Next]_vars PROVE LoggingInv'
  <1> DEFINE Still == UNCHANGED <<currentBuffer_, nextBuffer_, buffers_, newBuffer1, newBuffer2,
                                  buffersToWrite, file, lines, lost>>
             Owner == {"new", "running", "notify", "join", "stopped"}
             Threads == {"new", "while", "lock", "wait", "retest", "done"}
             Moved == /\ Still /\ running_' \in BOOLEAN /\ opc' \in Owner
                      /\ flushed' \in 0 .. Len(file) /\ (pc \notin {"write", "recycle"} \/ pc' = pc)
                      /\ (pc' \in Threads \/ pc' = pc) /\ NotStarted'
  <1>1. running_ \in BOOLEAN /\ opc \in Owner /\ flushed \in 0 .. Len(file) /\ NotStarted
    BY DEF LoggingInv, TypeOK
  <1>2. Moved => LoggingInv'
    BY LoggingMoves, ZenonT(30)
  <1>3. CASE Start
    <2>1. pc \notin {"write", "recycle"}
      BY <1>1, <1>3 DEF Start, NotStarted
    <2> QED
      BY <1>1, <1>2, <1>3 DEF Start, front, back, NotStarted
  <1>4. CASE StopRunning
    BY <1>1, <1>2, <1>4 DEF StopRunning, front, back, NotStarted
  <1>5. CASE StopNotify
    BY <1>1, <1>2, <1>5 DEF StopNotify, Notify, front, back, NotStarted
  <1>6. CASE StopJoin
    BY <1>1, <1>2, <1>6 DEF StopJoin, front, back, NotStarted
  <1>7. CASE TestRunning
    <2>1. Len(file) \in 0 .. Len(file)
      BY LenProperties DEF LoggingInv, TypeOK
    <2> QED
      BY <1>1, <1>2, <1>7, <2>1 DEF TestRunning, front, back, NotStarted
  <1>8. CASE Wait
    BY <1>1, <1>2, <1>8 DEF Wait, front, back, NotStarted
  <1>9. CASE WaitTimeout
    BY <1>1, <1>2, <1>9 DEF WaitTimeout, front, back, NotStarted
  <1>10. CASE UNCHANGED vars
    BY <1>1, <1>2, <1>10 DEF vars, NotStarted
  <1> QED
    BY <1>3, <1>4, <1>5, <1>6, <1>7, <1>8, <1>9, <1>10, LoggingAppend, LoggingSwap, LoggingWrite,
       LoggingRecycle DEF Next, LoggingStep

-----------------------------------------------------------------------------
(* LogFile.                                                                *)

\* The start of the period of a time, as startOfPeriod_ holds it.
LEMMA PeriodTyped == ASSUME FileSizes, NEW t \in Nat PROVE PeriodOf(t) \in Nat
  <1>1. t \div Period \in Nat
    BY DEF FileSizes
  <1> QED
    BY <1>1 DEF FileSizes, PeriodOf

\* Later times are of later periods.
LEMMA PeriodMonotone ==
  ASSUME FileSizes, NEW s \in Nat, NEW t \in Nat, s <= t
  PROVE  PeriodOf(s) <= PeriodOf(t)
  <1> DEFINE p == s \div Period
             q == t \div Period
  <1>1. p \in Nat /\ q \in Nat /\ Period \in Nat /\ Period > 0
    BY DEF FileSizes
  <1>2. p * Period <= s /\ t < q * Period + Period
    BY DEF FileSizes
  <1> HIDE DEF p, q
  <1>3. p <= q
    <2> SUFFICES ASSUME p >= q + 1 PROVE FALSE
      BY <1>1
    <2>1. p * Period >= (q + 1) * Period
      BY <1>1
    <2>2. (q + 1) * Period = q * Period + Period
      BY <1>1
    <2>3. p * Period \in Int /\ q * Period \in Int /\ (q + 1) * Period \in Int
      BY <1>1
    <2> QED
      BY <1>1, <1>2, <2>1, <2>2, <2>3
  <1>4. p * Period <= q * Period
    BY <1>1, <1>3
  <1> QED
    BY <1>4 DEF p, q, PeriodOf

\* A sequence over a set is one over a larger set.
LEMMA SeqWiden == ASSUME NEW S, NEW T, S \subseteq T, NEW s \in Seq(S) PROVE s \in Seq(T)
  BY SeqDef

\* The lines of later periods in the file of this one.
Late == {i \in DOMAIN stamps : PeriodOf(stamps[i]) # startOfPeriod_}

\* The last lines of the file, which were not flushed.
InBuffer == Len(stamps) - unflushed + 1 .. Len(stamps)

\* A line of a later period advances count_, and the check that resets it finds
\* none, or rolls the file; lines in the buffer are not older than lastFlush_.
FileInv ==
  /\ FileTypeOK
  /\ FileBounded
  /\ IsFiniteSet(Late) /\ Cardinality(Late) <= count_
  /\ \A i \in InBuffer : stamps[i] >= lastFlush_
  /\ FlushedInTime

\* What the types say, in numbers.
FileTypes ==
  /\ now \in 1 .. MaxTime /\ appended \in 1 .. MaxTime /\ burst \in 0 .. MaxAppends
  /\ count_ \in 0 .. CheckEveryN - 1
  /\ lastRoll_ \in 1 .. now /\ lastFlush_ \in lastRoll_ .. now
  /\ startOfPeriod_ = PeriodOf(lastRoll_) /\ startOfPeriod_ \in Nat
  /\ writtenBytes_ \in Nat
  /\ stamps \in Seq(lastRoll_ .. now) /\ Len(stamps) \in Nat /\ unflushed \in 0 .. Len(stamps)
  /\ DOMAIN stamps = 1 .. Len(stamps)
  /\ \A i \in 1 .. Len(stamps) : stamps[i] \in lastRoll_ .. now

\* The types are among what the file keeps.
LEMMA FileTyped == ASSUME FileSizes, FileInv PROVE FileTypes
  <1>1. FileTypeOK
    BY DEF FileInv
  <1>2. startOfPeriod_ \in Nat
    BY <1>1, PeriodTyped DEF FileSizes, FileTypeOK
  <1>3. /\ Len(stamps) \in Nat /\ DOMAIN stamps = 1 .. Len(stamps)
        /\ \A i \in 1 .. Len(stamps) : stamps[i] \in lastRoll_ .. now
    BY <1>1, LenProperties, ElementOfSeq DEF FileTypeOK
  <1> QED
    BY <1>1, <1>2, <1>3 DEF FileTypeOK, FileTypes

\* Fewer lines than checkEveryN_ are late.
LEMMA FileMeans ==
  ASSUME FileSizes, FileInv
  PROVE  FileTypeOK /\ FileBounded /\ PeriodsSeparated /\ FlushedInTime
  <1>2. Cardinality(Late) < CheckEveryN
    <2>1. Cardinality(Late) \in Nat /\ Cardinality(Late) <= count_
      BY FS_CardinalityType DEF FileInv
    <2> QED
      BY <2>1, FileTyped DEF FileSizes, FileTypes
  <1>3. PeriodsSeparated
    BY <1>2, ZenonT(30) DEF PeriodsSeparated, Late
  <1> QED
    BY <1>3, ZenonT(30) DEF FileInv

\* The constructor leaves an empty file.
LEMMA FileStart == ASSUME FileSizes PROVE FileInit => FileInv
  <1> SUFFICES ASSUME FileInit PROVE FileInv
    OBVIOUS
  <1>1. stamps = <<>> /\ Len(stamps) = 0 /\ unflushed = 0 /\ count_ = 0 /\ writtenBytes_ = 0
    BY DEF FileInit
  <1>2. FileTypeOK
    BY <1>1 DEF FileSizes, FileInit, FileTypeOK
  <1>3. FileBounded
    BY <1>1 DEF FileSizes, FileBounded
  <1>4. Late = {}
    BY <1>1 DEF Late
  <1>5. InBuffer = {} /\ FlushedInTime
    BY <1>1 DEF InBuffer, FlushedInTime
  <1> QED
    BY <1>1, <1>2, <1>3, <1>4, <1>5, FS_EmptySet DEF FileInv

\* rollFile() in a later second than the last roll: the new file is empty.
LEMMA FileRolled ==
  ASSUME FileSizes, FileInv, now > lastRoll_, lastRoll_' = now, lastFlush_' = now,
         startOfPeriod_' = PeriodOf(now), writtenBytes_' = 0, stamps' = <<>>,
         unflushed' = 0, count_' \in 0 .. CheckEveryN - 1, appended' = now, now' = now,
         burst' \in 0 .. MaxAppends
  PROVE  FileInv'
  <1>t. FileTypes
    BY FileTyped
  <1>1. Len(stamps') = 0
    OBVIOUS
  <1>2. FileTypeOK'
    BY <1>t, <1>1 DEF FileTypes, FileTypeOK, PeriodOf
  <1>3. FileBounded'
    BY DEF FileSizes, FileBounded
  <1>4. Late' = {}
    BY DEF Late
  <1>5. InBuffer' = {} /\ FlushedInTime'
    BY <1>1 DEF InBuffer, FlushedInTime
  <1>6. count_' >= 0
    BY DEF FileSizes
  <1> QED
    BY <1>2, <1>3, <1>4, <1>5, <1>6, FS_EmptySet DEF FileInv

\* A line is added to the file: count_ advances, or the file was created in this
\* second, or the check of every checkEveryN_-th line found the period unchanged.
LEMMA FileAdded ==
  ASSUME FileSizes, FileInv, NEW len \in Nat, writtenBytes_' = writtenBytes_ + len,
         stamps' = Append(stamps, now), UNCHANGED <<now, lastRoll_, startOfPeriod_>>,
         \/ lastFlush_' = lastFlush_ /\ unflushed' = unflushed + 1
         \/ lastFlush_' = now /\ unflushed' = 0,
         appended' = now, burst' \in 0 .. MaxAppends, count_' \in 0 .. CheckEveryN - 1,
         writtenBytes_ + len <= RollSize \/ now = lastRoll_,
         \/ count_' = count_ + 1
         \/ count_' = count_ /\ now = lastRoll_
         \/ /\ count_' = 0 /\ PeriodOf(now) = startOfPeriod_
            /\ unflushed' = 0 \/ (lastFlush_' = lastFlush_ /\ now - lastFlush_ <= FlushInterval)
  PROVE  FileInv'
  <1> DEFINE n == Len(stamps)
  <1>t. FileTypes
    BY FileTyped
  <1>1. /\ stamps' \in Seq(lastRoll_ .. now) /\ Len(stamps') = n + 1 /\ n \in Nat
        /\ DOMAIN stamps' = 1 .. n + 1
        /\ \A i \in 1 .. n : stamps'[i] = stamps[i]
        /\ stamps'[n + 1] = now
    <2>1. now \in lastRoll_ .. now
      BY <1>t DEF FileTypes
    <2> QED
      BY <1>t, <2>1, AppendProperties, LenProperties DEF FileTypes
  <1>2. /\ \A i \in 1 .. n + 1 : i \in 1 .. n \/ i = n + 1
        /\ \A i \in 1 .. n + 1 : stamps'[i] \in lastRoll_ .. now
    BY <1>t, <1>1 DEF FileTypes
  <1> HIDE DEF n
  <1>3. FileTypeOK'
    <2>1. unflushed' \in 0 .. Len(stamps') /\ lastFlush_' \in lastRoll_ .. now
      BY <1>t, <1>1 DEF FileTypes, n
    <2> QED
      BY <1>t, <1>1, <2>1 DEF FileTypes, FileTypeOK, PeriodOf
  <1>4. FileBounded'
    BY <1>t DEF FileSizes, FileTypes, FileBounded
  <1>5. IsFiniteSet(Late') /\ Cardinality(Late') <= count_'
    <2>1. Late' \subseteq Late \cup {n + 1} /\ n + 1 \notin Late
      BY <1>t, <1>1, <1>2 DEF Late, FileTypes, PeriodOf, n
    <2>2. /\ IsFiniteSet(Late) /\ Cardinality(Late) \in Nat /\ Cardinality(Late) <= count_
      BY FS_CardinalityType DEF FileInv
    <2>3. CASE count_' = count_ + 1
      <3>1. /\ IsFiniteSet(Late \cup {n + 1})
            /\ Cardinality(Late \cup {n + 1}) = Cardinality(Late) + 1
        BY <2>1, <2>2, FS_AddElement, ZenonT(30)
      <3>2. IsFiniteSet(Late') /\ Cardinality(Late') <= Cardinality(Late \cup {n + 1})
        BY <2>1, <3>1, FS_Subset, ZenonT(30)
      <3>3. Cardinality(Late') \in Nat
        BY <3>2, FS_CardinalityType
      <3> QED
        BY <2>2, <2>3, <3>1, <3>2, <3>3, <1>t DEF FileTypes
    <2>4. CASE count_' = count_ /\ now = lastRoll_
      <3>1. n + 1 \notin Late'
        BY <2>4, <1>t, <1>1 DEF Late, FileTypes, PeriodOf
      <3>2. Late' \subseteq Late
        BY <2>1, <3>1
      <3>3. IsFiniteSet(Late') /\ Cardinality(Late') <= Cardinality(Late)
        BY <2>2, <3>2, FS_Subset, ZenonT(30)
      <3>4. Cardinality(Late') \in Nat
        BY <3>3, FS_CardinalityType
      <3> QED
        BY <2>2, <2>4, <3>3, <3>4, <1>t DEF FileTypes
    <2>5. CASE count_' = 0 /\ PeriodOf(now) = startOfPeriod_
      <3>1. ASSUME NEW i \in 1 .. n + 1 PROVE PeriodOf(stamps'[i]) = startOfPeriod_
        <4> DEFINE x == stamps'[i]
        <4>0. x \in lastRoll_ .. now
          BY <1>2, ZenonT(30)
        <4>1. lastRoll_ \in Nat /\ now \in Nat
          BY <1>t DEF FileSizes, FileTypes
        <4> HIDE DEF x
        <4>2. x \in Nat /\ lastRoll_ <= x /\ x <= now
          BY <4>0, <4>1
        <4>3. /\ PeriodOf(lastRoll_) <= PeriodOf(x)
              /\ PeriodOf(x) <= PeriodOf(now)
              /\ PeriodOf(x) \in Nat
          BY <4>1, <4>2, PeriodMonotone, PeriodTyped, ZenonT(30)
        <4>4. PeriodOf(lastRoll_) = startOfPeriod_ /\ startOfPeriod_ \in Nat
          BY <1>t DEF FileTypes
        <4>5. PeriodOf(x) = startOfPeriod_
          BY <2>5, <4>3, <4>4
        <4> QED
          BY <4>5 DEF x
      <3>2. Late' = {}
        BY <3>1, <1>1 DEF Late, PeriodOf
      <3> QED
        BY <2>5, <3>2, FS_EmptySet
    <2> QED
      BY <2>3, <2>4, <2>5
  <1>6. \A i \in InBuffer' : stamps'[i] >= lastFlush_'
    <2> SUFFICES ASSUME NEW i \in InBuffer' PROVE stamps'[i] >= lastFlush_'
      OBVIOUS
    <2>1. /\ lastFlush_' = lastFlush_ /\ unflushed' = unflushed + 1
          /\ i \in InBuffer \/ i = n + 1
          /\ i \in 1 .. n + 1
      BY <1>t, <1>1 DEF InBuffer, FileTypes, n
    <2>2. CASE i \in InBuffer
      <3>1. stamps[i] >= lastFlush_ /\ i \in 1 .. n
        BY <2>2, <1>t DEF FileInv, InBuffer, FileTypes, n
      <3> QED
        BY <2>1, <3>1, <1>1
    <2>3. CASE i = n + 1
      BY <2>1, <2>3, <1>1, <1>t DEF FileTypes
    <2> QED
      BY <2>1, <2>2, <2>3
  <1>7. FlushedInTime'
    <2> SUFFICES ASSUME count_' = 0, NEW i \in InBuffer' PROVE now - stamps'[i] <= FlushInterval
      BY DEF FlushedInTime, InBuffer
    <2>1. /\ stamps'[i] >= lastFlush_' /\ i \in 1 .. n + 1 /\ unflushed' # 0
      BY <1>6, <1>t, <1>1 DEF InBuffer, FileTypes, n
    <2>2. stamps'[i] \in lastRoll_ .. now
      BY <2>1, <1>2
    <2>3. now = lastRoll_ \/ (lastFlush_' = lastFlush_ /\ now - lastFlush_ <= FlushInterval)
      BY <2>1, <1>t DEF FileTypes
    <2>4. lastRoll_ \in Nat /\ now \in Nat /\ lastFlush_ \in Nat
      BY <1>t DEF FileSizes, FileTypes
    <2> DEFINE x == stamps'[i]
    <2>5. x >= lastFlush_' /\ x \in lastRoll_ .. now
      BY <2>1, <2>2
    <2> HIDE DEF x
    <2>6. now - x <= FlushInterval
      BY <2>3, <2>4, <2>5 DEF FileSizes
    <2> QED
      BY <2>6 DEF x
  <1> QED
    BY <1>3, <1>4, <1>5, <1>6, <1>7 DEF FileInv

\* A line is appended by append_unlocked(): too big a file is rolled, every
\* checkEveryN_-th line looks at the clock, and the others are only counted.
LEMMA FileAppend ==
  ASSUME FileSizes, FileInv, NEW len \in Lengths, AppendToFile(len)
  PROVE  FileInv'
  <1>t. FileTypes
    BY FileTyped
  <1>1. /\ len \in Nat /\ burst' \in 0 .. MaxAppends /\ appended' = now /\ now' = now
        /\ now \in Nat /\ lastRoll_ \in Nat /\ lastRoll_ <= now /\ writtenBytes_ + len \in Nat
        /\ RollSize \in Nat /\ count_ \in Nat
    BY <1>t DEF FileSizes, FileTypes, AppendToFile
  <1>2. CASE TooBig(len)
    <2>1. RollFile(len) /\ count_' = count_
      BY <1>2 DEF AppendToFile
    <2>2. CASE now > lastRoll_
      BY <2>1, <2>2, <1>t, <1>1, FileRolled DEF RollFile, FileTypes
    <2>3. CASE ~ (now > lastRoll_)
      <3>1. now = lastRoll_
        BY <2>3, <1>1
      <3> QED
        BY <2>1, <2>3, <3>1, <1>t, <1>1, FileAdded DEF RollFile, FileTypes
    <2> QED
      BY <2>2, <2>3
  <1>3. CASE ~ TooBig(len) /\ count_ + 1 >= CheckEveryN
    <2>1. Check(len) /\ count_' = 0 /\ 0 \in 0 .. CheckEveryN - 1
      BY <1>3 DEF FileSizes, AppendToFile
    <2>2. writtenBytes_ + len <= RollSize
      BY <1>3, <1>1 DEF TooBig
    <2>3. CASE PeriodOf(now) # startOfPeriod_
      <3>1. now > lastRoll_
        BY <2>3, <1>1, <1>t DEF FileTypes
      <3> QED
        BY <2>1, <2>3, <3>1, <1>1, FileRolled DEF Check, RollFile
    <2>4. CASE PeriodOf(now) = startOfPeriod_
      <3>1. /\ writtenBytes_' = writtenBytes_ + len /\ stamps' = Append(stamps, now)
            /\ UNCHANGED <<lastRoll_, startOfPeriod_>>
            /\ IF now - lastFlush_ > FlushInterval
               THEN lastFlush_' = now /\ unflushed' = 0
               ELSE unflushed' = unflushed + 1 /\ UNCHANGED lastFlush_
        BY <2>1, <2>4 DEF Check
      <3>2. \/ lastFlush_' = now /\ unflushed' = 0
            \/ /\ lastFlush_' = lastFlush_ /\ unflushed' = unflushed + 1
               /\ now - lastFlush_ <= FlushInterval
        BY <3>1, <1>t, <1>1 DEF FileSizes, FileTypes
      <3> QED
        BY <2>1, <2>2, <2>4, <3>1, <3>2, <1>1, FileAdded
    <2> QED
      BY <2>3, <2>4
  <1>4. CASE ~ TooBig(len) /\ ~ (count_ + 1 >= CheckEveryN)
    <2>1. /\ count_' = count_ + 1 /\ writtenBytes_' = writtenBytes_ + len
          /\ stamps' = Append(stamps, now) /\ unflushed' = unflushed + 1
          /\ UNCHANGED <<startOfPeriod_, lastRoll_, lastFlush_>>
      BY <1>4 DEF AppendToFile
    <2>2. writtenBytes_ + len <= RollSize /\ count_' \in 0 .. CheckEveryN - 1
      BY <1>4, <1>1, <2>1 DEF FileSizes, TooBig
    <2> QED
      BY <2>1, <2>2, <1>1, FileAdded
  <1> QED
    BY <1>2, <1>3, <1>4

\* Every step of the file and of the clock keeps the invariant.
LEMMA FileSteps == ASSUME FileSizes, FileInv, [FileNext]_fileVars PROVE FileInv'
  <1>t. FileTypes
    BY FileTyped
  <1>1. CASE Flush
    <2>1. /\ UNCHANGED <<now, count_, startOfPeriod_, lastRoll_, lastFlush_, writtenBytes_, stamps,
                         appended, burst>>
          /\ unflushed' = 0
      BY <1>1 DEF Flush
    <2>2. InBuffer' = {} /\ FlushedInTime'
      BY <2>1, <1>t DEF InBuffer, FlushedInTime, FileTypes
    <2>3. FileTypeOK' /\ FileBounded'
      BY <2>1, <1>t DEF FileInv, FileTypeOK, FileBounded, FileTypes, PeriodOf
    <2>4. Late' = Late
      BY <2>1 DEF Late, PeriodOf
    <2> QED
      BY <2>1, <2>2, <2>3, <2>4 DEF FileInv
  <1>2. CASE Tick
    <2>1. /\ UNCHANGED <<count_, startOfPeriod_, lastRoll_, lastFlush_, writtenBytes_, stamps,
                         unflushed, appended>>
          /\ now' = now + 1 /\ now' \in 1 .. MaxTime /\ burst' \in 0 .. MaxAppends
      BY <1>2, <1>t DEF FileSizes, Tick, FileTypes
    <2>2. stamps' \in Seq(lastRoll_' .. now')
      <3>1. lastRoll_ .. now \subseteq lastRoll_ .. now + 1
        BY <1>t DEF FileSizes, FileTypes
      <3> QED
        BY <2>1, <3>1, <1>t, SeqWiden, ZenonT(30) DEF FileTypes
    <2>3. FileTypeOK'
      BY <2>1, <2>2, <1>t DEF FileSizes, FileTypeOK, FileTypes, PeriodOf
    <2>4. Late' = Late /\ InBuffer' = InBuffer
      BY <2>1 DEF Late, InBuffer, PeriodOf
    <2>5. FileBounded' /\ FlushedInTime'
      BY <2>1 DEF FileInv, FileBounded, FlushedInTime
    <2> QED
      BY <2>1, <2>3, <2>4, <2>5 DEF FileInv
  <1>3. CASE UNCHANGED fileVars
    BY <1>3 DEF fileVars, FileInv, FileTypeOK, FileBounded, FlushedInTime,
                Late, InBuffer, PeriodOf
  <1> QED
    BY <1>1, <1>2, <1>3, FileAppend DEF FileNext


-----------------------------------------------------------------------------
\* The assertions of threadFunc() hold, and lines reach the file in order or are
\* dropped with a notice, for any size of the buffers.
THEOREM LoggingCorrect ==
  ASSUME LogSizes
  PROVE  Spec => [](TypeOK /\ BuffersReady /\ LinesInOrder)
  <1>1. Init => LoggingInv
    BY LoggingInit
  <1>2. LoggingInv /\ [Next]_vars => LoggingInv'
    BY LoggingSteps
  <1>3. LoggingInv => TypeOK /\ BuffersReady /\ LinesInOrder
    BY LoggingMeans
  <1> QED
    BY <1>1, <1>2, <1>3, PTL DEF Spec

\* append_unlocked() and rollFile() keep files to their size and period and flush
\* them in time, for any sizes and intervals.
THEOREM FilesCorrect ==
  ASSUME FileSizes
  PROVE  FileSpec => [](FileTypeOK /\ FileBounded /\ PeriodsSeparated /\ FlushedInTime)
  <1>1. FileInit => FileInv
    BY FileStart
  <1>2. FileInv /\ [FileNext]_fileVars => FileInv'
    BY FileSteps
  <1>3. FileInv => FileTypeOK /\ FileBounded /\ PeriodsSeparated /\ FlushedInTime
    BY FileMeans
  <1> QED
    BY <1>1, <1>2, <1>3, PTL DEF FileSpec
===============================================================================
