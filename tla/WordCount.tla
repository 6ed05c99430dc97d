----------------------------- MODULE WordCount -----------------------------
(***************************************************************************)
(* The distributed word counter of examples/wordcount.  A hasher counts    *)
(* the words of its files in a table of bounded size, sends every count to *)
(* the receiver that the word's hash names and throttles itself while that *)
(* connection is congested.  A receiver adds up what its hashers send and  *)
(* writes its shard when the last of them has disconnected.                *)
(*                                                                         *)
(* The main thread of a hasher (pc) and its I/O loop (functors) interleave.*)
(* A connection may be lost at any time; conn_ is then null, which the main*)
(* thread does not expect: it waits for ever in throttle, or crashes.      *)
(* A line "word\tcount\r\n" is two units on the wire, so that it can be    *)
(* split, or one for a short word; its last unit has the count.            *)
(***************************************************************************)
EXTENDS Integers, Sequences, SequencesExt, FiniteSets, FiniteSetsExt

CONSTANTS Hashers,       \* the hasher processes
          buckets_,      \* number of receivers
          Words, Short,  \* the short words are some of them
          Files(_),      \* the words of the files of a hasher
          Hash(_),       \* the receiver a word is sent to
          kMaxHashSize,
          g_batchSize,   \* units after which a line goes to the connection
          kHighMark,     \* units of output that count as congestion
          MaxLosses      \* bound on the connections that are lost

VARIABLES in,            \* the words a hasher has not read yet
          wordcounts,    \* its table, 0 for a word that is not in it
          pc,            \* its main thread
          at,            \* the receiver the main thread is busy with
          buffer_, conn_, functors, output, congestion_,
          wire,          \* units on their way to a receiver
          input,         \* units in the receiver's input buffer
          wordcounts_,   \* the receiver's table
          senders_,
          shard,         \* the table it has written, as a set of at most one
          lost           \* counts whose write failed, or that were on a connection that is lost

mainVars == <<in, wordcounts, pc, at>>
recvVars == <<input, wordcounts_, senders_, shard, lost>>
vars == <<mainVars, buffer_, conn_, functors, output, congestion_, wire, recvVars>>

Receivers == 1..buckets_
Pairs == Hashers \X Receivers
NoWords == [w \in Words |-> 0]
None == "none"
Line(w, n) == (IF w \in Short THEN <<>> ELSE <<[word |-> w, count |-> 0]>>)
              \o <<[word |-> w, count |-> n]>>
Post(f, h, t) == [f EXCEPT ![h] = Append(@, t)]
Task(op, r, data) == [op |-> op, to |-> r, data |-> data]

Init ==
  /\ in = [h \in Hashers |-> Files(h)]
  /\ wordcounts = [h \in Hashers |-> NoWords]
  /\ pc = [h \in Hashers |-> "connect"]
  /\ at = [h \in Hashers |-> 1]
  /\ buffer_ = [p \in Pairs |-> <<>>]
  /\ conn_ = [p \in Pairs |-> "none"]
  /\ functors = [h \in Hashers |-> <<>>]
  /\ output = [p \in Pairs |-> <<>>]
  /\ congestion_ = [p \in Pairs |-> FALSE]
  /\ wire = [p \in Pairs |-> <<>>]
  /\ input = [p \in Pairs |-> <<>>]
  /\ wordcounts_ = [r \in Receivers |-> NoWords]
  /\ senders_ = [r \in Receivers |-> Cardinality(Hashers)]
  /\ shard = [r \in Receivers |-> {}]
  /\ lost = [p \in Pairs |-> NoWords]

-----------------------------------------------------------------------------
(* connectAll: one bucket after the other, each waited for on its latch. *)
connect(h) ==
  /\ pc[h] = "connect"
  /\ conn_[h, at[h]] \in {"up", "lost"}
  /\ IF at[h] < buckets_
     THEN at' = [at EXCEPT ![h] = @ + 1] /\ UNCHANGED pc
     ELSE pc' = [pc EXCEPT ![h] = "read"] /\ UNCHANGED at
  /\ UNCHANGED <<in, wordcounts, buffer_, conn_, functors, output, congestion_,
                 wire, recvVars>>

(* The connection callback of a bucket whose connect was called. *)
onConnectionUp(h, r) ==
  /\ conn_[h, r] = "none"
  /\ pc[h] = "connect" /\ at[h] = r
  /\ conn_' = [conn_ EXCEPT ![h, r] = "up"]
  /\ UNCHANGED <<mainVars, buffer_, functors, output, congestion_, wire, recvVars>>

(* The counts of a word in a sequence of units, added up. *)
Counted(units, w) ==
  Cardinality(UNION {{i} \X (1..units[i].count) : i \in {j \in DOMAIN units : units[j].word = w}})

CountOf(words, w) == Cardinality({i \in DOMAIN words : words[i] = w})

(* How many words the inner loop of processFile reads: up to the one that  *)
(* makes the table larger than kMaxHashSize, and that one too.             *)
Chunk(words) ==
  LET Full == {n \in 1..Len(words) :
                 Cardinality({words[i] : i \in 1..n}) > kMaxHashSize}
  IN  IF Full = {} THEN Len(words)
      ELSE CHOOSE n \in Full : \A m \in Full : n <= m

processFile(h) ==
  /\ pc[h] = "read"
  /\ wordcounts[h] = NoWords
  /\ LET n == Chunk(in[h])
         chunk == SubSeq(in[h], 1, n)
     IN  IF in[h] = <<>>
         THEN /\ pc' = [pc EXCEPT ![h] = "disconnect"]
              /\ at' = [at EXCEPT ![h] = 1]
              /\ UNCHANGED <<in, wordcounts>>
         ELSE /\ in' = [in EXCEPT ![h] = SubSeq(@, n + 1, Len(@))]
              /\ wordcounts' = [wordcounts EXCEPT
                                  ![h] = [w \in Words |-> CountOf(chunk, w)]]
              /\ UNCHANGED <<pc, at>>
  /\ UNCHANGED <<buffer_, conn_, functors, output, congestion_, wire, recvVars>>

(* The loop over the table: one SendThrottler::send, in any order. *)
send(h) ==
  /\ pc[h] = "read"
  /\ \E w \in {x \in Words : wordcounts[h][x] > 0} :
       LET r == Hash(w)
           lines == buffer_[h, r] \o Line(w, wordcounts[h][w])
       IN  /\ buffer_' = [buffer_ EXCEPT ![h, r] = lines]
           /\ wordcounts' = [wordcounts EXCEPT ![h][w] = 0]
           /\ at' = [at EXCEPT ![h] = r]
           /\ pc' = [pc EXCEPT ![h] = IF Len(lines) >= g_batchSize
                                      THEN "throttle" ELSE "read"]
  /\ UNCHANGED <<in, conn_, functors, output, congestion_, wire, recvVars>>

Crash(h) == pc' = [pc EXCEPT ![h] = "crashed"]

(* throttle waits while congestion_ is set, then the batch is handed over, *)
(* to a null pointer if the connection has been lost.                      *)
throttle(h) ==
  LET r == at[h] IN
  /\ pc[h] = "throttle"
  /\ IF congestion_[h, r]
     THEN pc' = [pc EXCEPT ![h] = "wait"] /\ UNCHANGED <<buffer_, functors>>
     ELSE IF conn_[h, r] = "lost" THEN Crash(h) /\ UNCHANGED <<buffer_, functors>>
     ELSE /\ functors' = Post(functors, h, Task("send", r, buffer_[h, r]))
          /\ buffer_' = [buffer_ EXCEPT ![h, r] = <<>>]
          /\ pc' = [pc EXCEPT ![h] = "read"]
  /\ UNCHANGED <<in, wordcounts, at, conn_, output, congestion_, wire, recvVars>>

(* Mutant of disconnect: what is left in the buffer is not sent. *)
disconnectAtOnce(h) ==
  /\ pc[h] = "disconnect" /\ pc' = [pc EXCEPT ![h] = "latch"]
  /\ functors' = Post(functors, h, Task("shutdown", at[h], <<>>))
  /\ buffer_' = [buffer_ EXCEPT ![h, at[h]] = <<>>]
  /\ conn_' = [conn_ EXCEPT ![h, at[h]] = "closing"]
  /\ UNCHANGED <<in, wordcounts, at, output, congestion_, wire, recvVars>>

disconnect(h) ==
  LET r == at[h]
      last == IF buffer_[h, r] = <<>> THEN <<>>
              ELSE <<Task("send", r, buffer_[h, r])>>
  IN
  /\ pc[h] = "disconnect"
  /\ IF conn_[h, r] = "lost" THEN Crash(h) /\ UNCHANGED <<buffer_, functors, conn_>>
     ELSE /\ functors' = [functors EXCEPT ![h] = @ \o last \o <<Task("shutdown", r, <<>>)>>]
          /\ buffer_' = [buffer_ EXCEPT ![h, r] = <<>>]
          /\ conn_' = [conn_ EXCEPT ![h, r] = "closing"]
          /\ pc' = [pc EXCEPT ![h] = "latch"]
  /\ UNCHANGED <<in, wordcounts, at, output, congestion_, wire, recvVars>>

disconnected(h) ==
  /\ pc[h] = "latch"
  /\ conn_[h, at[h]] \in {"down", "lost"}
  /\ IF at[h] < buckets_
     THEN at' = [at EXCEPT ![h] = @ + 1] /\ pc' = [pc EXCEPT ![h] = "disconnect"]
     ELSE pc' = [pc EXCEPT ![h] = "exit"] /\ UNCHANGED at
  /\ UNCHANGED <<in, wordcounts, buffer_, conn_, functors, output, congestion_,
                 wire, recvVars>>

-----------------------------------------------------------------------------
(* The hasher's loop: functors of the main thread and of the connection. *)
onHighWaterMark(h, r) ==
  /\ congestion_' = [congestion_ EXCEPT ![h, r] = TRUE]
  /\ UNCHANGED pc

(* Mutant of onWriteComplete: the waiting thread is not notified. *)
onWriteCompleteSilent(h, r) ==
  congestion_' = [congestion_ EXCEPT ![h, r] = FALSE] /\ UNCHANGED pc

onWriteComplete(h, r) ==
  /\ congestion_' = [congestion_ EXCEPT ![h, r] = FALSE]
  /\ pc' = IF congestion_[h, r] /\ pc[h] = "wait" /\ at[h] = r
           THEN [pc EXCEPT ![h] = "throttle"] ELSE pc

Fin == [word |-> None, count |-> 0]

(* TcpConnection::sendInLoop: the kernel takes k units at once.  A write to *)
(* a socket that is shut down fails, and a connection that is down gives up.*)
sendInLoop(h, r, data, rest) ==
  /\ conn_[h, r] \in {"up", "closing"}
  /\ UNCHANGED lost
  /\ \E k \in IF output[h, r] = <<>> THEN 0..Len(data) ELSE {0} :
    LET old == Len(output[h, r])
        left == SubSeq(data, k + 1, Len(data))
    IN /\ wire' = [wire EXCEPT ![h, r] = @ \o SubSeq(data, 1, k)]
       /\ output' = [output EXCEPT ![h, r] = @ \o left]
       /\ functors' = [functors EXCEPT ![h] = rest \o
            (IF left = <<>> THEN <<Task("complete", r, <<>>)>>
             ELSE IF old + Len(left) >= kHighMark /\ old < kHighMark
             THEN <<Task("high", r, <<>>)>> ELSE <<>>)]

sendFails(h, r, data, rest) ==
  /\ conn_[h, r] \notin {"up", "closing"}
  /\ functors' = [functors EXCEPT ![h] = rest]
  /\ lost' = [lost EXCEPT ![h, r] = [w \in Words |-> @[w] + Counted(data, w)]]
  /\ UNCHANGED <<wire, output>>

(* The write side is shut once, when shutdown was called and nothing is    *)
(* left to write: by the functor of shutdown or by the last write.         *)
shutdownInLoop(h, r, taken) ==
  LET shut == conn_[h, r] = "closing"
  IN  /\ wire' = [wire EXCEPT ![h, r] = @ \o taken \o (IF shut THEN <<Fin>> ELSE <<>>)]
      /\ conn_' = IF shut THEN [conn_ EXCEPT ![h, r] = "shut"] ELSE conn_

callFunctor(h) ==
  /\ functors[h] # <<>>
  /\ LET t == Head(functors[h])
         rest == Tail(functors[h])
     IN  \/ /\ t.op = "send"
            /\ \/ sendInLoop(h, t.to, t.data, rest)
               \/ sendFails(h, t.to, t.data, rest)
            /\ UNCHANGED <<congestion_, pc, conn_>>
         \/ /\ t.op = "shutdown"
            /\ functors' = [functors EXCEPT ![h] = rest]
            /\ IF output[h, t.to] = <<>> THEN shutdownInLoop(h, t.to, <<>>)
               ELSE UNCHANGED <<wire, conn_>>
            /\ UNCHANGED <<output, congestion_, pc, lost>>
         \/ /\ t.op \in {"high", "complete"}
            /\ functors' = [functors EXCEPT ![h] = rest]
            /\ IF t.op = "high" THEN onHighWaterMark(h, t.to)
               ELSE onWriteComplete(h, t.to)
            /\ UNCHANGED <<output, wire, conn_, lost>>
  /\ UNCHANGED <<in, wordcounts, at, buffer_, input, wordcounts_, senders_, shard>>

(* The socket is writable again. *)
handleWrite(h, r) ==
  /\ output[h, r] # <<>>
  /\ \E k \in 1..Len(output[h, r]) :
       LET left == SubSeq(output[h, r], k + 1, Len(output[h, r]))
           taken == SubSeq(output[h, r], 1, k)
       IN  /\ IF left = <<>> THEN shutdownInLoop(h, r, taken)
              ELSE wire' = [wire EXCEPT ![h, r] = @ \o taken] /\ UNCHANGED conn_
           /\ output' = [output EXCEPT ![h, r] = left]
           /\ functors' = IF left = <<>>
                          THEN Post(functors, h, Task("complete", r, <<>>))
                          ELSE functors
  /\ UNCHANGED <<mainVars, buffer_, congestion_, recvVars>>

(* The receiver has closed its end: the hasher's callback counts the latch down. *)
onConnectionDown(h, r) ==
  /\ conn_[h, r] = "closed"
  /\ conn_' = [conn_ EXCEPT ![h, r] = "down"]
  /\ UNCHANGED <<mainVars, buffer_, functors, output, congestion_, wire, recvVars>>

(* The connection is lost, with what is on its way: the hasher's callback   *)
(* resets conn_ and counts the latch down, the receiver's end goes down.   *)
onConnectionLost(h, r) ==
  LET units == output[h, r] \o wire[h, r] IN
  /\ conn_[h, r] \in {"up", "closing", "shut"}
  /\ Cardinality({p \in Pairs : conn_[p] = "lost"}) < MaxLosses
  /\ conn_' = [conn_ EXCEPT ![h, r] = "lost"]
  /\ output' = [output EXCEPT ![h, r] = <<>>]
  /\ wire' = [wire EXCEPT ![h, r] = <<Fin>>]
  /\ lost' = [lost EXCEPT ![h, r] = [w \in Words |-> @[w] + Counted(units, w)]]
  /\ UNCHANGED <<mainVars, buffer_, functors, congestion_, input, wordcounts_, senders_, shard>>

-----------------------------------------------------------------------------
(* The receiver reads what is on the wire and adds up the lines that are   *)
(* complete; where the wire is cut is up to the writes of the hasher.      *)
onMessage(h, r) ==
  LET units == SelectSeq(wire[h, r], LAMBDA u : u # Fin)
      all == input[h, r] \o units
      ends == {i \in DOMAIN all : all[i].count > 0}
      last == IF ends = {} THEN 0 ELSE CHOOSE i \in ends : \A j \in ends : j <= i
  IN /\ units # <<>>
     /\ wire' = [wire EXCEPT ![h, r] = SubSeq(@, Len(units) + 1, Len(@))]
     /\ input' = [input EXCEPT ![h, r] = SubSeq(all, last + 1, Len(all))]
     /\ wordcounts_' = [wordcounts_ EXCEPT
          ![r] = [w \in Words |-> @[w] + Counted(SubSeq(all, 1, last), w)]]
     /\ UNCHANGED <<mainVars, buffer_, conn_, functors, output, congestion_,
                    senders_, shard, lost>>

(* The receiver's connection callback when a hasher has shut down or is lost. *)
onSenderDown(h, r) ==
  /\ wire[h, r] = <<Fin>>
  /\ wire' = [wire EXCEPT ![h, r] = <<>>]
  /\ conn_' = IF conn_[h, r] = "shut" THEN [conn_ EXCEPT ![h, r] = "closed"] ELSE conn_
  /\ senders_' = [senders_ EXCEPT ![r] = @ - 1]
  /\ shard' = IF senders_[r] = 1 THEN [shard EXCEPT ![r] = {wordcounts_[r]}] ELSE shard
  /\ UNCHANGED <<mainVars, buffer_, functors, output, congestion_, input, wordcounts_,
                 lost>>

Main(h) == connect(h) \/ processFile(h) \/ send(h) \/ throttle(h)
           \/ disconnect(h) \/ disconnected(h)
Loop(h) == callFunctor(h) \/ \E r \in Receivers :
             \/ onConnectionUp(h, r) \/ handleWrite(h, r)
             \/ onConnectionDown(h, r) \/ onConnectionLost(h, r)
Receiver(r) == \E h \in Hashers : onMessage(h, r) \/ onSenderDown(h, r)

(* What becomes of a hasher that has crashed is not modelled. *)
Next == \/ \E h \in Hashers : pc[h] # "crashed" /\ (Main(h) \/ Loop(h))
        \/ \E r \in Receivers : Receiver(r)

Spec == Init /\ [][Next]_vars

-----------------------------------------------------------------------------
TypeOK ==
  /\ \A h \in Hashers : pc[h] \in {"connect", "read", "throttle", "wait",
                                   "disconnect", "latch", "exit", "crashed"}
  /\ \A p \in Pairs : conn_[p] \in {"none", "up", "closing", "shut", "closed", "down", "lost"}
  /\ \A h \in Hashers : at[h] \in Receivers
  /\ \A r \in Receivers : senders_[r] \in 0..Cardinality(Hashers)

Units(h, r) ==
  buffer_[h, r] \o output[h, r] \o wire[h, r] \o input[h, r] \o
  FlattenSeq([i \in DOMAIN functors[h] |->
                IF functors[h][i].to = r THEN functors[h][i].data ELSE <<>>])

Held(h, w) == CountOf(in[h], w) + wordcounts[h][w] + Counted(Units(h, Hash(w)), w)
              + lost[h, Hash(w)][w]
AllOf(f(_)) == MapThenSumSet(f, Hashers)

(* Every occurrence of a word is in exactly one place on its way from the  *)
(* file through the hasher's table, its batch, the loop and the wire into  *)
(* the one receiver its hash names, none of them twice.  Two places do not *)
(* lead to a shard: a connection that is lost, and a last batch that       *)
(* disconnect sent behind output still to be written, because the last     *)
(* write then shuts the socket before that batch.                          *)
CountsKept ==
  \A w \in Words :
    LET r == Hash(w)
        All(h) == CountOf(Files(h), w)
        total == AllOf(All)
        OneMore(h) == Held(h, w)
    IN  /\ wordcounts_[r][w] + AllOf(OneMore) = total
        /\ \A table \in shard[r] : table[w] = wordcounts_[r][w]
        /\ \A h \in Hashers : lost[h, r][w] > 0 =>
             conn_[h, r] = "lost" \/ pc[h] \in {"latch", "disconnect", "exit"}

(* A hasher that waits in throttle is not left there: the write-complete   *)
(* callback that ends the congestion is still to come, unless the          *)
(* connection is lost: then nothing ends the wait.                         *)
ThrottleEnds ==
  \A h \in Hashers : pc[h] = "wait" =>
    /\ congestion_[h, at[h]]
    /\ \/ conn_[h, at[h]] = "lost"
       \/ output[h, at[h]] # <<>>
       \/ \E i \in DOMAIN functors[h] : functors[h][i].op = "complete"
                                        /\ functors[h][i].to = at[h]
=============================================================================
