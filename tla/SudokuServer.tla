---------------------------- MODULE SudokuServer ----------------------------
(***************************************************************************)
(* The servers of examples/sudoku: server_prod, then the statistics it     *)
(* keeps, then the four simpler servers.                                   *)
(***************************************************************************)
EXTENDS Integers, Sequences, FiniteSets, SequencesExt, FiniteSetsExt

-----------------------------------------------------------------------------
(***************************************************************************)
(* examples/sudoku/server_prod.cc: the I/O loop of a connection parses the  *)
(* requests, the threads of a pool solve them and send the answers, and a   *)
(* connection whose output piles up is throttled, then closed.  What a      *)
(* thread sends, and the callbacks of the TcpConnection about its output,   *)
(* go through the functors of the loop.  Output is counted in answers.      *)
(***************************************************************************)

CONSTANTS MaxThreads, MaxRequests,
          kMaxQueue,              \* the 1000 * 1000 tasks of the pool
          kLowMark, kHighMark     \* the 5 and 10 MiB of output

VARIABLES numThreads_,            \* of the pool; the loop solves if it is 0
          requests,               \* what the client sent: with an id, without, bad, too long
          conn, throttle, highWaterMark_, writeCompleteCallback_, output, functors,
          replies,                \* in the order in which they are written
          queue_, solving,        \* the tasks of the pool, and of its threads
          stat_,
          parsing,                \* the request that recordRequest() has counted
          carried                 \* what the counters showed for good at the last reset()
connVars == <<conn, throttle, highWaterMark_, writeCompleteCallback_, output, functors, replies>>
vars == <<numThreads_, requests, connVars, queue_, solving, stat_, parsing, carried>>

Threads == 1..MaxThreads
None == 0
NoStat == [requests |-> 0, responses |-> 0, bad |-> 0, other |-> 0, dropped |-> 0]
Record(what) == [stat_ EXCEPT ![what] = @ + 1]

Init ==
  /\ numThreads_ \in 0..MaxThreads
  /\ requests = <<>>
  /\ conn = "kConnected" /\ throttle = FALSE
  /\ highWaterMark_ = kLowMark /\ writeCompleteCallback_ = FALSE
  /\ output = 0 /\ functors = <<>> /\ replies = <<>>
  /\ queue_ = <<>> /\ solving = [t \in Threads |-> None]
  /\ stat_ = NoStat /\ parsing = None /\ carried = 0

-----------------------------------------------------------------------------
\* TcpConnection::sendInLoop(): the kernel takes an answer at once when none is
\* waiting, or leaves it in the output buffer.
sendInLoop(r, rest) ==
  /\ replies' = Append(replies, r)
  /\ \/ /\ output = 0
        /\ output' = 0
        /\ functors' = IF writeCompleteCallback_ THEN Append(rest, <<"writeComplete">>) ELSE rest
     \/ /\ output' = output + 1
        /\ functors' = IF output < highWaterMark_ /\ output + 1 >= highWaterMark_
                       THEN Append(rest, <<"highWaterMark", output + 1>>) ELSE rest

\* conn->send() in the loop thread.
SendNow(r) ==
  IF conn = "kConnected" THEN sendInLoop(r, functors) ELSE UNCHANGED <<replies, output, functors>>

callbackVars == <<throttle, highWaterMark_, writeCompleteCallback_>>

\* One round of onMessage(): a line, which recordRequest() counts, or none.
onMessage(kind) ==
  /\ Len(requests) < MaxRequests /\ parsing = None
  /\ requests' = Append(requests, kind)
  /\ parsing' = Len(requests')
  /\ stat_' = IF kind = "long" THEN stat_ ELSE Record("requests")
  /\ UNCHANGED <<numThreads_, connVars, queue_, solving, carried>>

\* processRequest(), and the end of the round.  With more than one thread a request
\* must have an id.
processRequest ==
  LET n == parsing
      kind == requests[n] IN
  /\ parsing # None /\ parsing' = None
  /\ IF kind = "long"
     THEN /\ SendNow(<<n, "IdTooLong">>)
          /\ conn' = "kDisconnecting"
          /\ stat_' = [stat_ EXCEPT !.bad = @ + 1, !.other = @ + 1]
          /\ UNCHANGED queue_
     ELSE IF kind = "bad" \/ (kind = "noid" /\ numThreads_ > 1)
     THEN /\ SendNow(<<n, "BadRequest">>)
          /\ conn' = "kDisconnecting"
          /\ stat_' = Record("bad")
          /\ UNCHANGED queue_
     ELSE IF Len(queue_) < kMaxQueue /\ ~ throttle
     THEN /\ IF numThreads_ = 0
             THEN SendNow(<<n, "solved">>) /\ stat_' = Record("responses") /\ UNCHANGED queue_
             ELSE queue_' = Append(queue_, n) /\ UNCHANGED <<stat_, replies, output, functors>>
          /\ UNCHANGED conn
     ELSE /\ SendNow(<<n, "ServerTooBusy">>)
          /\ stat_' = Record("dropped")
          /\ UNCHANGED <<queue_, conn>>
  /\ UNCHANGED <<numThreads_, requests, callbackVars, solving, carried>>

\* A thread of the pool takes the oldest task.
Take(t) ==
  /\ t <= numThreads_ /\ solving[t] = None /\ queue_ # <<>>
  /\ solving' = [solving EXCEPT ![t] = Head(queue_)]
  /\ queue_' = Tail(queue_)
  /\ UNCHANGED <<numThreads_, requests, connVars, stat_, parsing, carried>>

\* solve(): the answer is sent through the loop, then counted.
solve(t) ==
  /\ solving[t] > 0
  /\ functors' = IF conn = "kConnected" THEN Append(functors, <<"send", solving[t]>>) ELSE functors
  /\ solving' = [solving EXCEPT ![t] = -@]
  /\ UNCHANGED <<numThreads_, requests, conn, callbackVars, output, replies, queue_, stat_, parsing, carried>>

recordResponse(t) ==
  /\ solving[t] < 0
  /\ solving' = [solving EXCEPT ![t] = None]
  /\ stat_' = Record("responses")
  /\ UNCHANGED <<numThreads_, requests, connVars, queue_, parsing, carried>>

\* The loop calls the functor that is first.
sendFunctor ==
  /\ functors # <<>> /\ Head(functors)[1] = "send"
  /\ sendInLoop(<<Head(functors)[2], "solved">>, Tail(functors))
  /\ UNCHANGED <<numThreads_, requests, conn, callbackVars, queue_, solving, stat_, parsing, carried>>

highWaterMark ==
  /\ functors # <<>> /\ Head(functors)[1] = "highWaterMark"
  /\ IF Head(functors)[2] < kHighMark
     THEN /\ highWaterMark_' = kHighMark /\ writeCompleteCallback_' = TRUE /\ throttle' = TRUE
          /\ functors' = Tail(functors)
          /\ UNCHANGED <<conn, output, replies, stat_>>
     ELSE /\ IF conn = "kConnected" THEN sendInLoop(<<0, "BadRequest">>, Tail(functors))
             ELSE functors' = Tail(functors) /\ UNCHANGED <<replies, output>>
          /\ conn' = "kDisconnecting"
          /\ stat_' = [stat_ EXCEPT !.bad = @ + 1, !.other = @ + 1]
          /\ UNCHANGED callbackVars
  /\ UNCHANGED <<numThreads_, requests, queue_, solving, parsing, carried>>

writeComplete ==
  /\ functors # <<>> /\ Head(functors)[1] = "writeComplete"
  /\ functors' = Tail(functors)
  /\ highWaterMark_' = kLowMark /\ writeCompleteCallback_' = FALSE /\ throttle' = FALSE
  /\ UNCHANGED <<numThreads_, requests, conn, output, replies, queue_, solving, stat_, parsing, carried>>

\* TcpConnection::handleWrite().
handleWrite ==
  /\ output > 0
  /\ output' = output - 1
  /\ functors' = IF output = 1 /\ writeCompleteCallback_
                 THEN Append(functors, <<"writeComplete">>) ELSE functors
  /\ UNCHANGED <<numThreads_, requests, conn, callbackVars, replies, queue_, solving, stat_, parsing, carried>>

\* The requests that are counted and not yet answered or refused.
Underway ==
  Len(queue_) + Cardinality({t \in Threads : solving[t] # None})
  + (IF parsing # None /\ requests[parsing] # "long" THEN 1 ELSE 0)

\* Mutant of resetStat: the bad requests stay.
resetAllButBad ==
  /\ stat_' = [NoStat EXCEPT !.dropped = stat_.dropped, !.bad = stat_.bad]
  /\ carried' = stat_.dropped + Underway
  /\ UNCHANGED <<numThreads_, requests, connVars, queue_, solving, parsing>>

\* SudokuStat::reset(), in the inspector's thread; droppedRequests_ stays.
resetStat ==
  /\ stat_' = [NoStat EXCEPT !.dropped = stat_.dropped]
  /\ carried' = stat_.dropped + Underway
  /\ UNCHANGED <<numThreads_, requests, connVars, queue_, solving, parsing>>

Next ==
  \/ \E kind \in {"id", "noid", "bad", "long"} : onMessage(kind)
  \/ \E t \in Threads : Take(t) \/ solve(t) \/ recordResponse(t)
  \/ processRequest \/ sendFunctor \/ highWaterMark \/ writeComplete \/ handleWrite
  \/ resetStat

Spec == Init /\ [][Next]_vars

-----------------------------------------------------------------------------
TypeOK ==
  /\ numThreads_ \in 0..MaxThreads /\ throttle \in BOOLEAN /\ writeCompleteCallback_ \in BOOLEAN
  /\ conn \in {"kConnected", "kDisconnecting"} /\ highWaterMark_ \in {kLowMark, kHighMark}
  /\ output \in Nat /\ stat_ \in [DOMAIN NoStat -> Nat]

\* SudokuStat: since the last reset() every request is answered, dropped, bad, or on
\* its way, however the threads count them.  What the sum has too much after a reset()
\* is no more than the requests it met on their way, whose answers still count, and
\* droppedRequests_, which it does not clear.
RequestsCounted ==
  stat_.requests + carried =
    stat_.responses + stat_.dropped + (stat_.bad - stat_.other) + Underway

\* A request is answered at most once, whether it is solved or refused, and with
\* the id it came with.
AnsweredOnce ==
  \A i, j \in DOMAIN replies : i < j /\ replies[i][1] = replies[j][1] => replies[i][1] = 0

\* "when using thread pool, an id must be provided in the request": requests
\* without one are solved in order, as there is at most one thread that solves.
SolvedInOrder ==
  \A i, j \in DOMAIN replies :
    /\ i < j /\ replies[i][2] = "solved" /\ replies[j][2] = "solved"
    /\ requests[replies[i][1]] = "noid" /\ requests[replies[j][1]] = "noid"
    => replies[i][1] < replies[j][1]

-----------------------------------------------------------------------------
(***************************************************************************)
(* examples/sudoku/stat.h: the responses of the last kSeconds, in one       *)
(* circular buffer per measure, one element for each second.  The threads   *)
(* of the pool read the clock before they take the mutex, so the seconds    *)
(* they record may come in any order; the clock itself may jump.            *)
(***************************************************************************)

CONSTANTS kSeconds, MaxSecond, MaxResponses

VARIABLES clock, now,                    \* now[t]: what thread t read
          lastSecond_, requests_, latencies_, totalResponses_, totalLatency_, badLatency_,
          recorded                       \* the responses counted since the last reset()
statVars == <<clock, now, lastSecond_, requests_, latencies_, totalResponses_, totalLatency_,
              badLatency_, recorded>>

NotRead == [second |-> 0, elapsed |-> 0]

StatInit ==
  /\ clock = 1 /\ now = [t \in Threads |-> NotRead]
  /\ lastSecond_ = 0 /\ requests_ = <<>> /\ latencies_ = <<>>
  /\ totalResponses_ = 0 /\ totalLatency_ = 0 /\ badLatency_ = 0
  /\ recorded = <<>>

\* Mutant of push_back: a buffer without a capacity.
push_backGrows(q, x) == Append(q, x)

\* boost::circular_buffer::push_back() of a buffer with room for kSeconds.
push_back(q, x) == IF Len(q) = kSeconds THEN Append(Tail(q), x) ELSE Append(q, x)
PushZeros(q, n) == FoldLeft(LAMBDA r, i : push_back(r, 0), q, [i \in 1..n |-> i])
AddAt(q, i, x) == [q EXCEPT ![i] = @ + x]

\* What recordResponse() does to a buffer when x is counted for a second.
Counted(q, second, x) ==
  LET firstSecond == lastSecond_ - Len(q) + 1
      AddBack(r) == AddAt(r, Len(r), x)
  IN CASE lastSecond_ = second -> AddBack(q)
       [] lastSecond_ # second /\ (lastSecond_ + 1 = second \/ lastSecond_ = 0) ->
            AddBack(push_back(q, 0))
       [] lastSecond_ # 0 /\ second > lastSecond_ + 1 ->
            AddBack(IF second < lastSecond_ + kSeconds
                    THEN PushZeros(q, second - lastSecond_) ELSE <<0>>)
       [] lastSecond_ # 0 /\ second < lastSecond_ /\ second >= firstSecond ->
            AddAt(q, second - firstSecond + 1, x)
       [] OTHER -> q

statRecordResponse(t) ==
  /\ now[t] # NotRead
  /\ now' = [now EXCEPT ![t] = NotRead]
  /\ totalResponses_' = totalResponses_ + 1
  /\ IF now[t].elapsed < 0
     THEN /\ badLatency_' = badLatency_ + 1
          /\ UNCHANGED <<lastSecond_, requests_, latencies_, totalLatency_, recorded>>
     ELSE /\ totalLatency_' = totalLatency_ + now[t].elapsed
          /\ requests_' = Counted(requests_, now[t].second, 1)
          /\ latencies_' = Counted(latencies_, now[t].second, now[t].elapsed)
          /\ lastSecond_' = IF lastSecond_ = 0 THEN now[t].second ELSE Max({lastSecond_, now[t].second})
          /\ recorded' = Append(recorded, now[t])
          /\ UNCHANGED badLatency_
  /\ UNCHANGED clock

\* solve() reads the clock.
ReadClock(t, elapsed) ==
  /\ now[t] = NotRead
  /\ totalResponses_ < MaxResponses
  /\ now' = [now EXCEPT ![t] = [second |-> clock, elapsed |-> elapsed]]
  /\ UNCHANGED <<clock, lastSecond_, requests_, latencies_, totalResponses_, totalLatency_,
                 badLatency_, recorded>>

\* reset(), through the inspector.
reset ==
  /\ lastSecond_' = 0 /\ requests_' = <<>> /\ latencies_' = <<>>
  /\ totalResponses_' = 0 /\ totalLatency_' = 0 /\ badLatency_' = 0
  /\ recorded' = <<>>
  /\ UNCHANGED <<clock, now>>

ClockMoves ==
  /\ clock' \in {clock - 1, clock + 1, clock + kSeconds}
  /\ clock' \in 1..MaxSecond
  /\ UNCHANGED <<now, lastSecond_, requests_, latencies_, totalResponses_, totalLatency_,
                 badLatency_, recorded>>

StatNext ==
  \/ \E t \in Threads : statRecordResponse(t) \/ \E elapsed \in {-1, 2} : ReadClock(t, elapsed)
  \/ reset \/ ClockMoves

StatSpec == StatInit /\ [][StatNext]_statVars

-----------------------------------------------------------------------------
StatTypeOK ==
  /\ lastSecond_ \in 0..MaxSecond
  /\ requests_ \in Seq(Nat) /\ latencies_ \in Seq(Nat)
  /\ Len(requests_) <= kSeconds

\* The invariant of stat.h: both buffers have one element for each second up to
\* lastSecond_, and it counts the responses of that second, all of them, however
\* the clock and the threads moved.
WindowCounts ==
  LET size == Len(requests_)
      Of(second) == SelectSeq(recorded, LAMBDA r : r.second = second)
  IN /\ size = Len(latencies_)
     /\ (lastSecond_ > 0) = (size > 0)
     /\ \A i \in 1..size :
          LET rs == Of(lastSecond_ - size + i)
          IN /\ requests_[i] = Len(rs)
             /\ latencies_[i] = FoldLeft(LAMBDA a, r : a + r.elapsed, 0, rs)

-----------------------------------------------------------------------------
(***************************************************************************)
(* The four simpler servers of examples/sudoku, told apart by kind:        *)
(* server_basic and server_multiloop solve in the loop of the connection,  *)
(* server_threadpool and server_hybrid hand the request to a ThreadPool of *)
(* numThreads_, whose run() solves at once when it has no thread.          *)
(*                                                                         *)
(* One client sends its requests without waiting.  A request is [n, id]:   *)
(* its number, and whether it has an id; or a line that is no request.     *)
(***************************************************************************)

CONSTANT Kinds

VARIABLES variant, threads_,
          asked,         \* the lines the client sent
          read,          \* how many of them onMessage() has taken
          peer,          \* state of the connection
          tasks,         \* tasks of the pool
          working,       \* per thread: what it solves, at most one
          answers,       \* answers queued in the loop
          out            \* what was sent to the client

variantsVars == <<variant, threads_, asked, read, peer, tasks, working, answers, out>>

VariantsThreads == 1..threads_
Pooled == variant \in {"threadpool", "hybrid"}
Bad == [n |-> 0, id |-> FALSE]

VariantsInit ==
  /\ variant \in Kinds /\ threads_ \in 0..MaxThreads /\ (~Pooled => threads_ = 0)
  /\ asked = <<>> /\ read = 0 /\ peer = "connected" /\ tasks = <<>>
  /\ working = [t \in 1..MaxThreads |-> {}] /\ answers = <<>> /\ out = <<>>

Ask ==
  /\ Len(asked) < MaxRequests
  /\ \E what \in {"id", "no id", "bad", "long"} :
       asked' = Append(asked, [what |-> what, n |-> Len(asked) + 1])
  /\ UNCHANGED <<variant, threads_, read, peer, tasks, working, answers, out>>

(* send() in the loop thread is dropped unless connected. *)
VariantsSendNow(a) == out' = IF peer = "connected" THEN Append(out, a) ELSE out

(* ThreadPool::run(): at once without threads, else into the queue. *)
run(a) == IF threads_ = 0 THEN VariantsSendNow(a) /\ UNCHANGED tasks
                          ELSE tasks' = Append(tasks, a) /\ UNCHANGED out

(* processRequest() of each server; FALSE when the request is no good,     *)
(* which for hybrid with several threads is one without an id.             *)
Puzzle(r) == r.what \in {"id", "no id"}
NeedsId(r) == r.what = "no id" /\ threads_ > 1
Answer(r) == [n |-> r.n, id |-> r.what = "id"]
basicProcess(r) == Puzzle(r) /\ VariantsSendNow(Answer(r)) /\ UNCHANGED tasks
multiloopProcess(r) == Puzzle(r) /\ VariantsSendNow(Answer(r)) /\ UNCHANGED tasks
threadpoolProcess(r) == Puzzle(r) /\ run(Answer(r))
hybridProcess(r) == Puzzle(r) /\ ~NeedsId(r) /\ run(Answer(r))

(* One line of onMessage()'s loop.  After a bad line and shutdown() the    *)
(* loop is left; what came with it waits for the next read.                *)
Line(r) == read < Len(asked) /\ peer # "disconnected" /\ read' = read + 1 /\ r = asked[read + 1]
BadLine == VariantsSendNow(Bad) /\ peer' = "disconnecting" /\ UNCHANGED tasks
Rest == UNCHANGED <<variant, threads_, asked, working, answers>>

basicOnMessage(r) ==
  /\ variant = "basic" /\ Line(r) /\ Rest
  /\ \/ basicProcess(r) /\ UNCHANGED peer
     \/ ~Puzzle(r) /\ BadLine

multiloopOnMessage(r) ==
  /\ variant = "multiloop" /\ Line(r) /\ Rest
  /\ \/ multiloopProcess(r) /\ UNCHANGED peer
     \/ ~Puzzle(r) /\ BadLine

threadpoolOnMessage(r) ==
  /\ variant = "threadpool" /\ Line(r) /\ Rest
  /\ \/ threadpoolProcess(r) /\ UNCHANGED peer
     \/ ~Puzzle(r) /\ BadLine

hybridOnMessage(r) ==
  /\ variant = "hybrid" /\ Line(r) /\ Rest
  /\ \/ hybridProcess(r) /\ UNCHANGED peer
     \/ (~Puzzle(r) \/ NeedsId(r)) /\ BadLine

VariantsTake(t) ==
  /\ working[t] = {} /\ tasks # <<>>
  /\ working' = [working EXCEPT ![t] = {Head(tasks)}] /\ tasks' = Tail(tasks)
  /\ UNCHANGED <<variant, threads_, asked, read, peer, answers, out>>

(* send() from another thread: dropped unless connected, otherwise queued. *)
SendLater(a) == answers' = IF peer = "connected" THEN Append(answers, a) ELSE answers

threadpoolSolve(t) ==
  /\ variant = "threadpool" /\ \E a \in working[t] : SendLater(a)
  /\ working' = [working EXCEPT ![t] = {}]
  /\ UNCHANGED <<variant, threads_, asked, read, peer, tasks, out>>

hybridSolve(t) ==
  /\ variant = "hybrid" /\ \E a \in working[t] : SendLater(a)
  /\ working' = [working EXCEPT ![t] = {}]
  /\ UNCHANGED <<variant, threads_, asked, read, peer, tasks, out>>

(* sendInLoop() gives up when the connection is down.  After shutdown() it *)
(* fails if the FIN is out, and succeeds if output still waited before it. *)
variantsSendFunctor ==
  /\ answers # <<>> /\ answers' = Tail(answers)
  /\ \/ peer # "disconnected" /\ out' = Append(out, Head(answers))
     \/ peer # "connected" /\ UNCHANGED out
  /\ UNCHANGED <<variant, threads_, asked, read, peer, tasks, working>>

onConnectionDown ==
  /\ peer # "disconnected" /\ peer' = "disconnected"
  /\ UNCHANGED <<variant, threads_, asked, read, tasks, working, answers, out>>

VariantsNext == \/ Ask \/ variantsSendFunctor \/ onConnectionDown
                \/ \E r \in ToSet(asked) : \/ basicOnMessage(r) \/ multiloopOnMessage(r)
                                          \/ threadpoolOnMessage(r) \/ hybridOnMessage(r)
                \/ \E t \in VariantsThreads : VariantsTake(t) \/ threadpoolSolve(t) \/ hybridSolve(t)

VariantsSpec == VariantsInit /\ [][VariantsNext]_variantsVars

-----------------------------------------------------------------------------
VariantsTypeOK == /\ read \in 0..Len(asked) /\ peer \in {"connected", "disconnecting", "disconnected"}
                  /\ \A t \in 1..MaxThreads : Cardinality(working[t]) <= 1

Pending == ToSet(tasks) \cup UNION {working[t] : t \in VariantsThreads} \cup ToSet(answers)

(* While the connection is up every request that was read is answered      *)
(* exactly once or still in the pool or the loop, on its way.              *)
VariantsAnsweredOnce ==
  /\ peer = "connected" =>
       \A i \in 1..read : (i \in {out[j].n : j \in 1..Len(out)}) # (\E a \in Pending : a.n = i)
  /\ \A i, j \in 1..Len(out) : i # j => out[i].n # out[j].n

(* A client can tell what an answer without an id answers: such answers    *)
(* come in the order of the requests, except from server_threadpool with   *)
(* several threads, which the id that hybrid insists on is for.            *)
Attributable ==
  ~(variant = "threadpool" /\ threads_ > 1) =>
  \A i, j \in 1..Len(out) :
    i < j /\ ~out[i].id /\ ~out[j].id /\ out[j] # Bad => out[i].n < out[j].n
=============================================================================
