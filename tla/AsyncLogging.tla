---------------------------- MODULE AsyncLogging ----------------------------
(***************************************************************************)
(* The back end of the logging: AsyncLogging, then the LogFile it writes.  *)
(***************************************************************************)
EXTENDS Integers, Sequences, FiniteSets, Functions

-----------------------------------------------------------------------------
(***************************************************************************)
(* muduo/base/AsyncLogging.cc: threads append log lines to buffers in      *)
(* memory; a logging thread swaps the buffers out and writes them to a     *)
(* LogFile, with two spare buffers on each side.  A line is its number in  *)
(* the order of the appends, a buffer the sequence of its lines, and Null a *)
(* BufferPtr that was moved from.  The steps between taking mutex_ and     *)
(* releasing it or waiting are one.                                        *)
(***************************************************************************)

CONSTANTS
  Capacity,    \* lines that fit in a Buffer; append() leaves one free
  MaxBuffers,  \* 25: more buffers than this are dropped
  MaxLines     \* bound on the lines

Null == <<0>>

VARIABLES
  running_,
  currentBuffer_, nextBuffer_, buffers_,
  newBuffer1, newBuffer2, buffersToWrite,   \* locals of threadFunc()
  pc,          \* where the logging thread is
  opc,         \* where the owner is: "new", "running", "notify", "join", "stopped"
  file,        \* what LogFile has got: buffers, and Notice for what was dropped
  flushed,     \* how much of file was flushed
  lines,       \* history: number of lines appended
  lost         \* history: lines that were dropped

vars == <<running_, currentBuffer_, nextBuffer_, buffers_, newBuffer1, newBuffer2,
          buffersToWrite, pc, opc, file, flushed, lines, lost>>

front == <<currentBuffer_, nextBuffer_, buffers_>>
back == <<newBuffer1, newBuffer2, buffersToWrite>>

Buffer == Seq(Nat)

TypeOK ==
  /\ running_ \in BOOLEAN
  /\ currentBuffer_ \in Buffer /\ nextBuffer_ \in Buffer /\ buffers_ \in Seq(Buffer)
  /\ newBuffer1 \in Buffer /\ newBuffer2 \in Buffer /\ buffersToWrite \in Seq(Buffer)
  /\ pc \in {"new", "while", "lock", "wait", "retest", "write", "recycle", "done"}
  /\ opc \in {"new", "running", "notify", "join", "stopped"}
  /\ file \in Seq(Buffer) /\ flushed \in 0 .. Len(file) /\ lines \in Nat
  /\ lost \subseteq Nat
  /\ Len(currentBuffer_) < Capacity
  /\ \A i \in DOMAIN buffers_ : Len(buffers_[i]) = Capacity - 1
  /\ \A i \in DOMAIN buffersToWrite : Len(buffersToWrite[i]) < Capacity

Init ==
  /\ running_ = FALSE
  /\ currentBuffer_ = <<>> /\ nextBuffer_ = <<>> /\ buffers_ = <<>>
  /\ newBuffer1 = <<>> /\ newBuffer2 = <<>> /\ buffersToWrite = <<>>
  /\ pc = "new" /\ opc = "new"
  /\ file = <<>> /\ flushed = 0 /\ lines = 0 /\ lost = {}

-----------------------------------------------------------------------------
(* The front end.                                                          *)

\* avail() > len
Fits(buffer) == Len(buffer) + 1 < Capacity

NextCurrent == IF nextBuffer_ # Null THEN nextBuffer_ ELSE <<>>

\* cond_.notify(): the only thread that waits is the logging thread.
Notify == pc' = IF pc = "wait" THEN "retest" ELSE pc

\* append(), by any thread, at any time
AppendLine ==
  /\ lines < MaxLines
  /\ lines' = lines + 1
  /\ IF Fits(currentBuffer_)
     THEN /\ currentBuffer_' = Append(currentBuffer_, lines + 1)
          /\ UNCHANGED <<nextBuffer_, buffers_, pc>>
     ELSE /\ buffers_' = Append(buffers_, currentBuffer_)
          /\ currentBuffer_' = Append(NextCurrent, lines + 1)
          /\ nextBuffer_' = Null
          /\ Notify
  /\ UNCHANGED <<running_, back, opc, file, flushed, lost>>

\* start(): returns when threadFunc() has counted the latch down.
Start ==
  /\ opc = "new"
  /\ opc' = "running"
  /\ running_' = TRUE
  /\ pc' = "while"
  /\ UNCHANGED <<front, back, file, flushed, lines, lost>>

\* stop(): running_ = false, then a notification without mutex_, then join()
StopRunning ==
  /\ opc = "running"
  /\ opc' = "notify"
  /\ running_' = FALSE
  /\ UNCHANGED <<front, back, pc, file, flushed, lines, lost>>

StopNotify ==
  /\ opc = "notify"
  /\ opc' = "join"
  /\ Notify
  /\ UNCHANGED <<running_, front, back, file, flushed, lines, lost>>

StopJoin ==
  /\ opc = "join"
  /\ pc = "done"
  /\ opc' = "stopped"
  /\ UNCHANGED <<running_, front, back, pc, file, flushed, lines, lost>>

-----------------------------------------------------------------------------
(* The logging thread.                                                     *)

\* while (running_); the flush after the loop
TestRunning ==
  /\ pc = "while"
  /\ IF running_ THEN pc' = "lock" /\ UNCHANGED flushed
                 ELSE pc' = "done" /\ flushed' = Len(file)
  /\ UNCHANGED <<running_, front, back, opc, file, lines, lost>>

\* Nothing to write: wait for a notification or the timeout.
Wait ==
  /\ pc = "lock"
  /\ buffers_ = <<>>
  /\ pc' = "wait"
  /\ UNCHANGED <<running_, front, back, opc, file, flushed, lines, lost>>

\* Mutant of WaitTimeout: cond_.wait()
WaitForever == FALSE /\ UNCHANGED vars

\* flushInterval_ is over, or the wakeup is spurious.
WaitTimeout ==
  /\ pc = "wait"
  /\ pc' = "retest"
  /\ UNCHANGED <<running_, front, back, opc, file, flushed, lines, lost>>

\* Mutant of SwapBuffers: the reserve is replaced whether it was used or not.
SwapBuffersAlways ==
  /\ buffersToWrite' = Append(buffers_, currentBuffer_)
  /\ buffers_' = <<>>
  /\ currentBuffer_' = newBuffer1 /\ newBuffer1' = Null
  /\ nextBuffer_' = newBuffer2 /\ newBuffer2' = Null

\* Mutant of SwapBuffers: the current buffer goes in front.
SwapBuffersBefore ==
  /\ buffersToWrite' = <<currentBuffer_>> \o buffers_
  /\ buffers_' = <<>>
  /\ currentBuffer_' = newBuffer1 /\ newBuffer1' = Null
  /\ IF nextBuffer_ = Null
     THEN nextBuffer_' = newBuffer2 /\ newBuffer2' = Null
     ELSE UNCHANGED <<nextBuffer_, newBuffer2>>

\* The end of the critical section.
SwapBuffers ==
  /\ buffersToWrite' = Append(buffers_, currentBuffer_)
  /\ buffers_' = <<>>
  /\ currentBuffer_' = newBuffer1 /\ newBuffer1' = Null
  /\ IF nextBuffer_ = Null
     THEN nextBuffer_' = newBuffer2 /\ newBuffer2' = Null
     ELSE UNCHANGED <<nextBuffer_, newBuffer2>>

Swap ==
  /\ pc = "retest" \/ (pc = "lock" /\ buffers_ # <<>>)
  /\ pc' = "write"
  /\ SwapBuffers
  /\ UNCHANGED <<running_, opc, file, flushed, lines, lost>>

\* The line "Dropped log messages ...", which is none of the appended lines.
Notice == <<0>>

\* What the buffers add to the file: only the last one, which was the current
\* one, can be empty.
Written(buffers) ==
  IF buffers[Len(buffers)] = <<>> THEN SubSeq(buffers, 1, Len(buffers) - 1) ELSE buffers

LinesOf(buffers) == (UNION {Range(buffer) : buffer \in Range(buffers)}) \ {0}

\* Drop all but two buffers when there are too many, and write the rest.
Write ==
  /\ pc = "write"
  /\ pc' = "recycle"
  /\ LET drop == Len(buffersToWrite) > MaxBuffers
         kept == IF drop THEN SubSeq(buffersToWrite, 1, 2) ELSE buffersToWrite
     IN /\ file' = (IF drop THEN Append(file, Notice) ELSE file) \o Written(kept)
        /\ buffersToWrite' = kept
        /\ lost' = lost \cup (LinesOf(buffersToWrite) \ LinesOf(kept))
  /\ UNCHANGED <<running_, front, newBuffer1, newBuffer2, opc, flushed, lines>>

\* Keep at most two buffers, make them the spare ones again, and flush.
Recycle ==
  /\ pc = "recycle"
  /\ pc' = "while"
  /\ LET kept == IF Len(buffersToWrite) > 2 THEN 2 ELSE Len(buffersToWrite)
         left == IF newBuffer1 = Null THEN kept - 1 ELSE kept
     IN /\ newBuffer1' = IF newBuffer1 # Null THEN newBuffer1 ELSE IF kept > 0 THEN <<>> ELSE Null
        /\ newBuffer2' = IF newBuffer2 # Null THEN newBuffer2 ELSE IF left > 0 THEN <<>> ELSE Null
  /\ buffersToWrite' = <<>>
  /\ flushed' = Len(file)
  /\ UNCHANGED <<running_, front, opc, file, lines, lost>>

LoggingStep == TestRunning \/ Wait \/ WaitTimeout \/ Swap \/ Write \/ Recycle

Next ==
  \/ AppendLine
  \/ Start \/ StopRunning \/ StopNotify \/ StopJoin
  \/ LoggingStep

Spec == Init /\ [][Next]_vars

\* The logging thread is scheduled and its timed wait ends.
Fairness == WF_vars(LoggingStep) /\ WF_vars(StopNotify) /\ WF_vars(StopJoin)

-----------------------------------------------------------------------------
(* Properties.                                                             *)

\* The assertions of threadFunc(): the logging thread has two empty spare
\* buffers whenever it looks for work and something to write when it writes,
\* and the front end always has a current buffer, however fast lines arrive.
BuffersReady ==
  /\ pc \in {"while", "lock", "wait", "retest"} =>
       newBuffer1 = <<>> /\ newBuffer2 = <<>> /\ buffersToWrite = <<>>
  /\ pc \in {"write", "recycle"} => buffersToWrite # <<>>
  /\ currentBuffer_ # Null

\* Everything that was appended and not dropped, oldest first.
Logged ==
  file \o (IF pc = "write" THEN buffersToWrite ELSE <<>>) \o buffers_ \o <<currentBuffer_>>

\* The lines of the buffers increase, from one to the next and within one.
Increasing(buffers) ==
  \A i, j \in DOMAIN buffers : \A k \in DOMAIN buffers[i], m \in DOMAIN buffers[j] :
    /\ i < j \/ (i = j /\ k < m)
    /\ buffers[i][k] # 0 /\ buffers[j][m] # 0
    => buffers[i][k] < buffers[j][m]

\* Lines reach the file in the order they were appended, none twice; a line is in
\* the file, still in a buffer, or dropped, and a notice in the file tells of it.
LinesInOrder ==
  /\ Increasing(Logged)
  /\ LinesOf(Logged) \cup lost = 1 .. lines
  /\ LinesOf(Logged) \cap lost = {}
  /\ lost # {} => Notice \in Range(file)

\* A line appended while the logging thread runs is flushed to the file or
\* dropped with a notice, without another line to push it.
LinesFlushed ==
  \A n \in 1 .. MaxLines :
    (n <= lines /\ running_) ~> (n \in LinesOf(SubSeq(file, 1, flushed)) \cup lost \/ ~running_)

\* stop() returns, its notification without the mutex lost or not.
StopReturns == opc = "notify" ~> opc = "stopped"

-----------------------------------------------------------------------------
(***************************************************************************)
(* muduo/base/LogFile.cc over FileUtil.cc's AppendFile: lines are appended *)
(* to a file that is rolled by size and by period and flushed from time to *)
(* time.  A line is its length; of the file being written the model keeps  *)
(* the bytes and when each line was appended.                              *)
(***************************************************************************)

CONSTANTS
  Lengths,        \* lengths of lines
  RollSize,       \* rollSize_
  FlushInterval,  \* flushInterval_
  CheckEveryN,    \* checkEveryN_
  Period,         \* kRollPerSeconds_
  MaxTime,        \* bound on the clock
  MaxAppends      \* bound on the appends in one second

VARIABLES
  now,            \* time(NULL), in seconds
  count_, startOfPeriod_, lastRoll_, lastFlush_,
  writtenBytes_,  \* of file_
  stamps,         \* when the lines of file_ were appended
  unflushed,      \* how many of the last lines of file_ are in its buffer
  appended,       \* history: when the last line was appended
  burst           \* lines of this second

fileVars == <<now, count_, startOfPeriod_, lastRoll_, lastFlush_, writtenBytes_, stamps,
              unflushed, appended, burst>>

PeriodOf(t) == (t \div Period) * Period

FileTypeOK ==
  /\ now \in 1 .. MaxTime /\ appended \in 1 .. MaxTime /\ burst \in 0 .. MaxAppends
  /\ count_ \in 0 .. CheckEveryN - 1
  /\ lastRoll_ \in 1 .. now /\ lastFlush_ \in lastRoll_ .. now
  /\ startOfPeriod_ = PeriodOf(lastRoll_)
  /\ writtenBytes_ \in Nat
  /\ stamps \in Seq(lastRoll_ .. now) /\ unflushed \in 0 .. Len(stamps)

\* The constructor rolls the first file: lastRoll_ is 0 and now is not.
FileInit ==
  /\ now \in 1 .. Period /\ count_ = 0
  /\ startOfPeriod_ = PeriodOf(now) /\ lastRoll_ = now /\ lastFlush_ = now
  /\ writtenBytes_ = 0 /\ stamps = <<>> /\ unflushed = 0
  /\ appended = now /\ burst = 0

-----------------------------------------------------------------------------
\* rollFile(), with len bytes in the file it may close: closing it flushes it,
\* and a second roll in the same second is refused.
RollFile(len) ==
  IF now > lastRoll_
  THEN /\ lastRoll_' = now /\ lastFlush_' = now /\ startOfPeriod_' = PeriodOf(now)
       /\ writtenBytes_' = 0 /\ stamps' = <<>> /\ unflushed' = 0
  ELSE /\ writtenBytes_' = writtenBytes_ + len
       /\ stamps' = Append(stamps, now) /\ unflushed' = unflushed + 1
       /\ UNCHANGED <<lastRoll_, lastFlush_, startOfPeriod_>>

\* Mutant of Check: the clock is looked at first, and counts as a flush.
CheckStamped(len) ==
  /\ writtenBytes_' = writtenBytes_ + len /\ stamps' = Append(stamps, now)
  /\ lastFlush_' = now /\ unflushed' = unflushed + 1
  /\ UNCHANGED <<lastRoll_, startOfPeriod_>>

\* Mutant of Check: files are rolled by size only.
CheckNoPeriod(len) ==
  /\ writtenBytes_' = writtenBytes_ + len /\ stamps' = Append(stamps, now)
  /\ UNCHANGED <<lastRoll_, startOfPeriod_>>
  /\ IF now - lastFlush_ > FlushInterval
     THEN lastFlush_' = now /\ unflushed' = 0
     ELSE unflushed' = unflushed + 1 /\ UNCHANGED lastFlush_

\* What every CheckEveryN-th line does: a new period rolls the file, and an old
\* flush is repeated.
Check(len) ==
  IF PeriodOf(now) # startOfPeriod_ THEN RollFile(len)
  ELSE /\ writtenBytes_' = writtenBytes_ + len /\ stamps' = Append(stamps, now)
       /\ UNCHANGED <<lastRoll_, startOfPeriod_>>
       /\ IF now - lastFlush_ > FlushInterval
          THEN lastFlush_' = now /\ unflushed' = 0
          ELSE unflushed' = unflushed + 1 /\ UNCHANGED lastFlush_

\* Mutant of TooBig: the size before the line is tested.
TooBigBefore(len) == writtenBytes_ > RollSize

TooBig(len) == writtenBytes_ + len > RollSize

\* append() and append_unlocked()
AppendToFile(len) ==
  /\ burst < MaxAppends
  /\ burst' = burst + 1 /\ appended' = now
  /\ IF TooBig(len) THEN RollFile(len) /\ UNCHANGED count_
     ELSE IF count_ + 1 >= CheckEveryN THEN count_' = 0 /\ Check(len)
     ELSE /\ count_' = count_ + 1
          /\ writtenBytes_' = writtenBytes_ + len
          /\ stamps' = Append(stamps, now) /\ unflushed' = unflushed + 1
          /\ UNCHANGED <<startOfPeriod_, lastRoll_, lastFlush_>>
  /\ UNCHANGED now

\* flush(), called by the user of the file
Flush ==
  /\ unflushed > 0
  /\ unflushed' = 0
  /\ UNCHANGED <<now, count_, startOfPeriod_, lastRoll_, lastFlush_, writtenBytes_, stamps,
                 appended, burst>>

Tick ==
  /\ now < MaxTime
  /\ now' = now + 1 /\ burst' = 0
  /\ UNCHANGED <<count_, startOfPeriod_, lastRoll_, lastFlush_, writtenBytes_, stamps, unflushed,
                 appended>>

FileNext == (\E len \in Lengths : AppendToFile(len)) \/ Flush \/ Tick

FileSpec == FileInit /\ [][FileNext]_fileVars

-----------------------------------------------------------------------------
\* A file grows past rollSize_ only by lines of the second it was created in,
\* when rollFile() refuses to roll again: a line of a later second closes it.
FileBounded == writtenBytes_ > RollSize => appended = lastRoll_

\* The file of a period gets fewer than checkEveryN_ lines of later periods.
PeriodsSeparated ==
  Cardinality({i \in DOMAIN stamps : PeriodOf(stamps[i]) # startOfPeriod_}) < CheckEveryN

\* After every checkEveryN_-th line nothing in the buffer of the file is older
\* than flushInterval_: rolls and flushes in between do not upset the counting.
FlushedInTime ==
  count_ = 0 => \A i \in Len(stamps) - unflushed + 1 .. Len(stamps) :
                  appended - stamps[i] <= FlushInterval
=============================================================================
