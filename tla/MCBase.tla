-------------------------------- MODULE MCBase --------------------------------
(***************************************************************************)
(* The threads of muduo/base, model-checked side by side: a behaviour picks *)
(* one part and moves only that one.                                       *)
(***************************************************************************)
EXTENDS Naturals, FiniteSets

CONSTANTS Workers, Callers, MaxQueueSize, MaxTasks,
          Producers, Consumers, QueueSize, MaxPuts,
          Capacity, MaxBuffers, MaxLines,
          Lengths, RollSize, FlushInterval, CheckEveryN, Period, MaxTime, MaxAppends

\* Any number of threads, a task queue that is bounded or not, and a bounded queue
\* with room for a value.
ASSUME PoolAssumption == IsFiniteSet(Workers) /\ IsFiniteSet(Callers) /\ MaxQueueSize \in Nat
ASSUME QueueAssumption ==
  IsFiniteSet(Producers) /\ IsFiniteSet(Consumers) /\ QueueSize \in Nat \ {0}

\* A log buffer has room for a line, and a buffer is kept.
ASSUME LoggingAssumption == Capacity \in Nat /\ Capacity > 1 /\ MaxBuffers \in Nat \ {0}

ASSUME FileAssumption ==
  /\ Lengths \subseteq Nat /\ RollSize \in Nat /\ FlushInterval \in Nat
  /\ CheckEveryN \in Nat \ {0} /\ Period \in Nat \ {0}
  /\ MaxTime \in Nat /\ Period <= MaxTime /\ MaxAppends \in Nat

VARIABLES
  part,
  \* Thread
  alive, started_, joined_, tid_, latchCount, mutex, holder_, threadPc,
  \* ThreadPool
  poolRunning, poolQueue, mpc, wpc, task, callerPc, created, callerTask, pushed, taken, executed,
  \* BlockingQueue, BoundedBlockingQueue
  queue_, ppc, cpc, mine, calls, input, output,
  \* AsyncLogging
  running_, currentBuffer_, nextBuffer_, buffers_, newBuffer1, newBuffer2,
  buffersToWrite, pc, opc, file, flushed, lines, lost,
  \* LogFile
  now, count_, startOfPeriod_, lastRoll_, lastFlush_, writtenBytes_, stamps,
  unflushed, appended, burst

Pool == INSTANCE ThreadPool WITH
  running_ <- poolRunning, queue_ <- poolQueue, cpc <- callerPc, mine <- callerTask,
  count_ <- latchCount, pc <- threadPc

\* The two queues share their variables.
Queue(MaxSize) == INSTANCE BoundedBlockingQueue

Logging == INSTANCE AsyncLogging

threadVars == <<alive, started_, joined_, tid_, latchCount, mutex, holder_, threadPc>>
poolVars == <<poolRunning, poolQueue, mpc, wpc, task, callerPc, created, callerTask, pushed,
              taken, executed>>
queueVars == <<queue_, ppc, cpc, mine, calls, input, output>>
loggingVars == <<running_, currentBuffer_, nextBuffer_, buffers_, newBuffer1, newBuffer2,
                 buffersToWrite, pc, opc, file, flushed, lines, lost>>
fileVars == <<now, count_, startOfPeriod_, lastRoll_, lastFlush_, writtenBytes_, stamps,
              unflushed, appended, burst>>
vars == <<part, threadVars, poolVars, queueVars, loggingVars, fileVars>>

Init ==
  /\ part \in {"thread", "pool", "bounded", "unbounded", "logging", "file"}
  /\ Pool!ThreadInit /\ Pool!Init /\ Queue(QueueSize)!Init /\ Logging!Init
  /\ IF part = "file" THEN Logging!FileInit ELSE Logging!FileInit /\ now = 1

ThreadNext == part = "thread" /\ Pool!ThreadNext
PoolNext == part = "pool" /\ Pool!Next
BoundedNext == part = "bounded" /\ Queue(QueueSize)!Next
UnboundedNext == part = "unbounded" /\ Queue(0)!Next
LoggingNext == part = "logging" /\ Logging!Next
FileNext == part = "file" /\ Logging!FileNext

Next ==
  /\ UNCHANGED part
  /\ \/ ThreadNext /\ UNCHANGED <<poolVars, queueVars, loggingVars, fileVars>>
     \/ PoolNext /\ UNCHANGED <<threadVars, queueVars, loggingVars, fileVars>>
     \/ BoundedNext /\ UNCHANGED <<threadVars, poolVars, loggingVars, fileVars>>
     \/ UnboundedNext /\ UNCHANGED <<threadVars, poolVars, loggingVars, fileVars>>
     \/ LoggingNext /\ UNCHANGED <<threadVars, poolVars, queueVars, fileVars>>
     \/ FileNext /\ UNCHANGED <<threadVars, poolVars, queueVars, loggingVars>>

\* Only the consumers could move in a part that was not picked.
QueueFairness ==
  /\ \A p \in Producers : WF_queueVars(Queue(QueueSize)!PutAgain(p))
  /\ \A c \in Consumers : WF_queueVars(part = "bounded" /\ Queue(QueueSize)!Take(c))

Spec ==
  /\ Init /\ [][Next]_vars
  /\ Pool!ThreadFairness /\ Pool!Fairness /\ QueueFairness /\ Logging!Fairness

-----------------------------------------------------------------------------
\* Every part keeps its types: the pool and the bounded queue never hold more
\* than their capacity, a log buffer always has room for one more line.
TypeOK ==
  /\ Pool!ThreadTypeOK /\ Pool!TypeOK /\ Logging!TypeOK /\ Logging!FileTypeOK
  /\ IF part = "unbounded" THEN Queue(0)!TypeOK ELSE Queue(QueueSize)!TypeOK

\* Thread: start() returns with the tid stored, and the new thread uses the
\* Thread object only while it exists.  AsyncLogging: the assertions of
\* threadFunc() on the spare buffers it exchanges hold.
HandedOver == Pool!ThreadObjectInUse /\ Pool!TidStored /\ Logging!BuffersReady

\* ThreadPool and the queues: no task or value lies in the queue with a taker
\* asleep that was not notified, and no place is free with a caller asleep that
\* was not.
NoLostNotify ==
  /\ Pool!WorkersNotified /\ Pool!CallersNotified
  /\ Queue(QueueSize)!ConsumersNotified /\ (part = "bounded" => Queue(QueueSize)!ProducersNotified)

\* ThreadPool and the queues: first in, first out, each once.  AsyncLogging:
\* lines reach the file in order, none lost without a notice.
InOrder == Pool!TasksInOrder /\ Queue(QueueSize)!FirstInFirstOut /\ Logging!LinesInOrder

\* LogFile: a file outgrows rollSize_ only in the second it was created in, it
\* gets few lines of later periods, and lines are flushed in time.
FilesRolled == Logging!FileBounded /\ Logging!PeriodsSeparated /\ Logging!FlushedInTime

\* What waits gets its turn: Thread::start() returns; queued tasks are executed
\* and ThreadPool::stop() returns; put() returns as long as somebody takes; log
\* lines are flushed without another line to push them, and AsyncLogging::stop()
\* returns.
WaitsEnd ==
  /\ Pool!StartReturns
  /\ Pool!TasksExecuted /\ Pool!StopReturns
  /\ Queue(QueueSize)!PutReturns
  /\ Logging!LinesFlushed /\ Logging!StopReturns
===============================================================================
