----------------------------- MODULE ThreadPool -----------------------------
(***************************************************************************)
(* ThreadPool, then the Thread its workers are.                            *)
(***************************************************************************)
EXTENDS Condition, Sequences

-----------------------------------------------------------------------------
(***************************************************************************)
(* muduo/base/ThreadPool.cc: a fixed set of workers takes tasks from a     *)
(* queue, bounded or not; callers of run() wait on notFull_, workers on    *)
(* notEmpty_, and stop() ends the workers.  What a thread does between     *)
(* taking mutex_ and releasing it or waiting is one step (Condition.tla).  *)
(***************************************************************************)

CONSTANTS
  Workers,        \* threads start() creates
  Callers,        \* threads that call run()
  MaxQueueSize,   \* maxQueueSize_, 0 for an unbounded queue
  MaxTasks        \* bound on the tasks

VARIABLES
  running_,
  queue_,
  mpc,        \* where the owner of the pool is
  wpc,        \* where each worker is
  task,       \* the task of each worker
  cpc,        \* where each caller is
  created,    \* number of tasks made; a task is its number
  mine,       \* the task each caller hands to run()
  pushed,     \* history: tasks in the order they were queued
  taken,      \* history: tasks in the order they were taken
  executed    \* history: tasks that have been run

vars == <<running_, queue_, mpc, wpc, task, cpc, created, mine, pushed, taken, executed>>

TypeOK ==
  /\ running_ \in BOOLEAN
  /\ mpc \in {"new", "started", "stopping", "joined"}
  /\ wpc \in [Workers -> {"new", "loop", "take", "wait", "retest", "task", "done"}]
  /\ cpc \in [Callers -> {"idle", "wait", "retest"}]
  /\ created \in Nat
  /\ task \in [Workers -> Nat] /\ mine \in [Callers -> Nat]
  /\ queue_ \in Seq(Nat) /\ pushed \in Seq(Nat) /\ taken \in Seq(Nat)
  /\ MaxQueueSize > 0 => Len(queue_) <= MaxQueueSize
  /\ executed \subseteq Nat

Init ==
  /\ running_ = FALSE /\ mpc = "new"
  /\ wpc = [w \in Workers |-> "new"] /\ task = [w \in Workers |-> 0]
  /\ cpc = [c \in Callers |-> "idle"] /\ mine = [c \in Callers |-> 0]
  /\ created = 0 /\ queue_ = <<>> /\ pushed = <<>> /\ taken = <<>> /\ executed = {}

-----------------------------------------------------------------------------
(* Operators.                                                              *)

\* Mutant of isFull: one task too many.
IsFullLate == MaxQueueSize > 0 /\ Len(queue_) > MaxQueueSize

isFull == MaxQueueSize > 0 /\ Len(queue_) >= MaxQueueSize

\* Mutant of NotifyNotEmpty: only the push on an empty queue notifies.
NotifyFirst == wpc' \in (IF queue_ = <<>> THEN Notified(wpc) ELSE {wpc})

\* Mutant of NotifyNotEmpty: the wrong condition variable is notified.
NotifyWrong == wpc' = wpc

\* notEmpty_.notify() of run()
NotifyNotEmpty == wpc' \in Notified(wpc)

\* Mutant of NotifyNotFull: only the take from a full queue notifies.
NotifyWhenFull == cpc' \in (IF isFull THEN Notified(cpc) ELSE {cpc})

\* notFull_.notify() of take()
NotifyNotFull == cpc' \in (IF MaxQueueSize > 0 THEN Notified(cpc) ELSE {cpc})

-----------------------------------------------------------------------------
(* The owner.                                                              *)

Start ==
  /\ mpc = "new"
  /\ mpc' = "started"
  /\ running_' = TRUE
  /\ wpc' = [w \in Workers |-> "loop"]
  /\ UNCHANGED <<queue_, task, cpc, created, mine, pushed, taken, executed>>

\* Mutant of Stop: one worker is notified.
StopNotifiesOne ==
  /\ mpc = "started"
  /\ mpc' = "stopping"
  /\ running_' = FALSE
  /\ wpc' \in Notified(wpc)
  /\ UNCHANGED <<queue_, task, cpc, created, mine, pushed, taken, executed>>

\* stop(), up to the join()s
Stop ==
  /\ mpc = "started"
  /\ mpc' = "stopping"
  /\ running_' = FALSE
  /\ wpc' = NotifiedAll(wpc)
  /\ UNCHANGED <<queue_, task, cpc, created, mine, pushed, taken, executed>>

Join ==
  /\ mpc = "stopping"
  /\ \A w \in Workers : wpc[w] = "done"
  /\ mpc' = "joined"
  /\ UNCHANGED <<running_, queue_, wpc, task, cpc, created, mine, pushed, taken, executed>>

-----------------------------------------------------------------------------
(* The callers of run().                                                   *)

\* Without threads the caller runs the task itself.
RunDirectly(c) ==
  /\ mpc = "new" \/ Workers = {}
  /\ created < MaxTasks
  /\ created' = created + 1
  /\ executed' = executed \cup {created + 1}
  /\ UNCHANGED <<running_, queue_, mpc, wpc, task, cpc, mine, pushed, taken>>

\* The critical section of run(): wait, or push and notify.
TestFull(c, t) ==
  IF isFull
  THEN /\ cpc' = [cpc EXCEPT ![c] = "wait"]
       /\ UNCHANGED <<queue_, pushed, wpc>>
  ELSE /\ queue_' = Append(queue_, t)
       /\ pushed' = Append(pushed, t)
       /\ cpc' = [cpc EXCEPT ![c] = "idle"]
       /\ NotifyNotEmpty

Run(c) ==
  /\ mpc # "new" /\ Workers # {}
  /\ cpc[c] = "idle"
  /\ created < MaxTasks
  /\ created' = created + 1
  /\ mine' = [mine EXCEPT ![c] = created + 1]
  /\ TestFull(c, created + 1)
  /\ UNCHANGED <<running_, mpc, task, taken, executed>>

RunAgain(c) ==
  /\ cpc[c] = "retest"
  /\ TestFull(c, mine[c])
  /\ UNCHANGED <<running_, mpc, task, created, mine, taken, executed>>

-----------------------------------------------------------------------------
(* The workers.                                                            *)

\* while (running_) of runInThread(), read without the lock
TestRunning(w) ==
  /\ wpc[w] = "loop"
  /\ wpc' = [wpc EXCEPT ![w] = IF running_ THEN "take" ELSE "done"]
  /\ UNCHANGED <<running_, queue_, mpc, task, cpc, created, mine, pushed, taken, executed>>

\* Mutant of TakeFrom: the newest task is taken.
TakeNewest == [task |-> queue_[Len(queue_)], rest |-> SubSeq(queue_, 1, Len(queue_) - 1)]

TakeFrom == [task |-> Head(queue_), rest |-> Tail(queue_)]

\* take(): wait, take a task, or come back without one from a stopped pool.
Take(w) ==
  /\ wpc[w] \in {"take", "retest"}
  /\ \/ /\ queue_ = <<>> /\ running_
        /\ wpc' = [wpc EXCEPT ![w] = "wait"]
        /\ UNCHANGED <<queue_, task, taken, cpc>>
     \/ /\ queue_ = <<>> /\ ~running_
        /\ wpc' = [wpc EXCEPT ![w] = "loop"]
        /\ UNCHANGED <<queue_, task, taken, cpc>>
     \/ /\ queue_ # <<>>
        /\ task' = [task EXCEPT ![w] = TakeFrom.task]
        /\ queue_' = TakeFrom.rest
        /\ taken' = Append(taken, TakeFrom.task)
        /\ wpc' = [wpc EXCEPT ![w] = "task"]
        /\ NotifyNotFull
  /\ UNCHANGED <<running_, mpc, created, mine, pushed, executed>>

RunTask(w) ==
  /\ wpc[w] = "task"
  /\ wpc' = [wpc EXCEPT ![w] = "loop"]
  /\ executed' = executed \cup {task[w]}
  /\ UNCHANGED <<running_, queue_, mpc, task, cpc, created, mine, pushed, taken>>

\* pthread_cond_wait() may return without a notification.
SpuriousWakeup ==
  \/ /\ \E w \in Workers : wpc[w] = "wait" /\ wpc' = Wake(wpc, w)
     /\ UNCHANGED <<running_, queue_, mpc, task, cpc, created, mine, pushed, taken, executed>>
  \/ /\ \E c \in Callers : cpc[c] = "wait" /\ cpc' = Wake(cpc, c)
     /\ UNCHANGED <<running_, queue_, mpc, wpc, task, created, mine, pushed, taken, executed>>

WorkerStep(w) == TestRunning(w) \/ Take(w) \/ RunTask(w)

Next ==
  \/ Start \/ Stop \/ Join \/ SpuriousWakeup
  \/ \E c \in Callers : RunDirectly(c) \/ Run(c) \/ RunAgain(c)
  \/ \E w \in Workers : WorkerStep(w)

Spec == Init /\ [][Next]_vars

\* Threads are scheduled and tasks return; nothing relies on spurious wakeups.
Fairness ==
  /\ WF_vars(Join)
  /\ \A c \in Callers : WF_vars(RunAgain(c))
  /\ \A w \in Workers : WF_vars(WorkerStep(w))

-----------------------------------------------------------------------------
(* Properties.                                                             *)

\* Tasks are taken in the order run() queued them, each once, over all the
\* workers and callers.
TasksInOrder == pushed = taken \o queue_

\* While a worker sleeps in take(), every task in the queue of a running pool
\* has a worker that was notified of it: none waits for a busy worker.
WorkersNotified == running_ => WokenFor(wpc, Len(queue_))

\* While a caller sleeps in run(), every free place of the queue has a caller
\* that was notified of it.
CallersNotified == WokenFor(cpc, MaxQueueSize - Len(queue_))

\* A queued task is executed, unless the pool is stopped.
TasksExecuted ==
  \A t \in 1 .. MaxTasks :
    (\E i \in 1 .. Len(queue_) : queue_[i] = t) ~> (t \in executed \/ ~running_)

\* stop() returns: every worker is woken and leaves.
StopReturns == mpc = "stopping" ~> mpc = "joined"

-----------------------------------------------------------------------------
(***************************************************************************)
(* muduo/base/Thread.cc: start() waits on the CountDownLatch of the Thread  *)
(* object until the new thread has stored its tid in the object and counted *)
(* the latch down; then the object may be destroyed while the thread still *)
(* runs.  The latch's MutexLock is taken and released step by step.        *)
(***************************************************************************)

Owner == "owner"    \* the thread that calls start()
Child == "child"    \* the thread it creates
Actors == {Owner, Child}
None == "none"

VARIABLES
  alive,     \* the Thread object, with its latch and mutex, exists
  started_, joined_, tid_,
  count_,    \* of latch_
  mutex,     \* who has the pthread mutex of latch_
  holder_,   \* who MutexLock thinks has it
  pc

threadVars == <<alive, started_, joined_, tid_, count_, mutex, holder_, pc>>

ThreadTypeOK ==
  /\ alive \in BOOLEAN /\ started_ \in BOOLEAN /\ joined_ \in BOOLEAN
  /\ tid_ \in {None, Child} /\ count_ \in 0 .. 1
  /\ mutex \in Actors \cup {None} /\ holder_ \in {mutex, None}
  /\ pc \in [Actors -> {"new", "tid", "lock", "locked", "wait", "retest", "unlock", "release",
                        "running", "done", "joined", "gone"}]

ThreadInit ==
  /\ alive = TRUE /\ started_ = FALSE /\ joined_ = FALSE /\ tid_ = None /\ count_ = 1
  /\ mutex = None /\ holder_ = None
  /\ pc = [t \in Actors |-> "new"]

At(t, here, there) == pc[t] = here /\ pc' = [pc EXCEPT ![t] = there]

-----------------------------------------------------------------------------
(* MutexLock, taken by MutexLockGuard and by the end of Condition::wait().  *)

Lock(t) ==
  /\ pc[t] \in {"lock", "retest"}
  /\ mutex = None
  /\ mutex' = t /\ holder_' = t
  /\ pc' = [pc EXCEPT ![t] = "locked"]
  /\ UNCHANGED <<alive, started_, joined_, tid_, count_>>

\* unlock() clears holder_ first.
UnassignHolder(t) ==
  /\ At(t, "unlock", "release")
  /\ holder_' = None
  /\ UNCHANGED <<alive, started_, joined_, tid_, count_, mutex>>

Release(t) ==
  /\ At(t, "release", "running")
  /\ mutex' = None
  /\ UNCHANGED <<alive, started_, joined_, tid_, count_, holder_>>

-----------------------------------------------------------------------------
(* The owner: "running" when start() has returned.                          *)

ThreadStart ==
  /\ alive /\ ~started_
  /\ started_' = TRUE
  /\ pc' = [pc EXCEPT ![Owner] = "lock", ![Child] = "tid"]
  /\ UNCHANGED <<alive, joined_, tid_, count_, mutex, holder_>>

\* Mutant of LatchWait: the count is also read without the lock.
LatchPeek ==
  \/ /\ pc[Owner] \in {"lock", "locked"} /\ count_ = 0
     /\ pc' = [pc EXCEPT ![Owner] = IF mutex = Owner THEN "unlock" ELSE "running"]
     /\ UNCHANGED <<alive, started_, joined_, tid_, count_, mutex, holder_>>
  \/ /\ At(Owner, "locked", "wait") /\ count_ > 0
     /\ mutex' = None /\ holder_' = None
     /\ UNCHANGED <<alive, started_, joined_, tid_, count_>>

\* CountDownLatch::wait() with the mutex
LatchWait ==
  /\ IF count_ > 0
     THEN /\ At(Owner, "locked", "wait")
          /\ mutex' = None /\ holder_' = None
     ELSE /\ At(Owner, "locked", "unlock")
          /\ UNCHANGED <<mutex, holder_>>
  /\ UNCHANGED <<alive, started_, joined_, tid_, count_>>

ThreadSpuriousWakeup ==
  /\ At(Owner, "wait", "retest")
  /\ UNCHANGED <<alive, started_, joined_, tid_, count_, mutex, holder_>>

ThreadJoin ==
  /\ pc[Child] = "done"
  /\ At(Owner, "running", "joined")
  /\ joined_' = TRUE
  /\ UNCHANGED <<alive, started_, tid_, count_, mutex, holder_>>

\* ~Thread(), which detaches a thread that was not joined, or was never started
Destroy ==
  /\ pc[Owner] \in {"running", "joined"} \/ ~started_
  /\ alive
  /\ alive' = FALSE
  /\ pc' = [pc EXCEPT ![Owner] = "gone"]
  /\ UNCHANGED <<started_, joined_, tid_, count_, mutex, holder_>>

-----------------------------------------------------------------------------
(* runInThread()                                                            *)

\* Mutant of StoreTid: the tid is stored by the thread function.
StoreTidLate ==
  /\ At(Child, "tid", "lock")
  /\ UNCHANGED <<alive, started_, joined_, tid_, count_, mutex, holder_>>

StoreTid ==
  /\ At(Child, "tid", "lock")
  /\ tid_' = Child
  /\ UNCHANGED <<alive, started_, joined_, count_, mutex, holder_>>

\* Mutant of CountDown: nobody is notified.
CountDownSilently ==
  /\ pc[Child] = "locked"
  /\ count_' = count_ - 1
  /\ pc' = [pc EXCEPT ![Child] = "unlock"]
  /\ UNCHANGED <<alive, started_, joined_, tid_, mutex, holder_>>

\* CountDownLatch::countDown() with the mutex
CountDown ==
  /\ pc[Child] = "locked"
  /\ count_' = count_ - 1
  /\ LET woken == IF count_' = 0 THEN NotifiedAll(pc) ELSE pc
     IN pc' = [woken EXCEPT ![Child] = "unlock"]
  /\ UNCHANGED <<alive, started_, joined_, tid_, mutex, holder_>>

\* func_() returns.
FuncReturns ==
  /\ At(Child, "running", "done")
  /\ UNCHANGED <<alive, started_, joined_, tid_, count_, mutex, holder_>>

OwnerStep == Lock(Owner) \/ UnassignHolder(Owner) \/ Release(Owner) \/ LatchWait
ChildStep == Lock(Child) \/ UnassignHolder(Child) \/ Release(Child) \/ StoreTid \/ CountDown

ThreadNext == \/ ThreadStart \/ OwnerStep \/ ThreadSpuriousWakeup \/ ThreadJoin \/ Destroy
              \/ ChildStep \/ FuncReturns

ThreadSpec == ThreadInit /\ [][ThreadNext]_threadVars

\* Both threads are scheduled until start() has returned, and a thread that waits
\* for a mutex that is released again and again gets it.
ThreadFairness == WF_threadVars(OwnerStep) /\ WF_threadVars(ChildStep) /\ SF_threadVars(Lock(Child))

-----------------------------------------------------------------------------
\* The new thread uses the Thread object only while it exists, though start()
\* may return and the object be destroyed as soon as the latch is open; its
\* mutex is free by then, as ~MutexLock() asserts.
ThreadObjectInUse ==
  /\ pc[Child] \in {"tid", "lock", "locked", "unlock", "release"} => alive
  /\ ~alive => mutex = None /\ holder_ = None

\* assert(tid_ > 0) of start(): the tid is there when start() returns.
TidStored == started_ /\ pc[Owner] \in {"running", "joined"} => tid_ = Child

\* start() returns.
StartReturns == pc[Owner] = "lock" ~> pc[Owner] = "running"
=============================================================================
