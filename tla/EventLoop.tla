----------------------------- MODULE EventLoop ------------------------------
(***************************************************************************)
(* The reactor of muduo/net/EventLoop.cc: one loop thread that polls its   *)
(* channels, handles the active ones and runs the pending functors, and    *)
(* other threads that hand functors to it (runInLoop, queueInLoop) or stop *)
(* it (quit) and wake it through an eventfd.                               *)
(*                                                                         *)
(* A call of another thread is two steps, the update of the shared member  *)
(* and the wakeup(), because the loop thread may run between them.  A      *)
(* functor or an event callback is user code: it is entered, it may call   *)
(* queueInLoop() and quit() any number of times, and it returns.           *)
(*                                                                         *)
(* At the end, EventLoopThread.cc: a thread that runs such a loop.         *)
(***************************************************************************)
EXTENDS Naturals, Sequences

CONSTANTS
  Threads,         \* threads other than the loop thread
  Channels,        \* I/O channels registered with the poller
  WakeupChannel,   \* wakeupChannel_
  MaxFunctors,     \* bound on the functors queued in one behaviour
  EventfdMax       \* largest value of an eventfd counter (2^64 - 2 in Linux)

\* The contexts in which the loop thread itself calls queueInLoop().
LoopContexts == {"before", "event", "functor"}

Callers == Threads \cup LoopContexts

Functor == [id : Nat \ {0}, from : Callers]

ASSUME EventLoopAssumption ==
  /\ Threads \cap LoopContexts = {}
  /\ WakeupChannel \notin Channels
  /\ MaxFunctors \in Nat
  /\ EventfdMax \in Nat \ {0}

VARIABLES
  pc,                      \* where the loop thread is
  quit_,                   \* std::atomic<bool> quit_
  callingPendingFunctors_, \* set while doPendingFunctors() runs
  activeChannels_,         \* active channels not handled yet
  pendingFunctors_,        \* guarded by mutex_
  functors,                \* local of doPendingFunctors(): not yet called
  wakeupFd_,               \* value of the eventfd counter
  readable,                \* I/O channels with an event the kernel would report
  tpc,                     \* where each other thread is
  posted,                  \* number of functors queued so far
  last                     \* identifier of the functor called last

vars == <<pc, quit_, callingPendingFunctors_, activeChannels_, pendingFunctors_,
          functors, wakeupFd_, readable, tpc, posted, last>>

LoopPCs == {"created", "while", "poll", "handle", "callback", "swap", "run",
            "functor", "exited"}

TypeOK ==
  /\ pc \in LoopPCs
  /\ quit_ \in BOOLEAN
  /\ callingPendingFunctors_ \in BOOLEAN
  /\ activeChannels_ \subseteq Channels \cup {WakeupChannel}
  /\ pendingFunctors_ \in Seq(Functor)
  /\ functors \in Seq(Functor)
  /\ wakeupFd_ \in 0 .. EventfdMax
  /\ readable \subseteq Channels
  /\ tpc \in [Threads -> {"idle", "wakeup"}]
  /\ posted \in Nat
  /\ last \in Nat

\* EventLoop::EventLoop()
Init ==
  /\ pc = "created"
  /\ quit_ = FALSE
  /\ callingPendingFunctors_ = FALSE
  /\ activeChannels_ = {}
  /\ pendingFunctors_ = <<>>
  /\ functors = <<>>
  /\ wakeupFd_ = 0
  /\ readable = {}
  /\ tpc = [t \in Threads |-> "idle"]
  /\ posted = 0
  /\ last = 0

-----------------------------------------------------------------------------
(* Calls from other threads.                                               *)

\* The eventfd is non-blocking: a write that would overflow fails, is logged,
\* and leaves the counter alone.
Wakeup ==
  wakeupFd_' = IF wakeupFd_ < EventfdMax THEN wakeupFd_ + 1 ELSE wakeupFd_

\* The push of queueInLoop(), under mutex_.
Push(caller) ==
  /\ posted < MaxFunctors
  /\ posted' = posted + 1
  /\ pendingFunctors_' = Append(pendingFunctors_, [id |-> posted + 1, from |-> caller])

\* queueInLoop(), and runInLoop() outside the loop thread: the push.
QueueInLoop(t) ==
  /\ tpc[t] = "idle"
  /\ Push(t)
  /\ tpc' = [tpc EXCEPT ![t] = "wakeup"]
  /\ UNCHANGED <<pc, quit_, callingPendingFunctors_, activeChannels_, functors,
                 wakeupFd_, readable, last>>

\* Mutant of Quit: the wakeup() is forgotten.
QuitNoWakeup(t) ==
  /\ tpc[t] = "idle"
  /\ quit_' = TRUE
  /\ UNCHANGED <<pc, callingPendingFunctors_, activeChannels_, pendingFunctors_,
                 functors, wakeupFd_, readable, tpc, posted, last>>

\* quit() outside the loop thread: the store.
Quit(t) ==
  /\ tpc[t] = "idle"
  /\ quit_' = TRUE
  /\ tpc' = [tpc EXCEPT ![t] = "wakeup"]
  /\ UNCHANGED <<pc, callingPendingFunctors_, activeChannels_, pendingFunctors_,
                 functors, wakeupFd_, readable, posted, last>>

\* The wakeup() that ends both.
WakeupBy(t) ==
  /\ tpc[t] = "wakeup"
  /\ Wakeup
  /\ tpc' = [tpc EXCEPT ![t] = "idle"]
  /\ UNCHANGED <<pc, quit_, callingPendingFunctors_, activeChannels_,
                 pendingFunctors_, functors, readable, posted, last>>

-----------------------------------------------------------------------------
(* Calls from the loop thread: before loop(), after it, from an event      *)
(* callback or from a functor.                                             *)

Context == CASE pc \in {"created", "exited"} -> "before"
             [] pc = "callback" -> "event"
             [] pc = "functor" -> "functor"

InUserCode == pc \in {"created", "exited", "callback", "functor"}

\* Mutant of SelfNeedsWakeup: only other threads need to wake the loop.
SelfNeverNeedsWakeup == FALSE

\* The second half of the test !isInLoopThread() || callingPendingFunctors_.
SelfNeedsWakeup == callingPendingFunctors_

\* queueInLoop() in the loop thread wakes the loop only when it is called
\* from a pending functor.
QueueInLoopSelf ==
  /\ InUserCode
  /\ Push(Context)
  /\ IF SelfNeedsWakeup THEN Wakeup ELSE UNCHANGED wakeupFd_
  /\ UNCHANGED <<pc, quit_, callingPendingFunctors_, activeChannels_, functors,
                 readable, tpc, last>>

\* quit() in the loop thread needs no wakeup().
QuitSelf ==
  /\ InUserCode
  /\ quit_' = TRUE
  /\ UNCHANGED <<pc, callingPendingFunctors_, activeChannels_, pendingFunctors_,
                 functors, wakeupFd_, readable, tpc, posted, last>>

-----------------------------------------------------------------------------
(* The loop thread.                                                        *)

\* loop() forgets any earlier quit().
Loop ==
  /\ pc \in {"created", "exited"}
  /\ pc' = "while"
  /\ quit_' = FALSE
  /\ UNCHANGED <<callingPendingFunctors_, activeChannels_, pendingFunctors_,
                 functors, wakeupFd_, readable, tpc, posted, last>>

\* Mutant of TestQuit: the loop forgets the request once it has seen it.
TestNoQuit ==
  /\ pc = "while"
  /\ pc' = "poll"
  /\ quit_' = FALSE
  /\ activeChannels_' = {}
  /\ UNCHANGED <<callingPendingFunctors_, pendingFunctors_, functors, wakeupFd_,
                 readable, tpc, posted, last>>

\* while (!quit_)
TestQuit ==
  /\ pc = "while"
  /\ pc' = IF quit_ THEN "exited" ELSE "poll"
  /\ activeChannels_' = IF quit_ THEN activeChannels_ ELSE {}
  /\ UNCHANGED <<quit_, callingPendingFunctors_, pendingFunctors_, functors,
                 wakeupFd_, readable, tpc, posted, last>>

\* What the kernel would report; the wakeup channel is always reading.
Reportable == readable \cup (IF wakeupFd_ > 0 THEN {WakeupChannel} ELSE {})

\* poll() reports some of the ready channels: epoll_wait fills at most
\* events_.size() entries, and the kernel picks which.
PollReturn(ready) ==
  /\ pc = "poll"
  /\ ready # {}
  /\ activeChannels_' = ready
  /\ pc' = "handle"
  /\ UNCHANGED <<quit_, callingPendingFunctors_, pendingFunctors_, functors,
                 wakeupFd_, readable, tpc, posted, last>>

\* poll() gives up after kPollTimeMs, or on EINTR, with no active channel.
PollTimeout ==
  /\ pc = "poll"
  /\ pc' = "handle"
  /\ UNCHANGED <<quit_, callingPendingFunctors_, activeChannels_, pendingFunctors_,
                 functors, wakeupFd_, readable, tpc, posted, last>>

\* handleEvent() of the wakeup channel: EventLoop::handleRead() reads the
\* eventfd, which resets its counter.
HandleRead ==
  /\ pc = "handle"
  /\ WakeupChannel \in activeChannels_
  /\ activeChannels_' = activeChannels_ \ {WakeupChannel}
  /\ wakeupFd_' = 0
  /\ UNCHANGED <<pc, quit_, callingPendingFunctors_, pendingFunctors_, functors,
                 readable, tpc, posted, last>>

\* handleEvent() of an I/O channel enters its callback, which may or may not
\* consume what made the channel ready.
HandleEvent(c) ==
  /\ pc = "handle"
  /\ c \in activeChannels_
  /\ activeChannels_' = activeChannels_ \ {c}
  /\ readable' \in {readable, readable \ {c}}
  /\ pc' = "callback"
  /\ UNCHANGED <<quit_, callingPendingFunctors_, pendingFunctors_, functors,
                 wakeupFd_, tpc, posted, last>>

EventReturn ==
  /\ pc = "callback"
  /\ pc' = "handle"
  /\ UNCHANGED <<quit_, callingPendingFunctors_, activeChannels_, pendingFunctors_,
                 functors, wakeupFd_, readable, tpc, posted, last>>

\* The end of the for loop over the active channels, and the first statement
\* of doPendingFunctors().
EventsDone ==
  /\ pc = "handle"
  /\ activeChannels_ = {}
  /\ callingPendingFunctors_' = TRUE
  /\ pc' = "swap"
  /\ UNCHANGED <<quit_, activeChannels_, pendingFunctors_, functors, wakeupFd_,
                 readable, tpc, posted, last>>

\* Mutant of SwapFunctors: the batch is copied instead of swapped out.
CopyFunctors ==
  /\ pc = "swap"
  /\ functors' = pendingFunctors_
  /\ pc' = "run"
  /\ UNCHANGED <<quit_, callingPendingFunctors_, activeChannels_, pendingFunctors_,
                 wakeupFd_, readable, tpc, posted, last>>

\* functors.swap(pendingFunctors_), under mutex_.
SwapFunctors ==
  /\ pc = "swap"
  /\ functors' = pendingFunctors_
  /\ pendingFunctors_' = functors
  /\ pc' = "run"
  /\ UNCHANGED <<quit_, callingPendingFunctors_, activeChannels_, wakeupFd_,
                 readable, tpc, posted, last>>

CallFunctor ==
  /\ pc = "run"
  /\ functors # <<>>
  /\ last' = Head(functors).id
  /\ functors' = Tail(functors)
  /\ pc' = "functor"
  /\ UNCHANGED <<quit_, callingPendingFunctors_, activeChannels_, pendingFunctors_,
                 wakeupFd_, readable, tpc, posted>>

FunctorReturn ==
  /\ pc = "functor"
  /\ pc' = "run"
  /\ UNCHANGED <<quit_, callingPendingFunctors_, activeChannels_, pendingFunctors_,
                 functors, wakeupFd_, readable, tpc, posted, last>>

FunctorsDone ==
  /\ pc = "run"
  /\ functors = <<>>
  /\ callingPendingFunctors_' = FALSE
  /\ pc' = "while"
  /\ UNCHANGED <<quit_, activeChannels_, pendingFunctors_, functors, wakeupFd_,
                 readable, tpc, posted, last>>

-----------------------------------------------------------------------------
\* The outside world makes a channel ready.
FdReady(c) ==
  /\ c \notin readable
  /\ readable' = readable \cup {c}
  /\ UNCHANGED <<pc, quit_, callingPendingFunctors_, activeChannels_,
                 pendingFunctors_, functors, wakeupFd_, tpc, posted, last>>

\* What the loop thread does of itself, without the help of a poll timeout.
LoopStep ==
  \/ TestQuit
  \/ \E ready \in SUBSET Reportable : PollReturn(ready)
  \/ HandleRead
  \/ \E c \in Channels : HandleEvent(c)
  \/ EventReturn
  \/ EventsDone
  \/ SwapFunctors
  \/ CallFunctor
  \/ FunctorReturn
  \/ FunctorsDone

Next ==
  \/ LoopStep
  \/ Loop
  \/ PollTimeout
  \/ QueueInLoopSelf
  \/ QuitSelf
  \/ \E t \in Threads : QueueInLoop(t) \/ Quit(t) \/ WakeupBy(t)
  \/ \E c \in Channels : FdReady(c)

Spec == Init /\ [][Next]_vars

\* The loop thread keeps running, callbacks and functors return, a thread that
\* has started a call finishes it, and a ready eventfd is not passed over for
\* ever.  Nothing is assumed of the poll timeout.
Fairness ==
  /\ WF_vars(LoopStep)
  /\ SF_vars(\E ready \in SUBSET Reportable : WakeupChannel \in ready /\ PollReturn(ready))
  /\ \A t \in Threads : WF_vars(WakeupBy(t))

FairSpec == Spec /\ Fairness

-----------------------------------------------------------------------------
(* Properties.                                                             *)

\* A wakeup is on its way: the eventfd is readable, or a thread that has
\* queued a functor or stored quit_ is about to write it.
WakeupComing == wakeupFd_ > 0 \/ \E t \in Threads : tpc[t] = "wakeup"

\* The loop thread never sits in poll() on a functor that another thread, an
\* event callback or a functor has queued, nor on a quit(), unless a wakeup is
\* on its way: queueInLoop() and quit() never lose a wakeup, whatever the
\* order of the push, the write, the poll, the read and the swap.
NoLostWakeup ==
  pc = "poll" =>
    \/ WakeupComing
    \/ /\ ~quit_
       /\ \A i \in DOMAIN pendingFunctors_ : pendingFunctors_[i].from = "before"

\* The comment in queueInLoop() says that only a call from an event callback
\* of the loop thread can do without a wakeup(): whatever else has queued a
\* functor, the loop does not sit in poll() on it without a wakeup coming.
OnlyEventsSkipWakeup == pc = "poll" /\ pendingFunctors_ # <<>> => WakeupComing

\* All that is queued and not called yet, oldest first.
Queue == functors \o pendingFunctors_

FIFO == INSTANCE Executor WITH queue <- Queue

\* queueInLoop() is a FIFO executor: pendingFunctors_ and the batch that
\* doPendingFunctors() has swapped out are one queue, from which functors are
\* called oldest first, exactly once each.
FunctorsInOrder == FIFO!Spec

\* The inductive invariant behind NoLostWakeup and FunctorsInOrder.
\* The batch is empty but while it runs, and callingPendingFunctors_ says so.
BatchInv ==
  /\ functors # <<>> => pc \in {"run", "functor"}
  /\ callingPendingFunctors_ <=> pc \in {"swap", "run", "functor"}

\* From the swap on, and until the active channels are handled, a functor
\* pending without a wakeup coming was queued outside loop().
WakeupInv ==
  /\ pc \notin {"handle", "callback", "swap"} =>
       \/ WakeupComing
       \/ \A i \in 1 .. Len(pendingFunctors_) : pendingFunctors_[i].from = "before"
  /\ pc = "poll" /\ quit_ => WakeupComing

\* The batch and pendingFunctors_ hold the consecutive functors after last.
OrderInv ==
  /\ \A i \in 1 .. Len(functors) : functors[i].id = last + i
  /\ \A i \in 1 .. Len(pendingFunctors_) :
       pendingFunctors_[i].id = last + Len(functors) + i
  /\ posted = last + Len(functors) + Len(pendingFunctors_)

\* A functor queued by another thread, an event callback or a functor is
\* called, unless the loop is left first, and that without waiting for a poll
\* timeout.
FunctorsCalled ==
  \A k \in 1 .. MaxFunctors :
    (\E i \in DOMAIN Queue : Queue[i].id = k /\ Queue[i].from # "before")
      ~> (last >= k \/ pc \in {"created", "exited"})

\* quit() on a running loop ends it.
QuitEndsLoop == quit_ ~> pc \in {"created", "exited"}

-----------------------------------------------------------------------------
(***************************************************************************)
(* muduo/net/EventLoopThread.cc: an owner starts a thread that runs an     *)
(* EventLoop on its stack, waits until it is published in loop_, and       *)
(* destroys the EventLoopThread, which quits the loop and joins the        *)
(* thread.  Its loop is the one above, of which the owner is the other      *)
(* thread.                                                                 *)
(***************************************************************************)

CONSTANT Owner        \* the thread that owns the EventLoopThread

ASSUME OwnerAssumption == Owner \in Threads

VARIABLES
  loop_,   \* loop_ != NULL
  tfpc,    \* where threadFunc() is
  opc      \* where the owner is

threadVars == <<loop_, tfpc, opc>>
allVars == <<vars, threadVars>>

\* In "null" threadFunc() holds mutex_, between the store to loop_ and the end
\* of the scope of its lock; in "finished" the EventLoop is destroyed.
ThreadPCs == {"none", "callback", "loop", "null", "unlocked", "finished"}

\* In "test" the owner is about to test loop_ in startLoop(), in "wait" it is
\* blocked on cond_; in "join" the destructor is at thread_.join().
OwnerPCs == {"idle", "test", "wait", "started", "quit", "join", "done"}

ThreadTypeOK ==
  /\ TypeOK
  /\ loop_ \in BOOLEAN
  /\ tfpc \in ThreadPCs
  /\ opc \in OwnerPCs

ThreadInit ==
  /\ Init
  /\ loop_ = FALSE
  /\ tfpc = "none"
  /\ opc = "idle"

-----------------------------------------------------------------------------
(* The owner.                                                              *)

\* startLoop() starts the thread, which constructs its EventLoop.
StartThread ==
  /\ opc = "idle"
  /\ opc' = "test"
  /\ tfpc' = "callback"
  /\ UNCHANGED <<vars, loop_>>

\* while (loop_ == NULL) cond_.wait(), under mutex_.
TestLoop ==
  /\ opc = "test"
  /\ tfpc # "null"
  /\ opc' = IF loop_ THEN "started" ELSE "wait"
  /\ UNCHANGED <<vars, loop_, tfpc>>

SpuriousWakeup ==
  /\ opc = "wait"
  /\ opc' = "test"
  /\ UNCHANGED <<vars, loop_, tfpc>>

\* The owner uses the pointer startLoop() returned, as long as the thread
\* function that has the loop on its stack has not returned.
RunInLoop ==
  /\ opc = "started"
  /\ tfpc # "finished"
  /\ QueueInLoop(Owner)
  /\ UNCHANGED threadVars

FinishWakeup ==
  /\ WakeupBy(Owner)
  /\ opc' = IF opc = "quit" THEN "join" ELSE opc
  /\ UNCHANGED <<loop_, tfpc>>

\* ~EventLoopThread() reads loop_ without mutex_, and calls quit() on it.
DestructorQuits ==
  /\ opc = "started"
  /\ loop_
  /\ Quit(Owner)
  /\ opc' = "quit"
  /\ UNCHANGED <<loop_, tfpc>>

\* With no loop_ there is nothing to quit or join; ~Thread() detaches.
DestructorSkips ==
  /\ opc \in {"idle", "started"}
  /\ tpc[Owner] = "idle"
  /\ ~loop_
  /\ opc' = "done"
  /\ UNCHANGED <<vars, loop_, tfpc>>

Join ==
  /\ opc = "join"
  /\ tfpc = "finished"
  /\ opc' = "done"
  /\ UNCHANGED <<vars, loop_, tfpc>>

-----------------------------------------------------------------------------
(* threadFunc().                                                           *)

\* The init callback_ may use the loop before it runs.
InitCallback ==
  /\ tfpc = "callback"
  /\ QueueInLoopSelf \/ QuitSelf
  /\ UNCHANGED threadVars

\* Mutant of Publish: cond_.notify() is forgotten.
PublishSilently ==
  /\ tfpc = "callback"
  /\ loop_' = TRUE
  /\ tfpc' = "loop"
  /\ UNCHANGED <<vars, opc>>

\* loop_ = &loop and cond_.notify(), under mutex_.
Publish ==
  /\ tfpc = "callback"
  /\ loop_' = TRUE
  /\ opc' = IF opc = "wait" THEN "test" ELSE opc
  /\ tfpc' = "loop"
  /\ UNCHANGED vars

\* loop.loop(), entered once.
EnterLoop ==
  /\ tfpc = "loop"
  /\ pc = "created"
  /\ Loop
  /\ UNCHANGED threadVars

LoopRuns ==
  /\ tfpc = "loop"
  /\ LoopStep
  /\ UNCHANGED threadVars

LoopCallback ==
  /\ pc \in {"callback", "functor"}
  /\ QueueInLoopSelf \/ QuitSelf
  /\ UNCHANGED threadVars

LoopTimeout ==
  /\ PollTimeout
  /\ UNCHANGED threadVars

\* Mutant of NullLoop: the pointer to the dead loop stays behind.
KeepLoop ==
  /\ tfpc = "loop"
  /\ pc = "exited"
  /\ tfpc' = "null"
  /\ UNCHANGED <<vars, loop_, opc>>

\* After loop(), lock mutex_ and reset loop_.
NullLoop ==
  /\ tfpc = "loop"
  /\ pc = "exited"
  /\ loop_' = FALSE
  /\ tfpc' = "null"
  /\ UNCHANGED <<vars, opc>>

Unlock ==
  /\ tfpc = "null"
  /\ tfpc' = "unlocked"
  /\ UNCHANGED <<vars, loop_, opc>>

\* ~EventLoop() of the loop on the stack, and the end of the thread.
DestroyLoop ==
  /\ tfpc = "unlocked"
  /\ tfpc' = "finished"
  /\ UNCHANGED <<vars, loop_, opc>>

Environment == \E c \in Channels : FdReady(c) /\ UNCHANGED threadVars

ThreadFunc == Publish \/ EnterLoop \/ LoopRuns \/ LoopTimeout \/ NullLoop \/ Unlock \/ DestroyLoop

OwnerStep == TestLoop \/ FinishWakeup \/ Join

ThreadNext ==
  \/ ThreadFunc
  \/ OwnerStep
  \/ StartThread
  \/ SpuriousWakeup
  \/ RunInLoop
  \/ DestructorQuits
  \/ DestructorSkips
  \/ InitCallback
  \/ LoopCallback
  \/ Environment

\* Both threads keep running; the poll timeout is counted on.
ThreadSpec ==
  /\ ThreadInit /\ [][ThreadNext]_allVars
  /\ WF_allVars(ThreadFunc)
  /\ SF_allVars((\E ready \in SUBSET Reportable : WakeupChannel \in ready /\ PollReturn(ready))
                  /\ UNCHANGED threadVars)
  /\ WF_allVars(OwnerStep)

-----------------------------------------------------------------------------
(* Properties.                                                             *)

\* Whenever loop_ is set, the EventLoop it points to exists and its thread has
\* not begun to leave threadFunc(): the destructor never reads a dangling
\* pointer from loop_ itself.
LoopPointerValid == ThreadTypeOK /\ (loop_ => tfpc = "loop")

\* startLoop() returns: the owner does not miss the publication of loop_, unless
\* the loop has already been left when it tests.  And the thread's end is seen by
\* the owner: once the destructor has quit a loop that has been entered, it
\* returns from join().
CallsReturn ==
  /\ opc = "test" ~> (opc = "started" \/ tfpc \in {"null", "unlocked", "finished"})
  /\ (opc \in {"quit", "join"} /\ pc # "created" /\ quit_) ~> opc = "done"

\* ~EventLoopThread() says of its quit() that it makes the loop of the I/O
\* thread exit, and so the I/O thread: the destructor then returns.
DestructorReturns == opc = "quit" ~> opc = "done"

\* ~MutexLock() asserts that nobody holds the mutex when the EventLoopThread is
\* destroyed.
MutexFreeAtDestruction == opc = "done" => tfpc # "null"

\* runInLoop() and queueInLoop() are safe to call from other threads: the
\* wakeup() at the end of the call finds its EventLoop alive.
CallFindsLoopAlive ==
  opc = "started" /\ tpc[Owner] = "wakeup" => tfpc # "finished"
=============================================================================
