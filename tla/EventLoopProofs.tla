-------------------------- MODULE EventLoopProofs ---------------------------
(***************************************************************************)
(* Proofs about EventLoop, for any threads, channels and bounds: the loop,  *)
(* then the EventLoopThread that runs one.                                 *)
(***************************************************************************)
EXTENDS EventLoop, SequenceTheorems, TLAPS

\* The provers of a step that names none, with their time limits.
USE SMTT(30), ZenonT(30)
USE EventLoopAssumption

\* The type invariant is inductive: every step of the loop thread, of a caller
\* and of the outside world keeps the members of EventLoop in their types.
THEOREM TypeCorrect == Spec => []TypeOK
<1>1. Init => TypeOK
  <2>1. <<>> \in Seq(Functor)
    BY EmptySeq
  <2>2. 0 \in 0 .. EventfdMax
    BY DEF EventLoopAssumption
  <2>3. Init => pc \in LoopPCs /\ quit_ \in BOOLEAN /\ callingPendingFunctors_ \in BOOLEAN
    BY Zenon DEF Init, LoopPCs
  <2>4. Init => tpc \in [Threads -> {"idle", "wakeup"}]
    BY DEF Init
  <2>5. QED
    BY <2>1, <2>2, <2>3, <2>4 DEF Init, TypeOK
<1>2. TypeOK /\ [Next]_vars => TypeOK'
  <2> SUFFICES ASSUME TypeOK, [Next]_vars
               PROVE  TypeOK'
    OBVIOUS
  <2> USE DEF TypeOK, LoopPCs
  <2>0. ASSUME NEW caller \in Callers, Push(caller)
        PROVE  /\ pendingFunctors_' \in Seq(Functor)
               /\ posted' \in Nat
    <3>1. [id |-> posted + 1, from |-> caller] \in Functor
      BY DEF Functor
    <3>2. QED
      BY <2>0, <3>1, AppendProperties DEF Push
  <2>1. CASE LoopStep
    <3>1. CASE TestQuit
      BY <3>1 DEF TestQuit
    <3>2. ASSUME NEW ready \in SUBSET Reportable, PollReturn(ready)
          PROVE  TypeOK'
      BY <3>2 DEF PollReturn, Reportable
    <3>3. CASE HandleRead
      BY <3>3 DEF HandleRead
    <3>4. ASSUME NEW c \in Channels, HandleEvent(c)
          PROVE  TypeOK'
      BY <3>4 DEF HandleEvent
    <3>5. CASE EventReturn
      BY <3>5 DEF EventReturn
    <3>6. CASE EventsDone
      BY <3>6 DEF EventsDone
    <3>7. CASE SwapFunctors
      BY <3>7 DEF SwapFunctors
    <3>8. CASE CallFunctor
      <4>1. Head(functors) \in Functor /\ Tail(functors) \in Seq(Functor)
        BY <3>8, HeadTailProperties DEF CallFunctor
      <4>2. QED
        BY <3>8, <4>1 DEF CallFunctor, Functor
    <3>9. CASE FunctorReturn
      BY <3>9 DEF FunctorReturn
    <3>10. CASE FunctorsDone
      BY <3>10, ZenonT(30) DEF FunctorsDone
    <3>11. QED
      BY <2>1, <3>1, <3>2, <3>3, <3>4, <3>5, <3>6, <3>7, <3>8, <3>9, <3>10
         DEF LoopStep
  <2>2. CASE Loop
    BY <2>2, ZenonT(30) DEF Loop
  <2>3. CASE PollTimeout
    BY <2>3 DEF PollTimeout
  <2>4. CASE QueueInLoopSelf
    <3>1. Context \in Callers
      BY <2>4 DEF QueueInLoopSelf, InUserCode, Context, Callers, LoopContexts
    <3>2. QED
      BY <2>4, <2>0, <3>1 DEF QueueInLoopSelf, Wakeup
  <2>5. CASE QuitSelf
    BY <2>5 DEF QuitSelf
  <2>6. ASSUME NEW t \in Threads, QueueInLoop(t)
        PROVE  TypeOK'
    <3>1. t \in Callers
      BY DEF Callers
    <3>2. QED
      BY <2>6, <2>0, <3>1 DEF QueueInLoop
  <2>7. ASSUME NEW t \in Threads, Quit(t)
        PROVE  TypeOK'
    BY <2>7 DEF Quit
  <2>8. ASSUME NEW t \in Threads, WakeupBy(t)
        PROVE  TypeOK'
    BY <2>8 DEF WakeupBy, Wakeup
  <2>9. ASSUME NEW c \in Channels, FdReady(c)
        PROVE  TypeOK'
    BY <2>9 DEF FdReady
  <2>10. CASE UNCHANGED vars
    BY <2>10 DEF vars
  <2>11. QED
    BY <2>1, <2>2, <2>3, <2>4, <2>5, <2>6, <2>7, <2>8, <2>9, <2>10 DEF Next
<1>3. QED
  BY <1>1, <1>2, PTL DEF Spec

-----------------------------------------------------------------------------
\* The batch swapped out by doPendingFunctors() is non-empty only while it
\* runs, which is when callingPendingFunctors_ is set.
LEMMA BatchInvariant == Spec => []BatchInv
<1>1. Init => BatchInv
  BY DEF Init, BatchInv
<1>2. TypeOK /\ BatchInv /\ [Next]_vars => BatchInv'
  <2> SUFFICES ASSUME TypeOK, BatchInv, [Next]_vars
               PROVE  BatchInv'
    OBVIOUS
  <2>1. CASE LoopStep
    BY <2>1 DEF TypeOK, LoopPCs, BatchInv, LoopStep, TestQuit, PollReturn, HandleRead,
                HandleEvent, EventReturn, EventsDone, SwapFunctors, CallFunctor,
                FunctorReturn, FunctorsDone
  <2>2. CASE Next /\ ~LoopStep
    BY <2>2 DEF BatchInv, Next, Loop, PollTimeout, QueueInLoopSelf, QuitSelf,
                QueueInLoop, Quit, WakeupBy, FdReady
  <2>3. CASE UNCHANGED vars
    BY <2>3 DEF vars, BatchInv
  <2>4. QED
    BY <2>1, <2>2, <2>3
<1>3. QED
  BY <1>1, <1>2, TypeCorrect, PTL DEF Spec

\* What a push leaves in pendingFunctors_.
LEMMA PushProperties ==
  ASSUME TypeOK, NEW caller \in Callers, Push(caller)
  PROVE  /\ Len(pendingFunctors_') = Len(pendingFunctors_) + 1
         /\ \A i \in 1 .. Len(pendingFunctors_) : pendingFunctors_'[i] = pendingFunctors_[i]
         /\ pendingFunctors_'[Len(pendingFunctors_) + 1].id = posted + 1
         /\ pendingFunctors_'[Len(pendingFunctors_) + 1].from = caller
<1> DEFINE f == [id |-> posted + 1, from |-> caller]
<1>1. f \in Functor /\ f.id = posted + 1 /\ f.from = caller
  BY DEF TypeOK, Functor
<1>2. pendingFunctors_' = Append(pendingFunctors_, f) /\ pendingFunctors_ \in Seq(Functor)
  BY DEF Push, TypeOK
<1> HIDE DEF f
<1>3. QED
  BY <1>1, <1>2, AppendProperties

\* The wakeup invariant is preserved by every step.
LEMMA WakeupInvariant == Spec => []WakeupInv
<1>1. Init => WakeupInv
  BY DEF Init, WakeupInv
<1>2. TypeOK /\ BatchInv /\ WakeupInv /\ [Next]_vars => WakeupInv'
  <2> SUFFICES ASSUME TypeOK, BatchInv, WakeupInv, [Next]_vars
               PROVE  WakeupInv'
    OBVIOUS
  <2> USE DEF WakeupInv, WakeupComing
  <2>1. CASE LoopStep
    <3>1. CASE TestQuit
      BY <3>1 DEF TestQuit
    <3>2. CASE \E ready \in SUBSET Reportable : PollReturn(ready)
      BY <3>2 DEF PollReturn
    <3>3. CASE HandleRead
      BY <3>3 DEF HandleRead
    <3>4. CASE \E c \in Channels : HandleEvent(c)
      BY <3>4 DEF HandleEvent
    <3>5. CASE EventReturn \/ EventsDone
      BY <3>5 DEF EventReturn, EventsDone
    <3>6. CASE SwapFunctors
      BY <3>6 DEF SwapFunctors, BatchInv
    <3>7. CASE CallFunctor \/ FunctorReturn \/ FunctorsDone
      BY <3>7 DEF CallFunctor, FunctorReturn, FunctorsDone
    <3>8. QED
      BY <2>1, <3>1, <3>2, <3>3, <3>4, <3>5, <3>6, <3>7 DEF LoopStep
  <2>2. CASE Loop \/ PollTimeout \/ QuitSelf
    BY <2>2 DEF Loop, PollTimeout, QuitSelf, InUserCode
  <2>3. CASE QueueInLoopSelf
    <3>1. CASE pc = "functor"
      BY <2>3, <3>1 DEF QueueInLoopSelf, SelfNeedsWakeup, BatchInv, Wakeup, TypeOK
    <3>2. CASE pc = "callback"
      BY <2>3, <3>2 DEF QueueInLoopSelf
    <3>3. CASE pc \in {"created", "exited"}
      <4>1. Context = "before" /\ "before" \in Callers /\ Push("before")
        BY <2>3, <3>3 DEF QueueInLoopSelf, Context, Callers, LoopContexts
      <4>2. /\ Len(pendingFunctors_') = Len(pendingFunctors_) + 1
            /\ \A i \in 1 .. Len(pendingFunctors_) : pendingFunctors_'[i] = pendingFunctors_[i]
            /\ pendingFunctors_'[Len(pendingFunctors_) + 1].from = "before"
        BY <4>1, PushProperties
      <4>3. UNCHANGED <<pc, tpc, wakeupFd_>>
        BY <2>3, <3>3 DEF QueueInLoopSelf, SelfNeedsWakeup, BatchInv
      <4>4. Len(pendingFunctors_) \in Nat
        BY LenProperties DEF TypeOK
      <4>5. QED
        BY <3>3, <4>2, <4>3, <4>4
    <3>4. QED
      BY <2>3, <3>1, <3>2, <3>3 DEF QueueInLoopSelf, InUserCode
  <2>4. ASSUME NEW t \in Threads, QueueInLoop(t) \/ Quit(t)
        PROVE  WakeupInv'
    <3>1. tpc'[t] = "wakeup"
      BY <2>4 DEF QueueInLoop, Quit, TypeOK
    <3>2. QED
      BY <3>1
  <2>5. ASSUME NEW t \in Threads, WakeupBy(t)
        PROVE  WakeupInv'
    <3>1. wakeupFd_' > 0
      BY <2>5 DEF WakeupBy, Wakeup, TypeOK
    <3>2. QED
      BY <3>1
  <2>6. CASE \E c \in Channels : FdReady(c)
    BY <2>6 DEF FdReady
  <2>7. CASE UNCHANGED vars
    BY <2>7 DEF vars
  <2>8. QED
    BY <2>1, <2>2, <2>3, <2>4, <2>5, <2>6, <2>7 DEF Next
<1>3. QED
  BY <1>1, <1>2, TypeCorrect, BatchInvariant, PTL DEF Spec

\* queueInLoop() and quit() never lose a wakeup, with any number of threads
\* and channels and any limit of the eventfd counter.
THEOREM WakeupNeverLost == Spec => []NoLostWakeup
<1>1. TypeOK /\ WakeupInv => NoLostWakeup
  BY LenProperties DEF TypeOK, WakeupInv, NoLostWakeup
<1>2. QED
  BY <1>1, TypeCorrect, WakeupInvariant, PTL

-----------------------------------------------------------------------------
\* The functors waiting in the batch and in pendingFunctors_ are those with the
\* consecutive identifiers last+1, last+2, ..., posted.
LEMMA OrderInvariant == Spec => []OrderInv
<1>1. Init => OrderInv
  BY DEF Init, OrderInv
<1>2. TypeOK /\ BatchInv /\ OrderInv /\ [Next]_vars => OrderInv'
  <2> SUFFICES ASSUME TypeOK, BatchInv, OrderInv, [Next]_vars
               PROVE  OrderInv'
    OBVIOUS
  <2>0. /\ Len(functors) \in Nat /\ Len(pendingFunctors_) \in Nat
        /\ last \in Nat /\ posted \in Nat
    BY LenProperties DEF TypeOK
  <2>1. ASSUME NEW caller \in Callers, Push(caller), UNCHANGED <<functors, last>>
        PROVE  OrderInv'
    <3>1. /\ Len(pendingFunctors_') = Len(pendingFunctors_) + 1
          /\ \A i \in 1 .. Len(pendingFunctors_) : pendingFunctors_'[i] = pendingFunctors_[i]
          /\ pendingFunctors_'[Len(pendingFunctors_) + 1].id = posted + 1
      BY <2>1, PushProperties
    <3>2. posted' = posted + 1
      BY <2>1 DEF Push
    <3>3. ASSUME NEW i \in 1 .. Len(pendingFunctors_')
          PROVE  pendingFunctors_'[i].id = last + Len(functors) + i
      <4>1. CASE i \in 1 .. Len(pendingFunctors_)
        BY <3>1, <4>1 DEF OrderInv
      <4>2. CASE i = Len(pendingFunctors_) + 1
        BY <2>0, <3>1, <4>2 DEF OrderInv
      <4>3. QED
        BY <2>0, <3>1, <4>1, <4>2
    <3>4. posted' = last + Len(functors) + Len(pendingFunctors_')
      BY <2>0, <3>1, <3>2 DEF OrderInv
    <3>5. QED
      BY <2>1, <3>3, <3>4 DEF OrderInv
  <2>2. CASE QueueInLoopSelf
    <3>1. Context \in Callers
      BY <2>2 DEF QueueInLoopSelf, InUserCode, Context, Callers, LoopContexts
    <3>2. QED
      BY <2>1, <2>2, <3>1 DEF QueueInLoopSelf
  <2>3. CASE \E t \in Threads : QueueInLoop(t)
    BY <2>1, <2>3 DEF QueueInLoop, Callers
  <2>4. CASE SwapFunctors
    <3>1. functors = <<>> /\ Len(functors) = 0
      BY <2>4 DEF SwapFunctors, BatchInv
    <3>2. QED
      BY <2>0, <2>4, <3>1 DEF SwapFunctors, OrderInv
  <2>5. CASE CallFunctor
    <3>1. /\ Len(functors') = Len(functors) - 1 /\ Len(functors) \in Nat \ {0}
          /\ \A i \in 1 .. Len(functors') : functors'[i] = functors[i + 1]
          /\ Head(functors) = functors[1]
      BY <2>5, HeadTailProperties, EmptySeq DEF CallFunctor, TypeOK
    <3>2. last' = last + 1 /\ UNCHANGED <<pendingFunctors_, posted>>
      BY <2>0, <2>5, <3>1 DEF CallFunctor, OrderInv
    <3>3. QED
      BY <2>0, <3>1, <3>2 DEF OrderInv
  <2>6. CASE UNCHANGED <<functors, pendingFunctors_, posted, last>>
    BY <2>6 DEF OrderInv
  <2>7. QED
    BY <2>2, <2>3, <2>4, <2>5, <2>6
       DEF Next, LoopStep, vars, TestQuit, PollReturn, HandleRead, HandleEvent,
           EventReturn, EventsDone, FunctorReturn, FunctorsDone, Loop, PollTimeout,
           QuitSelf, Quit, WakeupBy, FdReady
<1>3. QED
  BY <1>1, <1>2, TypeCorrect, BatchInvariant, PTL DEF Spec

\* A push appends to the whole queue, batch included.
LEMMA AppendToConcat ==
  ASSUME NEW S, NEW s \in Seq(S), NEW t \in Seq(S), NEW e \in S
  PROVE  s \o Append(t, e) = Append(s \o t, e)
<1>1. <<e>> \in Seq(S) /\ s \o t \in Seq(S)
  BY ConcatProperties
<1>2. QED
  BY <1>1, AppendIsConcat, ConcatAssociative

\* Taking the head of a non-empty batch takes the head of the whole queue.
LEMMA HeadTailOfConcat ==
  ASSUME NEW S, NEW s \in Seq(S), NEW t \in Seq(S), s # <<>>
  PROVE  s \o t # <<>> /\ Head(s \o t) = Head(s) /\ Tail(s \o t) = Tail(s) \o t
<1>1. /\ s \o t \in Seq(S) /\ Len(s \o t) = Len(s) + Len(t)
      /\ Len(s) \in Nat \ {0} /\ Len(t) \in Nat
  BY ConcatProperties, LenProperties, EmptySeq
<1>2. s \o t # <<>> /\ Head(s \o t) = (s \o t)[1] /\ Head(s) = s[1]
  BY <1>1
<1>3. (s \o t)[1] = s[1]
  BY <1>1, ConcatProperties
<1>4. /\ Tail(s) \in Seq(S) /\ Len(Tail(s)) = Len(s) - 1
      /\ \A i \in 1 .. Len(Tail(s)) : Tail(s)[i] = s[i + 1]
  BY HeadTailProperties
<1>5. /\ Tail(s \o t) \in Seq(S) /\ Len(Tail(s \o t)) = Len(s) + Len(t) - 1
      /\ \A i \in 1 .. Len(Tail(s \o t)) : Tail(s \o t)[i] = (s \o t)[i + 1]
  BY <1>1, <1>2, HeadTailProperties
<1>6. /\ Tail(s) \o t \in Seq(S) /\ Len(Tail(s) \o t) = Len(s) + Len(t) - 1
      /\ \A i \in 1 .. Len(s) + Len(t) - 1 : (Tail(s) \o t)[i] =
            IF i <= Len(s) - 1 THEN Tail(s)[i] ELSE t[i - (Len(s) - 1)]
  BY <1>1, <1>4, ConcatProperties
<1>7. \A i \in 1 .. Len(s) + Len(t) - 1 : Tail(s \o t)[i] = (Tail(s) \o t)[i]
  <2> SUFFICES ASSUME NEW i \in 1 .. Len(s) + Len(t) - 1
               PROVE  Tail(s \o t)[i] = (Tail(s) \o t)[i]
    OBVIOUS
  <2>1. (s \o t)[i + 1] = IF i + 1 <= Len(s) THEN s[i + 1] ELSE t[i + 1 - Len(s)]
    BY <1>1, ConcatProperties
  <2>2. QED
    BY <1>1, <1>4, <1>5, <1>6, <2>1
<1>8. QED
  BY <1>2, <1>3, <1>5, <1>6, <1>7, SeqEqual

\* EventLoop implements the FIFO executor: whatever the threads do, functors
\* are called in the order of their pushes, each once.
THEOREM ImplementsExecutor == Spec => FunctorsInOrder
<1>1. Init => FIFO!Init
  <2>1. <<>> \o <<>> = <<>>
    BY ConcatEmptySeq, EmptySeq
  <2>2. QED
    BY <2>1 DEF Init, FIFO!Init, Queue
<1>2. TypeOK /\ BatchInv /\ OrderInv /\ [Next]_vars => [FIFO!Next]_<<Queue, last>>
  <2> SUFFICES ASSUME TypeOK, BatchInv, OrderInv, [Next]_vars
               PROVE  FIFO!Next \/ UNCHANGED <<Queue, last>>
    OBVIOUS
  <2>0. functors \in Seq(Functor) /\ pendingFunctors_ \in Seq(Functor)
    BY DEF TypeOK
  <2>1. ASSUME NEW caller \in Callers, Push(caller), UNCHANGED <<functors, last>>
        PROVE  FIFO!Next
    <3> DEFINE f == [id |-> posted + 1, from |-> caller]
    <3>1. f \in Functor
      BY DEF TypeOK, Functor
    <3>2. Queue' = Append(Queue, f)
      <4>1. Queue' = functors \o Append(pendingFunctors_, f)
        BY <2>1 DEF Push, Queue
      <4> HIDE DEF f
      <4>2. QED
        BY <2>0, <3>1, <4>1, AppendToConcat DEF Queue
    <3>3. posted = last + Len(Queue)
      BY <2>0, ConcatProperties, LenProperties DEF OrderInv, Queue, TypeOK
    <3>4. FIFO!Post(caller)
      BY <2>1, <3>2, <3>3 DEF FIFO!Post
    <3>5. QED
      BY <3>4 DEF FIFO!Next
  <2>2. CASE QueueInLoopSelf
    <3>1. Context \in Callers
      BY <2>2 DEF QueueInLoopSelf, InUserCode, Context, Callers, LoopContexts
    <3>2. QED
      BY <2>1, <2>2, <3>1 DEF QueueInLoopSelf
  <2>3. CASE \E t \in Threads : QueueInLoop(t)
    BY <2>1, <2>3 DEF QueueInLoop, Callers
  <2>4. CASE SwapFunctors
    <3>1. functors = <<>>
      BY <2>4 DEF SwapFunctors, BatchInv
    <3>2. Queue' = Queue
      BY <2>0, <2>4, <3>1, ConcatEmptySeq DEF SwapFunctors, Queue
    <3>3. QED
      BY <2>4, <3>2 DEF SwapFunctors
  <2>5. CASE CallFunctor
    <3>1. functors # <<>> /\ Queue' = Tail(functors) \o pendingFunctors_
          /\ last' = Head(functors).id
      BY <2>5 DEF CallFunctor, Queue
    <3>2. Queue # <<>> /\ Head(Queue) = Head(functors) /\ Queue' = Tail(Queue)
      BY <2>0, <3>1, HeadTailOfConcat, ZenonT(30) DEF Queue
    <3>3. Head(functors).id = last + 1
      BY <2>0, <3>1, EmptySeq DEF OrderInv, TypeOK
    <3>4. FIFO!Execute
      BY <3>1, <3>2, <3>3, ZenonT(30) DEF FIFO!Execute
    <3>5. QED
      BY <3>4 DEF FIFO!Next
  <2>6. CASE UNCHANGED <<functors, pendingFunctors_, last>>
    BY <2>6 DEF Queue
  <2>7. QED
    BY <2>2, <2>3, <2>4, <2>5, <2>6
       DEF Next, LoopStep, vars, TestQuit, PollReturn, HandleRead, HandleEvent,
           EventReturn, EventsDone, FunctorReturn, FunctorsDone, Loop, PollTimeout,
           QuitSelf, Quit, WakeupBy, FdReady
<1>3. QED
  BY <1>1, <1>2, TypeCorrect, BatchInvariant, OrderInvariant, PTL
     DEF Spec, FunctorsInOrder, FIFO!Spec

-----------------------------------------------------------------------------
(* EventLoopThread.                                                        *)

\* The loop on the stack of threadFunc() is an EventLoop: whatever the owner and
\* the thread function do, and whenever, is a step of it or leaves it alone.  So
\* what holds of every EventLoop holds of the one in a thread.
THEOREM ThreadRunsLoop == ThreadSpec => Spec
<1>1. ThreadInit => Init
  BY DEF ThreadInit
<1>2. [ThreadNext]_allVars => [Next]_vars
  <2> SUFFICES ASSUME [ThreadNext]_allVars PROVE Next \/ UNCHANGED vars
    OBVIOUS
  <2>1. CASE ThreadFunc
    BY <2>1, ZenonT(30) DEF ThreadFunc, Publish, EnterLoop, LoopRuns, LoopTimeout, NullLoop, Unlock,
                DestroyLoop, Next
  <2>2. CASE OwnerStep
    BY <2>2, OwnerAssumption, ZenonT(30) DEF OwnerStep, TestLoop, FinishWakeup, Join, Next
  <2>3. CASE StartThread \/ SpuriousWakeup \/ DestructorSkips
    BY <2>3, ZenonT(30) DEF StartThread, SpuriousWakeup, DestructorSkips
  <2>4. CASE RunInLoop \/ DestructorQuits
    BY <2>4, OwnerAssumption, ZenonT(30) DEF RunInLoop, DestructorQuits, Next
  <2>5. CASE InitCallback \/ LoopCallback
    BY <2>5, ZenonT(30) DEF InitCallback, LoopCallback, Next
  <2>6. CASE Environment
    BY <2>6, ZenonT(30) DEF Environment, Next
  <2>7. CASE UNCHANGED allVars
    BY <2>7 DEF allVars
  <2>8. QED
    BY <2>1, <2>2, <2>3, <2>4, <2>5, <2>6, <2>7 DEF ThreadNext
<1>3. QED
  BY <1>1, <1>2, PTL DEF ThreadSpec, Spec

\* In an EventLoopThread no wakeup is lost and the functors are called in order,
\* from the init callback to the quit() of the destructor.
THEOREM ThreadKeepsPromises == ThreadSpec => []NoLostWakeup /\ FunctorsInOrder
<1> QED
  BY ThreadRunsLoop, WakeupNeverLost, ImplementsExecutor, PTL

\* A thread that was not started has no thread function, and loop_ is set only
\* while that runs the loop.
ThreadInv ==
  /\ loop_ \in BOOLEAN /\ tfpc \in ThreadPCs /\ opc \in OwnerPCs
  /\ opc = "idle" => tfpc = "none"
  /\ loop_ => tfpc = "loop"

\* The pointer that startLoop() hands out and ~EventLoopThread() reads without a
\* lock is set only while the EventLoop it points to exists, in every order of the
\* owner's steps and those of threadFunc().
THEOREM PointerNeverDangles == ThreadSpec => []LoopPointerValid
<1>1. ThreadInit => ThreadInv
  BY ZenonT(30) DEF ThreadInit, ThreadInv, ThreadPCs, OwnerPCs
<1>2. ThreadInv /\ [ThreadNext]_allVars => ThreadInv'
  <2> SUFFICES ASSUME ThreadInv, [ThreadNext]_allVars PROVE ThreadInv'
    OBVIOUS
  <2> USE DEF ThreadInv, ThreadPCs, OwnerPCs
  <2>1. CASE Publish
    BY <2>1 DEF Publish
  <2>2. CASE NullLoop \/ Unlock \/ DestroyLoop
    <3>1. ~ loop_' /\ opc' = opc /\ opc # "idle"
      BY <2>2 DEF NullLoop, Unlock, DestroyLoop
    <3>2. tfpc' \in {"null", "unlocked", "finished"} /\ loop_' \in BOOLEAN
      BY <2>2, ZenonT(30) DEF NullLoop, Unlock, DestroyLoop
    <3>3. QED
      BY <3>1, <3>2
  <2>3. CASE StartThread
    BY <2>3 DEF StartThread
  <2>4. CASE TestLoop \/ SpuriousWakeup \/ Join \/ DestructorSkips
    BY <2>4 DEF TestLoop, SpuriousWakeup, Join, DestructorSkips
  <2>5. CASE FinishWakeup \/ DestructorQuits
    BY <2>5 DEF FinishWakeup, DestructorQuits
  <2>6. CASE UNCHANGED threadVars
    BY <2>6 DEF threadVars
  <2>7. QED
    BY <2>1, <2>2, <2>3, <2>4, <2>5, <2>6
       DEF ThreadNext, ThreadFunc, OwnerStep, EnterLoop, LoopRuns, LoopTimeout, RunInLoop,
           InitCallback, LoopCallback, Environment, allVars
<1>3. TypeOK /\ ThreadInv => LoopPointerValid
  BY DEF ThreadInv, LoopPointerValid, ThreadTypeOK
<1>4. QED
  BY <1>1, <1>2, <1>3, ThreadRunsLoop, TypeCorrect, PTL DEF ThreadSpec
=============================================================================
