------------------------ MODULE BoundedBlockingQueue ------------------------
(***************************************************************************)
(* muduo/base/BoundedBlockingQueue.h, and BlockingQueue.h as the case of   *)
(* MaxSize = 0 in which put() neither waits nor take() notifies notFull_.  *)
(* Threads put and take; a value is the number of its put.                 *)
(***************************************************************************)
EXTENDS Condition, Sequences

CONSTANTS
  Producers,  \* threads that put
  Consumers,  \* threads that take
  MaxSize,    \* capacity, 0 for BlockingQueue
  MaxPuts     \* bound on the calls of put()

VARIABLES
  queue_,
  ppc,      \* where each producer is
  cpc,      \* where each consumer is
  mine,     \* the value each producer puts
  calls,    \* calls of put()
  input,    \* history: values in the order they were queued
  output    \* history: values in the order they were taken

vars == <<queue_, ppc, cpc, mine, calls, input, output>>

Bounded == MaxSize > 0

TypeOK ==
  /\ queue_ \in Seq(Nat) /\ (Bounded => Len(queue_) <= MaxSize)
  /\ ppc \in [Producers -> {"idle", "wait", "retest"}]
  /\ cpc \in [Consumers -> {"idle", "wait", "retest"}]
  /\ mine \in [Producers -> Nat]
  /\ calls \in Nat
  /\ input \in Seq(Nat) /\ output \in Seq(Nat)

Init ==
  /\ queue_ = <<>> /\ calls = 0 /\ input = <<>> /\ output = <<>>
  /\ ppc = [p \in Producers |-> "idle"] /\ mine = [p \in Producers |-> 0]
  /\ cpc = [c \in Consumers |-> "idle"]

-----------------------------------------------------------------------------
\* Mutant of Full: one value too many.
FullLate == Bounded /\ Len(queue_) > MaxSize

Full == Bounded /\ Len(queue_) >= MaxSize

\* Mutant of NotifyNotEmpty: only the first value is notified.
NotifyFirst == cpc' \in (IF queue_ = <<>> THEN Notified(cpc) ELSE {cpc})

NotifyNotEmpty == cpc' \in Notified(cpc)

\* Mutant of NotifyNotFull: only the take from a full queue notifies.
NotifyWhenFull == ppc' \in (IF Full THEN Notified(ppc) ELSE {ppc})

\* Mutant of NotifyNotFull: the wrong condition variable is notified.
NotifyWrong == ppc' = ppc

NotifyNotFull == ppc' \in (IF Bounded THEN Notified(ppc) ELSE {ppc})

\* The critical section of put().
TestFull(p, x) ==
  IF Full
  THEN /\ ppc' = [ppc EXCEPT ![p] = "wait"]
       /\ UNCHANGED <<queue_, cpc, input>>
  ELSE /\ queue_' = Append(queue_, x)
       /\ input' = Append(input, x)
       /\ ppc' = [ppc EXCEPT ![p] = "idle"]
       /\ NotifyNotEmpty

Put(p) ==
  /\ ppc[p] = "idle"
  /\ calls < MaxPuts
  /\ calls' = calls + 1
  /\ mine' = [mine EXCEPT ![p] = calls + 1]
  /\ TestFull(p, calls + 1)
  /\ UNCHANGED output

PutAgain(p) ==
  /\ ppc[p] = "retest"
  /\ TestFull(p, mine[p])
  /\ UNCHANGED <<mine, calls, output>>

\* Mutant of Take: the last value is taken.
TakeLast(c) ==
  /\ cpc[c] # "wait"
  /\ IF queue_ = <<>>
     THEN /\ cpc' = [cpc EXCEPT ![c] = "wait"]
          /\ UNCHANGED <<queue_, ppc, output>>
     ELSE /\ queue_' = SubSeq(queue_, 1, Len(queue_) - 1)
          /\ output' = Append(output, queue_[Len(queue_)])
          /\ cpc' = [cpc EXCEPT ![c] = "idle"]
          /\ NotifyNotFull
  /\ UNCHANGED <<mine, calls, input>>

\* take(), from its call or from its wait.
Take(c) ==
  /\ cpc[c] # "wait"
  /\ IF queue_ = <<>>
     THEN /\ cpc' = [cpc EXCEPT ![c] = "wait"]
          /\ UNCHANGED <<queue_, ppc, output>>
     ELSE /\ queue_' = Tail(queue_)
          /\ output' = Append(output, Head(queue_))
          /\ cpc' = [cpc EXCEPT ![c] = "idle"]
          /\ NotifyNotFull
  /\ UNCHANGED <<mine, calls, input>>

\* pthread_cond_wait() may return without a notification.
SpuriousWakeup ==
  \/ /\ \E p \in Producers : ppc[p] = "wait" /\ ppc' = Wake(ppc, p)
     /\ UNCHANGED <<queue_, cpc, mine, calls, input, output>>
  \/ /\ \E c \in Consumers : cpc[c] = "wait" /\ cpc' = Wake(cpc, c)
     /\ UNCHANGED <<queue_, ppc, mine, calls, input, output>>

Next ==
  \/ \E p \in Producers : Put(p) \/ PutAgain(p)
  \/ \E c \in Consumers : Take(c)
  \/ SpuriousWakeup

Spec == Init /\ [][Next]_vars

\* A thread that is inside a call goes on; consumers keep taking.
Fairness ==
  /\ \A p \in Producers : WF_vars(PutAgain(p))
  /\ \A c \in Consumers : WF_vars(Take(c))

-----------------------------------------------------------------------------
(* Properties.                                                             *)

\* Values come out in the order they went in, each once, over all threads.
FirstInFirstOut == input = output \o queue_

\* While a consumer sleeps in take(), every value in the queue has a consumer
\* that was notified of it.
ConsumersNotified == WokenFor(cpc, Len(queue_))

\* While a producer sleeps in put(), every free place of a bounded queue has a
\* producer that was notified of it.
ProducersNotified == Bounded => WokenFor(ppc, MaxSize - Len(queue_))

\* put() returns as long as somebody takes.
PutReturns == \A p \in Producers : ppc[p] # "idle" ~> ppc[p] = "idle"
=============================================================================
