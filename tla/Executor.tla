------------------------------ MODULE Executor ------------------------------
(***************************************************************************)
(* What EventLoop::queueInLoop promises its callers: functors are executed *)
(* in the order in which they were queued, each at most once, and none is  *)
(* dropped from the middle of the queue.  Functors carry the consecutive   *)
(* identifiers of the order in which they were queued.                     *)
(***************************************************************************)
EXTENDS Naturals, Sequences

CONSTANT Callers        \* who may queue a functor

VARIABLES queue,        \* functors queued and not yet executed, oldest first
          last          \* identifier of the functor executed last, 0 at first

Init ==
  /\ queue = <<>>
  /\ last = 0

Post(caller) ==
  /\ queue' = Append(queue, [id |-> last + Len(queue) + 1, from |-> caller])
  /\ UNCHANGED last

Execute ==
  /\ queue # <<>>
  /\ Head(queue).id = last + 1
  /\ last' = Head(queue).id
  /\ queue' = Tail(queue)

Next == Execute \/ \E caller \in Callers : Post(caller)

Spec == Init /\ [][Next]_<<queue, last>>
=============================================================================
