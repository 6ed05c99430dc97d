------------------------------ MODULE BaseProofs ------------------------------
(***************************************************************************)
(* What MCBase checks of the threads of muduo/base, for any number of       *)
(* threads, any capacity and any number of calls: Thread, ThreadPool, the   *)
(* blocking queues, AsyncLogging and LogFile.                               *)
(*                                                                         *)
(* The pool and the queues call notify(), not notifyAll(): as long as a     *)
(* thread sleeps there must be as many woken threads as there are values,   *)
(* or free places, and the proof counts them.                               *)
(***************************************************************************)
EXTENDS MCBase, Condition, FiniteSetTheorems, SequenceTheorems, TLAPS

\* The provers of a step that names none, with their time limits.
USE SMTT(30), ZenonT(30)

-----------------------------------------------------------------------------
(* Thread.                                                                 *)

OwnerPlace == threadPc["owner"]
ChildPlace == threadPc["child"]

\* Where the new thread is when start() may return: it has counted the latch down
\* and released the mutex.
Past == {"running", "done"}

\* The mutex is with the thread that is between lock() and unlock().  The latch is
\* open when the new thread has counted it down.  The owner sees that with the
\* mutex, so the new thread has released it by then, and does not use the Thread
\* object any more.
ThreadInv ==
  /\ Pool!ThreadTypeOK
  /\ OwnerPlace \in {"new", "lock", "locked", "wait", "retest", "unlock", "release", "running",
                     "joined", "gone"}
  /\ ChildPlace \in {"new", "tid", "lock", "locked", "unlock", "release"} \cup Past
  /\ IF started_ THEN OwnerPlace # "new" /\ ChildPlace # "new"
                 ELSE OwnerPlace \in {"new", "gone"} /\ ChildPlace = "new"
  /\ mutex = "owner" <=> OwnerPlace \in {"locked", "unlock", "release"}
  /\ mutex = "child" <=> ChildPlace \in {"locked", "unlock", "release"}
  /\ OwnerPlace = "release" \/ ChildPlace = "release" => holder_ = "none"
  /\ latchCount = 0 <=> ChildPlace \in {"unlock", "release"} \cup Past
  /\ OwnerPlace \in {"unlock", "release", "running", "joined"} => ChildPlace \in Past
  /\ ~alive <=> OwnerPlace = "gone"
  /\ started_ /\ ~alive => ChildPlace \in Past
  /\ ChildPlace \notin {"new", "tid"} => tid_ = "child"

\* What the invariant says of the Thread object and its tid.
LEMMA ThreadMeans == ASSUME ThreadInv PROVE Pool!ThreadObjectInUse /\ Pool!TidStored
  <1> USE DEF Pool!Owner, Pool!Child, Pool!Actors, Pool!None
  <1>1. Pool!ThreadObjectInUse
    BY DEF ThreadInv, Pool!ThreadTypeOK, Pool!ThreadObjectInUse, OwnerPlace, ChildPlace, Past
  <1>2. Pool!TidStored
    BY DEF ThreadInv, Pool!ThreadTypeOK, Pool!TidStored, OwnerPlace, ChildPlace, Past
  <1> QED
    BY <1>1, <1>2

\* A Thread object that was not started has the invariant.
LEMMA ThreadInit == Pool!ThreadInit => ThreadInv
  <1> SUFFICES ASSUME Pool!ThreadInit PROVE ThreadInv
    OBVIOUS
  <1> USE DEF Pool!ThreadInit, Pool!Owner, Pool!Child, Pool!Actors, Pool!None
  <1>1. /\ started_ = FALSE /\ alive = TRUE
        /\ alive \in BOOLEAN /\ started_ \in BOOLEAN /\ joined_ \in BOOLEAN
    BY ZenonT(30)
  <1>2. /\ OwnerPlace = "new" /\ ChildPlace = "new" /\ mutex = "none" /\ latchCount = 1
        /\ tid_ \in {Pool!None, Pool!Child} /\ latchCount \in 0 .. 1
        /\ mutex \in Pool!Actors \cup {Pool!None} /\ holder_ \in {mutex, Pool!None}
        /\ threadPc \in [Pool!Actors -> {"new", "tid", "lock", "locked", "wait", "retest", "unlock",
                                        "release", "running", "done", "joined", "gone"}]
    BY DEF OwnerPlace, ChildPlace
  <1>3. Pool!ThreadTypeOK
    BY <1>1, <1>2, ZenonT(30) DEF Pool!ThreadTypeOK
  <1> QED
    BY <1>1, <1>2, <1>3 DEF ThreadInv, Past

\* Every step of the owner and of the new thread keeps the invariant.
LEMMA ThreadSteps == ASSUME ThreadInv, [Pool!ThreadNext]_threadVars PROVE ThreadInv'
  <1> USE DEF Pool!Owner, Pool!Child, Pool!Actors, Pool!None, Pool!At, ThreadInv, Pool!ThreadTypeOK,
              OwnerPlace, ChildPlace, Past
  <1>1. CASE Pool!ThreadStart
    BY <1>1 DEF Pool!ThreadStart
  <1>2. CASE Pool!Lock("owner")
    BY <1>2 DEF Pool!Lock
  <1>3. CASE Pool!UnassignHolder("owner")
    BY <1>3 DEF Pool!UnassignHolder
  <1>4. CASE Pool!Release("owner")
    BY <1>4 DEF Pool!Release
  <1>5. CASE Pool!LatchWait
    BY <1>5 DEF Pool!LatchWait
  <1>6. CASE Pool!ThreadSpuriousWakeup
    BY <1>6 DEF Pool!ThreadSpuriousWakeup
  <1>7. CASE Pool!ThreadJoin
    BY <1>7 DEF Pool!ThreadJoin
  <1>8. CASE Pool!Destroy
    BY <1>8 DEF Pool!Destroy
  <1>9. CASE Pool!Lock("child")
    BY <1>9 DEF Pool!Lock
  <1>10. CASE Pool!UnassignHolder("child")
    BY <1>10 DEF Pool!UnassignHolder
  <1>11. CASE Pool!Release("child")
    BY <1>11 DEF Pool!Release
  <1>12. CASE Pool!StoreTid
    BY <1>12 DEF Pool!StoreTid
  <1>13. CASE Pool!CountDown
    BY <1>13 DEF Pool!CountDown, Pool!NotifiedAll
  <1>14. CASE Pool!FuncReturns
    BY <1>14 DEF Pool!FuncReturns
  <1>15. CASE UNCHANGED threadVars
    BY <1>15 DEF threadVars
  <1> QED
    BY <1>1, <1>2, <1>3, <1>4, <1>5, <1>6, <1>7, <1>8, <1>9, <1>10, <1>11, <1>12, <1>13, <1>14, <1>15
       DEF Pool!ThreadNext, Pool!OwnerStep, Pool!ChildStep

-----------------------------------------------------------------------------
(* What a step of one thread does to the sets that are counted: at is where *)
(* the threads are, P are the places they can be at.                       *)

\* A thread goes somewhere else.
Move(at, t, e) == [at EXCEPT ![t] = e]

\* The woken threads of a finite set of threads can be counted.
LEMMA RetestingFinite ==
  ASSUME NEW at, IsFiniteSet(DOMAIN at)
  PROVE  IsFiniteSet(Retesting(at)) /\ Cardinality(Retesting(at)) \in Nat
  <1>1. Retesting(at) \in SUBSET DOMAIN at
    BY DEF Retesting
  <1>2. IsFiniteSet(Retesting(at))
    BY <1>1, FS_Subset
  <1> QED
    BY <1>2, FS_CardinalityType

\* pthread_cond_signal(), or a spurious wakeup: one more thread is woken.
LEMMA WakeCounts ==
  ASSUME NEW T, IsFiniteSet(T), NEW P, "retest" \in P, NEW at \in [T -> P], NEW t \in Waiting(at)
  PROVE  /\ Wake(at, t) \in [T -> P]
         /\ Cardinality(Retesting(Wake(at, t))) = Cardinality(Retesting(at)) + 1
         /\ Waiting(Wake(at, t)) \subseteq Waiting(at)
  <1>1. t \in T /\ t \notin Retesting(at) /\ DOMAIN at = T
    BY DEF Waiting, Retesting
  <1>2. Retesting(Wake(at, t)) = Retesting(at) \cup {t}
    BY <1>1 DEF Retesting, Wake
  <1>3. Cardinality(Retesting(at) \cup {t}) = Cardinality(Retesting(at)) + 1
    BY <1>1, RetestingFinite, FS_AddElement, ZenonT(30)
  <1>4. Wake(at, t) \in [T -> P] /\ Waiting(Wake(at, t)) \subseteq Waiting(at)
    BY DEF Wake, Waiting
  <1> QED
    BY <1>2, <1>3, <1>4

-----------------------------------------------------------------------------
(* What the steps do to WokenFor(at, n).                               *)

\* One more thing to go on with, and notify() is called.
LEMMA NotifyKeeps ==
  ASSUME NEW T, IsFiniteSet(T), NEW P, "retest" \in P, NEW at \in [T -> P], NEW n \in Int,
         WokenFor(at, n), NEW after \in Notified(at)
  PROVE  after \in [T -> P] /\ WokenFor(after, n + 1)
  <1>1. CASE Waiting(at) = {}
    BY <1>1 DEF Notified, WokenFor
  <1>2. CASE Waiting(at) # {}
    <2>1. PICK t \in Waiting(at) : after = Wake(at, t)
      BY <1>2 DEF Notified
    <2>2. Cardinality(Retesting(after)) = Cardinality(Retesting(at)) + 1 /\ after \in [T -> P]
      BY <2>1, WakeCounts
    <2>3. Cardinality(Retesting(at)) \in Nat /\ n <= Cardinality(Retesting(at))
      BY <1>2, RetestingFinite DEF WokenFor
    <2> QED
      BY <2>2, <2>3 DEF WokenFor
  <1> QED
    BY <1>1, <1>2

\* A thread woken without a notification only helps.
LEMMA SpuriousKeeps ==
  ASSUME NEW T, IsFiniteSet(T), NEW P, "retest" \in P, NEW at \in [T -> P], NEW n \in Int,
         WokenFor(at, n), NEW t \in Waiting(at)
  PROVE  Wake(at, t) \in [T -> P] /\ WokenFor(Wake(at, t), n)
  <1>1. Wake(at, t) \in [T -> P]
        /\ Cardinality(Retesting(Wake(at, t))) = Cardinality(Retesting(at)) + 1
    BY WakeCounts
  <1>2. Cardinality(Retesting(at)) \in Nat /\ n <= Cardinality(Retesting(at))
    BY RetestingFinite DEF WokenFor
  <1> QED
    BY <1>1, <1>2 DEF WokenFor

\* A thread goes on with one of the n things: one woken thread less at most.
LEMMA LeaveKeeps ==
  ASSUME NEW T, IsFiniteSet(T), NEW P, NEW at \in [T -> P], NEW n \in Int,
         WokenFor(at, n), NEW t \in T, at[t] # "wait", NEW e \in P, e # "wait", e # "retest"
  PROVE  Move(at, t, e) \in [T -> P] /\ WokenFor(Move(at, t, e), n - 1)
  <1>1. /\ Move(at, t, e) \in [T -> P] /\ Waiting(Move(at, t, e)) = Waiting(at)
        /\ DOMAIN Move(at, t, e) = T /\ DOMAIN at = T
    BY DEF Move, Waiting
  <1>2. Retesting(Move(at, t, e)) = Retesting(at) \ {t}
    BY DEF Move, Retesting
  <1>3. IsFiniteSet(Retesting(at)) /\ Cardinality(Retesting(at)) \in Nat
    BY <1>1, RetestingFinite
  <1>4. Cardinality(Retesting(Move(at, t, e))) =
          IF t \in Retesting(at) THEN Cardinality(Retesting(at)) - 1 ELSE Cardinality(Retesting(at))
    BY <1>2, <1>3, FS_RemoveElement, ZenonT(30)
  <1>5. Cardinality(Retesting(Move(at, t, e))) >= n - 1 \/ Waiting(at) = {}
    BY <1>3, <1>4 DEF WokenFor
  <1>6. Cardinality(Retesting(Move(at, t, e))) \in Nat
    BY <1>1, RetestingFinite, ZenonT(30)
  <1> QED
    BY <1>1, <1>5, <1>6 DEF WokenFor

\* A thread goes to sleep only when there is nothing to go on with.
LEMMA SleepKeeps ==
  ASSUME NEW T, IsFiniteSet(T), NEW P, "wait" \in P, NEW at \in [T -> P], NEW n \in Int, n <= 0,
         NEW t \in T
  PROVE  Move(at, t, "wait") \in [T -> P] /\ WokenFor(Move(at, t, "wait"), n)
  <1>1. Move(at, t, "wait") \in [T -> P] /\ DOMAIN Move(at, t, "wait") = T
    BY DEF Move
  <1>2. Cardinality(Retesting(Move(at, t, "wait"))) \in Nat
    BY <1>1, RetestingFinite, ZenonT(30)
  <1> QED
    BY <1>1, <1>2 DEF WokenFor

\* A thread that has nothing to do with the condition variable changes nothing.
LEMMA MoveKeeps ==
  ASSUME NEW T, NEW P, NEW at \in [T -> P], NEW n, WokenFor(at, n), NEW t \in T,
         at[t] # "wait", at[t] # "retest", NEW e \in P, e # "wait", e # "retest"
  PROVE  Move(at, t, e) \in [T -> P] /\ WokenFor(Move(at, t, e), n)
  <1>1. Move(at, t, e) \in [T -> P] /\ Waiting(Move(at, t, e)) = Waiting(at)
    BY DEF Move, Waiting
  <1>2. Retesting(Move(at, t, e)) = Retesting(at)
    BY DEF Move, Retesting
  <1> QED
    BY <1>1, <1>2 DEF WokenFor

\* notify() wakes a thread or nobody.
LEMMA NotifiedTyped ==
  ASSUME NEW T, NEW P, "retest" \in P, NEW at \in [T -> P], NEW after \in Notified(at)
  PROVE  after \in [T -> P]
  BY DEF Notified, Waiting, Wake

\* Nobody needs to be woken for nothing.
LEMMA NothingLost ==
  ASSUME NEW T, IsFiniteSet(T), NEW P, NEW at \in [T -> P], NEW n \in Int, n <= 0
  PROVE  WokenFor(at, n)
  BY RetestingFinite DEF WokenFor

-----------------------------------------------------------------------------
(* The queue behind what was taken.                                        *)

\* A value that is queued comes after all others.
LEMMA QueuedLast ==
  ASSUME NEW s \in Seq(Nat), NEW t \in Seq(Nat), NEW x \in Nat
  PROVE  Append(s \o t, x) = s \o Append(t, x)
  <1>1. s \o t \in Seq(Nat) /\ <<x>> \in Seq(Nat)
    BY ConcatProperties
  <1>2. Append(s \o t, x) = (s \o t) \o <<x>> /\ Append(t, x) = t \o <<x>>
    BY <1>1, AppendIsConcat, ZenonT(30)
  <1>3. (s \o t) \o <<x>> = s \o (t \o <<x>>)
    BY <1>1, ConcatAssociative
  <1> QED
    BY <1>2, <1>3, ZenonT(30)

\* The first value moves from one to the other.
LEMMA TakenFirst ==
  ASSUME NEW s \in Seq(Nat), NEW t \in Seq(Nat), t # <<>>
  PROVE  s \o t = Append(s, Head(t)) \o Tail(t)
  OBVIOUS

-----------------------------------------------------------------------------
(* The blocking queues.                                                    *)

PCs == {"idle", "wait", "retest"}

\* Where a thread goes.
LEMMA Places == /\ "idle" \in PCs /\ "wait" \in PCs /\ "retest" \in PCs
                /\ "idle" # "wait" /\ "idle" # "retest"
  BY DEF PCs

\* Condition variables are the same in the queues.
LEMMA SameInQueues ==
  ASSUME NEW M, NEW f, NEW n
  PROVE  /\ Queue(M)!Notified(f) = Notified(f)
         /\ Queue(M)!WokenFor(f, n) <=> WokenFor(f, n)
         /\ \A t : Queue(M)!Wake(f, t) = Wake(f, t)
  <1>1. Queue(M)!Waiting(f) = Waiting(f) /\ Queue(M)!Retesting(f) = Retesting(f)
    BY ZenonT(30) DEF Queue!Waiting, Waiting, Queue!Retesting, Retesting
  <1>2. \A t : Queue(M)!Wake(f, t) = Wake(f, t)
    BY ZenonT(30) DEF Queue!Wake, Wake
  <1>3. Queue(M)!WokenFor(f, n) <=> WokenFor(f, n)
    <2>1. \A S : Queue(M)!Cardinality(S) = Cardinality(S)
      BY ZenonT(30) DEF Queue!Cardinality, Cardinality, Queue!IsFiniteSet, IsFiniteSet
    <2> QED
      BY <1>1, <2>1, ZenonT(30) DEF Queue!WokenFor, WokenFor
  <1>4. Queue(M)!Notified(f) = Notified(f)
    BY <1>1, <1>2, ZenonT(30) DEF Queue!Notified, Notified
  <1> QED
    BY <1>2, <1>3, <1>4

\* The types, the order and the notifications need each other: a producer sleeps
\* only on a full queue, whose size is known from its type.
QueueTypes(M) ==
  /\ queue_ \in Seq(Nat) /\ Len(queue_) \in Nat /\ (M > 0 => Len(queue_) <= M)
  /\ ppc \in [Producers -> PCs] /\ cpc \in [Consumers -> PCs]
  /\ mine \in [Producers -> Nat] /\ calls \in Nat
  /\ input \in Seq(Nat) /\ output \in Seq(Nat)

QueueInv(M) ==
  /\ QueueTypes(M)
  /\ input = output \o queue_
  /\ WokenFor(cpc, Len(queue_))
  /\ M > 0 => WokenFor(ppc, M - Len(queue_))

\* What the invariant says of the queue.
LEMMA QueueMeans ==
  ASSUME NEW M \in Nat, QueueInv(M)
  PROVE  /\ Queue(M)!TypeOK /\ Queue(M)!FirstInFirstOut
         /\ Queue(M)!ConsumersNotified /\ Queue(M)!ProducersNotified
  <1>1. Queue(M)!TypeOK /\ Queue(M)!FirstInFirstOut
    BY DEF QueueInv, QueueTypes, PCs, Queue!TypeOK, Queue!FirstInFirstOut, Queue!Bounded
  <1>2. Queue(M)!ConsumersNotified /\ Queue(M)!ProducersNotified
    BY SameInQueues, ZenonT(30)
       DEF QueueInv, Queue!ConsumersNotified, Queue!ProducersNotified, Queue!Bounded
  <1> QED
    BY <1>1, <1>2

\* An empty queue nobody waits for has the invariant.
LEMMA QueueInit == ASSUME NEW M \in Nat, NEW N \in Nat, Queue(N)!Init PROVE QueueInv(M)
  <1>1. QueueTypes(M) /\ input = output \o queue_
    BY DEF Queue!Init, QueueTypes, PCs
  <1>2. Waiting(cpc) = {} /\ Waiting(ppc) = {}
    BY DEF Queue!Init, Waiting
  <1> QED
    BY <1>1, <1>2 DEF QueueInv, WokenFor

\* put() from its call or from its wait: it waits, or it queues x and notifies.
LEMMA QueueTestFull ==
  ASSUME NEW M \in Nat, QueueInv(M), NEW p \in Producers, ppc[p] # "wait", NEW x \in Nat,
         Queue(M)!TestFull(p, x), mine' \in [Producers -> Nat], calls' \in Nat, output' = output
  PROVE  QueueInv(M)'
  <1> USE QueueAssumption
  <1>t. QueueTypes(M) /\ Len(queue_) \in Int /\ M - Len(queue_) \in Int
    BY DEF QueueInv, QueueTypes
  <1>1. CASE Queue(M)!Full
    <2>1. ppc' = Move(ppc, p, "wait") /\ UNCHANGED <<queue_, cpc, input, output>>
      BY <1>1 DEF Queue!TestFull, Move
    <2>2. M - Len(queue_) <= 0 /\ M - Len(queue_) \in Int
      BY <1>1, <1>t DEF QueueTypes, Queue!Full, Queue!Bounded
    <2>3. ppc' \in [Producers -> PCs] /\ WokenFor(ppc', M - Len(queue_))
      BY <2>1, <2>2, <1>t, SleepKeeps, Places, ZenonT(30) DEF QueueTypes
    <2>4. QueueTypes(M)'
      BY <2>1, <2>3, <1>t DEF QueueTypes, PCs
    <2> QED
      BY <2>1, <2>3, <2>4 DEF QueueInv
  <1>2. CASE ~ Queue(M)!Full
    <2>1. /\ queue_' = Append(queue_, x) /\ input' = Append(input, x) /\ output' = output
          /\ ppc' = Move(ppc, p, "idle") /\ cpc' \in Notified(cpc)
      BY <1>2, SameInQueues DEF Queue!TestFull, Move, Queue!NotifyNotEmpty
    <2>2. queue_' \in Seq(Nat) /\ Len(queue_') = Len(queue_) + 1
      BY <2>1, <1>t DEF QueueTypes
    <2>3. M > 0 => Len(queue_') <= M
      BY <2>2, <1>2, <1>t DEF QueueTypes, Queue!Full, Queue!Bounded
    <2>4. cpc' \in [Consumers -> PCs] /\ WokenFor(cpc', Len(queue_) + 1)
      <3>1. WokenFor(cpc, Len(queue_)) /\ Len(queue_) \in Int
        BY <1>t DEF QueueTypes, QueueInv
      <3> QED
        BY <3>1, <2>1, <1>t, NotifyKeeps, Places, ZenonT(30) DEF QueueTypes
    <2>5. ppc' \in [Producers -> PCs]
      BY <2>1, <1>t DEF QueueTypes, Move, PCs
    <2>6. ASSUME M > 0 PROVE WokenFor(ppc', M - Len(queue_'))
      <3>1. WokenFor(ppc, M - Len(queue_)) /\ M - Len(queue_) \in Int
        BY <2>6, <1>t DEF QueueTypes, QueueInv
      <3>2. WokenFor(ppc', (M - Len(queue_)) - 1)
        BY <3>1, <2>1, <1>t, LeaveKeeps, Places, ZenonT(30) DEF QueueTypes
      <3>3. (M - Len(queue_)) - 1 = M - Len(queue_')
        BY <2>2, <1>t DEF QueueTypes
      <3> QED
        BY <3>2, <3>3
    <2>7. QueueTypes(M)'
      BY <2>1, <2>2, <2>3, <2>4, <2>5, <1>t DEF QueueTypes, PCs
    <2>8. (input = output \o queue_)'
      <3>1. input = output \o queue_
        BY DEF QueueInv
      <3>2. Append(output \o queue_, x) = output \o Append(queue_, x)
        BY <1>t, QueuedLast, ZenonT(30) DEF QueueTypes
      <3> QED
        BY <3>1, <3>2, <2>1, ZenonT(30)
    <2> QED
      BY <2>2, <2>4, <2>6, <2>7, <2>8 DEF QueueInv
  <1> QED
    BY <1>1, <1>2

\* take(): it waits, or it takes the first value and notifies.
LEMMA QueueTake ==
  ASSUME NEW M \in Nat, QueueInv(M), NEW c \in Consumers, Queue(M)!Take(c)
  PROVE  QueueInv(M)'
  <1> USE QueueAssumption
  <1>t. QueueTypes(M) /\ Len(queue_) \in Int /\ M - Len(queue_) \in Int
    BY DEF QueueInv, QueueTypes
  <1>u. cpc[c] # "wait" /\ UNCHANGED <<mine, calls, input>>
    BY DEF Queue!Take
  <1>1. CASE queue_ = <<>>
    <2>1. cpc' = Move(cpc, c, "wait") /\ UNCHANGED <<queue_, ppc, output>>
      BY <1>1 DEF Queue!Take, Move
    <2>2. Len(queue_) <= 0 /\ Len(queue_) \in Int
      BY <1>1
    <2>3. cpc' \in [Consumers -> PCs] /\ WokenFor(cpc', Len(queue_))
      BY <2>1, <2>2, <1>t, SleepKeeps, Places, ZenonT(30) DEF QueueTypes
    <2>4. QueueTypes(M)'
      BY <2>1, <2>3, <1>t, <1>u DEF QueueTypes, QueueInv, PCs
    <2> QED
      BY <2>1, <2>3, <2>4, <1>u DEF QueueInv
  <1>2. CASE queue_ # <<>>
    <2>1. /\ queue_' = Tail(queue_) /\ output' = Append(output, Head(queue_))
          /\ cpc' = Move(cpc, c, "idle")
          /\ ppc' \in (IF M > 0 THEN Notified(ppc) ELSE {ppc})
      BY <1>2, SameInQueues DEF Queue!Take, Move, Queue!NotifyNotFull, Queue!Bounded
    <2>2. queue_' \in Seq(Nat) /\ Len(queue_') = Len(queue_) - 1 /\ Head(queue_) \in Nat
      BY <2>1, <1>t, <1>2, HeadTailProperties DEF QueueTypes
    <2>3. cpc' \in [Consumers -> PCs] /\ WokenFor(cpc', Len(queue_) - 1)
      <3>1. WokenFor(cpc, Len(queue_)) /\ Len(queue_) \in Int
        BY <1>t DEF QueueTypes, QueueInv
      <3> QED
        BY <3>1, <2>1, <1>t, <1>u, LeaveKeeps, Places, ZenonT(30) DEF QueueTypes
    <2>4. /\ ppc' \in [Producers -> PCs]
          /\ M > 0 => WokenFor(ppc', M - Len(queue_'))
      <3>1. CASE M > 0
        <4>1. WokenFor(ppc, M - Len(queue_)) /\ M - Len(queue_) \in Int
          BY <3>1, <1>t DEF QueueTypes, QueueInv
        <4>2. ppc' \in [Producers -> PCs] /\ WokenFor(ppc', (M - Len(queue_)) + 1)
          BY <4>1, <3>1, <2>1, <1>t, NotifyKeeps, Places, ZenonT(30) DEF QueueTypes
        <4>3. (M - Len(queue_)) + 1 = M - Len(queue_')
          BY <2>2, <1>t DEF QueueTypes
        <4> QED
          BY <4>2, <4>3
      <3>2. CASE ~ (M > 0)
        BY <3>2, <2>1, <1>t DEF QueueTypes
      <3> QED
        BY <3>1, <3>2
    <2>5. QueueTypes(M)'
      BY <2>1, <2>2, <2>3, <2>4, <1>t, <1>u DEF QueueTypes, QueueInv, PCs
    <2>6. (input = output \o queue_)'
      <3>1. input = output \o queue_
        BY DEF QueueInv
      <3>2. output \o queue_ = Append(output, Head(queue_)) \o Tail(queue_)
        BY <1>t, <1>2, TakenFirst, ZenonT(30) DEF QueueTypes
      <3> QED
        BY <3>1, <3>2, <2>1, <1>u, ZenonT(30)
    <2> QED
      BY <2>2, <2>3, <2>4, <2>5, <2>6 DEF QueueInv
  <1> QED
    BY <1>1, <1>2

\* pthread_cond_wait() returns without a notification.
LEMMA QueueSpurious ==
  ASSUME NEW M \in Nat, QueueInv(M), Queue(M)!SpuriousWakeup
  PROVE  QueueInv(M)'
  <1> USE QueueAssumption
  <1>t. QueueTypes(M) /\ Len(queue_) \in Int /\ M - Len(queue_) \in Int
    BY DEF QueueInv, QueueTypes
  <1>1. ASSUME NEW p \in Producers, ppc[p] = "wait", ppc' = Wake(ppc, p),
               UNCHANGED <<queue_, cpc, mine, calls, input, output>>
        PROVE  QueueInv(M)'
    <2>1. p \in Waiting(ppc)
      BY <1>1, <1>t DEF QueueTypes, Waiting
    <2>2. ppc' \in [Producers -> PCs]
      BY <1>1, <1>t, <2>1, WakeCounts, Places DEF QueueTypes
    <2>3. ASSUME M > 0 PROVE WokenFor(ppc', M - Len(queue_))
      BY <1>1, <1>t, <2>1, <2>3, SpuriousKeeps, Places DEF QueueTypes, QueueInv
    <2>4. QueueTypes(M)'
      BY <1>1, <1>t, <2>2 DEF QueueTypes, PCs
    <2> QED
      BY <1>1, <2>3, <2>4 DEF QueueInv
  <1>2. ASSUME NEW c \in Consumers, cpc[c] = "wait", cpc' = Wake(cpc, c),
               UNCHANGED <<queue_, ppc, mine, calls, input, output>>
        PROVE  QueueInv(M)'
    <2>1. c \in Waiting(cpc)
      BY <1>2, <1>t DEF QueueTypes, Waiting
    <2>2. cpc' \in [Consumers -> PCs] /\ WokenFor(cpc', Len(queue_))
      BY <1>2, <1>t, <2>1, SpuriousKeeps, Places DEF QueueTypes, QueueInv
    <2>3. QueueTypes(M)'
      BY <1>2, <1>t, <2>2 DEF QueueTypes, PCs
    <2> QED
      BY <1>2, <2>2, <2>3 DEF QueueInv
  <1> QED
    BY <1>1, <1>2, SameInQueues, ZenonT(30) DEF Queue!SpuriousWakeup

\* Every step of put(), take() and their waits keeps the invariant.
LEMMA QueueSteps ==
  ASSUME NEW M \in Nat, QueueInv(M), [Queue(M)!Next]_queueVars
  PROVE  QueueInv(M)'
  <1>t. mine \in [Producers -> Nat] /\ calls \in Nat
    BY DEF QueueInv, QueueTypes
  <1>1. ASSUME NEW p \in Producers, Queue(M)!Put(p) PROVE QueueInv(M)'
    <2>1. /\ ppc[p] # "wait" /\ calls + 1 \in Nat /\ Queue(M)!TestFull(p, calls + 1)
          /\ output' = output /\ mine' \in [Producers -> Nat] /\ calls' \in Nat
      BY <1>1, <1>t DEF QueueTypes, Queue!Put
    <2> QED
      BY <2>1, QueueTestFull
  <1>2. ASSUME NEW p \in Producers, Queue(M)!PutAgain(p) PROVE QueueInv(M)'
    <2>1. /\ ppc[p] # "wait" /\ mine[p] \in Nat /\ Queue(M)!TestFull(p, mine[p])
          /\ output' = output /\ mine' \in [Producers -> Nat] /\ calls' \in Nat
      BY <1>2, <1>t DEF QueueTypes, Queue!PutAgain
    <2> QED
      BY <2>1, QueueTestFull
  <1>3. CASE UNCHANGED queueVars
    BY <1>3 DEF queueVars, QueueInv, QueueTypes
  <1> QED
    BY <1>1, <1>2, <1>3, QueueTake, QueueSpurious DEF Queue!Next

-----------------------------------------------------------------------------
(* ThreadPool.                                                             *)

WorkerPCs == {"new", "loop", "take", "wait", "retest", "task", "done"}

\* Where a worker goes.
LEMMA WorkerPlaces ==
  /\ \A e \in {"loop", "take", "task", "done"} : e \in WorkerPCs /\ e # "wait" /\ e # "retest"
  /\ "wait" \in WorkerPCs /\ "retest" \in WorkerPCs
  BY DEF WorkerPCs

\* Condition variables are the same in both modules.
LEMMA SameCondition ==
  ASSUME NEW f, NEW n
  PROVE  /\ Pool!Notified(f) = Notified(f) /\ (Pool!WokenFor(f, n) <=> WokenFor(f, n))
         /\ \A t : Pool!Wake(f, t) = Wake(f, t)
  <1>1. Pool!Waiting(f) = Waiting(f) /\ Pool!Retesting(f) = Retesting(f)
    BY ZenonT(30) DEF Pool!Waiting, Waiting, Pool!Retesting, Retesting
  <1>2. \A t : Pool!Wake(f, t) = Wake(f, t)
    BY ZenonT(30) DEF Pool!Wake, Wake
  <1>3. Pool!WokenFor(f, n) <=> WokenFor(f, n)
    <2>1. \A S : Pool!Cardinality(S) = Cardinality(S)
      BY ZenonT(30) DEF Pool!Cardinality, Cardinality, Pool!IsFiniteSet, IsFiniteSet
    <2> QED
      BY <1>1, <2>1, ZenonT(30) DEF Pool!WokenFor, WokenFor
  <1>4. Pool!Notified(f) = Notified(f)
    BY <1>1, <1>2, ZenonT(30) DEF Pool!Notified, Notified
  <1> QED
    BY <1>2, <1>3, <1>4

\* The conjunction is inductive.  A worker that start() has not started does not
\* sleep, and after stop() nothing is promised to the workers.
PoolInv == Pool!TypeOK /\ Pool!TasksInOrder /\ Pool!WorkersNotified /\ Pool!CallersNotified

\* What the types say, with the places of the threads named.
PoolTypes ==
  /\ poolQueue \in Seq(Nat) /\ Len(poolQueue) \in Nat /\ pushed \in Seq(Nat) /\ taken \in Seq(Nat)
  /\ wpc \in [Workers -> WorkerPCs] /\ callerPc \in [Callers -> PCs]
  /\ Len(poolQueue) \in Int /\ MaxQueueSize - Len(poolQueue) \in Int

\* The types are among what the pool keeps.
LEMMA PoolTyped == ASSUME PoolInv PROVE PoolTypes
  BY PoolAssumption DEF PoolInv, PoolTypes, Pool!TypeOK, WorkerPCs, PCs

\* A pool that was not started has the invariant.
LEMMA PoolInit == Pool!Init => PoolInv
  <1> SUFFICES ASSUME Pool!Init PROVE PoolInv
    OBVIOUS
  <1>1. Pool!TypeOK
    <2>1. /\ poolRunning \in BOOLEAN /\ mpc \in {"new", "started", "stopping", "joined"}
          /\ executed \subseteq Nat
      BY ZenonT(30) DEF Pool!Init
    <2>2. /\ wpc \in [Workers -> {"new", "loop", "take", "wait", "retest", "task", "done"}]
          /\ callerPc \in [Callers -> {"idle", "wait", "retest"}]
          /\ task \in [Workers -> Nat] /\ callerTask \in [Callers -> Nat] /\ created \in Nat
      BY DEF Pool!Init
    <2>3. /\ poolQueue \in Seq(Nat) /\ pushed \in Seq(Nat) /\ taken \in Seq(Nat)
          /\ MaxQueueSize > 0 => Len(poolQueue) <= MaxQueueSize
      BY PoolAssumption DEF Pool!Init
    <2> QED
      BY <2>1, <2>2, <2>3, ZenonT(30) DEF Pool!TypeOK
  <1>2. Pool!TasksInOrder
    BY DEF Pool!Init, Pool!TasksInOrder
  <1>3. Pool!Waiting(wpc) = {} /\ Pool!Waiting(callerPc) = {}
    BY DEF Pool!Init, Pool!Waiting
  <1> QED
    BY <1>1, <1>2, <1>3 DEF PoolInv, Pool!WorkersNotified, Pool!CallersNotified, Pool!WokenFor

\* run() from its call or from its wait: it waits, or it queues the task and
\* notifies a worker.
LEMMA PoolTestFull ==
  ASSUME PoolInv, NEW c \in Callers, callerPc[c] # "wait", NEW t \in Nat,
         Pool!TestFull(c, t), callerTask' \in [Callers -> Nat], created' \in Nat,
         UNCHANGED <<poolRunning, mpc, task, taken, executed>>
  PROVE  PoolInv'
  <1> USE PoolAssumption
  <1>t. PoolTypes
    BY PoolTyped
  <1>1. CASE Pool!isFull
    <2>1. callerPc' = Move(callerPc, c, "wait") /\ UNCHANGED <<poolQueue, pushed, wpc>>
      BY <1>1 DEF Pool!TestFull, Move
    <2>2. MaxQueueSize - Len(poolQueue) <= 0
      BY <1>1, <1>t DEF PoolTypes, Pool!isFull
    <2>3. callerPc' \in [Callers -> PCs] /\ WokenFor(callerPc', MaxQueueSize - Len(poolQueue))
      BY <2>1, <2>2, <1>t, SleepKeeps, Places, ZenonT(30) DEF PoolTypes
    <2>4. Pool!TypeOK'
      BY <2>1, <2>3 DEF PoolInv, Pool!TypeOK, PCs
    <2>5. Pool!TasksInOrder' /\ Pool!WorkersNotified'
      BY <2>1 DEF PoolInv, Pool!TasksInOrder, Pool!WorkersNotified
    <2>6. Pool!CallersNotified'
      BY <2>1, <2>3, SameCondition, ZenonT(30) DEF Pool!CallersNotified
    <2> QED
      BY <2>4, <2>5, <2>6 DEF PoolInv
  <1>2. CASE ~ Pool!isFull
    <2>1. /\ poolQueue' = Append(poolQueue, t) /\ pushed' = Append(pushed, t) /\ taken' = taken
          /\ callerPc' = Move(callerPc, c, "idle") /\ wpc' \in Notified(wpc) /\ poolRunning' = poolRunning
      BY <1>2, SameCondition DEF Pool!TestFull, Move, Pool!NotifyNotEmpty
    <2>2. /\ poolQueue' \in Seq(Nat) /\ Len(poolQueue') = Len(poolQueue) + 1
          /\ pushed' \in Seq(Nat)
      BY <2>1, <1>t DEF PoolTypes
    <2>3. MaxQueueSize > 0 => Len(poolQueue') <= MaxQueueSize
      BY <2>2, <1>2, <1>t DEF PoolTypes, Pool!isFull
    <2>4. wpc' \in [Workers -> WorkerPCs]
      BY <2>1, <1>t, NotifiedTyped, WorkerPlaces, ZenonT(30) DEF PoolTypes
    <2>5. ASSUME poolRunning PROVE WokenFor(wpc', Len(poolQueue) + 1)
      <3>1. WokenFor(wpc, Len(poolQueue))
        BY <2>5, SameCondition, ZenonT(30) DEF PoolInv, Pool!WorkersNotified
      <3> QED
        BY <3>1, <2>1, <1>t, NotifyKeeps, WorkerPlaces, ZenonT(30) DEF PoolTypes
    <2>6. callerPc' \in [Callers -> PCs] /\ WokenFor(callerPc', (MaxQueueSize - Len(poolQueue)) - 1)
      <3>1. WokenFor(callerPc, MaxQueueSize - Len(poolQueue))
        BY SameCondition, ZenonT(30) DEF PoolInv, Pool!CallersNotified
      <3> QED
        BY <3>1, <2>1, <1>t, LeaveKeeps, Places, ZenonT(30) DEF PoolTypes
    <2>7. (MaxQueueSize - Len(poolQueue)) - 1 = MaxQueueSize - Len(poolQueue')
      BY <2>2, <1>t DEF PoolTypes
    <2>8. Pool!TypeOK'
      BY <2>2, <2>3, <2>4, <2>6 DEF PoolInv, Pool!TypeOK, PCs, WorkerPCs
    <2>9. Pool!TasksInOrder'
      <3>1. pushed = taken \o poolQueue
        BY DEF PoolInv, Pool!TasksInOrder
      <3>2. Append(taken \o poolQueue, t) = taken \o Append(poolQueue, t)
        BY <1>t, QueuedLast, ZenonT(30) DEF PoolTypes
      <3> QED
        BY <3>1, <3>2, <2>1, ZenonT(30) DEF Pool!TasksInOrder
    <2>10. Pool!WorkersNotified'
      <3>1. ASSUME poolRunning' PROVE WokenFor(wpc', Len(poolQueue'))
        <4>1. poolRunning = poolRunning'
          OBVIOUS
        <4>2. poolRunning
          BY <3>1, <4>1
        <4>3. WokenFor(wpc', Len(poolQueue) + 1)
          BY <4>2, <2>5
        <4> QED
          BY <4>3, <2>2, ZenonT(30)
      <3> QED
        BY <3>1, SameCondition, ZenonT(30) DEF Pool!WorkersNotified
    <2>11. Pool!CallersNotified'
      BY <2>6, <2>7, SameCondition, ZenonT(30) DEF Pool!CallersNotified
    <2> QED
      BY <2>8, <2>9, <2>10, <2>11 DEF PoolInv
  <1> QED
    BY <1>1, <1>2

\* take(): the worker waits, takes the first task and notifies a caller, or goes
\* back without a task when the pool is stopped.
LEMMA PoolTake ==
  ASSUME PoolInv, NEW w \in Workers, Pool!Take(w)
  PROVE  PoolInv'
  <1> USE PoolAssumption
  <1>t. PoolTypes
    BY PoolTyped
  <1>u. /\ wpc[w] # "wait" /\ UNCHANGED <<poolRunning, mpc, created, callerTask, pushed, executed>>
        /\ poolRunning => WokenFor(wpc, Len(poolQueue))
        /\ WokenFor(callerPc, MaxQueueSize - Len(poolQueue))
    <2>1. wpc[w] # "wait" /\ UNCHANGED <<poolRunning, mpc, created, callerTask, pushed, executed>>
      BY DEF Pool!Take
    <2> QED
      BY <2>1, SameCondition, ZenonT(30) DEF PoolInv, Pool!WorkersNotified, Pool!CallersNotified
  <1>1. ASSUME poolQueue = <<>>, UNCHANGED <<poolQueue, task, taken, callerPc>>,
               wpc' \in [Workers -> WorkerPCs], poolRunning => WokenFor(wpc', Len(poolQueue))
        PROVE  PoolInv'
    <2>1. Pool!TypeOK'
      BY <1>1, <1>u DEF PoolInv, Pool!TypeOK, WorkerPCs
    <2>2. Pool!TasksInOrder' /\ Pool!CallersNotified'
      BY <1>1, <1>u DEF PoolInv, Pool!TasksInOrder, Pool!CallersNotified
    <2>3. Pool!WorkersNotified'
      BY <1>1, <1>u, SameCondition, ZenonT(30) DEF Pool!WorkersNotified
    <2> QED
      BY <2>1, <2>2, <2>3 DEF PoolInv
  <1>2. CASE poolQueue = <<>> /\ poolRunning
    <2>1. wpc' = Move(wpc, w, "wait") /\ UNCHANGED <<poolQueue, task, taken, callerPc>>
      BY <1>2 DEF Pool!Take, Move
    <2>2. Len(poolQueue) <= 0
      BY <1>2
    <2>3. wpc' \in [Workers -> WorkerPCs] /\ WokenFor(wpc', Len(poolQueue))
      BY <2>1, <2>2, <1>t, SleepKeeps, WorkerPlaces, ZenonT(30) DEF PoolTypes
    <2> QED
      BY <2>1, <2>3, <1>1, <1>2
  <1>3. CASE poolQueue = <<>> /\ ~ poolRunning
    <2>1. wpc' = [wpc EXCEPT ![w] = "loop"] /\ UNCHANGED <<poolQueue, task, taken, callerPc>>
      BY <1>3 DEF Pool!Take
    <2>2. wpc' \in [Workers -> WorkerPCs]
      BY <2>1, <1>t DEF PoolTypes, WorkerPCs
    <2> QED
      BY <2>1, <2>2, <1>1, <1>3
  <1>4. CASE poolQueue # <<>>
    <2>1. /\ poolQueue' = Tail(poolQueue) /\ taken' = Append(taken, Head(poolQueue))
          /\ task' = [task EXCEPT ![w] = Head(poolQueue)]
          /\ wpc' = Move(wpc, w, "task")
          /\ callerPc' \in (IF MaxQueueSize > 0 THEN Notified(callerPc) ELSE {callerPc})
      BY <1>4, SameCondition DEF Pool!Take, Pool!TakeFrom, Move, Pool!NotifyNotFull
    <2>2. /\ poolQueue' \in Seq(Nat) /\ Len(poolQueue') = Len(poolQueue) - 1 /\ Head(poolQueue) \in Nat
          /\ taken' \in Seq(Nat)
      BY <2>1, <1>t, <1>4, HeadTailProperties DEF PoolTypes
    <2>3. task' \in [Workers -> Nat]
      BY <2>1, <2>2 DEF PoolInv, Pool!TypeOK
    <2>4. wpc' \in [Workers -> WorkerPCs] /\ (poolRunning => WokenFor(wpc', Len(poolQueue) - 1))
      <3>1. wpc' \in [Workers -> WorkerPCs]
        BY <2>1, <1>t DEF PoolTypes, Move, WorkerPCs
      <3>2. ASSUME poolRunning PROVE WokenFor(wpc', Len(poolQueue) - 1)
        BY <3>2, <2>1, <1>t, <1>u, LeaveKeeps, WorkerPlaces, ZenonT(30) DEF PoolTypes
      <3> QED
        BY <3>1, <3>2
    <2>5. callerPc' \in [Callers -> PCs] /\ WokenFor(callerPc', MaxQueueSize - Len(poolQueue'))
      <3>1. CASE MaxQueueSize > 0
        <4>1. callerPc' \in [Callers -> PCs] /\ WokenFor(callerPc', (MaxQueueSize - Len(poolQueue)) + 1)
          BY <3>1, <2>1, <1>t, <1>u, NotifyKeeps, Places, ZenonT(30) DEF PoolTypes
        <4>2. (MaxQueueSize - Len(poolQueue)) + 1 = MaxQueueSize - Len(poolQueue')
          BY <2>2, <1>t DEF PoolTypes
        <4> QED
          BY <4>1, <4>2
      <3>2. CASE ~ (MaxQueueSize > 0)
        <4>1. callerPc' = callerPc /\ MaxQueueSize - Len(poolQueue') <= 0
          BY <3>2, <2>1, <2>2, <1>t DEF PoolTypes
        <4>2. MaxQueueSize - Len(poolQueue') \in Int
          BY <2>2, <1>t DEF PoolTypes
        <4> QED
          BY <4>1, <4>2, <1>t, NothingLost, ZenonT(30) DEF PoolTypes
      <3> QED
        BY <3>1, <3>2
    <2>6. Pool!TypeOK'
      BY <2>2, <2>3, <2>4, <2>5, <1>u, <1>t DEF PoolInv, PoolTypes, Pool!TypeOK, PCs, WorkerPCs
    <2>7. Pool!TasksInOrder'
      <3>1. pushed = taken \o poolQueue
        BY DEF PoolInv, Pool!TasksInOrder
      <3>2. taken \o poolQueue = Append(taken, Head(poolQueue)) \o Tail(poolQueue)
        BY <1>t, <1>4, TakenFirst, ZenonT(30) DEF PoolTypes
      <3> QED
        BY <3>1, <3>2, <2>1, <1>u, ZenonT(30) DEF Pool!TasksInOrder
    <2>8. Pool!WorkersNotified' /\ Pool!CallersNotified'
      BY <2>2, <2>4, <2>5, <1>u, SameCondition, ZenonT(30)
         DEF Pool!WorkersNotified, Pool!CallersNotified
    <2> QED
      BY <2>6, <2>7, <2>8 DEF PoolInv
  <1> QED
    BY <1>2, <1>3, <1>4

\* A worker goes round its loop, and comes back from a task.
LEMMA PoolMove ==
  ASSUME PoolInv, NEW w \in Workers, wpc[w] \in {"loop", "task"},
         NEW e \in {"loop", "take", "done"}, wpc' = Move(wpc, w, e),
         executed' \subseteq Nat,
         UNCHANGED <<poolRunning, poolQueue, mpc, task, callerPc, created, callerTask, pushed, taken>>
  PROVE  PoolInv'
  <1>t. PoolTypes
    BY PoolTyped
  <1>1. wpc[w] # "wait" /\ wpc[w] # "retest"
    OBVIOUS
  <1>2. wpc' \in [Workers -> WorkerPCs]
    BY <1>t DEF PoolTypes, WorkerPCs, Move
  <1>3. ASSUME poolRunning PROVE WokenFor(wpc', Len(poolQueue))
    <2>1. WokenFor(wpc, Len(poolQueue))
      BY <1>3, SameCondition, ZenonT(30) DEF PoolInv, Pool!WorkersNotified
    <2>2. e \in WorkerPCs /\ e # "wait" /\ e # "retest"
      BY DEF WorkerPCs
    <2> QED
      BY <1>1, <1>t, <2>1, <2>2, MoveKeeps, ZenonT(30) DEF PoolTypes
  <1>4. Pool!TypeOK'
    BY <1>2 DEF PoolInv, Pool!TypeOK, WorkerPCs
  <1>5. Pool!TasksInOrder' /\ Pool!CallersNotified'
    BY DEF PoolInv, Pool!TasksInOrder, Pool!CallersNotified
  <1>6. Pool!WorkersNotified'
    BY <1>3, SameCondition, ZenonT(30) DEF Pool!WorkersNotified
  <1> QED
    BY <1>4, <1>5, <1>6 DEF PoolInv

\* start() finds nobody asleep, and after stop() nothing is promised.
LEMMA PoolOwner ==
  ASSUME PoolInv, Pool!Start \/ Pool!Stop \/ Pool!Join
  PROVE  PoolInv'
  <1>t. PoolTypes
    BY PoolTyped
  <1>1. /\ UNCHANGED <<poolQueue, task, callerPc, created, callerTask, pushed, taken, executed>>
        /\ mpc' \in {"started", "stopping", "joined"}
    BY DEF Pool!Start, Pool!Stop, Pool!Join
  <1>2. poolRunning' \in BOOLEAN
    BY ZenonT(30) DEF PoolInv, Pool!TypeOK, Pool!Start, Pool!Stop, Pool!Join
  <1>3. wpc' \in [Workers -> WorkerPCs]
    BY <1>t DEF PoolTypes, WorkerPCs, Pool!Start, Pool!Stop, Pool!Join, Pool!NotifiedAll
  <1>4. Pool!TypeOK'
    BY <1>1, <1>2, <1>3, ZenonT(30) DEF PoolInv, Pool!TypeOK, WorkerPCs
  <1>5. Pool!TasksInOrder' /\ Pool!CallersNotified'
    BY <1>1 DEF PoolInv, Pool!TasksInOrder, Pool!CallersNotified
  <1>6. Pool!WorkersNotified'
    <2>1. CASE Pool!Start
      <3>1. Pool!Waiting(wpc') = {}
        BY <2>1 DEF Pool!Start, Pool!Waiting
      <3> QED
        BY <3>1, ZenonT(30) DEF Pool!WorkersNotified, Pool!WokenFor
    <2>2. CASE Pool!Stop
      BY <2>2, ZenonT(30) DEF Pool!Stop, Pool!WorkersNotified
    <2>3. CASE Pool!Join
      BY <2>3, ZenonT(30) DEF PoolInv, Pool!Join, Pool!WorkersNotified
    <2> QED
      BY <2>1, <2>2, <2>3
  <1> QED
    BY <1>4, <1>5, <1>6 DEF PoolInv

\* pthread_cond_wait() of a worker or a caller returns without a notification.
LEMMA PoolSpurious ==
  ASSUME PoolInv, Pool!SpuriousWakeup
  PROVE  PoolInv'
  <1> USE PoolAssumption
  <1>t. PoolTypes
    BY PoolTyped
  <1>1. ASSUME NEW w \in Workers, wpc[w] = "wait", wpc' = Wake(wpc, w),
               UNCHANGED <<poolRunning, poolQueue, mpc, task, callerPc, created, callerTask, pushed, taken, executed>>
        PROVE  PoolInv'
    <2>1. w \in Waiting(wpc)
      BY <1>1, <1>t DEF PoolTypes, Waiting
    <2>2. wpc' \in [Workers -> WorkerPCs]
      BY <1>1, <1>t DEF PoolTypes, Wake, WorkerPCs
    <2>3. ASSUME poolRunning PROVE WokenFor(wpc', Len(poolQueue))
      <3>1. WokenFor(wpc, Len(poolQueue))
        BY <2>3, SameCondition, ZenonT(30) DEF PoolInv, Pool!WorkersNotified
      <3> QED
        BY <3>1, <1>1, <1>t, <2>1, SpuriousKeeps, WorkerPlaces, ZenonT(30) DEF PoolTypes
    <2>4. Pool!TypeOK'
      BY <1>1, <2>2 DEF PoolInv, Pool!TypeOK, WorkerPCs
    <2>5. Pool!TasksInOrder' /\ Pool!CallersNotified'
      BY <1>1 DEF PoolInv, Pool!TasksInOrder, Pool!CallersNotified
    <2>6. Pool!WorkersNotified'
      BY <1>1, <2>3, SameCondition, ZenonT(30) DEF Pool!WorkersNotified
    <2> QED
      BY <2>4, <2>5, <2>6 DEF PoolInv
  <1>2. ASSUME NEW c \in Callers, callerPc[c] = "wait", callerPc' = Wake(callerPc, c),
               UNCHANGED <<poolRunning, poolQueue, mpc, wpc, task, created, callerTask, pushed, taken, executed>>
        PROVE  PoolInv'
    <2>1. c \in Waiting(callerPc)
      BY <1>2, <1>t DEF PoolTypes, Waiting
    <2>2. callerPc' \in [Callers -> PCs]
      BY <1>2, <1>t DEF PoolTypes, Wake, PCs
    <2>3. WokenFor(callerPc', MaxQueueSize - Len(poolQueue))
      <3>1. WokenFor(callerPc, MaxQueueSize - Len(poolQueue))
        BY SameCondition, ZenonT(30) DEF PoolInv, Pool!CallersNotified
      <3> QED
        BY <3>1, <1>2, <1>t, <2>1, SpuriousKeeps, Places, ZenonT(30) DEF PoolTypes
    <2>4. Pool!TypeOK'
      BY <1>2, <2>2 DEF PoolInv, Pool!TypeOK, PCs
    <2>5. Pool!TasksInOrder' /\ Pool!WorkersNotified'
      BY <1>2 DEF PoolInv, Pool!TasksInOrder, Pool!WorkersNotified
    <2>6. Pool!CallersNotified'
      BY <1>2, <2>3, SameCondition, ZenonT(30) DEF Pool!CallersNotified
    <2> QED
      BY <2>4, <2>5, <2>6 DEF PoolInv
  <1> QED
    BY <1>1, <1>2, SameCondition, ZenonT(30) DEF Pool!SpuriousWakeup

\* Every step of the owner, the callers and the workers keeps the invariant.
LEMMA PoolSteps == ASSUME PoolInv, [Pool!Next]_poolVars PROVE PoolInv'
  <1>t. /\ callerTask \in [Callers -> Nat] /\ created \in Nat /\ task \in [Workers -> Nat]
        /\ executed \subseteq Nat
    BY DEF PoolInv, Pool!TypeOK
  <1>1. ASSUME NEW c \in Callers, Pool!RunDirectly(c) PROVE PoolInv'
    <2>1. /\ UNCHANGED <<poolRunning, poolQueue, mpc, wpc, task, callerPc, callerTask, pushed, taken>>
          /\ created' \in Nat /\ executed' \subseteq Nat
      BY <1>1, <1>t DEF Pool!RunDirectly
    <2> QED
      BY <2>1, ZenonT(30) DEF PoolInv, Pool!TypeOK, Pool!TasksInOrder, Pool!WorkersNotified,
                              Pool!CallersNotified
  <1>2. ASSUME NEW c \in Callers, Pool!Run(c) PROVE PoolInv'
    <2>1. /\ callerPc[c] # "wait" /\ created + 1 \in Nat /\ Pool!TestFull(c, created + 1)
          /\ callerTask' \in [Callers -> Nat] /\ created' \in Nat
          /\ UNCHANGED <<poolRunning, mpc, task, taken, executed>>
      BY <1>2, <1>t DEF Pool!Run
    <2> QED
      BY <2>1, PoolTestFull, ZenonT(30)
  <1>3. ASSUME NEW c \in Callers, Pool!RunAgain(c) PROVE PoolInv'
    <2>1. /\ callerPc[c] # "wait" /\ callerTask[c] \in Nat /\ Pool!TestFull(c, callerTask[c])
          /\ callerTask' \in [Callers -> Nat] /\ created' \in Nat
          /\ UNCHANGED <<poolRunning, mpc, task, taken, executed>>
      BY <1>3, <1>t DEF Pool!RunAgain
    <2> QED
      BY <2>1, PoolTestFull, ZenonT(30)
  <1>4. ASSUME NEW w \in Workers, Pool!TestRunning(w) \/ Pool!RunTask(w) PROVE PoolInv'
    <2>1. /\ wpc[w] \in {"loop", "task"} /\ executed' \subseteq Nat
          /\ \E e \in {"loop", "take", "done"} : wpc' = Move(wpc, w, e)
          /\ UNCHANGED <<poolRunning, poolQueue, mpc, task, callerPc, created, callerTask, pushed, taken>>
      BY <1>4, <1>t DEF Pool!TestRunning, Pool!RunTask, Move
    <2> QED
      BY <2>1, PoolMove, ZenonT(30)
  <1>5. CASE UNCHANGED poolVars
    BY <1>5, ZenonT(30) DEF poolVars, PoolInv, Pool!TypeOK, Pool!TasksInOrder,
                            Pool!WorkersNotified, Pool!CallersNotified
  <1> QED
    BY <1>1, <1>2, <1>3, <1>4, <1>5, PoolTake, PoolOwner, PoolSpurious, ZenonT(30)
       DEF Pool!Next, Pool!WorkerStep

-----------------------------------------------------------------------------
(* AsyncLogging and LogFile: what is proved of them on their own holds of    *)
(* the ones in MCBase.                                                     *)

LogProofs == INSTANCE AsyncLoggingProofs

\* The sizes are those of MCBase.
LEMMA SizesAssumed == LogProofs!LogSizes /\ LogProofs!FileSizes
  BY LoggingAssumption, FileAssumption DEF LogProofs!LogSizes, LogProofs!FileSizes

\* The steps are those of MCBase.
LEMMA SameLogging ==
  /\ Logging!Init => LogProofs!Init
  /\ [Logging!Next]_loggingVars => [LogProofs!Next]_(LogProofs!vars)
  <1>1. Logging!Init => LogProofs!Init
    BY ZenonT(30) DEF Logging!Init, LogProofs!Init
  <1>2. Logging!AppendLine => LogProofs!AppendLine
    BY ZenonT(30) DEF Logging!AppendLine, Logging!Fits, Logging!NextCurrent, Logging!Null, Logging!Notify,
      Logging!back, LogProofs!AppendLine, LogProofs!Fits, LogProofs!NextCurrent, LogProofs!Null,
      LogProofs!Notify, LogProofs!back
  <1>3. /\ Logging!Start => LogProofs!Start
        /\ Logging!StopRunning => LogProofs!StopRunning
        /\ Logging!StopNotify => LogProofs!StopNotify
        /\ Logging!StopJoin => LogProofs!StopJoin
    BY ZenonT(30) DEF Logging!Start, Logging!StopRunning, Logging!StopNotify, Logging!StopJoin,
      Logging!Notify, Logging!front, Logging!back, LogProofs!Start, LogProofs!StopRunning,
      LogProofs!StopNotify, LogProofs!StopJoin, LogProofs!Notify, LogProofs!front, LogProofs!back
  <1>4. /\ Logging!TestRunning => LogProofs!TestRunning
        /\ Logging!Wait => LogProofs!Wait
        /\ Logging!WaitTimeout => LogProofs!WaitTimeout
    BY ZenonT(30) DEF Logging!TestRunning, Logging!Wait, Logging!WaitTimeout, Logging!front, Logging!back,
      LogProofs!TestRunning, LogProofs!Wait, LogProofs!WaitTimeout, LogProofs!front, LogProofs!back
  <1>5. Logging!Swap => LogProofs!Swap
    BY ZenonT(30) DEF Logging!Swap, Logging!SwapBuffers, Logging!Null, LogProofs!Swap,
      LogProofs!SwapBuffers, LogProofs!Null
  <1>6. Logging!Write => LogProofs!Write
    BY ZenonT(30) DEF Logging!Write, Logging!Written, Logging!LinesOf, Logging!Range, Logging!Notice,
      Logging!front, LogProofs!Write, LogProofs!Written, LogProofs!LinesOf, LogProofs!Range,
      LogProofs!Notice, LogProofs!front
  <1>7. Logging!Recycle => LogProofs!Recycle
    BY ZenonT(30) DEF Logging!Recycle, Logging!Null, Logging!front, LogProofs!Recycle, LogProofs!Null,
      LogProofs!front
  <1>8. UNCHANGED loggingVars => UNCHANGED LogProofs!vars
    BY DEF loggingVars, LogProofs!vars
  <1>9. Logging!Next => LogProofs!Next
    BY <1>2, <1>3, <1>4, <1>5, <1>6, <1>7, ZenonT(30) DEF Logging!Next, Logging!LoggingStep,
      LogProofs!Next, LogProofs!LoggingStep
  <1> QED
    BY <1>1, <1>8, <1>9, ZenonT(30)

\* So are those of the file.
LEMMA SameFile ==
  /\ Logging!FileInit => LogProofs!FileInit
  /\ [Logging!FileNext]_fileVars => [LogProofs!FileNext]_(LogProofs!fileVars)
  <1>1. Logging!FileInit => LogProofs!FileInit
    BY ZenonT(30) DEF Logging!FileInit, Logging!PeriodOf, LogProofs!FileInit, LogProofs!PeriodOf
  <1>2. ASSUME NEW len, Logging!AppendToFile(len) PROVE LogProofs!AppendToFile(len)
    BY <1>2, ZenonT(30) DEF Logging!AppendToFile, Logging!TooBig, Logging!RollFile, Logging!Check,
      Logging!PeriodOf, LogProofs!AppendToFile, LogProofs!TooBig, LogProofs!RollFile,
      LogProofs!Check, LogProofs!PeriodOf
  <1>3. (Logging!Flush => LogProofs!Flush) /\ (Logging!Tick => LogProofs!Tick)
    BY ZenonT(30) DEF Logging!Flush, Logging!Tick, LogProofs!Flush, LogProofs!Tick
  <1>4. UNCHANGED fileVars => UNCHANGED LogProofs!fileVars
    BY DEF fileVars, LogProofs!fileVars
  <1>5. Logging!FileNext => LogProofs!FileNext
    BY <1>2, <1>3, ZenonT(30) DEF Logging!FileNext, LogProofs!FileNext
  <1> QED
    BY <1>1, <1>4, <1>5, ZenonT(30)

\* And what is asked of them is the same.
LEMMA SamePromises ==
  /\ LogProofs!LoggingInv => Logging!TypeOK /\ Logging!BuffersReady /\ Logging!LinesInOrder
  /\ LogProofs!FileInv => Logging!FileTypeOK /\ Logging!FileBounded /\ Logging!PeriodsSeparated
                          /\ Logging!FlushedInTime
  <1>1. LogProofs!TypeOK => Logging!TypeOK
    BY ZenonT(30) DEF LogProofs!TypeOK, LogProofs!Buffer, Logging!TypeOK, Logging!Buffer
  <1>2. LogProofs!BuffersReady => Logging!BuffersReady
    BY ZenonT(30) DEF LogProofs!BuffersReady, LogProofs!Null, Logging!BuffersReady, Logging!Null
  <1>3. LogProofs!LinesInOrder => Logging!LinesInOrder
    BY ZenonT(30) DEF LogProofs!LinesInOrder, LogProofs!Logged, LogProofs!Increasing, LogProofs!LinesOf,
      LogProofs!Range, LogProofs!Notice, Logging!LinesInOrder, Logging!Logged, Logging!Increasing,
      Logging!LinesOf, Logging!Range, Logging!Notice
  <1>4. /\ LogProofs!FileTypeOK => Logging!FileTypeOK
        /\ LogProofs!FileBounded => Logging!FileBounded
        /\ LogProofs!FlushedInTime => Logging!FlushedInTime
    BY ZenonT(30) DEF LogProofs!FileTypeOK, LogProofs!PeriodOf, LogProofs!FileBounded,
      LogProofs!FlushedInTime, Logging!FileTypeOK, Logging!PeriodOf, Logging!FileBounded,
      Logging!FlushedInTime
  <1>5. LogProofs!PeriodsSeparated => Logging!PeriodsSeparated
    BY ZenonT(30) DEF LogProofs!PeriodsSeparated, LogProofs!PeriodOf, LogProofs!Cardinality,
      LogProofs!IsFiniteSet, Logging!PeriodsSeparated, Logging!PeriodOf, Logging!Cardinality,
      Logging!IsFiniteSet
  <1>6. LogProofs!LoggingInv => LogProofs!TypeOK /\ LogProofs!BuffersReady /\ LogProofs!LinesInOrder
    BY LogProofs!LoggingMeans, ZenonT(30)
  <1>7. LogProofs!FileInv => /\ LogProofs!FileTypeOK /\ LogProofs!FileBounded
                            /\ LogProofs!PeriodsSeparated /\ LogProofs!FlushedInTime
    BY SizesAssumed, LogProofs!FileMeans, ZenonT(30)
  <1> QED
    BY <1>1, <1>2, <1>3, <1>4, <1>5, <1>6, <1>7, ZenonT(30)

-----------------------------------------------------------------------------
(* The parts together.                                                     *)

\* The variables of the two queues are of the one that was picked.
QueuesInv ==
  /\ part = "unbounded" => QueueInv(0)
  /\ part # "unbounded" => QueueInv(QueueSize)

BaseInv == ThreadInv /\ PoolInv /\ QueuesInv /\ LogProofs!LoggingInv /\ LogProofs!FileInv

LEMMA BaseInit == Init => BaseInv
  <1> SUFFICES ASSUME Init PROVE BaseInv
    OBVIOUS
  <1>1. /\ Pool!ThreadInit /\ Pool!Init /\ Queue(QueueSize)!Init /\ Logging!Init /\ Logging!FileInit
    BY DEF Init
  <1>2. QueueInv(0) /\ QueueInv(QueueSize)
    BY <1>1, QueueInit, QueueAssumption
  <1>3. LogProofs!LoggingInv /\ LogProofs!FileInv
    BY <1>1, SizesAssumed, SameLogging, SameFile, LogProofs!LoggingInit, LogProofs!FileStart, ZenonT(30)
  <1> QED
    BY <1>1, <1>2, <1>3, ThreadInit, PoolInit DEF BaseInv, QueuesInv

\* Every step is one of the part that was picked.
LEMMA BaseSteps == ASSUME BaseInv, [Next]_vars PROVE BaseInv'
  <1>1. /\ part' = part
        /\ [part = "thread" /\ Pool!ThreadNext]_threadVars
        /\ [part = "pool" /\ Pool!Next]_poolVars
        /\ [(part = "bounded" /\ Queue(QueueSize)!Next) \/ (part = "unbounded" /\ Queue(0)!Next)]_queueVars
        /\ [part = "logging" /\ Logging!Next]_loggingVars
        /\ [part = "file" /\ Logging!FileNext]_fileVars
    BY ZenonT(60) DEF Next, vars, ThreadNext, PoolNext, BoundedNext, UnboundedNext, LoggingNext, FileNext
  <1>2. ThreadInv'
    BY <1>1, ThreadSteps, ZenonT(30) DEF BaseInv
  <1>3. PoolInv'
    BY <1>1, PoolSteps, ZenonT(30) DEF BaseInv
  <1>4. LogProofs!LoggingInv'
    BY <1>1, SizesAssumed, SameLogging, LogProofs!LoggingSteps, ZenonT(30) DEF BaseInv
  <1>5. LogProofs!FileInv'
    BY <1>1, SizesAssumed, SameFile, LogProofs!FileSteps, ZenonT(30) DEF BaseInv
  <1>6. QueuesInv'
    <2>1. 0 \in Nat /\ QueueSize \in Nat /\ "bounded" # "unbounded"
      BY QueueAssumption
    <2>2. CASE part = "unbounded"
      <3>1. QueueInv(0) /\ [Queue(0)!Next]_queueVars
        BY <1>1, <2>1, <2>2, ZenonT(30) DEF BaseInv, QueuesInv
      <3>2. QueueInv(0)'
        BY <2>1, <3>1, QueueSteps, ZenonT(30)
      <3> QED
        BY <1>1, <2>2, <3>2, ZenonT(30) DEF QueuesInv
    <2>3. CASE part # "unbounded"
      <3>1. QueueInv(QueueSize) /\ [Queue(QueueSize)!Next]_queueVars
        BY <1>1, <2>1, <2>3, ZenonT(30) DEF BaseInv, QueuesInv
      <3>2. QueueInv(QueueSize)'
        BY <2>1, <3>1, QueueSteps, ZenonT(30)
      <3> QED
        BY <1>1, <2>3, <3>2, ZenonT(30) DEF QueuesInv
    <2> QED
      BY <2>2, <2>3
  <1> QED
    BY <1>2, <1>3, <1>4, <1>5, <1>6 DEF BaseInv

\* The invariant of all the parts holds in every state.
THEOREM BaseCorrect == Spec => []BaseInv
  <1>1. BaseInv /\ [Next]_vars => BaseInv'
    BY BaseSteps
  <1> QED
    BY <1>1, BaseInit, PTL DEF Spec

\* What the invariant says of the queue that was picked.
LEMMA QueuesMean ==
  ASSUME QueuesInv
  PROVE  /\ IF part = "unbounded" THEN Queue(0)!TypeOK ELSE Queue(QueueSize)!TypeOK
         /\ Queue(QueueSize)!FirstInFirstOut /\ Queue(QueueSize)!ConsumersNotified
         /\ part = "bounded" => Queue(QueueSize)!ProducersNotified
  <1>1. 0 \in Nat /\ QueueSize \in Nat /\ "bounded" # "unbounded"
    BY QueueAssumption
  <1>2. CASE part = "unbounded"
    <2>1. Queue(0)!TypeOK /\ Queue(0)!FirstInFirstOut /\ Queue(0)!ConsumersNotified
      BY <1>1, <1>2, QueueMeans, ZenonT(30) DEF QueuesInv
    <2>2. Queue(QueueSize)!FirstInFirstOut
      BY <2>1 DEF Queue!FirstInFirstOut
    <2>3. Queue(QueueSize)!ConsumersNotified
      BY <2>1, SameInQueues, ZenonT(30) DEF Queue!ConsumersNotified
    <2> QED
      BY <1>1, <1>2, <2>1, <2>2, <2>3, ZenonT(30)
  <1>3. CASE part # "unbounded"
    <2>1. /\ Queue(QueueSize)!TypeOK /\ Queue(QueueSize)!FirstInFirstOut
          /\ Queue(QueueSize)!ConsumersNotified /\ Queue(QueueSize)!ProducersNotified
      BY <1>1, <1>3, QueueMeans, ZenonT(30) DEF QueuesInv
    <2> QED
      BY <1>3, <2>1, ZenonT(30)
  <1> QED
    BY <1>2, <1>3

\* The capacities of the queues and of the log buffers are kept: run() and put() do
\* not overfill a queue, whoever is woken when, and append() leaves room for a line.
THEOREM TypesKept == Spec => []TypeOK
  <1>1. BaseInv => TypeOK
    BY QueuesMean, SamePromises, ZenonT(30) DEF BaseInv, ThreadInv, PoolInv, TypeOK
  <1> QED
    BY <1>1, BaseCorrect, PTL

\* Thread::start() returns with the tid stored, and the new thread is through with
\* the Thread object before it can be destroyed; the assertions of threadFunc() hold.
THEOREM HandoversCorrect == Spec => []HandedOver
  <1>1. BaseInv => HandedOver
    BY ThreadMeans, SamePromises, ZenonT(30) DEF BaseInv, HandedOver
  <1> QED
    BY <1>1, BaseCorrect, PTL

\* One notify() for each task, value or free place is enough, with wakeups that are
\* late or spurious, and threads that take what another was woken for.
THEOREM NoNotifyLost == Spec => []NoLostNotify
  <1>1. BaseInv => NoLostNotify
    BY QueuesMean, ZenonT(30) DEF BaseInv, PoolInv, NoLostNotify
  <1> QED
    BY <1>1, BaseCorrect, PTL

\* Tasks and values are taken in the order they were queued in, each once, and log
\* lines reach the file in the order of append(), but for those that a notice in the
\* file tells of.
THEOREM OrderKept == Spec => []InOrder
  <1>1. BaseInv => InOrder
    BY QueuesMean, SamePromises, ZenonT(30) DEF BaseInv, PoolInv, InOrder
  <1> QED
    BY <1>1, BaseCorrect, PTL

\* append_unlocked() keeps files to their size and period and flushes them in time,
\* though it looks at the clock for every checkEveryN_-th line only.
THEOREM RollingCorrect == Spec => []FilesRolled
  <1>1. BaseInv => FilesRolled
    BY SamePromises, ZenonT(30) DEF BaseInv, FilesRolled
  <1> QED
    BY <1>1, BaseCorrect, PTL
===============================================================================
