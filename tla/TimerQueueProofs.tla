--------------------------- MODULE TimerQueueProofs ---------------------------
(***************************************************************************)
(* TimerQueue for any heap, any intervals, any timers and any setting of    *)
(* the clock.  The two lists hold the same timers; no timer is lost; a      *)
(* cancelled timer leaves the queue; and the timerfd is armed in time.      *)
(*                                                                         *)
(* The argument: every Timer on the heap has one owner (timers_, the batch  *)
(* of handleRead(), or the functor of an addTimer() that has not run), and  *)
(* an entry of a list is determined by the address in it.  What history     *)
(* says of a timer then moves with it from owner to owner.                  *)
(***************************************************************************)
EXTENDS TimerQueue, WellFoundedInduction, TLAPS

\* The provers of a step that names none, with their time limits.
USE SMTT(30), ZenonT(30)

Listed == timers_ \cup expired

\* Every entry stands for the Timer at its address; the lists hold the same timers;
\* between two calls of handleRead() there is no batch.
Placed ==
  /\ \A e \in Listed : heap[e[2]].sequence > 0 /\ heap[e[2]].expiration = e[1]
  /\ activeTimers_ = {Id(e) : e \in timers_}
  /\ timers_ \cap expired = {}
  /\ ~ callingExpiredTimers_ => expired = {}

\* A functor of addTimer() owns its Timer.
Adds == {i \in DOMAIN pending : pending[i].op = "add"}
Queued ==
  \A i \in Adds :
    LET id == pending[i].id IN
    /\ heap[id[1]].sequence = id[2] /\ id[2] > 0
    /\ \A e \in Listed : e[2] # id[1]
    /\ ~ WasInserted(id)
    /\ \A j \in Adds : pending[j].id[1] = id[1] => i = j

\* Sequence numbers are given out once, and history knows what is in the lists.
Numbered ==
  /\ \A a \in Addrs : heap[a].sequence <= created
  /\ \A t \in inserted : /\ 0 < t[2] /\ t[2] <= created
                         /\ heap[t[1]].sequence = t[2] => heap[t[1]].interval = t[3]
  /\ \A e \in Listed : WasInserted(Id(e))
  /\ \A id \in called : WasInserted(id)

\* Calls and cancellations of the timers in the lists and in the batch.
Traced ==
  /\ NoTimerLost
  /\ \A e \in expired : e \in todo \/ Id(e) \in called
  /\ \A e \in timers_ \cup todo : heap[e[2]].interval = 0 => Id(e) \notin called
  /\ \A id \in cancelingTimers_ : \E c \in cancelled : <<c[1], c[2]>> = id
  /\ \A c \in cancelled : c[3] =>
       LET id == <<c[1], c[2]>> IN
       /\ WasInserted(id) /\ id \notin activeTimers_
       /\ \A e \in expired : Id(e) = id => id \in cancelingTimers_

TimerInv == TypeOK /\ Placed /\ Queued /\ Numbered /\ Traced

-----------------------------------------------------------------------------
(* Type correctness.                                                       *)

\* The earliest entry of a list that is not empty.
LEMMA EarliestIs ==
  ASSUME NEW E \in SUBSET Entry, E # {}
  PROVE  /\ Earliest(E) \in Nat
         /\ \E e \in E : e[1] = Earliest(E)
         /\ \A e \in E : Earliest(E) <= e[1]
  <1> DEFINE T == {e[1] : e \in E}
             Less == OpToRel(<, Nat)
  <1>1. T # {} /\ T \subseteq Nat
    BY DEF Entry
  <1>2. PICK w \in T : \A v \in T : ~ (<<v, w>> \in Less)
    BY <1>1, NatLessThanWellFounded, WFMin, ZenonT(30)
  <1>3. \A v \in T : ~ (v < w) /\ v \in Nat /\ w \in Nat
    BY <1>1, <1>2, ZenonT(30) DEF OpToRel
  <1>4. \A e \in E : w <= e[1]
    BY <1>3
  <1>5. Earliest(E) \in T /\ \A e \in E : Earliest(E) <= e[1]
    BY <1>4 DEF Earliest
  <1> QED
    BY <1>1, <1>5

\* howMuchTimeFromNow() is at least one tick.
LEMMA DelayType ==
  ASSUME NEW when \in Nat, now \in Nat
  PROVE  Delay(when) \in Nat /\ Delay(when) > 0
  BY DEF Delay

\* addTimerInLoop() keeps the lists typed.
LEMMA InLoopTypes ==
  ASSUME TypeOK, NEW a \in Addrs, NEW seq \in Nat, NEW when \in Nat, NEW interval \in Nat,
         AddTimerInLoop(a, seq, when, interval)
  PROVE  /\ timers_' \subseteq Entry /\ activeTimers_' \subseteq ActiveTimer
         /\ inserted' \subseteq Addrs \X Nat \X Nat
         /\ armed' \in Nat /\ readable' \in BOOLEAN
  <1>1. /\ timers_' \subseteq Entry /\ activeTimers_' \subseteq ActiveTimer
        /\ inserted' \subseteq Addrs \X Nat \X Nat
    BY DEF TypeOK, AddTimerInLoop, Entry, ActiveTimer
  <1>2. armed' \in Nat /\ readable' \in BOOLEAN
    BY DelayType, ZenonT(30) DEF TypeOK, AddTimerInLoop, ResetTimerfd
  <1> QED
    BY <1>1, <1>2

\* cancelInLoop() keeps the lists typed, and leaves the timerfd alone.
LEMMA CancelTypes ==
  ASSUME TypeOK, NEW id \in ActiveTimer, CancelInLoop(id)
  PROVE  /\ timers_' \subseteq Entry /\ activeTimers_' \subseteq ActiveTimer
         /\ cancelingTimers_' \subseteq ActiveTimer /\ heap' \in [Addrs -> Timer]
         /\ cancelled' \subseteq Addrs \X Nat \X BOOLEAN
         /\ armed' = armed /\ readable' = readable
  <1>1. id[1] \in Addrs /\ id[2] \in Nat /\ WasInserted(id) \in BOOLEAN
    BY DEF ActiveTimer, WasInserted
  <1>2. cancelled' \subseteq Addrs \X Nat \X BOOLEAN
    <2>1. <<id[1], id[2], WasInserted(id)>> \in Addrs \X Nat \X BOOLEAN
      BY <1>1
    <2> QED
      BY <2>1 DEF TypeOK, CancelInLoop
  <1>3. Free \in Timer
    BY DEF Free, Timer
  <1>4. heap' \in [Addrs -> Timer]
    BY <1>1, <1>3 DEF TypeOK, CancelInLoop
  <1>5. /\ timers_' \subseteq Entry /\ activeTimers_' \subseteq ActiveTimer
        /\ cancelingTimers_' \subseteq ActiveTimer
    BY DEF TypeOK, CancelInLoop, Cancelling, FindActive
  <1> QED
    BY <1>2, <1>4, <1>5 DEF CancelInLoop

\* A new Timer takes a free address and the next sequence number.
LEMMA NewTimerTypes ==
  ASSUME TypeOK, NEW a \in Addrs, NEW when \in Nat, NEW interval \in Nat,
         NewTimer(a, when, interval)
  PROVE  /\ heap' \in [Addrs -> Timer] /\ created' \in Nat /\ created' = created + 1
         /\ <<a, created + 1>> \in ActiveTimer
         /\ heap[a].sequence = 0
         /\ heap'[a] = [sequence |-> created + 1, expiration |-> when, interval |-> interval]
         /\ \A b \in Addrs \ {a} : heap'[b] = heap[b]
  <1>1. [sequence |-> created + 1, expiration |-> when, interval |-> interval] \in Timer
    BY DEF TypeOK, Timer
  <1> QED
    BY <1>1 DEF TypeOK, NewTimer, ActiveTimer

\* reset(): what it makes of the heap and of the lists.
LEMMA ResetTypes ==
  ASSUME TypeOK, Reset
  PROVE  /\ heap' \in [Addrs -> Timer] /\ timers_' \subseteq Entry
         /\ activeTimers_' \subseteq ActiveTimer /\ armed' \in Nat /\ readable' \in BOOLEAN
  <1> DEFINE again == {e[2] : e \in Restarted}
  <1>1. again \subseteq Addrs
    BY ZenonT(30) DEF TypeOK, Restarted, Entry
  <1>2. Free \in Timer
    BY DEF Free, Timer
  <1>3. heap' \in [Addrs -> Timer]
    <2>1. \A a \in Addrs : [heap[a] EXCEPT !.expiration = at + heap[a].interval] \in Timer
      <3> SUFFICES ASSUME NEW a \in Addrs
                   PROVE  [heap[a] EXCEPT !.expiration = at + heap[a].interval] \in Timer
        BY ZenonT(30)
      <3>1. heap[a] \in [sequence : Nat, expiration : Nat, interval : Nat] /\ at \in Nat
        BY DEF TypeOK, Timer
      <3>2. at + heap[a].interval \in Nat
        BY <3>1
      <3> QED
        BY <3>1, <3>2 DEF Timer
    <2> QED
      BY <1>2, <2>1 DEF TypeOK, Reset
  <1>4. timers_' \subseteq Entry
    <2>1. \A a \in again : <<at + heap[a].interval, a>> \in Entry
      BY <1>1 DEF TypeOK, Timer, Entry
    <2> QED
      BY <2>1 DEF TypeOK, Reset
  <1>5. activeTimers_' \subseteq ActiveTimer
    <2>1. \A a \in again : <<a, heap[a].sequence>> \in ActiveTimer
      BY <1>1 DEF TypeOK, Timer, ActiveTimer
    <2> QED
      BY <2>1 DEF TypeOK, Reset
  <1>6. armed' \in Nat /\ readable' \in BOOLEAN
    <2>1. Rearm
      BY DEF Reset
    <2>2. CASE timers_' # {}
      <3>1. Earliest(timers_') \in Nat
        BY <1>4, <2>2, EarliestIs
      <3> QED
        BY <2>1, <2>2, <3>1, DelayType, ZenonT(30) DEF Rearm, ResetTimerfd, TypeOK
    <2>3. CASE timers_' = {}
      BY <2>1, <2>3 DEF Rearm, TypeOK
    <2> QED
      BY <2>2, <2>3
  <1> QED
    BY <1>3, <1>4, <1>5, <1>6

\* doPendingFunctors(): the functor that is called, and the ones that stay.
LEMMA FirstFunctor ==
  ASSUME pending \in Seq(Functor), pending # <<>>
  PROVE  /\ Head(pending) \in Functor /\ Head(pending).id \in ActiveTimer
         /\ Head(pending).id[1] \in Addrs /\ Head(pending).id[2] \in Nat
         /\ Tail(pending) \in Seq(Functor)
         /\ DOMAIN Tail(pending) = 1 .. Len(pending) - 1
         /\ \A i \in 1 .. Len(pending) - 1 : Tail(pending)[i] = pending[i + 1] /\ i + 1 \in DOMAIN pending
         /\ 1 \in DOMAIN pending /\ Head(pending) = pending[1]
  <1>1. Head(pending) \in Functor /\ Tail(pending) \in Seq(Functor) /\ Head(pending) = pending[1]
    OBVIOUS
  <1>2. Head(pending).id \in ActiveTimer
    BY <1>1 DEF Functor
  <1>3. Head(pending).id[1] \in Addrs /\ Head(pending).id[2] \in Nat
    BY <1>2 DEF ActiveTimer
  <1>4. Len(pending) \in Nat /\ Len(pending) > 0 /\ DOMAIN pending = 1 .. Len(pending)
        /\ Len(Tail(pending)) = Len(pending) - 1
    OBVIOUS
  <1>5. \A i \in 1 .. Len(pending) - 1 : Tail(pending)[i] = pending[i + 1] /\ i + 1 \in DOMAIN pending
    BY <1>4
  <1> QED
    BY <1>1, <1>2, <1>3, <1>4, <1>5

\* Every step keeps the types.
LEMMA NextTypes == ASSUME TypeOK, [Next]_vars PROVE TypeOK'
  <1> USE TimerQueueAssumption
  <1> USE DEF wall, clock, lists, batch, remote, history
  <1>1. ASSUME NEW a \in Addrs, NEW when \in 1 .. MaxTime, NEW interval \in Intervals,
               AddTimer(a, when, interval)
        PROVE  TypeOK'
    <2>1. when \in Nat /\ interval \in Nat /\ created + 1 \in Nat
      BY DEF TypeOK
    <2>2. /\ heap' \in [Addrs -> Timer] /\ created' \in Nat /\ <<a, created + 1>> \in ActiveTimer
      BY <1>1, <2>1, NewTimerTypes, ZenonT(30) DEF AddTimer
    <2>3. /\ timers_' \subseteq Entry /\ activeTimers_' \subseteq ActiveTimer
          /\ inserted' \subseteq Addrs \X Nat \X Nat /\ armed' \in Nat /\ readable' \in BOOLEAN
      BY <1>1, <2>1, InLoopTypes DEF AddTimer
    <2> QED
      BY <1>1, <2>2, <2>3 DEF AddTimer, TypeOK
  <1>2. ASSUME NEW a \in Addrs, NEW when \in 1 .. MaxTime, NEW interval \in Intervals,
               RemoteAdd(a, when, interval)
        PROVE  TypeOK'
    <2>1. when \in Nat /\ interval \in Nat
      OBVIOUS
    <2>2. /\ heap' \in [Addrs -> Timer] /\ created' \in Nat /\ <<a, created + 1>> \in ActiveTimer
      BY <1>2, <2>1, NewTimerTypes, ZenonT(30) DEF RemoteAdd
    <2>3. pending' \in Seq(Functor)
      <3>1. [op |-> "add", id |-> <<a, created + 1>>] \in Functor
        BY <2>2 DEF Functor
      <3> QED
        BY <1>2, <3>1 DEF RemoteAdd, TypeOK
    <2> QED
      BY <1>2, <2>2, <2>3 DEF RemoteAdd, TypeOK
  <1>3. ASSUME NEW id \in ids, Cancel(id) PROVE TypeOK'
    <2>1. id \in ActiveTimer
      BY DEF TypeOK
    <2> QED
      BY <1>3, <2>1, CancelTypes DEF Cancel, TypeOK
  <1>4. ASSUME NEW id \in ids, RemoteCancel(id) PROVE TypeOK'
    <2>1. [op |-> "cancel", id |-> id] \in Functor
      BY DEF TypeOK, Functor
    <2>2. pending' \in Seq(Functor)
      BY <1>4, <2>1 DEF RemoteCancel, TypeOK
    <2> QED
      BY <1>4, <2>2 DEF RemoteCancel, TypeOK
  <1>5. ASSUME RunAdd PROVE TypeOK'
    <2> DEFINE id == Head(pending).id
    <2>1. id[1] \in Addrs /\ id[2] \in Nat /\ pending' \in Seq(Functor)
      BY <1>5, FirstFunctor DEF RunAdd, TypeOK
    <2>2. heap[id[1]].expiration \in Nat /\ heap[id[1]].interval \in Nat
      BY <2>1, ZenonT(30) DEF TypeOK, Timer
    <2>3. AddTimerInLoop(id[1], id[2], heap[id[1]].expiration, heap[id[1]].interval)
      BY <1>5 DEF RunAdd
    <2> HIDE DEF id
    <2>4. /\ timers_' \subseteq Entry /\ activeTimers_' \subseteq ActiveTimer
          /\ inserted' \subseteq Addrs \X Nat \X Nat /\ armed' \in Nat /\ readable' \in BOOLEAN
      BY <2>1, <2>2, <2>3, InLoopTypes, ZenonT(30)
    <2> QED
      BY <1>5, <2>1, <2>4 DEF RunAdd, TypeOK
  <1>6. ASSUME RunCancel PROVE TypeOK'
    <2>1. Head(pending).id \in ActiveTimer /\ pending' \in Seq(Functor)
      BY <1>6, FirstFunctor DEF RunCancel, TypeOK
    <2> QED
      BY <1>6, <2>1, CancelTypes DEF RunCancel, TypeOK
  <1>7. CASE PollTimerfd
    BY <1>7 DEF PollTimerfd, TypeOK
  <1>8. CASE HandleRead
    BY <1>8, ZenonT(30) DEF HandleRead, TypeOK, Expired, ActiveAfter
  <1>9. CASE Reset
    BY <1>9, ResetTypes, ZenonT(30) DEF Reset, TypeOK
  <1>10. ASSUME NEW e \in todo, RunTimer(e) PROVE TypeOK'
    <2>1. <<e[2], heap[e[2]].sequence>> \in ActiveTimer
      BY ZenonT(30) DEF TypeOK, Entry, Timer, ActiveTimer
    <2> QED
      BY <1>10, <2>1 DEF RunTimer, TypeOK
  <1>11. CASE RemoteReturn
    <2>1. adding[1] \in Addrs /\ adding[2] \in Nat /\ heap[adding[1]].sequence \in Nat
      BY <1>11, ZenonT(30) DEF RemoteReturn, TypeOK, ActiveTimer, Timer
    <2>2. ids' \subseteq ActiveTimer
      BY <1>11, <2>1 DEF RemoteReturn, TypeOK, ActiveTimer
    <2> QED
      BY <1>11, <2>2 DEF RemoteReturn, TypeOK
  <1>12. CASE Tick
    <2>1. now' \in Nat /\ armed' \in Nat /\ readable' \in BOOLEAN
      BY <1>12 DEF Tick, TypeOK
    <2> QED
      BY <1>12, <2>1 DEF Tick, TypeOK
  <1>13. ASSUME NEW jump \in Jumps, SetClock(jump) PROVE TypeOK'
    <2>1. now' \in Nat
      BY <1>13 DEF SetClock
    <2> QED
      BY <1>13, <2>1, ZenonT(30) DEF SetClock, TypeOK
  <1>14. CASE UNCHANGED vars
    BY <1>14 DEF vars, TypeOK
  <1> QED
    BY <1>1, <1>2, <1>3, <1>4, <1>5, <1>6, <1>7, <1>8, <1>9, <1>10, <1>11, <1>12, <1>13, <1>14
       DEF Next

-----------------------------------------------------------------------------
(* The steps on the lists.                                                 *)

\* Types of what the lists and histories are made of.
LEMMA MemberTypes ==
  ASSUME TypeOK
  PROVE  /\ \A e \in Listed : e = <<e[1], e[2]>> /\ e[1] \in Nat /\ e[2] \in Addrs
         /\ todo \subseteq expired
         /\ \A t \in inserted : t[1] \in Addrs /\ t[2] \in Nat /\ t[3] \in Nat
         /\ \A c \in cancelled : c[1] \in Addrs /\ c[2] \in Nat /\ c[3] \in BOOLEAN
         /\ \A a \in Addrs : heap[a].sequence \in Nat /\ heap[a].expiration \in Nat /\ heap[a].interval \in Nat
  BY DEF TypeOK, Listed, Entry, Timer

\* An entry is determined by the address in it.
LEMMA SameAddress ==
  ASSUME TypeOK, Placed, NEW e \in Listed, NEW f \in Listed, e[2] = f[2]
  PROVE  e = f
  BY MemberTypes DEF Placed

\* addTimerInLoop(), of a Timer that is new or that a functor hands over.
LEMMA AddKeeps ==
  ASSUME TypeOK, Placed, Numbered, Traced,
         NEW a \in Addrs, NEW seq \in Nat, NEW when \in Nat, NEW interval \in Nat,
         AddTimerInLoop(a, seq, when, interval),
         heap'[a].sequence = seq, heap'[a].expiration = when, heap'[a].interval = interval,
         seq > 0, ~ WasInserted(<<a, seq>>),
         \A b \in Addrs \ {a} : heap'[b] = heap[b],
         \A e \in Listed : e[2] # a,
         created \in Nat, created' \in Nat, created <= created', seq <= created',
         UNCHANGED <<cancelingTimers_, callingExpiredTimers_, expired, todo, cancelled, called>>
  PROVE  Placed' /\ Numbered' /\ Traced'
  <1> DEFINE new == <<when, a>>
  <1>1. /\ timers_' = timers_ \cup {new} /\ activeTimers_' = activeTimers_ \cup {<<a, seq>>}
        /\ inserted' = inserted \cup {<<a, seq, interval>>}
        /\ Listed' = Listed \cup {new}
    BY DEF AddTimerInLoop, Listed
  <1>2. new \notin Listed /\ new[2] = a /\ new[1] = when
    OBVIOUS
  <1>3. \A e \in Listed : e[2] \in Addrs /\ heap'[e[2]] = heap[e[2]] /\ Id(e)' = Id(e)
    BY MemberTypes DEF Id
  <1>4. Id(new)' = <<a, seq>>
    BY DEF Id
  <1>5. \A x : WasInserted(x) => WasInserted(x)'
    BY <1>1 DEF WasInserted
  <1> HIDE DEF new
  <1>7. Placed'
    <2>1. \A e \in Listed' : heap'[e[2]].sequence > 0 /\ heap'[e[2]].expiration = e[1]
      BY <1>1, <1>2, <1>3 DEF Placed
    <2>2. activeTimers_' = {Id(e)' : e \in timers_'}
      BY <1>1, <1>3, <1>4 DEF Placed, Listed
    <2>3. timers_' \cap expired' = {}
      BY <1>1, <1>2 DEF Placed, Listed
    <2> QED
      BY <2>1, <2>2, <2>3 DEF Placed
  <1>8. Numbered'
    <2>1. \A b \in Addrs : heap'[b].sequence <= created'
      BY MemberTypes DEF Numbered
    <2>2. \A t \in inserted' : /\ 0 < t[2] /\ t[2] <= created'
                               /\ heap'[t[1]].sequence = t[2] => heap'[t[1]].interval = t[3]
      <3> SUFFICES ASSUME NEW t \in inserted'
                   PROVE  /\ 0 < t[2] /\ t[2] <= created'
                          /\ heap'[t[1]].sequence = t[2] => heap'[t[1]].interval = t[3]
        OBVIOUS
      <3>1. CASE t = <<a, seq, interval>>
        BY <3>1
      <3>2. CASE t \in inserted
        <4>1. t[1] \in Addrs /\ t[2] \in Nat /\ 0 < t[2] /\ t[2] <= created
          BY <3>2, MemberTypes DEF Numbered
        <4>2. CASE t[1] = a
          BY <3>2, <4>1, <4>2 DEF WasInserted
        <4>3. CASE t[1] # a
          BY <3>2, <4>1, <4>3 DEF Numbered
        <4> QED
          BY <4>2, <4>3
      <3> QED
        BY <3>1, <3>2, <1>1
    <2>3. \A e \in Listed' : WasInserted(Id(e))'
      <3> SUFFICES ASSUME NEW e \in Listed'
                   PROVE  \E t \in inserted' : t[1] = Id(e)'[1] /\ t[2] = Id(e)'[2]
        BY DEF WasInserted
      <3>1. CASE e = new
        <4>1. <<a, seq, interval>> \in inserted' /\ Id(e)' = <<a, seq>>
          BY <3>1, <1>1, <1>4
        <4>2. Id(e)'[1] = a /\ Id(e)'[2] = seq
          BY <4>1
        <4> USE <4>1
        <4> WITNESS <<a, seq, interval>> \in inserted'
        <4> QED
          BY <4>2
      <3>2. CASE e \in Listed
        BY <3>2, <1>1, <1>3 DEF Numbered, WasInserted
      <3> QED
        BY <3>1, <3>2, <1>1
    <2>4. \A id \in called' : WasInserted(id)'
      BY <1>5 DEF Numbered
    <2> QED
      BY <2>1, <2>2, <2>3, <2>4 DEF Numbered
  <1>9. Traced'
    <2>1. NoTimerLost'
      <3> SUFFICES ASSUME NEW t \in inserted', NEW id, id = <<t[1], t[2]>>
                   PROVE  \/ id \in activeTimers_'
                          \/ \E e \in expired' : Id(e)' = id
                          \/ \E c \in cancelled' : <<c[1], c[2]>> = id
                          \/ t[3] = 0 /\ id \in called'
        BY DEF NoTimerLost
      <3>1. CASE t = <<a, seq, interval>>
        BY <3>1, <1>1
      <3>2. CASE t \in inserted
        BY <3>2, <1>1, <1>3 DEF Traced, NoTimerLost, Listed
      <3> QED
        BY <3>1, <3>2, <1>1
    <2>2. \A e \in expired' : e \in todo' \/ Id(e)' \in called'
      BY <1>3 DEF Traced, Listed
    <2>3. \A e \in timers_' \cup todo' : heap'[e[2]].interval = 0 => Id(e)' \notin called'
      <3> SUFFICES ASSUME NEW e \in timers_' \cup todo', heap'[e[2]].interval = 0
                   PROVE  Id(e)' \notin called'
        OBVIOUS
      <3>1. CASE e = new
        BY <3>1, <1>4 DEF Numbered
      <3>2. CASE e \in timers_ \cup todo
        <4>1. e \in Listed
          BY <3>2, MemberTypes DEF Listed
        <4> QED
          BY <3>2, <4>1, <1>3 DEF Traced
      <3> QED
        BY <3>1, <3>2, <1>1
    <2>4. \A id \in cancelingTimers_' : \E c \in cancelled' : <<c[1], c[2]>> = id
      BY DEF Traced
    <2>5. ASSUME NEW c \in cancelled', c[3], NEW id, id = <<c[1], c[2]>>
          PROVE  /\ WasInserted(id)' /\ id \notin activeTimers_'
                 /\ \A e \in expired' : Id(e)' = id => id \in cancelingTimers_'
      <3>1. /\ WasInserted(id) /\ id \notin activeTimers_
            /\ \A e \in expired : Id(e) = id => id \in cancelingTimers_
        BY <2>5 DEF Traced
      <3>2. id # <<a, seq>>
        BY <3>1
      <3> QED
        BY <3>1, <3>2, <1>1, <1>3, <1>5 DEF Listed
    <2> QED
      BY <2>1, <2>2, <2>3, <2>4, <2>5 DEF Traced
  <1> QED
    BY <1>7, <1>8, <1>9

\* cancelInLoop(): the timer leaves the lists and the heap, or is remembered.
LEMMA CancelKeeps ==
  ASSUME TypeOK, Placed, Numbered, Traced, NEW id \in ActiveTimer, CancelInLoop(id),
         UNCHANGED <<created, callingExpiredTimers_, expired, todo, inserted, called>>
  PROVE  /\ Placed' /\ Numbered' /\ Traced' /\ Listed' \subseteq Listed
         /\ \A a \in Addrs : heap'[a] = heap[a] \/ \E e \in Listed : e[2] = a
  <1> DEFINE entry == <<heap[id[1]].expiration, id[1]>>
             more == <<id[1], id[2], WasInserted(id)>>
  <1>t. id = <<id[1], id[2]>> /\ id[1] \in Addrs /\ id[2] \in Nat
    BY DEF ActiveTimer
  <1>1. cancelled' = cancelled \cup {more} /\ more[1] = id[1] /\ more[2] = id[2] /\ more[3] = WasInserted(id)
    BY DEF CancelInLoop
  <1> HIDE DEF more
  <1>2. CASE id \in activeTimers_
    <2>1. /\ timers_' = timers_ \ {entry} /\ activeTimers_' = activeTimers_ \ {id}
          /\ heap' = [heap EXCEPT ![id[1]] = Free] /\ cancelingTimers_' = cancelingTimers_
      BY <1>2 DEF CancelInLoop, FindActive
    <2>2. entry \in timers_ /\ Id(entry) = id
      <3>1. PICK e \in timers_ : Id(e) = id
        BY <1>2 DEF Placed
      <3>2. e = <<e[1], e[2]>> /\ e[2] = id[1] /\ heap[e[2]].expiration = e[1] /\ heap[e[2]].sequence = id[2]
        BY <3>1, <1>t, MemberTypes DEF Placed, Listed, Id
      <3> QED
        BY <3>1, <3>2
    <2>3. entry[2] = id[1]
      OBVIOUS
    <2> HIDE DEF entry
    <2>4. \A e \in Listed \ {entry} : e[2] # id[1] /\ e[2] \in Addrs
      BY <2>2, <2>3, SameAddress, MemberTypes DEF Listed
    <2>5. entry \notin expired
      BY <2>2 DEF Placed
    <2>6. Listed' = Listed \ {entry}
      BY <2>1, <2>5 DEF Listed
    <2>7. \A a \in Addrs : a # id[1] => heap'[a] = heap[a]
      BY <2>1 DEF TypeOK
    <2>8. \A e \in Listed' : heap'[e[2]] = heap[e[2]] /\ Id(e)' = Id(e) /\ Id(e) # id
      BY <2>4, <2>6, <2>7, <1>t DEF Id
    <2>9. Placed'
      <3>1. \A e \in Listed' : heap'[e[2]].sequence > 0 /\ heap'[e[2]].expiration = e[1]
        BY <2>6, <2>8 DEF Placed
      <3>2. activeTimers_' = {Id(e)' : e \in timers_'}
        BY <2>1, <2>2, <2>8 DEF Placed, Listed
      <3> QED
        BY <3>1, <3>2, <2>1 DEF Placed
    <2>10. Numbered'
      <3>1. \A a \in Addrs : heap'[a].sequence <= created'
        BY <2>1, <2>7 DEF Numbered, Free, TypeOK
      <3>2. \A t \in inserted' : /\ 0 < t[2] /\ t[2] <= created'
                                 /\ heap'[t[1]].sequence = t[2] => heap'[t[1]].interval = t[3]
        <4> SUFFICES ASSUME NEW t \in inserted, heap'[t[1]].sequence = t[2]
                     PROVE  heap'[t[1]].interval = t[3]
          BY DEF Numbered
        <4>1. t[1] \in Addrs
          BY MemberTypes
        <4>2. CASE t[1] # id[1]
          BY <4>1, <4>2, <2>7 DEF Numbered
        <4>3. CASE t[1] = id[1]
          <5>1. heap'[t[1]].sequence = 0
            BY <4>3, <1>t, <2>1 DEF Free, TypeOK
          <5>2. 0 < t[2]
            BY DEF Numbered
          <5> QED
            BY <5>1, <5>2
        <4> QED
          BY <4>2, <4>3
      <3>3. \A e \in Listed' : WasInserted(Id(e))'
        BY <2>6, <2>8 DEF Numbered, WasInserted
      <3>4. \A x \in called' : WasInserted(x)'
        BY DEF Numbered, WasInserted
      <3> QED
        BY <3>1, <3>2, <3>3, <3>4 DEF Numbered
    <2>11. Traced'
      <3>1. NoTimerLost'
        <4> SUFFICES ASSUME NEW t \in inserted, NEW x, x = <<t[1], t[2]>>
                     PROVE  \/ x \in activeTimers_'
                            \/ \E e \in expired : Id(e)' = x
                            \/ \E c \in cancelled' : <<c[1], c[2]>> = x
                            \/ t[3] = 0 /\ x \in called
          BY DEF NoTimerLost
        <4>1. CASE x = id
          BY <4>1, <1>1, <1>t
        <4>2. CASE x # id
          <5>1. \A e \in expired : Id(e)' = Id(e)
            BY <2>8 DEF Listed
          <5> QED
            BY <4>2, <5>1, <1>1, <2>1 DEF Traced, NoTimerLost
        <4> QED
          BY <4>1, <4>2
      <3>2. \A e \in expired' : e \in todo' \/ Id(e)' \in called'
        BY <2>8 DEF Traced, Listed
      <3>3. \A e \in timers_' \cup todo' : heap'[e[2]].interval = 0 => Id(e)' \notin called'
        <4>1. timers_' \cup todo' \subseteq Listed' /\ timers_' \cup todo' \subseteq timers_ \cup todo
          BY <2>1, MemberTypes DEF Listed
        <4> QED
          BY <4>1, <2>8 DEF Traced
      <3>4. \A x \in cancelingTimers_' : \E c \in cancelled' : <<c[1], c[2]>> = x
        BY <1>1, <2>1 DEF Traced
      <3>5. ASSUME NEW c \in cancelled', c[3], NEW x, x = <<c[1], c[2]>>
            PROVE  /\ WasInserted(x)' /\ x \notin activeTimers_'
                   /\ \A e \in expired' : Id(e)' = x => x \in cancelingTimers_'
        <4>1. CASE c = more
          <5>1. x = id /\ WasInserted(id)
            BY <3>5, <4>1, <1>1, <1>t
          <5> QED
            BY <5>1, <2>1, <2>8 DEF WasInserted, Listed
        <4>2. CASE c \in cancelled
          <5>1. /\ WasInserted(x) /\ x \notin activeTimers_
                /\ \A e \in expired : Id(e) = x => x \in cancelingTimers_
            BY <3>5, <4>2 DEF Traced
          <5> QED
            BY <5>1, <2>1, <2>8 DEF WasInserted, Listed
        <4> QED
          BY <4>1, <4>2, <3>5, <1>1
      <3> QED
        BY <3>1, <3>2, <3>3, <3>4, <3>5, ZenonT(30) DEF Traced
    <2>12. \A a \in Addrs : heap'[a] = heap[a] \/ \E e \in Listed : e[2] = a
      BY <2>2, <2>3, <2>7 DEF Listed
    <2> QED
      BY <2>6, <2>9, <2>10, <2>11, <2>12
  <1>3. CASE id \notin activeTimers_
    <2>1. cancelingTimers_' = Cancelling(id) /\ UNCHANGED <<timers_, activeTimers_, heap>>
      BY <1>3 DEF CancelInLoop, FindActive
    <2>2. Listed' = Listed /\ \A e : Id(e)' = Id(e)
      BY <2>1 DEF Listed, Id
    <2>3. Placed'
      BY <2>1, <2>2 DEF Placed
    <2>4. Numbered'
      BY <2>1, <2>2 DEF Numbered, WasInserted
    <2>5. Traced'
      <3>1. NoTimerLost'
        BY <1>1, <2>1, <2>2, ZenonT(30) DEF Traced, NoTimerLost
      <3>2. \A e \in expired' : e \in todo' \/ Id(e)' \in called'
        BY <2>2 DEF Traced
      <3>3. \A e \in timers_' \cup todo' : heap'[e[2]].interval = 0 => Id(e)' \notin called'
        BY <2>1, <2>2 DEF Traced
      <3>4. \A x \in cancelingTimers_' : \E c \in cancelled' : <<c[1], c[2]>> = x
        BY <1>1, <1>t, <2>1 DEF Traced, Cancelling
      <3>5. ASSUME NEW c \in cancelled', c[3], NEW x, x = <<c[1], c[2]>>
            PROVE  /\ WasInserted(x)' /\ x \notin activeTimers_'
                   /\ \A e \in expired' : Id(e)' = x => x \in cancelingTimers_'
        <4>1. CASE c = more
          <5>1. x = id /\ WasInserted(id)
            BY <3>5, <4>1, <1>1, <1>t
          <5>2. expired # {} => id \in cancelingTimers_'
            BY <2>1 DEF Placed, Cancelling
          <5> QED
            BY <5>1, <5>2, <1>3, <2>1 DEF WasInserted
        <4>2. CASE c \in cancelled
          <5>1. /\ WasInserted(x) /\ x \notin activeTimers_
                /\ \A e \in expired : Id(e) = x => x \in cancelingTimers_
            BY <3>5, <4>2 DEF Traced
          <5>2. cancelingTimers_ \subseteq cancelingTimers_'
            BY <2>1 DEF Cancelling
          <5> QED
            BY <5>1, <5>2, <2>1, <2>2 DEF WasInserted
        <4> QED
          BY <4>1, <4>2, <3>5, <1>1
      <3> QED
        BY <3>1, <3>2, <3>3, <3>4, <3>5 DEF Traced
    <2> QED
      BY <2>1, <2>2, <2>3, <2>4, <2>5
  <1> QED
    BY <1>2, <1>3

\* handleRead(), up to the callbacks: the expired timers move to the batch.
LEMMA HandleReadKeeps ==
  ASSUME TypeOK, Placed, Numbered, Traced, HandleRead
  PROVE  Placed' /\ Numbered' /\ Traced' /\ Listed' = Listed
  <1>1. /\ expired' = Expired(now) /\ todo' = expired' /\ timers_' = timers_ \ expired'
        /\ activeTimers_' = activeTimers_ \ {<<e[2], heap[e[2]].sequence>> : e \in expired'}
        /\ callingExpiredTimers_' = TRUE /\ cancelingTimers_' = {}
        /\ UNCHANGED <<heap, created, inserted, cancelled, called>> /\ ~ callingExpiredTimers_
    BY DEF HandleRead, ActiveAfter, history
  <1>2. expired = {} /\ expired' \subseteq timers_ /\ Listed' = Listed /\ Listed = timers_
    BY <1>1 DEF Placed, Expired, Listed
  <1>3. \A e : Id(e)' = Id(e)
    BY <1>1 DEF Id
  <1>4. \A e, f \in timers_ : Id(e) = Id(f) => e = f
    BY <1>2, SameAddress DEF Id
  <1>5. activeTimers_' = {Id(e) : e \in timers_'}
    BY <1>1, <1>2, <1>4 DEF Placed, Id
  <1>6. Placed'
    <2>1. \A e \in Listed' : heap'[e[2]].sequence > 0 /\ heap'[e[2]].expiration = e[1]
      BY <1>1, <1>2 DEF Placed
    <2>2. activeTimers_' = {Id(e)' : e \in timers_'}
      BY <1>3, <1>5
    <2> QED
      BY <2>1, <2>2, <1>1 DEF Placed
  <1>7. Numbered'
    BY <1>1, <1>2, <1>3 DEF Numbered, WasInserted
  <1>8. Traced'
    <2>1. NoTimerLost'
      <3> SUFFICES ASSUME NEW t \in inserted, NEW x, x = <<t[1], t[2]>>
                   PROVE  \/ x \in activeTimers_'
                          \/ \E e \in expired' : Id(e)' = x
                          \/ \E c \in cancelled' : <<c[1], c[2]>> = x
                          \/ t[3] = 0 /\ x \in called'
        BY <1>1 DEF NoTimerLost
      <3>1. CASE x \in activeTimers_
        <4>1. PICK e \in timers_ : Id(e) = x
          BY <3>1 DEF Placed
        <4> QED
          BY <4>1, <1>1, <1>3, <1>5
      <3>2. CASE x \notin activeTimers_
        BY <3>2, <1>1, <1>2 DEF Traced, NoTimerLost
      <3> QED
        BY <3>1, <3>2
    <2>2. \A e \in expired' : e \in todo' \/ Id(e)' \in called'
      BY <1>1
    <2>3. \A e \in timers_' \cup todo' : heap'[e[2]].interval = 0 => Id(e)' \notin called'
      <3>1. timers_' \cup todo' \subseteq timers_
        BY <1>1, <1>2
      <3> QED
        BY <3>1, <1>1, <1>3 DEF Traced
    <2>4. \A x \in cancelingTimers_' : \E c \in cancelled' : <<c[1], c[2]>> = x
      BY <1>1
    <2>5. ASSUME NEW c \in cancelled', c[3], NEW x, x = <<c[1], c[2]>>
          PROVE  /\ WasInserted(x)' /\ x \notin activeTimers_'
                 /\ \A e \in expired' : Id(e)' = x => x \in cancelingTimers_'
      <3>1. WasInserted(x) /\ x \notin activeTimers_
        BY <2>5, <1>1 DEF Traced
      <3>2. \A e \in expired' : Id(e)' # x
        BY <3>1, <1>2, <1>3 DEF Placed
      <3> QED
        BY <3>1, <3>2, <1>1 DEF WasInserted
    <2> QED
      BY <2>1, <2>2, <2>3, <2>4, <2>5, ZenonT(30) DEF Traced
  <1> QED
    BY <1>2, <1>6, <1>7, <1>8

\* The callback of a timer is called.
LEMMA RunTimerKeeps ==
  ASSUME TypeOK, Placed, Numbered, Traced, NEW f \in todo, RunTimer(f)
  PROVE  Placed' /\ Numbered' /\ Traced' /\ Listed' = Listed
  <1>1. /\ todo' = todo \ {f} /\ called' = called \cup {Id(f)}
        /\ UNCHANGED <<heap, created, timers_, activeTimers_, cancelingTimers_,
                       callingExpiredTimers_, expired, inserted, cancelled>>
    BY DEF RunTimer, Id, lists
  <1>2. Listed' = Listed /\ \A e : Id(e)' = Id(e)
    BY <1>1 DEF Listed, Id
  <1>3. f \in expired /\ f \in Listed
    BY MemberTypes DEF Listed
  <1>4. Placed'
    BY <1>1, <1>2 DEF Placed
  <1>5. Numbered'
    BY <1>1, <1>2, <1>3 DEF Numbered, WasInserted
  <1>6. \A e \in timers_ \cup todo' : e # f /\ e \in Listed
    BY <1>1, <1>3, MemberTypes DEF Placed, Listed
  <1>7. \A e \in timers_ \cup todo' : Id(e) # Id(f)
    BY <1>3, <1>6, SameAddress DEF Id
  <1>8. Traced'
    <2>1. NoTimerLost'
      BY <1>1, <1>2, ZenonT(30) DEF Traced, NoTimerLost
    <2>2. \A e \in expired' : e \in todo' \/ Id(e)' \in called'
      BY <1>1, <1>2 DEF Traced
    <2>3. \A e \in timers_' \cup todo' : heap'[e[2]].interval = 0 => Id(e)' \notin called'
      BY <1>1, <1>2, <1>7 DEF Traced
    <2>4. \A x \in cancelingTimers_' : \E c \in cancelled' : <<c[1], c[2]>> = x
      BY <1>1 DEF Traced
    <2>5. ASSUME NEW c \in cancelled', c[3], NEW x, x = <<c[1], c[2]>>
          PROVE  /\ WasInserted(x)' /\ x \notin activeTimers_'
                 /\ \A e \in expired' : Id(e)' = x => x \in cancelingTimers_'
      BY <2>5, <1>1, <1>2 DEF Traced, WasInserted
    <2> QED
      BY <2>1, <2>2, <2>3, <2>4, <2>5 DEF Traced
  <1> QED
    BY <1>2, <1>4, <1>5, <1>8

\* reset(): the periodic timers of the batch go back to the lists, the other ones
\* are deleted.
LEMMA ResetKeeps ==
  ASSUME TypeOK, Placed, Numbered, Traced, Reset
  PROVE  /\ Placed' /\ Numbered' /\ Traced'
         /\ \A e \in Listed' : \E f \in Listed : f[2] = e[2]
         /\ \A a \in Addrs : heap'[a] = heap[a] \/ \E e \in Listed : e[2] = a
  <1> DEFINE again == {e[2] : e \in Restarted}
             gone == {e[2] : e \in expired} \ again
             back == {<<at + heap[a].interval, a>> : a \in again}
  <1>1. /\ timers_' = timers_ \cup back /\ expired' = {} /\ todo = {} /\ todo' = {}
        /\ activeTimers_' = activeTimers_ \cup {<<a, heap[a].sequence>> : a \in again}
        /\ UNCHANGED <<created, cancelingTimers_, inserted, cancelled, called>>
    BY DEF Reset, history
  <1>2. \A a \in Addrs : heap'[a] = IF a \in gone THEN Free
                                    ELSE IF a \in again
                                         THEN [heap[a] EXCEPT !.expiration = at + heap[a].interval]
                                         ELSE heap[a]
    BY DEF Reset
  <1>3. again \subseteq Addrs /\ gone \subseteq Addrs /\ Restarted \subseteq expired
    BY MemberTypes, ZenonT(30) DEF Restarted, Listed
  <1>4. \A a \in again : /\ heap'[a].sequence = heap[a].sequence /\ heap'[a].interval = heap[a].interval
                         /\ heap'[a].expiration = at + heap[a].interval
    <2> TAKE a \in again
    <2>1. heap[a] \in Timer /\ a \in Addrs /\ a \notin gone
      BY <1>3 DEF TypeOK
    <2>2. heap'[a] = [heap[a] EXCEPT !.expiration = at + heap[a].interval]
      BY <1>2, <2>1
    <2> QED
      BY <2>1, <2>2 DEF Timer
  <1>5. \A a \in gone : heap'[a].sequence = 0
    <2>1. \A a \in gone : heap'[a] = Free
      BY <1>2, <1>3, ZenonT(30)
    <2> QED
      BY <2>1 DEF Free
  <1>6. \A a \in Addrs : (a \notin gone /\ a \notin again) => heap'[a] = heap[a]
    BY <1>2, ZenonT(30)
  <1>7. \A a \in again : \E e \in expired :
          /\ e[2] = a /\ heap[a].interval > 0 /\ heap[a].sequence > 0
          /\ Id(e) = <<a, heap[a].sequence>> /\ Id(e) \notin cancelingTimers_
    BY DEF Restarted, Id, Placed, Listed
  <1>8. \A a \in gone : \E e \in expired : e[2] = a /\ e \notin Restarted
    OBVIOUS
  <1>9. \A e \in back : e[2] \in again /\ e[1] = at + heap[e[2]].interval
    OBVIOUS
  <1>10. \A e \in expired : e \in Restarted => e[2] \in again
    OBVIOUS
  <1>11. \A a \in again : \E e \in back : e[2] = a
    <2> TAKE a \in again
    <2>1. <<at + heap[a].interval, a>> \in back
      OBVIOUS
    <2> QED
      BY <2>1, ZenonT(30)
  <1> HIDE DEF again, gone, back
  <1>12. \A e \in timers_ : e[2] \in Addrs /\ e[2] \notin gone /\ e[2] \notin again
    BY <1>7, <1>8, SameAddress, MemberTypes DEF Placed, Listed
  <1>13. \A e \in timers_ : heap'[e[2]] = heap[e[2]] /\ Id(e)' = Id(e)
    BY <1>6, <1>12 DEF Id
  <1>14. \A e \in back : Id(e)' = <<e[2], heap[e[2]].sequence>>
    BY <1>4, <1>9 DEF Id
  <1>15. Listed' = timers_ \cup back
    BY <1>1 DEF Listed
  <1>16. \A e \in Listed' : \E f \in Listed : f[2] = e[2] /\ Id(e)' = Id(f)
    BY <1>7, <1>9, <1>13, <1>14, <1>15 DEF Listed
  <1>17. \A a \in Addrs : heap'[a] = heap[a] \/ \E e \in Listed : e[2] = a
    BY <1>6, <1>7, <1>8 DEF Listed
  <1>18. Placed'
    <2>1. \A e \in Listed' : heap'[e[2]].sequence > 0 /\ heap'[e[2]].expiration = e[1]
      <3>1. \A e \in timers_ : heap'[e[2]].sequence > 0 /\ heap'[e[2]].expiration = e[1]
        BY <1>13 DEF Placed, Listed
      <3>2. \A e \in back : heap'[e[2]].sequence > 0 /\ heap'[e[2]].expiration = e[1]
        <4> TAKE e \in back
        <4>1. e[2] \in again /\ e[1] = at + heap[e[2]].interval
          BY <1>9
        <4>2. heap[e[2]].sequence > 0
          BY <4>1, <1>7
        <4> QED
          BY <4>1, <4>2, <1>4
      <3> QED
        BY <1>15, <3>1, <3>2
    <2>2. activeTimers_' = {Id(e)' : e \in timers_'}
      <3>1. activeTimers_ = {Id(e)' : e \in timers_}
        BY <1>13 DEF Placed
      <3>2. {<<a, heap[a].sequence>> : a \in again} = {Id(e)' : e \in back}
        BY <1>9, <1>11, <1>14
      <3> QED
        BY <1>1, <3>1, <3>2
    <2>3. timers_' \cap expired' = {} /\ (~ callingExpiredTimers_' => expired' = {})
      BY <1>1
    <2> QED
      BY <2>1, <2>2, <2>3 DEF Placed
  <1>19. Numbered'
    <2>1. \A b \in Addrs : heap'[b].sequence <= created'
      <3> TAKE b \in Addrs
      <3>1. heap[b].sequence <= created /\ 0 <= created
        BY DEF Numbered, TypeOK
      <3> QED
        BY <3>1, <1>1, <1>4, <1>5, <1>6
    <2>2. \A t \in inserted' : /\ 0 < t[2] /\ t[2] <= created'
                               /\ heap'[t[1]].sequence = t[2] => heap'[t[1]].interval = t[3]
      <3> SUFFICES ASSUME NEW t \in inserted
                   PROVE  /\ 0 < t[2] /\ t[2] <= created
                          /\ heap'[t[1]].sequence = t[2] => heap'[t[1]].interval = t[3]
        BY <1>1
      <3>1. /\ t[1] \in Addrs /\ t[2] \in Nat /\ 0 < t[2] /\ t[2] <= created
            /\ heap[t[1]].sequence = t[2] => heap[t[1]].interval = t[3]
        BY MemberTypes DEF Numbered
      <3>2. heap'[t[1]].sequence = t[2] =>
              heap[t[1]].sequence = t[2] /\ heap'[t[1]].interval = heap[t[1]].interval
        BY <3>1, <1>4, <1>5, <1>6
      <3> QED
        BY <3>1, <3>2
    <2>3. \A e \in Listed' : WasInserted(Id(e))'
      <3> SUFFICES ASSUME NEW e \in Listed'
                   PROVE  \E t \in inserted' : t[1] = Id(e)'[1] /\ t[2] = Id(e)'[2]
        BY DEF WasInserted
      <3> QED
        BY <1>1, <1>16 DEF Numbered, WasInserted
    <2>4. \A id \in called' : WasInserted(id)'
      BY <1>1 DEF Numbered, WasInserted
    <2> QED
      BY <2>1, <2>2, <2>3, <2>4 DEF Numbered
  <1>20. Traced'
    <2>1. NoTimerLost'
      <3> SUFFICES ASSUME NEW t \in inserted, NEW x, x = <<t[1], t[2]>>
                   PROVE  \/ x \in activeTimers_'
                          \/ \E c \in cancelled' : <<c[1], c[2]>> = x
                          \/ t[3] = 0 /\ x \in called'
        BY <1>1 DEF NoTimerLost
      <3>1. CASE \E e \in expired : Id(e) = x
        <4>1. PICK e \in expired : Id(e) = x
          BY <3>1
        <4>2. e[2] = t[1] /\ heap[t[1]].sequence = t[2] /\ heap[t[1]].interval = t[3] /\ t[3] \in Nat
          BY <4>1, MemberTypes DEF Id, Numbered
        <4>3. x \in called
          BY <4>1, <1>1 DEF Traced
        <4>4. CASE e \in Restarted
          BY <4>1, <4>2, <4>4, <1>1, <1>10
        <4>5. CASE x \in cancelingTimers_
          BY <4>5, <1>1 DEF Traced
        <4>6. CASE e \notin Restarted /\ x \notin cancelingTimers_
          <5>1. ~ (heap[e[2]].interval > 0)
            BY <4>1, <4>6 DEF Restarted, Id
          <5> QED
            BY <4>2, <4>3, <5>1, <1>1
        <4> QED
          BY <4>4, <4>5, <4>6
      <3>2. CASE ~ \E e \in expired : Id(e) = x
        BY <3>2, <1>1 DEF Traced, NoTimerLost
      <3> QED
        BY <3>1, <3>2
    <2>2. \A e \in expired' : e \in todo' \/ Id(e)' \in called'
      BY <1>1
    <2>3. \A e \in timers_' \cup todo' : heap'[e[2]].interval = 0 => Id(e)' \notin called'
      <3>1. \A e \in timers_ : heap'[e[2]].interval = 0 => Id(e)' \notin called'
        BY <1>1, <1>13 DEF Traced
      <3>2. \A e \in back : heap'[e[2]].interval # 0
        BY <1>4, <1>7, <1>9
      <3> QED
        BY <1>1, <3>1, <3>2
    <2>4. \A x \in cancelingTimers_' : \E c \in cancelled' : <<c[1], c[2]>> = x
      BY <1>1 DEF Traced
    <2>5. ASSUME NEW c \in cancelled', c[3], NEW x, x = <<c[1], c[2]>>
          PROVE  /\ WasInserted(x)' /\ x \notin activeTimers_'
                 /\ \A e \in expired' : Id(e)' = x => x \in cancelingTimers_'
      <3>1. /\ WasInserted(x) /\ x \notin activeTimers_
            /\ \A e \in expired : Id(e) = x => x \in cancelingTimers_
        BY <2>5, <1>1 DEF Traced
      <3>2. \A a \in again : <<a, heap[a].sequence>> # x
        BY <3>1, <1>7
      <3> QED
        BY <3>1, <3>2, <1>1 DEF WasInserted
    <2> QED
      BY <2>1, <2>2, <2>3, <2>4, <2>5 DEF Traced
  <1> QED
    BY <1>16, <1>17, <1>18, <1>19, <1>20

\* The functors of addTimer() that were queued keep what they own; d functors
\* have been taken from the queue.
LEMMA QueuedStay ==
  ASSUME Queued, NEW d \in {0, 1},
         \A i \in Adds' : /\ i \in Nat /\ i + d \in Adds /\ pending'[i].id = pending[i + d].id
                          /\ heap'[pending'[i].id[1]].sequence = heap[pending'[i].id[1]].sequence
                          /\ \A e \in Listed' : e[2] # pending'[i].id[1]
                          /\ ~ WasInserted(pending[i].id)'
  PROVE  Queued'
  <1> SUFFICES ASSUME NEW i \in Adds', NEW x, x = pending'[i].id
               PROVE  /\ heap'[x[1]].sequence = x[2] /\ x[2] > 0
                      /\ \A e \in Listed' : e[2] # x[1]
                      /\ ~ WasInserted(x)'
                      /\ \A j \in Adds' : pending'[j].id[1] = x[1] => i = j
    BY DEF Queued
  <1>1. i + d \in Adds /\ x = pending[i + d].id /\ i \in Nat
    OBVIOUS
  <1>2. heap[x[1]].sequence = x[2] /\ x[2] > 0
        /\ \A j \in Adds : pending[j].id[1] = x[1] => i + d = j
    BY <1>1 DEF Queued
  <1>3. ASSUME NEW j \in Adds', pending'[j].id[1] = x[1] PROVE i = j
    <2>1. j + d \in Adds /\ pending[j + d].id[1] = x[1] /\ j \in Nat
      BY <1>3
    <2>2. i + d = j + d
      BY <2>1, <1>2
    <2> QED
      BY <2>1, <2>2, <1>1
  <1> QED
    BY <1>1, <1>2, <1>3

\* What the functors of addTimer() hold.
LEMMA AddTypes ==
  ASSUME TypeOK
  PROVE  \A i \in Adds : /\ i \in Nat /\ i \in DOMAIN pending /\ pending[i].op = "add"
                         /\ pending[i].id \in ActiveTimer
                         /\ pending[i].id[1] \in Addrs /\ pending[i].id[2] \in Nat
  <1> TAKE i \in Adds
  <1>1. i \in DOMAIN pending /\ pending[i] \in Functor /\ i \in Nat /\ pending[i].op = "add"
    BY DEF TypeOK, Adds
  <1>2. pending[i].id \in ActiveTimer
    BY <1>1 DEF Functor
  <1> QED
    BY <1>1, <1>2 DEF ActiveTimer

\* A step that inserts no timer and touches only the Timers in the lists leaves
\* the functors of addTimer() what they own.
LEMMA QueuedFrame ==
  ASSUME TypeOK, Queued, inserted' = inserted, NEW d \in {0, 1},
         \A i \in Adds' : i \in Nat /\ i + d \in Adds /\ pending'[i].id = pending[i + d].id,
         \A e \in Listed' : \E f \in Listed : f[2] = e[2],
         \A a \in Addrs : heap'[a] = heap[a] \/ \E e \in Listed : e[2] = a
  PROVE  Queued'
  <1>1. ASSUME NEW i \in Adds'
        PROVE  /\ heap'[pending'[i].id[1]].sequence = heap[pending'[i].id[1]].sequence
               /\ \A e \in Listed' : e[2] # pending'[i].id[1]
               /\ ~ WasInserted(pending[i].id)'
    <2> DEFINE x == pending'[i].id
    <2>1. i + d \in Adds /\ x = pending[i + d].id
      OBVIOUS
    <2> HIDE DEF x
    <2>2. x[1] \in Addrs /\ (\A e \in Listed : e[2] # x[1]) /\ ~ WasInserted(x)
      BY <2>1, AddTypes DEF Queued
    <2>3. heap'[x[1]] = heap[x[1]] /\ \A e \in Listed' : e[2] # x[1]
      BY <2>2
    <2>4. ~ \E t \in inserted' : t[1] = x[1] /\ t[2] = x[2]
      BY <2>2 DEF WasInserted
    <2> QED
      BY <2>3, <2>4 DEF x, WasInserted
  <1> QED
    BY <1>1, QueuedStay

\* A step that does not touch the lists, the heap or the histories.
LEMMA ListsFrame ==
  ASSUME TimerInv,
         UNCHANGED <<heap, created, timers_, activeTimers_, cancelingTimers_,
                     callingExpiredTimers_, expired, todo, inserted, cancelled, called>>
  PROVE  Placed' /\ Numbered' /\ Traced' /\ Listed' = Listed
  <1>1. Listed' = Listed /\ (\A e : Id(e)' = Id(e)) /\ (\A x : WasInserted(x)' = WasInserted(x))
    BY DEF Listed, Id, WasInserted
  <1>2. Placed'
    BY <1>1 DEF Placed, TimerInv
  <1>3. Numbered'
    BY <1>1 DEF Numbered, TimerInv, WasInserted
  <1>4. Traced'
    BY <1>1 DEF Traced, TimerInv, NoTimerLost
  <1> QED
    BY <1>1, <1>2, <1>3, <1>4

\* A new Timer belongs to nobody yet, and its id is new.
LEMMA NewIsFree ==
  ASSUME TimerInv, NEW a \in Addrs, heap[a].sequence = 0
  PROVE  /\ \A e \in Listed : e[2] # a
         /\ \A i \in Adds : pending[i].id[1] # a
         /\ ~ WasInserted(<<a, created + 1>>)
  <1>1. \A e \in Listed : e[2] # a
    BY DEF TimerInv, Placed
  <1>2. \A i \in Adds : pending[i].id[1] # a
    BY DEF TimerInv, Queued
  <1>3. ~ WasInserted(<<a, created + 1>>)
    <2>1. \A t \in inserted : t[2] \in Nat /\ t[2] <= created /\ created \in Nat
      BY MemberTypes DEF TimerInv, Numbered, TypeOK
    <2>2. \A t \in inserted : t[2] # created + 1
      BY <2>1
    <2> QED
      BY <2>2 DEF WasInserted
  <1> QED
    BY <1>1, <1>2, <1>3

\* addTimer() in the loop thread.
LEMMA AddTimerKeeps ==
  ASSUME TimerInv, NEW a \in Addrs, NEW when \in Nat, NEW interval \in Nat,
         AddTimer(a, when, interval)
  PROVE  Placed' /\ Numbered' /\ Traced' /\ Queued'
  <1>t. TypeOK /\ created \in Nat /\ created + 1 \in Nat
    BY DEF TimerInv, TypeOK
  <1>1. /\ heap[a].sequence = 0 /\ created' = created + 1
        /\ heap'[a] = [sequence |-> created + 1, expiration |-> when, interval |-> interval]
        /\ \A b \in Addrs \ {a} : heap'[b] = heap[b]
    BY <1>t, NewTimerTypes, ZenonT(30) DEF AddTimer
  <1>2. heap'[a].sequence = created + 1 /\ heap'[a].expiration = when /\ heap'[a].interval = interval
    BY <1>1
  <1>3. /\ \A e \in Listed : e[2] # a
        /\ \A i \in Adds : pending[i].id[1] # a
        /\ ~ WasInserted(<<a, created + 1>>)
    BY <1>1, NewIsFree
  <1>4. /\ AddTimerInLoop(a, created + 1, when, interval)
        /\ UNCHANGED <<cancelingTimers_, callingExpiredTimers_, expired, todo, cancelled, called, pending>>
    BY DEF AddTimer, batch, remote
  <1>5. created <= created' /\ created + 1 <= created' /\ created' \in Nat /\ created + 1 > 0
    BY <1>t, <1>1
  <1>6. Placed' /\ Numbered' /\ Traced'
    BY <1>t, <1>1, <1>2, <1>3, <1>4, <1>5, AddKeeps DEF TimerInv
  <1>7. Listed' = Listed \cup {<<when, a>>} /\ inserted' = inserted \cup {<<a, created + 1, interval>>}
    BY <1>4 DEF AddTimerInLoop, Listed
  <1>8. Adds' = Adds
    BY <1>4 DEF Adds
  <1>9. ASSUME NEW i \in Adds'
        PROVE  /\ i \in Nat /\ i + 0 \in Adds /\ pending'[i].id = pending[i + 0].id
               /\ heap'[pending'[i].id[1]].sequence = heap[pending'[i].id[1]].sequence
               /\ \A e \in Listed' : e[2] # pending'[i].id[1]
               /\ ~ WasInserted(pending[i].id)'
    <2>1. i \in Adds /\ i \in Nat /\ i + 0 = i /\ pending' = pending /\ pending[i].id[1] \in Addrs
      BY <1>t, <1>4, <1>8, AddTypes
    <2>2. pending[i].id[1] # a /\ (\A e \in Listed : e[2] # pending[i].id[1]) /\ ~ WasInserted(pending[i].id)
      BY <2>1, <1>3, ZenonT(30) DEF TimerInv, Queued
    <2>3. heap'[pending[i].id[1]] = heap[pending[i].id[1]]
      BY <2>1, <2>2, <1>1, ZenonT(30)
    <2>4. \A e \in Listed' : e[2] # pending[i].id[1]
      BY <2>2, <1>7
    <2>5. ~ WasInserted(pending[i].id)'
      BY <2>1, <2>2, <1>7 DEF WasInserted
    <2> QED
      BY <2>1, <2>3, <2>4, <2>5, ZenonT(30)
  <1>10. Queued'
    <2>1. Queued /\ 0 \in {0, 1}
      BY DEF TimerInv
    <2> QED
      BY <1>9, <2>1, QueuedStay
  <1> QED
    BY <1>6, <1>10

\* doPendingFunctors() calls the functor of an addTimer().
LEMMA RunAddKeeps ==
  ASSUME TimerInv, RunAdd
  PROVE  Placed' /\ Numbered' /\ Traced' /\ Queued'
  <1> DEFINE id == Head(pending).id
             timer == heap[id[1]]
  <1>t. TypeOK /\ created \in Nat /\ pending \in Seq(Functor) /\ pending # <<>>
    BY DEF TimerInv, TypeOK, RunAdd
  <1>1. /\ id \in ActiveTimer /\ id[1] \in Addrs /\ id[2] \in Nat /\ Head(pending) = pending[1]
        /\ 1 \in DOMAIN pending /\ DOMAIN Tail(pending) = 1 .. Len(pending) - 1
        /\ \A i \in 1 .. Len(pending) - 1 : Tail(pending)[i] = pending[i + 1] /\ i + 1 \in DOMAIN pending
    BY <1>t, FirstFunctor
  <1>2. 1 \in Adds /\ pending[1].id = id
    BY <1>1 DEF RunAdd, Adds
  <1>3. /\ AddTimerInLoop(id[1], id[2], timer.expiration, timer.interval) /\ pending' = Tail(pending)
        /\ UNCHANGED <<heap, created, cancelingTimers_, callingExpiredTimers_, expired, todo,
                       cancelled, called>>
    BY DEF RunAdd, batch
  <1>4. id = <<id[1], id[2]>>
    BY <1>1 DEF ActiveTimer
  <1> HIDE DEF id
  <1>5. /\ timer.sequence = id[2] /\ id[2] > 0 /\ (\A e \in Listed : e[2] # id[1])
        /\ ~ WasInserted(id) /\ \A j \in Adds : pending[j].id[1] = id[1] => 1 = j
    BY <1>2 DEF TimerInv, Queued
  <1>6. timer.expiration \in Nat /\ timer.interval \in Nat /\ id[2] <= created
    <2>1. timer.expiration \in Nat /\ timer.interval \in Nat
      BY <1>1, <1>t, MemberTypes
    <2>2. timer.sequence <= created
      BY <1>1 DEF TimerInv, Numbered
    <2> QED
      BY <1>5, <2>1, <2>2
  <1>7. heap' = heap /\ created' = created /\ created <= created
    BY <1>3, <1>t
  <1>8. Placed' /\ Numbered' /\ Traced'
    <2>1. Placed /\ Numbered /\ Traced
      BY DEF TimerInv
    <2>2. ~ WasInserted(<<id[1], id[2]>>)
      BY <1>4, <1>5
    <2> HIDE DEF timer
    <2>3. heap'[id[1]] = timer /\ \A b \in Addrs \ {id[1]} : heap'[b] = heap[b]
      BY <1>7 DEF timer
    <2> QED
      BY <1>t, <1>1, <1>3, <1>5, <1>6, <1>7, <2>1, <2>2, <2>3, AddKeeps, ZenonT(30)
  <1>9. /\ Listed' = Listed \cup {<<timer.expiration, id[1]>>}
        /\ inserted' = inserted \cup {<<id[1], id[2], timer.interval>>}
    BY <1>3, ZenonT(30) DEF AddTimerInLoop, Listed
  <1> HIDE DEF timer
  <1>10. ASSUME NEW i \in Adds'
         PROVE  /\ i \in Nat /\ i + 1 \in Adds /\ pending'[i].id = pending[i + 1].id
                /\ heap'[pending'[i].id[1]].sequence = heap[pending'[i].id[1]].sequence
                /\ \A e \in Listed' : e[2] # pending'[i].id[1]
                /\ ~ WasInserted(pending[i].id)'
    <2> DEFINE x == pending'[i].id
    <2>1. i \in 1 .. Len(pending) - 1 /\ pending'[i].op = "add" /\ pending'[i] = pending[i + 1]
          /\ i + 1 \in DOMAIN pending
      BY <1>1, <1>3 DEF Adds
    <2>2. i \in Nat /\ i + 1 # 1
      BY <2>1, <1>t
    <2>3. i + 1 \in Adds /\ x = pending[i + 1].id
      BY <2>1 DEF Adds
    <2> HIDE DEF x
    <2>4. x[1] # id[1] /\ (\A e \in Listed : e[2] # x[1]) /\ ~ WasInserted(x)
      BY <2>2, <2>3, <1>5 DEF TimerInv, Queued
    <2>5. \A e \in Listed' : e[2] # x[1]
      BY <2>4, <1>9
    <2>6. ~ \E t \in inserted' : t[1] = x[1] /\ t[2] = x[2]
      BY <2>4, <1>9 DEF WasInserted
    <2> QED
      BY <2>2, <2>3, <2>5, <2>6, <1>7, ZenonT(30) DEF x, WasInserted
  <1>11. Queued'
    <2>1. Queued /\ 1 \in {0, 1}
      BY DEF TimerInv
    <2> QED
      BY <1>10, <2>1, QueuedStay
  <1> QED
    BY <1>8, <1>11

\* addTimer() in another thread: the functor owns the new Timer.
LEMMA RemoteAddKeeps ==
  ASSUME TimerInv, NEW a \in Addrs, NEW when \in Nat, NEW interval \in Nat,
         RemoteAdd(a, when, interval)
  PROVE  Placed' /\ Numbered' /\ Traced' /\ Queued'
  <1> DEFINE functor == [op |-> "add", id |-> <<a, created + 1>>]
  <1>t. TypeOK /\ created \in Nat /\ pending \in Seq(Functor)
    BY DEF TimerInv, TypeOK
  <1>1. /\ heap[a].sequence = 0 /\ created' = created + 1
        /\ heap'[a] = [sequence |-> created + 1, expiration |-> when, interval |-> interval]
        /\ \A b \in Addrs \ {a} : heap'[b] = heap[b]
    BY <1>t, NewTimerTypes, ZenonT(30) DEF RemoteAdd
  <1>2. heap'[a].sequence = created + 1
    BY <1>1
  <1>3. /\ \A e \in Listed : e[2] # a
        /\ \A i \in Adds : pending[i].id[1] # a
        /\ ~ WasInserted(<<a, created + 1>>)
    BY <1>1, NewIsFree
  <1>4. /\ UNCHANGED <<timers_, activeTimers_, cancelingTimers_, callingExpiredTimers_, expired, todo,
                       inserted, cancelled, called>>
        /\ pending' = Append(pending, functor)
    BY DEF RemoteAdd, lists, batch, history
  <1>5. Listed' = Listed /\ (\A x : WasInserted(x)' = WasInserted(x))
    BY <1>4 DEF Listed, WasInserted
  <1>6. \A e \in Listed : heap'[e[2]] = heap[e[2]] /\ Id(e)' = Id(e)
    BY <1>t, <1>1, <1>3, MemberTypes DEF Id
  <1>7. Placed'
    <2>1. \A e \in Listed' : heap'[e[2]].sequence > 0 /\ heap'[e[2]].expiration = e[1]
      BY <1>5, <1>6 DEF Placed, TimerInv
    <2>2. activeTimers_' = {Id(e)' : e \in timers_'}
      BY <1>4, <1>6 DEF Placed, TimerInv, Listed
    <2> QED
      BY <2>1, <2>2, <1>4, ZenonT(30) DEF Placed, TimerInv
  <1>8. Numbered'
    <2>1. \A b \in Addrs : heap'[b].sequence <= created'
      <3> TAKE b \in Addrs
      <3>1. heap[b].sequence <= created /\ heap[b].sequence \in Nat
        BY <1>t, MemberTypes DEF TimerInv, Numbered
      <3> QED
        BY <3>1, <1>t, <1>1, <1>2
    <2>2. \A t \in inserted' : /\ 0 < t[2] /\ t[2] <= created'
                               /\ heap'[t[1]].sequence = t[2] => heap'[t[1]].interval = t[3]
      <3> SUFFICES ASSUME NEW t \in inserted
                   PROVE  /\ 0 < t[2] /\ t[2] <= created'
                          /\ heap'[t[1]].sequence = t[2] => heap'[t[1]].interval = t[3]
        BY <1>4
      <3>1. /\ t[1] \in Addrs /\ t[2] \in Nat /\ 0 < t[2] /\ t[2] <= created
            /\ heap[t[1]].sequence = t[2] => heap[t[1]].interval = t[3]
        BY <1>t, MemberTypes DEF TimerInv, Numbered
      <3>2. 0 < t[2] /\ t[2] <= created' /\ t[2] # created + 1
        BY <3>1, <1>t, <1>1
      <3> QED
        BY <3>1, <3>2, <1>1, <1>2
    <2>3. \A e \in Listed' : WasInserted(Id(e))'
      <3> SUFFICES ASSUME NEW e \in Listed'
                   PROVE  \E t \in inserted' : t[1] = Id(e)'[1] /\ t[2] = Id(e)'[2]
        BY DEF WasInserted
      <3> QED
        BY <1>4, <1>5, <1>6 DEF TimerInv, Numbered, WasInserted
    <2>4. \A x \in called' : WasInserted(x)'
      BY <1>4, <1>5, ZenonT(30) DEF TimerInv, Numbered
    <2> QED
      BY <2>1, <2>2, <2>3, <2>4 DEF Numbered
  <1>9. Traced'
    <2>1. Traced /\ todo \subseteq expired
      BY <1>t, MemberTypes DEF TimerInv
    <2>2. NoTimerLost'
      <3>1. \A e \in expired : Id(e)' = Id(e)
        BY <1>6 DEF Listed
      <3> SUFFICES ASSUME NEW t \in inserted, NEW x, x = <<t[1], t[2]>>
                   PROVE  \/ x \in activeTimers_
                          \/ \E e \in expired : Id(e)' = x
                          \/ \E c \in cancelled : <<c[1], c[2]>> = x
                          \/ t[3] = 0 /\ x \in called
        BY <1>4 DEF NoTimerLost
      <3> QED
        BY <2>1, <3>1, ZenonT(30) DEF Traced, NoTimerLost
    <2>3. \A e \in expired' : e \in todo' \/ Id(e)' \in called'
      BY <2>1, <1>4, <1>6, ZenonT(30) DEF Traced, Listed
    <2>4. \A e \in timers_' \cup todo' : heap'[e[2]].interval = 0 => Id(e)' \notin called'
      BY <2>1, <1>4, <1>6, ZenonT(30) DEF Traced, Listed
    <2>5. \A x \in cancelingTimers_' : \E c \in cancelled' : <<c[1], c[2]>> = x
      BY <2>1, <1>4 DEF Traced
    <2>6. ASSUME NEW c \in cancelled', c[3], NEW x, x = <<c[1], c[2]>>
          PROVE  /\ WasInserted(x)' /\ x \notin activeTimers_'
                 /\ \A e \in expired' : Id(e)' = x => x \in cancelingTimers_'
      BY <2>1, <2>6, <1>4, <1>5, <1>6, ZenonT(30) DEF Traced, Listed
    <2> QED
      BY <2>2, <2>3, <2>4, <2>5, <2>6, ZenonT(30) DEF Traced
  <1>10. Queued'
    <2> DEFINE n == Len(pending) + 1
    <2>1. functor \in Functor /\ functor.op = "add" /\ functor.id[1] = a /\ functor.id[2] = created + 1
      BY <1>t DEF Functor, ActiveTimer
    <2> HIDE DEF functor
    <2>2. /\ n \in Nat /\ n \notin DOMAIN pending /\ DOMAIN pending' = DOMAIN pending \cup {n}
          /\ pending'[n] = functor /\ \A i \in DOMAIN pending : pending'[i] = pending[i]
      <3>1. Len(pending) \in Nat /\ DOMAIN pending = 1 .. Len(pending)
        BY <1>t
      <3>2. /\ Len(pending') = n /\ DOMAIN pending' = 1 .. n /\ pending'[n] = functor
            /\ \A i \in 1 .. Len(pending) : pending'[i] = pending[i]
        BY <1>t, <1>4, <2>1, <3>1
      <3> QED
        BY <3>1, <3>2
    <2> HIDE DEF n
    <2>3. Adds' = Adds \cup {n} /\ n \notin Adds /\ \A i \in Adds : pending'[i] = pending[i]
      BY <2>1, <2>2 DEF Adds
    <2>4. \A i \in Adds : pending[i].id[1] \in Addrs
      BY <1>t, AddTypes
    <2>5. \A i \in Adds : /\ heap'[pending[i].id[1]] = heap[pending[i].id[1]]
                          /\ pending[i].id[1] # pending'[n].id[1]
      BY <1>1, <1>3, <2>1, <2>2, <2>4, ZenonT(30)
    <2> SUFFICES ASSUME NEW i \in Adds', NEW x, x = pending'[i].id
                 PROVE  /\ heap'[x[1]].sequence = x[2] /\ x[2] > 0
                        /\ \A e \in Listed' : e[2] # x[1]
                        /\ ~ WasInserted(x)'
                        /\ \A j \in Adds' : pending'[j].id[1] = x[1] => i = j
      BY ZenonT(30) DEF Queued
    <2>6. CASE i = n
      <3>1. x[1] = a /\ x[2] = created + 1 /\ x = functor.id
        BY <2>1, <2>2, <2>6
      <3>2. ~ WasInserted(x)
        BY <3>1, <1>3 DEF functor
      <3>3. \A j \in Adds' : pending'[j].id[1] = x[1] => i = j
        BY <2>3, <2>5, <2>6
      <3> QED
        BY <3>1, <3>2, <3>3, <1>t, <1>2, <1>3, <1>5
    <2>7. CASE i \in Adds
      <3>1. x = pending[i].id /\ pending'[i] = pending[i]
        BY <2>3, <2>7
      <3>2. /\ heap[x[1]].sequence = x[2] /\ x[2] > 0 /\ (\A e \in Listed : e[2] # x[1])
            /\ ~ WasInserted(x) /\ \A j \in Adds : pending[j].id[1] = x[1] => i = j
        BY <3>1, <2>7, ZenonT(30) DEF TimerInv, Queued
      <3>3. \A j \in Adds' : pending'[j].id[1] = x[1] => i = j
        BY <3>1, <3>2, <2>3, <2>5, <2>7, ZenonT(30)
      <3> QED
        BY <3>1, <3>2, <3>3, <2>5, <2>7, <1>5, ZenonT(30)
    <2> QED
      BY <2>3, <2>6, <2>7, ZenonT(30)
  <1> QED
    BY <1>7, <1>8, <1>9, <1>10

-----------------------------------------------------------------------------
(* The theorems.                                                           *)

\* A queue without timers has the invariant.
LEMMA InitInv == Init => TimerInv
  <1> SUFFICES ASSUME Init PROVE TimerInv
    OBVIOUS
  <1>1. TypeOK
    <2>1. heap \in [Addrs -> Timer]
      BY DEF Init, Free, Timer
    <2>2. pending \in Seq(Functor) /\ adding \in ActiveTimer \cup {NoTimer}
      BY DEF Init
    <2>3. now \in Nat /\ armed \in Nat /\ at \in Nat /\ created \in Nat
      BY DEF Init
    <2> QED
      BY <2>1, <2>2, <2>3, ZenonT(30) DEF Init, TypeOK
  <1>2. Listed = {} /\ Adds = {}
    BY DEF Init, Listed, Adds
  <1>3. Placed /\ Queued /\ Traced
    BY <1>2, ZenonT(30) DEF Init, Placed, Queued, Traced, NoTimerLost, Listed
  <1>4. Numbered
    <2>1. \A a \in Addrs : heap[a].sequence = 0
      BY ZenonT(30) DEF Init, Free
    <2> QED
      BY <1>2, <2>1 DEF Init, Numbered
  <1> QED
    BY <1>1, <1>3, <1>4 DEF TimerInv

\* Every step keeps the invariant.
LEMMA NextInv == ASSUME TimerInv, [Next]_vars PROVE TimerInv'
  <1> USE TimerQueueAssumption
  <1> USE DEF wall, clock, lists, batch, remote, history
  <1>t. TypeOK /\ Placed /\ Queued /\ Numbered /\ Traced /\ TypeOK'
    BY NextTypes DEF TimerInv
  <1>z. 0 \in {0, 1} /\ 1 \in {0, 1}
    OBVIOUS
  <1>s. ASSUME pending' = pending
        PROVE  \A i \in Adds' : i \in Nat /\ i + 0 \in Adds /\ pending'[i].id = pending[i + 0].id
    <2>1. Adds' = Adds
      BY <1>s DEF Adds
    <2>2. \A i \in Adds : i \in Nat /\ i + 0 = i
      BY <1>t, AddTypes
    <2> QED
      BY <1>s, <2>1, <2>2
  \* Steps that touch neither the lists nor the heap.
  <1>f. ASSUME UNCHANGED <<heap, created, timers_, activeTimers_, cancelingTimers_,
                           callingExpiredTimers_, expired, todo, inserted, cancelled, called>>,
               \A i \in Adds' : i \in Nat /\ i + 0 \in Adds /\ pending'[i].id = pending[i + 0].id
        PROVE  TimerInv'
    <2>1. Placed' /\ Numbered' /\ Traced' /\ Listed' = Listed
      BY <1>f, ListsFrame, ZenonT(30)
    <2>2. Queued'
      BY <1>f, <1>t, <1>z, <2>1, QueuedFrame, ZenonT(30)
    <2> QED
      BY <1>t, <2>1, <2>2 DEF TimerInv
  <1>1. ASSUME NEW a \in Addrs, NEW when \in 1 .. MaxTime, NEW interval \in Intervals,
               AddTimer(a, when, interval)
        PROVE  TimerInv'
    <2>1. when \in Nat /\ interval \in Nat
      OBVIOUS
    <2> QED
      BY <1>t, <1>1, <2>1, AddTimerKeeps DEF TimerInv
  <1>2. ASSUME NEW a \in Addrs, NEW when \in 1 .. MaxTime, NEW interval \in Intervals,
               RemoteAdd(a, when, interval)
        PROVE  TimerInv'
    <2>1. when \in Nat /\ interval \in Nat
      OBVIOUS
    <2> QED
      BY <1>t, <1>2, <2>1, RemoteAddKeeps DEF TimerInv
  <1>3. ASSUME NEW id \in ids, Cancel(id) PROVE TimerInv'
    <2>1. id \in ActiveTimer
      BY <1>t DEF TypeOK
    <2>2. /\ CancelInLoop(id) /\ pending' = pending
          /\ UNCHANGED <<created, callingExpiredTimers_, expired, todo, inserted, called>>
      BY <1>3 DEF Cancel
    <2>3. /\ Placed' /\ Numbered' /\ Traced' /\ Listed' \subseteq Listed
          /\ \A a \in Addrs : heap'[a] = heap[a] \/ \E e \in Listed : e[2] = a
      BY <1>t, <2>1, <2>2, CancelKeeps
    <2>4. Queued'
      BY <1>t, <1>z, <1>s, <2>2, <2>3, QueuedFrame
    <2> QED
      BY <1>t, <2>3, <2>4, ZenonT(30) DEF TimerInv
  <1>4. ASSUME NEW id \in ids, RemoteCancel(id) PROVE TimerInv'
    <2> DEFINE functor == [op |-> "cancel", id |-> id]
    <2>1. pending' = Append(pending, functor) /\ functor.op # "add" /\ functor \in Functor
          /\ pending \in Seq(Functor)
      BY <1>t, <1>4 DEF RemoteCancel, TypeOK, Functor
    <2> HIDE DEF functor
    <2>2. Len(pending) \in Nat /\ DOMAIN pending = 1 .. Len(pending)
      BY <2>1
    <2>3. /\ DOMAIN pending' = 1 .. Len(pending) + 1 /\ pending'[Len(pending) + 1] = functor
          /\ \A i \in 1 .. Len(pending) : pending'[i] = pending[i]
      BY <2>1, <2>2
    <2>4. \A i \in Adds' : i \in Nat /\ i + 0 \in Adds /\ pending'[i].id = pending[i + 0].id
      <3> TAKE i \in Adds'
      <3>1. i \in 1 .. Len(pending) + 1 /\ pending'[i].op = "add"
        BY <2>3 DEF Adds
      <3>2. i \in 1 .. Len(pending)
        BY <2>1, <2>2, <2>3, <3>1
      <3>3. pending'[i] = pending[i] /\ i \in Nat /\ i + 0 = i /\ i \in DOMAIN pending
        BY <2>2, <2>3, <3>2
      <3> QED
        BY <3>1, <3>3 DEF Adds
    <2> QED
      BY <1>4, <1>f, <2>4, ZenonT(30) DEF RemoteCancel
  <1>5. CASE RunAdd
    BY <1>t, <1>5, RunAddKeeps DEF TimerInv
  <1>6. CASE RunCancel
    <2>1. pending \in Seq(Functor) /\ pending # <<>>
      BY <1>t, <1>6 DEF RunCancel, TypeOK
    <2>2. /\ Head(pending).id \in ActiveTimer /\ DOMAIN Tail(pending) = 1 .. Len(pending) - 1
          /\ \A i \in 1 .. Len(pending) - 1 : Tail(pending)[i] = pending[i + 1] /\ i + 1 \in DOMAIN pending
      BY <2>1, FirstFunctor
    <2>3. /\ CancelInLoop(Head(pending).id) /\ pending' = Tail(pending)
          /\ UNCHANGED <<created, callingExpiredTimers_, expired, todo, inserted, called>>
      BY <1>6, ZenonT(30) DEF RunCancel
    <2>4. /\ Placed' /\ Numbered' /\ Traced' /\ Listed' \subseteq Listed
          /\ \A a \in Addrs : heap'[a] = heap[a] \/ \E e \in Listed : e[2] = a
      BY <1>t, <2>2, <2>3, CancelKeeps, ZenonT(30)
    <2>5. \A i \in Adds' : i \in Nat /\ i + 1 \in Adds /\ pending'[i].id = pending[i + 1].id
      <3> TAKE i \in Adds'
      <3>1. i \in 1 .. Len(pending) - 1 /\ pending'[i].op = "add"
        BY <2>2, <2>3 DEF Adds
      <3>2. pending'[i] = pending[i + 1] /\ i + 1 \in DOMAIN pending
        BY <2>2, <2>3, <3>1
      <3>3. i \in Nat
        BY <2>1, <3>1
      <3> QED
        BY <3>1, <3>2, <3>3 DEF Adds
    <2>6. Queued'
      BY <1>t, <1>z, <2>3, <2>4, <2>5, QueuedFrame, ZenonT(30)
    <2> QED
      BY <1>t, <2>4, <2>6 DEF TimerInv
  <1>7. CASE PollTimerfd
    BY <1>7, <1>f, <1>s DEF PollTimerfd
  <1>8. CASE HandleRead
    <2>1. Placed' /\ Numbered' /\ Traced' /\ Listed' = Listed
      BY <1>8, <1>t, HandleReadKeeps
    <2>2. heap' = heap /\ inserted' = inserted /\ pending' = pending
      BY <1>8 DEF HandleRead
    <2>3. Queued'
      BY <1>t, <1>z, <1>s, <2>1, <2>2, QueuedFrame
    <2> QED
      BY <1>t, <2>1, <2>3 DEF TimerInv
  <1>9. CASE Reset
    <2>1. /\ Placed' /\ Numbered' /\ Traced'
          /\ \A e \in Listed' : \E f \in Listed : f[2] = e[2]
          /\ \A a \in Addrs : heap'[a] = heap[a] \/ \E e \in Listed : e[2] = a
      BY <1>9, <1>t, ResetKeeps
    <2>2. inserted' = inserted /\ pending' = pending
      BY <1>9 DEF Reset
    <2>3. Queued'
      BY <1>t, <1>z, <1>s, <2>1, <2>2, QueuedFrame
    <2> QED
      BY <1>t, <2>1, <2>3 DEF TimerInv
  <1>10. ASSUME NEW e \in todo, RunTimer(e) PROVE TimerInv'
    <2>1. Placed' /\ Numbered' /\ Traced' /\ Listed' = Listed
      BY <1>10, <1>t, RunTimerKeeps
    <2>2. heap' = heap /\ inserted' = inserted /\ pending' = pending
      BY <1>10 DEF RunTimer
    <2>3. Queued'
      BY <1>t, <1>z, <1>s, <2>1, <2>2, QueuedFrame
    <2> QED
      BY <1>t, <2>1, <2>3 DEF TimerInv
  <1>11. CASE RemoteReturn
    BY <1>11, <1>f, <1>s DEF RemoteReturn
  <1>12. CASE Tick
    BY <1>12, <1>f, <1>s DEF Tick
  <1>13. ASSUME NEW jump \in Jumps, SetClock(jump) PROVE TimerInv'
    BY <1>13, <1>f, <1>s DEF SetClock
  <1>14. CASE UNCHANGED vars
    BY <1>14, <1>f, <1>s DEF vars
  <1> QED
    BY <1>1, <1>2, <1>3, <1>4, <1>5, <1>6, <1>7, <1>8, <1>9, <1>10, <1>11, <1>12, <1>13, <1>14
       DEF Next

\* The invariant holds in every reachable state.
LEMMA SpecInv == Spec => []TimerInv
  BY InitInv, NextInv, PTL DEF Spec

\* timers_ and activeTimers_ always hold the same timers, whatever callbacks and
\* other threads add and cancel, and point to Timers that are there.
THEOREM QueueListsAgree == Spec => []ListsAgree
  <1>1. TimerInv => ListsAgree
    BY DEF TimerInv, Placed, ListsAgree, Listed
  <1> QED
    BY <1>1, SpecInv, PTL

\* A timer that was added is called or cancelled, or is still in the queue; a
\* stale TimerId given to cancel() loses nobody else's timer.
THEOREM QueueLosesNoTimer == Spec => []NoTimerLost
  <1>1. TimerInv => NoTimerLost
    BY DEF TimerInv, Traced
  <1> QED
    BY <1>1, SpecInv, PTL

\* cancel() takes effect, also when it comes from the timer's own callback, and a
\* one-shot timer is called once.
THEOREM QueueCancelTakesEffect == Spec => []CancelTakesEffect
  <1>1. TimerInv => CancelTakesEffect
    BY ZenonT(30) DEF TimerInv, Traced, CancelTakesEffect
  <1> QED
    BY <1>1, SpecInv, PTL

-----------------------------------------------------------------------------
(* The timerfd.                                                            *)

\* A timerfd armed for one list is in time for another that begins no earlier.
LEMMA DelayMonotone ==
  ASSUME NEW E \in SUBSET Entry, NEW F \in SUBSET Entry, E # {}, F # {}, now \in Nat,
         \A f \in F : Earliest(E) <= f[1]
  PROVE  /\ Delay(Earliest(E)) <= Delay(Earliest(F))
         /\ Delay(Earliest(E)) \in Nat /\ Delay(Earliest(F)) \in Nat
  <1>1. Earliest(E) \in Nat /\ Earliest(F) \in Nat /\ \E f \in F : f[1] = Earliest(F)
    BY EarliestIs
  <1>2. Earliest(E) <= Earliest(F)
    BY <1>1
  <1> HIDE DEF Earliest
  <1> QED
    BY <1>1, <1>2 DEF Delay

\* addTimerInLoop() between two calls of handleRead().
LEMMA AddArms ==
  ASSUME TypeOK, NEW a \in Addrs, NEW seq, NEW when \in Nat, NEW interval,
         AddTimerInLoop(a, seq, when, interval), AlarmInTime,
         UNCHANGED <<now, steady, active, callingExpiredTimers_>>
  PROVE  AlarmInTime'
  <1> SUFFICES ASSUME ~ callingExpiredTimers_
               PROVE  \/ readable' \/ active
                      \/ armed' > 0 /\ (steady => armed' <= Delay(Earliest(timers_')))
    BY DEF AlarmInTime, Delay
  <1>n. <<when, a>> \in Entry /\ <<when, a>>[1] = when
    BY DEF Entry
  <1>1. timers_' = timers_ \cup {<<when, a>>} /\ timers_' # {} /\ timers_' \in SUBSET Entry
        /\ timers_ \in SUBSET Entry /\ now \in Nat /\ armed \in Nat
    <2>1. timers_' = timers_ \cup {<<when, a>>}
      BY DEF AddTimerInLoop
    <2>2. <<when, a>> \in timers_'
      BY <2>1
    <2> QED
      BY <1>n, <2>1, <2>2 DEF TypeOK
  <1>2. \A e \in timers_' : e[1] = when \/ e \in timers_
    BY <1>1
  <1>3. CASE EarliestChanged(when)
    <2>1. armed' = Delay(when)
      BY <1>3 DEF AddTimerInLoop, ResetTimerfd
    <2>2. Earliest(timers_') = when
      <3>1. Earliest(timers_') \in Nat /\ (\E e \in timers_' : e[1] = Earliest(timers_'))
            /\ \A e \in timers_' : Earliest(timers_') <= e[1]
        BY <1>1, EarliestIs
      <3>2. Earliest(timers_') <= when
        <4>1. <<when, a>> \in timers_'
          BY <1>1
        <4>2. Earliest(timers_') <= <<when, a>>[1]
          BY <3>1, <4>1, Zenon
        <4> QED
          BY <4>2, <1>n
      <3>3. when <= Earliest(timers_')
        BY <3>1, <1>1, <1>2, <1>3 DEF EarliestChanged
      <3> QED
        BY <3>1, <3>2, <3>3
    <2>3. Delay(when) \in Nat /\ Delay(when) > 0
      BY <1>1, DelayType
    <2> QED
      BY <2>1, <2>2, <2>3
  <1>4. CASE ~ EarliestChanged(when)
    <2>1. PICK f \in timers_ : ~ (when < f[1])
      BY <1>4 DEF EarliestChanged
    <2>2. armed' = armed /\ readable' = readable
      BY <1>4 DEF AddTimerInLoop
    <2>3. Earliest(timers_) \in Nat /\ \A e \in timers_ : Earliest(timers_) <= e[1]
      BY <1>1, <2>1, EarliestIs
    <2>4. f[1] \in Nat /\ Earliest(timers_) <= when
      BY <2>1, <2>3 DEF TypeOK, Entry
    <2>5. \A e \in timers_' : Earliest(timers_) <= e[1]
      BY <2>3, <2>4, <1>2
    <2>6. /\ Delay(Earliest(timers_)) <= Delay(Earliest(timers_'))
          /\ Delay(Earliest(timers_)) \in Nat /\ Delay(Earliest(timers_')) \in Nat
      BY <1>1, <2>1, <2>5, DelayMonotone
    <2>7. readable \/ active \/ (armed > 0 /\ (steady => armed <= Delay(Earliest(timers_))))
      BY <2>1 DEF AlarmInTime
    <2> QED
      BY <2>2, <2>6, <2>7, <1>1
  <1> QED
    BY <1>3, <1>4

\* A cancellation, or any other step that adds no timer and lets no time pass.
LEMMA AlarmFrame ==
  ASSUME TypeOK, AlarmInTime, timers_' \subseteq timers_,
         UNCHANGED <<now, steady, armed, readable, active, callingExpiredTimers_>>
  PROVE  AlarmInTime'
  <1> SUFFICES ASSUME timers_' # {}, ~ callingExpiredTimers_
               PROVE  \/ readable \/ active
                      \/ armed > 0 /\ (steady => armed <= Delay(Earliest(timers_')))
    BY DEF AlarmInTime, Delay
  <1>1. timers_' \in SUBSET Entry /\ timers_ \in SUBSET Entry /\ timers_ # {} /\ now \in Nat /\ armed \in Nat
    BY DEF TypeOK
  <1>2. \A e \in timers_' : Earliest(timers_) <= e[1]
    BY <1>1, EarliestIs
  <1>3. /\ Delay(Earliest(timers_)) <= Delay(Earliest(timers_'))
        /\ Delay(Earliest(timers_)) \in Nat /\ Delay(Earliest(timers_')) \in Nat
    BY <1>1, <1>2, DelayMonotone
  <1>4. readable \/ active \/ (armed > 0 /\ (steady => armed <= Delay(Earliest(timers_))))
    BY <1>1 DEF AlarmInTime
  <1> QED
    BY <1>1, <1>3, <1>4

\* Time passes.
LEMMA TickArms ==
  ASSUME TypeOK, AlarmInTime, Tick
  PROVE  AlarmInTime'
  <1>1. /\ timers_' = timers_ /\ now' = now + 1 /\ UNCHANGED <<steady, active, callingExpiredTimers_>>
        /\ armed' = (IF armed > 0 THEN armed - 1 ELSE 0) /\ readable' = (readable \/ armed = 1)
    BY DEF Tick, lists, batch
  <1> SUFFICES ASSUME timers_ # {}, ~ callingExpiredTimers_, ~ readable', ~ active
               PROVE  armed' > 0 /\ (steady => armed' <= Delay(Earliest(timers_))')
    BY <1>1 DEF AlarmInTime
  <1>2. now \in Nat /\ armed \in Nat /\ timers_ \in SUBSET Entry
    BY DEF TypeOK
  <1>3. ~ readable /\ armed # 1 /\ armed > 0 /\ (steady => armed <= Delay(Earliest(timers_)))
    BY <1>1, ZenonT(30) DEF AlarmInTime
  <1>4. armed' = armed - 1 /\ armed' > 0
    BY <1>1, <1>2, <1>3
  <1> DEFINE w == Earliest(timers_)
  <1>5. w \in Nat /\ w' = w
    BY <1>1, <1>2, EarliestIs
  <1>6. (steady => armed <= Delay(w)) /\ Delay(Earliest(timers_))' = (IF w - now' < 1 THEN 1 ELSE w - now')
    BY <1>1, <1>3, <1>5 DEF Delay
  <1> HIDE DEF w
  <1> QED
    BY <1>1, <1>2, <1>3, <1>4, <1>5, <1>6 DEF Delay

\* Every step keeps the timerfd set to the earliest entry or before.
LEMMA NextArms == ASSUME TypeOK, AlarmInTime, [Next]_vars PROVE AlarmInTime'
  <1> USE TimerQueueAssumption
  <1> USE DEF wall, clock, lists, batch, remote, history
  <1>1. ASSUME NEW a \in Addrs, NEW when \in 1 .. MaxTime, NEW interval \in Intervals,
               AddTimer(a, when, interval)
        PROVE  AlarmInTime'
    <2>1. when \in Nat
      OBVIOUS
    <2> QED
      BY <1>1, <2>1, AddArms DEF AddTimer
  <1>2. ASSUME NEW a \in Addrs, NEW when \in 1 .. MaxTime, NEW interval \in Intervals,
               RemoteAdd(a, when, interval)
        PROVE  AlarmInTime'
    BY <1>2, AlarmFrame DEF RemoteAdd
  <1>3. ASSUME NEW id \in ids, Cancel(id) PROVE AlarmInTime'
    <2>1. timers_' \subseteq timers_
      BY <1>3, ZenonT(30) DEF Cancel, CancelInLoop
    <2> QED
      BY <1>3, <2>1, AlarmFrame DEF Cancel, CancelInLoop
  <1>4. ASSUME NEW id \in ids, RemoteCancel(id) PROVE AlarmInTime'
    BY <1>4, AlarmFrame DEF RemoteCancel
  <1>5. CASE RunAdd
    <2> DEFINE id == Head(pending).id
    <2>1. id[1] \in Addrs
      BY <1>5, FirstFunctor, ZenonT(30) DEF RunAdd, TypeOK
    <2>2. heap[id[1]].expiration \in Nat
      BY <2>1, MemberTypes
    <2>3. AddTimerInLoop(id[1], id[2], heap[id[1]].expiration, heap[id[1]].interval)
      BY <1>5, ZenonT(30) DEF RunAdd
    <2> HIDE DEF id
    <2> QED
      BY <1>5, <2>1, <2>2, <2>3, AddArms, ZenonT(30) DEF RunAdd
  <1>6. CASE RunCancel
    <2>1. timers_' \subseteq timers_
      BY <1>6, ZenonT(30) DEF RunCancel, CancelInLoop
    <2> QED
      BY <1>6, <2>1, AlarmFrame, ZenonT(30) DEF RunCancel, CancelInLoop
  <1>7. CASE PollTimerfd
    BY <1>7 DEF PollTimerfd, AlarmInTime
  <1>8. CASE HandleRead
    BY <1>8 DEF HandleRead, AlarmInTime
  <1>9. CASE Reset
    <2> SUFFICES ASSUME timers_' # {}
                 PROVE  armed' > 0 /\ armed' <= Delay(Earliest(timers_))'
      BY DEF AlarmInTime
    <2>1. armed' = Delay(Earliest(timers_')) /\ now' = now
      BY <1>9 DEF Reset, Rearm, ResetTimerfd
    <2>2. Earliest(timers_') \in Nat
      BY <1>9, ResetTypes, EarliestIs
    <2>3. Delay(Earliest(timers_')) \in Nat /\ Delay(Earliest(timers_')) > 0
      BY <2>2, DelayType DEF TypeOK
    <2>4. Delay(Earliest(timers_))' = Delay(Earliest(timers_'))
      BY <2>1 DEF Delay
    <2> QED
      BY <2>1, <2>3, <2>4
  <1>10. ASSUME NEW e \in todo, RunTimer(e) PROVE AlarmInTime'
    BY <1>10, AlarmFrame DEF RunTimer
  <1>11. CASE RemoteReturn
    BY <1>11, AlarmFrame DEF RemoteReturn
  <1>12. CASE Tick
    BY <1>12, TickArms
  <1>13. ASSUME NEW jump \in Jumps, SetClock(jump) PROVE AlarmInTime'
    BY <1>13 DEF SetClock, AlarmInTime
  <1>14. CASE UNCHANGED vars
    BY <1>14, AlarmFrame DEF vars
  <1> QED
    BY <1>1, <1>2, <1>3, <1>4, <1>5, <1>6, <1>7, <1>8, <1>9, <1>10, <1>11, <1>12, <1>13, <1>14
       DEF Next

\* The timerfd is never armed for later than the earliest timer, and as long as
\* there is one it does fire, however the wall clock is set.
THEOREM QueueAlarmInTime == Spec => []AlarmInTime
  <1>1. Init => AlarmInTime
    BY DEF Init, AlarmInTime
  <1>2. Spec => []TypeOK
    BY SpecInv, PTL DEF TimerInv
  <1>3. TypeOK /\ AlarmInTime /\ [Next]_vars => AlarmInTime'
    BY NextArms
  <1> QED
    BY <1>1, <1>2, <1>3, PTL DEF Spec
===============================================================================
