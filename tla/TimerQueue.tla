----------------------------- MODULE TimerQueue -----------------------------
(***************************************************************************)
(* muduo/net/TimerQueue.cc: the timers of one EventLoop, kept in a set     *)
(* ordered by expiration and a set for cancellation, behind one timerfd    *)
(* that is armed for the earliest of them.                                 *)
(*                                                                         *)
(* The loop thread handles the timerfd, calls the expired timers, runs the *)
(* functors of other threads and, from any callback, adds and cancels      *)
(* timers itself.  Another thread adds and cancels through runInLoop().    *)
(* Timers live on the heap, whose addresses are reused.  The timerfd runs  *)
(* on the monotonic clock, expirations are wall-clock times; one tick is   *)
(* the 100 microseconds that howMuchTimeFromNow() rounds up to.            *)
(***************************************************************************)
EXTENDS Integers, Sequences

CONSTANTS
  Addrs,        \* heap addresses a Timer may have
  Intervals,    \* intervals of timers, 0 for a one-shot timer
  Jumps,        \* ticks by which the wall clock may be set forward or back
  MaxTimers,    \* bound on the timers created
  MaxTime,      \* bound on the wall clock
  MaxPending    \* bound on the functors queued by the other thread

ASSUME TimerQueueAssumption ==
  /\ Addrs \subseteq Nat
  /\ Intervals \subseteq Nat
  /\ Jumps \subseteq Nat
  /\ MaxTimers \in Nat /\ MaxTime \in Nat /\ MaxPending \in Nat

VARIABLES
  now,                    \* wall clock
  steady,                 \* history: nobody has set the wall clock
  armed,                  \* ticks until the timerfd fires, 0 when disarmed
  readable,               \* the timerfd has fired and was not read
  active,                 \* poll() has reported the timerfd
  heap,                   \* the Timer at each address; sequence 0 is free
  created,                \* s_numCreated_
  timers_,                \* set of <<expiration, address>>
  activeTimers_,          \* set of <<address, sequence>>
  cancelingTimers_,       \* set of <<address, sequence>>
  callingExpiredTimers_,
  expired,                \* local of handleRead(): the timers it moved out
  todo,                   \* those of expired whose callback was not called yet
  at,                     \* local of handleRead(): its Timestamp now
  pending,                \* functors queued by the other thread
  adding,                 \* timer whose addTimer() the other thread has not left
  ids,                    \* TimerIds handed out
  inserted,               \* history: <<address, sequence, interval>> inserted
  cancelled,              \* history: <<address, sequence, after its insertion>>
  called                  \* history: <<address, sequence>> whose callback was called

vars == <<now, steady, armed, readable, active, heap, created, timers_,
          activeTimers_, cancelingTimers_, callingExpiredTimers_, expired, todo, at, pending,
          adding, ids, inserted, cancelled, called>>

wall == <<now, steady>>
clock == <<now, steady, armed, readable, active>>
lists == <<timers_, activeTimers_>>
batch == <<cancelingTimers_, callingExpiredTimers_, expired, todo, at>>
remote == <<pending, adding>>
history == <<inserted, cancelled, called>>

Free == [sequence |-> 0, expiration |-> 0, interval |-> 0]
Timer == [sequence : Nat, expiration : Nat, interval : Nat]
ActiveTimer == Addrs \X Nat
Entry == Nat \X Addrs
Functor == [op : {"add", "cancel"}, id : ActiveTimer]
NoTimer == <<0, 0>>

TypeOK ==
  /\ now \in Nat /\ armed \in Nat /\ at \in Nat /\ created \in Nat
  /\ steady \in BOOLEAN /\ readable \in BOOLEAN /\ active \in BOOLEAN /\ callingExpiredTimers_ \in BOOLEAN
  /\ heap \in [Addrs -> Timer]
  /\ timers_ \subseteq Entry /\ expired \subseteq Entry /\ todo \subseteq expired
  /\ activeTimers_ \subseteq ActiveTimer /\ cancelingTimers_ \subseteq ActiveTimer
  /\ pending \in Seq(Functor)
  /\ adding \in ActiveTimer \cup {NoTimer}
  /\ ids \subseteq ActiveTimer
  /\ inserted \subseteq Addrs \X Nat \X Nat /\ cancelled \subseteq Addrs \X Nat \X BOOLEAN
  /\ called \subseteq ActiveTimer

Init ==
  /\ now = 1 /\ steady = TRUE /\ armed = 0 /\ at = 0 /\ created = 0
  /\ readable = FALSE /\ active = FALSE /\ callingExpiredTimers_ = FALSE
  /\ heap = [a \in Addrs |-> Free]
  /\ timers_ = {} /\ expired = {} /\ todo = {}
  /\ activeTimers_ = {} /\ cancelingTimers_ = {}
  /\ pending = <<>> /\ adding = NoTimer /\ ids = {}
  /\ inserted = {} /\ cancelled = {} /\ called = {}

-----------------------------------------------------------------------------
(* Operators.                                                              *)

\* Mutant of Delay: a time in the past is not rounded up.
DelayUnrounded(when) == when - now

\* howMuchTimeFromNow(): at least one tick, also for a time in the past.
Delay(when) == IF when - now < 1 THEN 1 ELSE when - now

\* resetTimerfd(): timerfd_settime() drops an expiration not read yet.
ResetTimerfd(when) ==
  /\ armed' = Delay(when)
  /\ readable' = FALSE

Earliest(entries) == CHOOSE w \in {e[1] : e \in entries} : \A e \in entries : w <= e[1]

\* The order of std::pair<Timestamp, Timer*>.
Before(e, f) == e[1] < f[1] \/ (e[1] = f[1] /\ e[2] <= f[2])

\* new Timer at a free address.
NewTimer(a, when, interval) ==
  /\ created < MaxTimers
  /\ heap[a].sequence = 0
  /\ created' = created + 1
  /\ heap' = [heap EXCEPT ![a] =
       [sequence |-> created + 1, expiration |-> when, interval |-> interval]]

\* Mutant of EarliestChanged: an earlier timer does not re-arm the timerfd.
OnlyFirstChanges(when) == timers_ = {}

EarliestChanged(when) == \A e \in timers_ : when < e[1]

\* insert() followed by the resetTimerfd() of addTimerInLoop().
AddTimerInLoop(a, seq, when, interval) ==
  /\ timers_' = timers_ \cup {<<when, a>>}
  /\ activeTimers_' = activeTimers_ \cup {<<a, seq>>}
  /\ inserted' = inserted \cup {<<a, seq, interval>>}
  /\ IF EarliestChanged(when) THEN ResetTimerfd(when) ELSE UNCHANGED <<armed, readable>>

\* Mutant of FindActive: a timer is looked up by its address alone.
FindByAddress(id) == {t \in activeTimers_ : t[1] = id[1]}

\* activeTimers_.find(timer)
FindActive(id) == activeTimers_ \cap {id}

\* Mutant of Cancelling: a timer whose callback runs cannot be cancelled.
NoCancelling(id) == cancelingTimers_

\* cancelingTimers_.insert(timer), for a timer already moved out of the lists.
Cancelling(id) ==
  IF callingExpiredTimers_ THEN cancelingTimers_ \cup {id} ELSE cancelingTimers_

WasInserted(id) == \E t \in inserted : t[1] = id[1] /\ t[2] = id[2]

CancelInLoop(id) ==
  /\ cancelled' = cancelled \cup {<<id[1], id[2], WasInserted(id)>>}
  /\ IF FindActive(id) # {}
     THEN /\ timers_' = timers_ \ {<<heap[id[1]].expiration, id[1]>>}
          /\ activeTimers_' = activeTimers_ \ FindActive(id)
          /\ heap' = [heap EXCEPT ![id[1]] = Free]
          /\ UNCHANGED cancelingTimers_
     ELSE /\ cancelingTimers_' = Cancelling(id)
          /\ UNCHANGED <<timers_, activeTimers_, heap>>
  /\ UNCHANGED <<armed, readable>>

-----------------------------------------------------------------------------
(* The loop thread.                                                        *)

\* User code runs in the loop thread between two events, and in a callback of
\* an expired timer.
InUserCode == callingExpiredTimers_ => todo # expired

\* addTimer() in the loop thread.
AddTimer(a, when, interval) ==
  /\ InUserCode
  /\ NewTimer(a, when, interval)
  /\ AddTimerInLoop(a, created + 1, when, interval)
  /\ ids' = ids \cup {<<a, created + 1>>}
  /\ UNCHANGED <<wall, active, batch, remote, cancelled, called>>

\* cancel() in the loop thread, of any timer somebody has an id of.
Cancel(id) ==
  /\ InUserCode
  /\ CancelInLoop(id)
  /\ UNCHANGED <<wall, active, created, callingExpiredTimers_, expired, todo, at,
                 remote, ids, inserted, called>>

\* doPendingFunctors() calls the functor of a cross-thread addTimer().
RunAdd ==
  /\ ~callingExpiredTimers_
  /\ pending # <<>>
  /\ Head(pending).op = "add"
  /\ LET id == Head(pending).id
         timer == heap[id[1]]
     IN AddTimerInLoop(id[1], id[2], timer.expiration, timer.interval)
  /\ pending' = Tail(pending)
  /\ UNCHANGED <<wall, active, heap, created, batch, adding, ids, cancelled, called>>

\* ... and of a cross-thread cancel().
RunCancel ==
  /\ ~callingExpiredTimers_
  /\ pending # <<>>
  /\ Head(pending).op = "cancel"
  /\ CancelInLoop(Head(pending).id)
  /\ pending' = Tail(pending)
  /\ UNCHANGED <<wall, active, created, callingExpiredTimers_, expired, todo, at,
                 adding, ids, inserted, called>>

\* poll() reports the timerfd.
PollTimerfd ==
  /\ ~callingExpiredTimers_
  /\ readable
  /\ ~active
  /\ active' = TRUE
  /\ UNCHANGED <<wall, armed, readable, heap, created, lists, batch, remote, ids, history>>

\* The timers up to the sentry of getExpired().
Expired(t) == {e \in timers_ : e[1] <= t}

\* Mutant of ActiveAfter: the expired timers stay in activeTimers_.
ActiveAfterNothing(moved) == activeTimers_

\* The loop of getExpired() that erases the expired timers from activeTimers_.
ActiveAfter(moved) == activeTimers_ \ {<<e[2], heap[e[2]].sequence>> : e \in moved}

\* handleRead() up to the callbacks: read the timerfd, getExpired().  The read
\* finds nothing when a callback re-armed the timerfd after the poll.
HandleRead ==
  /\ ~callingExpiredTimers_
  /\ active
  /\ active' = FALSE
  /\ readable' = FALSE
  /\ at' = now
  /\ expired' = Expired(now)
  /\ todo' = expired'
  /\ timers_' = timers_ \ expired'
  /\ activeTimers_' = ActiveAfter(expired')
  /\ callingExpiredTimers_' = TRUE
  /\ cancelingTimers_' = {}
  /\ UNCHANGED <<wall, armed, heap, created, remote, ids, history>>

\* it.second->run(), in the order of the set.
RunTimer(e) ==
  /\ callingExpiredTimers_
  /\ e \in todo
  /\ \A f \in todo : Before(e, f)
  /\ todo' = todo \ {e}
  /\ called' = called \cup {<<e[2], heap[e[2]].sequence>>}
  /\ UNCHANGED <<clock, heap, created, lists, cancelingTimers_, callingExpiredTimers_,
                 expired, at, remote, ids, inserted, cancelled>>

\* Mutant of Restarted: one-shot timers are restarted too.
RestartedAll == {e \in expired : <<e[2], heap[e[2]].sequence>> \notin cancelingTimers_}

\* The expired timers reset() restarts; it deletes the others.
Restarted == {e \in expired : heap[e[2]].interval > 0
                              /\ <<e[2], heap[e[2]].sequence>> \notin cancelingTimers_}

\* Mutant of Rearm: the timerfd is left as handleRead() found it.
RearmNever == UNCHANGED <<armed, readable>>

\* The end of reset(): arm the timerfd for the earliest of the timers, if any.
Rearm ==
  IF timers_' # {} THEN ResetTimerfd(Earliest(timers_')) ELSE UNCHANGED <<armed, readable>>

\* The end of handleRead(): reset().
Reset ==
  /\ callingExpiredTimers_
  /\ todo = {}
  /\ callingExpiredTimers_' = FALSE
  /\ expired' = {}
  /\ LET again == {e[2] : e \in Restarted}
         gone == {e[2] : e \in expired} \ again
     IN /\ heap' = [a \in Addrs |->
             IF a \in gone THEN Free
             ELSE IF a \in again
                  THEN [heap[a] EXCEPT !.expiration = at + heap[a].interval]
                  ELSE heap[a]]
        /\ timers_' = timers_ \cup {<<at + heap[a].interval, a>> : a \in again}
        /\ activeTimers_' = activeTimers_ \cup {<<a, heap[a].sequence>> : a \in again}
  /\ Rearm
  /\ UNCHANGED <<wall, active, created, cancelingTimers_, todo, at, remote, ids, history>>

-----------------------------------------------------------------------------
(* The other thread.                                                       *)

\* addTimer(): new Timer and runInLoop().
RemoteAdd(a, when, interval) ==
  /\ adding = NoTimer
  /\ Len(pending) < MaxPending
  /\ NewTimer(a, when, interval)
  /\ pending' = Append(pending, [op |-> "add", id |-> <<a, created + 1>>])
  /\ adding' = <<a, created + 1>>
  /\ UNCHANGED <<clock, lists, batch, ids, history>>

\* return TimerId(timer, timer->sequence()).  By now the timer may be deleted:
\* the read then finds the old sequence, or the one of the timer that has
\* been given the address since, or neither.
RemoteReturn ==
  /\ adding # NoTimer
  /\ \E seq \in {adding[2], heap[adding[1]].sequence} : ids' = ids \cup {<<adding[1], seq>>}
  /\ adding' = NoTimer
  /\ UNCHANGED <<clock, heap, created, lists, batch, pending, history>>

RemoteCancel(id) ==
  /\ adding = NoTimer
  /\ Len(pending) < MaxPending
  /\ pending' = Append(pending, [op |-> "cancel", id |-> id])
  /\ UNCHANGED <<clock, heap, created, lists, batch, adding, ids, history>>

-----------------------------------------------------------------------------
(* Time.                                                                   *)

Tick ==
  /\ now < MaxTime
  /\ now' = now + 1
  /\ armed' = IF armed > 0 THEN armed - 1 ELSE 0
  /\ readable' = (readable \/ armed = 1)
  /\ UNCHANGED <<steady, active, heap, created, lists, batch, remote, ids, history>>

\* Somebody sets the wall clock.
SetClock(jump) ==
  /\ now' \in {now + jump, now - jump} \cap 1 .. MaxTime
  /\ steady' = FALSE
  /\ UNCHANGED <<armed, readable, active, heap, created, lists, batch, remote, ids, history>>

Next ==
  \/ \E a \in Addrs, when \in 1 .. MaxTime, interval \in Intervals :
       AddTimer(a, when, interval) \/ RemoteAdd(a, when, interval)
  \/ \E id \in ids : Cancel(id) \/ RemoteCancel(id)
  \/ RunAdd \/ RunCancel
  \/ PollTimerfd \/ HandleRead \/ Reset
  \/ \E e \in todo : RunTimer(e)
  \/ RemoteReturn
  \/ Tick
  \/ \E jump \in Jumps : SetClock(jump)

Spec == Init /\ [][Next]_vars

-----------------------------------------------------------------------------
(* Properties.                                                             *)

Id(e) == <<e[2], heap[e[2]].sequence>>

\* timers_ and activeTimers_ hold the same timers (the assertions on their
\* sizes and on erase() in every operation of TimerQueue), and what they and
\* the batch of handleRead() point to is an allocated Timer, in one place only.
ListsAgree ==
  /\ TypeOK
  /\ \A e \in timers_ \cup expired :
       heap[e[2]].sequence > 0 /\ heap[e[2]].expiration = e[1]
  /\ activeTimers_ = {Id(e) : e \in timers_}
  /\ timers_ \cap expired = {}

\* No timer is lost: one that was inserted and not cancelled is in the lists or
\* in the batch of handleRead(), unless it is one-shot and was called.  A
\* cancel() with a stale TimerId, whose address has been reused, harms nobody.
NoTimerLost ==
  \A t \in inserted :
    LET id == <<t[1], t[2]>> IN
      \/ id \in activeTimers_
      \/ \E e \in expired : Id(e) = id
      \/ \E c \in cancelled : <<c[1], c[2]>> = id
      \/ t[3] = 0 /\ id \in called

\* cancel() of an inserted timer takes effect, also from the timer's own
\* callback: no such timer is left in the lists once handleRead() is done.  A
\* one-shot timer leaves them by being called, once.
CancelTakesEffect ==
  /\ ~callingExpiredTimers_ =>
       \A c \in cancelled : c[3] => <<c[1], c[2]>> \notin activeTimers_
  /\ \A e \in todo : heap[e[2]].interval = 0 => Id(e) \notin called

\* The timerfd never sleeps past the earliest timer, whatever was added and
\* cancelled from callbacks and functors: it is readable, reported, or armed for
\* no later than that timer.  When somebody sets the wall clock it may fire early
\* or late, but as long as there is a timer it does fire.
AlarmInTime ==
  timers_ # {} /\ ~callingExpiredTimers_ =>
    \/ readable \/ active
    \/ armed > 0 /\ (steady => armed <= Delay(Earliest(timers_)))

\* EventLoop::cancel() is documented to cancel the timer: a timer that was in
\* the queue when it was cancelled is not called any more.
CancelledNotCalled ==
  [][\A c \in cancelled : c[3] /\ <<c[1], c[2]>> \notin called => <<c[1], c[2]>> \notin called']_vars

\* The same for a timer added by another thread whose functor has not run yet.
CancelledEarlyNotCalled ==
  [][\A c \in cancelled : ~c[3] => <<c[1], c[2]>> \notin called']_vars

\* addTimer() must be thread safe: when the caller comes to read the sequence
\* of its timer for the TimerId, the timer is still there.
SequenceReadIsValid == adding # NoTimer => heap[adding[1]].sequence = adding[2]
=============================================================================
