--------------------------- MODULE IdleConnection ---------------------------
(***************************************************************************)
(* The two echo servers of examples/idleconnection that shut down idle     *)
(* connections: the timing wheel of echo.cc, a ring of idleSeconds buckets *)
(* of reference-counted entries, and the list of sortedlist.cc, kept in    *)
(* the order of the last message.  Their timer fires every second; time is *)
(* counted in those seconds.  The clock may be set back once: the timers   *)
(* compare against the wall clock, so they wait until it has caught up.    *)
(***************************************************************************)
EXTENDS Integers, Sequences, SequencesExt

CONSTANTS Conns, idleSeconds, kDelay, MaxNow,
          kJump               \* how far the clock is set back

VARIABLES kind,               \* "wheel" or "list"
          now,                \* seconds shown by the clock
          conn,               \* state of the connections
          connectionBuckets_, \* echo.cc
          connectionList_,    \* sortedlist.cc
          lastReceiveTime,    \* Node::lastReceiveTime
          expiration,         \* of the periodic timer
          closeAt,            \* when forceCloseWithDelay closes, 0 if it does not
          jumped,             \* the clock was set back
          idle                \* seconds of the timer since the last message

vars == <<kind, now, conn, connectionBuckets_, connectionList_, lastReceiveTime,
          expiration, closeAt, jumped, idle>>

Init ==
  /\ kind \in {"wheel", "list"}
  /\ now = 1
  /\ conn = [c \in Conns |-> "none"]
  /\ connectionBuckets_ = [i \in 1..idleSeconds |-> {}]
  /\ connectionList_ = <<>>
  /\ lastReceiveTime = [c \in Conns |-> 0]
  /\ expiration = 2
  /\ closeAt = [c \in Conns |-> 0]
  /\ jumped = FALSE
  /\ idle = [c \in Conns |-> 0]

(* The entry of a connection is alive while some bucket holds it. *)
Entries(buckets) == UNION {buckets[i] : i \in DOMAIN buckets}
(* Mutant of Back: the entry goes into the bucket that is dropped next. *)
InFront(buckets, c) == [buckets EXCEPT ![1] = @ \cup {c}]
Back(buckets, c) == [buckets EXCEPT ![Len(buckets)] = @ \cup {c}]

onConnectionUp(c) ==
  /\ conn[c] = "none"
  /\ conn' = [conn EXCEPT ![c] = "up"]
  /\ \/ /\ kind = "wheel"
        /\ connectionBuckets_' = Back(connectionBuckets_, c)
        /\ UNCHANGED <<connectionList_, lastReceiveTime>>
     \/ /\ kind = "list"
        /\ connectionList_' = Append(connectionList_, c)
        /\ lastReceiveTime' = [lastReceiveTime EXCEPT ![c] = now]
        /\ UNCHANGED connectionBuckets_
  /\ UNCHANGED <<kind, now, expiration, closeAt, jumped, idle>>

(* A connection whose write side is shut still receives. *)
onMessage(c) ==
  /\ conn[c] \in {"up", "shut"}
  /\ \/ /\ kind = "wheel"
        /\ connectionBuckets_' = IF c \in Entries(connectionBuckets_)
                                 THEN Back(connectionBuckets_, c)
                                 ELSE connectionBuckets_
        /\ UNCHANGED <<connectionList_, lastReceiveTime>>
     \/ /\ kind = "list"
        /\ lastReceiveTime' = [lastReceiveTime EXCEPT ![c] = now]
        /\ connectionList_' = Append(SelectSeq(connectionList_, LAMBDA d : d # c), c)
        /\ UNCHANGED connectionBuckets_
  /\ idle' = [idle EXCEPT ![c] = IF conn[c] = "up" THEN 0 ELSE @]
  /\ UNCHANGED <<kind, now, conn, expiration, closeAt, jumped>>

onConnectionDown(c) ==
  /\ conn[c] \in {"up", "shut"}
  /\ conn' = [conn EXCEPT ![c] = "down"]
  /\ connectionList_' = SelectSeq(connectionList_, LAMBDA d : d # c)
  /\ UNCHANGED <<kind, now, connectionBuckets_, lastReceiveTime, expiration, closeAt,
                 jumped, idle>>

-----------------------------------------------------------------------------
(* push_back of an empty bucket drops the oldest one; the destructor of an *)
(* entry that no other bucket holds shuts its connection down.             *)
onTimerWheel ==
  LET pushed == Append(Tail(connectionBuckets_), {})
      gone == Entries(connectionBuckets_) \ Entries(pushed)
  IN  /\ connectionBuckets_' = pushed
      /\ conn' = [c \in Conns |-> IF c \in gone /\ conn[c] = "up" THEN "shut" ELSE conn[c]]
      /\ UNCHANGED <<connectionList_, lastReceiveTime, closeAt>>

(* The loop stops at the first connection that is not idle for longer than *)
(* idleSeconds; it moves the time of one that lies in the future to now.   *)
onTimerList(t) ==
  LET age(c) == t - lastReceiveTime[c]
      young == {i \in DOMAIN connectionList_ : age(connectionList_[i]) \in 0..idleSeconds}
      seen == {connectionList_[i] : i \in {j \in DOMAIN connectionList_ :
                                             \A k \in young : j < k}}
      old == {c \in seen : age(c) > idleSeconds /\ conn[c] = "up"}
      due == {c \in Conns : closeAt[c] \in 1..t /\ conn[c] # "down"}
  IN  /\ conn' = [c \in Conns |-> IF c \in due THEN "down"
                                  ELSE IF c \in old THEN "shut" ELSE conn[c]]
      /\ closeAt' = [c \in Conns |-> IF c \in old THEN t + kDelay ELSE closeAt[c]]
      /\ lastReceiveTime' = [c \in Conns |-> IF c \in seen /\ age(c) < 0 THEN t
                                             ELSE lastReceiveTime[c]]
      /\ connectionList_' = SelectSeq(connectionList_, LAMBDA c : c \notin due)
      /\ UNCHANGED connectionBuckets_

(* One second passes.  If the periodic timer has expired it fires, with    *)
(* the delayed close of a connection if that is due, and is set again.     *)
onTimer ==
  /\ now < MaxNow
  /\ now' = now + 1
  /\ IF now + 1 >= expiration
     THEN /\ expiration' = now + 2
          /\ \/ kind = "wheel" /\ onTimerWheel
             \/ kind = "list" /\ onTimerList(now + 1)
     ELSE UNCHANGED <<expiration, conn, connectionBuckets_, connectionList_,
                      lastReceiveTime, closeAt>>
  /\ idle' = [c \in Conns |-> IF conn[c] = "up" THEN idle[c] + 1 ELSE idle[c]]
  /\ UNCHANGED <<kind, jumped>>

TimeJump ==
  /\ ~jumped /\ now > kJump
  /\ now' = now - kJump
  /\ jumped' = TRUE
  /\ UNCHANGED <<kind, conn, connectionBuckets_, connectionList_, lastReceiveTime,
                 expiration, closeAt, idle>>

Next == \/ \E c \in Conns : onConnectionUp(c) \/ onMessage(c) \/ onConnectionDown(c)
        \/ onTimer \/ TimeJump
Spec == Init /\ [][Next]_vars

-----------------------------------------------------------------------------
TypeOK ==
  /\ \A c \in Conns : conn[c] \in {"none", "up", "shut", "down"}
  /\ Len(connectionBuckets_) = idleSeconds
  /\ kind = "wheel" => connectionList_ = <<>>

(* The bookkeeping follows the connections: an open connection that has    *)
(* not been shut has an entry in the wheel, and the list holds every open  *)
(* connection once, by the time of its last message.                       *)
ListAgrees ==
  /\ kind = "wheel" => \A c \in Conns : conn[c] = "up" <=>
       c \in Entries(connectionBuckets_) /\ conn[c] # "down"
  /\ kind = "list" =>
       /\ ToSet(connectionList_) = {c \in Conns : conn[c] \in {"up", "shut"}}
       /\ IsInjective(connectionList_)
       /\ ~jumped => \A i, j \in DOMAIN connectionList_ : i < j =>
            lastReceiveTime[connectionList_[i]] <= lastReceiveTime[connectionList_[j]]

(* A connection is shut down for idleness when, and not before, it has     *)
(* been silent: after idleSeconds seconds in the wheel, at the first one   *)
(* beyond idleSeconds in the list, where it is closed kDelay seconds later.*)
(* A clock that is set back delays that by as much as it was set back.     *)
ShutOnTime ==
  LET limit == IF kind = "wheel" THEN idleSeconds ELSE idleSeconds + 1
      late == IF jumped THEN kJump ELSE 0
  IN  \A c \in Conns :
        /\ conn[c] = "up" => idle[c] < limit + late
        /\ conn[c] = "shut" => idle[c] \in limit..(limit + late)
        /\ conn[c] = "shut" /\ kind = "list" =>
             closeAt[c] > now /\ closeAt[c] <= now + kDelay + late
=============================================================================
