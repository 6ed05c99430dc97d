------------------------------- MODULE Poller -------------------------------
(***************************************************************************)
(* What muduo/net/Poller.h promises a loop, whatever poller implements it: *)
(* for every channel what it is watched for, and in each iteration a set   *)
(* of channels with events they are watched for.                           *)
(***************************************************************************)
CONSTANTS
  Channels,
  Types,     \* of events
  Absent,    \* a channel that is not in the poller
  Ignored    \* a channel that is in the poller and watched for nothing

VARIABLES
  watch,     \* for each channel Absent, Ignored or the events it is watched for
  reports    \* <<channel, events>> of the last poll()

Init ==
  /\ watch = [c \in Channels |-> Absent]
  /\ reports = {}

\* updateChannel().  Disabling a channel that has events silences it; one that
\* has none may come to be watched for errors and hangups, which need no events.
Update(c, events) ==
  /\ UNCHANGED reports
  /\ watch' = [watch EXCEPT ![c] = events]

Disable(c) ==
  /\ UNCHANGED reports
  /\ \/ watch' = [watch EXCEPT ![c] = Ignored]
     \/ watch[c] \in {Absent, Ignored} /\ watch' = [watch EXCEPT ![c] = {}]

\* removeChannel()
Remove(c) ==
  /\ UNCHANGED reports
  /\ watch[c] # Absent
  /\ watch' = [watch EXCEPT ![c] = Absent]

\* poll()
Poll ==
  /\ UNCHANGED watch
  /\ \A r \in reports' :
       /\ r[1] \in Channels /\ watch[r[1]] \notin {Absent, Ignored}
       /\ r[2] # {} /\ r[2] \subseteq watch[r[1]] \cup {"hup"}

Next ==
  \/ Poll
  \/ \E c \in Channels :
       (\E events \in (SUBSET Types) \ {{}} : Update(c, events)) \/ Disable(c) \/ Remove(c)

Spec == Init /\ [][Next]_<<watch, reports>>
=============================================================================
