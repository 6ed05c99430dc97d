-------------------------------- MODULE Chat ---------------------------------
(***************************************************************************)
(* The chat servers with several I/O threads of examples/asio/chat.  They   *)
(* differ in how a message gets to all the connections while connections    *)
(* come and go in other threads:                                            *)
(*   "mutex"  server_threaded.cc holds a mutex while it sends;              *)
(*   "cow"    server_threaded_efficient.cc shares the list of connections,  *)
(*            and copies it on write;                                       *)
(*   "local"  server_threaded_highperformance.cc has a list in each thread. *)
(* A message sent to a connection of another thread goes through a functor  *)
(* of that thread's loop.                                                   *)
(***************************************************************************)
EXTENDS Integers, Sequences, FiniteSets, Functions

CONSTANTS Loops, Conns, LoopOf(_), Messages

VARIABLES server,
          conn,           \* "new", "up" or "down"
          mutex_,         \* the loop that holds it, in "mutex"
          lists, connections_,   \* the lists of connections, and the current one
          local,          \* LocalConnections::instance() of each loop
          sending,        \* what each loop sends: the message, the list, who is left
          functors, posted,
          owed,           \* who was there when a message was posted
          received
vars == <<server, conn, mutex_, lists, connections_, local, sending, functors, posted, owed, received>>

None == "none"
Nothing == [message |-> None, list |-> 0, todo |-> {}]
ListIds == 1..(Cardinality(Loops) + 1)

Init ==
  /\ server \in {"mutex", "cow", "local"}
  /\ conn = [c \in Conns |-> "new"]
  /\ mutex_ = None
  /\ lists = [i \in ListIds |-> {}] /\ connections_ = 1
  /\ local = [l \in Loops |-> {}]
  /\ sending = [l \in Loops |-> Nothing] /\ functors = [l \in Loops |-> <<>>]
  /\ posted = {} /\ owed = [m \in Messages |-> {}]
  /\ received = [c \in Conns |-> <<>>]

-----------------------------------------------------------------------------
Idle(l) == sending[l] = Nothing
Used(i) == connections_ = i \/ \E l \in Loops : sending[l].list = i
\* Mutant of unique: the list is never copied.
neverCopied == TRUE
unique == \A l \in Loops : sending[l].list # connections_

\* onConnection() of the three servers, which inserts or erases the connection: S is
\* the new list.
mutexChange(S) ==
  /\ server = "mutex" /\ mutex_ = None
  /\ lists' = [lists EXCEPT ![connections_] = S]
  /\ UNCHANGED <<connections_, local>>

cowChange(S) ==
  LET i == IF unique THEN connections_ ELSE CHOOSE j \in ListIds : ~ Used(j) IN
  /\ server = "cow"
  /\ lists' = [lists EXCEPT ![i] = S] /\ connections_' = i
  /\ UNCHANGED local

localChange(l, S) ==
  /\ server = "local"
  /\ local' = [local EXCEPT ![l] = S]
  /\ UNCHANGED <<lists, connections_>>

Change(l, S) == mutexChange(S) \/ cowChange(S) \/ localChange(l, S)

Current(l) == IF server = "local" THEN local[l] ELSE lists[connections_]

onConnectionUp(c) ==
  /\ conn[c] = "new" /\ Idle(LoopOf(c))
  /\ conn' = [conn EXCEPT ![c] = "up"]
  /\ Change(LoopOf(c), Current(LoopOf(c)) \union {c})
  /\ UNCHANGED <<server, mutex_, sending, functors, posted, owed, received>>

onConnectionDown(c) ==
  /\ conn[c] = "up" /\ Idle(LoopOf(c))
  /\ conn' = [conn EXCEPT ![c] = "down"]
  /\ Change(LoopOf(c), Current(LoopOf(c)) \ {c})
  /\ UNCHANGED <<server, mutex_, sending, functors, posted, owed, received>>

\* A message of a connection arrives: it is owed to those that are up.
Post(c, m) ==
  /\ conn[c] = "up" /\ Idle(LoopOf(c)) /\ m \notin posted
  /\ posted' = posted \union {m}
  /\ owed' = [owed EXCEPT ![m] = {d \in Conns : conn[d] = "up"}]
  /\ UNCHANGED <<server, conn, lists, connections_, local, received>>

StartSending(l, m) ==
  /\ sending' = [sending EXCEPT ![l] = [message |-> m, list |-> connections_,
                                        todo |-> lists[connections_]]]
  /\ UNCHANGED functors

\* onStringMessage(): the mutex is taken, and held to the end; or the list is taken,
\* under the mutex; or the message is queued in every loop.
mutexOnStringMessage(c, m) ==
  /\ server = "mutex" /\ Post(c, m)
  /\ mutex_ = None /\ mutex_' = LoopOf(c)
  /\ StartSending(LoopOf(c), m)

getConnectionList(c, m) ==
  /\ server = "cow" /\ Post(c, m)
  /\ StartSending(LoopOf(c), m) /\ UNCHANGED mutex_

localOnStringMessage(c, m) ==
  /\ server = "local" /\ Post(c, m)
  /\ functors' = [k \in Loops |-> Append(functors[k], [what |-> "distribute", conn |-> c, message |-> m])]
  /\ UNCHANGED <<sending, mutex_>>

onStringMessage(c, m) ==
  mutexOnStringMessage(c, m) \/ getConnectionList(c, m) \/ localOnStringMessage(c, m)

\* codec_.send() to one more connection of the list, in the order of the set.
sendNext(l, c) ==
  /\ c \in sending[l].todo
  /\ sending' = [sending EXCEPT ![l].todo = @ \ {c}]
  /\ IF LoopOf(c) = l
     THEN /\ received' = [received EXCEPT ![c] = IF conn[c] = "up" THEN Append(@, sending[l].message) ELSE @]
          /\ UNCHANGED functors
     ELSE /\ functors' = IF conn[c] # "up" THEN functors
                         ELSE [functors EXCEPT ![LoopOf(c)] =
                                 Append(@, [what |-> "send", conn |-> c, message |-> sending[l].message])]
          /\ UNCHANGED received
  /\ UNCHANGED <<server, conn, mutex_, lists, connections_, local, posted, owed>>

\* The end of onStringMessage(): the mutex, and the reference to the list, go.
sendDone(l) ==
  /\ ~ Idle(l) /\ sending[l].todo = {}
  /\ sending' = [sending EXCEPT ![l] = Nothing]
  /\ mutex_' = IF mutex_ = l THEN None ELSE mutex_
  /\ UNCHANGED <<server, conn, lists, connections_, local, functors, posted, owed, received>>

\* Whom distributeMessage() sends to.
distributeMessage(l) == local[l]

\* A functor of the loop: TcpConnection::sendInLoop(), or distributeMessage().
callFunctor(l) ==
  /\ Idle(l) /\ functors[l] # <<>>
  /\ LET f == Head(functors[l])
         to == IF f.what = "send" THEN {f.conn} ELSE distributeMessage(l)
     IN received' = [c \in Conns |-> IF c \in to /\ conn[c] = "up"
                                     THEN Append(received[c], f.message) ELSE received[c]]
  /\ functors' = [functors EXCEPT ![l] = Tail(@)]
  /\ UNCHANGED <<server, conn, mutex_, lists, connections_, local, sending, posted, owed>>

Next ==
  \/ \E c \in Conns : onConnectionUp(c) \/ onConnectionDown(c) \/ \E m \in Messages : onStringMessage(c, m)
  \/ \E l \in Loops : sendDone(l) \/ callFunctor(l) \/ \E c \in Conns : sendNext(l, c)

Spec == Init /\ [][Next]_vars

-----------------------------------------------------------------------------
TypeOK ==
  /\ conn \in [Conns -> {"new", "up", "down"}] /\ connections_ \in ListIds
  /\ \A l \in Loops : local[l] \subseteq {c \in Conns : LoopOf(c) = l}

\* The list of connections is that of the connections that are up; no entry stays
\* behind and none is missing.
ListAgrees ==
  {c \in Conns : conn[c] = "up"} =
    IF server = "local" THEN UNION {local[l] : l \in Loops} ELSE lists[connections_]

\* A message is sent once to every connection that was up when it was posted and
\* still is, in whatever order the threads run.
EveryoneReceives ==
  /\ \A c \in Conns : IsInjective(received[c])
  /\ (\A l \in Loops : Idle(l) /\ functors[l] = <<>>) =>
       \A m \in posted, c \in Conns : c \in owed[m] /\ conn[c] = "up" => m \in Range(received[c])

\* "the writer modifies another copy": a list is not changed while a thread that
\* does not hold the mutex walks over it.
ListsReadOnly ==
  \A l \in Loops : sending[l].list # 0 /\ sending'[l].list = sending[l].list =>
    lists'[sending[l].list] = lists[sending[l].list]
==============================================================================
