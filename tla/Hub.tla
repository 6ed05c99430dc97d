-------------------------------- MODULE Hub ----------------------------------
(***************************************************************************)
(* examples/hub: a publish-subscribe hub (hub.cc), and its clients          *)
(* (pubsub.cc, pub.cc, sub.cc), who talk in lines (codec.cc); a publication *)
(* is two lines, which may arrive apart.  The hub keeps the last content of *)
(* a topic for those who subscribe later.  Contents are numbered.           *)
(***************************************************************************)
EXTENDS Integers, Sequences, SequencesExt, FiniteSets

CONSTANTS Conns, Topics, Time,    \* Time is the topic of timePublish()
          Scripts,                \* Scripts[c]: what client c may send
          MaxTimes

VARIABLES script, conn, lines,    \* lines: what the hub received and has not parsed
          connSub,                \* the ConnectionSubscription of a connection
          audiences_, content_,   \* of each topic; content 0: never published
          got, since              \* what a client received; its content at subscription
vars == <<script, conn, lines, connSub, audiences_, content_, got, since>>

Init ==
  /\ script = [c \in Conns |-> <<>>]
  /\ conn = [c \in Conns |-> "new"]
  /\ lines = [c \in Conns |-> <<>>]
  /\ connSub = [c \in Conns |-> {}]
  /\ audiences_ = [t \in Topics |-> {}] /\ content_ = [t \in Topics |-> 0]
  /\ got = [c \in Conns |-> <<>>]
  /\ since = [c \in Conns |-> [t \in Topics |-> 0]]

-----------------------------------------------------------------------------
\* PubSubClient::onConnection(), and the callbacks of pub.cc and sub.cc, which send
\* their commands as soon as they are connected.
onConnectionUp(c, s) ==
  /\ conn[c] = "new"
  /\ conn' = [conn EXCEPT ![c] = "up"]
  /\ script' = [script EXCEPT ![c] = s]
  /\ connSub' = [connSub EXCEPT ![c] = {}]
  /\ UNCHANGED <<lines, audiences_, content_, got, since>>

\* Lines of a client arrive, some or all of them, also after shutdown(), which ends
\* only the other direction: onMessage() is called again.
Arrive(c) ==
  /\ conn[c] \in {"up", "shutdown", "parsing"} /\ script[c] # <<>>
  /\ conn' = [conn EXCEPT ![c] = IF @ = "up" THEN @ ELSE "parsing"]
  /\ \E n \in 1..Len(script[c]) :
       /\ lines' = [lines EXCEPT ![c] = @ \o SubSeq(script[c], 1, n)]
       /\ script' = [script EXCEPT ![c] = SubSeq(@, n + 1, Len(@))]
  /\ UNCHANGED <<connSub, audiences_, content_, got, since>>

\* parseMessage(): "sub" and "unsub" are a line, "pub" is two; a line without a
\* space is an error, and stays in the buffer.
parseMessage(buf) ==
  CASE buf = <<>> -> "kContinue"
    [] buf # <<>> /\ buf[1].cmd = "nospace" -> "kError"
    [] buf # <<>> /\ buf[1].cmd = "pub" /\ Len(buf) = 1 -> "kContinue"
    [] OTHER -> "kSuccess"
Consumed(buf) == IF buf[1].cmd = "pub" THEN 2 ELSE 1

\* TcpConnection::send(), which does nothing once the connection is shut down.
Send(to, t, n) ==
  [c \in Conns |-> IF c \in to /\ conn[c] = "up"
                   THEN Append(got[c], [topic |-> t, content |-> n]) ELSE got[c]]

\* Topic::publish() to the audience.
publish(t) ==
  /\ content_' = [content_ EXCEPT ![t] = @ + 1]
  /\ got' = Send(audiences_[t], t, content_[t] + 1)

doPublish(t) == publish(t) /\ UNCHANGED <<connSub, audiences_, since>>

\* Topic::add() sends the last content.
add(c, t) ==
  /\ audiences_' = [audiences_ EXCEPT ![t] = @ \union {c}]
  /\ got' = IF content_[t] > 0 THEN Send({c}, t, content_[t]) ELSE got

doSubscribe(c, t) ==
  /\ connSub' = [connSub EXCEPT ![c] = @ \union {t}]
  /\ add(c, t)
  /\ since' = [since EXCEPT ![c][t] = content_[t]]
  /\ UNCHANGED content_

\* Mutant of doUnsubscribe: the topic stays among those of the connection.
doUnsubscribeTopic(c, ts) ==
  /\ audiences_' = [t \in Topics |-> IF t \in ts THEN audiences_[t] \ {c} ELSE audiences_[t]]
  /\ UNCHANGED <<connSub, content_, got, since>>

doUnsubscribe(c, ts) ==
  /\ audiences_' = [t \in Topics |-> IF t \in ts THEN audiences_[t] \ {c} ELSE audiences_[t]]
  /\ connSub' = [connSub EXCEPT ![c] = @ \ ts]
  /\ UNCHANGED <<content_, got, since>>

\* One round of the loop of PubSubServer::onMessage(); after an unknown command the
\* rest waits for the next call.
onMessage(c) ==
  /\ conn[c] \in {"up", "parsing"} /\ parseMessage(lines[c]) = "kSuccess"
  /\ LET m == lines[c][1] IN
     /\ lines' = [lines EXCEPT ![c] = SubSeq(@, Consumed(@) + 1, Len(@))]
     /\ CASE m.cmd = "pub" -> doPublish(m.topic) /\ UNCHANGED conn
          [] m.cmd = "sub" -> doSubscribe(c, m.topic) /\ UNCHANGED conn
          [] m.cmd = "unsub" -> doUnsubscribe(c, {m.topic}) /\ UNCHANGED conn
          [] OTHER -> /\ conn' = [conn EXCEPT ![c] = "shutdown"]
                      /\ UNCHANGED <<connSub, audiences_, content_, got, since>>
  /\ UNCHANGED script

onMessageError(c) ==
  /\ conn[c] \in {"up", "parsing"} /\ parseMessage(lines[c]) = "kError"
  /\ conn' = [conn EXCEPT ![c] = "shutdown"]
  /\ UNCHANGED <<script, lines, connSub, audiences_, content_, got, since>>

\* PubSubServer::onConnection() of a connection that went down.
onConnectionDown(c) ==
  /\ conn[c] \in {"up", "shutdown", "parsing"}
  /\ conn' = [conn EXCEPT ![c] = "down"]
  /\ doUnsubscribe(c, connSub[c])
  /\ UNCHANGED <<script, lines>>

timePublish ==
  /\ content_[Time] < MaxTimes
  /\ doPublish(Time)
  /\ UNCHANGED <<script, conn, lines>>

Next ==
  \/ \E c \in Conns : \/ \E s \in Scripts : onConnectionUp(c, s)
                      \/ Arrive(c) \/ onMessage(c) \/ onMessageError(c) \/ onConnectionDown(c)
  \/ timePublish

Spec == Init /\ [][Next]_vars

-----------------------------------------------------------------------------
TypeOK ==
  /\ conn \in [Conns -> {"new", "up", "shutdown", "parsing", "down"}]
  /\ connSub \in [Conns -> SUBSET Topics] /\ audiences_ \in [Topics -> SUBSET Conns]
  /\ content_ \in [Topics -> Nat]

\* The topics of a connection and the audiences of the topics say the same, and a
\* connection that is down is in no audience: nothing is sent to it, and nothing
\* keeps it alive.
SubscriptionsAgree ==
  \A c \in Conns, t \in Topics :
    /\ (t \in connSub[c]) = (c \in audiences_[t])
    /\ c \in audiences_[t] => conn[c] \in {"up", "shutdown", "parsing"}

\* A subscriber has every content of the topic from the one it found, in order and
\* without a gap, up to the last one.
NothingMissed ==
  \A c \in Conns : \A t \in connSub[c] : conn[c] = "up" =>
    LET ns == SelectSeq(got[c], LAMBDA m : m.topic = t)
        n == content_[t] - since[c][t] + (IF since[c][t] > 0 THEN 1 ELSE 0)
    IN /\ Len(ns) >= n
       /\ \A i \in 1..n : ns[Len(ns) - n + i].content = content_[t] - n + i
==============================================================================
