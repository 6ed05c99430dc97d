----------------------------- MODULE Multiplexer -----------------------------
(***************************************************************************)
(* examples/multiplexer: the multiplexer carries the bytes of many clients  *)
(* over one connection to a backend, in packets with the client's id; the   *)
(* backend is the demultiplexer, which opens one connection to the socks    *)
(* server for every client.  The callbacks of a client run in its own I/O   *)
(* thread, those of the backend connection in the base loop; a step ends    *)
(* where mutex_ is released.  The connections that deliver in order are     *)
(* sequences, and packets are whole.                                        *)
(*                                                                          *)
(* A packet remembers the client it is about, which the code cannot see.    *)
(***************************************************************************)
EXTENDS Integers, Sequences, FiniteSets, SequencesExt, TLC

CONSTANTS Clients, kMaxConns,
          MaxBytes,     \* bounds the bytes sent and the sessions with the backend
          MaxBack

VARIABLES
  backendConn_, availIds_, clientConns_,   \* MultiplexServer
  client, context, shut, sent, rcvd,       \* the connections of the clients
  sessions, link, back,                    \* the connection to the backend, both ways
  serverConn_, socksConns_, got            \* DemuxServer, and what the socks server read
muxVars == <<backendConn_, availIds_, clientConns_>>
clientVars == <<client, context, shut, sent>>
demuxVars == <<serverConn_, socksConns_, got>>
vars == <<muxVars, clientVars, rcvd, sessions, link, back, demuxVars>>

Ids == 1..kMaxConns
Packet(id, what, c) == [id |-> id, what |-> what, c |-> c]

Init ==
  /\ backendConn_ = FALSE /\ availIds_ = <<>> /\ clientConns_ = <<>>
  /\ client = [c \in Clients |-> "new"] /\ context = [c \in Clients |-> 0]
  /\ shut = {} /\ sent = [c \in Clients |-> 0] /\ rcvd = {}
  /\ sessions = 0 /\ link = <<>> /\ back = <<>>
  /\ serverConn_ = 0 /\ socksConns_ = <<>> /\ got = [c \in Clients |-> <<>>]

-----------------------------------------------------------------------------
(* MultiplexServer *)

sendBackendPacket(p) == link' = IF backendConn_ THEN Append(link, p) ELSE link

\* A client connects and takes an id, if there is one.  Clients are numbered in the
\* order in which they do.
TakeId(c) ==
  /\ client[c] = "new" /\ (\A d \in Clients : d < c => client[d] # "new")
  /\ IF availIds_ = <<>>
     THEN /\ context' = context /\ UNCHANGED <<availIds_, clientConns_>>
          /\ client' = [client EXCEPT ![c] = "refused"]
     ELSE /\ context' = [context EXCEPT ![c] = Head(availIds_)]
          /\ clientConns_' = (Head(availIds_) :> c) @@ clientConns_
          /\ availIds_' = Tail(availIds_)
          /\ client' = [client EXCEPT ![c] = "taken"]
  /\ UNCHANGED <<backendConn_, shut, sent, rcvd, sessions, link, back, demuxVars>>

\* It tells the backend, or shuts the connection down.
AnnounceUp(c) ==
  /\ \/ /\ client[c] = "taken"
        /\ client' = [client EXCEPT ![c] = "up"]
        /\ sendBackendPacket(Packet(0, "UP", c))
        /\ UNCHANGED shut
     \/ /\ client[c] = "refused"
        /\ client' = [client EXCEPT ![c] = "up"]
        /\ shut' = shut \cup {c}
        /\ UNCHANGED link
  /\ UNCHANGED <<muxVars, context, sent, rcvd, sessions, back, demuxVars>>

onClientMessage(c) ==
  /\ client[c] = "up" /\ MapThenSumSet(LAMBDA d : sent[d], Clients) + sessions < MaxBytes
  /\ sent' = [sent EXCEPT ![c] = @ + 1]
  /\ IF context[c] # 0 THEN sendBackendPacket(Packet(context[c], sent[c] + 1, c)) ELSE UNCHANGED link
  /\ UNCHANGED <<muxVars, client, context, shut, rcvd, sessions, back, demuxVars>>

\* The client closes, or answers a shutdown(): "DOWN" is sent before the lock that
\* gives the id back.
AnnounceDown(c) ==
  /\ client[c] = "up"
  /\ IF context[c] # 0
     THEN /\ client' = [client EXCEPT ![c] = "returning"]
          /\ sendBackendPacket(Packet(0, "DOWN", c))
     ELSE client' = [client EXCEPT ![c] = "gone"] /\ UNCHANGED link
  /\ UNCHANGED <<muxVars, context, shut, sent, rcvd, sessions, back, demuxVars>>

ReturnId(c) ==
  /\ client[c] = "returning"
  /\ client' = [client EXCEPT ![c] = "gone"]
  /\ IF backendConn_
     THEN /\ availIds_' = Append(availIds_, context[c])
          /\ clientConns_' = [i \in DOMAIN clientConns_ \ {context[c]} |-> clientConns_[i]]
     ELSE UNCHANGED <<availIds_, clientConns_>>
  /\ UNCHANGED <<backendConn_, context, shut, sent, rcvd, sessions, link, back, demuxVars>>

\* The demultiplexer takes one connection at a time.
onBackendUp ==
  /\ ~ backendConn_ /\ MapThenSumSet(LAMBDA d : sent[d], Clients) + 2 * sessions < MaxBytes
  /\ backendConn_' = TRUE /\ sessions' = sessions + 1
  /\ availIds_' = availIds_ \o [i \in Ids |-> i]
  /\ serverConn_' = IF serverConn_ = 0 THEN sessions + 1 ELSE serverConn_
  /\ UNCHANGED <<clientConns_, clientVars, rcvd, link, back, socksConns_, got>>

\* The connection is lost with all it carried, and every client is shut down.
onBackendDown ==
  /\ backendConn_
  /\ backendConn_' = FALSE /\ availIds_' = <<>> /\ clientConns_' = <<>>
  /\ shut' = shut \cup Range(clientConns_)
  /\ link' = <<>> /\ back' = <<>>
  /\ UNCHANGED <<client, context, sent, rcvd, sessions, demuxVars>>

\* sendToClient(): the client is found under the lock.  Commands of the backend go
\* to id 0, which no client has.
sendToClient ==
  /\ back # <<>> /\ back' = Tail(back)
  /\ LET p == Head(back) IN
     rcvd' = IF p.id \in DOMAIN clientConns_ THEN rcvd \cup {<<clientConns_[p.id], p.c>>} ELSE rcvd
  /\ UNCHANGED <<muxVars, clientVars, sessions, link, demuxVars>>

-----------------------------------------------------------------------------
(* DemuxServer *)

\* A client that the demultiplexer does not know has an entry without connection.
Nobody == 0
Entry(c) == [c |-> c, connection |-> "none", pending |-> <<>>]
At(id) == IF id \in DOMAIN socksConns_ THEN socksConns_[id] ELSE Entry(Nobody)
Without(id) == [i \in DOMAIN socksConns_ \ {id} |-> socksConns_[i]]

\* serverConn_->send(): lost when the multiplexer is no longer there.
sendServerPacket(p) ==
  back' = IF backendConn_ /\ serverConn_ = sessions THEN Append(back, p) ELSE back

onServerDown ==
  /\ serverConn_ # 0 /\ ~ (backendConn_ /\ serverConn_ = sessions)
  /\ serverConn_' = 0 /\ socksConns_' = <<>>
  /\ UNCHANGED <<muxVars, clientVars, rcvd, sessions, link, back, got>>

\* A packet with the bytes of a client goes to its connection, or waits for it.
DataPacket ==
  /\ link # <<>> /\ Head(link).id # 0 /\ link' = Tail(link)
  /\ LET p == Head(link)
         e == At(p.id) IN
     CASE e.connection = "up" ->
            /\ got' = [got EXCEPT ![e.c] = Append(@, <<p.c, p.what>>)] /\ UNCHANGED socksConns_
       [] e.connection = "none" ->
            /\ socksConns_' = (p.id :> [e EXCEPT !.pending = Append(@, <<p.c, p.what>>)]) @@ socksConns_
            /\ UNCHANGED got
       [] OTHER -> UNCHANGED <<socksConns_, got>>
  /\ UNCHANGED <<muxVars, clientVars, rcvd, sessions, back, serverConn_>>

\* doCommand() makes an entry for a client, over one that a lost session may have
\* left, or ends its connection; the entry of a connection that was made stays.
doCommand ==
  /\ link # <<>> /\ Head(link).id = 0 /\ link' = Tail(link)
  /\ LET c == Head(link).c
         id == context[c] IN
     socksConns_' =
       IF Head(link).what = "UP" THEN (id :> Entry(c)) @@ socksConns_
       ELSE IF At(id).connection = "none" THEN Without(id)
       ELSE [socksConns_ EXCEPT ![id].connection = IF @ = "up" THEN "disconnecting" ELSE @]
  /\ UNCHANGED <<muxVars, clientVars, rcvd, sessions, back, serverConn_, got>>

onSocksUp(id) ==
  /\ socksConns_[id].connection = "none" /\ socksConns_[id].c # Nobody
  /\ socksConns_' = [socksConns_ EXCEPT ![id].connection = "up", ![id].pending = <<>>]
  /\ got' = [got EXCEPT ![socksConns_[id].c] = @ \o socksConns_[id].pending]
  /\ UNCHANGED <<muxVars, clientVars, rcvd, sessions, link, back, serverConn_>>

\* The socks server answers, until its side of the connection ends; here at most
\* MaxBack answers are on their way, and none follows one that was read.
onSocksMessage(id) ==
  /\ socksConns_[id].connection \in {"up", "disconnecting"}
  /\ Len(back) < MaxBack /\ \A r \in rcvd : r[2] # socksConns_[id].c
  /\ sendServerPacket(Packet(id, 0, socksConns_[id].c))
  /\ UNCHANGED <<muxVars, clientVars, rcvd, sessions, link, demuxVars>>

onSocksDown(id) ==
  /\ socksConns_[id].connection \in {"up", "disconnecting"}
  /\ IF serverConn_ # 0
     THEN /\ socksConns_' = [socksConns_ EXCEPT ![id].connection = "down"]
          /\ sendServerPacket(Packet(0, id, socksConns_[id].c))
     ELSE socksConns_' = Without(id) /\ UNCHANGED back
  /\ UNCHANGED <<muxVars, clientVars, rcvd, sessions, link, serverConn_, got>>

Next ==
  \/ \E c \in Clients :
       TakeId(c) \/ AnnounceUp(c) \/ onClientMessage(c) \/ AnnounceDown(c) \/ ReturnId(c)
  \/ onBackendUp \/ onBackendDown \/ sendToClient
  \/ onServerDown \/ DataPacket \/ doCommand
  \/ \E id \in DOMAIN socksConns_ : onSocksUp(id) \/ onSocksMessage(id) \/ onSocksDown(id)

Spec == Init /\ [][Next]_vars

-----------------------------------------------------------------------------
TypeOK ==
  /\ backendConn_ \in BOOLEAN /\ availIds_ \in Seq(Ids) /\ DOMAIN clientConns_ \subseteq Ids
  /\ client \in [Clients -> {"new", "taken", "refused", "up", "returning", "gone"}]
  /\ context \in [Clients -> 0..kMaxConns]

Live(c) == client[c] \in {"taken", "up", "returning"} /\ context[c] # 0

\* As long as the backend connection has not been lost, an id is free or belongs
\* to one client, and no id is lost: the threads of the clients agree on availIds_
\* and clientConns_ whatever their order.  After a reconnect this is not so: a client
\* of the lost session gives back an id that the new session has listed already.
IdsUnique ==
  sessions = 1 /\ backendConn_ =>
    \A i \in Ids :
      Cardinality({n \in DOMAIN availIds_ : availIds_[n] = i})
        + Cardinality({c \in Clients : Live(c) /\ context[c] = i}) = 1

\* What the assertions of onClientConnection() say: without a backend no id is free
\* and no client is known; and every client it had was told to go.
NoBackendNoIds ==
  ~ backendConn_ =>
    /\ availIds_ = <<>> /\ clientConns_ = <<>>
    /\ sessions = 1 => \A c \in Clients : Live(c) => c \in shut

\* The socks server reads the bytes of one client on the connection that was opened
\* for it, in order and without a gap, whether they came before or after it was up,
\* as long as the backend connection has not been lost.
BytesReach ==
  sessions = 1 => \A c \in Clients : \A n \in DOMAIN got[c] : got[c][n] = <<c, n>>

\* An answer reaches the client it is for or, when that one is gone, another one
\* that took its id over.
AnswersReach ==
  sessions = 1 => \A r \in rcvd :
    context[r[1]] = context[r[2]] /\ (r[1] # r[2] => client[r[2]] = "gone")

==============================================================================
