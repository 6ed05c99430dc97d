----------------------------- MODULE RpcBalancer -----------------------------
(***************************************************************************)
(* examples/protobuf/rpcbalancer: one I/O thread of the balancer passes the *)
(* requests of its clients to backends in turn, under ids of its own, and   *)
(* their answers back under the ids of the clients.  balancer_raw.cc        *)
(* patches the id into the bytes of a message it can parse, balancer.cc     *)
(* parses and serialises it; the messages that go out are the same.         *)
(***************************************************************************)
EXTENDS Integers, Sequences, FiniteSets, Functions, FiniteSetsExt

CONSTANTS Clients, nBackends,
          IdsOf(_),         \* the ids a client gives its requests
          MaxReconnects

Backends == 0..(nBackends - 1)

VARIABLES client,          \* "up" or "down"; a client sends each of its ids once
          asked,           \* the requests a client sent, by its ids
          conn_, nextId_, outstandings_,   \* of the BackendSession of each backend
          current,
          working,         \* what a backend has to answer: id and request
          answers, reconnects
vars == <<client, asked, conn_, nextId_, outstandings_, current, working, answers, reconnects>>

Init ==
  /\ client = [c \in Clients |-> "up"] /\ asked = [c \in Clients |-> {}]
  /\ conn_ = [b \in Backends |-> FALSE] /\ nextId_ = [b \in Backends |-> 0]
  /\ outstandings_ = [b \in Backends |-> <<>>]
  /\ current \in Backends          \* initPerThread(): count % backends_.size()
  /\ working = [b \in Backends |-> {}]
  /\ answers = [c \in Clients |-> <<>>]
  /\ reconnects = 0

-----------------------------------------------------------------------------
\* BackendSession::onConnection(); TcpClient connects again after a failure.  What
\* the backend had not answered is lost; its entries stay ("FIXME: reject pending").
onBackendUp(b) ==
  /\ ~ conn_[b]
  /\ conn_' = [conn_ EXCEPT ![b] = TRUE]
  /\ UNCHANGED <<client, asked, nextId_, outstandings_, current, working, answers, reconnects>>

onBackendDown(b) ==
  /\ conn_[b] /\ reconnects < MaxReconnects
  /\ reconnects' = reconnects + 1
  /\ conn_' = [conn_ EXCEPT ![b] = FALSE]
  /\ working' = [working EXCEPT ![b] = {}]
  /\ UNCHANGED <<client, asked, nextId_, outstandings_, current, answers>>

\* Balancer::onMessageT(): the first backend that is up, from the current one on;
\* without any, the request is dropped ("FIXME: no backend available").
Turn(i) == (current + i) % nBackends
FirstUp == CHOOSE i \in Backends : conn_[Turn(i)] /\ \A j \in 0..(i - 1) : ~ conn_[Turn(j)]

\* Mutant of send: the id of the client goes to the backend as it is.
sendOrigId(b, c, origId) ==
  /\ nextId_' = [nextId_ EXCEPT ![b] = @ + 1]
  /\ outstandings_' = [outstandings_ EXCEPT ![b] =
                         [i \in DOMAIN @ \union {origId} |->
                            IF i = origId THEN [origId |-> origId, client |-> c] ELSE @[i]]]
  /\ working' = [working EXCEPT ![b] = @ \union {[id |-> origId, of |-> <<c, origId>>]}]

\* BackendSession::send() under a new id.
send(b, c, origId) ==
  LET id == nextId_[b] + 1 IN
  /\ nextId_' = [nextId_ EXCEPT ![b] = id]
  /\ outstandings_' = [outstandings_ EXCEPT ![b] =
                         [i \in DOMAIN @ \union {id} |-> IF i = id THEN [origId |-> origId, client |-> c] ELSE @[i]]]
  /\ working' = [working EXCEPT ![b] = @ \union {[id |-> id, of |-> <<c, origId>>]}]

onMessageT(c, origId) ==
  /\ client[c] = "up" /\ origId \notin asked[c]
  /\ asked' = [asked EXCEPT ![c] = @ \union {origId}]
  /\ IF \E b \in Backends : conn_[b]
     THEN /\ send(Turn(FirstUp), c, origId)
          /\ current' = Turn(FirstUp + 1)
     ELSE UNCHANGED <<nextId_, outstandings_, working, current>>
  /\ UNCHANGED <<client, conn_, answers, reconnects>>

\* BackendSession::onMessageT(): a backend answers, in any order.
onAnswer(b, w) ==
  /\ w \in working[b]
  /\ working' = [working EXCEPT ![b] = @ \ {w}]
  /\ IF w.id \in DOMAIN outstandings_[b]
     THEN LET r == outstandings_[b][w.id]
          IN /\ outstandings_' = [outstandings_ EXCEPT ![b] = Restrict(@, DOMAIN @ \ {w.id})]
             /\ answers' = IF client[r.client] = "up"
                           THEN [answers EXCEPT ![r.client] = Append(@, [id |-> r.origId, of |-> w.of])]
                           ELSE answers
     ELSE UNCHANGED <<outstandings_, answers>>
  /\ UNCHANGED <<client, asked, conn_, nextId_, current, reconnects>>

\* Balancer::onConnection(): the weak_ptr of the client expires.
onClientDown(c) ==
  /\ client[c] = "up"
  /\ client' = [client EXCEPT ![c] = "down"]
  /\ UNCHANGED <<asked, conn_, nextId_, outstandings_, current, working, answers, reconnects>>

Next ==
  \/ \E b \in Backends : onBackendUp(b) \/ onBackendDown(b) \/ \E w \in working[b] : onAnswer(b, w)
  \/ \E c \in Clients : onClientDown(c) \/ \E id \in IdsOf(c) : onMessageT(c, id)

Spec == Init /\ [][Next]_vars

-----------------------------------------------------------------------------
TypeOK ==
  /\ conn_ \in [Backends -> BOOLEAN] /\ nextId_ \in [Backends -> Nat] /\ current \in Backends

\* An answer reaches the client that asked, under the id it gave the request, once,
\* though both clients use the same ids and the backends answer in any order.
AnswersBack ==
  \A c \in Clients :
    /\ \A i \in DOMAIN answers[c] : answers[c][i].of = <<c, answers[c][i].id>>
    /\ IsInjective(answers[c])

\* What a backend is working on is outstanding, under the id it was sent with, and
\* an id is never used again, not after the backend was lost either.
IdsOutstanding ==
  \A b \in Backends :
    /\ \A w \in working[b] : /\ w.id \in DOMAIN outstandings_[b]
                             /\ w.of = <<outstandings_[b][w.id].client, outstandings_[b][w.id].origId>>
    /\ \A id \in DOMAIN outstandings_[b] : id <= nextId_[b]
==============================================================================
