---------------------------- MODULE ProgramProofs -----------------------------
(***************************************************************************)
(* Two of the example programs for any number of threads, clients and       *)
(* messages.                                                               *)
(*                                                                         *)
(* The RPC balancer, for any ids the clients choose, and backends that are  *)
(* lost and come back: an answer goes to the client that asked, under the   *)
(* id it gave the request, once.                                            *)
(*                                                                         *)
(* The threaded chat servers: the list of connections agrees with the       *)
(* connections that are up, and no thread changes a list another one walks  *)
(* over, in "mutex" because a thread that sends holds the mutex, in "cow"   *)
(* because a list somebody sends through is copied first.                   *)
(***************************************************************************)
EXTENDS RpcBalancer, FiniteSetTheorems, SequenceTheorems, WellFoundedInduction, TLAPS

\* The provers of a step that names none, with their time limits.
USE SMTT(30), ZenonT(30)

-----------------------------------------------------------------------------
(* The balancer.                                                           *)

\* main() wants at least one backend.
SomeBackend == nBackends \in Nat \ {0}

AllIds == UNION {IdsOf(c) : c \in Clients}
Entry == [origId : AllIds, client : Clients]
Work == [id : Nat, of : Clients \X AllIds]
Answer == [id : AllIds, of : Clients \X AllIds]

Typed ==
  /\ client \in [Clients -> {"up", "down"}] /\ asked \in [Clients -> SUBSET AllIds]
  /\ conn_ \in [Backends -> BOOLEAN] /\ nextId_ \in [Backends -> Nat] /\ current \in Backends
  /\ outstandings_ = [b \in Backends |-> outstandings_[b]]
  /\ working \in [Backends -> SUBSET Work]
  /\ answers \in [Clients -> Seq(Answer)]

\* An entry stands for a request that was sent, under an id that was given out.
EntriesValid ==
  \A b \in Backends : \A i \in DOMAIN outstandings_[b] :
    /\ i \in Nat /\ i <= nextId_[b]
    /\ outstandings_[b][i] \in Entry
    /\ outstandings_[b][i].origId \in asked[outstandings_[b][i].client]

\* A request is outstanding once, with one backend.
OneEntry ==
  \A b, d \in Backends : \A i \in DOMAIN outstandings_[b], j \in DOMAIN outstandings_[d] :
    outstandings_[b][i] = outstandings_[d][j] => b = d /\ i = j

\* What a backend is working on is outstanding under its id.
WorkOutstanding ==
  \A b \in Backends : \A w \in working[b] :
    /\ w.id \in DOMAIN outstandings_[b]
    /\ w.of = <<outstandings_[b][w.id].client, outstandings_[b][w.id].origId>>

\* What is outstanding is not answered, and what is answered was asked.
NotAnswered ==
  \A b \in Backends : \A i \in DOMAIN outstandings_[b] :
    LET e == outstandings_[b][i] IN
    \A k \in DOMAIN answers[e.client] : answers[e.client][k].id # e.origId

AnswersAsked ==
  \A c \in Clients : \A k \in DOMAIN answers[c] : answers[c][k].id \in asked[c]

BalancerInv == /\ Typed /\ EntriesValid /\ OneEntry /\ WorkOutstanding /\ NotAnswered
               /\ AnswersAsked /\ AnswersBack

-----------------------------------------------------------------------------
(* Balancer::onMessageT() finds a backend that is up, if there is one.      *)

\* The walk from current over all backends comes to each of them.
LEMMA TurnReaches ==
  ASSUME SomeBackend, current \in Backends, NEW b \in Backends
  PROVE  \E i \in Backends : Turn(i) = b
  <1> USE DEF SomeBackend, Backends, Turn
  <1>1. CASE b >= current
    <2>1. (b - current) \in Backends /\ current + (b - current) = b
      BY <1>1
    <2>2. b % nBackends = b
      OBVIOUS
    <2> QED
      BY <2>1, <2>2, ZenonT(30)
  <1>2. CASE b < current
    <2>1. (b - current + nBackends) \in Backends
          /\ current + (b - current + nBackends) = b + nBackends
      BY <1>2
    <2>2. (b + nBackends) % nBackends = b
      OBVIOUS
    <2> QED
      BY <2>1, <2>2, ZenonT(30)
  <1> QED
    BY <1>1, <1>2

\* The walk stops at a backend that is up if there is one.
LEMMA FirstUpFound ==
  ASSUME SomeBackend, current \in Backends, NEW up \in Backends, conn_[up]
  PROVE  FirstUp \in Backends /\ conn_[Turn(FirstUp)]
  <1> DEFINE Ups == {i \in Backends : conn_[Turn(i)]}
             Less == OpToRel(<, Nat)
  <1>1. Ups # {} /\ Ups \subseteq Nat
    BY TurnReaches DEF Backends, SomeBackend
  <1>2. PICK i \in Ups : \A j \in Ups : ~ (<<j, i>> \in Less)
    BY <1>1, NatLessThanWellFounded, WFMin, ZenonT(30)
  <1>3. \A j \in 0..(i - 1) : ~ conn_[Turn(j)]
    <2> SUFFICES ASSUME NEW j \in 0..(i - 1), conn_[Turn(j)] PROVE FALSE
      OBVIOUS
    <2>1. j \in Backends /\ j < i /\ j \in Nat /\ i \in Nat
      BY <1>1 DEF Backends, SomeBackend
    <2> QED
      BY <2>1, <1>2, ZenonT(30) DEF OpToRel
  <1> QED
    BY <1>2, <1>3, ZenonT(30) DEF FirstUp

-----------------------------------------------------------------------------
(* The steps.                                                              *)

\* A balancer without clients has the invariant.
LEMMA BalancerInit == ASSUME SomeBackend PROVE Init => BalancerInv
  <1> SUFFICES ASSUME Init PROVE BalancerInv
    OBVIOUS
  <1>1. Typed
    BY DEF Init, Typed, Answer
  <1>2. \A b \in Backends : DOMAIN outstandings_[b] = {} /\ working[b] = {}
    BY DEF Init
  <1>3. \A c \in Clients : DOMAIN answers[c] = {}
    BY DEF Init
  <1> QED
    BY <1>1, <1>2, <1>3 DEF BalancerInv, EntriesValid, OneEntry, WorkOutstanding, NotAnswered,
                            AnswersAsked, AnswersBack, IsInjective

\* BackendSession::send(): the entry that is new, and the ones that stay.
LEMMA SendEntries ==
  ASSUME BalancerInv, NEW b \in Backends, NEW c \in Clients, NEW origId, send(b, c, origId)
  PROVE  LET id == nextId_[b] + 1 IN
         /\ nextId_' \in [Backends -> Nat] /\ id \in Nat
         /\ nextId_'[b] = id /\ \A d \in Backends \ {b} : nextId_'[d] = nextId_[d]
         /\ outstandings_' = [d \in Backends |-> outstandings_'[d]]
         /\ DOMAIN outstandings_'[b] = DOMAIN outstandings_[b] \union {id}
         /\ outstandings_'[b][id] = [origId |-> origId, client |-> c]
         /\ \A i \in DOMAIN outstandings_[b] : i # id /\ outstandings_'[b][i] = outstandings_[b][i]
         /\ \A d \in Backends \ {b} : outstandings_'[d] = outstandings_[d]
         /\ working'[b] = working[b] \union {[id |-> id, of |-> <<c, origId>>]}
         /\ \A d \in Backends \ {b} : working'[d] = working[d]
  <1> DEFINE id == nextId_[b] + 1
             new == [i \in DOMAIN outstandings_[b] \union {id} |->
                       IF i = id THEN [origId |-> origId, client |-> c] ELSE outstandings_[b][i]]
  <1>1. id \in Nat /\ \A i \in DOMAIN outstandings_[b] : i # id
    BY DEF BalancerInv, Typed, EntriesValid
  <1>2. /\ nextId_' = [nextId_ EXCEPT ![b] = id]
        /\ outstandings_' = [outstandings_ EXCEPT ![b] = new]
        /\ working' = [working EXCEPT ![b] = @ \union {[id |-> id, of |-> <<c, origId>>]}]
    BY DEF send
  <1>3. /\ DOMAIN new = DOMAIN outstandings_[b] \union {id}
        /\ new[id] = [origId |-> origId, client |-> c]
        /\ \A i \in DOMAIN outstandings_[b] : i # id => new[i] = outstandings_[b][i]
    OBVIOUS
  <1> HIDE DEF new, id
  <1>4. DOMAIN outstandings_ = Backends /\ DOMAIN working = Backends /\ nextId_ \in [Backends -> Nat]
    BY DEF BalancerInv, Typed
  <1>5. /\ outstandings_' = [d \in Backends |-> outstandings_'[d]]
        /\ outstandings_'[b] = new /\ \A d \in Backends \ {b} : outstandings_'[d] = outstandings_[d]
    BY <1>2, <1>4, ZenonT(30)
  <1>6. /\ working'[b] = working[b] \union {[id |-> id, of |-> <<c, origId>>]}
        /\ \A d \in Backends \ {b} : working'[d] = working[d]
    BY <1>2, <1>4
  <1>7. /\ nextId_' \in [Backends -> Nat] /\ nextId_'[b] = id
        /\ \A d \in Backends \ {b} : nextId_'[d] = nextId_[d]
    BY <1>1, <1>2, <1>4
  <1> QED
    BY <1>1, <1>3, <1>5, <1>6, <1>7 DEF id

\* A request with no backend up is only remembered as asked.
LEMMA DroppedKeeps ==
  ASSUME BalancerInv, NEW c \in Clients, NEW origId \in AllIds,
         asked' = [asked EXCEPT ![c] = @ \union {origId}],
         UNCHANGED <<client, conn_, nextId_, outstandings_, current, working, answers>>
  PROVE  BalancerInv'
  <1>1. Typed' /\ \A d \in Clients : asked[d] \subseteq asked'[d]
    BY DEF BalancerInv, Typed
  <1>2. EntriesValid'
    BY <1>1 DEF BalancerInv, EntriesValid, Entry
  <1>3. AnswersAsked'
    BY <1>1 DEF BalancerInv, AnswersAsked
  <1> QED
    BY <1>1, <1>2, <1>3 DEF BalancerInv, OneEntry, WorkOutstanding, NotAnswered, AnswersBack

\* A request that is sent: its id is new to the backend, and so is the request to all.
LEMMA SentKeeps ==
  ASSUME BalancerInv, NEW b \in Backends, NEW c \in Clients, NEW origId \in AllIds,
         origId \notin asked[c], asked' = [asked EXCEPT ![c] = @ \union {origId}],
         send(b, c, origId), current' \in Backends, UNCHANGED <<client, conn_, answers>>
  PROVE  BalancerInv'
  <1> DEFINE id == nextId_[b] + 1
             e == [origId |-> origId, client |-> c]
  <1>1. /\ nextId_' \in [Backends -> Nat] /\ id \in Nat
        /\ nextId_'[b] = id /\ \A d \in Backends \ {b} : nextId_'[d] = nextId_[d]
        /\ outstandings_' = [d \in Backends |-> outstandings_'[d]]
        /\ DOMAIN outstandings_'[b] = DOMAIN outstandings_[b] \union {id}
        /\ outstandings_'[b][id] = e
        /\ \A i \in DOMAIN outstandings_[b] : i # id /\ outstandings_'[b][i] = outstandings_[b][i]
        /\ \A d \in Backends \ {b} : outstandings_'[d] = outstandings_[d]
        /\ working'[b] = working[b] \union {[id |-> id, of |-> <<c, origId>>]}
        /\ \A d \in Backends \ {b} : working'[d] = working[d]
    BY SendEntries
  <1>2. \A d \in Clients : asked[d] \subseteq asked'[d]
    BY DEF BalancerInv, Typed
  <1>3. e \in Entry /\ e.origId \in asked'[e.client] /\ e.client = c /\ e.origId = origId
    BY DEF BalancerInv, Typed, Entry
  <1>4. nextId_ \in [Backends -> Nat] /\ id = nextId_[b] + 1
    BY DEF BalancerInv, Typed
  <1> HIDE DEF id, e
  <1>5. \A d \in Backends : \A i \in DOMAIN outstandings_'[d] :
          \/ d = b /\ i = id
          \/ i \in DOMAIN outstandings_[d] /\ outstandings_'[d][i] = outstandings_[d][i]
    BY <1>1
  <1>6. Typed'
    <2>1. working' \in [Backends -> SUBSET Work]
      <3>1. working' = [working EXCEPT ![b] = @ \union {[id |-> id, of |-> <<c, origId>>]}]
        BY DEF send, id
      <3>2. [id |-> id, of |-> <<c, origId>>] \in Work
        BY <1>1 DEF Work
      <3>3. working \in [Backends -> SUBSET Work]
        BY DEF BalancerInv, Typed
      <3> QED
        BY <3>1, <3>2, <3>3
    <2> QED
      BY <1>1, <2>1 DEF BalancerInv, Typed
  <1>7. EntriesValid'
    <2> SUFFICES ASSUME NEW d \in Backends, NEW i \in DOMAIN outstandings_'[d]
                 PROVE  /\ i \in Nat /\ i <= nextId_'[d]
                        /\ outstandings_'[d][i] \in Entry
                        /\ outstandings_'[d][i].origId \in asked'[outstandings_'[d][i].client]
      BY DEF EntriesValid
    <2>1. CASE d = b /\ i = id
      BY <2>1, <1>1, <1>3
    <2>2. CASE i \in DOMAIN outstandings_[d] /\ outstandings_'[d][i] = outstandings_[d][i]
      <3>1. /\ i \in Nat /\ i <= nextId_[d] /\ outstandings_[d][i] \in Entry
            /\ outstandings_[d][i].origId \in asked[outstandings_[d][i].client]
        BY <2>2 DEF BalancerInv, EntriesValid
      <3>2. outstandings_[d][i].client \in Clients
        BY <3>1 DEF Entry
      <3>3. nextId_[d] \in Nat /\ nextId_'[d] \in Nat /\ nextId_[d] <= nextId_'[d]
        <4>1. CASE d = b
          BY <4>1, <1>1, <1>4
        <4>2. CASE d # b
          BY <4>2, <1>1, <1>4
        <4> QED
          BY <4>1, <4>2
      <3> QED
        BY <2>2, <3>1, <3>2, <3>3, <1>2
    <2> QED
      BY <2>1, <2>2, <1>5
  <1>8. \A d \in Backends : \A i \in DOMAIN outstandings_[d] : outstandings_[d][i] # e
    BY <1>3 DEF BalancerInv, EntriesValid
  <1>9. OneEntry'
    <2> SUFFICES ASSUME NEW d \in Backends, NEW f \in Backends,
                        NEW i \in DOMAIN outstandings_'[d], NEW j \in DOMAIN outstandings_'[f],
                        outstandings_'[d][i] = outstandings_'[f][j]
                 PROVE  d = f /\ i = j
      BY DEF OneEntry
    <2>1. \/ d = b /\ i = id /\ outstandings_'[d][i] = e
          \/ i \in DOMAIN outstandings_[d] /\ outstandings_'[d][i] = outstandings_[d][i]
      BY <1>1, <1>5
    <2>2. \/ f = b /\ j = id /\ outstandings_'[f][j] = e
          \/ j \in DOMAIN outstandings_[f] /\ outstandings_'[f][j] = outstandings_[f][j]
      BY <1>1, <1>5
    <2> QED
      BY <2>1, <2>2, <1>8 DEF BalancerInv, OneEntry
  <1>10. WorkOutstanding'
    <2> SUFFICES ASSUME NEW d \in Backends, NEW w \in working'[d]
                 PROVE  /\ w.id \in DOMAIN outstandings_'[d]
                        /\ w.of = <<outstandings_'[d][w.id].client, outstandings_'[d][w.id].origId>>
      BY DEF WorkOutstanding
    <2>1. CASE w \in working[d]
      <3>1. /\ w.id \in DOMAIN outstandings_[d]
            /\ w.of = <<outstandings_[d][w.id].client, outstandings_[d][w.id].origId>>
        BY <2>1 DEF BalancerInv, WorkOutstanding
      <3>2. w.id \in DOMAIN outstandings_'[d] /\ outstandings_'[d][w.id] = outstandings_[d][w.id]
        BY <3>1, <1>1
      <3> QED
        BY <3>1, <3>2
    <2>2. CASE d = b /\ w = [id |-> id, of |-> <<c, origId>>]
      BY <2>2, <1>1, <1>3
    <2> QED
      BY <2>1, <2>2, <1>1
  <1>11. NotAnswered'
    <2> SUFFICES ASSUME NEW d \in Backends, NEW i \in DOMAIN outstandings_'[d],
                        NEW k \in DOMAIN answers[outstandings_'[d][i].client]
                 PROVE  answers[outstandings_'[d][i].client][k].id # outstandings_'[d][i].origId
      BY DEF NotAnswered
    <2>1. CASE d = b /\ i = id
      BY <2>1, <1>1, <1>3 DEF BalancerInv, AnswersAsked
    <2>2. CASE i \in DOMAIN outstandings_[d] /\ outstandings_'[d][i] = outstandings_[d][i]
      BY <2>2 DEF BalancerInv, NotAnswered
    <2> QED
      BY <2>1, <2>2, <1>5
  <1>12. AnswersAsked' /\ AnswersBack'
    BY <1>2 DEF BalancerInv, AnswersAsked, AnswersBack
  <1> QED
    BY <1>6, <1>7, <1>9, <1>10, <1>11, <1>12 DEF BalancerInv

\* A request keeps the invariant, sent on with an id of its own or dropped.
LEMMA OnMessageKeeps ==
  ASSUME SomeBackend, BalancerInv, NEW c \in Clients, NEW origId \in IdsOf(c), onMessageT(c, origId)
  PROVE  BalancerInv'
  <1>1. /\ origId \in AllIds /\ origId \notin asked[c]
        /\ asked' = [asked EXCEPT ![c] = @ \union {origId}] /\ UNCHANGED <<client, conn_, answers>>
    BY DEF onMessageT, AllIds
  <1>2. CASE \E b \in Backends : conn_[b]
    <2>1. FirstUp \in Backends
      BY <1>2, FirstUpFound DEF BalancerInv, Typed
    <2>2. Turn(FirstUp) \in Backends /\ Turn(FirstUp + 1) \in Backends
      BY <2>1 DEF Turn, Backends, SomeBackend, BalancerInv, Typed
    <2>3. send(Turn(FirstUp), c, origId) /\ current' = Turn(FirstUp + 1)
      BY <1>2 DEF onMessageT
    <2> QED
      BY <1>1, <2>2, <2>3, SentKeeps, ZenonT(30)
  <1>3. CASE ~ \E b \in Backends : conn_[b]
    BY <1>1, <1>3, DroppedKeeps, ZenonT(30) DEF onMessageT
  <1> QED
    BY <1>2, <1>3

\* A sequence of distinct values stays one with a new value at its end.
LEMMA NewAnswerDistinct ==
  ASSUME NEW S, NEW s \in Seq(S), NEW x \in S, IsInjective(s), \A k \in DOMAIN s : s[k] # x
  PROVE  IsInjective(Append(s, x))
  <1> DEFINE t == Append(s, x)
  <1>1. \A k \in DOMAIN t : (k \in DOMAIN s /\ t[k] = s[k]) \/ (k = Len(s) + 1 /\ t[k] = x)
    OBVIOUS
  <1> HIDE DEF t
  <1>2. IsInjective(t)
    BY <1>1 DEF IsInjective
  <1> QED
    BY <1>2 DEF t

\* BackendSession::onMessageT(): the entry goes, and the client, if it is still
\* there, gets its answer.
LEMMA OnAnswerKeeps ==
  ASSUME BalancerInv, NEW b \in Backends, NEW w \in working[b], onAnswer(b, w)
  PROVE  BalancerInv'
  <1> DEFINE r == outstandings_[b][w.id]
             rest == Restrict(outstandings_[b], DOMAIN outstandings_[b] \ {w.id})
             a == [id |-> r.origId, of |-> w.of]
  <1>1. /\ w.id \in DOMAIN outstandings_[b] /\ w.of = <<r.client, r.origId>>
    BY DEF BalancerInv, WorkOutstanding
  <1>2. r \in Entry /\ r.client \in Clients /\ r.origId \in AllIds /\ r.origId \in asked[r.client]
    BY <1>1 DEF BalancerInv, EntriesValid, Entry
  <1>3. a \in Answer /\ a.id = r.origId /\ a.of = <<r.client, a.id>>
    BY <1>1, <1>2 DEF Answer
  <1>4. /\ DOMAIN rest = DOMAIN outstandings_[b] \ {w.id}
        /\ \A i \in DOMAIN rest : rest[i] = outstandings_[b][i]
    BY DEF Restrict
  <1>5. /\ working' = [working EXCEPT ![b] = @ \ {w}]
        /\ outstandings_' = [outstandings_ EXCEPT ![b] = rest]
        /\ answers' = IF client[r.client] = "up"
                      THEN [answers EXCEPT ![r.client] = Append(@, a)] ELSE answers
        /\ UNCHANGED <<client, asked, conn_, nextId_, current>>
    BY <1>1, ZenonT(30) DEF onAnswer
  <1> HIDE DEF rest, a
  <1>6. /\ outstandings_' = [d \in Backends |-> outstandings_'[d]]
        /\ \A d \in Backends : \A i \in DOMAIN outstandings_'[d] :
             /\ i \in DOMAIN outstandings_[d] /\ ~ (d = b /\ i = w.id)
             /\ outstandings_'[d][i] = outstandings_[d][i]
        /\ \A d \in Backends : \A i \in DOMAIN outstandings_[d] :
             (d = b /\ i = w.id) \/ i \in DOMAIN outstandings_'[d]
    BY <1>4, <1>5, ZenonT(30) DEF BalancerInv, Typed
  <1>7. /\ working' \in [Backends -> SUBSET Work]
        /\ \A d \in Backends : \A v \in working'[d] : v \in working[d] /\ ~ (d = b /\ v = w)
    BY <1>5 DEF BalancerInv, Typed
  <1>8. /\ answers' \in [Clients -> Seq(Answer)]
        /\ \A c \in Clients :
             \/ answers'[c] = answers[c]
             \/ c = r.client /\ answers'[c] = Append(answers[c], a)
    <2>1. answers \in [Clients -> Seq(Answer)]
      BY DEF BalancerInv, Typed
    <2>2. Append(answers[r.client], a) \in Seq(Answer)
      BY <2>1, <1>2, <1>3
    <2> HIDE DEF r
    <2> QED
      BY <2>1, <2>2, <1>2, <1>5
  <1>9. \A c \in Clients : \A k \in DOMAIN answers'[c] :
          \/ k \in DOMAIN answers[c] /\ answers'[c][k] = answers[c][k]
          \/ c = r.client /\ answers'[c][k] = a
    <2> SUFFICES ASSUME NEW c \in Clients, NEW k \in DOMAIN answers'[c]
                 PROVE  \/ k \in DOMAIN answers[c] /\ answers'[c][k] = answers[c][k]
                        \/ c = r.client /\ answers'[c][k] = a
      OBVIOUS
    <2>1. answers[c] \in Seq(Answer)
      BY DEF BalancerInv, Typed
    <2> QED
      BY <2>1, <1>8, <1>3
  <1>10. Typed'
    BY <1>5, <1>6, <1>7, <1>8, ZenonT(30) DEF BalancerInv, Typed
  <1>11. EntriesValid'
    BY <1>5, <1>6 DEF BalancerInv, EntriesValid
  <1>12. OneEntry'
    BY <1>6 DEF BalancerInv, OneEntry
  <1>13. WorkOutstanding'
    <2> SUFFICES ASSUME NEW d \in Backends, NEW v \in working'[d]
                 PROVE  /\ v.id \in DOMAIN outstandings_'[d]
                        /\ v.of = <<outstandings_'[d][v.id].client, outstandings_'[d][v.id].origId>>
      BY DEF WorkOutstanding
    <2>1. /\ v \in working[d] /\ v.id \in DOMAIN outstandings_[d]
          /\ v.of = <<outstandings_[d][v.id].client, outstandings_[d][v.id].origId>>
      BY <1>7 DEF BalancerInv, WorkOutstanding
    <2>2. v \in Work /\ w \in Work
      BY <2>1 DEF BalancerInv, Typed
    <2>3. ~ (d = b /\ v.id = w.id)
      BY <2>1, <2>2, <1>1, <1>7 DEF Work
    <2>4. v.id \in DOMAIN outstandings_'[d]
      BY <2>1, <2>3, <1>6
    <2> QED
      BY <2>1, <2>4, <1>6
  <1>14. NotAnswered'
    <2> SUFFICES ASSUME NEW d \in Backends, NEW i \in DOMAIN outstandings_'[d],
                        NEW k \in DOMAIN answers'[outstandings_'[d][i].client]
                 PROVE  answers'[outstandings_'[d][i].client][k].id # outstandings_'[d][i].origId
      BY DEF NotAnswered
    <2> DEFINE e == outstandings_[d][i]
    <2>1. /\ i \in DOMAIN outstandings_[d] /\ outstandings_'[d][i] = e /\ e \in Entry
          /\ ~ (d = b /\ i = w.id)
      BY <1>6 DEF BalancerInv, EntriesValid
    <2>2. e # r
      BY <2>1, <1>1 DEF BalancerInv, OneEntry
    <2>3. e.client \in Clients /\ (e.client = r.client => e.origId # r.origId)
      BY <2>1, <2>2, <1>2 DEF Entry
    <2>4. CASE k \in DOMAIN answers[e.client] /\ answers'[e.client][k] = answers[e.client][k]
      BY <2>1, <2>4 DEF BalancerInv, NotAnswered
    <2>5. CASE e.client = r.client /\ answers'[e.client][k] = a
      BY <2>1, <2>3, <2>5, <1>3
    <2> QED
      BY <2>1, <2>3, <2>4, <2>5, <1>9
  <1>15. AnswersAsked'
    BY <1>2, <1>3, <1>5, <1>9, ZenonT(30) DEF BalancerInv, AnswersAsked
  <1>16. AnswersBack'
    <2>1. \A k \in DOMAIN answers[r.client] : answers[r.client][k] # a
      BY <1>1, <1>3 DEF BalancerInv, NotAnswered
    <2> SUFFICES ASSUME NEW c \in Clients
                 PROVE  /\ \A k \in DOMAIN answers'[c] : answers'[c][k].of = <<c, answers'[c][k].id>>
                        /\ IsInjective(answers'[c])
      BY DEF AnswersBack
    <2>2. /\ \A k \in DOMAIN answers[c] : answers[c][k].of = <<c, answers[c][k].id>>
          /\ IsInjective(answers[c]) /\ answers[c] \in Seq(Answer)
      BY DEF BalancerInv, AnswersBack, Typed
    <2>3. \A k \in DOMAIN answers'[c] : answers'[c][k].of = <<c, answers'[c][k].id>>
      BY <2>2, <1>3, <1>9
    <2>4. IsInjective(answers'[c])
      <3>1. CASE answers'[c] = answers[c]
        BY <3>1, <2>2
      <3>2. CASE c = r.client /\ answers'[c] = Append(answers[c], a)
        BY <3>2, <2>1, <2>2, <1>3, NewAnswerDistinct, ZenonT(30)
      <3> QED
        BY <3>1, <3>2, <1>8
    <2> QED
      BY <2>3, <2>4
  <1> QED
    BY <1>10, <1>11, <1>12, <1>13, <1>14, <1>15, <1>16 DEF BalancerInv

\* A step that sends and answers nothing keeps the invariant.
LEMMA OthersKeep ==
  ASSUME BalancerInv, Typed', \A d \in Backends : working'[d] \subseteq working[d],
         UNCHANGED <<asked, nextId_, outstandings_, answers>>
  PROVE  BalancerInv'
  <1>1. EntriesValid' /\ OneEntry'
    BY DEF BalancerInv, EntriesValid, OneEntry
  <1>2. WorkOutstanding'
    BY DEF BalancerInv, WorkOutstanding
  <1>3. NotAnswered' /\ AnswersAsked' /\ AnswersBack'
    BY DEF BalancerInv, NotAnswered, AnswersAsked, AnswersBack
  <1> QED
    BY <1>1, <1>2, <1>3 DEF BalancerInv

\* Every step keeps the invariant.
LEMMA BalancerNext == ASSUME SomeBackend, BalancerInv, [Next]_vars PROVE BalancerInv'
  <1>t. Typed
    BY DEF BalancerInv
  <1>1. ASSUME NEW b \in Backends, onBackendUp(b) PROVE BalancerInv'
    <2>1. Typed'
      BY <1>1, <1>t DEF onBackendUp, Typed
    <2> QED
      BY <1>1, <2>1, OthersKeep DEF onBackendUp
  <1>2. ASSUME NEW b \in Backends, onBackendDown(b) PROVE BalancerInv'
    <2>1. /\ conn_' \in [Backends -> BOOLEAN] /\ working' \in [Backends -> SUBSET Work]
          /\ \A d \in Backends : working'[d] \subseteq working[d]
      BY <1>2, <1>t DEF onBackendDown, Typed
    <2>2. UNCHANGED <<client, asked, nextId_, outstandings_, current, answers>>
      BY <1>2 DEF onBackendDown
    <2>3. Typed'
      BY <1>t, <2>1, <2>2 DEF Typed
    <2> QED
      BY <2>1, <2>2, <2>3, OthersKeep
  <1>3. ASSUME NEW c \in Clients, onClientDown(c) PROVE BalancerInv'
    <2>1. Typed'
      BY <1>3, <1>t DEF onClientDown, Typed
    <2> QED
      BY <1>3, <2>1, OthersKeep DEF onClientDown
  <1>4. CASE UNCHANGED vars
    <2>1. Typed'
      BY <1>4, <1>t DEF vars, Typed
    <2> QED
      BY <1>4, <2>1, OthersKeep DEF vars
  <1> QED
    BY <1>1, <1>2, <1>3, <1>4, OnMessageKeeps, OnAnswerKeeps DEF Next

-----------------------------------------------------------------------------
\* An answer reaches the client that asked, under the id it gave the request, once,
\* whatever ids the clients share and in whatever order the backends answer.
THEOREM BalancerAnswersBack ==
  ASSUME SomeBackend
  PROVE  Spec => []AnswersBack
  <1>1. Init => BalancerInv
    BY BalancerInit
  <1>2. BalancerInv /\ [Next]_vars => BalancerInv'
    BY BalancerNext
  <1>3. BalancerInv => AnswersBack
    BY DEF BalancerInv
  <1> QED
    BY <1>1, <1>2, <1>3, PTL DEF Spec

\* What a backend is working on is outstanding under the id it was sent with, and no
\* id of a BackendSession is given out twice, not after the backend was lost either.
THEOREM BalancerIdsOutstanding ==
  ASSUME SomeBackend
  PROVE  Spec => []IdsOutstanding
  <1>1. Init => BalancerInv
    BY BalancerInit
  <1>2. BalancerInv /\ [Next]_vars => BalancerInv'
    BY BalancerNext
  <1>3. BalancerInv => IdsOutstanding
    BY DEF BalancerInv, WorkOutstanding, EntriesValid, IdsOutstanding
  <1> QED
    BY <1>1, <1>2, <1>3, PTL DEF Spec

-----------------------------------------------------------------------------
(* The chat servers.                                                       *)

CONSTANTS Loops, Conns, LoopOf(_), Messages
VARIABLES server, conn, mutex_, lists, connections_, local, sending, functors, posted, owed,
          received

Servers == INSTANCE Chat

\* Each connection belongs to a loop.
Threads == IsFiniteSet(Loops) /\ Servers!None \notin Loops /\ \A c \in Conns : LoopOf(c) \in Loops

Up == {c \in Conns : conn[c] = "up"}

ChatTypes ==
  /\ server \in {"mutex", "cow", "local"}
  /\ conn \in [Conns -> {"new", "up", "down"}]
  /\ connections_ \in Servers!ListIds /\ DOMAIN lists = Servers!ListIds
  /\ DOMAIN local = Loops /\ DOMAIN sending = Loops
  /\ lists = [i \in Servers!ListIds |-> lists[i]] /\ local = [l \in Loops |-> local[l]]

\* Who sends through a list: nobody in "local", the owner of the mutex in "mutex".
SendersHold ==
  \A l \in Loops : sending[l].list # 0 =>
    server # "local" /\ (server = "mutex" => mutex_ = l)

\* Where the connections that are up are.
ListedOnce ==
  /\ server # "local" => lists[connections_] = Up
  /\ server = "local" => \A l \in Loops : local[l] = {c \in Up : LoopOf(c) = l}

ChatInv == ChatTypes /\ SendersHold /\ ListedOnce

-----------------------------------------------------------------------------
\* There is one list more than there are loops.
LEMMA ListsCounted == Servers!ListIds = 1..(Cardinality(Loops) + 1)
  <1>1. Servers!Cardinality(Loops) = Cardinality(Loops)
    BY ZenonT(30) DEF Servers!Cardinality, Servers!IsFiniteSet, Cardinality, IsFiniteSet
  <1> QED
    BY <1>1, ZenonT(30) DEF Servers!ListIds

\* A list id is free for the copy: the loops hold fewer lists than there are.
LEMMA FreeList ==
  ASSUME Threads, ChatInv, ~ Servers!unique
  PROVE  \E i \in Servers!ListIds : ~ Servers!Used(i)
  <1> SUFFICES ASSUME \A i \in Servers!ListIds : Servers!Used(i) PROVE FALSE
    OBVIOUS
  <1> DEFINE f == [l \in Loops |-> sending[l].list]
             T == {sending[l].list : l \in Loops}
  <1>1. Servers!ListIds \in SUBSET T
    BY DEF Servers!unique, Servers!Used
  <1>2. f \in Surjection(Loops, T)
    BY DEF Surjection
  <1>3. IsFiniteSet(T) /\ Cardinality(T) <= Cardinality(Loops)
    BY <1>2, FS_Surjection DEF Threads
  <1>4. Cardinality(Servers!ListIds) <= Cardinality(T)
    BY <1>1, <1>3, FS_Subset
  <1>5. Cardinality(Loops) \in Nat /\ Cardinality(T) \in Nat
    BY <1>3, FS_CardinalityType DEF Threads
  <1>6. Cardinality(Servers!ListIds) = Cardinality(Loops) + 1
    BY <1>5, ListsCounted, FS_Interval
  <1> QED
    BY <1>3, <1>4, <1>5, <1>6

\* onConnection() of the three servers: the new list is in force, and the lists that
\* are sent through stay.
LEMMA ChangeLists ==
  ASSUME Threads, ChatInv, NEW l \in Loops, NEW S, Servers!Change(l, S)
  PROVE  /\ connections_' \in Servers!ListIds /\ DOMAIN lists' = Servers!ListIds
         /\ DOMAIN local' = Loops
         /\ lists' = [i \in Servers!ListIds |-> lists'[i]] /\ local' = [k \in Loops |-> local'[k]]
         /\ server # "local" => lists'[connections_'] = S
         /\ server = "local" => local' = [local EXCEPT ![l] = S]
         /\ \A k \in Loops : sending[k].list # 0 => lists'[sending[k].list] = lists[sending[k].list]
  <1>t. /\ connections_ \in Servers!ListIds /\ DOMAIN lists = Servers!ListIds
        /\ lists = [i \in Servers!ListIds |-> lists[i]]
        /\ DOMAIN local = Loops /\ local = [k \in Loops |-> local[k]]
    BY DEF ChatInv, ChatTypes
  <1>1. CASE Servers!mutexChange(S)
    <2>1. \A k \in Loops : sending[k].list = 0
      BY <1>1 DEF Servers!mutexChange, ChatInv, SendersHold, Threads
    <2> QED
      BY <1>1, <1>t, <2>1 DEF Servers!mutexChange
  <1>2. CASE Servers!cowChange(S)
    <2> DEFINE i == IF Servers!unique THEN connections_
                    ELSE CHOOSE j \in Servers!ListIds : ~ Servers!Used(j)
    <2>1. i \in Servers!ListIds /\ \A k \in Loops : sending[k].list # i
      <3>1. CASE Servers!unique
        BY <3>1, <1>t DEF Servers!unique
      <3>2. CASE ~ Servers!unique
        BY <3>2, FreeList DEF Servers!Used
      <3> QED
        BY <3>1, <3>2
    <2>2. server = "cow" /\ lists' = [lists EXCEPT ![i] = S] /\ connections_' = i /\ local' = local
      BY <1>2 DEF Servers!cowChange
    <2> HIDE DEF i
    <2> QED
      BY <1>t, <2>1, <2>2
  <1>3. CASE Servers!localChange(l, S)
    BY <1>3, <1>t DEF Servers!localChange
  <1> QED
    BY <1>1, <1>2, <1>3 DEF Servers!Change

\* A connection comes or goes: Up changes with the list in force.
LEMMA ConnectionKeeps ==
  ASSUME Threads, ChatInv, NEW c \in Conns, Servers!onConnectionUp(c) \/ Servers!onConnectionDown(c)
  PROVE  ChatInv' /\ Servers!ListsReadOnly
  <1> DEFINE l == LoopOf(c)
             S == IF Servers!onConnectionUp(c) THEN Servers!Current(l) \union {c}
                  ELSE Servers!Current(l) \ {c}
  <1>1. l \in Loops
    BY DEF Threads
  <1>2. Servers!Change(l, S) /\ UNCHANGED <<server, mutex_, sending>>
    <2>1. CASE Servers!onConnectionUp(c)
      BY <2>1 DEF Servers!onConnectionUp
    <2>2. CASE ~ Servers!onConnectionUp(c)
      BY <2>2 DEF Servers!onConnectionDown
    <2> QED
      BY <2>1, <2>2
  <1>3. /\ conn' \in [Conns -> {"new", "up", "down"}]
        /\ Up' = IF Servers!onConnectionUp(c) THEN Up \union {c} ELSE Up \ {c}
    <2>t. conn \in [Conns -> {"new", "up", "down"}]
      BY DEF ChatInv, ChatTypes
    <2>1. CASE Servers!onConnectionUp(c)
      BY <2>1, <2>t DEF Servers!onConnectionUp, Up
    <2>2. CASE ~ Servers!onConnectionUp(c)
      BY <2>2, <2>t DEF Servers!onConnectionDown, Up
    <2> QED
      BY <2>1, <2>2
  <1> HIDE DEF S
  <1>4. /\ connections_' \in Servers!ListIds /\ DOMAIN lists' = Servers!ListIds /\ DOMAIN local' = Loops
        /\ lists' = [i \in Servers!ListIds |-> lists'[i]] /\ local' = [k \in Loops |-> local'[k]]
        /\ server # "local" => lists'[connections_'] = S
        /\ server = "local" => local' = [local EXCEPT ![l] = S]
        /\ \A k \in Loops : sending[k].list # 0 => lists'[sending[k].list] = lists[sending[k].list]
    BY <1>1, <1>2, ChangeLists
  <1>5. ChatTypes'
    BY <1>2, <1>3, <1>4 DEF ChatInv, ChatTypes
  <1>6. SendersHold'
    BY <1>2 DEF ChatInv, SendersHold
  <1>7. ListedOnce'
    <2>1. ASSUME server # "local" PROVE lists'[connections_'] = Up'
      <3>1. Servers!Current(l) = Up
        BY <2>1 DEF Servers!Current, ChatInv, ListedOnce
      <3> QED
        BY <2>1, <3>1, <1>3, <1>4 DEF S
    <2>2. ASSUME server = "local", NEW k \in Loops PROVE local'[k] = {d \in Up' : LoopOf(d) = k}
      <3>1. \A m \in Loops : local[m] = {d \in Up : LoopOf(d) = m}
        BY <2>2 DEF ChatInv, ListedOnce
      <3>2. local'[k] = IF k = l THEN S ELSE local[k]
        BY <2>2, <1>1, <1>4 DEF ChatInv, ChatTypes
      <3>3. Servers!Current(l) = {d \in Up : LoopOf(d) = l} /\ c \in Conns
        BY <2>2, <3>1, <1>1 DEF Servers!Current
      <3> QED
        BY <3>1, <3>2, <3>3, <1>1, <1>3 DEF S
    <2> QED
      BY <2>1, <2>2, <1>2 DEF ListedOnce
  <1>8. Servers!ListsReadOnly
    BY <1>4 DEF Servers!ListsReadOnly
  <1> QED
    BY <1>5, <1>6, <1>7, <1>8 DEF ChatInv

\* onStringMessage(): a thread that starts to send takes the mutex, or the list.
LEMMA MessageKeeps ==
  ASSUME Threads, ChatInv, NEW c \in Conns, NEW m \in Messages, Servers!onStringMessage(c, m)
  PROVE  ChatInv' /\ Servers!ListsReadOnly
  <1> DEFINE l == LoopOf(c)
             now == [message |-> m, list |-> connections_, todo |-> lists[connections_]]
  <1>1. l \in Loops
    BY DEF Threads
  <1>2. UNCHANGED <<server, conn, lists, connections_, local>>
    BY DEF Servers!onStringMessage, Servers!mutexOnStringMessage, Servers!getConnectionList,
      Servers!localOnStringMessage, Servers!Post
  <1>3. now.list = connections_
    OBVIOUS
  <1> HIDE DEF now
  <1>4. DOMAIN sending' = Loops /\ SendersHold'
    <2>t. DOMAIN sending = Loops
      BY DEF ChatInv, ChatTypes
    <2>1. CASE Servers!mutexOnStringMessage(c, m)
      <3>1. /\ server = "mutex" /\ mutex_ = Servers!None /\ mutex_' = l
            /\ sending' = [sending EXCEPT ![l] = now]
        BY <2>1 DEF Servers!mutexOnStringMessage, Servers!StartSending, now
      <3>2. \A k \in Loops : sending[k].list = 0
        BY <3>1 DEF ChatInv, SendersHold, Threads
      <3> QED
        BY <3>1, <3>2, <2>t, <1>1, <1>2 DEF SendersHold
    <2>2. CASE Servers!getConnectionList(c, m)
      <3>1. server = "cow" /\ sending' = [sending EXCEPT ![l] = now]
        BY <2>2 DEF Servers!getConnectionList, Servers!StartSending, now
      <3> QED
        BY <3>1, <2>t, <1>2 DEF SendersHold
    <2>3. CASE Servers!localOnStringMessage(c, m)
      BY <2>3, <2>t, <1>2 DEF Servers!localOnStringMessage, ChatInv, SendersHold
    <2> QED
      BY <2>1, <2>2, <2>3 DEF Servers!onStringMessage
  <1>5. ChatTypes' /\ ListedOnce' /\ Servers!ListsReadOnly
    BY <1>2, <1>4 DEF ChatInv, ChatTypes, ListedOnce, Up, Servers!ListsReadOnly
  <1> QED
    BY <1>4, <1>5 DEF ChatInv

\* A thread sends on, or ends: it holds what it held, or nothing any more.
LEMMA SendingKeeps ==
  ASSUME Threads, ChatInv, NEW l \in Loops,
         Servers!sendDone(l) \/ \E c \in Conns : Servers!sendNext(l, c)
  PROVE  ChatInv' /\ Servers!ListsReadOnly
  <1>t. DOMAIN sending = Loops
    BY DEF ChatInv, ChatTypes
  <1>1. UNCHANGED <<server, conn, lists, connections_, local>>
    BY ZenonT(30) DEF Servers!sendDone, Servers!sendNext
  <1>2. DOMAIN sending' = Loops /\ SendersHold'
    <2>1. CASE Servers!sendDone(l)
      <3>1. /\ sending' = [sending EXCEPT ![l] = Servers!Nothing]
            /\ mutex_' = IF mutex_ = l THEN Servers!None ELSE mutex_
        BY <2>1 DEF Servers!sendDone
      <3>2. Servers!Nothing.list = 0
        BY DEF Servers!Nothing
      <3> QED
        BY <3>1, <3>2, <1>t, <1>1 DEF ChatInv, SendersHold
    <2>2. ASSUME NEW c \in Conns, Servers!sendNext(l, c) PROVE DOMAIN sending' = Loops /\ SendersHold'
      <3>1. sending' = [sending EXCEPT ![l].todo = @ \ {c}] /\ mutex_' = mutex_
        BY <2>2 DEF Servers!sendNext
      <3>2. DOMAIN sending' = Loops /\ \A k \in Loops : k # l => sending'[k] = sending[k]
        BY <3>1, <1>t
      <3>3. sending'[l].list = 0 \/ sending'[l].list = sending[l].list
        BY <3>1, <1>t
      <3> QED
        BY <3>1, <3>2, <3>3, <1>1 DEF ChatInv, SendersHold
    <2> QED
      BY <2>1, <2>2
  <1>3. ChatTypes' /\ ListedOnce' /\ Servers!ListsReadOnly
    BY <1>1, <1>2 DEF ChatInv, ChatTypes, ListedOnce, Up, Servers!ListsReadOnly
  <1> QED
    BY <1>2, <1>3 DEF ChatInv

\* Before the first connection every list is empty and nobody holds one.
LEMMA ChatInit == ASSUME Threads PROVE Servers!Init => ChatInv
  <1> SUFFICES ASSUME Servers!Init PROVE ChatInv
    OBVIOUS
  <1>1. 1 \in Servers!ListIds
    <2>1. Cardinality(Loops) \in Nat
      BY FS_CardinalityType DEF Threads
    <2> QED
      BY <2>1, ListsCounted
  <1>2. ChatTypes
    BY <1>1 DEF Servers!Init, ChatTypes
  <1>3. SendersHold
    BY DEF Servers!Init, SendersHold, Servers!Nothing
  <1>4. ListedOnce
    BY <1>1 DEF Servers!Init, ListedOnce, Up
  <1> QED
    BY <1>2, <1>3, <1>4 DEF ChatInv

\* Every step keeps the invariant, and none writes to a list that a sender
\* reads.
LEMMA ChatNext ==
  ASSUME Threads, ChatInv, [Servers!Next]_(Servers!vars)
  PROVE  ChatInv' /\ (Servers!ListsReadOnly \/ UNCHANGED Servers!vars)
  <1>1. ASSUME NEW l \in Loops, Servers!callFunctor(l) PROVE ChatInv' /\ Servers!ListsReadOnly
    <2>1. UNCHANGED <<server, conn, mutex_, lists, connections_, local, sending>>
      BY <1>1 DEF Servers!callFunctor
    <2> QED
      BY <2>1 DEF ChatInv, ChatTypes, SendersHold, ListedOnce, Up, Servers!ListsReadOnly
  <1>2. CASE UNCHANGED Servers!vars
    BY <1>2 DEF Servers!vars, ChatInv, ChatTypes, SendersHold, ListedOnce, Up
  <1> QED
    BY <1>1, <1>2, ConnectionKeeps, MessageKeeps, SendingKeeps DEF Servers!Next

-----------------------------------------------------------------------------
\* The list of connections of each server is that of the connections that are up.
THEOREM ChatListAgrees ==
  ASSUME Threads
  PROVE  Servers!Spec => []Servers!ListAgrees
  <1>1. Servers!Init => ChatInv
    BY ChatInit
  <1>2. ChatInv /\ [Servers!Next]_(Servers!vars) => ChatInv'
    BY ChatNext
  <1>3. ChatInv => Servers!ListAgrees
    <2> SUFFICES ASSUME ChatInv PROVE Servers!ListAgrees
      OBVIOUS
    <2>1. CASE server = "local"
      <3>1. \A l \in Loops : local[l] = {c \in Up : LoopOf(c) = l}
        BY <2>1 DEF ChatInv, ListedOnce
      <3>2. UNION {local[l] : l \in Loops} = Up
        BY <3>1 DEF Threads, Up
      <3> QED
        BY <2>1, <3>2 DEF Servers!ListAgrees, Up
    <2>2. CASE server # "local"
      BY <2>2 DEF ChatInv, ListedOnce, Servers!ListAgrees, Up
    <2> QED
      BY <2>1, <2>2
  <1> QED
    BY <1>1, <1>2, <1>3, PTL DEF Servers!Spec

\* No thread changes the list another thread sends through: the copy on write of
\* server_threaded_efficient.cc is made whenever it is needed.
THEOREM ChatListsReadOnly ==
  ASSUME Threads
  PROVE  Servers!Spec => [][Servers!ListsReadOnly]_(Servers!vars)
  <1>1. Servers!Init => ChatInv
    BY ChatInit
  <1>2. ChatInv /\ [Servers!Next]_(Servers!vars) => ChatInv'
    BY ChatNext
  <1>3. ChatInv /\ [Servers!Next]_(Servers!vars) => [Servers!ListsReadOnly]_(Servers!vars)
    BY ChatNext
  <1> QED
    BY <1>1, <1>2, <1>3, PTL DEF Servers!Spec
===============================================================================
