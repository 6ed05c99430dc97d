------------------------------ MODULE RpcChannel ------------------------------
(***************************************************************************)
(* muduo/net/protorpc/RpcChannel.cc: calls of several threads through one    *)
(* channel, a server that answers them in any order, and the connection     *)
(* between them, which may go down.                                         *)
(***************************************************************************)
EXTENDS Integers, Sequences, FiniteSets

CONSTANTS
  Callers,        \* threads of the client
  MaxCalls        \* bound on the calls of each

Calls == Callers \X (1 .. MaxCalls)

VARIABLES
  id_,            \* AtomicInt64
  outstandings_,  \* pairs <<id, call>>; a call stands for its response and done
  cpc,            \* caller -> "idle" or the step of CallMethod() it is at
  cid,            \* caller -> id of its message
  made,           \* caller -> calls begun
  requests,       \* messages to the server, [id, call]
  replies,        \* messages to the client, [id, reply]
  serving,        \* closures of doneCallback() that services hold, [id, call]
  up,             \* the connection is up
  alive,          \* the channel of the client exists
  ran,            \* history: <<call, reply>> in the order done->Run() was called
  deleted         \* history: calls whose done was deleted by the destructor

caller == <<cpc, cid, made>>
network == <<requests, replies, serving, up>>
rpcVars == <<id_, outstandings_, caller, network, alive, ran, deleted>>

Error == <<"error", 0>>

TypeOK ==
  /\ id_ \in Nat /\ outstandings_ \subseteq (1 .. id_) \X Calls
  /\ cpc \in [Callers -> {"idle", "insert", "send"}] /\ cid \in [Callers -> 0 .. id_]
  /\ made \in [Callers -> 0 .. MaxCalls]
  /\ serving \subseteq [id : 1 .. id_, call : Calls]
  /\ up \in BOOLEAN /\ alive \in BOOLEAN

Init ==
  /\ id_ = 0 /\ outstandings_ = {}
  /\ cpc = [c \in Callers |-> "idle"] /\ cid = [c \in Callers |-> 0]
  /\ made = [c \in Callers |-> 0]
  /\ requests = <<>> /\ replies = <<>> /\ serving = {} /\ up = TRUE
  /\ alive = TRUE /\ ran = <<>> /\ deleted = {}

-----------------------------------------------------------------------------
(* CallMethod(): the id is taken, the call is stored, the request is sent.   *)

\* Mutant of NewId: the id is read and not incremented in the same step.
NewIdStale(c) ==
  /\ cid' = [cid EXCEPT ![c] = id_ + 1]
  /\ id_' = IF \E d \in Callers \ {c} : cpc[d] = "insert" THEN id_ ELSE id_ + 1

NewId(c) ==
  /\ id_' = id_ + 1
  /\ cid' = [cid EXCEPT ![c] = id_']

CallMethod(c) ==
  /\ alive /\ cpc[c] = "idle" /\ made[c] < MaxCalls
  /\ NewId(c)
  /\ made' = [made EXCEPT ![c] = @ + 1]
  /\ cpc' = [cpc EXCEPT ![c] = "insert"]
  /\ UNCHANGED <<outstandings_, network, alive, ran, deleted>>

\* outstandings_[id] = out, under the mutex
Insert(c) ==
  /\ cpc[c] = "insert"
  /\ outstandings_' = {o \in outstandings_ : o[1] # cid[c]} \cup {<<cid[c], <<c, made[c]>>>>}
  /\ cpc' = [cpc EXCEPT ![c] = "send"]
  /\ UNCHANGED <<id_, cid, made, network, alive, ran, deleted>>

\* A connection that is not up drops what is sent.
Send(c) ==
  /\ cpc[c] = "send"
  /\ requests' = IF up THEN Append(requests, [id |-> cid[c], call |-> <<c, made[c]>>]) ELSE requests
  /\ cpc' = [cpc EXCEPT ![c] = "idle"]
  /\ UNCHANGED <<id_, outstandings_, cid, made, replies, serving, up, alive, ran, deleted>>

-----------------------------------------------------------------------------
(* onRpcMessage()                                                            *)

\* REQUEST: the service gets the request and a closure, ...
Serve ==
  /\ requests # <<>>
  /\ requests' = Tail(requests)
  /\ serving' = serving \cup {Head(requests)}
  /\ UNCHANGED <<id_, outstandings_, caller, replies, up, alive, ran, deleted>>

\* ... or there is no such service or method, or the request does not parse.
Refuse ==
  /\ requests # <<>>
  /\ requests' = Tail(requests)
  /\ replies' = Append(replies, [id |-> Head(requests).id, reply |-> Error])
  /\ UNCHANGED <<id_, outstandings_, caller, serving, up, alive, ran, deleted>>

\* doneCallback(), when the service is done
DoneCallback(s) ==
  /\ up
  /\ serving' = serving \ {s}
  /\ replies' = Append(replies, [id |-> s.id, reply |-> s.call])
  /\ UNCHANGED <<id_, outstandings_, caller, requests, up, alive, ran, deleted>>

\* Mutant of Erased: the call stays in outstandings_.
ErasedNot(found) == outstandings_

Erased(found) == outstandings_ \ found

\* RESPONSE
OnResponse ==
  LET message == Head(replies)
      found == {o \in outstandings_ : o[1] = message.id}
  IN /\ replies # <<>>
     /\ replies' = Tail(replies)
     /\ outstandings_' = Erased(found)
     /\ ran' = IF found = {} THEN ran
               ELSE Append(ran, <<(CHOOSE o \in found : TRUE)[2], message.reply>>)
     /\ UNCHANGED <<id_, caller, requests, serving, up, alive, deleted>>

\* The connection goes down with what is on its way; the channel of the server is
\* destroyed, and its services give up the closures they hold.
Down ==
  /\ up
  /\ up' = FALSE
  /\ requests' = <<>> /\ replies' = <<>> /\ serving' = {}
  /\ UNCHANGED <<id_, outstandings_, caller, alive, ran, deleted>>

\* ~RpcChannel() of the client, when no thread calls
Destroy ==
  /\ alive /\ ~ up /\ \A c \in Callers : cpc[c] = "idle"
  /\ alive' = FALSE
  /\ deleted' = {o[2] : o \in outstandings_}
  /\ UNCHANGED <<id_, outstandings_, caller, network, ran>>

Next ==
  \/ \E c \in Callers : CallMethod(c) \/ Insert(c) \/ Send(c)
  \/ Serve \/ Refuse \/ OnResponse \/ Down \/ Destroy
  \/ \E s \in serving : DoneCallback(s)

Spec == Init /\ [][Next]_rpcVars

-----------------------------------------------------------------------------
(* Properties.                                                              *)

RanCalls == {ran[i][1] : i \in 1 .. Len(ran)}

\* The done closure of a call is run at most once, with the response to that very
\* call or with an error; the destructor deletes those that were not run, and no
\* others.
DoneOnce ==
  /\ Cardinality(RanCalls) = Len(ran)
  /\ \A i \in 1 .. Len(ran) : ran[i][2] \in {ran[i][1], Error}
  /\ RanCalls \cap deleted = {}
  /\ ~ alive => RanCalls \cup deleted = {call \in Calls : call[2] <= made[call[1]]}

\* As long as the connection is up no call is forgotten: one that was made and not
\* completed is on its way, held by a service or on its way back, and its response
\* will find it in outstandings_.
CallsTracked ==
  up => \A c \in Callers : \A k \in 1 .. made[c] :
    LET call == <<c, k>>
    IN \/ call \in RanCalls
       \/ k = made[c] /\ cpc[c] = "insert"
       \/ \E o \in outstandings_ :
            /\ o[2] = call
            /\ \/ k = made[c] /\ cpc[c] = "send"
               \/ [id |-> o[1], call |-> call] \in serving
               \/ \E i \in 1 .. Len(requests) : requests[i] = [id |-> o[1], call |-> call]
               \/ \E i \in 1 .. Len(replies) : replies[i].id = o[1] /\ replies[i].reply \in {call, Error}
===============================================================================
