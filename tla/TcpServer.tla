------------------------------ MODULE TcpServer ------------------------------
(***************************************************************************)
(* muduo/net/TcpServer.cc with Acceptor.cc and EventLoopThreadPool.cc: the  *)
(* base loop accepts connections and deals them to I/O loops in threads of *)
(* their own; a connection that goes down is removed from the map in the    *)
(* base loop and destroyed in its I/O loop; the destructor of the server    *)
(* hands every connection to its loop and ends the loops.                   *)
(*                                                                         *)
(* A loop calls its functors in batches, as in EventLoop.tla; functors hold *)
(* their connection until the batch is over.  Of a connection the model has *)
(* what TcpConnection.tla shows of it: it is up, is shut down, goes down,   *)
(* is destroyed.                                                            *)
(***************************************************************************)
EXTENDS Integers, Sequences, FiniteSets, SequencesExt

CONSTANTS
  MaxThreads,  \* bound on numThreads_
  MaxConns,    \* bound on the connections
  MaxFds,      \* descriptors left for connections
  MaxBacklog   \* bound on clients that wait

Base == 0
IoLoops == 1 .. MaxThreads
Loops == {Base} \cup IoLoops
Conns == 1 .. MaxConns

VARIABLES
  server,        \* "new", "started", "joining" in the destructor, "gone"
  numThreads_,   \* of the pool
  joining,       \* the thread the destructor of the pool is at
  next_,         \* index into loops_, from 1
  nextConnId_,
  connections_,
  backlog,       \* clients in the queue of the listening socket
  idle,          \* idleFd_ is open
  state_,        \* of each connection
  ioLoop,        \* loop of each connection
  added,         \* connections whose channel is in a poller
  destroys,      \* history: calls of connectDestroyed()
  queue,         \* pendingFunctors_ of each loop: <<function, connection>>
  batch,         \* functors doPendingFunctors() has swapped out
  pos,           \* the one that is called next
  lpc,           \* where each loop is: "poll", "functors" or "done"
  quit_,         \* of each loop
  lost           \* history: connections in functors that a loop left behind

conns == <<state_, ioLoop, added, destroys>>
loops == <<queue, batch, pos, lpc, quit_, lost>>
accepting == <<next_, nextConnId_, backlog, idle>>
vars == <<server, numThreads_, joining, connections_, accepting, conns, loops>>

Functor == {"established", "destroyed", "remove"} \X Conns

TypeOK ==
  /\ server \in {"new", "started", "joining", "gone"} /\ joining \in 0 .. MaxThreads + 1
  /\ numThreads_ \in 0 .. MaxThreads /\ next_ \in 1 .. (IF numThreads_ = 0 THEN 1 ELSE numThreads_)
  /\ nextConnId_ \in 1 .. MaxConns + 1 /\ connections_ \subseteq 1 .. nextConnId_ - 1
  /\ backlog \in 0 .. MaxBacklog /\ idle \in BOOLEAN
  /\ state_ \in [Conns -> {"none", "kConnecting", "kConnected", "kDisconnecting", "kDisconnected"}]
  /\ ioLoop \in [Conns -> Loops] /\ added \subseteq Conns /\ destroys \in [Conns -> Nat]
  /\ queue \in [Loops -> Seq(Functor)] /\ batch \in [Loops -> Seq(Functor)]
  /\ \A l \in Loops : pos[l] \in 1 .. Len(batch[l]) + 1
  /\ lpc \in [Loops -> {"poll", "functors", "done"}] /\ quit_ \in [Loops -> BOOLEAN]
  /\ lost \subseteq Conns

Init ==
  /\ server = "new" /\ numThreads_ = 0 /\ joining = 0 /\ next_ = 1 /\ nextConnId_ = 1 /\ connections_ = {}
  /\ backlog = 0 /\ idle = TRUE
  /\ state_ = [c \in Conns |-> "none"] /\ ioLoop = [c \in Conns |-> Base]
  /\ added = {} /\ destroys = [c \in Conns |-> 0]
  /\ queue = [l \in Loops |-> <<>>] /\ batch = [l \in Loops |-> <<>>]
  /\ pos = [l \in Loops |-> 1] /\ lpc = [l \in Loops |-> "poll"]
  /\ quit_ = [l \in Loops |-> FALSE] /\ lost = {}

-----------------------------------------------------------------------------
(* Operators.                                                               *)

ConnsOf(functors) == {f[2] : f \in ToSet(functors)}

\* Somebody has a shared_ptr of the connection; its descriptor is open as long.
Referenced(c) == c \in connections_ \/ \E l \in Loops : c \in ConnsOf(queue[l] \o batch[l])
Open == {c \in 1 .. nextConnId_ - 1 : Referenced(c)}

Push(q, l, op, c) == [q EXCEPT ![l] = Append(@, <<op, c>>)]

\* User code and handlers run in a loop that is not blocked in the destructor.
AtPoll(l) == lpc[l] = "poll" /\ (l = Base => server # "joining")

\* Mutant of AfterLoop: the last loop is never reached.
AfterLoopShort(n) == IF n + 1 >= numThreads_ THEN 1 ELSE n + 1

AfterLoop(n) == IF n + 1 > numThreads_ THEN 1 ELSE n + 1

\* getNextLoop()
NextLoop == IF numThreads_ = 0 THEN Base ELSE next_

-----------------------------------------------------------------------------
(* The base loop.                                                           *)

SetThreadNum(n) ==
  /\ server = "new" /\ AtPoll(Base)
  /\ numThreads_' = n
  /\ UNCHANGED <<server, joining, connections_, accepting, conns, loops>>

\* start(), in the thread of the base loop, and Acceptor::listen()
Start ==
  /\ server = "new" /\ AtPoll(Base)
  /\ server' = "started"
  /\ UNCHANGED <<numThreads_, joining, connections_, accepting, conns, loops>>

ClientConnects ==
  /\ backlog < MaxBacklog
  /\ backlog' = backlog + 1
  /\ UNCHANGED <<server, numThreads_, joining, connections_, next_, nextConnId_, idle, conns, loops>>

\* Acceptor::handleRead() and newConnection(): connectEstablished() is called at
\* once in the base loop and queued for another one.
Accept ==
  /\ server = "started" /\ AtPoll(Base)
  /\ backlog > 0 /\ Cardinality(Open) < MaxFds
  /\ nextConnId_ <= MaxConns
  /\ backlog' = backlog - 1
  /\ nextConnId_' = nextConnId_ + 1
  /\ next_' = IF numThreads_ = 0 THEN next_ ELSE AfterLoop(next_)
  /\ LET c == nextConnId_
         io == NextLoop
     IN /\ connections_' = connections_ \cup {c}
        /\ ioLoop' = [ioLoop EXCEPT ![c] = io]
        /\ IF io = Base
           THEN /\ state_' = [state_ EXCEPT ![c] = "kConnected"]
                /\ added' = added \cup {c}
                /\ UNCHANGED queue
           ELSE /\ state_' = [state_ EXCEPT ![c] = "kConnecting"]
                /\ queue' = Push(queue, io, "established", c)
                /\ UNCHANGED added
  /\ UNCHANGED <<server, numThreads_, joining, idle, destroys, batch, pos, lpc, quit_, lost>>

\* Mutant of AcceptRefused: the error is only logged, and the loop spins.
AcceptRefusedLogged ==
  /\ server = "started" /\ AtPoll(Base)
  /\ backlog > 0 /\ Cardinality(Open) >= MaxFds
  /\ UNCHANGED vars

\* EMFILE: idleFd_ gives its descriptor to the client, which is dropped, and
\* takes it back.
AcceptRefused ==
  /\ server = "started" /\ AtPoll(Base)
  /\ backlog > 0 /\ Cardinality(Open) >= MaxFds
  /\ backlog' = IF idle THEN backlog - 1 ELSE backlog
  /\ idle' = TRUE
  /\ UNCHANGED <<server, numThreads_, joining, connections_, next_, nextConnId_, conns, loops>>

\* Mutant of RemoveConnectionInLoop: the map keeps the connection.
RemoveAndKeep(c, q) ==
  /\ queue' = Push(q, ioLoop[c], "destroyed", c)
  /\ UNCHANGED connections_

\* removeConnectionInLoop(), with q the functors of the loops
RemoveConnectionInLoop(c, q) ==
  /\ connections_' = connections_ \ {c}
  /\ queue' = Push(q, ioLoop[c], "destroyed", c)

\* Mutant of StateDestroyed: the connection is only removed from the poller.
StateKept(c) == state_[c]

\* TcpConnection::connectDestroyed(): it tests for kConnected, so a connection
\* that is being shut down stays kDisconnecting.
StateDestroyed(c) == IF state_[c] = "kConnected" THEN "kDisconnected" ELSE state_[c]

\* ~TcpServer(): connectDestroyed() is called at once in the base loop and
\* queued for the others.
Destroyed == {c \in connections_ : ioLoop[c] = Base}

QueueDestroyed(l) ==
  LET cs == SetToSeq({c \in connections_ : ioLoop[c] = l})
  IN [i \in 1 .. Len(cs) |-> <<"destroyed", cs[i]>>]

Destroy ==
  /\ server \in {"new", "started"} /\ AtPoll(Base)
  /\ server' = "joining" /\ joining' = IF server = "started" THEN 1 ELSE numThreads_ + 1
  /\ connections_' = {}
  /\ state_' = [c \in Conns |-> IF c \in Destroyed THEN StateDestroyed(c) ELSE state_[c]]
  /\ added' = added \ Destroyed
  /\ destroys' = [c \in Conns |-> IF c \in Destroyed THEN destroys[c] + 1 ELSE destroys[c]]
  /\ queue' = [l \in Loops |-> IF l = Base THEN queue[l] ELSE queue[l] \o QueueDestroyed(l)]
  /\ UNCHANGED <<numThreads_, accepting, ioLoop, batch, pos, lpc, quit_, lost>>

\* ~EventLoopThread() of the threads of the pool, one after the other
QuitLoop ==
  /\ server = "joining" /\ joining \in IoLoops
  /\ ~quit_[joining]
  /\ quit_' = [quit_ EXCEPT ![joining] = TRUE]
  /\ UNCHANGED <<server, numThreads_, joining, connections_, accepting, conns, queue, batch, pos, lpc, lost>>

JoinLoop ==
  /\ server = "joining" /\ joining \in IoLoops
  /\ lpc[joining] = "done"
  /\ joining' = joining + 1
  /\ UNCHANGED <<server, numThreads_, connections_, accepting, conns, loops>>

\* The Acceptor goes last.
DestroyReturns ==
  /\ server = "joining" /\ joining > numThreads_
  /\ server' = "gone" /\ joining' = 0 /\ idle' = FALSE
  /\ UNCHANGED <<numThreads_, connections_, next_, nextConnId_, backlog, conns, loops>>

-----------------------------------------------------------------------------
(* Every loop.                                                              *)

\* TcpConnection::shutdown(), called in the loop of the connection
Shutdown(c) ==
  /\ state_[c] = "kConnected" /\ AtPoll(ioLoop[c])
  /\ state_' = [state_ EXCEPT ![c] = "kDisconnecting"]
  /\ UNCHANGED <<server, numThreads_, joining, connections_, accepting, ioLoop, added, destroys, loops>>

\* The peer, an error or user code takes the connection down: handleClose() and
\* removeConnection().  Nobody removes it when the server is gone.
HandleClose(c) ==
  LET l == ioLoop[c]
  IN /\ state_[c] \in {"kConnected", "kDisconnecting"} /\ c \in added /\ AtPoll(l)
     /\ server = "started" \/ (server = "joining" /\ l # Base)
     /\ state_' = [state_ EXCEPT ![c] = "kDisconnected"]
     /\ IF l = Base
        THEN RemoveConnectionInLoop(c, queue)
        ELSE queue' = Push(queue, Base, "remove", c) /\ UNCHANGED connections_
     /\ UNCHANGED <<server, numThreads_, joining, accepting, ioLoop, added, destroys, batch, pos, lpc, quit_,
                    lost>>

SwapFunctors(l) ==
  /\ AtPoll(l)
  /\ queue[l] # <<>> \/ quit_[l]
  /\ batch' = [batch EXCEPT ![l] = queue[l]] /\ queue' = [queue EXCEPT ![l] = <<>>]
  /\ lpc' = [lpc EXCEPT ![l] = "functors"]
  /\ UNCHANGED <<server, numThreads_, joining, connections_, accepting, conns, pos, quit_, lost>>

Calls(l, op) ==
  /\ lpc[l] = "functors" /\ (l = Base => server # "joining")
  /\ pos[l] <= Len(batch[l]) /\ batch[l][pos[l]][1] = op
  /\ pos' = [pos EXCEPT ![l] = @ + 1]
  /\ UNCHANGED <<server, numThreads_, joining, accepting, ioLoop, batch, lpc, quit_, lost>>

ConnectEstablished(l) ==
  /\ Calls(l, "established")
  /\ LET c == batch[l][pos[l]][2]
     IN state_' = [state_ EXCEPT ![c] = "kConnected"] /\ added' = added \cup {c}
  /\ UNCHANGED <<connections_, destroys, queue>>

ConnectDestroyed(l) ==
  /\ Calls(l, "destroyed")
  /\ LET c == batch[l][pos[l]][2]
     IN /\ state_' = [state_ EXCEPT ![c] = StateDestroyed(c)]
        /\ added' = added \ {c}
        /\ destroys' = [destroys EXCEPT ![c] = @ + 1]
  /\ UNCHANGED <<connections_, queue>>

\* The functor has the server's raw pointer: what it does when the server is
\* gone is not followed.
RemoveConnection ==
  /\ server # "gone"
  /\ Calls(Base, "remove")
  /\ RemoveConnectionInLoop(batch[Base][pos[Base]][2], queue)
  /\ UNCHANGED <<state_, added, destroys>>

\* The batch is destroyed; a loop that was told to quit ends, and the functors
\* that are still queued go with it.
FunctorsDone(l) ==
  /\ lpc[l] = "functors" /\ (l = Base => server # "joining")
  /\ pos[l] > Len(batch[l])
  /\ batch' = [batch EXCEPT ![l] = <<>>] /\ pos' = [pos EXCEPT ![l] = 1]
  /\ lpc' = [lpc EXCEPT ![l] = IF quit_[l] THEN "done" ELSE "poll"]
  /\ queue' = IF quit_[l] THEN [queue EXCEPT ![l] = <<>>] ELSE queue
  /\ lost' = IF quit_[l] THEN lost \cup ConnsOf(queue[l]) ELSE lost
  /\ UNCHANGED <<server, numThreads_, joining, connections_, accepting, conns, quit_>>

LoopStep(l) ==
  \/ SwapFunctors(l) \/ ConnectEstablished(l) \/ ConnectDestroyed(l) \/ FunctorsDone(l)
  \/ l = Base /\ RemoveConnection

AcceptorStep == Accept \/ AcceptRefused
DestructorStep == QuitLoop \/ JoinLoop \/ DestroyReturns

Next ==
  \/ \E n \in 1 .. MaxThreads : SetThreadNum(n)
  \/ Start \/ ClientConnects \/ AcceptorStep \/ Destroy \/ DestructorStep
  \/ \E c \in Conns : Shutdown(c) \/ HandleClose(c)
  \/ \E l \in Loops : LoopStep(l)

Spec == Init /\ [][Next]_vars

\* Every loop goes on, and the listening socket is not starved by the others.
Fairness ==
  /\ \A l \in Loops : WF_vars(LoopStep(l))
  /\ SF_vars(AcceptorStep) /\ WF_vars(DestructorStep)

FairSpec == Spec /\ Fairness

-----------------------------------------------------------------------------
(* Properties.                                                              *)

\* Functors of the base loop that are still to be called.
Coming == SubSeq(batch[Base], pos[Base], Len(batch[Base])) \o queue[Base]

\* Every handler finds what its assertions say, though three threads queue them:
\* removeConnectionInLoop() finds the connection in the map (n == 1),
\* connectEstablished() one that is kConnecting, connectDestroyed() one that was
\* established and never destroyed.  And as long as the server lives, a
\* connection that is not down is in its map, where the destructor finds it.
HandlersFindState ==
  /\ server = "started" =>
       \A c \in Conns :
         /\ <<"remove", c>> \in ToSet(Coming) => c \in connections_
         /\ state_[c] \in {"kConnecting", "kConnected", "kDisconnecting"} => c \in connections_
  /\ \A l \in Loops : pos[l] <= Len(batch[l]) =>
       LET f == batch[l][pos[l]]
       IN /\ f[1] = "established" => state_[f[2]] = "kConnecting"
          /\ f[1] = "destroyed" => state_[f[2]] # "kConnecting" /\ destroys[f[2]] = 0

\* When the last shared_ptr goes, the channel of the connection is out of the
\* poller and the connection is down (assertions of ~Channel() and
\* ~TcpConnection()), as long as no loop quits with functors left.  The second
\* fails for one that was being shut down when the destructor of the server
\* found it in the map, and only for such a one.
FreedClean ==
  \A c \in 1 .. nextConnId_ - 1 :
    ~Referenced(c) /\ c \notin lost =>
      /\ c \notin added
      /\ \/ state_[c] = "kDisconnected"
         \/ state_[c] = "kDisconnecting" /\ server \in {"joining", "gone"} /\ destroys[c] = 1

\* ~Channel() asserts that the channel is in no loop any more: connections the
\* destructor of the server has handed to I/O loops it then quits.
DestructorFreesClean ==
  \A c \in 1 .. nextConnId_ - 1 : ~Referenced(c) => c \notin added

\* getNextLoop() deals connections evenly.
DealtEvenly ==
  LET dealt(l) == Cardinality({c \in 1 .. nextConnId_ - 1 : ioLoop[c] = l})
  IN \A i, j \in 1 .. numThreads_ : dealt(i) <= dealt(j) + 1

\* A connection that goes down is freed, through the three loops it takes.
DownIsFreed ==
  \A c \in Conns : state_[c] = "kDisconnected" ~> ~Referenced(c) \/ server = "gone"

\* A waiting client is accepted or dropped: the loop does not spin on it when
\* descriptors run out.
BacklogServed ==
  [](server = "started" /\ backlog = MaxBacklog
     => <>(backlog < MaxBacklog \/ server # "started" \/ nextConnId_ > MaxConns))

\* The destructor of the server returns.
DestructorReturns == server = "joining" ~> server = "gone"
==============================================================================
