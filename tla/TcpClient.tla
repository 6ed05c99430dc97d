----------------------------- MODULE TcpClient ------------------------------
(***************************************************************************)
(* A client: the Connector, as operators, then the TcpClient on top of it, *)
(* which makes actions of them.                                            *)
(***************************************************************************)
EXTENDS Integers, Sequences, FiniteSets, SequencesExt

-----------------------------------------------------------------------------
(***************************************************************************)
(* muduo/net/Connector.cc: attempts to connect, with retries that back off. *)
(* Its operations are operators here; TcpClient.tla makes actions of them.  *)
(*                                                                         *)
(* A socket is a descriptor; connect() takes one that is free.  Functors    *)
(* queued in the loop are tuples, of which "start", "stop" and "reset" have *)
(* the raw pointer of the Connector.                                        *)
(***************************************************************************)

CONSTANTS
  Fds,        \* descriptors, positive numbers
  InitDelay,  \* kInitRetryDelayMs
  MaxDelay    \* kMaxRetryDelayMs

NoFd == 0

VARIABLES
  connect_,       \* of the Connector
  state_,
  channel_,       \* descriptor of the Channel, or NoFd
  polled,         \* the channel is in the poller
  retryDelayMs_,
  timers,         \* timers that will call startInLoop(), each with a shared_ptr
  attempts,       \* open sockets connect() has created and not passed on
  gaveUp,         \* history: connect() met an error it does not retry
  queue           \* pendingFunctors_ of the loop

connectorVars == <<connect_, state_, channel_, polled, retryDelayMs_, timers, attempts, gaveUp>>

ConnectorTypeOK ==
  /\ connect_ \in BOOLEAN /\ state_ \in {"kDisconnected", "kConnecting", "kConnected"}
  /\ channel_ \in Fds \cup {NoFd} /\ polled \in BOOLEAN
  /\ retryDelayMs_ \in InitDelay .. MaxDelay /\ timers \in Nat
  /\ attempts \subseteq Fds /\ gaveUp \in BOOLEAN

ConnectorInit ==
  /\ connect_ = FALSE /\ state_ = "kDisconnected" /\ channel_ = NoFd /\ polled = FALSE
  /\ retryDelayMs_ = InitDelay /\ timers = 0 /\ attempts = {} /\ gaveUp = FALSE
  /\ queue = <<>>

\* Mutant of Backoff: the delay is doubled without a limit.
BackoffUnlimited(delay) == 2 * delay

Backoff(delay) == IF 2 * delay < MaxDelay THEN 2 * delay ELSE MaxDelay

\* retry(), its socket closed, with t the timers that are pending: another timer
\* after the delay, when the connection is wanted.
Retry(wanted, delay, t) ==
  /\ state_' = "kDisconnected"
  /\ IF wanted
     THEN timers' = t + 1 /\ retryDelayMs_' = Backoff(delay)
     ELSE timers' = t /\ retryDelayMs_' = delay

\* connect(), entered in the state st: in progress with the lowest socket that is free, an
\* error that is retried, or one that is not.
Connect(used, st, delay, t) ==
  \/ \E fd \in Fds \ used :
       /\ \A e \in Fds \ used : fd <= e
       /\ state_' = "kConnecting" /\ channel_' = fd /\ polled' = TRUE
       /\ attempts' = attempts \cup {fd}
       /\ timers' = t /\ retryDelayMs_' = delay
       /\ UNCHANGED gaveUp
  \/ /\ Retry(TRUE, delay, t)
     /\ UNCHANGED <<channel_, polled, attempts, gaveUp>>
  \/ /\ gaveUp' = TRUE /\ state_' = st /\ timers' = t /\ retryDelayMs_' = delay
     /\ UNCHANGED <<channel_, polled, attempts>>

\* startInLoop()
StartInLoop(used, wanted, delay, t) ==
  IF wanted
  THEN Connect(used, state_, delay, t)
  ELSE /\ timers' = t
       /\ UNCHANGED <<state_, channel_, polled, retryDelayMs_, attempts, gaveUp>>

\* Mutant of RemoveAndResetChannel: the channel is left for the next attempt.
RemoveAndKeepChannel ==
  /\ polled' = FALSE
  /\ UNCHANGED <<channel_, queue>>

\* removeAndResetChannel(): the channel is out of the poller; it is destroyed by a
\* functor, since its handleEvent() is running.
RemoveAndResetChannel ==
  /\ polled' = FALSE
  /\ queue' = Append(queue, <<"reset">>)
  /\ UNCHANGED channel_

\* Mutant of StopInLoop: the socket is forgotten.
StopInLoopLeaks ==
  IF state_ = "kConnecting"
  THEN /\ RemoveAndResetChannel
       /\ Retry(connect_, retryDelayMs_, timers)
       /\ UNCHANGED <<connect_, attempts, gaveUp>>
  ELSE UNCHANGED <<connectorVars, queue>>

\* stopInLoop()
StopInLoop ==
  IF state_ = "kConnecting"
  THEN /\ RemoveAndResetChannel
       /\ Retry(connect_, retryDelayMs_, timers)
       /\ attempts' = attempts \ {channel_}
       /\ UNCHANGED <<connect_, gaveUp>>
  ELSE UNCHANGED <<connectorVars, queue>>

\* resetChannel()
ResetChannel ==
  /\ channel_' = NoFd
  /\ UNCHANGED <<connect_, state_, polled, retryDelayMs_, timers, attempts, gaveUp, queue>>

\* handleError(), and handleWrite() with an error or a connection to itself
AttemptFails ==
  /\ polled /\ state_ = "kConnecting"
  /\ RemoveAndResetChannel
  /\ Retry(connect_, retryDelayMs_, timers)
  /\ attempts' = attempts \ {channel_}
  /\ UNCHANGED <<connect_, gaveUp>>

\* handleWrite() with a connection: newConnectionCallback_ gets the socket, or it
\* is closed.
AttemptSucceeds ==
  /\ polled /\ state_ = "kConnecting"
  /\ RemoveAndResetChannel
  /\ state_' = "kConnected"
  /\ attempts' = attempts \ {channel_}
  /\ UNCHANGED <<connect_, retryDelayMs_, timers, gaveUp>>

-----------------------------------------------------------------------------
(***************************************************************************)
(* muduo/net/TcpClient.cc on top of its Connector, in one loop: connect(),  *)
(* disconnect() and stop() from callbacks in the thread of the loop and from *)
(* another thread, one connection at a time, reconnection when it is lost,  *)
(* and the destructor.                                                      *)
(***************************************************************************)

CONSTANTS
  MaxConnects,  \* bound on calls of connect()
  MaxStops,     \* bound on calls of stop() and disconnect()
  RemoteStop    \* the values of retry_ with which another thread calls stop()

VARIABLES
  client,       \* "alive" or "gone"
  retry_,
  wants,        \* connect_ of the TcpClient
  connection_,  \* descriptor of the connection, or NoFd
  up,           \* connections that are up
  detached,     \* connections whose close callback is detail::removeConnection()
  held,         \* connections the user has a shared_ptr of
  batch,        \* functors doPendingFunctors() has swapped out and not called
  handled,      \* an event has been handled since poll() returned
  restarting,   \* removeConnection() is about to call restart()
  hack,         \* the timer of the destructor, with a shared_ptr of the Connector
  upc,          \* the call the other thread is in
  connects, stops, stopped, \* history: numbers of calls, and whether stop() is "called" or "done"
  again         \* history: connect() started the Connector when it was not idle

clientVars == <<client, retry_, wants, connection_, detached, hack, stopped>>
connVars == <<up, held>>
callVars == <<upc, connects, stops, again>>
loopVars == <<batch, handled, restarting>>
vars == <<connectorVars, queue, clientVars, connVars, callVars, loopVars>>

Pending == batch \o queue
Functors == {Pending[i] : i \in 1 .. Len(Pending)}
Raw == {<<"start">>, <<"stop">>, <<"reset">>}

\* Somebody has a shared_ptr of the connection.
Referenced(fd) == fd = connection_ \/ fd \in held \/ \E f \in Functors : Len(f) = 2 /\ f[2] = fd
Live == {fd \in Fds : Referenced(fd)}
Used == attempts \cup Live

\* ~Connector() has run.
ConnectorFreed == client = "gone" /\ timers = 0 /\ ~hack

\* Nothing is left of an earlier connect() or connection.
Idle == timers = 0 /\ attempts = {} /\ channel_ = NoFd /\ connection_ = NoFd

\* What the code leaves to its user has gone wrong: a functor has the pointer of a
\* Connector that is gone (FIXME: unsafe), or a second attempt or connection has
\* taken the place of the first (FIXME: check state, FIXME: cancel timer).  What
\* follows is undefined and not modelled.
Broken ==
  \/ ConnectorFreed /\ (polled \/ Functors \cap Raw # {})
  \/ attempts # IF state_ = "kConnecting" THEN {channel_} ELSE {}
  \/ state_ = "kConnecting" /\ <<"reset">> \in Functors
  \/ ~(up \ detached \subseteq {connection_})

TypeOK ==
  /\ ConnectorTypeOK
  /\ client \in {"alive", "gone"} /\ retry_ \in BOOLEAN /\ wants \in BOOLEAN
  /\ connection_ \in Fds \cup {NoFd} /\ up \subseteq Fds /\ held \subseteq Fds /\ detached \subseteq Fds
  /\ hack \in BOOLEAN /\ restarting \in BOOLEAN /\ handled \in BOOLEAN
  /\ upc \in {"idle", "connect", "connecting", "stop", "stopping"}
  /\ stopped \in {"no", "called", "done"} /\ again \in BOOLEAN

Init ==
  /\ ConnectorInit
  /\ client = "alive" /\ retry_ \in BOOLEAN /\ wants = TRUE /\ connection_ = NoFd
  /\ up = {} /\ detached = {} /\ held = {} /\ batch = <<>> /\ handled = FALSE /\ restarting = FALSE
  /\ hack = FALSE
  /\ upc = "idle" /\ connects = 0 /\ stops = 0 /\ stopped = "no" /\ again = FALSE

-----------------------------------------------------------------------------
(* Calls in the thread of the loop, from callbacks and functors.            *)

Free == client = "alive" /\ ~restarting

LocalConnect ==
  /\ Free /\ connects < MaxConnects
  /\ connects' = connects + 1 /\ wants' = TRUE /\ connect_' = TRUE /\ stopped' = "no"
  /\ again' = (again \/ ~Idle)
  /\ StartInLoop(Used, TRUE, retryDelayMs_, timers)
  /\ UNCHANGED <<queue, client, retry_, connection_, detached, hack, connVars, upc, stops, loopVars>>

LocalStop ==
  /\ Free /\ stops < MaxStops
  /\ stops' = stops + 1 /\ wants' = FALSE /\ connect_' = FALSE /\ stopped' = "called"
  /\ queue' = Append(queue, <<"stop">>)
  /\ UNCHANGED <<state_, channel_, polled, retryDelayMs_, timers, attempts, gaveUp, client, retry_,
                 connection_, detached, hack, connVars, upc, connects, again, loopVars>>

\* disconnect(): the connection will go down, which ConnectionDown does.
Disconnect ==
  /\ Free /\ stops < MaxStops
  /\ stops' = stops + 1 /\ wants' = FALSE
  /\ UNCHANGED <<connectorVars, queue, client, retry_, connection_, detached, hack, stopped, connVars,
                 upc, connects, again, loopVars>>

\* The user keeps a shared_ptr of a connection until it is down, of one at a time
\* (bound on the descriptors).
Hold ==
  /\ connection_ \in up /\ held = {}
  /\ held' = held \cup {connection_}
  /\ UNCHANGED <<connectorVars, queue, clientVars, up, callVars, loopVars>>

Release ==
  \E fd \in held \ up :
    /\ held' = held \ {fd}
    /\ UNCHANGED <<connectorVars, queue, clientVars, up, callVars, loopVars>>

\* ~TcpClient() with a connection.  It releases the Connector, whatever functors have
\* its raw pointer (FIXME: unsafe).
DestroyConnected ==
  /\ Free /\ upc = "idle" /\ connection_ # NoFd
  /\ client' = "gone" /\ connection_' = NoFd
  /\ detached' = detached \cup {connection_}
  /\ queue' = IF connection_ \in held \/ <<"destroyed", connection_>> \in Functors THEN queue
              ELSE Append(queue, <<"forceClose", connection_>>)
  /\ UNCHANGED <<connectorVars, retry_, wants, hack, stopped, connVars, callVars, loopVars>>

\* ~TcpClient() without one
DestroyUnconnected ==
  /\ Free /\ upc = "idle" /\ connection_ = NoFd
  /\ client' = "gone" /\ connect_' = FALSE /\ stopped' = "called" /\ hack' = TRUE
  /\ queue' = Append(queue, <<"stop">>)
  /\ UNCHANGED <<state_, channel_, polled, retryDelayMs_, timers, attempts, gaveUp, retry_, wants,
                 connection_, detached, connVars, callVars, loopVars>>

-----------------------------------------------------------------------------
(* Calls of another thread, one assignment at a time.                       *)

RemoteConnect ==
  \/ /\ client = "alive" /\ upc = "idle" /\ connects < MaxConnects
     /\ upc' = "connect" /\ connects' = connects + 1 /\ wants' = TRUE /\ stopped' = "no"
     /\ UNCHANGED <<connect_, queue, stops>>
  \/ /\ upc = "connect"
     /\ upc' = "connecting" /\ connect_' = TRUE /\ stopped' = "no"
     /\ UNCHANGED <<wants, queue, connects, stops>>
  \/ /\ upc = "connecting"
     /\ upc' = "idle" /\ queue' = Append(queue, <<"start">>)
     /\ UNCHANGED <<wants, connect_, connects, stops, stopped>>

RemoteStopCall ==
  \/ /\ client = "alive" /\ upc = "idle" /\ stops < MaxStops /\ retry_ \in RemoteStop
     /\ upc' = "stop" /\ stops' = stops + 1 /\ wants' = FALSE /\ stopped' = "called"
     /\ UNCHANGED <<connect_, queue, connects>>
  \/ /\ upc = "stop"
     /\ upc' = "stopping" /\ connect_' = FALSE
     /\ UNCHANGED <<wants, queue, connects, stops, stopped>>
  \/ /\ upc = "stopping"
     /\ upc' = "idle" /\ queue' = Append(queue, <<"stop">>)
     /\ UNCHANGED <<wants, connect_, connects, stops, stopped>>

RemoteStep ==
  /\ RemoteConnect \/ RemoteStopCall
  /\ UNCHANGED <<state_, channel_, polled, retryDelayMs_, timers, attempts, gaveUp, client, retry_,
                 connection_, detached, hack, connVars, again, loopVars>>

-----------------------------------------------------------------------------
(* Events.                                                                  *)

\* Of what poll() reports one event is handled, then the functors are called.
AtPoll == batch = <<>> /\ ~restarting /\ ~handled /\ handled' = TRUE

\* newConnection()
NewConnection ==
  /\ AtPoll /\ AttemptSucceeds
  /\ IF connect_
     THEN connection_' = channel_ /\ up' = up \cup {channel_} /\ detached' = detached \ {channel_}
     ELSE UNCHANGED <<connection_, up, detached>>
  /\ UNCHANGED <<client, retry_, wants, hack, stopped, held, callVars, batch, restarting>>

ConnectFails ==
  /\ AtPoll /\ AttemptFails
  /\ UNCHANGED <<clientVars, connVars, callVars, batch, restarting>>

\* Bound: an iteration is over before the half second of a retry, so its timer finds
\* that the channel of the attempt before it has been reset.
RetryExpires ==
  /\ AtPoll /\ timers > 0 /\ <<"reset">> \notin Functors
  /\ StartInLoop(Used, connect_, retryDelayMs_, timers - 1)
  /\ UNCHANGED <<connect_, queue, clientVars, connVars, callVars, batch, restarting>>

\* removeConnector(), called by the timer of the destructor
HackExpires ==
  /\ AtPoll /\ hack
  /\ hack' = FALSE
  /\ UNCHANGED <<connectorVars, queue, client, retry_, wants, connection_, detached, stopped, connVars,
                 callVars, batch, restarting>>

\* Mutant of Reconnects: a connection that is lost is replaced even when the user
\* has disconnected.
ReconnectsAlways == retry_

Reconnects == retry_ /\ wants

\* Mutant of CloseCallback: the map of the client keeps the connection.
CloseCallbackKeeps(fd) ==
  /\ queue' = Append(queue, <<"destroyed", fd>>)
  /\ restarting' = (fd \notin detached /\ Reconnects)
  /\ UNCHANGED connection_

\* removeConnection() of the client, or detail::removeConnection()
CloseCallback(fd) ==
  /\ queue' = Append(queue, <<"destroyed", fd>>)
  /\ IF fd \in detached
     THEN UNCHANGED <<connection_, restarting>>
     ELSE connection_' = NoFd /\ restarting' = Reconnects

ConnectionDown ==
  /\ AtPoll
  /\ \E fd \in up : up' = up \ {fd} /\ CloseCallback(fd)
  /\ UNCHANGED <<connectorVars, client, retry_, wants, detached, hack, stopped, held, callVars, batch>>

\* The call of restart() at the end of removeConnection(), after its test
Restart ==
  /\ restarting
  /\ restarting' = FALSE /\ connect_' = TRUE
  /\ Connect(Used, "kDisconnected", InitDelay, timers)
  /\ UNCHANGED <<queue, clientVars, connVars, callVars, batch, handled>>

-----------------------------------------------------------------------------
(* Functors.                                                                *)

SwapFunctors ==
  /\ batch = <<>> /\ ~restarting
  /\ queue # <<>> \/ handled
  /\ batch' = queue /\ queue' = <<>> /\ handled' = FALSE
  /\ UNCHANGED <<connectorVars, clientVars, connVars, callVars, restarting>>

Calls(op) == ~restarting /\ batch # <<>> /\ Head(batch)[1] = op /\ batch' = Tail(batch)

RunStart ==
  /\ Calls("start")
  /\ again' = (again \/ (connect_ /\ ~Idle))
  /\ StartInLoop(Used, connect_, retryDelayMs_, timers)
  /\ UNCHANGED <<connect_, queue, clientVars, connVars, upc, connects, stops, handled, restarting>>

RunStop ==
  /\ Calls("stop")
  /\ StopInLoop
  /\ stopped' = IF stopped = "called" /\ upc \notin {"stop", "stopping"} THEN "done" ELSE stopped
  /\ UNCHANGED <<client, retry_, wants, connection_, detached, hack, connVars, callVars, handled, restarting>>

RunReset ==
  /\ Calls("reset")
  /\ ResetChannel
  /\ UNCHANGED <<clientVars, connVars, callVars, handled, restarting>>

RunDestroyed ==
  /\ Calls("destroyed")
  /\ UNCHANGED <<connectorVars, queue, clientVars, connVars, callVars, handled, restarting>>

RunForceClose ==
  /\ Calls("forceClose")
  /\ LET fd == Head(batch)[2]
     IN IF fd \in up
        THEN up' = up \ {fd} /\ CloseCallback(fd)
        ELSE UNCHANGED <<up, queue, connection_, restarting>>
  /\ UNCHANGED <<connectorVars, client, retry_, wants, detached, hack, stopped, held, callVars, handled>>

FunctorStep ==
  SwapFunctors \/ RunStart \/ RunStop \/ RunReset \/ RunDestroyed \/ RunForceClose

Step ==
  \/ LocalConnect \/ LocalStop \/ Disconnect \/ Hold \/ Release
  \/ DestroyConnected \/ DestroyUnconnected
  \/ RemoteStep
  \/ NewConnection \/ ConnectFails \/ RetryExpires \/ HackExpires \/ ConnectionDown \/ Restart
  \/ FunctorStep

Next == ~Broken /\ Step

Spec == Init /\ [][Next]_vars

\* The loop goes on, timers expire, calls go on, and a server that is tried again
\* and again accepts at last.  It says nothing of a client that is Broken: the
\* user has connected it again or destroyed it.
Fairness ==
  /\ WF_vars(FunctorStep) /\ WF_vars(upc # "idle" /\ RemoteStep) /\ WF_vars(Restart)
  /\ WF_vars(RetryExpires) /\ SF_vars(RetryExpires /\ polled') /\ SF_vars(NewConnection)

FairSpec == Spec /\ Fairness

-----------------------------------------------------------------------------
(* Properties.                                                              *)

\* There is at most one attempt, one retry timer or one connection at a time, and
\* no socket is leaked: an attempt has the channel, a retry finds the Connector
\* kDisconnected and connecting() finds no channel (their assertions), also when
\* the client is connected again after stop() or a connection that was lost.
\* Only connect() on a client that is still busy makes it fail.
OneAttempt ==
  ~again =>
    /\ attempts = IF state_ = "kConnecting" THEN {channel_} ELSE {}
    /\ timers + Cardinality(attempts) + (IF connection_ = NoFd THEN 0 ELSE 1) <= 1
    /\ timers > 0 => state_ = "kDisconnected"
    /\ state_ = "kDisconnected" /\ channel_ # NoFd => <<"reset">> \in Functors
    /\ restarting => channel_ = NoFd

\* startInLoop() finds the Connector kDisconnected (its assertion) when a retry is
\* due, and when a client that is idle is connected; the user calls stop() or
\* disconnect() before connecting again.
StartsDisconnected ==
  [][(\/ RetryExpires
      \/ LocalConnect /\ Idle)
     /\ wants' /\ connects' <= stops + 1 => state_ = "kDisconnected"]_vars

\* When the Connector is freed, its channel is out of the poller unless a long
\* iteration has kept the stop() of ~TcpClient() waiting for a second, and is
\* destroyed unless resetChannel() is still queued, with the raw pointer; the
\* Connector calls no TcpClient that is gone; no connection is lost while it is up.
DestroyedClean ==
  ~again =>
    /\ ConnectorFreed /\ polled => <<"stop">> \in Functors
    /\ ConnectorFreed /\ ~polled /\ channel_ # NoFd => <<"reset">> \in Functors
    /\ client = "gone" /\ polled => ~connect_
    /\ up \subseteq Live

\* stop() "can be called in any thread": once its functor has run, and until
\* connect() is called again, nothing is attempted any more.
StopEnds == stopped = "done" => ~connect_ /\ state_ # "kConnecting"

\* A client that wants a connection gets one, and gets another one when it is lost
\* and retry_ is set, as long as no error makes connect() give up and the client
\* is not connected again while it is busy.
KeepsTrying ==
  /\ connects > 0 /\ upc = "idle" /\ connect_ /\ state_ # "kConnected" ~>
       state_ = "kConnected" \/ ~connect_ \/ client = "gone" \/ gaveUp \/ again
  /\ restarting ~> connection_ # NoFd \/ ~connect_ \/ client = "gone" \/ gaveUp \/ again
=============================================================================
