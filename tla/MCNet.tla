-------------------------------- MODULE MCNet --------------------------------
(***************************************************************************)
(* The server and the client, the Buffer, and the three users of it that    *)
(* speak a protocol, model-checked side by side: a behaviour picks one part *)
(* and moves only that one.                                                 *)
(***************************************************************************)
EXTENDS Buffer

CONSTANTS Tag, Payloads, Unparsable, Taken, kMaxMessageLen, MaxFrames, CodecPrepend, CodecExtraBuf,
          MaxThreads, MaxConns, MaxFds, MaxBacklog,
          Fds, InitDelay, MaxDelay, MaxConnects, MaxStops, RemoteStop,
          Requests, MaxRequests,
          Callers, MaxCalls

VARIABLES
  part,
  \* ProtobufCodecLite
  wire, inputBuffer_, connected, delivered, errors, frames,
  \* TcpServer
  server, numThreads_, joining, connections_, next_, nextConnId_, backlog, idle, connStates,
  ioLoop, added, destroys, queues, batches, pos, lpc, quit_, lost,
  \* TcpClient and Connector
  connect_, state_, channel_, polled, retryDelayMs_, timers, attempts, gaveUp, queue, client,
  retry_, wants, connection_, detached, hack, stopped, up, held, upc, connects, stops, again, batch,
  handled, restarting,
  \* HttpServer
  stream, input, parseState, request_, connState, answers, asked, patient,
  \* RpcChannel
  id_, outstandings_, cpc, cid, made, requests, replies, serving, linkUp, alive, ran, deleted

\* Its buffers have room for the length in front.
Codec == INSTANCE Codec WITH kCheapPrepend <- CodecPrepend, ExtraBuf <- CodecExtraBuf
Server == INSTANCE TcpServer WITH state_ <- connStates, queue <- queues, batch <- batches
Client == INSTANCE TcpClient
Http == INSTANCE HttpServer WITH state_ <- parseState
Rpc == INSTANCE RpcChannel WITH up <- linkUp

codecVars == <<wire, inputBuffer_, connected, delivered, errors, frames>>
serverVars == <<server, numThreads_, joining, connections_, next_, nextConnId_, backlog, idle,
                connStates, ioLoop, added, destroys, queues, batches, pos, lpc, quit_, lost>>
clientVars == <<connect_, state_, channel_, polled, retryDelayMs_, timers, attempts, gaveUp, queue,
                client, retry_, wants, connection_, detached, hack, stopped, up, held, upc, connects,
                stops, again, batch, handled, restarting>>
httpVars == <<stream, input, parseState, request_, connState, answers, asked, patient>>
rpcVars == <<id_, outstandings_, cpc, cid, made, requests, replies, serving, linkUp, alive, ran,
             deleted>>
vars == <<part, bufferVars, codecVars, serverVars, clientVars, httpVars, rpcVars>>

MCData == {<<1>>, <<2, 1>>}
MCTag == <<5>>
MCPayloads == {<<>>, <<2>>, <<3, 3>>}
MCUnparsable == {<<2>>}
MCTaken == {<<3, 3>>}
MCRequests ==
  {<<"GET HTTP/1.1">>, <<"GET HTTP/1.1", "close">>, <<"GET HTTP/1.0", "other", "Keep-Alive">>,
   <<"GET HTTP/1.0">>, <<"bad">>}

Init ==
  /\ part \in {"buffer", "codec", "server", "client", "http", "rpc"}
  /\ BufferInit /\ Codec!CodecInit /\ Server!Init /\ Http!Init /\ Rpc!Init
  /\ Client!Init /\ (part # "client" => ~ retry_)

BufferMoves == part = "buffer" /\ BufferNext
CodecMoves == part = "codec" /\ Codec!CodecNext
ServerMoves == part = "server" /\ Server!Next
\* OneAttempt, DestroyedClean and KeepsTrying say nothing of a client that is
\* connected again while it is busy.
ClientMoves == part = "client" /\ ~again /\ Client!Next
HttpMoves == part = "http" /\ Http!Next
RpcMoves == part = "rpc" /\ Rpc!Next

Next ==
  /\ UNCHANGED part
  /\ \/ BufferMoves /\ UNCHANGED <<codecVars, serverVars, clientVars, httpVars, rpcVars>>
     \/ CodecMoves /\ UNCHANGED <<bufferVars, serverVars, clientVars, httpVars, rpcVars>>
     \/ ServerMoves /\ UNCHANGED <<bufferVars, codecVars, clientVars, httpVars, rpcVars>>
     \/ ClientMoves /\ UNCHANGED <<bufferVars, codecVars, serverVars, httpVars, rpcVars>>
     \/ HttpMoves /\ UNCHANGED <<bufferVars, codecVars, serverVars, clientVars, rpcVars>>
     \/ RpcMoves /\ UNCHANGED <<bufferVars, codecVars, serverVars, clientVars, httpVars>>

\* In a part that is not picked no fair action is enabled.
Spec == Init /\ [][Next]_vars /\ Server!Fairness /\ Client!Fairness

-----------------------------------------------------------------------------
\* Every part keeps its types; the indices of a Buffer are ordered, within the
\* vector; the delay of the Connector stays below its limit.
TypeOK ==
  IndicesOrdered /\ Server!TypeOK /\ Client!TypeOK /\ Http!TypeOK /\ Rpc!TypeOK

\* ProtobufCodecLite: messages arrive whole and in order however their bytes are
\* split, and none after a bad frame.
FramesIntact == Codec!FramesIntact

\* TcpServer: the handlers find what their assertions say, in every order of the
\* loops' functors, and getNextLoop() deals connections evenly.
HandlersFindState == Server!HandlersFindState /\ Server!DealtEvenly

\* TcpServer, TcpClient: a connection that is freed is out of the poller, and down
\* unless it was being shut down when the server was destroyed; a Connector that is
\* freed has no channel but for what a functor is still to stop or reset.
FreedClean == Server!FreedClean /\ Client!DestroyedClean

\* TcpClient: at most one attempt, timer or connection and no leaked socket, until
\* connect() is called on a client that is busy; nothing is attempted after stop().
OneAttempt == Client!OneAttempt /\ Client!StopEnds

\* HttpServer: answers in the order of the requests, nothing after the last one,
\* and an answer for a client that waits for it.  RpcChannel: done closures run
\* once, with their own response, and no call is forgotten as long as the
\* connection is up.
Answered ==
  /\ Http!AnsweredInOrder /\ Http!PatientAnswered
  /\ Rpc!DoneOnce /\ Rpc!CallsTracked

\* What waits gets its turn: a connection that is down is freed; a client in the
\* backlog is accepted or dropped; the destructor of the server returns; a client
\* that wants a connection gets one.
WaitsEnd ==
  /\ Server!DownIsFreed /\ Server!BacklogServed /\ Server!DestructorReturns
  /\ Client!KeepsTrying
===============================================================================
