------------------------------- MODULE Tunnel -------------------------------
(***************************************************************************)
(* The relays of examples/socks4a: tcprelay.cc (and balancer.cc, which     *)
(* only chooses the backend) opens a tunnel for every connection at once   *)
(* and does not read before the backend is connected; socks4a.cc reads the *)
(* request first.  "server" is the accepted connection serverConn_,        *)
(* "client" the connection clientConn_ to the backend, and a tunnel relays *)
(* bytes between them.  When the output of one side is above the high      *)
(* water mark the relay stops reading from the other until that output is  *)
(* written.  One loop runs all of it: handlers of the two connections and  *)
(* the functors that the connections queue for their callbacks.            *)
(***************************************************************************)
EXTENDS Integers, Sequences, SequencesExt

CONSTANTS kHighMark,    \* bytes of output that trigger the callback
          MaxBytes      \* bytes each peer sends

VARIABLES mode,         \* "relay" or "socks"
          conn,         \* state of the two connections
          reading,      \* their read interest
          output,       \* their output buffers
          complete,     \* which of them has a write-complete callback
          tunnel,       \* the Tunnel exists: g_tunnels or the callbacks of its client have it
          context,      \* the context of serverConn_ holds the client connection
          clientConn_,  \* the tunnel's pointer is set
          inputBuffer,  \* input of serverConn_ that is not relayed yet
          functors,
          sent,         \* bytes the two peers have sent
          read,         \* bytes the relay has read from them
          got,          \* what the two peers have received
          crashed       \* a callback used clientConn_, or an entry of g_tunnels, that is null

tunnelVars == <<tunnel, context, clientConn_, inputBuffer>>
vars == <<mode, conn, reading, output, complete, tunnelVars, functors, sent, read,
          got, crashed>>

Sides == {"server", "client"}
Other(x) == IF x = "server" THEN "client" ELSE "server"
Bytes(m, n) == [i \in 1..(n - m) |-> m + i]
kHeader == 2            \* bytes of a socks request
Reply == 0              \* the answer to it

Init ==
  /\ mode \in {"relay", "socks"}
  /\ conn = [server |-> "none", client |-> "none"]
  /\ reading = [x \in Sides |-> FALSE]
  /\ output = [x \in Sides |-> <<>>]
  /\ complete = [x \in Sides |-> FALSE]
  /\ tunnel = FALSE /\ context = FALSE /\ clientConn_ = FALSE
  /\ inputBuffer = <<>>
  /\ functors = <<>>
  /\ sent = [x \in Sides |-> 0]
  /\ read = [x \in Sides |-> 0]
  /\ got = [x \in Sides |-> <<>>]
  /\ crashed = FALSE

(* TcpConnection::send in the loop: the kernel takes k of the bytes, the   *)
(* callbacks are queued.                                                   *)
Send(x, bytes) ==
  IF conn[x] \notin {"up", "shutting"} THEN UNCHANGED <<output, got, functors>>
  ELSE \E k \in IF output[x] = <<>> THEN 0..Len(bytes) ELSE {0} :
    LET old == Len(output[x])
        left == SubSeq(bytes, k + 1, Len(bytes))
    IN /\ got' = [got EXCEPT ![x] = @ \o SubSeq(bytes, 1, k)]
       /\ output' = [output EXCEPT ![x] = @ \o left]
       /\ functors' = IF left = <<>> /\ old = 0
                      THEN IF complete[x] THEN Append(functors, [op |-> "complete", on |-> x])
                           ELSE functors
                      ELSE IF old + Len(left) >= kHighMark /\ old < kHighMark /\ tunnel
                      THEN Append(functors, [op |-> "high", on |-> x])
                      ELSE functors

-----------------------------------------------------------------------------
Live == ~crashed

(* onServerConnection, up: tcprelay creates, sets up and connects a tunnel.*)
onServerConnectionUp ==
  /\ conn.server = "none"
  /\ conn' = [conn EXCEPT !.server = "up",
                          !.client = IF mode = "relay" THEN "connecting" ELSE @]
  /\ reading' = [reading EXCEPT !.server = (mode = "socks")]
  /\ tunnel' = (mode = "relay")
  /\ UNCHANGED <<mode, output, complete, context, clientConn_, inputBuffer, functors,
                 sent, read, got, crashed>>

(* The peers send. *)
PeerSends(x) ==
  /\ conn[x] \in {"up", "shutting"} /\ sent[x] < MaxBytes
  /\ sent' = [sent EXCEPT ![x] = @ + 1]
  /\ UNCHANGED <<mode, conn, reading, output, complete, tunnelVars, functors, read,
                 got, crashed>>

(* onServerMessage with what has arrived: a request (read as a whole), or  *)
(* bytes to relay, which wait in the input buffer without a context.       *)
onServerMessage ==
  /\ Live /\ reading.server /\ conn.server \in {"up", "shutting"}
  /\ read.server < sent.server
  /\ \E n \in (read.server + 1)..sent.server :
       LET all == inputBuffer \o Bytes(read.server, n) IN
       /\ read' = [read EXCEPT !.server = n]
       /\ \/ /\ ~tunnel /\ mode = "socks" /\ conn.client = "none"
             /\ IF Len(all) < kHeader
                THEN /\ inputBuffer' = all
                     /\ UNCHANGED <<conn, tunnel, output, got, functors>>
                ELSE \/ /\ tunnel' = TRUE
                        /\ conn' = [conn EXCEPT !.client = "connecting"]
                        /\ inputBuffer' = SubSeq(all, kHeader + 1, Len(all))
                        /\ Send("server", <<Reply>>)
                     \/ /\ conn' = [conn EXCEPT !.server = "shutting"]
                        /\ inputBuffer' = all
                        /\ Send("server", <<Reply>>)
                        /\ UNCHANGED tunnel
          \/ /\ tunnel \/ mode = "relay" \/ conn.client # "none"
             /\ IF context THEN inputBuffer' = <<>> /\ Send("client", all)
                ELSE inputBuffer' = all /\ UNCHANGED <<output, got, functors>>
             /\ UNCHANGED <<conn, tunnel>>
  /\ UNCHANGED <<mode, reading, complete, context, clientConn_, sent, crashed>>

(* Tunnel::onClientConnection, up, also after the server connection has    *)
(* gone: startRead does not test for it.                                   *)
onClientConnectionUp ==
  /\ Live /\ conn.client = "connecting" /\ tunnel
  /\ conn' = [conn EXCEPT !.client = "up"]
  /\ context' = TRUE
  /\ clientConn_' = TRUE
  /\ reading' = [x \in Sides |-> TRUE]
  /\ inputBuffer' = <<>>
  /\ IF inputBuffer = <<>> THEN UNCHANGED <<output, got, functors>>
     ELSE \E k \in 0..Len(inputBuffer) :
            LET left == SubSeq(inputBuffer, k + 1, Len(inputBuffer)) IN
            /\ got' = [got EXCEPT !.client = SubSeq(inputBuffer, 1, k)]
            /\ output' = [output EXCEPT !.client = left]
            /\ functors' = IF Len(left) >= kHighMark
                           THEN Append(functors, [op |-> "high", on |-> "client"])
                           ELSE functors
  /\ UNCHANGED <<mode, complete, tunnel, sent, read, crashed>>

onClientMessage ==
  /\ Live /\ reading.client /\ conn.client \in {"up", "shutting"} /\ clientConn_
  /\ read.client < sent.client
  /\ \E n \in (read.client + 1)..sent.client :
       /\ read' = [read EXCEPT !.client = n]
       /\ Send("server", Bytes(read.client, n))
  /\ UNCHANGED <<mode, conn, reading, complete, tunnelVars, sent, crashed>>

-----------------------------------------------------------------------------
(* The callbacks for high water and for a finished write, as functors.     *)
(* onHighWaterMark of a side stops the reading of the other one.           *)
onHighWaterMark(x) ==
  /\ IF ~tunnel \/ (output[x] = <<>> /\ (x = "server" \/ clientConn_))
     THEN UNCHANGED <<reading, complete, crashed>>
     ELSE IF ~clientConn_ THEN crashed' = TRUE /\ UNCHANGED <<reading, complete>>
     ELSE /\ reading' = [reading EXCEPT ![Other(x)] = FALSE]
          /\ complete' = [complete EXCEPT ![x] = TRUE]
          /\ UNCHANGED crashed

(* Mutant of onWriteComplete: the other side is not read again. *)
onWriteCompleteStays(x) ==
  /\ complete' = [complete EXCEPT ![x] = FALSE]
  /\ UNCHANGED <<reading, crashed>>

onWriteComplete(x) ==
  /\ IF ~tunnel THEN UNCHANGED <<reading, complete, crashed>>
     ELSE IF ~clientConn_ THEN crashed' = TRUE /\ UNCHANGED <<reading, complete>>
     ELSE /\ reading' = [reading EXCEPT ![Other(x)] = TRUE]
          /\ complete' = [complete EXCEPT ![x] = FALSE]
          /\ UNCHANGED crashed

callFunctor ==
  /\ Live /\ functors # <<>>
  /\ functors' = Tail(functors)
  /\ \/ Head(functors).op = "high" /\ onHighWaterMark(Head(functors).on)
     \/ Head(functors).op = "complete" /\ onWriteComplete(Head(functors).on)
  /\ UNCHANGED <<mode, conn, output, tunnelVars, sent, read, got>>

(* The socket of a side is writable. *)
handleWrite(x) ==
  /\ Live /\ conn[x] \in {"up", "shutting"} /\ output[x] # <<>>
  /\ \E k \in 1..Len(output[x]) :
       /\ got' = [got EXCEPT ![x] = @ \o SubSeq(output[x], 1, k)]
       /\ output' = [output EXCEPT ![x] = SubSeq(@, k + 1, Len(@))]
       /\ functors' = IF k = Len(output[x]) /\ complete[x]
                      THEN Append(functors, [op |-> "complete", on |-> x]) ELSE functors
  /\ UNCHANGED <<mode, conn, reading, complete, tunnelVars, sent, read, crashed>>

-----------------------------------------------------------------------------
(* A connection goes down: its peer closed and all its bytes were read, or *)
(* it was reset, which is noticed while reading or writing is watched.     *)
(* Functors that a handler of the same iteration has queued run after it.  *)
Goes(x) == /\ Live /\ conn[x] \in {"up", "shutting"}
           /\ reading[x] \/ output[x] # <<>>

(* Tunnel::teardown: the callbacks of the client let go of the Tunnel. *)
onClientConnectionDown ==
  /\ Goes("client")
  /\ conn' = [conn EXCEPT !.client = "down",
                          !.server = IF clientConn_ /\ @ = "up" THEN "shutting" ELSE @]
  /\ reading' = [reading EXCEPT !.client = FALSE]
  /\ output' = [output EXCEPT !.client = <<>>]
  /\ context' = FALSE
  /\ clientConn_' = FALSE
  /\ tunnel' = (conn.server # "down")
  /\ UNCHANGED <<mode, complete, inputBuffer, functors, sent, read, got, crashed>>

(* onServerConnection, down: the tunnel's client is shut down when it is   *)
(* connected and goes on connecting when it is not; the entry is erased.   *)
onServerConnectionDown ==
  /\ Goes("server")
  /\ conn' = [server |-> "down",
              client |-> IF conn.client = "up" THEN "shutting" ELSE conn.client]
  /\ reading' = [reading EXCEPT !.server = FALSE]
  /\ output' = [output EXCEPT !.server = <<>>]
  /\ tunnel' = (tunnel /\ conn.client # "down")
  /\ UNCHANGED <<mode, complete, context, clientConn_, inputBuffer, functors, sent,
                 read, got, crashed>>

(* A server connection that is down and read again goes down once more.    *)
(* socks4a looks its tunnel up; tcprelay makes a null entry and uses it.   *)
onServerConnectionDownAgain ==
  /\ Live /\ conn.server = "down" /\ reading.server
  /\ reading' = [reading EXCEPT !.server = FALSE]
  /\ crashed' = (mode = "relay")
  /\ UNCHANGED <<mode, conn, output, complete, tunnelVars, functors, sent, read, got>>

Next ==
  \/ onServerConnectionUp \/ onServerMessage \/ onClientConnectionUp \/ onClientMessage
  \/ callFunctor \/ onClientConnectionDown \/ onServerConnectionDown
  \/ onServerConnectionDownAgain
  \/ \E x \in Sides : PeerSends(x) \/ handleWrite(x)
Spec == Init /\ [][Next]_vars

-----------------------------------------------------------------------------
TypeOK ==
  /\ \A x \in Sides : conn[x] \in {"none", "connecting", "up", "shutting", "down"}
  /\ context => clientConn_
  /\ \A x \in Sides : read[x] <= sent[x]

(* What a peer has received, what waits for it in the relay and what the   *)
(* other peer has still in flight are the bytes that were sent, in order,  *)
(* none of them lost or doubled while both connections are open.           *)
Relayed ==
  LET skip == IF mode = "socks" THEN kHeader ELSE 0
      answer == IF mode = "socks" THEN <<Reply>> ELSE <<>>
  IN  /\ conn.client = "up" /\ conn.server \in {"up", "shutting"} =>
           got.client \o output.client \o inputBuffer = Bytes(skip, read.server)
      /\ conn.server = "up" /\ tunnel =>
           got.server \o output.server = answer \o Bytes(0, read.client)

(* A side that the relay has stopped reading will be read again: the other *)
(* side has output left whose completion calls back, or that call is due.  *)
ReadsAgain ==
  \A x \in Sides :
    conn.client = "up" /\ conn.server = "up" /\ Live /\ ~reading[x] =>
      /\ complete[Other(x)] \/ \E i \in DOMAIN functors : functors[i].on = Other(x)
      /\ \/ output[Other(x)] # <<>>
         \/ \E i \in DOMAIN functors : functors[i] = [op |-> "complete", on |-> Other(x)]
=============================================================================
