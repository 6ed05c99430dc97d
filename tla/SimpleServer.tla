---------------------------- MODULE SimpleServer ----------------------------
(***************************************************************************)
(* The one-loop servers of examples/simple and examples/filetransfer, then *)
(* the clock comparison of examples/roundtrip.                             *)
(***************************************************************************)
EXTENDS Integers, Sequences, SequencesExt

-----------------------------------------------------------------------------
(***************************************************************************)
(* The one-loop servers of examples/simple (echo, discard, time, daytime,  *)
(* chargen) and examples/filetransfer (download, download2, download3),    *)
(* each with one client: for "time" that of simple/timeclient.             *)
(*                                                                         *)
(* A turn of the loop handles at most one event of the connection and then *)
(* calls the functors that were queued when it came to them.  Bytes are    *)
(* numbers; a file, a time and chargen's message_ are byte sequences.      *)
(***************************************************************************)

CONSTANTS Kinds,         \* the servers to check
          kBufSize,      \* bytes a server reads from its file at once
          FileSizes,     \* sizes of the file; -1: it does not exist
          kMessage,      \* length of message_ and of a time
          MaxBytes       \* bytes a client sends, messages chargen repeats

VARIABLES kind, fileSize,
          conn,          \* state of the connection at the server
          output,        \* outputBuffer_
          functors, todo,
          at, file,      \* what was read of the file; "none", "open", "closed"
          context,       \* the connection's context holds the FILE
          badRead,       \* fread() or fclose() was given a closed FILE
          sent, got,     \* bytes the client sent, bytes on the way to it
          fin,           \* the server has shut its side
          printed        \* what the time client has printed

vars == <<kind, fileSize, conn, output, functors, todo, at, file, context, badRead,
          sent, got, fin, printed>>

Interval(a, b) == [i \in 1..(b - a + 1) |-> a + i - 1]
HasWriteComplete == kind \in {"chargen", "download2", "download3"}
message_ == Interval(1, kMessage)
Content == Interval(1, fileSize)

Init ==
  /\ kind \in Kinds
  /\ fileSize \in (IF kind \in {"download", "download2", "download3"} THEN FileSizes ELSE {0})
  /\ conn = "connecting" /\ output = <<>> /\ functors = 0 /\ todo = 0
  /\ at = 0 /\ file = "none" /\ context = FALSE /\ badRead = FALSE
  /\ sent = 0 /\ got = <<>> /\ fin = FALSE /\ printed = <<>>

-----------------------------------------------------------------------------
(* TcpConnection, as far as these servers use it.  A functor that sends is *)
(* itself taken from the queue.                                            *)
sendInLoop(bytes, taken) ==
  IF conn \notin {"connecting", "connected"}
  THEN functors' = functors - taken /\ UNCHANGED <<output, got>>
  ELSE IF output # <<>>
  THEN functors' = functors - taken /\ output' = output \o bytes /\ UNCHANGED got
  ELSE \E n \in 0..Len(bytes) :
         /\ got' = got \o SubSeq(bytes, 1, n)
         /\ output' = SubSeq(bytes, n + 1, Len(bytes))
         /\ functors' = (functors - taken)
                         + (IF n = Len(bytes) /\ HasWriteComplete THEN 1 ELSE 0)

shutdown ==
  /\ conn' = "disconnecting"
  /\ fin' = (output' = <<>>)

fread == Interval(at + 1, IF at + kBufSize < fileSize THEN at + kBufSize ELSE fileSize)

(* A turn of the loop that had an event comes to its functors. *)
Event == todo = 0 /\ todo' = functors'
Wake == /\ todo = 0 /\ functors > 0 /\ todo' = functors
        /\ UNCHANGED <<kind, fileSize, conn, output, functors, at, file, context, badRead,
                       sent, got, fin, printed>>

-----------------------------------------------------------------------------
(* onConnection() of each server, up. *)
echoUp == kind = "echo" /\ conn' = "connected" /\ UNCHANGED <<output, got, functors, at, file, context, fin>>
discardUp == kind = "discard" /\ conn' = "connected" /\ UNCHANGED <<output, got, functors, at, file, context, fin>>
timeUp == kind = "time" /\ sendInLoop(message_, 0) /\ shutdown /\ UNCHANGED <<at, file, context>>
daytimeUp == kind = "daytime" /\ sendInLoop(message_, 0) /\ shutdown /\ UNCHANGED <<at, file, context>>
chargenUp ==
  /\ kind = "chargen" /\ sendInLoop(message_, 0) /\ conn' = "connected"
  /\ UNCHANGED <<at, file, context, fin>>
downloadUp ==
  /\ kind = "download" /\ sendInLoop(Content, 0) /\ shutdown
  /\ UNCHANGED <<at, file, context>>

(* The first block of the file, or no file. *)
FirstBlock ==
  \/ /\ fileSize >= 0
     /\ sendInLoop(fread, 0) /\ at' = at + Len(fread) /\ file' = "open" /\ context' = TRUE
     /\ conn' = "connected" /\ UNCHANGED fin
  \/ /\ fileSize < 0
     /\ UNCHANGED <<output, got, functors, at, file, context>> /\ shutdown
download2Up == kind = "download2" /\ FirstBlock
download3Up == kind = "download3" /\ FirstBlock

onConnectionUp ==
  /\ conn = "connecting"
  /\ \/ echoUp \/ discardUp \/ timeUp \/ daytimeUp \/ chargenUp
     \/ downloadUp \/ download2Up \/ download3Up
  /\ UNCHANGED <<kind, fileSize, badRead, sent, printed>>
  /\ Event

(* onMessage(): echo returns what it reads, the others discard it. *)
echoMessage(n) ==
  /\ kind = "echo"
  /\ IF conn = "connected" THEN sendInLoop(Interval(sent + 1, sent + n), 0)
                           ELSE UNCHANGED <<output, got, functors>>
Discarded == UNCHANGED <<output, got, functors>>
discardMessage == kind = "discard" /\ Discarded
timeMessage == kind = "time" /\ Discarded
daytimeMessage == kind = "daytime" /\ Discarded
chargenMessage == kind = "chargen" /\ Discarded
NoCallback == kind \in {"download", "download2", "download3"} /\ Discarded

onMessage(n) ==
  /\ conn \in {"connected", "disconnecting"} /\ sent + n <= MaxBytes
  /\ sent' = sent + n
  /\ \/ echoMessage(n) \/ discardMessage \/ timeMessage \/ daytimeMessage
     \/ chargenMessage \/ NoCallback
  /\ UNCHANGED <<kind, fileSize, conn, at, file, context, badRead, fin, printed>>
  /\ Event

handleWrite(n) ==
  /\ conn \in {"connected", "disconnecting"} /\ n \in 1..Len(output)
  /\ got' = got \o SubSeq(output, 1, n)
  /\ output' = SubSeq(output, n + 1, Len(output))
  /\ functors' = IF output' = <<>> /\ HasWriteComplete THEN functors + 1 ELSE functors
  /\ fin' = (fin \/ (output' = <<>> /\ conn = "disconnecting"))
  /\ UNCHANGED <<kind, fileSize, conn, at, file, context, badRead, sent, printed>>
  /\ Event

(* The client goes; download2 closes the FILE its context holds, and       *)
(* download3's context goes with the connection, after the last functor.   *)
download2Down == file' = IF kind = "download2" /\ context THEN "closed" ELSE file

onConnectionDown ==
  /\ conn \in {"connected", "disconnecting"}
  /\ conn' = "disconnected" /\ download2Down
  /\ UNCHANGED <<kind, fileSize, output, functors, at, context, badRead, sent, got, fin,
                 printed>>
  /\ Event

(* onWriteComplete(), a functor: the message again, or the next block. *)
chargenComplete ==
  /\ kind = "chargen" /\ Len(got) < MaxBytes * kMessage
  /\ sendInLoop(message_, 1)
  /\ UNCHANGED <<at, file, context, badRead, conn, fin>>

NextBlock ==
  /\ fread # <<>> /\ at' = at + Len(fread) /\ sendInLoop(fread, 1)
  /\ UNCHANGED <<conn, fin, file, context, badRead>>
Finish ==
  /\ functors' = functors - 1 /\ UNCHANGED <<output, got, at, badRead>>
  /\ IF conn = "connected" THEN shutdown ELSE UNCHANGED <<conn, fin>>

download2Complete ==
  /\ kind = "download2"
  /\ \/ /\ file = "closed" /\ badRead' = TRUE /\ functors' = functors - 1
        /\ UNCHANGED <<conn, output, got, fin, at, file, context>>
     \/ file = "open" /\ NextBlock
     \/ file = "open" /\ fread = <<>> /\ file' = "closed" /\ context' = FALSE /\ Finish

download3Complete ==
  /\ kind = "download3"
  /\ \/ NextBlock
     \/ fread = <<>> /\ Finish /\ UNCHANGED <<file, context>>

onWriteComplete ==
  /\ todo > 0 /\ todo' = todo - 1
  /\ chargenComplete \/ download2Complete \/ download3Complete
  /\ UNCHANGED <<kind, fileSize, sent, printed>>

(* The connection is destroyed when no functor holds it any more. *)
Destroyed ==
  /\ conn = "disconnected" /\ functors = 0 /\ file = "open" /\ kind = "download3"
  /\ file' = "closed"
  /\ UNCHANGED <<kind, fileSize, conn, output, functors, todo, at, context, badRead, sent,
                 got, fin, printed>>

(* The time client reads a whole integer or nothing. *)
clientOnMessage(n) ==
  /\ kind = "time" /\ n <= Len(got)
  /\ printed = <<>> /\ n >= kMessage
  /\ printed' = <<SubSeq(got, 1, kMessage)>>
  /\ UNCHANGED <<kind, fileSize, conn, output, functors, todo, at, file, context, badRead,
                 sent, got, fin>>

Next ==
  \/ onConnectionUp \/ onConnectionDown \/ onWriteComplete \/ Destroyed \/ Wake
  \/ \E n \in 1..(MaxBytes * kMessage) : onMessage(n) \/ handleWrite(n) \/ clientOnMessage(n)

Spec == Init /\ [][Next]_vars

-----------------------------------------------------------------------------
TypeOK ==
  /\ conn \in {"connecting", "connected", "disconnecting", "disconnected"}
  /\ todo \in 0..functors /\ functors \in 0..1
  /\ file \in {"none", "open", "closed"} /\ badRead \in BOOLEAN

(* What a client is sent is the start of what its server promises, and     *)
(* when the server has shut its side, all of it: the text or the file is   *)
(* never cut by shutdown(), however the socket splits the writes.          *)
Delivered ==
  /\ kind = "echo" => IsPrefix(got \o output, Interval(1, sent))
  /\ kind = "chargen" => \A i \in 1..Len(got) : got[i] = ((i - 1) % kMessage) + 1
  /\ kind \in {"time", "daytime"} =>
       /\ IsPrefix(got, message_) /\ (fin => got = message_)
       /\ printed # <<>> => printed = <<message_>>
  /\ fileSize > 0 => IsPrefix(got, Content) /\ (fin => got = Content)

(* A server that sends more when its output is written never stops: while  *)
(* it is connected, bytes wait for the socket or a completion is queued,   *)
(* and never both, so that completions do not pile up.                     *)
NotStalled ==
  HasWriteComplete /\ conn = "connected" => (output # <<>>) = (functors = 0)

(* download3 never reads a FILE that is closed, and no server leaves one   *)
(* open behind.                                                            *)
FilesClosed ==
  /\ badRead => kind = "download2" /\ conn = "disconnected"
  /\ conn = "disconnected" /\ functors = 0 /\ kind = "download2" => file # "open"

-----------------------------------------------------------------------------
(***************************************************************************)
(* examples/roundtrip: a client sends its clock every 0.2 seconds, a       *)
(* server puts its own clock beside it and sends the frame back, and the   *)
(* client estimates how far the clocks are apart.  kind is "tcp"           *)
(* (roundtrip.cc), where frames of two integers wait in a stream until     *)
(* they are whole, or "udp" (roundtrip_udp.cc), where a datagram may be    *)
(* lost, doubled or overtaken.                                             *)
(***************************************************************************)

CONSTANTS Errors,        \* how far the server's clock may be ahead
          MaxTime, MaxFrames

VARIABLES role, error, now,
          toServer, toClient,   \* tcp: integers in order; udp: sets of frames
          frames,               \* frames sent
          report                \* the last <<round trip, clock error>>, or <<>>

roundtripVars == <<role, error, now, toServer, toClient, frames, report>>
frameLen == 2
Empty == IF role = "tcp" THEN <<>> ELSE {}

RoundtripInit == /\ role \in {"tcp", "udp"} /\ error \in Errors /\ now = 1 /\ frames = 0 /\ report = <<>>
                 /\ toServer = Empty /\ toClient = Empty

(* A TCP stream delivers its next frame once both pieces are there; what   *)
(* waits in the buffer until then is still counted to the stream.          *)
Put(net, frame) == IF role = "tcp" THEN net \o frame ELSE net \cup {frame}
Frames(net) == IF role = "udp" THEN net
               ELSE IF Len(net) >= frameLen THEN {SubSeq(net, 1, frameLen)} ELSE {}
Taken(net, frame) == IF role = "tcp" THEN SubSeq(net, frameLen + 1, Len(net))
                     ELSE net \ {frame}
(* A datagram may be delivered and still come a second time. *)
Rest(net, frame) == {Taken(net, frame)} \cup (IF role = "udp" THEN {net} ELSE {})

SendTime ==
  /\ frames < MaxFrames /\ frames' = frames + 1
  /\ toServer' = Put(toServer, <<now, 0>>)
  /\ UNCHANGED <<role, error, now, toClient, report>>

Stamp ==
  /\ \E frame \in Frames(toServer) :
       /\ toServer' \in Rest(toServer, frame)
       /\ toClient' = Put(toClient, [frame EXCEPT ![2] = now + error])
  /\ UNCHANGED <<role, error, now, frames, report>>

Report(send, their, back) == <<back - send, their - ((back + send) \div 2)>>

Measure ==
  /\ \E frame \in Frames(toClient) :
       /\ toClient' \in Rest(toClient, frame)
       /\ report' = Report(frame[1], frame[2], now)
  /\ UNCHANGED <<role, error, now, toServer, frames>>

(* roundtrip.cc *)
sendMyTime == role = "tcp" /\ SendTime
serverMessageCallback == role = "tcp" /\ Stamp
clientMessageCallback == role = "tcp" /\ Measure

(* roundtrip_udp.cc *)
udpSendMyTime == role = "udp" /\ SendTime
serverReadCallback == role = "udp" /\ Stamp
clientReadCallback == role = "udp" /\ Measure

Lose ==
  /\ role = "udp"
  /\ \/ \E frame \in toServer : toServer' = toServer \ {frame} /\ UNCHANGED toClient
     \/ \E frame \in toClient : toClient' = toClient \ {frame} /\ UNCHANGED toServer
  /\ UNCHANGED <<role, error, now, frames, report>>

Tick == /\ now < MaxTime /\ now' = now + 1
        /\ UNCHANGED <<role, error, toServer, toClient, frames, report>>

RoundtripNext == \/ sendMyTime \/ serverMessageCallback \/ clientMessageCallback
                 \/ udpSendMyTime \/ serverReadCallback \/ clientReadCallback \/ Lose \/ Tick
RoundtripSpec == RoundtripInit /\ [][RoundtripNext]_roundtripVars

-----------------------------------------------------------------------------
RoundtripTypeOK == now \in 1..MaxTime /\ frames \in 0..MaxFrames

(* The estimate of the clock error is off by at most half the round trip   *)
(* the client reports with it, for frames that wait, overtake or come      *)
(* twice: it never joins the stamps of two different frames.               *)
ErrorBounded ==
  report # <<>> =>
    LET twice == 2 * (report[2] - error)
    IN  report[1] >= 0 /\ twice <= report[1] + 1 /\ -twice <= report[1]
=============================================================================
