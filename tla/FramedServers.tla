--------------------------- MODULE FramedServers ----------------------------
(***************************************************************************)
(* Three servers that cut their input into frames: examples/protobuf/codec,*)
(* then examples/fastcgi, then contrib/thrift.                             *)
(***************************************************************************)
EXTENDS Integers, Sequences, SequencesExt, FiniteSetsExt, FiniteSets

-----------------------------------------------------------------------------
(***************************************************************************)
(* examples/protobuf/codec: a frame holds the name of the message's type,   *)
(* so that one connection can carry messages of many types; the dispatcher  *)
(* calls the callback registered for the type; the query server             *)
(* (server.cc) answers.  A frame is a sequence of units: an integer of the  *)
(* header, a character of the name or a piece of the data is one unit.      *)
(***************************************************************************)

CONSTANTS Known,           \* Known[t]: the name of type t in the generated pool
          Parses(_, _),    \* whether data is a message of a type
          kMaxMessageLen,
          Streams          \* what a peer may send: messages, then bodies that hold none, and
                           \* the damage to a unit of a frame on the way

kHeaderLen == 1
kMinMessageLen == 2 * kHeaderLen + 2

VARIABLES peer, unsent, buf, conn, dispatched, unknown, replies
vars == <<peer, unsent, buf, conn, dispatched, unknown, replies>>

adler32(s) == FoldLeft(LAMBDA h, x : (h * 31 + x) % 9973, 1, s)

\* fillEmptyBuffer(): length, length of the name, name, data and checksum.
frame(body) == <<Len(body) + 1>> \o Append(body, adler32(body))
fillEmptyBuffer(type, data) == frame(<<Len(Known[type])>> \o Known[type] \o data)

wire(p) ==
  LET sound == [i \in DOMAIN p.messages |-> fillEmptyBuffer(p.messages[i].type, p.messages[i].data)]
               \o [i \in DOMAIN p.bodies |-> frame(p.bodies[i])]
  IN  [i \in DOMAIN sound |->
         [u \in DOMAIN sound[i] |->
            sound[i][u] + (IF <<i, u>> = p.damage.unit THEN p.damage.by ELSE 0)]]
intact(p) == IF p.damage.by = 0 THEN Len(p.messages) ELSE p.damage.unit[1] - 1

Init ==
  /\ peer \in Streams
  /\ unsent = FlattenSeq(wire(peer))
  /\ buf = <<>> /\ conn = "kConnected" /\ dispatched = <<>> /\ unknown = 0 /\ replies = 0

-----------------------------------------------------------------------------
\* createMessage().
TypesOf(name) == {t \in DOMAIN Known : Known[t] = name}

\* parse(): the error, or the type and data of the message.
parse(b) ==
  LET len == Len(b)
      nameLen == b[1]
      name == SubSeq(b, kHeaderLen + 1, kHeaderLen + nameLen)
      data == SubSeq(b, kHeaderLen + nameLen + 1, len - kHeaderLen)
      Error(e) == [error |-> e, type |-> "", data |-> <<>>]
  IN IF adler32(SubSeq(b, 1, len - kHeaderLen)) # b[len] THEN Error("kCheckSumError")
     ELSE IF nameLen < 2 \/ nameLen > len - 2 * kHeaderLen THEN Error("kInvalidNameLen")
     ELSE IF TypesOf(name) = {} THEN Error("kUnknownMessageType")
     ELSE LET t == CHOOSE t \in TypesOf(name) : TRUE
          IN IF Parses(t, data) THEN [error |-> "kNoError", type |-> t, data |-> data]
             ELSE Error("kParseError")

\* What onMessage() finds at the head of the buffer.
Frame(b) ==
  IF Len(b) < kMinMessageLen + kHeaderLen THEN [error |-> "wait"]
  ELSE IF b[1] > kMaxMessageLen \/ b[1] < kMinMessageLen THEN [error |-> "kInvalidLength"]
  ELSE IF Len(b) < b[1] + kHeaderLen THEN [error |-> "wait"]
  ELSE parse(SubSeq(b, kHeaderLen + 1, kHeaderLen + b[1]))

Receive ==
  /\ unsent # <<>>
  /\ \E n \in 1..Len(unsent) :
       /\ buf' = buf \o SubSeq(unsent, 1, n)
       /\ unsent' = SubSeq(unsent, n + 1, Len(unsent))
  /\ UNCHANGED <<peer, conn, dispatched, unknown, replies>>

\* One round of ProtobufCodec::onMessage(), with the dispatcher and the callbacks of
\* QueryServer: onQuery() answers, and all of them shut the connection down.
onProtobufMessage ==
  LET m == Frame(buf) IN
  /\ m.error = "kNoError"
  /\ dispatched' = Append(dispatched, [type |-> m.type, data |-> m.data])
  /\ unknown' = IF m.type \in {"Query", "Answer"} THEN unknown ELSE unknown + 1
  /\ replies' = IF m.type = "Query" /\ conn = "kConnected" THEN replies + 1 ELSE replies
  /\ conn' = "kDisconnecting"
  /\ buf' = SubSeq(buf, buf[1] + kHeaderLen + 1, Len(buf))
  /\ UNCHANGED <<peer, unsent>>

\* defaultErrorCallback(): the frame stays in the buffer.
errorCallback ==
  /\ Frame(buf).error \notin {"kNoError", "wait"}
  /\ conn' = "kDisconnecting"
  /\ UNCHANGED <<peer, unsent, buf, dispatched, unknown, replies>>

Next == Receive \/ onProtobufMessage \/ errorCallback

Spec == Init /\ [][Next]_vars

-----------------------------------------------------------------------------
TypeOK ==
  /\ conn \in {"kConnected", "kDisconnecting"} /\ unknown \in Nat /\ replies \in 0..1

\* However the bytes arrive, the messages that are dispatched are those that were
\* sent, in order, up to the first frame that is not intact: a broken length, name
\* or checksum never yields a message, and nothing behind it is taken for one.
DispatchedAreSent ==
  /\ Len(dispatched) <= intact(peer)
  /\ dispatched = SubSeq(peer.messages, 1, Len(dispatched))
  /\ unsent = <<>> /\ Frame(buf).error # "kNoError" => Len(dispatched) = intact(peer)

\* The query server answers at most one query of a connection, its first message.
AnswersQuery ==
  /\ replies = IF dispatched # <<>> /\ dispatched[1].type = "Query" THEN 1 ELSE 0
  /\ dispatched # <<>> => conn = "kDisconnecting"

-----------------------------------------------------------------------------
(***************************************************************************)
(* FastCgiCodec of examples/fastcgi.  A web server sends a request as a    *)
(* stream of records, which arrive in any fragments: begin, the parameters *)
(* cut into records anywhere and ended by an empty one, the input likewise.*)
(* The codec collects them, calls the application and sends one answer.    *)
(*                                                                         *)
(* A record is kRecordHeader units of header, its content and its padding. *)
(* A length in the parameters is one unit, or the unit kLong and another.  *)
(***************************************************************************)

CONSTANTS kRecordHeader, kLong,
          Requests,      \* what the web server asks, in order
          kMaxResponse   \* responses are shorter than this

VARIABLES asked,         \* requests sent so far
          fcgiWire, fcgiBuf,
          paramsStream_, params_, stdin_, gotRequest_, keepConn_,
          parsing,       \* parseAllParams is in its loop
          calls,         \* what the application was called with
          out,           \* records of the answers
          fcgiConn

codecVars == <<paramsStream_, params_, stdin_, gotRequest_, keepConn_, parsing>>
fcgiVars == <<asked, fcgiWire, fcgiBuf, codecVars, calls, out, fcgiConn>>

FcgiInit ==
  /\ asked = 0 /\ fcgiWire = <<>> /\ fcgiBuf = <<>>
  /\ paramsStream_ = <<>> /\ params_ = {} /\ stdin_ = <<>>
  /\ gotRequest_ = FALSE /\ keepConn_ = FALSE /\ parsing = FALSE
  /\ calls = <<>> /\ out = <<>> /\ fcgiConn = "up"

-----------------------------------------------------------------------------
kFcgiResponder == 1
kFcgiKeepConn == 1
Drop(s, n) == SubSeq(s, n + 1, Len(s))
Filler(n) == [i \in 1..n |-> 0]

(* A record as the web server writes it, padded by pad units. *)
Record(type, content, pad) ==
  <<[type |-> type, length |-> Len(content), padding |-> pad]>>
  \o Filler(kRecordHeader - 1) \o content \o Filler(pad)

Encoded(q) ==
  Record("begin", <<kFcgiResponder, IF q.keep THEN kFcgiKeepConn ELSE 0>>, 0)
  \o FlattenSeq([i \in DOMAIN q.params |-> Record("params", q.params[i], i % 2)])
  \o Record("params", <<>>, 0)
  \o Record("data", <<>>, 0)
  \o FlattenSeq([i \in DOMAIN q.stdin |-> Record("stdin", q.stdin[i], 1)])
  \o Record("stdin", <<>>, 0)

(* The web server waits for the answer before its next request. *)
Ask ==
  /\ fcgiConn = "up" /\ asked < Len(Requests) /\ asked = Len(calls)
  /\ asked' = asked + 1
  /\ fcgiWire' = fcgiWire \o Encoded(Requests[asked + 1])
  /\ UNCHANGED <<fcgiBuf, codecVars, calls, out, fcgiConn>>

-----------------------------------------------------------------------------
header == fcgiBuf[1]
total == kRecordHeader + header.length + header.padding
HasRecord == Len(fcgiBuf) >= kRecordHeader /\ Len(fcgiBuf) >= total
content == SubSeq(fcgiBuf, kRecordHeader + 1, kRecordHeader + header.length)
Idle == ~parsing /\ ~HasRecord /\ ~gotRequest_

Arrive ==
  /\ Idle
  /\ \E k \in 1..Len(fcgiWire) :
       fcgiBuf' = fcgiBuf \o SubSeq(fcgiWire, 1, k) /\ fcgiWire' = Drop(fcgiWire, k)
  /\ UNCHANGED <<asked, codecVars, calls, out, fcgiConn>>

onBeginRequest ==
  /\ header.type = "begin"
  /\ keepConn_' = IF header.length >= kRecordHeader /\ content[1] = kFcgiResponder
                  THEN content[2] = kFcgiKeepConn ELSE keepConn_
  /\ UNCHANGED <<paramsStream_, stdin_, gotRequest_, parsing>>

onParams ==
  /\ header.type = "params"
  /\ paramsStream_' = paramsStream_ \o content
  /\ parsing' = (header.length = 0)
  /\ UNCHANGED <<stdin_, gotRequest_, keepConn_>>

onStdin ==
  /\ header.type = "stdin"
  /\ stdin_' = stdin_ \o content
  /\ gotRequest_' = (gotRequest_ \/ header.length = 0)
  /\ UNCHANGED <<paramsStream_, keepConn_, parsing>>

(* Records of other types are skipped. *)
Skipped ==
  /\ header.type \notin {"begin", "params", "stdin"}
  /\ UNCHANGED <<paramsStream_, stdin_, gotRequest_, keepConn_, parsing>>

(* One turn of the loop of parseRequest. *)
parseRequest ==
  /\ ~parsing /\ HasRecord
  /\ onBeginRequest \/ onParams \/ onStdin \/ Skipped
  /\ fcgiBuf' = Drop(fcgiBuf, total)
  /\ UNCHANGED <<asked, fcgiWire, params_, calls, out, fcgiConn>>

(* readLen: the length and the rest of the stream; -1 if it is cut off. *)
readLen(s) ==
  IF s = <<>> THEN [n |-> -1, rest |-> s]
  ELSE IF s[1] # kLong THEN [n |-> s[1], rest |-> Tail(s)]
  ELSE IF Len(s) >= 2 THEN [n |-> s[2], rest |-> Drop(s, 2)]
  ELSE [n |-> -1, rest |-> s]

(* One turn of the loop of parseAllParams; a wrong length ends it. *)
parseAllParams ==
  /\ parsing
  /\ LET name == readLen(paramsStream_)
         value == readLen(name.rest)
         rest == value.rest
     IN  IF paramsStream_ # <<>> /\ name.n >= 0 /\ value.n >= 0
            /\ Len(rest) >= name.n + value.n
         THEN LET key == SubSeq(rest, 1, name.n)
                  val == SubSeq(rest, name.n + 1, name.n + value.n)
              IN  /\ params_' = {p \in params_ : p[1] # key} \cup {<<key, val>>}
                  /\ paramsStream_' = Drop(rest, name.n + value.n)
                  /\ UNCHANGED parsing
         ELSE parsing' = FALSE /\ UNCHANGED <<params_, paramsStream_>>
  /\ UNCHANGED <<asked, fcgiWire, fcgiBuf, stdin_, gotRequest_, keepConn_, calls, out, fcgiConn>>

Padding(n) == (8 - (n % 8)) % 8

(* respond: one record for the response, the empty one, the end. *)
respond(n) ==
  (IF n < kMaxResponse THEN <<[type |-> "stdout", length |-> n, padding |-> Padding(n)]>>
   ELSE <<>>)
  \o <<[type |-> "stdout", length |-> 0, padding |-> 0],
       [type |-> "end", length |-> 8, padding |-> 0]>>

(* onMessage after the records of a read: the application is called, the   *)
(* codec is reset and the connection is shut unless it is to be kept.      *)
onMessage ==
  /\ gotRequest_ /\ ~parsing /\ ~HasRecord
  /\ calls' = Append(calls, [params |-> params_, stdin |-> stdin_])
  /\ out' = out \o respond(Len(stdin_) + 1)
  /\ stdin_' = <<>> /\ paramsStream_' = <<>> /\ params_' = {}
  /\ gotRequest_' = FALSE
  /\ fcgiConn' = IF keepConn_ THEN fcgiConn ELSE "shut"
  /\ UNCHANGED <<asked, fcgiWire, fcgiBuf, keepConn_, parsing>>

FcgiNext == Ask \/ Arrive \/ parseRequest \/ parseAllParams \/ onMessage
FcgiSpec == FcgiInit /\ [][FcgiNext]_fcgiVars

-----------------------------------------------------------------------------
FcgiTypeOK ==
  /\ asked \in 0..Len(Requests)
  /\ gotRequest_ \in BOOLEAN /\ keepConn_ \in BOOLEAN /\ parsing \in BOOLEAN
  /\ fcgiConn \in {"up", "shut"}

(* However the records are cut, the application is called once for every   *)
(* request, with the parameters and the input of that request and nothing  *)
(* left over from the one before, and the connection is kept as asked.     *)
CallsRight ==
  /\ Len(calls) \in {asked, asked - 1}
  /\ \A i \in DOMAIN calls :
       calls[i] = [params |-> Requests[i].expected, stdin |-> FlattenSeq(Requests[i].stdin)]
  /\ fcgiConn = "shut" <=> \E i \in DOMAIN calls : ~Requests[i].keep

(* The answers are whole and in order: a response padded to a multiple of  *)
(* eight, the empty record that ends it, and the end of the request.       *)
AnswersWhole ==
  /\ Len(out) = 3 * Len(calls)
  /\ \A i \in DOMAIN out :
       /\ (out[i].length + out[i].padding) % 8 = 0 /\ out[i].padding < 8
       /\ (i % 3 = 0) <=> out[i].type = "end"

-----------------------------------------------------------------------------
(***************************************************************************)
(* The thrift server of contrib/thrift: ThriftServer keeps a               *)
(* ThriftConnection per TCP connection, which cuts the input into frames   *)
(* and runs the processor on each, in the loop or in the worker pool.      *)
(* Both transports are members of the connection, shared by all its frames.*)
(*                                                                         *)
(* The clients are thrift's: with a worker pool they send one call and     *)
(* wait for its answer (the connection has one input transport for all its *)
(* calls); without one, calls may be sent back to back.  A client may     *)
(* leave at any time.                                                      *)
(***************************************************************************)

CONSTANTS Conns, MaxCalls,
          Threads,       \* sizes of the worker pool, 0 for none
          kSize          \* units of a frame size

VARIABLES numWorkerThreads_, thriftConn, conns_, called, thriftWire, buffer, state_, frameSize_,
          inputTransport_, outputTransport_,
          tasks,         \* queue of the worker pool
          working,       \* connections whose call a worker executes
          thriftReplies,
          failed         \* history: calls that ended with an exception

thriftVars == <<numWorkerThreads_, thriftConn, conns_, called, thriftWire, buffer, state_,
                frameSize_, inputTransport_, outputTransport_, tasks, working, thriftReplies,
                failed>>

Pooled == numWorkerThreads_ > 0
CallFrame(c, n) == [i \in 1..kSize |-> n] \o [i \in 1..n |-> <<c, n>>]

ThriftInit ==
  /\ numWorkerThreads_ \in Threads
  /\ thriftConn = [c \in Conns |-> "none"]
  /\ conns_ = {}
  /\ called = [c \in Conns |-> 0]
  /\ thriftWire = [c \in Conns |-> <<>>]
  /\ buffer = [c \in Conns |-> <<>>]
  /\ state_ = [c \in Conns |-> "kExpectFrameSize"]
  /\ frameSize_ = [c \in Conns |-> 0]
  /\ inputTransport_ = [c \in Conns |-> <<>>]
  /\ outputTransport_ = [c \in Conns |-> 0]
  /\ tasks = <<>>
  /\ working = {}
  /\ thriftReplies = [c \in Conns |-> <<>>]
  /\ failed = [c \in Conns |-> 0]

onConnectionUp(c) ==
  /\ thriftConn[c] = "none"
  /\ thriftConn' = [thriftConn EXCEPT ![c] = "up"]
  /\ conns_' = conns_ \cup {c}
  /\ UNCHANGED <<numWorkerThreads_, called, thriftWire, buffer, state_, frameSize_,
                 inputTransport_, outputTransport_, tasks, working, thriftReplies, failed>>

HasSize(c) == state_[c] = "kExpectFrameSize" /\ Len(buffer[c]) >= kSize
HasFrame(c) == state_[c] = "kExpectFrame" /\ Len(buffer[c]) >= frameSize_[c]

(* Between two calls of onMessage.  The ThriftConnection is freed, also     *)
(* when the worker pool has a task with its pointer.                       *)
onConnectionDown(c) ==
  /\ thriftConn[c] = "up" /\ ~HasSize(c) /\ ~HasFrame(c)
  /\ thriftConn' = [thriftConn EXCEPT ![c] = "down"]
  /\ conns_' = conns_ \ {c}
  /\ UNCHANGED <<numWorkerThreads_, called, thriftWire, buffer, state_, frameSize_,
                 inputTransport_, outputTransport_, tasks, working, thriftReplies, failed>>

(* The n-th call of a client is a frame of n units. *)
Call(c) ==
  /\ thriftConn[c] = "up" /\ called[c] < MaxCalls
  /\ Pooled => Len(thriftReplies[c]) = called[c]
  /\ called' = [called EXCEPT ![c] = @ + 1]
  /\ thriftWire' = [thriftWire EXCEPT ![c] = @ \o CallFrame(c, called[c] + 1)]
  /\ UNCHANGED <<numWorkerThreads_, thriftConn, conns_, buffer, state_, frameSize_,
                 inputTransport_, outputTransport_, tasks, working, thriftReplies, failed>>

ThriftArrive(c) ==
  /\ thriftConn[c] = "up" /\ ~HasSize(c) /\ ~HasFrame(c)
  /\ \E k \in 1..Len(thriftWire[c]) :
       /\ buffer' = [buffer EXCEPT ![c] = @ \o SubSeq(thriftWire[c], 1, k)]
       /\ thriftWire' = [thriftWire EXCEPT ![c] = Drop(@, k)]
  /\ UNCHANGED <<numWorkerThreads_, thriftConn, conns_, called, state_, frameSize_,
                 inputTransport_, outputTransport_, tasks, working, thriftReplies, failed>>

(* The two turns of the loop in onMessage. *)
onMessageSize(c) ==
  /\ HasSize(c)
  /\ frameSize_' = [frameSize_ EXCEPT ![c] = buffer[c][1]]
  /\ state_' = [state_ EXCEPT ![c] = "kExpectFrame"]
  /\ buffer' = [buffer EXCEPT ![c] = Drop(@, kSize)]
  /\ UNCHANGED <<numWorkerThreads_, thriftConn, conns_, called, thriftWire, inputTransport_,
                 outputTransport_, tasks, working, thriftReplies, failed>>

(* What the processor answers to a frame.                                 *)
Answer(input) == [call |-> Len(input), data |-> input]

(* Mutant of process: the answer is sent after an exception, too. *)
processCaught(c, input) ==
  /\ outputTransport_' = [outputTransport_ EXCEPT ![c] = kSize + 1]
  /\ thriftReplies' = [thriftReplies EXCEPT ![c] = Append(@, Answer(input))]
  /\ failed' \in {failed, [failed EXCEPT ![c] = @ + 1]}

(* process(): the answer replaces the size that was reserved in the output *)
(* transport; after an exception there is none, and only the transports,   *)
(* which are in memory, are closed.                                        *)
process(c, input) ==
  \/ /\ outputTransport_' = [outputTransport_ EXCEPT ![c] = kSize + 1]
     /\ thriftReplies' = [thriftReplies EXCEPT ![c] = Append(@, Answer(input))]
     /\ UNCHANGED failed
  \/ /\ failed' = [failed EXCEPT ![c] = @ + 1]
     /\ outputTransport_' = [outputTransport_ EXCEPT ![c] = kSize]
     /\ UNCHANGED thriftReplies

onMessageFrame(c) ==
  /\ HasFrame(c)
  /\ LET call == SubSeq(buffer[c], 1, frameSize_[c]) IN
     /\ inputTransport_' = [inputTransport_ EXCEPT ![c] = call]
     /\ IF Pooled
        THEN /\ tasks' = Append(tasks, c)
             /\ outputTransport_' = [outputTransport_ EXCEPT ![c] = kSize]
             /\ UNCHANGED <<thriftReplies, failed>>
        ELSE process(c, call) /\ UNCHANGED tasks
  /\ buffer' = [buffer EXCEPT ![c] = Drop(@, frameSize_[c])]
  /\ state_' = [state_ EXCEPT ![c] = "kExpectFrameSize"]
  /\ UNCHANGED <<numWorkerThreads_, thriftConn, conns_, called, thriftWire, frameSize_, working>>

(* A worker takes a task, executes the call and sends what is then in the  *)
(* transports.                                                             *)
Take ==
  /\ tasks # <<>> /\ Cardinality(working) < numWorkerThreads_
  /\ working' = working \cup {Head(tasks)}
  /\ tasks' = Tail(tasks)
  /\ UNCHANGED <<numWorkerThreads_, thriftConn, conns_, called, thriftWire, buffer, state_,
                 frameSize_, inputTransport_, outputTransport_, thriftReplies, failed>>

Execute(c) ==
  /\ c \in working
  /\ working' = working \ {c}
  /\ process(c, inputTransport_[c])
  /\ UNCHANGED <<numWorkerThreads_, thriftConn, conns_, called, thriftWire, buffer, state_,
                 frameSize_, inputTransport_, tasks>>

(* A worker executes a call in a ThriftConnection that has been freed.      *)
(* What follows is undefined and not modelled.                             *)
UsesFreed == ~(working \subseteq conns_)

ThriftNext == /\ ~UsesFreed
              /\ \/ Take
                 \/ \E c \in Conns : \/ onConnectionUp(c) \/ onConnectionDown(c) \/ Call(c)
                                     \/ ThriftArrive(c) \/ onMessageSize(c) \/ onMessageFrame(c)
                                     \/ Execute(c)
ThriftSpec == ThriftInit /\ [][ThriftNext]_thriftVars

-----------------------------------------------------------------------------
ThriftTypeOK ==
  /\ conns_ \subseteq Conns
  /\ \A c \in Conns : state_[c] \in {"kExpectFrameSize", "kExpectFrame"}
  /\ \A c \in Conns : called[c] \in 0..MaxCalls

(* However the frames are cut and whoever executes the calls, a client     *)
(* gets the answers to its own calls, one for each that does not fail, in  *)
(* their order and from an output transport with its size (assertion of    *)
(* process()).  A worker uses a ThriftConnection that is freed only when   *)
(* the client has left without its answer.                                 *)
RepliesInOrder ==
  \A c \in Conns :
    LET answers == thriftReplies[c] IN
    /\ Len(answers) + failed[c] <= called[c]
    /\ failed[c] = 0 => \A i \in DOMAIN answers : answers[i].call = i
    /\ \A i \in DOMAIN answers :
         /\ answers[i].data = [j \in 1..answers[i].call |-> <<c, answers[i].call>>]
         /\ \A k \in 1..i - 1 : answers[k].call < answers[i].call
    /\ c \in working => outputTransport_[c] >= kSize
    /\ c \in working \ conns_ => thriftConn[c] = "down" /\ Len(answers) + failed[c] < called[c]
=============================================================================
