------------------------------ MODULE HttpServer ------------------------------
(***************************************************************************)
(* muduo/net/http/HttpContext.cc and HttpServer.cc: requests of one          *)
(* connection, parsed line by line out of its input buffer and answered.    *)
(* The bytes are tokens <<kind, n>>: the text of a line, written for the    *)
(* n-th request, or one of the two characters that end it.                  *)
(***************************************************************************)
EXTENDS Integers, Sequences, SequencesExt

CONSTANTS
  Requests,       \* requests of the client: the kinds of their lines
  MaxRequests     \* bound on them

VARIABLES
  stream,         \* tokens on their way
  input,          \* readable part of the input buffer
  state_, request_,  \* of the HttpContext; request_ is [n, version, connection]
  connState,      \* state_ of the connection
  answers,        \* history: [n, status, close] of the responses that were sent
  asked,          \* history: requests sent by the client
  patient         \* history: each was sent when all before were answered

httpVars == <<stream, input, state_, request_, connState, answers, asked, patient>>

Kinds == {"GET HTTP/1.1", "GET HTTP/1.0", "bad", "close", "Keep-Alive", "other"}
CRLF == <<<<"cr", 0>>, <<"lf", 0>>>>
NoRequest == [n |-> 0, version |-> "kUnknown", connection |-> ""]

TypeOK ==
  /\ stream \in Seq((Kinds \cup {"cr", "lf"}) \X Nat)
  /\ input \in Seq((Kinds \cup {"cr", "lf"}) \X Nat)
  /\ state_ \in {"kExpectRequestLine", "kExpectHeaders"}
  /\ connState \in {"kConnected", "kDisconnecting"}

\* findCRLF(): how many tokens come before the first end of a line, or -1
FindCRLF(b) ==
  LET ends == {i \in 1 .. Len(b) - 1 : SubSeq(b, i, i + 1) = CRLF}
  IN IF ends = {} THEN -1 ELSE Min(ends) - 1

\* processRequestLine()
ProcessRequestLine(line) ==
  CASE line = <<>> \/ line[1][1] \notin {"GET HTTP/1.1", "GET HTTP/1.0"} -> "bad"
    [] line # <<>> /\ line[1][1] = "GET HTTP/1.1" -> "kHttp11"
    [] line # <<>> /\ line[1][1] = "GET HTTP/1.0" -> "kHttp10"

HasColon(line) == line # <<>> /\ line[1][1] \in {"close", "Keep-Alive", "other"}

AddHeader(req, line) ==
  IF line[1][1] \in {"close", "Keep-Alive"} THEN [req EXCEPT !.connection = line[1][1]] ELSE req

\* parseRequest() on [state, request, input, ok]
RECURSIVE ParseRequest(_)
ParseRequest(c) ==
  LET crlf == FindCRLF(c.input)
      line == SubSeq(c.input, 1, crlf)
      rest == SubSeq(c.input, crlf + 3, Len(c.input))
      version == ProcessRequestLine(line)
  IN IF crlf = -1 THEN c
     ELSE IF c.state = "kExpectRequestLine"
     THEN IF version = "bad" THEN [c EXCEPT !.ok = FALSE]
          ELSE ParseRequest([c EXCEPT !.state = "kExpectHeaders", !.input = rest,
                                      !.request.version = version, !.request.n = line[1][2]])
     ELSE IF HasColon(line)
     THEN ParseRequest([c EXCEPT !.request = AddHeader(@, line), !.input = rest])
     ELSE [c EXCEPT !.state = "kGotAll", !.input = rest]

\* Whether onRequest() makes a response that closes.  The callback of the user may
\* ask for it, too.
CloseAfter(req) ==
  \/ req.connection = "close"
  \/ req.version = "kHttp10" /\ req.connection # "Keep-Alive"

\* Mutant of Respond: the response goes out whatever the state of the connection.
RespondAlways(answer) ==
  /\ answers' = Append(answers, answer)
  /\ connState' = IF answer.close THEN "kDisconnecting" ELSE connState

\* conn->send() of a response, and conn->shutdown() if it is the last one
Respond(answer) ==
  /\ answers' = IF connState = "kConnected" THEN Append(answers, answer) ELSE answers
  /\ connState' = IF answer.close THEN "kDisconnecting" ELSE connState

\* Mutant of Reset: the request of the context is kept.
ResetState(c) == c.request

\* reset()
Reset(c) == NoRequest

-----------------------------------------------------------------------------

Init ==
  /\ stream = <<>> /\ input = <<>>
  /\ state_ = "kExpectRequestLine" /\ request_ = NoRequest
  /\ connState = "kConnected"
  /\ answers = <<>> /\ asked = <<>> /\ patient = TRUE

\* The client writes a request: its lines, and an empty one.
Ask(req) ==
  /\ Len(asked) < MaxRequests
  /\ asked' = Append(asked, req)
  /\ stream' = stream \o FlattenSeq([i \in 1 .. Len(req) |-> <<<<req[i], Len(asked) + 1>>>> \o CRLF]) \o CRLF
  /\ patient' = (patient /\ Len(answers) = Len(asked))
  /\ UNCHANGED <<input, state_, request_, connState, answers>>

\* The connection reads n tokens and calls onMessage(); the callback of the user
\* closes or not.
OnMessage(n, close) ==
  LET c == ParseRequest([state |-> state_, request |-> request_, ok |-> TRUE,
                         input |-> input \o SubSeq(stream, 1, n)])
  IN /\ stream' = SubSeq(stream, n + 1, Len(stream))
     /\ input' = c.input
     /\ UNCHANGED <<asked, patient>>
     /\ \/ ~ c.ok
           /\ state_' = c.state /\ request_' = c.request
           /\ Respond([n |-> Len(answers) + 1, status |-> 400, close |-> TRUE])
        \/ c.ok /\ c.state # "kGotAll"
           /\ state_' = c.state /\ request_' = c.request
           /\ UNCHANGED <<answers, connState>>
        \/ c.state = "kGotAll"
           /\ state_' = "kExpectRequestLine" /\ request_' = Reset(c)
           /\ Respond([n |-> c.request.n, status |-> 200,
                       close |-> close \/ CloseAfter(c.request)])

Next ==
  \/ \E req \in Requests : Ask(req)
  \/ \E n \in 1 .. Len(stream), close \in BOOLEAN : OnMessage(n, close)

-----------------------------------------------------------------------------
(* Properties.                                                              *)

WantsClose(req) ==
  \/ "close" \in Range(req)
  \/ req[1] = "GET HTTP/1.0" /\ "Keep-Alive" \notin Range(req)

\* However its bytes are split, the n-th answer is to the n-th request, a bad
\* request line gets 400, no request takes over the version or the headers of
\* another, and nothing is sent after an answer that closes.
AnsweredInOrder ==
  \A n \in 1 .. Len(answers) :
    /\ n <= Len(asked) /\ answers[n].n = n
    /\ (answers[n].status = 400) = (asked[n][1] = "bad")
    /\ asked[n][1] # "bad" /\ WantsClose(asked[n]) => answers[n].close
    /\ n < Len(answers) => ~ answers[n].close
    /\ n = Len(answers) => answers[n].close = (connState = "kDisconnecting")

\* A client that waits for each answer before it sends the next request has its
\* answer once onMessage() has seen the whole request.
PatientAnswered ==
  patient /\ stream = <<>> /\ connState = "kConnected" => Len(answers) = Len(asked)
===============================================================================
