------------------------------ MODULE MCPrograms ------------------------------
(***************************************************************************)
(* The programs of examples/ and contrib/thrift that serve until they are   *)
(* killed, their clients, and four parts of the library that work for       *)
(* themselves (Logging, TimeZone, FileUtil and Inspector), model-checked    *)
(* side by side: a behaviour picks one of them and moves only that one.     *)
(* They share the variables v1, v2, ..., which mean something else in each. *)
(***************************************************************************)
EXTENDS Integers, Sequences

VARIABLES part, v1, v2, v3, v4, v5, v6, v7, v8, v9, v10, v11, v12, v13, v14, v15

-----------------------------------------------------------------------------
(* What the peers of the programs send. *)

Line(c, ks, n, cas, q, b) ==
  [t |-> "line", command |-> c, keys |-> ks, bytes |-> n, cas |-> cas, noreply |-> q, b |-> b]
CRLF == <<[t |-> "cr"], [t |-> "lf"]>>
Update(c, k, n, cas, q, b) ==
  <<Line(c, <<k>>, n, cas, q, b)>> \o CRLF \o [i \in 1..n |-> [t |-> "byte", b |-> b]] \o CRLF
Command(c, ks) == <<Line(c, ks, 0, 0, FALSE, 0)>> \o CRLF
Adds == [owed |-> <<"add", "append">>,
         sends |-> Update("add", "a", 1, 0, FALSE, 1) \o Update("append", "a", 2, 0, FALSE, 2)]
Gets == [owed |-> <<"prepend", "get">>,
         sends |-> Update("prepend", "a", 1, 0, FALSE, 3) \o Command("get", <<"a", "b">>)]
Swaps == [owed |-> <<"cas">>,
          sends |-> Update("set", "b", 1, 0, TRUE, 4) \o Update("cas", "b", 1, 1, FALSE, 5)]
Quits == [owed |-> <<"set", "delete">>,
          sends |-> Update("set", "b", 3, 0, FALSE, 6) \o Command("delete", <<"b">>)
                    \o Command("quit", <<>>) \o Command("version", <<>>)]
LongKey == [owed |-> <<"get", "replace", "version">>,
            sends |-> Command("get", <<"b", "long">>) \o Update("replace", "b", 0, 0, FALSE, 7)
                      \o Command("version", <<>>)]
LongValue == [owed |-> <<"set", "">>,
              sends |-> <<Line("set", <<"a">>, 1, 0, FALSE, 8)>> \o CRLF
                        \o <<[t |-> "byte", b |-> 8], [t |-> "byte", b |-> 8]>> \o CRLF
                        \o Command("shutdown", <<>>)]
LongLine == [owed |-> <<>>, sends |-> [i \in 1..4 |-> [t |-> "byte", b |-> 9]]]
MemcachedClients ==
  {<<Adds, Adds>>, <<Adds, Gets>>, <<Swaps, Swaps>>, <<Swaps, Quits>>, <<LongKey, Swaps>>,
   <<LongValue, Gets>>, <<LongLine, LongKey>>}

\* A filled 4 x 4 board, of which some cells are emptied and one may be wrong.
Solution == <<1, 2, 3, 4, 3, 4, 1, 2, 2, 1, 4, 3, 4, 3, 2, 1>>
Puzzles ==
  {[i \in 0..15 |-> IF i \in empty THEN 0 ELSE IF i = given[1] THEN given[2] ELSE Solution[i + 1]] :
     empty \in {{0, 1, 4, 5, 10}, {0, 5, 8, 13}, {2, 3, 6, 7, 15}, {1, 3, 9, 11, 0},
                {0, 3, 4, 7, 8}, {0, 2, 4, 6, 9}},
     given \in {<<0, 1>>, <<6, 2>>, <<15, 3>>, <<12, 1>>}}

ChatLoop(c) == IF c = "a" THEN "x" ELSE "y"

HubLine(c, t) == [cmd |-> c, topic |-> t]
Publish(t) == <<HubLine("pub", t), HubLine("content", t)>>
HubScripts ==
  {Publish("x") \o <<HubLine("sub", "x")>> \o Publish("x") \o <<HubLine("unsub", "x")>>,
   Publish("x") \o Publish("x"),
   <<HubLine("sub", "x"), HubLine("sub", "t"), HubLine("sub", "x"), HubLine("unsub", "t")>>,
   <<HubLine("sub", "t"), HubLine("nospace", "t")>>,
   <<HubLine("sub", "x"), HubLine("foo", "t"), HubLine("unsub", "x")>>}

\* Two clients use the same id; one of them has two requests.
BalancerIds(c) == IF c = "a" THEN {1, 2} ELSE {1}

Known == [t \in {"Query", "Answer", "Empty"} |->
            CASE t = "Query" -> <<1, 0>> [] t = "Answer" -> <<2, 0>> [] t = "Empty" -> <<3, 0>>]
Parses(t, d) == IF t = "Empty" THEN d = <<>> ELSE Len(d) = 1 /\ d[1] >= 5
Query == [type |-> "Query", data |-> <<7>>]
Answer == [type |-> "Answer", data |-> <<6>>]
Empty == [type |-> "Empty", data |-> <<>>]
Streams ==
  [messages : {<<Query, Empty>>, <<Empty, Answer>>}, bodies : {<<>>},
   damage : {[unit |-> <<f, u>>, by |-> b] : f \in 1..2, u \in 1..5, b \in {-2, -1, 1, 4}}]
  \cup
  [messages : {<<Query, Empty>>, <<Empty, Answer>>}, damage : {[unit |-> <<0, 0>>, by |-> 0]},
   bodies : {<<>>, <<<<2, 9, 0>>>>, <<<<1, 1, 0>>>>, <<<<5, 1, 0>>>>, <<<<2, 1, 0, 3>>>>}]

FileOf(h) == IF h = 1 THEN <<"b", "b", "a", "b">> ELSE <<>>
HashOf(w) == 1

FcgiRequests ==
  << [keep |-> TRUE, params |-> <<<<1, 9>>, <<2, 5, 6, 7, 1, 0, 4>>>>, stdin |-> <<<<3>>>>,
      expected |-> {<<<<5>>, <<6, 7>>>>, <<<<4>>, <<>>>>}],
     [keep |-> TRUE, params |-> <<<<1, 3, 4>>>>, stdin |-> <<>>, expected |-> {}],
     [keep |-> FALSE, params |-> <<<<0, 1, 8>>>>, stdin |-> <<<<1, 2>>, <<3>>>>,
      expected |-> {<<<<>>, <<8>>>>}] >>

LogInt(v) == [op |-> "int", value |-> v]
LogPointer(v) == [op |-> "pointer", value |-> v]
LogText(v) == [op |-> "text", value |-> v]
LogInserts ==
  {<<LogInt(-16), LogText(2)>>, <<LogText(5), LogPointer(31), LogInt(7)>>,
   <<LogText(9), LogText(3)>>}

\* Days with the julian day numbers they are known to have.
Day(y, m, d) == [year |-> y, month |-> m, day |-> d]
FirstDays ==
  {<<Day(1900, 2, 1), 2415052>>, <<Day(1967, 12, 30), 2439855>>, <<Day(1969, 12, 1), 2440557>>,
   <<Day(1999, 2, 27), 2451237>>, <<Day(2035, 1, 1), 2464329>>, <<Day(2099, 12, 30), 2488068>>}
Localtime(offset, dst) == [gmtOffset |-> offset, isDst |-> dst]
ZoneFiles ==
  {[localtimes |-> <<Localtime(0, FALSE), Localtime(2, TRUE)>>,
    transitions |-> <<<<10, 2>>, <<30, 1>>, <<50, 2>>, <<80, 1>>>>],
   [localtimes |-> <<Localtime(-10, FALSE), Localtime(-8, TRUE)>>,
    transitions |-> <<<<10, 2>>, <<30, 1>>>>],
   [localtimes |-> <<Localtime(16, FALSE)>>, transitions |-> <<>>]}

Paths ==
  {<<"", "">>, <<"", "proc", "pid">>, <<"", "", "proc", "", "x", "arg">>, <<"", "favicon.ico">>,
   <<"", "app">>, <<"", "app", "y">>, <<"", "", "">>}

SimpleKinds ==
  {"echo", "discard", "time", "daytime", "chargen", "download", "download2", "download3"}

-----------------------------------------------------------------------------
Memcached == INSTANCE Memcached WITH
  Sessions <- {1, 2}, Clients <- MemcachedClients, kMaxLine <- 3, kMaxValue <- 2,
  client <- v1, input <- v2, buf <- v3, state_ <- v4, command_ <- v5, noreply_ <- v6,
  currItem_ <- v7, bytesToDiscard_ <- v8, keys <- v9, outputBuf_ <- v10, conn <- v11,
  out <- v12, items <- v13, g_cas <- v14, stopping <- v15
Mux == INSTANCE Multiplexer WITH
  Clients <- {1, 2}, kMaxConns <- 1, MaxBytes <- 3, MaxBack <- 1,
  backendConn_ <- v1, availIds_ <- v2, clientConns_ <- v3, client <- v4, context <- v5,
  shut <- v6, sent <- v7, rcvd <- v8, sessions <- v9, link <- v10, back <- v11,
  serverConn_ <- v12, socksConns_ <- v13, got <- v14
Sudoku == INSTANCE Sudoku WITH
  Box <- 2, Puzzles <- Puzzles,
  kLine <- 2, pipelines_ <- 2, InputSize <- 3, rps <- 2, kHz <- 3, MaxRequests <- 4,
  MaxTicks <- 4, Latencies <- {0, 2, 3}, Interval <- 2,
  board <- v1, nodes <- v2, frames <- v3, stack_ <- v4, todo <- v5, pc <- v6,
  mode <- v1, conn_ <- v2, count_ <- v3, sendTime_ <- v4, latencies_ <- v5, unanswered <- v6,
  stream <- v7, arrived <- v8, responses <- v9, done <- v10, ticks_ <- v11, sofar_ <- v12,
  report <- v13
Sudokus == INSTANCE SudokuServer WITH
  MaxThreads <- 2, MaxRequests <- 3, kMaxQueue <- 2, kLowMark <- 1, kHighMark <- 2,
  kSeconds <- 3, MaxSecond <- 6, MaxResponses <- 3,
  Kinds <- {"basic", "multiloop", "threadpool", "hybrid"},
  numThreads_ <- v1, requests <- v2, conn <- v3, throttle <- v4, highWaterMark_ <- v5,
  writeCompleteCallback_ <- v6, output <- v7, functors <- v8, replies <- v9, queue_ <- v10,
  solving <- v11, stat_ <- v12, parsing <- v13, carried <- v14,
  clock <- v1, now <- v2, lastSecond_ <- v3, requests_ <- v4,
  latencies_ <- v5, totalResponses_ <- v6, totalLatency_ <- v7, badLatency_ <- v8,
  recorded <- v9, variant <- v1, threads_ <- v2, asked <- v3, read <- v4, peer <- v5,
  tasks <- v6, working <- v7, answers <- v8, out <- v9
Chat == INSTANCE Chat WITH
  Loops <- {"x", "y"}, Conns <- {"a", "b", "c"}, LoopOf <- ChatLoop, Messages <- {"m", "n"},
  server <- v1, conn <- v2, mutex_ <- v3, lists <- v4, connections_ <- v5, local <- v6,
  sending <- v7, functors <- v8, posted <- v9, owed <- v10, received <- v11
Hub == INSTANCE Hub WITH
  Conns <- {"a", "b"}, Topics <- {"x", "t"}, Time <- "t", Scripts <- HubScripts, MaxTimes <- 1,
  script <- v1, conn <- v2, lines <- v3, connSub <- v4, audiences_ <- v5, content_ <- v6,
  got <- v7, since <- v8
Balancer == INSTANCE RpcBalancer WITH
  Clients <- {"a", "b"}, nBackends <- 2, IdsOf <- BalancerIds, MaxReconnects <- 1,
  client <- v1, asked <- v2, conn_ <- v3, nextId_ <- v4, outstandings_ <- v5, current <- v6,
  working <- v7, answers <- v8, reconnects <- v9
Framed == INSTANCE FramedServers WITH
  Known <- Known, Parses <- Parses, kMaxMessageLen <- 8, Streams <- Streams, kRecordHeader <- 2,
  kLong <- 9, Requests <- FcgiRequests, kMaxResponse <- 10, Conns <- {"a", "b"},
  Threads <- {0, 2}, MaxCalls <- 2, kSize <- 2,
  peer <- v1, unsent <- v2, buf <- v3, conn <- v4, dispatched <- v5, unknown <- v6,
  replies <- v7, asked <- v1, fcgiWire <- v2, fcgiBuf <- v3, paramsStream_ <- v4, params_ <- v5,
  stdin_ <- v6, gotRequest_ <- v7, keepConn_ <- v8, parsing <- v9, calls <- v10, out <- v11,
  fcgiConn <- v12, numWorkerThreads_ <- v1, thriftConn <- v2, conns_ <- v3, called <- v4,
  thriftWire <- v5, buffer <- v6, state_ <- v7, frameSize_ <- v8, inputTransport_ <- v9,
  outputTransport_ <- v10, tasks <- v11, working <- v12, thriftReplies <- v13, failed <- v14
Words == INSTANCE WordCount WITH
  Hashers <- {1, 2}, buckets_ <- 1, Words <- {"a", "b"}, Short <- {"b"}, Files <- FileOf,
  Hash <- HashOf, kMaxHashSize <- 1, g_batchSize <- 2, kHighMark <- 2, MaxLosses <- 1,
  in <- v1, wordcounts <- v2, pc <- v3, at <- v4, buffer_ <- v5, conn_ <- v6, functors <- v7,
  output <- v8, congestion_ <- v9, wire <- v10, input <- v11, wordcounts_ <- v12,
  senders_ <- v13, shard <- v14, lost <- v15
Ttcp == INSTANCE Ttcp WITH
  kInt <- 2, Numbers <- 1..3, Lengths <- 0..2, TxKinds <- {"blocking", "muduo"},
  RxKinds <- {"blocking", "async", "muduo"},
  opt <- v1, tx <- v2, rx <- v3, toRx <- v4, toTx <- v5, txBuf <- v6, rxBuf <- v7
Idle == INSTANCE IdleConnection WITH
  Conns <- {1, 2}, idleSeconds <- 2, kDelay <- 2, MaxNow <- 7, kJump <- 2,
  kind <- v1, now <- v2, conn <- v3, connectionBuckets_ <- v4, connectionList_ <- v5,
  lastReceiveTime <- v6, expiration <- v7, closeAt <- v8, jumped <- v9, idle <- v10
Tunnel == INSTANCE Tunnel WITH
  kHighMark <- 2, MaxBytes <- 3,
  mode <- v1, conn <- v2, reading <- v3, output <- v4, complete <- v5, tunnel <- v6,
  context <- v7, clientConn_ <- v8, inputBuffer <- v9, functors <- v10, sent <- v11,
  read <- v12, got <- v13, crashed <- v14
Simple == INSTANCE SimpleServer WITH
  Kinds <- SimpleKinds, kBufSize <- 2, FileSizes <- {-1, 0, 1, 2, 5}, kMessage <- 2,
  MaxBytes <- 3, Errors <- {-2, 3}, MaxTime <- 4, MaxFrames <- 2,
  kind <- v1, fileSize <- v2, conn <- v3, output <- v4, functors <- v5, todo <- v6, at <- v7,
  file <- v8, context <- v9, badRead <- v10, sent <- v11, got <- v12, fin <- v13,
  printed <- v14, role <- v1, error <- v2, now <- v3, toServer <- v4, toClient <- v5,
  frames <- v6, report <- v7
Log == INSTANCE Logging WITH
  Threads <- {1, 2}, SIZE <- 13, kMaxNumericSize <- 6, kBits <- 5, Inserts <- LogInserts,
  MaxSecond <- 2, MaxZones <- 1, MaxStatements <- 2, kFileBuffer <- 3, kBufferSize <- 2,
  MaxSizes <- {0, 3, 7}, Lines <- {1, 2, 4}, MaxBytes <- 6,
  second <- v1, g_logTimeZone <- v2, t_lastSecond <- v3, t_time <- v4, stream_ <- v5,
  items <- v6, inserted <- v7, statements <- v8, lines <- v9, flushed <- v10,
  aborted <- v11, file <- v1, buffer_ <- v2,
  writtenBytes_ <- v3, next <- v4, logline <- v5, lost <- v6, rpc <- v7, maxSize <- v8,
  content <- v9, err <- v10, size <- v11, atEof <- v12
Zone == INSTANCE TimeZone WITH
  FirstDays <- FirstDays, MaxDays <- 430, Seconds <- {0, 1, 59, 60, 3599, 3600, 86399},
  Zones <- ZoneFiles, MaxHalfHours <- 100, kHour <- 2,
  date <- v1, julianDayNumber_ <- v2, walked <- v3, zone <- v4, now <- v5
Inspector == INSTANCE Inspector WITH
  BuiltIn <- {<<"proc", "pid">>, <<"sys", "stat">>},
  Others <- {<<"proc", "x">>, <<"app", "y">>}, Paths <- Paths, MaxCalls <- 3,
  modules_ <- v1, helps_ <- v2, mutex_ <- v3, mpc <- v4, mcall <- v5, toRegister <- v6,
  calls <- v7, timers <- v8, started <- v9, rpc <- v10, path <- v11, body <- v12, status <- v13

-----------------------------------------------------------------------------
vars == <<part, v1, v2, v3, v4, v5, v6, v7, v8, v9, v10, v11, v12, v13, v14, v15>>

\* The variables from the n-th on, which a program with fewer does not use.
Zero15 == v15 = 0
Zero14 == v14 = 0 /\ Zero15
Zero13 == v13 = 0 /\ Zero14
Zero12 == v12 = 0 /\ Zero13
Zero11 == v11 = 0 /\ Zero12
Zero10 == v10 = 0 /\ Zero11
Zero9 == v9 = 0 /\ Zero10
Zero8 == v8 = 0 /\ Zero9
Zero7 == v7 = 0 /\ Zero8
Zero6 == v6 = 0 /\ Zero7
Same15 == v15' = v15
Same14 == v14' = v14 /\ Same15
Same13 == v13' = v13 /\ Same14
Same12 == v12' = v12 /\ Same13
Same11 == v11' = v11 /\ Same12
Same10 == v10' = v10 /\ Same11
Same9 == v9' = v9 /\ Same10
Same8 == v8' = v8 /\ Same9
Same7 == v7' = v7 /\ Same8
Same6 == v6' = v6 /\ Same7

Init ==
  \/ part = "memcached" /\ Memcached!Init
  \/ part = "mux" /\ Mux!Init /\ Zero15
  \/ part = "sudoku" /\ Sudoku!Init /\ Zero7
  \/ part = "prod" /\ Sudokus!Init /\ Zero15
  \/ part = "stat" /\ Sudokus!StatInit /\ Zero10
  \/ part = "variants" /\ Sudokus!VariantsInit /\ Zero10
  \/ part = "load" /\ Sudoku!ClientInit /\ Zero14
  \/ part = "chat" /\ Chat!Init /\ Zero12
  \/ part = "hub" /\ Hub!Init /\ Zero9
  \/ part = "balancer" /\ Balancer!Init /\ Zero10
  \/ part = "codec" /\ Framed!Init /\ Zero8
  \/ part = "words" /\ Words!Init
  \/ part = "ttcp" /\ Ttcp!Init /\ Zero8
  \/ part = "idle" /\ Idle!Init /\ Zero11
  \/ part = "tunnel" /\ Tunnel!Init /\ Zero15
  \/ part = "fastcgi" /\ Framed!FcgiInit /\ Zero13
  \/ part = "thrift" /\ Framed!ThriftInit /\ Zero15
  \/ part = "simple" /\ Simple!Init /\ Zero15
  \/ part = "roundtrip" /\ Simple!RoundtripInit /\ Zero8
  \/ part = "logging" /\ Log!Init /\ Zero12
  \/ part = "zone" /\ Zone!ZoneInit /\ Zero6
  \/ part = "file" /\ Log!FileInit /\ Zero13
  \/ part = "inspector" /\ Inspector!Init /\ Zero14

MemcachedMoves == part = "memcached" /\ Memcached!Next
MuxMoves == part = "mux" /\ Mux!Next /\ Same15
SudokuMoves == part = "sudoku" /\ Sudoku!Next /\ Same7
ProdMoves == part = "prod" /\ Sudokus!Next /\ Same15
StatMoves == part = "stat" /\ Sudokus!StatNext /\ Same10
VariantsMoves == part = "variants" /\ Sudokus!VariantsNext /\ Same10
LoadMoves == part = "load" /\ Sudoku!ClientNext /\ Same14
ChatMoves == part = "chat" /\ Chat!Next /\ Same12
HubMoves == part = "hub" /\ Hub!Next /\ Same9
BalancerMoves == part = "balancer" /\ Balancer!Next /\ Same10
ProtoMoves == part = "codec" /\ Framed!Next /\ Same8
WordsMoves == part = "words" /\ Words!Next
TtcpMoves == part = "ttcp" /\ Ttcp!Next /\ Same8
IdleMoves == part = "idle" /\ Idle!Next /\ Same11
TunnelMoves == part = "tunnel" /\ Tunnel!Next /\ Same15
FastCgiMoves == part = "fastcgi" /\ Framed!FcgiNext /\ Same13
ThriftMoves == part = "thrift" /\ Framed!ThriftNext /\ Same15
SimpleMoves == part = "simple" /\ Simple!Next /\ Same15
RoundtripMoves == part = "roundtrip" /\ Simple!RoundtripNext /\ Same8
LogMoves == part = "logging" /\ Log!Next /\ Same12
ZoneMoves == part = "zone" /\ Zone!ZoneNext /\ Same6
FileMoves == part = "file" /\ Log!FileNext /\ Same13
InspectorMoves == part = "inspector" /\ Inspector!Next /\ Same14

Next ==
  /\ UNCHANGED part
  /\ \/ MemcachedMoves \/ MuxMoves \/ SudokuMoves \/ ProdMoves \/ StatMoves \/ VariantsMoves
     \/ LoadMoves \/ ChatMoves \/ HubMoves \/ BalancerMoves \/ ProtoMoves \/ WordsMoves
     \/ TtcpMoves \/ IdleMoves \/ TunnelMoves \/ FastCgiMoves \/ ThriftMoves \/ SimpleMoves
     \/ RoundtripMoves \/ LogMoves \/ ZoneMoves \/ FileMoves \/ InspectorMoves

Spec == Init /\ [][Next]_vars

-----------------------------------------------------------------------------
\* Every program keeps its types.
TypeOK ==
  CASE part = "memcached" -> Memcached!TypeOK [] part = "mux" -> Mux!TypeOK
    [] part = "sudoku" -> Sudoku!TypeOK [] part = "prod" -> Sudokus!TypeOK
    [] part = "stat" -> Sudokus!StatTypeOK [] part = "variants" -> Sudokus!VariantsTypeOK
    [] part = "load" -> Sudoku!ClientTypeOK [] part = "chat" -> Chat!TypeOK
    [] part = "hub" -> Hub!TypeOK [] part = "balancer" -> Balancer!TypeOK
    [] part = "codec" -> Framed!TypeOK [] part = "words" -> Words!TypeOK
    [] part = "ttcp" -> Ttcp!TypeOK [] part = "idle" -> Idle!TypeOK
    [] part = "tunnel" -> Tunnel!TypeOK [] part = "fastcgi" -> Framed!FcgiTypeOK
    [] part = "thrift" -> Framed!ThriftTypeOK [] part = "simple" -> Simple!TypeOK
    [] part = "roundtrip" -> Simple!RoundtripTypeOK
    [] part = "logging" -> Log!TypeOK [] part = "zone" -> Zone!TypeOK
    [] part = "file" -> Log!FileTypeOK [] part = "inspector" -> Inspector!TypeOK

\* What a program keeps in two places agrees, in every order of its callbacks and
\* threads: the parser's state and the item it fills (memcached); the free ids, the
\* clients' ids and the backend (multiplexer); the links and sizes of the dancing
\* links after a search; the window of SudokuStat and the responses it counts; the
\* requests a load client has in flight; the list of connections and the connections
\* (chat, idle connections); the topics of a connection and the audiences (hub); the
\* ids a balancer gave out and what its backends work on; the session the two ends of
\* ttcp agreed on; the commands of the Inspector and their help.
StateAgrees ==
  CASE part = "memcached" -> Memcached!SessionAgrees
    [] part = "mux" -> Mux!IdsUnique /\ Mux!NoBackendNoIds
    [] part = "sudoku" -> Sudoku!LinksRestored /\ Sudoku!SizesRight
    [] part = "stat" -> Sudokus!WindowCounts
    [] part = "load" -> Sudoku!InFlight
    [] part = "chat" -> Chat!ListAgrees
    [] part = "idle" -> Idle!ListAgrees
    [] part = "hub" -> Hub!SubscriptionsAgree
    [] part = "balancer" -> Balancer!IdsOutstanding
    [] part = "ttcp" -> Ttcp!SessionAgrees
    [] part = "inspector" -> Inspector!HelpsAgree
    [] OTHER -> TRUE

\* A request has its own answer, once and in the promised order, however the bytes
\* are cut into portions and whichever thread or backend works on it; what is
\* converted is read back: numbers in a log line, times in the zone of a file.  Where
\* the code gives no answer the property says so: a call of the thrift server whose
\* handler throws, and what uses a connection of that server after it was freed.
AnswersMatch ==
  CASE part = "memcached" -> Memcached!RepliesInOrder
    [] part = "mux" -> Mux!AnswersReach
    [] part = "sudoku" -> Sudoku!SolvedRight
    [] part = "prod" -> Sudokus!AnsweredOnce /\ Sudokus!SolvedInOrder
    [] part = "variants" -> Sudokus!VariantsAnsweredOnce /\ Sudokus!Attributable
    [] part = "load" -> Sudoku!ReportRight
    [] part = "balancer" -> Balancer!AnswersBack
    [] part = "codec" -> Framed!DispatchedAreSent /\ Framed!AnswersQuery
    [] part = "fastcgi" -> Framed!CallsRight /\ Framed!AnswersWhole
    [] part = "thrift" -> Framed!RepliesInOrder
    [] part = "roundtrip" -> Simple!ErrorBounded
    [] part = "logging" -> Log!NumbersReadBack
    [] part = "zone" -> Zone!Convert /\ Zone!UtcRight /\ Zone!LocalRight
    [] part = "inspector" -> Inspector!BuiltInFound
    [] OTHER -> TRUE

\* Nothing is doubled on its way, and nothing is lost but where the code drops it: the
\* bytes of the items of memcached, of the clients of the multiplexer (until it loses
\* its backend) and of the tunnel, of a file that is sent, appended to (but for a write
\* that fails) or read; the items of a log statement that its buffer has room for; the
\* messages of a chat and of a topic; the words that are counted (but for those on a
\* connection that is lost, or in a last batch sent behind other output); the requests
\* that several threads count, since the last reset().
NothingLost ==
  CASE part = "memcached" -> Memcached!ItemsWhole /\ Memcached!AppendsKept
    [] part = "mux" -> Mux!BytesReach
    [] part = "prod" -> Sudokus!RequestsCounted
    [] part = "chat" -> Chat!EveryoneReceives
    [] part = "hub" -> Hub!NothingMissed
    [] part = "words" -> Words!CountsKept
    [] part = "tunnel" -> Tunnel!Relayed
    [] part = "simple" -> Simple!Delivered
    [] part = "logging" -> Log!BufferBounded /\ Log!LinesWhole
    [] part = "file" -> Log!NothingLost /\ Log!ReadsPrefix
    [] OTHER -> TRUE

\* What a program stops is started again in time, and what it holds is given back: the
\* hasher that waits for its output (wordcount), the side a tunnel does not read, the
\* ends of ttcp that wait for each other, the server that writes its next block, the
\* connection that is silent, the FILE of a download.  A hasher that waits when its
\* receiver goes away is the exception: it waits for ever.
NoneStalled ==
  CASE part = "words" -> Words!ThrottleEnds
    [] part = "ttcp" -> Ttcp!NotStuck
    [] part = "tunnel" -> Tunnel!ReadsAgain
    [] part = "simple" -> Simple!NotStalled /\ Simple!FilesClosed
    [] part = "idle" -> Idle!ShutOnTime
    [] OTHER -> TRUE

\* No step changes what others read without a lock: an item of memcached that is in
\* the table, and the list of connections a thread of the chat server walks over.
ReadersUndisturbed ==
  [][/\ part = "memcached" => Memcached!ItemImmutable
     /\ part = "chat" => Chat!ListsReadOnly]_vars
===============================================================================
