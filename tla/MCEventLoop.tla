----------------------------- MODULE MCEventLoop -----------------------------
(***************************************************************************)
(* The EventLoop with the threads that use it, the EventLoopThread that     *)
(* owns one, and the programs that leave their loop by themselves, model-   *)
(* checked side by side: a behaviour picks one of them and moves only that  *)
(* one.  The programs share the variables p1, p2, ..., which mean something *)
(* else in each.                                                            *)
(***************************************************************************)
EXTENDS EventLoop

VARIABLES part, p1, p2, p3, p4, p5, p6, p7, p8, p9, p10, p11, p12, p13

Adapters == INSTANCE Adapters WITH
  Queries <- {1, 2, 3}, kTries <- 2, kConcurrent <- 3, Lengths <- {0, 2, 7}, kMinPiece <- 2,
  timerActive_ <- p1, timers <- p2, channels_ <- p3, socks <- p4, tries <- p5, asked <- p6,
  results <- p7, again <- p8, inTimer <- p9, easy <- p1, messages <- p2, channel_ <- p3,
  runningHandles_ <- p4, prevRunningHandles_ <- p5, acceptRanges_ <- p6, length_ <- p7,
  found_ <- p8, pieces <- p9, fetched <- p10, done <- p11, concurrent_ <- p12, quit <- p13
Program == INSTANCE LoopPrograms WITH
  Sessions <- {1, 2}, MaxMessages <- 2, numPipes <- 4, numActive <- 2, numWrites <- 5,
  MaxRounds <- 2, kOne <- 3, kTwo <- 4,
  state <- p1, sessions_ <- p2, numConnected_ <- p3, messagesRead_ <- p4, ball <- p5,
  stopped <- p6, timeout <- p7, reporting <- p8, report <- p9, raced <- p10, quits <- p11,
  pipes <- p1, g_reads <- p2, g_writes <- p3, g_fired <- p4, active <- p5, benchQuit <- p6,
  round <- p7, program <- p1, count_ <- p2, timers <- p3, taken <- p4, printerQuit <- p5,
  printed <- p6, mpc <- p7

partVars == <<part, allVars>>
programVars == <<p1, p2, p3, p4, p5, p6, p7, p8, p9, p10, p11, p12, p13>>

\* The variables a program with fewer does not use.
rest12 == <<p12, p13>>
rest10 == <<p10, p11, rest12>>
rest8 == <<p8, p9, rest10>>
No12 == p12 = 0 /\ p13 = 0
No10 == p10 = 0 /\ p11 = 0 /\ No12
No8 == p8 = 0 /\ p9 = 0 /\ No10
No1 == p1 = 0 /\ p2 = 0 /\ p3 = 0 /\ p4 = 0 /\ p5 = 0 /\ p6 = 0 /\ p7 = 0 /\ No8

ProgramInit ==
  \/ part = "resolver" /\ Adapters!ResolverInit /\ No10
  \/ part = "download" /\ Adapters!Init
  \/ part = "pingpong" /\ Program!Init /\ No12
  \/ part = "bench" /\ Program!BenchInit /\ No8
  \/ part = "printer" /\ Program!PrinterInit /\ No8

MCInit == ThreadInit /\ (ProgramInit \/ (part \in {"loop", "thread"} /\ No1))

LoopMoves == part = "loop" /\ Next /\ UNCHANGED threadVars
ThreadMoves == part = "thread" /\ ThreadNext
ResolverMoves == part = "resolver" /\ Adapters!ResolverNext /\ UNCHANGED rest10
DownloadMoves == part = "download" /\ Adapters!Next
PingPongMoves == part = "pingpong" /\ Program!Next /\ UNCHANGED rest12
BenchMoves == part = "bench" /\ Program!BenchNext /\ UNCHANGED rest8
PrinterMoves == part = "printer" /\ Program!PrinterNext /\ UNCHANGED rest8
ProgramMoves == ResolverMoves \/ DownloadMoves \/ PingPongMoves \/ BenchMoves \/ PrinterMoves

\* The owner of a thread and a program may stop; a loop that was entered may not.
Stops == part # "loop" /\ UNCHANGED <<partVars, programVars>>

MCNext ==
  \/ (LoopMoves \/ ThreadMoves) /\ UNCHANGED <<part, programVars>>
  \/ ProgramMoves /\ UNCHANGED partVars
  \/ Stops

\* The fairness of the loop and of the EventLoopThread; see EventLoop.tla.
InLoop(A) == part = "loop" /\ A /\ UNCHANGED <<part, threadVars>>
InThread(A) == part = "thread" /\ A /\ UNCHANGED part
WakeupReported == \E ready \in SUBSET Reportable : WakeupChannel \in ready /\ PollReturn(ready)

\* The loops of the programs, and the processes of ares, of libcurl and of the kernel
\* that they wait for, keep running.
ResolverTurn(A) == part = "resolver" /\ A /\ UNCHANGED rest10
ProgramFairness ==
  /\ WF_programVars(DownloadMoves \/ PrinterMoves \/ PingPongMoves)
  /\ WF_programVars(ResolverTurn(Adapters!resolverOnTimer))
  /\ WF_programVars(ResolverTurn(Adapters!onTimerEnds))
  /\ WF_programVars(ResolverTurn(Adapters!resolveAgain))

MCSpec ==
  /\ MCInit /\ [][MCNext]_<<partVars, programVars>> /\ ProgramFairness
  /\ WF_partVars(InLoop(LoopStep)) /\ SF_partVars(InLoop(WakeupReported))
  /\ \A t \in Threads : WF_partVars(InLoop(WakeupBy(t)))
  /\ WF_partVars(InThread(ThreadFunc)) /\ WF_partVars(InThread(OwnerStep))
  /\ SF_partVars(InThread(WakeupReported /\ UNCHANGED threadVars))

-----------------------------------------------------------------------------
\* The programs keep their types, in every order of their callbacks, loops and threads.
\* The resolver has a timer exactly while ares has queries, and calls back once for each.  A
\* request of libcurl has a channel while its socket is open and ends once; the
\* pieces of a download are the file.  The ping-pong client that stops last adds up
\* all sessions; the ring of the pipe benchmark is empty after each round.  Every
\* number is printed once by a Printer, which outlives the loops that use it.
ProgramsAgree ==
  CASE part = "resolver" -> Adapters!ResolverTypeOK /\ Adapters!TimerAgrees /\ Adapters!CalledOnce
    [] part = "download" -> Adapters!TypeOK /\ Adapters!RequestsAgree /\ Adapters!PiecesCover
    [] part = "pingpong" -> Program!TypeOK /\ Program!LastTotal
    [] part = "bench" -> Program!BenchTypeOK /\ Program!RoundsClean
    [] part = "printer" -> Program!PrinterTypeOK /\ Program!PrintedOnce /\ Program!OutlivesLoops
    [] OTHER -> TRUE

\* What is waited for happens: functors are called and quit() ends the loop;
\* startLoop() returns, and so does the destructor after its quit() of a loop
\* that runs.  A query of the resolver is answered or given up; the downloader and
\* the timer programs leave their loops for good, and the ping-pong client does when
\* its timeout finds every session connected.
ProgramEnds ==
  CASE part = "download" -> Adapters!Left
    [] part = "printer" -> Program!Ended
    [] part = "pingpong" -> ~Program!Stopping
    [] OTHER -> TRUE
WaitsEnd ==
  /\ FunctorsCalled /\ QuitEndsLoop /\ CallsReturn
  /\ \A q \in {1, 2, 3} : []<>(part = "resolver" => ~Adapters!Waits(q))
  /\ []<>ProgramEnds
===============================================================================
