---------------------------- MODULE LoopPrograms ----------------------------
(***************************************************************************)
(* Programs that leave their event loop by themselves: the client of       *)
(* examples/pingpong and its bench.cc, then the timers of                  *)
(* examples/asio/tutorial.                                                 *)
(***************************************************************************)
EXTENDS Integers, FiniteSets, FiniteSetsExt, Sequences, SequencesExt

-----------------------------------------------------------------------------
(***************************************************************************)
(* examples/pingpong/client.cc: sessions on the loops of a thread pool     *)
(* bounce a block off the server; handleTimeout() in the main loop stops   *)
(* them, and the one that brings numConnected_ to 0 adds everything up and *)
(* quits.  numConnected_ also falls to 0 when the server closes the        *)
(* sessions that are up while others are still connecting.                 *)
(***************************************************************************)

CONSTANTS Sessions, MaxMessages

VARIABLES state,          \* session -> "new", "connecting", "opened", "up", "down"
          sessions_,      \* in the vector; the constructor pushes one by one
          numConnected_, messagesRead_,
          ball,           \* session -> its block is at the server
          stopped,        \* sessions whose stop() found a connection
          timeout,        \* handleTimeout() ran
          reporting,      \* sessions between the decrement and the report
          report,         \* the last total printed, or -1
          raced,          \* a report walked sessions_ while it was growing
          quits           \* quit() functors on their way, "done" when the loop ended

vars == <<state, sessions_, numConnected_, messagesRead_, ball, stopped, timeout, reporting,
          report, raced, quits>>

Total(f, S) == MapThenSumSet(LAMBDA s : f[s], S)
Constructed == sessions_ = Sessions

Init ==
  /\ state = [s \in Sessions |-> "new"] /\ sessions_ = {} /\ numConnected_ = 0
  /\ messagesRead_ = [s \in Sessions |-> 0] /\ ball = [s \in Sessions |-> FALSE]
  /\ stopped = {} /\ timeout = FALSE /\ reporting = {} /\ report = -1 /\ raced = FALSE
  /\ quits = 0

-----------------------------------------------------------------------------
(* The body of the constructor's loop: start(), then the push. *)
startSession(s) ==
  /\ state[s] = "new" /\ \A r \in Sessions \ {s} : state[r] = "new" \/ r \in sessions_
  /\ state' = [state EXCEPT ![s] = "connecting"]
  /\ UNCHANGED <<sessions_, numConnected_, messagesRead_, ball, stopped, timeout, reporting,
                 report, raced, quits>>

emplace_back(s) ==
  /\ state[s] # "new" /\ s \notin sessions_ /\ sessions_' = sessions_ \cup {s}
  /\ UNCHANGED <<state, numConnected_, messagesRead_, ball, stopped, timeout, reporting,
                 report, raced, quits>>

(* onConnection(), up: the block is sent before onConnect() counts. *)
onConnection(s) ==
  /\ state[s] = "connecting" /\ quits # -1
  /\ state' = [state EXCEPT ![s] = "opened"] /\ ball' = [ball EXCEPT ![s] = TRUE]
  /\ UNCHANGED <<sessions_, numConnected_, messagesRead_, stopped, timeout, reporting,
                 report, raced, quits>>

onConnect(s) ==
  /\ state[s] = "opened" /\ state' = [state EXCEPT ![s] = "up"]
  /\ numConnected_' = numConnected_ + 1
  /\ UNCHANGED <<sessions_, messagesRead_, ball, stopped, timeout, reporting, report, raced,
                 quits>>

onMessage(s) ==
  /\ state[s] = "up" /\ ball[s] /\ messagesRead_[s] < MaxMessages
  /\ messagesRead_' = [messagesRead_ EXCEPT ![s] = @ + 1]
  /\ ball' = [ball EXCEPT ![s] = s \notin stopped]    \* send() after shutdown() is dropped
  /\ UNCHANGED <<state, sessions_, numConnected_, stopped, timeout, reporting, report, raced,
                 quits>>

(* onConnection(), down: the server closed, after stop() or on its own. *)
onDisconnect(s) ==
  /\ state[s] = "up" /\ quits # -1 /\ state' = [state EXCEPT ![s] = "down"]
  /\ numConnected_' = numConnected_ - 1
  /\ reporting' = IF numConnected_' = 0 THEN reporting \cup {s} ELSE reporting
  /\ UNCHANGED <<sessions_, messagesRead_, ball, stopped, timeout, report, raced, quits>>

(* The rest of onDisconnect() for the session that saw 0. *)
Report(s) ==
  /\ s \in reporting /\ reporting' = reporting \ {s}
  /\ report' = Total(messagesRead_, sessions_) /\ raced' = (raced \/ ~Constructed)
  /\ quits' = IF quits = -1 THEN -1 ELSE quits + 1
  /\ UNCHANGED <<state, sessions_, numConnected_, messagesRead_, ball, stopped, timeout>>

-----------------------------------------------------------------------------
(* TcpClient::disconnect() of every session; one without a connection only *)
(* has connect_ cleared, which newConnection() does not look at.           *)
handleTimeout ==
  /\ Constructed /\ ~timeout /\ quits # -1
  /\ timeout' = TRUE /\ stopped' = {s \in Sessions : state[s] \in {"opened", "up"}}
  /\ UNCHANGED <<state, sessions_, numConnected_, messagesRead_, ball, reporting, report,
                 raced, quits>>

(* Client::quit() and EventLoop::quit(), through the two queues. *)
quit ==
  /\ Constructed /\ quits > 0 /\ quits' = -1
  /\ UNCHANGED <<state, sessions_, numConnected_, messagesRead_, ball, stopped, timeout,
                 reporting, report, raced>>

Next == \/ \E s \in Sessions : \/ startSession(s) \/ emplace_back(s) \/ onConnection(s)
                               \/ onConnect(s) \/ onMessage(s) \/ Report(s)
                               \/ onDisconnect(s)
        \/ handleTimeout \/ quit

Spec == Init /\ [][Next]_vars /\ WF_vars(Next)

-----------------------------------------------------------------------------
TypeOK == /\ numConnected_ \in 0..Cardinality(Sessions) /\ quits \in -1..Cardinality(Sessions)
          /\ report \in -1..(MaxMessages * Cardinality(Sessions))

(* Once every session has been up and is down again, one of them has seen  *)
(* 0 and reports: the last total is all that was read.                     *)
LastTotal ==
  (\A s \in Sessions : state[s] = "down") /\ reporting = {} /\ ~raced =>
    report = Total(messagesRead_, Sessions) /\ (quits > 0 \/ quits = -1)

(* When the timeout finds every session connected, the client ends. *)
Stopping == timeout /\ stopped = Sessions /\ quits # -1
ClientEnds == []<> ~Stopping

-----------------------------------------------------------------------------
(***************************************************************************)
(* examples/pingpong/bench.cc: numActive bytes travel around a ring of     *)
(* pipes, numWrites more hops are made, and readCallback() quits the loop  *)
(* when every byte that was sent has been read.  runOnce() is repeated on  *)
(* the same pipes.                                                         *)
(***************************************************************************)

CONSTANTS numPipes, numActive, numWrites, MaxRounds

VARIABLES pipes,    \* pipe -> bytes waiting in it
          g_reads, g_writes, g_fired,
          active,   \* channels of this iteration still to be handled
          benchQuit, round

benchVars == <<pipes, g_reads, g_writes, g_fired, active, benchQuit, round>>

Pipes == 0..(numPipes - 1)

(* The bytes runOnce() sends: at multiples of numPipes / numActive. *)
Sent(p) == Cardinality({i \in 0..(numActive - 1) : i * (numPipes \div numActive) = p})

BenchInit ==
  /\ pipes = [p \in Pipes |-> 0] /\ g_reads = 0 /\ g_writes = 0 /\ g_fired = 0
  /\ active = {} /\ benchQuit = TRUE /\ round = 0

runOnce ==
  /\ benchQuit /\ active = {} /\ round < MaxRounds
  /\ round' = round + 1 /\ benchQuit' = FALSE
  /\ pipes' = [p \in Pipes |-> pipes[p] + Sent(p)]
  /\ g_fired' = numActive /\ g_reads' = 0 /\ g_writes' = numWrites
  /\ UNCHANGED active

(* EventLoop::loop(): epoll_wait() reports some of the readable pipes. *)
poll ==
  /\ ~benchQuit /\ active = {}
  /\ active' \in SUBSET {p \in Pipes : pipes[p] > 0} \ {{}}
  /\ UNCHANGED <<pipes, g_reads, g_writes, g_fired, benchQuit, round>>

readCallback(idx) ==
  /\ idx \in active /\ active' = active \ {idx}
  /\ g_reads' = g_reads + 1
  /\ LET widx == IF idx + 1 >= numPipes THEN idx + 1 - numPipes ELSE idx + 1
     IN  IF g_writes > 0
         THEN /\ pipes' = [[pipes EXCEPT ![idx] = @ - 1] EXCEPT ![widx] = @ + 1]
              /\ g_writes' = g_writes - 1 /\ g_fired' = g_fired + 1
         ELSE pipes' = [pipes EXCEPT ![idx] = @ - 1] /\ UNCHANGED <<g_writes, g_fired>>
  /\ benchQuit' = (benchQuit \/ g_fired' = g_reads')
  /\ UNCHANGED round

BenchNext == runOnce \/ poll \/ \E idx \in Pipes : readCallback(idx)

BenchSpec == BenchInit /\ [][BenchNext]_benchVars

-----------------------------------------------------------------------------
BenchTypeOK == g_reads \in 0..(numActive + numWrites) /\ active \subseteq Pipes

(* g_fired - g_reads bytes are on the ring, so the loop quits with the     *)
(* last byte: never while one is left to disturb the next round, and never *)
(* before all the hops are made.                                           *)
RoundsClean ==
  /\ MapThenSumSet(LAMBDA p : pipes[p], Pipes) = g_fired - g_reads
  /\ benchQuit /\ round > 0 => /\ active = {} /\ \A p \in Pipes : pipes[p] = 0
                               /\ g_reads = numActive + numWrites /\ g_writes = 0

-----------------------------------------------------------------------------
(***************************************************************************)
(* examples/asio/tutorial: timer3 and timer4, where one loop prints and    *)
(* counts, timer5, where a second loop in its own thread does the same     *)
(* under mutex_, and timer6, which prints and rearms outside the lock.     *)
(* The Printer must outlive both loops.                                    *)
(***************************************************************************)

CONSTANTS kOne,   \* counts of timer3 and timer4
          kTwo    \* counts of timer5 and timer6

VARIABLES program,
          count_,
          timers,     \* loop -> runAfter() is pending
          taken,      \* timer6: loop -> what it does outside the lock
          printerQuit, \* loop -> quit()
          printed,
          mpc         \* main(): "loop", "~thread", "~printer", "done"

printerVars == <<program, count_, timers, taken, printerQuit, printed, mpc>>

Loops == IF program \in {"timer3", "timer4"} THEN {1} ELSE {1, 2}
Limit == IF program \in {"timer3", "timer4"} THEN kOne ELSE kTwo
nothing == -1
shouldQuit == -2

PrinterInit ==
  /\ program \in {"timer3", "timer4", "timer5", "timer6"}
  /\ count_ = 0 /\ timers = [l \in {1, 2} |-> l \in Loops]
  /\ taken = [l \in {1, 2} |-> nothing]
  /\ printerQuit = [l \in {1, 2} |-> FALSE] /\ printed = <<>> /\ mpc = "loop"

(* A loop runs until it sees quit_, which it tests between two events. *)
Runs(l) == IF l = 1 THEN mpc = "loop" ELSE mpc \in {"loop", "~thread"}
Expired(l) == Runs(l) /\ ~printerQuit[l] /\ timers[l]

-----------------------------------------------------------------------------
(* The one-loop print(), and print1() and print2() of timer5: all of it in *)
(* one step, as the lock is held to the end.                               *)
CountOrQuit(l) ==
  IF count_ < Limit
  THEN /\ printed' = Append(printed, count_) /\ count_' = count_ + 1
       /\ UNCHANGED <<timers, printerQuit>>                    \* runAfter() again
  ELSE /\ printerQuit' = [printerQuit EXCEPT ![l] = TRUE] /\ timers' = [timers EXCEPT ![l] = FALSE]
       /\ UNCHANGED <<printed, count_>>

print ==
  /\ program = "timer3" /\ Expired(1) /\ CountOrQuit(1) /\ UNCHANGED <<program, taken, mpc>>

Printer_print ==
  /\ program = "timer4" /\ Expired(1) /\ CountOrQuit(1) /\ UNCHANGED <<program, taken, mpc>>

print1 ==
  /\ program = "timer5" /\ Expired(1) /\ CountOrQuit(1) /\ UNCHANGED <<program, taken, mpc>>

print2 ==
  /\ program = "timer5" /\ Expired(2) /\ CountOrQuit(2) /\ UNCHANGED <<program, taken, mpc>>

(* timer6: the count is taken under the lock ... *)
Take(l) ==
  /\ program = "timer6" /\ Expired(l) /\ taken[l] = nothing
  /\ IF count_ < Limit
     THEN taken' = [taken EXCEPT ![l] = count_] /\ count_' = count_ + 1
     ELSE taken' = [taken EXCEPT ![l] = shouldQuit] /\ UNCHANGED count_
  /\ timers' = [timers EXCEPT ![l] = FALSE]
  /\ UNCHANGED <<program, printerQuit, printed, mpc>>

(* Mutant of OutOfLock: the timer is not set again. *)
OutOfLockOnce(l) ==
  /\ Runs(l) /\ taken[l] # nothing
  /\ IF taken[l] = shouldQuit
     THEN printerQuit' = [printerQuit EXCEPT ![l] = TRUE] /\ UNCHANGED printed
     ELSE printed' = Append(printed, taken[l]) /\ UNCHANGED printerQuit
  /\ taken' = [taken EXCEPT ![l] = nothing]
  /\ UNCHANGED <<program, count_, mpc, timers>>

(* ... and the loop prints and rearms, or quits, without it. *)
OutOfLock(l) ==
  /\ Runs(l) /\ taken[l] # nothing
  /\ IF taken[l] = shouldQuit
     THEN printerQuit' = [printerQuit EXCEPT ![l] = TRUE] /\ UNCHANGED <<printed, timers>>
     ELSE /\ printed' = Append(printed, taken[l]) /\ timers' = [timers EXCEPT ![l] = TRUE]
          /\ UNCHANGED printerQuit
  /\ taken' = [taken EXCEPT ![l] = nothing]
  /\ UNCHANGED <<program, count_, mpc>>

-----------------------------------------------------------------------------
(* loop.loop() returns; ~EventLoopThread() asks the other loop to quit ... *)
LoopEnds ==
  /\ mpc = "loop" /\ printerQuit[1] /\ taken[1] = nothing
  /\ IF Loops = {1} THEN mpc' = "~printer" /\ UNCHANGED printerQuit
                    ELSE mpc' = "~thread" /\ printerQuit' = [printerQuit EXCEPT ![2] = TRUE]
  /\ UNCHANGED <<program, count_, timers, taken, printed>>

(* ... and joins its thread, which first finishes the callback it is in. *)
Joined ==
  /\ mpc = "~thread" /\ taken[2] = nothing
  /\ mpc' = "~printer" /\ UNCHANGED <<program, count_, timers, taken, printerQuit, printed>>

Printer_dtor ==
  /\ mpc = "~printer" /\ mpc' = "done"
  /\ printed' = Append(printed, count_)
  /\ UNCHANGED <<program, count_, timers, taken, printerQuit>>

Done == mpc = "done" /\ UNCHANGED printerVars

Step == \/ print \/ Printer_print \/ print1 \/ print2 \/ LoopEnds \/ Joined \/ Printer_dtor
        \/ \E l \in {1, 2} : Take(l) \/ OutOfLock(l)
PrinterNext == Step \/ Done

PrinterSpec == PrinterInit /\ [][PrinterNext]_printerVars /\ WF_printerVars(Step)

-----------------------------------------------------------------------------
PrinterTypeOK == /\ count_ \in 0..Limit /\ DOMAIN taken = {1, 2}
                 /\ \A l \in {1, 2} : taken[l] \in {nothing, shouldQuit} \cup 0..Limit

(* Every number below count_ is printed once, by one of the loops, or is   *)
(* in the hands of a loop that has left the lock.  With one lock held to   *)
(* the end they are printed in order; the final count is the limit, though *)
(* the second loop may be stopped before it sees it.                       *)
PrintedOnce ==
  LET out == IF mpc = "done" THEN Front(printed) ELSE printed
      held == {taken[l] : l \in {m \in {1, 2} : taken[m] >= 0}}
  IN  /\ ToSet(out) \cup held = 0..(count_ - 1)
      /\ Cardinality(ToSet(out)) = Len(out) /\ ToSet(out) \cap held = {}
      /\ program # "timer6" => \A i \in 1..Len(out) : out[i] = i - 1
      /\ mpc = "done" => Last(printed) = Limit

(* The Printer is destroyed when neither loop is in one of its callbacks   *)
(* nor will enter one again.                                               *)
OutlivesLoops == mpc \in {"~printer", "done"} => \A l \in {1, 2} : taken[l] = nothing /\ ~Expired(l)

(* The program ends. *)
Ended == mpc = "done"
Ends == <>Ended
=============================================================================
