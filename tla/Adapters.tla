------------------------------ MODULE Adapters ------------------------------
(***************************************************************************)
(* Two C libraries driven by the event loop: libcurl (examples/curl), then *)
(* c-ares (examples/cdns).                                                 *)
(***************************************************************************)
EXTENDS Integers, Sequences, FiniteSets, FiniteSetsExt

-----------------------------------------------------------------------------
(***************************************************************************)
(* examples/curl: the adapter of libcurl's multi interface to the event    *)
(* loop (Curl.cc) under the parallel downloader (download.cc), which asks  *)
(* for the header of a file and then fetches it in one piece or in         *)
(* kConcurrent ranges.                                                     *)
(*                                                                         *)
(* libcurl is external: an added handle starts on the next timeout, its    *)
(* socket is watched through socketCallback, and it finishes inside some   *)
(* curl_multi_socket_action, which returns the number of running handles.  *)
(* Requests are numbered: 0 asks for the header, i > 0 is piece i.         *)
(***************************************************************************)

CONSTANTS kConcurrent,
          Lengths,             \* the lengths a header may announce
          kMinPiece            \* 4096: below this per piece it is not split

VARIABLES easy,                \* libcurl's view of a request
          messages,            \* finished requests not read with info_read
          channel_,            \* what the request's channel watches
          runningHandles_, prevRunningHandles_,
          acceptRanges_, length_, found_,
          pieces,              \* the byte range of every piece
          fetched,             \* bytes written by every piece
          done,                \* requests whose done callback ran
          concurrent_, quit

vars == <<easy, messages, channel_, runningHandles_, prevRunningHandles_, acceptRanges_,
          length_, found_, pieces, fetched, done, concurrent_, quit>>

Requests == 0..kConcurrent
Unused == [r \in Requests |-> "none"]

(* A Request adds its handle when it is made. *)
getUrl(state, rs) == [r \in Requests |-> IF r \in rs THEN "added" ELSE state[r]]

NoRange == [from |-> 0, to |-> -1]

(* The constructor asks for the header; nothing else exists yet. *)
Init ==
  /\ easy = getUrl(Unused, {0})
  /\ messages = {}
  /\ channel_ = [r \in Requests |-> "none"]
  /\ runningHandles_ = 0 /\ prevRunningHandles_ = 0
  /\ acceptRanges_ = FALSE /\ length_ = 0 /\ found_ = FALSE
  /\ pieces = [r \in Requests \ {0} |-> NoRange]
  /\ fetched = [r \in Requests \ {0} |-> 0]
  /\ done = [r \in Requests |-> 0]
  /\ concurrent_ = 0
  /\ quit = FALSE

-----------------------------------------------------------------------------
(* concurrentDownload: equal ranges, the last one up to the end. *)
pieceLen == length_ \div kConcurrent
(* Mutant of range: the first byte of the next piece is fetched too. *)
rangeOverlaps(i) == [from |-> (i - 1) * pieceLen,
                     to |-> IF i < kConcurrent THEN i * pieceLen ELSE length_ - 1]
range(i) == [from |-> (i - 1) * pieceLen,
             to |-> IF i < kConcurrent THEN i * pieceLen - 1 ELSE length_ - 1]

(* Every piece whose file can be created is asked for; otherwise the loop  *)
(* is left.                                                                *)
concurrentDownload(state) ==
  \E created \in SUBSET (1..kConcurrent) :
    /\ pieces' = [i \in 1..kConcurrent |-> IF i \in created THEN range(i) ELSE NoRange]
    /\ easy' = getUrl(state, created)
    /\ quit' = (created # 1..kConcurrent)

(* onHeaderDone, for the header as it is once request 0 has finished. *)
onHeaderDone(state) ==
  IF acceptRanges_ /\ length_ >= kConcurrent * kMinPiece
  THEN concurrent_' = kConcurrent /\ concurrentDownload(state)
  ELSE \/ /\ found_
          /\ pieces' = [pieces EXCEPT ![1] = [from |-> 0, to |-> length_ - 1]]
          /\ concurrent_' = 1
          /\ easy' = getUrl(state, {1})
          /\ UNCHANGED quit
       \/ quit' = TRUE /\ easy' = state /\ UNCHANGED <<pieces, concurrent_>>  \* no file

(* Mutant of onDownloadDone: the last piece does not leave the loop. *)
onDownloadDoneStays(n, state) ==
  concurrent_' = concurrent_ - n /\ easy' = state /\ UNCHANGED <<pieces, quit>>

(* onDownloadDone for n pieces: the last one leaves the loop. *)
onDownloadDone(n, state) ==
  /\ concurrent_' = concurrent_ - n
  /\ quit' = (concurrent_ - n <= 0)
  /\ easy' = state
  /\ UNCHANGED pieces

(* checkFinish, at the end of every handler: the messages are read only if *)
(* the number of running handles went down or is zero.  Every message ends *)
(* its request and calls its done callback.                                *)
checkFinish(msgs, running, state) ==
  LET check == prevRunningHandles_ > running \/ running = 0
      read == IF check THEN msgs ELSE {}
      ended == [r \in Requests |-> IF r \in read THEN "removed" ELSE state[r]]
  IN  /\ prevRunningHandles_' = running
      /\ runningHandles_' = running
      /\ messages' = msgs \ read
      /\ done' = [r \in Requests |-> IF r \in read THEN done[r] + 1 ELSE done[r]]
      /\ IF 0 \in read THEN onHeaderDone(ended)
         ELSE IF read # {} THEN onDownloadDone(Cardinality(read), ended)
         ELSE easy' = ended /\ UNCHANGED <<pieces, concurrent_, quit>>

Running(state) == Cardinality({r \in Requests : state[r] \in {"added", "open"}})

(* socketCallback: a new socket gets its channel, a known one new events,  *)
(* and CURL_POLL_REMOVE takes the channel away.                            *)
setChannel(r, events) == [channel_ EXCEPT ![r] = events]
removeChannel(r) == [channel_ EXCEPT ![r] = "none"]
socketCallback(r, what) ==
  channel_' = IF what = "remove" THEN removeChannel(r) ELSE setChannel(r, what)

(* onTimer: libcurl starts the requests that were added. *)
onTimer(r) ==
  /\ ~quit
  /\ easy[r] = "added"
  /\ LET state == [easy EXCEPT ![r] = "open"]
     IN  checkFinish(messages, Running(state), state)
  /\ socketCallback(r, "out")
  /\ UNCHANGED <<acceptRanges_, length_, found_, fetched>>

(* onTimer: the connection of a request cannot be made. *)
onTimerFails(r) ==
  /\ ~quit
  /\ easy[r] = "added"
  /\ LET state == [easy EXCEPT ![r] = "finished"]
     IN  checkFinish(messages \cup {r}, Running(state), state)
  /\ UNCHANGED <<channel_, acceptRanges_, length_, found_, fetched>>

(* onWrite: the request has been sent, libcurl now waits for the answer.   *)
onWrite(r) ==
  /\ ~quit
  /\ easy[r] = "open" /\ channel_[r] = "out"
  /\ socketCallback(r, "in")
  /\ checkFinish(messages, Running(easy), easy)
  /\ UNCHANGED <<acceptRanges_, length_, found_, fetched>>

(* onRead of the header: its lines, then the end of the request. *)
onReadHeader ==
  /\ ~quit
  /\ easy[0] = "open" /\ channel_[0] = "in"
  /\ ~acceptRanges_ /\ ~found_ /\ length_ = 0
  /\ acceptRanges_' \in BOOLEAN /\ length_' \in Lengths /\ found_' \in BOOLEAN
  /\ UNCHANGED <<easy, messages, channel_, runningHandles_, prevRunningHandles_,
                 pieces, fetched, done, concurrent_, quit>>

onReadHeaderDone ==
  /\ ~quit
  /\ easy[0] = "open" /\ channel_[0] = "in"
  /\ socketCallback(0, "remove")
  /\ LET state == [easy EXCEPT ![0] = "finished"]
     IN  checkFinish(messages \cup {0}, Running(state), state)
  /\ UNCHANGED <<acceptRanges_, length_, found_, fetched>>

onData(r) == fetched' = [fetched EXCEPT ![r] = @ + 1]

(* onRead of a piece: data for its file, or the last of it and the end. *)
onReadData(r) ==
  /\ ~quit
  /\ r # 0 /\ easy[r] = "open" /\ channel_[r] = "in"
  /\ LET size == pieces[r].to - pieces[r].from + 1
         state == [easy EXCEPT ![r] = "finished"]
     IN  \/ /\ fetched[r] < size
            /\ onData(r)
            /\ checkFinish(messages, Running(easy), easy)
            /\ UNCHANGED channel_
         \/ /\ fetched[r] = size
            /\ socketCallback(r, "remove")
            /\ checkFinish(messages \cup {r}, Running(state), state)
            /\ UNCHANGED fetched
  /\ UNCHANGED <<acceptRanges_, length_, found_>>

Next == \/ onReadHeader \/ onReadHeaderDone
        \/ \E r \in Requests : onTimer(r) \/ onTimerFails(r) \/ onWrite(r) \/ onReadData(r)

Fairness == WF_vars(Next)
Spec == Init /\ [][Next]_vars /\ Fairness

-----------------------------------------------------------------------------
TypeOK ==
  /\ \A r \in Requests : easy[r] \in {"none", "added", "open", "finished", "removed"}
  /\ \A r \in Requests : channel_[r] \in {"none", "in", "out"}
  /\ messages \subseteq Requests

(* A request has a channel exactly while libcurl has its socket open, its  *)
(* done callback runs once and not before it has finished, and no finished *)
(* request is overlooked by checkFinish when nothing else is running.      *)
RequestsAgree ==
  /\ \A r \in Requests : channel_[r] # "none" <=> easy[r] = "open"
  /\ \A r \in Requests : done[r] = IF easy[r] = "removed" THEN 1 ELSE 0
  /\ messages = {r \in Requests : easy[r] = "finished"}
  /\ messages # {} => runningHandles_ > 0

(* The ranges of the pieces are disjoint and cover the file, and the loop  *)
(* is left when the last piece is done and not before, unless the file of  *)
(* a piece cannot be created.                                              *)
NotCreated == quit /\ concurrent_ = kConcurrent /\ \E i \in 1..kConcurrent : easy[i] = "none"
PiecesCover == NotCreated \/
  /\ concurrent_ > 0 \/ (quit /\ done[1] = 1) =>
       LET used == {i \in 1..kConcurrent : easy[i] # "none"}
       IN \A b \in 0..(length_ - 1) :
            Cardinality({i \in used : b \in pieces[i].from..pieces[i].to}) = 1
  /\ concurrent_ = Cardinality({i \in 1..kConcurrent : easy[i] \notin {"none", "removed"}})
  /\ quit => concurrent_ = 0

(* The downloader leaves its loop, whatever the order in which the pieces  *)
(* finish or fail: no end of a request is overlooked for good.             *)
Left == quit
LoopLeft == <>Left

-----------------------------------------------------------------------------
(***************************************************************************)
(* examples/cdns/Resolver.cc: the binding of the c-ares resolver to an     *)
(* EventLoop.  resolve() hands a query to c-ares, which calls back with    *)
(* sockets to watch and with results; a timer, set whenever c-ares waits   *)
(* for something, lets it retry and give up.                               *)
(*                                                                         *)
(* c-ares is external.  Of it the module has what Resolver uses: queries   *)
(* that wait, with the tries left; one socket, opened for the first query  *)
(* and closed on an error; answers at once from the hosts file.  A user's  *)
(* callback may call resolve() again.                                      *)
(***************************************************************************)

CONSTANTS Queries, kTries

VARIABLES timerActive_,
          timers,        \* onTimer() scheduled in the loop
          channels_,     \* sockets with a Channel
          socks,         \* sockets c-ares has open
          tries,         \* per query: tries left; 0: not with c-ares
          asked, results,\* queries handed in; per query: callbacks made
          again,         \* a callback in progress calls resolve() for these
          inTimer        \* onTimer() is in ares_process_fd()

resolverVars == <<timerActive_, timers, channels_, socks, tries, asked, results, again, inTimer>>
Fds == {3, 4}

ResolverInit ==
  /\ timerActive_ = FALSE /\ timers = 0 /\ channels_ = {} /\ socks = {} /\ again = {}
  /\ inTimer = FALSE /\ tries = [q \in Queries |-> 0] /\ asked = {} /\ results = [q \in Queries |-> 0]

Pending(t) == {q \in Queries : t[q] > 0}

(* Mutant of StartTimer: timerActive_ is not looked at. *)
StartAnotherTimer == timers' = timers + 1 /\ timerActive_' = TRUE

(* resolve(): the timer is set also when c-ares had the answer at once and *)
(* waits for nothing; runAfter(-1.0) then comes immediately.               *)
StartTimer == /\ timers' = IF timerActive_ THEN timers ELSE timers + 1
              /\ timerActive_' = TRUE

onSockCreate(fd) == socks' = socks \cup {fd} /\ channels_' = channels_ \cup {fd}
onSockStateChange(fd) == socks' = socks \ {fd} /\ channels_' = channels_ \ {fd}

Resolve(q) ==
  /\ asked' = asked \cup {q}
  /\ \/ /\ tries' = [tries EXCEPT ![q] = kTries] /\ UNCHANGED results
        /\ IF socks = {} THEN \E fd \in Fds : onSockCreate(fd)
                         ELSE UNCHANGED <<socks, channels_>>
     \/ /\ results' = [results EXCEPT ![q] = @ + 1]       \* hosts file
        /\ UNCHANGED <<tries, socks, channels_>>
  /\ StartTimer

resolve(q) ==
  /\ q \notin asked /\ again = {} /\ ~inTimer
  /\ Resolve(q) /\ UNCHANGED <<again, inTimer>>

(* ares_host_callback() for some of the waiting queries.  The user's       *)
(* callbacks may call resolve(), before the handler goes on.               *)
Callback(qs, left) ==
  /\ results' = [q \in Queries |-> results[q] + (IF q \in qs THEN 1 ELSE 0)]
  /\ tries' = [q \in Queries |-> IF q \in qs THEN 0 ELSE left[q]]
  /\ IF qs = {} THEN again' = {} ELSE again' \in SUBSET (Queries \ asked)

resolveAgain ==
  /\ \E q \in again : Resolve(q) /\ again' = again \ {q}
  /\ UNCHANGED inTimer

(* An answer arrives, or the socket fails and is closed. *)
onRead ==
  /\ channels_ # {} /\ again = {} /\ ~inTimer
  /\ \E qs \in SUBSET Pending(tries) : Callback(qs, tries)
  /\ \/ UNCHANGED <<socks, channels_>>
     \/ \E fd \in channels_ : onSockStateChange(fd)
  /\ UNCHANGED <<timerActive_, timers, asked, inTimer>>

(* onTimer(): queries are tried again or given up, and when the callbacks  *)
(* of these have returned, ares_timeout() says whether any query waits.    *)
resolverOnTimer ==
  /\ timers > 0 /\ again = {} /\ ~inTimer
  /\ timers' = timers - 1 /\ inTimer' = TRUE
  /\ LET left == [q \in Queries |-> IF tries[q] > 0 THEN tries[q] - 1 ELSE 0]
     IN  Callback({q \in Pending(tries) : left[q] = 0}, left)
  /\ \/ UNCHANGED <<socks, channels_>>
     \/ socks = {} /\ Pending(tries') # {} /\ \E fd \in Fds : onSockCreate(fd)
  /\ UNCHANGED <<timerActive_, asked>>

onTimerEnds ==
  /\ inTimer /\ again = {} /\ inTimer' = FALSE
  /\ IF Pending(tries) = {}
     THEN timerActive_' = FALSE /\ UNCHANGED timers
     ELSE timers' = timers + 1 /\ UNCHANGED timerActive_
  /\ UNCHANGED <<channels_, socks, tries, asked, results, again>>

ResolverNext == \/ onRead \/ resolverOnTimer \/ onTimerEnds \/ resolveAgain
                \/ \E q \in Queries : resolve(q)

ResolverFairness ==
  /\ WF_resolverVars(resolverOnTimer) /\ WF_resolverVars(onTimerEnds)
  /\ WF_resolverVars(resolveAgain)
ResolverSpec == ResolverInit /\ [][ResolverNext]_resolverVars /\ ResolverFairness

-----------------------------------------------------------------------------
ResolverTypeOK == /\ timers \in Nat /\ channels_ \subseteq Fds /\ socks \subseteq Fds
                  /\ asked \subseteq Queries

(* The loop has one timer for the resolver exactly while timerActive_ says *)
(* so, and always while a query waits, also for one that a callback added; *)
(* every socket of c-ares is watched and no Channel outlives its socket.   *)
TimerAgrees ==
  /\ timers + (IF inTimer THEN 1 ELSE 0) = IF timerActive_ THEN 1 ELSE 0
  /\ Pending(tries) # {} => timerActive_
  /\ channels_ = socks

(* Every query has its callback exactly once: not while it waits, and not  *)
(* again after a late answer.                                              *)
CalledOnce == \A q \in asked : results[q] + (IF tries[q] > 0 THEN 1 ELSE 0) = 1

(* A query that waits for its callback; in the end none does: every query  *)
(* is answered or given up.                                                *)
Waits(q) == q \in asked /\ results[q] = 0
QueriesEnd == \A q \in Queries : []<> ~Waits(q)
=============================================================================
