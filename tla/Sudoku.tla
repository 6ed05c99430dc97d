------------------------------- MODULE Sudoku --------------------------------
(***************************************************************************)
(* examples/sudoku without its servers (SudokuServer.tla): the solver, then *)
(* the clients.                                                             *)
(***************************************************************************)
EXTENDS Integers, Sequences, SequencesExt, FiniteSets, FiniteSetsExt

-----------------------------------------------------------------------------
(***************************************************************************)
(* examples/sudoku/sudoku.cc: the dancing links solver.  An empty cell, and  *)
(* a value missing in a row, a column or a box of the board, is a column of *)
(* a matrix; putting a value into a cell is a row of it, four nodes in four *)
(* columns; solve() looks for rows that cover each column once.  Every node *)
(* is in a ring with the nodes of its row and in one with those of its      *)
(* column.  The board has Box x Box boxes (3 x 3 in the code).              *)
(***************************************************************************)

CONSTANTS Box, Puzzles

VARIABLES board,        \* inout_; 0 is an empty cell
          nodes,        \* nodes_; the first one is root_
          frames,       \* one for each call of solve(): its col, its row, the nodes it left
          stack_,
          todo,         \* the columns of the row to cover or uncover
          pc
vars == <<board, nodes, frames, stack_, todo, pc>>

N == Box * Box
kCells == N * N
Cells == 0..(kCells - 1)
kRow == 100
kCol == 200
kBox == 300
RowOf(i) == i \div N
ColOf(i) == i % N
BoxOf(i) == (RowOf(i) \div Box) * Box + ColOf(i) \div Box
get_row_col(row, v) == kRow + row * 10 + v
get_col_col(col, v) == kCol + col * 10 + v
get_box_col(box, v) == kBox + box * 10 + v

root_ == 1

\* The links of a node into a ring that put_left() or put_up() built: in the order
\* in which the nodes came, the head first.
Before(ring, n) == LET k == CHOOSE i \in DOMAIN ring : ring[i] = n
                   IN IF k = 1 THEN ring[Len(ring)] ELSE ring[k - 1]
After(ring, n) == LET k == CHOOSE i \in DOMAIN ring : ring[i] = n
                  IN IF k = Len(ring) THEN ring[1] ELSE ring[k + 1]

\* append_column(): for the cells that are empty, then for the values that a row, a
\* column or a box misses.
Given(b, v, U(_), u) == \E i \in Cells : U(i) = u /\ b[i] = v
EmptyCells(b) == SelectSeq([k \in 1..kCells |-> k - 1], LAMBDA i : b[i] = 0)
ColumnNames(b) ==
  LET Missing(v, U(_), u, name) == IF Given(b, v, U, u) THEN <<>> ELSE <<name>>
      Unit(u, v) == Missing(v, RowOf, u, get_row_col(u, v)) \o Missing(v, ColOf, u, get_col_col(u, v))
                      \o Missing(v, BoxOf, u, get_box_col(u, v))
  IN EmptyCells(b) \o FlattenSeq([k \in 1..kCells |-> Unit((k - 1) \div N, 1 + ((k - 1) % N))])

\* The rows: every value that fits into an empty cell, with the names of its columns.
RowNames(b) ==
  LET Fits(i, v) == ~ (\/ Given(b, v, RowOf, RowOf(i)) \/ Given(b, v, ColOf, ColOf(i))
                       \/ Given(b, v, BoxOf, BoxOf(i)))
      Row(i, v) == IF Fits(i, v)
                   THEN <<i, get_row_col(RowOf(i), v), get_col_col(ColOf(i), v), get_box_col(BoxOf(i), v)>>
                   ELSE <<>>
  IN FlattenSeq([k \in 1..Len(EmptyCells(b)) |-> FlattenSeq([v \in 1..N |-> Row(EmptyCells(b)[k], v)])])

\* The constructor of SudokuSolver: root_, the columns, then the rows of four nodes.
Built(b) ==
  LET columns == ColumnNames(b)
      names == <<0>> \o columns \o RowNames(b)
      heads == 1 + Len(columns)
      header == [k \in 1..heads |-> k]
      column(n) == SelectSeq([k \in 1..Len(names) |-> k], LAMBDA m : m > 1 /\ names[m] = names[n])
      rowRing(n) == LET n0 == n - ((n - heads - 1) % 4) IN <<n0, n0 + 1, n0 + 2, n0 + 3>>
      across(n) == IF n <= heads THEN header ELSE rowRing(n)
      down(n) == IF n = root_ THEN <<n>> ELSE column(n)
  IN [n \in 1..Len(names) |->
       [left |-> Before(across(n), n), right |-> After(across(n), n),
        up |-> Before(down(n), n), down |-> After(down(n), n), col |-> down(n)[1],
        name |-> names[n], size |-> IF n \in 2..heads THEN Len(column(n)) - 1 ELSE 0]]

\* The other nodes of the ring of n, in the order of the links.
RECURSIVE Ring(_, _, _, _)
Ring(ns, n, m, link) ==
  LET next == ns[m][link] IN IF next = n THEN <<>> ELSE <<next>> \o Ring(ns, n, next, link)

cover(ns, c) ==
  LET Unlink(ms, j) ==
        LET ms1 == [ms EXCEPT ![ms[j].down].up = ms[j].up]
            ms2 == [ms1 EXCEPT ![ms1[j].up].down = ms1[j].down]
        IN [ms2 EXCEPT ![ms2[j].col].size = @ - 1]
      UnlinkRow(ms, row) == FoldLeft(Unlink, ms, Ring(ms, row, row, "right"))
      ns1 == [ns EXCEPT ![ns[c].right].left = ns[c].left]
      ns2 == [ns1 EXCEPT ![ns1[c].left].right = ns1[c].right]
  IN FoldLeft(UnlinkRow, ns2, Ring(ns2, c, c, "down"))

uncover(ns, c) ==
  LET Relink(ms, j) ==
        LET ms1 == [ms EXCEPT ![ms[j].col].size = @ + 1]
            ms2 == [ms1 EXCEPT ![ms1[j].down].up = j]
        IN [ms2 EXCEPT ![ms2[j].up].down = j]
      RelinkRow(ms, row) == FoldLeft(Relink, ms, Ring(ms, row, row, "left"))
      ns1 == FoldLeft(RelinkRow, ns, Ring(ns, c, c, "up"))
      ns2 == [ns1 EXCEPT ![ns1[c].right].left = c]
  IN [ns2 EXCEPT ![ns2[c].left].right = c]

\* The first column with at most one row, or the first of the smallest ones.
get_min_column(ns) ==
  LET cs == Ring(ns, root_, root_, "right")
      Sufficient(k) == \A i \in DOMAIN cs : ns[cs[k]].size <= 1 \/ ns[cs[k]].size <= ns[cs[i]].size
  IN cs[CHOOSE k \in DOMAIN cs : Sufficient(k) /\ \A i \in 1..(k - 1) : ~ Sufficient(i)]

-----------------------------------------------------------------------------
Init ==
  /\ board \in Puzzles
  /\ nodes = Built(board)
  /\ frames = <<>> /\ stack_ = <<>> /\ todo = <<>> /\ pc = "solve"

Top == frames[Len(frames)]
Columns(row, link) ==
  LET ring == Ring(nodes, row, row, link) IN [k \in DOMAIN ring |-> nodes[ring[k]].col]

\* solve() finds no column left: the rows on the stack are the solution.
Solved ==
  /\ pc = "solve" /\ nodes[root_].left = root_
  /\ LET Names(n) == {nodes[m].name : m \in {n} \union ToSet(Ring(nodes, n, n, "right"))}
         Cell(n) == CHOOSE x \in Names(n) : x < kRow
         Val(n) == (CHOOSE x \in Names(n) : x >= kRow) % 10
     IN board' = [i \in Cells |->
          IF \E n \in ToSet(stack_) : Cell(n) = i
          THEN Val(CHOOSE n \in ToSet(stack_) : Cell(n) = i) ELSE board[i]]
  /\ pc' = "solved"
  /\ UNCHANGED <<nodes, frames, stack_, todo>>

\* solve() covers a column.
CoverColumn ==
  /\ pc = "solve" /\ nodes[root_].left # root_
  /\ LET col == get_min_column(nodes)
         covered == cover(nodes, col)
     IN /\ nodes' = covered
        /\ frames' = Append(frames, [col |-> col, row |-> covered[col].down, covered |-> covered])
  /\ pc' = "try"
  /\ UNCHANGED <<board, stack_, todo>>

\* It tries a row of it, and covers the other columns of the row one by one before
\* the recursive call.
TryRow ==
  /\ pc = "try" /\ Top.row # Top.col
  /\ stack_' = Append(stack_, Top.row)
  /\ todo' = Columns(Top.row, "right")
  /\ pc' = "cover"
  /\ UNCHANGED <<board, nodes, frames>>

CoverNext ==
  /\ pc = "cover"
  /\ nodes' = cover(nodes, Head(todo))
  /\ todo' = Tail(todo)
  /\ pc' = IF Len(todo) = 1 THEN "solve" ELSE "cover"
  /\ UNCHANGED <<board, frames, stack_>>

\* No row of the column works: it is uncovered, and the caller takes its row back,
\* uncovering its columns in the opposite order.
GiveUp ==
  /\ pc = "try" /\ Top.row = Top.col
  /\ nodes' = uncover(nodes, Top.col)
  /\ frames' = Front(frames)
  /\ pc' = IF Len(frames) = 1 THEN "nosolution" ELSE "return"
  /\ UNCHANGED <<board, stack_, todo>>

TakeBack ==
  /\ pc = "return"
  /\ stack_' = Front(stack_)
  /\ todo' = Columns(Top.row, "left")
  /\ pc' = "uncover"
  /\ UNCHANGED <<board, nodes, frames>>

UncoverNext ==
  /\ pc = "uncover"
  /\ nodes' = uncover(nodes, Head(todo))
  /\ todo' = Tail(todo)
  /\ IF Len(todo) = 1
     THEN pc' = "try" /\ frames' = [frames EXCEPT ![Len(frames)].row = nodes[@].down]
     ELSE UNCHANGED <<pc, frames>>
  /\ UNCHANGED <<board, stack_>>

Next == Solved \/ CoverColumn \/ TryRow \/ CoverNext \/ GiveUp \/ TakeBack \/ UncoverNext

Spec == Init /\ [][Next]_vars

-----------------------------------------------------------------------------
TypeOK ==
  /\ board \in [Cells -> 0..N]
  /\ pc \in {"solve", "try", "cover", "return", "uncover", "solved", "nosolution"}
  /\ Len(stack_) <= kCells

\* uncover() undoes cover(): when the search comes back to a column, the links of
\* all the nodes and the sizes of the columns are those it left.
LinksRestored ==
  /\ pc = "try" => nodes = Top.covered
  /\ pc = "nosolution" => nodes = Built(board)

\* The size of a column is the number of its rows, so the smallest column really
\* is the smallest.
SizesRight ==
  \A c \in ToSet(Ring(nodes, root_, root_, "right")) : nodes[c].size = Len(Ring(nodes, c, c, "down"))

Valid(b) == \A i, j \in Cells :
  i # j /\ b[i] = b[j] => RowOf(i) # RowOf(j) /\ ColOf(i) # ColOf(j) /\ BoxOf(i) # BoxOf(j)

\* The board that solve() fills in is a solution, and it says there is none only if
\* no way to fill in the empty cells is one, for boards with conflicts too.
SolvedRight ==
  /\ pc = "solved" => board \in [Cells -> 1..N] /\ Valid(board)
  /\ pc = "nosolution" =>
       LET Empty == {i \in Cells : board[i] = 0}
       IN \A f \in [Empty -> 1..N] : ~ Valid([i \in Cells |-> IF i \in Empty THEN f[i] ELSE board[i]])

-----------------------------------------------------------------------------
(***************************************************************************)
(* The clients of examples/sudoku: batch.cc sends all its requests at once, *)
(* pipeline.cc keeps some of them in flight, loadtest.cc sends them at a    *)
(* rate; the latter two report percentiles of the latencies (percentile.h). *)
(* The server answers in any order.  An answer is kLine bytes long, as long *)
(* as the clients wait for, or one byte if it has no solution in it.        *)
(***************************************************************************)

CONSTANTS kLine,                  \* kCells + 2 bytes
          pipelines_, InputSize,  \* of pipeline.cc and of batch.cc
          rps, kHz,               \* of loadtest.cc
          MaxRequests, MaxTicks, Latencies, Interval

VARIABLES mode, conn_, count_, sendTime_, latencies_,
          unanswered,             \* the requests the server has not answered
          stream, arrived,        \* answers not handled, and their bytes that are here
          responses, done, ticks_, sofar_, report
clientVars == <<mode, conn_, count_, sendTime_, latencies_, unanswered, stream, arrived, responses,
                done, ticks_, sofar_, report>>

NoReport == [data |-> <<>>, infly |-> 0, ranks |-> <<>>, buckets |-> <<>>]

ClientInit ==
  /\ mode \in {"batch", "pipeline", "loadtest"}
  /\ conn_ = "connecting" /\ count_ = 0 /\ sendTime_ = {} /\ latencies_ = <<>>
  /\ unanswered = {} /\ stream = <<>> /\ arrived = 0
  /\ responses = 0 /\ done = 0 /\ ticks_ = 0 /\ sofar_ = 0
  /\ report = NoReport

-----------------------------------------------------------------------------
Ids(n) == count_..(count_ + n - 1)

\* send() of n requests.
send(n) ==
  /\ count_' = count_ + n
  /\ sendTime_' = sendTime_ \union Ids(n)
  /\ unanswered' = unanswered \union Ids(n)

batchOnConnection ==
  /\ mode = "batch" /\ conn_ = "connecting"
  /\ conn_' = "up" /\ send(InputSize)
  /\ UNCHANGED <<mode, latencies_, stream, arrived, responses, done, ticks_, sofar_, report>>

onConnection ==
  /\ mode # "batch" /\ conn_ = "connecting"
  /\ conn_' = "up"
  /\ IF mode = "pipeline" THEN send(pipelines_)
     ELSE UNCHANGED <<count_, sendTime_, unanswered>>
  /\ UNCHANGED <<mode, latencies_, stream, arrived, responses, done, ticks_, sofar_, report>>

onConnectionDown ==
  /\ conn_ = "up"
  /\ conn_' = "down"
  /\ UNCHANGED <<mode, count_, sendTime_, latencies_, unanswered, stream, arrived, responses, done,
                 ticks_, sofar_, report>>

\* The server answers a request, and the bytes arrive in any portions.
ServerAnswers(id, len) ==
  /\ stream' = Append(stream, [id |-> id, len |-> len])
  /\ unanswered' = unanswered \ {id}
  /\ UNCHANGED <<mode, conn_, count_, sendTime_, latencies_, arrived, responses, done, ticks_, sofar_,
                 report>>

Bytes == FoldLeft(LAMBDA n, a : n + a.len, 0, stream)

BytesArrive ==
  /\ conn_ = "up"
  /\ arrived < Bytes
  /\ arrived' \in (arrived + 1)..Bytes
  /\ UNCHANGED <<mode, conn_, count_, sendTime_, latencies_, unanswered, stream, responses, done, ticks_,
                 sofar_, report>>

\* The loop of onMessage() goes on while a whole line may be there, and is.
HasLine == stream # <<>> /\ arrived >= kLine /\ arrived >= Head(stream).len

\* A round of the loop takes the line; verify() finds that the request is no longer
\* in flight.
TakeLine ==
  /\ conn_ = "up" /\ HasLine
  /\ stream' = Tail(stream)
  /\ arrived' = arrived - Head(stream).len
  /\ responses' = responses + 1
  /\ UNCHANGED <<mode, ticks_, sofar_, report>>

verify(latency) == latencies_' = Append(latencies_, latency) /\ UNCHANGED <<done, conn_>>

batchOnMessage ==
  /\ mode = "batch" /\ TakeLine
  /\ sendTime_' = sendTime_ \ {Head(stream).id}
  /\ LET last == responses + 1 = InputSize
     IN done' = (IF last THEN done + 1 ELSE done) /\ conn_' = (IF last THEN "shutdown" ELSE conn_)
  /\ UNCHANGED <<count_, unanswered, latencies_>>

\* Every answer makes pipeline.cc send another request.
pipelineOnMessage(latency) ==
  /\ mode = "pipeline" /\ TakeLine /\ verify(latency)
  /\ count_ < MaxRequests
  /\ count_' = count_ + 1
  /\ sendTime_' = (sendTime_ \ {Head(stream).id}) \union Ids(1)
  /\ unanswered' = unanswered \union Ids(1)

loadtestOnMessage(latency) ==
  /\ mode = "loadtest" /\ TakeLine /\ verify(latency)
  /\ sendTime_' = sendTime_ \ {Head(stream).id}
  /\ UNCHANGED <<count_, unanswered>>

\* SudokuLoadtest::tick().
tick ==
  /\ mode = "loadtest" /\ ticks_ < MaxTicks
  /\ ticks_' = ticks_ + 1
  /\ LET reqs == (rps * (ticks_ + 1)) \div kHz - sofar_
     IN /\ sofar_' = sofar_ + reqs
        /\ IF reqs > 0 /\ conn_ = "up" THEN send(reqs) ELSE UNCHANGED <<count_, sendTime_, unanswered>>
  /\ UNCHANGED <<mode, conn_, latencies_, stream, arrived, responses, done, report>>

\* getPercentile() of sorted latencies: nearest rank.
getPercentile(sorted, percent) ==
  IF percent > 0 THEN sorted[(Len(sorted) * percent + 99) \div 100] ELSE sorted[1]

\* Percentile::save(): one line for each bucket that is not empty.
Buckets(sorted) ==
  LET Low(x) == (x \div Interval) * Interval
      Line(lines, x) ==
        IF lines # <<>> /\ x < Last(lines).low + Interval
        THEN [lines EXCEPT ![Len(lines)].count = @ + 1]
        ELSE Append(lines, [low |-> Low(x), count |-> 1])
  IN FoldLeft(Line, <<>>, sorted)

Percentile(latencies, infly) ==
  LET sorted == SortSeq(latencies, <)
  IN [data |-> latencies, infly |-> infly, buckets |-> Buckets(sorted),
      ranks |-> [k \in {0, 50, 90, 99} |-> getPercentile(sorted, k)]]

\* Once a second.
Report ==
  /\ latencies_ # <<>>
  /\ latencies_' = <<>>
  /\ report' = Percentile(latencies_, Cardinality(sendTime_))
  /\ UNCHANGED <<mode, conn_, count_, sendTime_, unanswered, stream, arrived, responses, done, ticks_,
                 sofar_>>

pipelineReport == mode = "pipeline" /\ Report
tock == mode = "loadtest" /\ Report

ClientNext ==
  \/ batchOnConnection \/ onConnection \/ onConnectionDown
  \/ \E id \in unanswered, len \in {1, kLine} : ServerAnswers(id, len)
  \/ BytesArrive
  \/ batchOnMessage
  \/ \E latency \in Latencies : pipelineOnMessage(latency) \/ loadtestOnMessage(latency)
  \/ tick \/ tock \/ pipelineReport

ClientSpec == ClientInit /\ [][ClientNext]_clientVars

-----------------------------------------------------------------------------
ClientTypeOK ==
  /\ conn_ \in {"connecting", "up", "shutdown", "down"} /\ done \in 0..1
  /\ sendTime_ \subseteq 0..(count_ - 1) /\ arrived \in 0..Bytes

\* What is in flight is what was sent and not yet answered, whatever the order of
\* the answers and the portions they arrive in; pipeline.cc keeps pipelines_
\* requests in flight; loadtest.cc is never a whole request away from its rate;
\* batch.cc is done when all its requests are answered, never before.
InFlight ==
  /\ sendTime_ = unanswered \union {stream[i].id : i \in DOMAIN stream}
  /\ Cardinality(sendTime_) = count_ - responses
  /\ mode = "pipeline" /\ conn_ = "up" => Cardinality(sendTime_) = pipelines_
  /\ sofar_ * kHz <= rps * ticks_ /\ rps * ticks_ < (sofar_ + 1) * kHz
  /\ done = 1 => sendTime_ = {} /\ mode = "batch"

\* A percentile is the smallest latency that so many percent do not exceed; the
\* buckets count every latency once.
ReportRight ==
  LET data == report.data
      Among(p(_)) == Cardinality({i \in DOMAIN data : p(data[i])})
      Covers(v, k) == Among(LAMBDA x : x <= v) * 100 >= k * Len(data)
  IN /\ \A k \in DOMAIN report.ranks :
          /\ report.ranks[k] \in ToSet(data) /\ Covers(report.ranks[k], k)
          /\ \A v \in ToSet(data) : v < report.ranks[k] => ~ (Covers(v, k) /\ k > 0)
     /\ \A i \in DOMAIN report.buckets :
          LET b == report.buckets[i]
          IN b.count = Among(LAMBDA x : x >= b.low /\ x < b.low + Interval)
     /\ FoldLeft(LAMBDA n, b : n + b.count, 0, report.buckets) = Len(data)
==============================================================================
