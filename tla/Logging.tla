------------------------------ MODULE Logging -------------------------------
(***************************************************************************)
(* The front end of the logging, then the files it and others use.         *)
(***************************************************************************)
EXTENDS Integers, Sequences, SequencesExt

-----------------------------------------------------------------------------
(***************************************************************************)
(* muduo/base/Logging.cc and LogStream.{h,cc}: one log statement of one    *)
(* thread after the other.  A Logger formats the time, which its thread    *)
(* keeps from the last statement of the same second, the level, what the   *)
(* statement inserts, the name of the file and the number of the line into *)
(* a FixedBuffer, and its destructor hands the buffer over, and ends the   *)
(* program after a FATAL one.                                              *)
(*                                                                         *)
(* Characters are strings of length one.  The time of a second, the name   *)
(* of the level with the thread id, the name of the file and the number of *)
(* the line are one character each; "Z" follows the time when no time zone *)
(* is set.  Integers have kBits bits.                                      *)
(***************************************************************************)

CONSTANTS Threads,
          SIZE,              \* of the FixedBuffer
          kMaxNumericSize,   \* space that must be left for a number
          kBits,
          Inserts,           \* what a statement may insert: sequences of items
          MaxSecond, MaxZones, MaxStatements

VARIABLES second,            \* the clock
          g_logTimeZone,     \* 0: not set, otherwise its number
          t_lastSecond, t_time,
          stream_,           \* data_ of the FixedBuffer, up to cur_
          items,             \* what is still to be inserted
          inserted,          \* the items that were inserted whole
          statements,
          lines,             \* what was handed to g_output
          flushed,           \* how many of them g_flush has written
          aborted

vars == <<second, g_logTimeZone, t_lastSecond, t_time, stream_, items, inserted, statements,
          lines, flushed, aborted>>

Idle(t) == stream_[t] = <<>>
NewLine == "n"
digits == <<"0", "1", "2", "3", "4", "5", "6", "7", "8", "9", "A", "B", "C", "D", "E", "F">>

Init ==
  /\ second = 1 /\ g_logTimeZone = 0
  /\ t_lastSecond = [t \in Threads |-> 0] /\ t_time = [t \in Threads |-> <<0, 0>>]
  /\ stream_ = [t \in Threads |-> <<>>] /\ items = [t \in Threads |-> <<>>]
  /\ inserted = [t \in Threads |-> <<>>] /\ statements = 0 /\ lines = <<>>
  /\ flushed = 0 /\ aborted = FALSE

-----------------------------------------------------------------------------
(* FixedBuffer::append(): all of it, or nothing if it would fill the buffer. *)
Avail(data) == SIZE - Len(data)
append(data, text) == IF Avail(data) > Len(text) THEN data \o text ELSE data

(* convert(): digits from the least significant one, by C's remainder,     *)
(* which is negative for a negative value; then the sign; then reversed.   *)
Magnitude(i) == IF i < 0 THEN -i ELSE i
Ints == -(2 ^ (kBits - 1))..(2 ^ kBits - 1)
Reversed[i \in Ints, base \in {10, 16}] ==
  LET lsd == Magnitude(i) % base
      rest == IF i < 0 THEN -(Magnitude(i) \div base) ELSE i \div base
  IN  <<digits[lsd + 1]>> \o (IF rest = 0 THEN <<>> ELSE Reversed[rest, base])
convert(value) == Reverse(Reversed[value, 10] \o (IF value < 0 THEN <<"-">> ELSE <<>>))
convertHex(value) == <<"0", "x">> \o Reverse(Reversed[value, 16])

(* formatInteger() and the operator for pointers write to the buffer       *)
(* itself, the terminating zero included, and then move cur_.              *)
formatInteger(data, text) == IF Avail(data) >= kMaxNumericSize THEN data \o text ELSE data

Text(item) == CASE item.op = "int" -> convert(item.value)
                [] item.op = "pointer" -> convertHex(item.value)
                [] item.op = "text" -> [i \in 1..item.value |-> "t"]
Inserted(data, item) ==
  IF item.op = "text" THEN append(data, Text(item)) ELSE formatInteger(data, Text(item))

-----------------------------------------------------------------------------
(* formatTime(): t_time is the second as the zone showed it when this      *)
(* thread last formatted one.                                              *)
formatTime(t) ==
  /\ t_lastSecond' = [t_lastSecond EXCEPT ![t] = second]
  /\ t_time' = [t_time EXCEPT ![t] = IF second # t_lastSecond[t]
                                     THEN <<second, g_logTimeZone>> ELSE @]

Logger(t) ==
  /\ Idle(t) /\ statements < MaxStatements
  /\ formatTime(t)
  /\ \E s \in Inserts : items' = [items EXCEPT ![t] = s]
  /\ \E level \in {"level", "FATAL"} : stream_' = [stream_ EXCEPT ![t] =
       append(append(append(<<>>, <<"time">>), IF g_logTimeZone = 0 THEN <<"Z">> ELSE <<>>),
              <<level>>)]
  /\ inserted' = [inserted EXCEPT ![t] = <<>>]
  /\ statements' = statements + 1
  /\ UNCHANGED <<second, g_logTimeZone, lines, flushed, aborted>>

Insert(t) ==
  /\ ~Idle(t) /\ items[t] # <<>>
  /\ LET data == Inserted(stream_[t], Head(items[t]))
     IN  /\ stream_' = [stream_ EXCEPT ![t] = data]
         /\ inserted' = [inserted EXCEPT ![t] =
              IF data = stream_[t] THEN @ ELSE Append(@, Head(items[t]))]
  /\ items' = [items EXCEPT ![t] = Tail(@)]
  /\ UNCHANGED <<second, g_logTimeZone, t_lastSecond, t_time, statements, lines, flushed,
                 aborted>>

(* finish(): the number of the line may find no room where ':' did. *)
finish(data) ==
  append(formatInteger(append(append(append(data, <<" - ">>), <<"file">>), <<":">>), <<"line">>),
         <<NewLine>>)

Fatal(t) == "FATAL" \in ToSet(stream_[t])
Flushing == <<"flush">>

(* ~Logger(): finish() and g_output(), and for a FATAL statement g_flush() *)
(* and abort().                                                            *)
DestroyLogger(t) ==
  /\ stream_[t] \notin {<<>>, Flushing} /\ items[t] = <<>>
  /\ lines' = Append(lines, [time |-> t_time[t], text |-> finish(stream_[t]),
                             items |-> inserted[t], second |-> t_lastSecond[t]])
  /\ stream_' = [stream_ EXCEPT ![t] = IF Fatal(t) THEN Flushing ELSE <<>>]
  /\ UNCHANGED <<second, g_logTimeZone, t_lastSecond, t_time, items, inserted, statements,
                 flushed, aborted>>

FlushAndAbort(t) ==
  /\ stream_[t] = Flushing
  /\ flushed' = Len(lines) /\ aborted' = TRUE
  /\ UNCHANGED <<second, g_logTimeZone, t_lastSecond, t_time, stream_, items, inserted,
                 statements, lines>>

setTimeZone ==
  /\ g_logTimeZone < MaxZones /\ g_logTimeZone' = g_logTimeZone + 1
  /\ UNCHANGED <<second, t_lastSecond, t_time, stream_, items, inserted, statements, lines, flushed,
                 aborted>>

ClockMoves ==
  /\ second < MaxSecond /\ second' = second + 1
  /\ UNCHANGED <<g_logTimeZone, t_lastSecond, t_time, stream_, items, inserted, statements,
                 lines, flushed, aborted>>

Next == ~aborted /\
        (\/ setTimeZone \/ ClockMoves
         \/ \E t \in Threads : \/ Logger(t) \/ Insert(t)
                               \/ DestroyLogger(t) \/ FlushAndAbort(t))

Spec == Init /\ [][Next]_vars

-----------------------------------------------------------------------------
TypeOK == /\ second \in 1..MaxSecond /\ g_logTimeZone \in 0..MaxZones
          /\ \A t \in Threads : t_lastSecond[t] \in 0..second

NumbersFit == \A v \in Ints : /\ Len(convert(v)) + 1 <= kMaxNumericSize
                              /\ v >= 0 => Len(convertHex(v)) + 1 <= kMaxNumericSize

(* Nothing is written past the end of data_: a text leaves a byte, and a   *)
(* number with the terminating zero of its conversion fits in what must be *)
(* left for it, whatever its value.                                        *)
BufferBounded == NumbersFit /\ \A t \in Threads : Len(stream_[t]) < SIZE

DigitOf(c) == CHOOSE i \in 0..15 : digits[i + 1] = c
Value(s, base) == FoldLeft(LAMBDA n, c : n * base + DigitOf(c), 0, s)

(* The text of a number reads back as that number, down to the least one,  *)
(* whose negation does not exist in its type, and has no leading zero.     *)
NumbersReadBack ==
  \A v \in Ints :
    LET s == convert(v)
        abs == IF v < 0 THEN Tail(s) ELSE s
    IN  /\ Value(abs, 10) = Magnitude(v) /\ (v < 0) = (s[1] = "-")
        /\ Len(abs) > 1 => abs[1] # "0"
        /\ v >= 0 => Value(SubSeq(convertHex(v), 3, Len(convertHex(v))), 16) = v

Fixed == {"time", "Z", "level", "FATAL", " - ", "file", ":", "line", NewLine}
Flat(ss) == FoldLeft(LAMBDA a, b : a \o b, <<>>, ss)

(* A line that is handed over consists of whole items in their order, with *)
(* the time of the second in which its statement began; an item for which  *)
(* the buffer has no room is left out, and so may the line number and the  *)
(* newline be.  The statement that ends the program has been flushed.      *)
LinesWhole ==
  /\ aborted => \E i \in 1..flushed : "FATAL" \in ToSet(lines[i].text)
  /\ \A i \in 1..Len(lines) :
    LET l == lines[i]
        body == SelectSeq(l.text, LAMBDA c : c \notin Fixed)
    IN  body = Flat([j \in 1..Len(l.items) |-> Text(l.items[j])]) /\ l.time[1] = l.second

-----------------------------------------------------------------------------
(***************************************************************************)
(* muduo/base/FileUtil.cc: an AppendFile that is written while another     *)
(* process reads the file with ReadSmallFile, whose readToString() takes   *)
(* several read() calls.  A byte is a number; fwrite() and read() may do   *)
(* less than they are asked for, or fail.                                  *)
(***************************************************************************)

CONSTANTS kFileBuffer,   \* size of AppendFile's buffer_
          kBufferSize,   \* size of ReadSmallFile's buf_
          MaxSizes,      \* what readToString() is called with
          Lines,         \* lengths of appended lines
          MaxBytes

VARIABLES file,          \* the bytes in the file
          buffer_,       \* written, but not flushed
          writtenBytes_, next,
          logline,       \* what append() still has to write
          lost,          \* bytes a failing write dropped
          rpc, maxSize, content, err, size, atEof

writer == <<buffer_, writtenBytes_, next, logline, lost>>
reader == <<rpc, maxSize, content, err, size, atEof>>
fileVars == <<file, writer, reader>>

Interval(a, b) == [i \in 1..(b - a + 1) |-> a + i - 1]
Least(a, b) == IF a < b THEN a ELSE b
From(s, i) == SubSeq(s, i, Len(s))

FileInit ==
  /\ file = <<>> /\ buffer_ = <<>> /\ writtenBytes_ = 0 /\ next = 1 /\ logline = <<>>
  /\ lost = {} /\ rpc = "idle" /\ maxSize = 0 /\ content = <<>> /\ err = FALSE /\ size = -1
  /\ atEof = FALSE

-----------------------------------------------------------------------------
appendToFile(len) ==
  /\ logline = <<>> /\ next + len <= MaxBytes + 1
  /\ logline' = Interval(next, next + len - 1) /\ next' = next + len
  /\ UNCHANGED <<file, buffer_, writtenBytes_, lost, reader>>

(* fwrite_unlocked(): the first n bytes; buffer_ overflows into the file.  *)
(* When all of the line is out, or nothing more goes, append() returns.    *)
write(n) ==
  /\ logline # <<>> /\ n \in 1..Len(logline)
  /\ LET all == buffer_ \o SubSeq(logline, 1, n)
     IN  IF Len(all) < kFileBuffer
         THEN buffer_' = all /\ UNCHANGED file
         ELSE \E k \in (Len(all) - kFileBuffer + 1)..Len(all) :
                file' = file \o SubSeq(all, 1, k) /\ buffer_' = From(all, k + 1)
  /\ logline' = From(logline, n + 1)
  /\ writtenBytes_' = IF logline' = <<>> THEN next - 1 ELSE writtenBytes_
  /\ UNCHANGED <<next, lost, reader>>

writeFails ==
  /\ logline # <<>>
  /\ lost' = lost \cup ToSet(logline) /\ logline' = <<>>
  /\ writtenBytes_' = next - 1       \* += len, whatever was written
  /\ UNCHANGED <<file, buffer_, next, reader>>

flush ==
  /\ logline = <<>> /\ buffer_ # <<>>
  /\ file' = file \o buffer_ /\ buffer_' = <<>>
  /\ UNCHANGED <<writtenBytes_, next, logline, lost, reader>>

-----------------------------------------------------------------------------
(* readFile(): open and fstat(), then the loop of readToString(), which is *)
(* entered even when fstat() failed or found a directory.                  *)
readFile(n) ==
  /\ rpc = "idle"
  /\ rpc' = "read" /\ maxSize' = n /\ content' = <<>> /\ atEof' = FALSE
  /\ err' \in BOOLEAN /\ size' = IF err' THEN -1 ELSE Len(file)
  /\ UNCHANGED <<file, writer>>

openFails ==
  /\ rpc = "idle" /\ rpc' = "done" /\ err' = TRUE
  /\ content' = <<>> /\ atEof' = FALSE /\ size' = -1 /\ maxSize' = 0
  /\ UNCHANGED <<file, writer>>

readToString ==
  /\ rpc = "read" /\ Len(content) < maxSize
  /\ LET toRead == Least(maxSize - Len(content), kBufferSize)
         there == Least(toRead, Len(file) - Len(content))
     IN  \/ /\ there > 0
            /\ \E n \in 1..there :
                 content' = content \o SubSeq(file, Len(content) + 1, Len(content) + n)
            /\ UNCHANGED <<rpc, err, atEof>>
         \/ there = 0 /\ rpc' = "done" /\ atEof' = TRUE /\ UNCHANGED <<content, err>>
         \/ rpc' = "done" /\ err' = TRUE /\ UNCHANGED <<content, atEof>>
  /\ UNCHANGED <<file, writer, maxSize, size>>

readDone ==
  /\ rpc = "read" /\ Len(content) >= maxSize /\ rpc' = "done"
  /\ UNCHANGED <<file, writer, maxSize, content, err, size, atEof>>

(* readToBuffer(): one pread() of what fits with the terminating zero. *)
readToBuffer ==
  /\ rpc = "idle" /\ rpc' = "done" /\ maxSize' = kBufferSize - 1
  /\ LET there == Least(kBufferSize - 1, Len(file))
     IN  \/ /\ content' = SubSeq(file, 1, there) /\ size' = there
            /\ atEof' = (there < kBufferSize - 1) /\ err' = FALSE
         \/ err' = TRUE /\ content' = <<>> /\ size' = -1 /\ atEof' = FALSE
  /\ UNCHANGED <<file, writer>>

FileNext == \/ \E n \in Lines : appendToFile(n)
            \/ \E n \in 1..MaxBytes : write(n)
            \/ writeFails \/ flush \/ openFails \/ readToString \/ readDone \/ readToBuffer
            \/ \E n \in MaxSizes : readFile(n)

FileSpec == FileInit /\ [][FileNext]_fileVars

-----------------------------------------------------------------------------
FileTypeOK == /\ rpc \in {"idle", "read", "done"} /\ Len(buffer_) < kFileBuffer
              /\ writtenBytes_ \in 0..MaxBytes /\ err \in BOOLEAN

(* Of lines that were appended nothing is missing, doubled or out of order *)
(* but the rest of a line whose write failed, and writtenBytes_, by which  *)
(* LogFile rolls, counts the bytes in the file, the buffer and the lost.   *)
NothingLost ==
  LET all == file \o buffer_
  IN  /\ ToSet(all) \cup lost \cup ToSet(logline) = 1..(next - 1)
      /\ \A i \in 1..(Len(all) - 1) : all[i] < all[i + 1]
      /\ lost \cap (ToSet(all) \cup ToSet(logline)) = {}
      /\ logline = <<>> => writtenBytes_ = next - 1

(* What is read is the start of the file, never more than asked for, and   *)
(* short of that only at an end the file had during the reading or with an *)
(* error; when the file does not grow it is all that fits.                 *)
ReadsPrefix ==
  /\ IsPrefix(content, file) /\ Len(content) <= maxSize
  /\ rpc = "done" /\ ~err => Len(content) = maxSize \/ atEof
  /\ rpc = "done" /\ ~err => Len(content) >= Least(maxSize, size)
=============================================================================
