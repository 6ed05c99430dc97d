-------------------------------- MODULE Ttcp --------------------------------
(***************************************************************************)
(* The throughput test of examples/ace/ttcp: a transmitter sends a session *)
(* message (number, length) and then number payloads of length bytes; the  *)
(* receiver acknowledges each payload with its length.  Either side comes  *)
(* in several programs that have to understand each other: the transmitter *)
(* with blocking calls or on muduo, the receiver with blocking calls (the  *)
(* socket API or asio::read), with asio's asynchronous reads, or on muduo. *)
(*                                                                         *)
(* An int32_t is kInt units on the wire, of its value each; a payload byte *)
(* is the unit Data.  A read takes any part of what has arrived.           *)
(***************************************************************************)
EXTENDS Integers, Sequences, SequencesExt

CONSTANTS kInt,          \* units of an int32_t
          Numbers,       \* the options -n and -l that are tried
          Lengths,
          TxKinds,       \* subset of {"blocking", "muduo"}
          RxKinds        \* subset of {"blocking", "async", "muduo"}

VARIABLES opt,           \* Options of the transmitter
          tx, rx,        \* state of the two programs
          toRx, toTx,    \* units on the wire; Eof is the closed end
          txBuf, rxBuf

vars == <<opt, tx, rx, toRx, toTx, txBuf, rxBuf>>

Data == -1
Eof == -2
Units(n, u) == [i \in 1..n |-> u]
Int32(n) == Units(kInt, n)
Garbage == -3
AsInt(s) == IF \A i \in 1..kInt : s[i] = s[1] THEN s[1] ELSE Garbage
Drop(s, n) == SubSeq(s, n + 1, Len(s))

sessionMessage == Int32(opt.number) \o Int32(opt.length)
payload == Int32(opt.length) \o Units(opt.length, Data)

Init ==
  /\ opt \in [number : Numbers, length : Lengths]
  /\ tx \in [kind : TxKinds, pc : {"connect"}, count : {0}]
  /\ rx \in [kind : RxKinds, pc : {"session"}, number : {0}, length : {0}, count : {0}]
  /\ toRx = <<>> /\ toTx = <<>> /\ txBuf = <<>> /\ rxBuf = <<>>

-----------------------------------------------------------------------------
(* What has arrived is the prefix s of a wire that a read returns. *)
Arrived(wire) == {SubSeq(wire, 1, k) : k \in 1..Len(wire)} \ {<<Eof>>}
Whole(s) == Eof \notin ToSet(s)

(* The transmitter connects, sends the session message and one payload. *)
onConnection ==
  /\ tx.pc = "connect" /\ tx.kind = "muduo"
  /\ toRx' = toRx \o sessionMessage \o payload
  /\ tx' = [tx EXCEPT !.count = 1, !.pc = "ack"]
  /\ UNCHANGED <<opt, rx, toTx, txBuf, rxBuf>>

transmit ==
  /\ tx.pc = "connect" /\ tx.kind = "blocking"
  /\ IF opt.number > 0
     THEN /\ toRx' = toRx \o sessionMessage \o payload
          /\ tx' = [tx EXCEPT !.count = 1, !.pc = "ack"]
     ELSE /\ toRx' = Append(toRx \o sessionMessage, Eof)
          /\ tx' = [tx EXCEPT !.pc = "closed"]
  /\ UNCHANGED <<opt, rx, toTx, txBuf, rxBuf>>

(* One acknowledgement: the next payload, or the end of the session.  The  *)
(* blocking program asserts the value, the muduo one shuts down.           *)
Acked(length) ==
  IF length = opt.length /\ tx.count < opt.number
  THEN /\ toRx' = toRx \o payload
       /\ tx' = [tx EXCEPT !.count = @ + 1]
  ELSE /\ toRx' = Append(toRx, Eof)
       /\ tx' = [tx EXCEPT !.pc = IF length = opt.length \/ tx.kind = "muduo"
                                  THEN "closed" ELSE "abort"]

(* read_n of the blocking transmitter takes part of an acknowledgement; an *)
(* end of file in it fails the assertion nr == sizeof(ack).                *)
txRead ==
  /\ tx.pc = "ack" /\ tx.kind = "blocking"
  /\ \E s \in Arrived(toTx) :
       /\ Whole(s) /\ Len(txBuf) + Len(s) <= kInt
       /\ toTx' = Drop(toTx, Len(s))
       /\ LET all == txBuf \o s
          IN  IF Len(all) = kInt
              THEN Acked(AsInt(all)) /\ txBuf' = <<>>
              ELSE txBuf' = all /\ UNCHANGED <<tx, toRx>>
  /\ UNCHANGED <<opt, rx, rxBuf>>

txEof ==
  /\ tx.pc = "ack" /\ toTx = <<Eof>> /\ Len(txBuf) < kInt
  /\ tx' = [tx EXCEPT !.pc = IF tx.kind = "muduo" THEN "closed" ELSE "abort"]
  /\ toTx' = <<>>
  /\ toRx' = Append(toRx, Eof)
  /\ UNCHANGED <<opt, rx, txBuf, rxBuf>>

(* trans::onMessage: the loop handles one whole acknowledgement at a time. *)
txOnMessage ==
  /\ tx.pc = "ack" /\ tx.kind = "muduo"
  /\ \/ /\ Len(txBuf) >= kInt
        /\ Acked(AsInt(txBuf))
        /\ txBuf' = Drop(txBuf, kInt)
        /\ UNCHANGED toTx
     \/ /\ Len(txBuf) < kInt
        /\ \E s \in Arrived(toTx) : Whole(s) /\ txBuf' = txBuf \o s
                                    /\ toTx' = Drop(toTx, Len(s))
        /\ UNCHANGED <<tx, toRx>>
  /\ UNCHANGED <<opt, rx, rxBuf>>

-----------------------------------------------------------------------------
(* The bytes the blocking and the asynchronous receiver wait for. *)
Wanted == CASE rx.pc = "session" -> 2 * kInt
            [] rx.pc = "length"  -> kInt
            [] rx.pc = "payload" -> rx.length
            [] OTHER             -> 0

(* After the acknowledgement: the blocking loop tests i < number before it *)
(* reads, the asynchronous one has read the first payload unconditionally. *)
NextPayload(count) == IF count < rx.number THEN "length" ELSE "closed"

(* What the two receivers do when all that is wanted has been read. *)
TakeSession(s) == [rx EXCEPT !.number = AsInt(s), !.length = AsInt(Drop(s, kInt)), !.pc = "length"]
TakeLength(s) == [rx EXCEPT !.pc = IF AsInt(s) = rx.length THEN "payload" ELSE "abort"]
Acknowledge ==
  /\ rx' = [rx EXCEPT !.count = @ + 1, !.pc = NextPayload(rx.count + 1)]
  /\ toTx' = toTx \o Int32(rx.length) \o (IF rx'.pc = "closed" THEN <<Eof>> ELSE <<>>)

receive(s) ==
  /\ rx.kind = "blocking"
  /\ \/ /\ rx.pc = "session"
        /\ rx' = [TakeSession(s) EXCEPT !.pc = IF AsInt(s) > 0 THEN "length" ELSE "closed"]
        /\ toTx' = IF rx'.pc = "closed" THEN Append(toTx, Eof) ELSE toTx
     \/ rx.pc = "length" /\ rx' = TakeLength(s) /\ UNCHANGED toTx
     \/ rx.pc = "payload" /\ Acknowledge

doReadSession(s) ==
  rx.kind = "async" /\ rx.pc = "session" /\ rx' = TakeSession(s) /\ UNCHANGED toTx
doReadLength(s) ==
  rx.kind = "async" /\ rx.pc = "length" /\ rx' = TakeLength(s) /\ UNCHANGED toTx
doReadPayload == rx.kind = "async" /\ rx.pc = "payload" /\ Acknowledge

Step(s) == receive(s) \/ doReadSession(s) \/ doReadLength(s) \/ doReadPayload

rxRead ==
  /\ rx.kind # "muduo"
  /\ rx.pc \in {"session", "length", "payload"}
  /\ \E s \in Arrived(toRx) \cup {<<>>} :
       LET all == rxBuf \o s IN
       /\ Whole(s) /\ Len(all) <= Wanted /\ (s = <<>> => Len(all) = Wanted)
       /\ toRx' = Drop(toRx, Len(s))
       /\ IF Len(all) = Wanted THEN Step(all) /\ rxBuf' = <<>>
          ELSE rxBuf' = all /\ UNCHANGED <<rx, toTx>>
  /\ UNCHANGED <<opt, tx, txBuf>>

(* One turn of the loop of receiving::onMessage on a buffer that is enough *)
(* for it.  The session is unknown while both its fields are zero.         *)
Unknown == rx.number = 0 /\ rx.length = 0
Enough == IF Unknown THEN 2 * kInt
          ELSE IF Len(rxBuf) >= kInt /\ AsInt(rxBuf) # rx.length THEN kInt
          ELSE kInt + rx.length

(* The receiver has used all that it can of what it has read. *)
Starved == IF rx.kind = "muduo" THEN Len(rxBuf) < Enough ELSE Len(rxBuf) < Wanted

(* An end of file before the next step: the programs report an error and exit. *)
rxEof ==
  /\ toRx = <<Eof>> /\ Starved
  /\ rx.pc \in {"session", "length", "payload"}
  /\ toRx' = <<>>
  /\ toTx' = Append(toTx, Eof)
  /\ rx' = [rx EXCEPT !.pc = IF rx.kind = "muduo" THEN "closed" ELSE "abort"]
  /\ UNCHANGED <<opt, tx, txBuf, rxBuf>>

rxLoop ==
  /\ Len(rxBuf) >= Enough
  /\ IF Unknown
     THEN /\ rx' = [rx EXCEPT !.number = AsInt(rxBuf), !.length = AsInt(Drop(rxBuf, kInt)),
                              !.pc = "length"]
          /\ rxBuf' = Drop(rxBuf, 2 * kInt)
          /\ UNCHANGED toTx
     ELSE IF AsInt(rxBuf) = rx.length
     THEN /\ rx' = [rx EXCEPT !.count = @ + 1, !.pc = NextPayload(rx.count + 1)]
          /\ rxBuf' = Drop(rxBuf, Enough)
          /\ toTx' = toTx \o Int32(rx.length) \o
                     (IF rx'.pc = "closed" THEN <<Eof>> ELSE <<>>)
     ELSE /\ rx' = [rx EXCEPT !.pc = "abort"]
          /\ toTx' = Append(toTx, Eof)
          /\ UNCHANGED rxBuf
  /\ UNCHANGED toRx

rxOnMessage ==
  /\ rx.kind = "muduo" /\ rx.pc \in {"session", "length"}
  /\ \/ rxLoop
     \/ /\ Len(rxBuf) < Enough
        /\ \E s \in Arrived(toRx) : Whole(s) /\ rxBuf' = rxBuf \o s
                                    /\ toRx' = Drop(toRx, Len(s))
        /\ UNCHANGED <<rx, toTx>>
  /\ UNCHANGED <<opt, tx, txBuf>>

(* Either program is interrupted: its end of the connection is closed. *)
txKilled ==
  /\ tx.pc = "ack"
  /\ tx' = [tx EXCEPT !.pc = "killed"] /\ toRx' = Append(toRx, Eof)
  /\ UNCHANGED <<opt, rx, toTx, txBuf, rxBuf>>
rxKilled ==
  /\ rx.pc \in {"length", "payload"}
  /\ rx' = [rx EXCEPT !.pc = "killed"] /\ toTx' = Append(toTx, Eof)
  /\ UNCHANGED <<opt, tx, toRx, txBuf, rxBuf>>

Next == \/ txKilled \/ rxKilled \/ onConnection \/ transmit
        \/ txRead \/ txEof \/ txOnMessage \/ rxRead \/ rxEof \/ rxOnMessage
Spec == Init /\ [][Next]_vars

-----------------------------------------------------------------------------
TypeOK ==
  /\ tx.pc \in {"connect", "ack", "closed", "abort", "killed"}
  /\ rx.pc \in {"session", "length", "payload", "closed", "abort", "killed"}
  /\ tx.count \in Nat /\ rx.count \in Nat
  /\ Len(rxBuf) <= 2 * (kInt + opt.length) + 2 * kInt

(* Whatever the fragmentation and whichever two programs talk, the         *)
(* receiver has understood the session, no length or acknowledgement       *)
(* assertion fails, the transmitter is at most one payload ahead, and both *)
(* have counted all the payloads when they close, unless the other one was *)
(* interrupted.                                                            *)
SessionAgrees ==
  /\ tx.pc = "abort" => rx.pc = "killed"
  /\ rx.pc = "abort" => tx.pc = "killed"
  /\ rx.pc \in {"length", "payload"} => rx.number = opt.number /\ rx.length = opt.length
  /\ tx.count - rx.count \in 0..1
  /\ tx.pc = "closed" /\ rx.pc # "killed" => tx.count = opt.number
  /\ rx.pc = "closed" /\ tx.pc # "killed" => rx.count = opt.number

(* The two never wait for each other: while one waits for bytes, bytes are *)
(* on their way or the other one has something to do.                      *)
NotStuck ==
  ~ /\ tx.pc = "ack" /\ toTx = <<>> /\ Len(txBuf) < kInt
    /\ rx.pc \in {"session", "length", "payload"} /\ toRx = <<>>
    /\ Starved
=============================================================================
