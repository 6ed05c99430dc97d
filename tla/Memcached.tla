------------------------------ MODULE Memcached ------------------------------
(***************************************************************************)
(* The memcached server of examples/memcached/server.  Each Session parses  *)
(* the bytes of one connection in the connection's own I/O thread; the      *)
(* sessions share the items of a MemcacheServer, whose operations hold the  *)
(* lock of the shard.  A step is one round of the loop in onMessage(), or   *)
(* one key of a "get": between two of them the other threads may run.       *)
(*                                                                          *)
(* A request line is one token, and so is each byte of a value.             *)
(***************************************************************************)
EXTENDS Integers, Sequences, FiniteSets, SequencesExt, TLC

CONSTANTS Sessions,
          Clients,       \* what the clients may send, and the replies they are owed
          kMaxLine,      \* readable bytes without a line end that end a session
          kMaxValue      \* the largest value that is stored

VARIABLES client, input, buf, state_, command_, noreply_, currItem_, bytesToDiscard_, keys, outputBuf_,
          conn, out, items, g_cas, stopping
vars == <<client, input, buf, state_, command_, noreply_, currItem_, bytesToDiscard_, keys, outputBuf_,
          conn, out, items, g_cas, stopping>>

CR == [t |-> "cr"]
LF == [t |-> "lf"]
Updates == {"set", "add", "replace", "append", "prepend", "cas"}
NoItem == [key |-> "", value |-> <<>>, needed |-> 0, cas |-> 0]
NoLine == [t |-> "line", command |-> "", keys |-> <<>>, bytes |-> 0, cas |-> 0, noreply |-> FALSE,
           b |-> 0]

Init ==
  /\ client \in Clients
  /\ input = [s \in Sessions |-> client[s].sends]
  /\ buf = [s \in Sessions |-> <<>>]
  /\ state_ = [s \in Sessions |-> "kNewCommand"]
  /\ command_ = [s \in Sessions |-> NoLine]
  /\ noreply_ = [s \in Sessions |-> FALSE]
  /\ currItem_ = [s \in Sessions |-> NoItem]
  /\ bytesToDiscard_ = [s \in Sessions |-> 0]
  /\ keys = [s \in Sessions |-> <<>>]
  /\ outputBuf_ = [s \in Sessions |-> <<>>]
  /\ conn = [s \in Sessions |-> "connected"]
  /\ out = [s \in Sessions |-> <<>>]
  /\ items = <<>> /\ g_cas = 0
  /\ stopping = FALSE

-----------------------------------------------------------------------------
(* Item and MemcacheServer *)

makeItem(line) ==
  [key |-> Head(line.keys), value |-> <<>>, needed |-> line.bytes + 2, cas |-> line.cas]

endsWithCRLF(item) ==
  LET n == Len(item.value) IN
  item.needed = 0 /\ n >= 2 /\ item.value[n - 1] = CR /\ item.value[n] = LF

append(item, data) == [item EXCEPT !.value = @ \o data, !.needed = @ - Len(data)]

output(outputBuf, item) ==
  Append(outputBuf, [key |-> item.key, value |-> item.value, cas |-> item.cas])

WithoutCRLF(value) == SubSeq(value, 1, Len(value) - 2)

\* Whether storeItem() takes the item, under the policy of the command.
Accepts(policy, item) ==
  LET exists == item.key \in DOMAIN items IN
  CASE policy = "set" -> TRUE
    [] policy = "add" -> ~ exists
    [] policy \in {"replace", "append", "prepend"} -> exists
    [] policy = "cas" -> exists /\ items[item.key].cas = item.cas

\* Mutant of Stored: the CRLF that ends the old value stays in the middle.
StoredKeepsCRLF(policy, item) ==
  [item EXCEPT !.cas = g_cas + 1,
               !.value = IF policy = "append" THEN items[item.key].value \o @ ELSE @]

\* Mutant of Stored: the item keeps the number that its command named.
StoredSameCas(policy, item) == item

Stored(policy, item) ==
  LET old == items[item.key].value IN
  [item EXCEPT !.cas = g_cas + 1,
               !.value = CASE policy = "append" -> WithoutCRLF(old) \o @
                           [] policy = "prepend" -> WithoutCRLF(@) \o old
                           [] OTHER -> @]

storeItem(policy, item) ==
  IF Accepts(policy, item)
  THEN /\ g_cas' = g_cas + 1
       /\ items' = (item.key :> Stored(policy, item)) @@ items
  ELSE UNCHANGED <<items, g_cas>>

deleteItem(key) == items' = [k \in DOMAIN items \ {key} |-> items[k]]

-----------------------------------------------------------------------------
(* Session *)

\* Mutant of findCRLF: the CR is taken for the whole of it.
findCR(b) ==
  LET ends == {i \in 1..Len(b) : b[i] = CR} IN
  IF ends = {} THEN 0 ELSE CHOOSE i \in ends : \A j \in ends : i <= j

findCRLF(b) ==
  LET ends == {i \in 1..(Len(b) - 1) : b[i] = CR /\ b[i + 1] = LF} IN
  IF ends = {} THEN 0 ELSE CHOOSE i \in ends : \A j \in ends : i <= j

\* Whether the loop in onMessage() has another round.
Loops(s, b) ==
  \/ command_[s].command = "get"
  \/ b # <<>> /\ (state_[s] = "kNewCommand" => findCRLF(b) # 0)

\* Whether its last round finds a line that is too long.
GivesUp(s) == ~ Loops(s, buf[s]) /\ Len(buf[s]) > kMaxLine /\ conn[s] = "connected"

\* onMessage() is called with more bytes.
onMessage(s) ==
  /\ conn[s] # "down" /\ ~ Loops(s, buf[s]) /\ ~ GivesUp(s)
  /\ \E n \in 1..Len(input[s]) :
       /\ buf' = [buf EXCEPT ![s] = @ \o SubSeq(input[s], 1, n)]
       /\ input' = [input EXCEPT ![s] = SubSeq(@, n + 1, Len(@))]
  /\ UNCHANGED <<client, state_, command_, noreply_, currItem_, bytesToDiscard_, keys, outputBuf_,
                 conn, out, items, g_cas, stopping>>

\* The last round, with the first bytes of a call or after the requests before them.
giveUp(s) ==
  /\ GivesUp(s)
  /\ conn' = [conn EXCEPT ![s] = "disconnecting"]
  /\ UNCHANGED <<client, input, buf, state_, command_, noreply_, currItem_, bytesToDiscard_, keys,
                 outputBuf_, out, items, g_cas, stopping>>

\* conn_->send() drops what is sent after a shutdown().
send(s, line, r, values) ==
  out' = IF conn[s] = "connected"
         THEN [out EXCEPT ![s] = Append(@, [line |-> line, reply |-> r, values |-> values])]
         ELSE out

reply(s, line, r) == IF line.noreply THEN UNCHANGED out ELSE send(s, line, r, <<>>)

\* Mutant of resetRequest: noreply_ stays for the next request.
resetRequestKeepsNoreply(s) ==
  /\ command_' = [command_ EXCEPT ![s] = NoLine]
  /\ currItem_' = [currItem_ EXCEPT ![s] = NoItem]
  /\ bytesToDiscard_' = [bytesToDiscard_ EXCEPT ![s] = 0]
  /\ UNCHANGED noreply_

\* The end of a request: resetRequest().
resetRequest(s) ==
  /\ command_' = [command_ EXCEPT ![s] = NoLine]
  /\ noreply_' = [noreply_ EXCEPT ![s] = FALSE]
  /\ currItem_' = [currItem_ EXCEPT ![s] = NoItem]
  /\ bytesToDiscard_' = [bytesToDiscard_ EXCEPT ![s] = 0]

\* The value follows: of an item to fill, or to skip when it is too large.  What
\* was stored under the key of a large one is gone.
doUpdate(s, line) ==
  /\ command_' = [command_ EXCEPT ![s] = line]
  /\ noreply_' = [noreply_ EXCEPT ![s] = line.noreply]
  /\ IF line.bytes > kMaxValue
     THEN /\ reply(s, line, "SERVER_ERROR")
          /\ deleteItem(Head(line.keys))
          /\ bytesToDiscard_' = [bytesToDiscard_ EXCEPT ![s] = line.bytes + 2]
          /\ state_' = [state_ EXCEPT ![s] = "kDiscardValue"]
          /\ UNCHANGED currItem_
     ELSE /\ currItem_' = [currItem_ EXCEPT ![s] = makeItem(line)]
          /\ state_' = [state_ EXCEPT ![s] = "kReceiveValue"]
          /\ UNCHANGED <<out, items, bytesToDiscard_>>
  /\ UNCHANGED <<keys, outputBuf_, conn, g_cas, stopping>>

doDelete(s, line) ==
  /\ reply(s, line,
           IF Head(line.keys) \in DOMAIN items THEN "DELETED" ELSE "NOT_FOUND")
  /\ deleteItem(Head(line.keys))
  /\ resetRequest(s)
  /\ UNCHANGED <<state_, keys, outputBuf_, conn, g_cas, stopping>>

\* kLongestKeySize.
TooLong(line) == Head(line.keys) = "long"

\* The line read up to the CRLF; what follows a value of the wrong length is part
\* of it, and makes the command unknown.
Request(b, n) ==
  LET whole == SubSeq(b, 1, n - 1)
      end == IF whole = <<>> THEN NoLine ELSE whole[n - 1] IN
  IF n = 2 /\ end.t = "line" THEN end
  ELSE [NoLine EXCEPT !.noreply = end.t = "line" /\ end.noreply]

\* The requests that end where they are read: each has its reply.
Finish(s, line, r) ==
  /\ reply(s, line, r)
  /\ resetRequest(s)
  /\ UNCHANGED <<state_, keys, outputBuf_, conn, items, g_cas, stopping>>

processRequest(s) ==
  /\ command_[s] = NoLine /\ state_[s] = "kNewCommand" /\ Loops(s, buf[s])
  /\ LET n == findCRLF(buf[s])
         line == Request(buf[s], n) IN
     /\ buf' = [buf EXCEPT ![s] = SubSeq(@, n + 2, Len(@))]
     /\ CASE line.command \in Updates ->
               IF TooLong(line) THEN Finish(s, line, "CLIENT_ERROR") ELSE doUpdate(s, line)
          [] line.command = "get" ->
               /\ keys' = [keys EXCEPT ![s] = line.keys]
               /\ command_' = [command_ EXCEPT ![s] = line]
               /\ noreply_' = [noreply_ EXCEPT ![s] = line.noreply]
               /\ UNCHANGED <<state_, currItem_, bytesToDiscard_, outputBuf_, conn, out, items,
                              g_cas, stopping>>
          [] line.command = "delete" ->
               IF TooLong(line) THEN Finish(s, line, "CLIENT_ERROR") ELSE doDelete(s, line)
          [] line.command \in {"quit", "shutdown"} ->
               /\ conn' = [conn EXCEPT ![s] = "disconnecting"]
               /\ stopping' = (stopping \/ line.command = "shutdown")
               /\ resetRequest(s)
               /\ UNCHANGED <<state_, keys, outputBuf_, out, items, g_cas>>
          [] OTHER -> Finish(s, line, IF line.command = "version" THEN "VERSION" ELSE "ERROR")
  /\ UNCHANGED <<client, input>>

\* One round of the loop over the keys of a "get": the item is found under the lock
\* of its shard.  A key that is too long ends the request and leaves in outputBuf_
\* the items found before it.
getItem(s) ==
  /\ keys[s] # <<>>
  /\ LET k == Head(keys[s]) IN
     IF k = "long"
     THEN /\ reply(s, command_[s], "CLIENT_ERROR")
          /\ keys' = [keys EXCEPT ![s] = <<>>]
          /\ resetRequest(s)
          /\ UNCHANGED outputBuf_
     ELSE /\ outputBuf_' = [outputBuf_ EXCEPT ![s] =
               IF k \in DOMAIN items THEN output(@, items[k]) ELSE @]
          /\ keys' = [keys EXCEPT ![s] = Tail(@)]
          /\ UNCHANGED <<command_, noreply_, currItem_, bytesToDiscard_, out>>
  /\ UNCHANGED <<client, input, buf, state_, conn, items, g_cas, stopping>>

\* After the last key what was found is sent, whether or not "noreply" was asked.
sendItems(s) ==
  /\ command_[s].command = "get" /\ keys[s] = <<>>
  /\ send(s, command_[s], "END", outputBuf_[s])
  /\ outputBuf_' = [outputBuf_ EXCEPT ![s] = <<>>]
  /\ resetRequest(s)
  /\ UNCHANGED <<client, input, buf, state_, keys, conn, items, g_cas, stopping>>

receiveValue(s) ==
  /\ state_[s] = "kReceiveValue" /\ buf[s] # <<>>
  /\ LET now == currItem_[s]
         avail == IF Len(buf[s]) < now.needed THEN Len(buf[s]) ELSE now.needed
         item == append(now, SubSeq(buf[s], 1, avail))
         policy == command_[s].command IN
     /\ buf' = [buf EXCEPT ![s] = SubSeq(@, avail + 1, Len(@))]
     /\ IF item.needed > 0
        THEN /\ currItem_' = [currItem_ EXCEPT ![s] = item]
             /\ UNCHANGED <<state_, command_, noreply_, bytesToDiscard_, out, items, g_cas>>
        ELSE /\ IF endsWithCRLF(item)
                THEN /\ storeItem(policy, item)
                     /\ reply(s, command_[s],
                              CASE Accepts(policy, item) -> "STORED"
                                [] ~ Accepts(policy, item) /\ policy = "cas" ->
                                     IF item.key \in DOMAIN items THEN "EXISTS" ELSE "NOT_FOUND"
                                [] OTHER -> "NOT_STORED")
                ELSE /\ reply(s, command_[s], "CLIENT_ERROR")
                     /\ UNCHANGED <<items, g_cas>>
             /\ resetRequest(s)
             /\ state_' = [state_ EXCEPT ![s] = "kNewCommand"]
  /\ UNCHANGED <<client, input, keys, outputBuf_, conn, stopping>>

discardValue(s) ==
  /\ state_[s] = "kDiscardValue" /\ buf[s] # <<>>
  /\ IF Len(buf[s]) < bytesToDiscard_[s]
     THEN /\ bytesToDiscard_' = [bytesToDiscard_ EXCEPT ![s] = @ - Len(buf[s])]
          /\ buf' = [buf EXCEPT ![s] = <<>>]
          /\ UNCHANGED <<state_, command_, noreply_, currItem_>>
     ELSE /\ buf' = [buf EXCEPT ![s] = SubSeq(@, bytesToDiscard_[s] + 1, Len(@))]
          /\ resetRequest(s)
          /\ state_' = [state_ EXCEPT ![s] = "kNewCommand"]
  /\ UNCHANGED <<client, input, keys, outputBuf_, conn, out, items, g_cas, stopping>>

\* The peer of a session is gone, between two reads: the session is erased.
onConnectionDown(s) ==
  /\ conn[s] # "down" /\ ~ Loops(s, buf[s])
  /\ conn' = [conn EXCEPT ![s] = "down"]
  /\ UNCHANGED <<client, input, buf, state_, command_, noreply_, currItem_, bytesToDiscard_, keys,
                 outputBuf_, out, items, g_cas, stopping>>

Next ==
  \E s \in Sessions :
    \/ onMessage(s) \/ giveUp(s) \/ processRequest(s) \/ getItem(s) \/ sendItems(s)
    \/ receiveValue(s) \/ discardValue(s) \/ onConnectionDown(s)

Spec == Init /\ [][Next]_vars

-----------------------------------------------------------------------------
Conns == {"connected", "disconnecting", "down"}

TypeOK ==
  /\ state_ \in [Sessions -> {"kNewCommand", "kReceiveValue", "kDiscardValue"}]
  /\ bytesToDiscard_ \in [Sessions -> Nat] /\ g_cas \in Nat /\ conn \in [Sessions -> Conns]

\* What processRequest(), receiveValue() and discardValue() assert of a Session
\* holds however the bytes of its requests arrive: between two requests nothing of
\* the last one is left, an item is there exactly while its value is received, and
\* bytes are left to skip exactly while a value is discarded.
SessionAgrees ==
  \A s \in Sessions :
    /\ state_[s] = "kNewCommand" /\ command_[s].command # "get" =>
         command_[s] = NoLine /\ ~ noreply_[s] /\ currItem_[s] = NoItem /\ bytesToDiscard_[s] = 0
    /\ state_[s] = "kReceiveValue" <=> currItem_[s].needed > 0
    /\ state_[s] = "kDiscardValue" <=> bytesToDiscard_[s] > 0

Commands(replies) == [i \in DOMAIN replies |-> replies[i].line.command]

\* A client gets the replies it is owed, in the order of its requests: one for
\* each request without "noreply" up to a "quit", however its bytes are split, and
\* none of them is missing once all it sent is read.
RepliesInOrder ==
  \A s \in Sessions :
    /\ IsPrefix(Commands(out[s]), client[s].owed)
    /\ input[s] = <<>> /\ ~ Loops(s, buf[s]) => Commands(out[s]) = client[s].owed

\* No two items have the same cas, none was handed out before its time, and every
\* stored value ends with its line end: append and prepend cut the right one.
ItemsWhole ==
  \A k \in DOMAIN items :
    /\ items[k].cas \in 1..g_cas /\ endsWithCRLF(items[k])
    /\ \A i \in 1..(Len(items[k].value) - 2) : items[k].value[i].t = "byte"
    /\ \A l \in DOMAIN items \ {k} : items[l].cas # items[k].cas

\* The replies that say an update of key k is stored.
Acknowledged(k) ==
  {r \in UNION {{s} \X DOMAIN out[s] : s \in Sessions} :
     out[r[1]][r[2]].reply = "STORED" /\ Head(out[r[1]][r[2]].line.keys) = k}

\* Sessions that append to one key do not lose each other's bytes: as long as
\* nobody overwrites or deletes the key, its value holds the bytes of every
\* update that was acknowledged, and no others.
AppendsKept ==
  \A k \in DOMAIN items :
    (\A s \in Sessions : \A i \in DOMAIN client[s].sends :
       client[s].sends[i].t = "line" /\ k \in Range(client[s].sends[i].keys) =>
         client[s].sends[i].command \in {"add", "append", "prepend", "get"}) =>
    /\ Len(items[k].value) - 2 =
         MapThenSumSet(LAMBDA r : out[r[1]][r[2]].line.bytes, Acknowledged(k))
    /\ \A r \in Acknowledged(k) : \E i \in DOMAIN items[k].value :
         items[k].value[i] = [t |-> "byte", b |-> out[r[1]][r[2]].line.b]

\* An item in the table is immutable: what is stored under a key changes only
\* together with its cas, which grows.
ItemImmutable ==
  \A k \in DOMAIN items \cap DOMAIN items' :
    items'[k] # items[k] => items'[k].cas > items[k].cas
==============================================================================
