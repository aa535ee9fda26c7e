------------------------------- MODULE Ingest -------------------------------
(***************************************************************************)
(* What a received market message becomes: the readers of                  *)
(* ingestion/ingestors/binance_ws.py (order book, trades) and              *)
(* binance_futures.py (funding, open interest, liquidations), which write  *)
(* it to a raw stream and then to a shared one, and the ResyncBuffer that  *)
(* withholds order books between a "start" and a "complete" on             *)
(* control:resync.                                                         *)
(*                                                                         *)
(* The readers share no state, so a behaviour follows one of them, feed.   *)
(* Connecting and backing off are SymbolFeed's.  ResyncBuffer awaits only  *)
(* its locks, and nobody awaits while holding one, so its operations are   *)
(* single steps and a lock matters by being there or not.                  *)
(***************************************************************************)
EXTENDS Integers, Sequences, FiniteSets, SequencesExt

CONSTANTS Symbols,
          NoSymbol,   \* the empty string, for a symbol that was not found
          BufferMax,  \* BUFFER_MAX_SIZE
          MaxSeq,     \* bound of the messages of a symbol
          MaxFails    \* bound of the XADDs that raise

ASSUME IngestAssumption ==
  /\ NoSymbol \notin Symbols
  /\ BufferMax \in Nat \ {0}
  /\ MaxSeq \in Nat
  /\ MaxFails \in Nat

VARIABLES
  feed,       \* the reader this behaviour follows
  wrapped,    \* messages come as {"stream": .., "data": ..}, or directly
  sent,       \* the newest message of each symbol that was received
  pc,         \* what the reader awaits
  hand,       \* the message being published: the symbol it is filed under, its number
  raw,        \* raw:<feed>:<symbol>
  stream,     \* the feed's and symbol's entries in the shared stream
  resyncing,  \* ResyncBuffer._resyncing
  buffer,     \* ResyncBuffer._buffers; its messages are in the order of their numbers
  locks,      \* the symbols in ResyncBuffer._locks
  listener,   \* the task of _listen_resync_signals
  held,       \* history: every message that went into the buffer
  passed,     \* history: the messages of held a resync was completed beyond
  mark,       \* history: the length of raw when the symbol's resync started
  fails       \* history: the XADDs that raised

reader  == <<sent, pc, hand>>
redis   == <<raw, stream>>
resync  == <<resyncing, buffer, locks, listener>>
history == <<held, passed, mark, fails>>
vars    == <<feed, wrapped, reader, redis, resync, history>>

WebSockets == {"orderbook", "trade", "liquidation"}
Pollers    == {"funding", "open_interest"}
Keys       == Symbols \cup {NoSymbol}
Numbers    == 1..MaxSeq
Awaits     == {"recv", "raw", "stream", "down"}

TypeOK ==
  /\ feed \in WebSockets \cup Pollers
  /\ wrapped \in BOOLEAN
  /\ sent \in [Symbols -> 0..MaxSeq]
  /\ pc \in Awaits
  /\ hand \in [key : Keys, id : 0..MaxSeq]
  /\ raw \in [Keys -> Seq(Numbers)]
  /\ stream \in [Keys -> Seq(Numbers)]
  /\ resyncing \in SUBSET Symbols
  /\ buffer \in [Symbols -> SUBSET Numbers]
  /\ locks \in SUBSET Symbols
  /\ listener \in {"listening", "dead"}
  /\ held \in [Symbols -> SUBSET Numbers]
  /\ passed \in [Symbols -> SUBSET Numbers]
  /\ mark \in [Symbols -> Nat]
  /\ fails \in 0..MaxFails

Nothing == [key |-> NoSymbol, id |-> 0]

Init ==
  /\ feed \in WebSockets \cup Pollers
  /\ wrapped \in BOOLEAN
  /\ sent = [s \in Symbols |-> 0] /\ pc = "recv" /\ hand = Nothing
  /\ raw = [k \in Keys |-> <<>>] /\ stream = raw
  /\ resyncing = {} /\ buffer = [s \in Symbols |-> {}] /\ locks = {}
  /\ listener = "listening"
  /\ held = buffer /\ passed = buffer /\ mark = sent /\ fails = 0

-----------------------------------------------------------------------------
(* ResyncBuffer and its listener.                                          *)

\* start_resync: what an earlier resync left in the buffer stays there.
StartResync(s) ==
  /\ listener = "listening"
  /\ resyncing' = resyncing \cup {s}
  /\ locks' = locks \cup {s}
  /\ mark' = IF s \in resyncing THEN mark ELSE [mark EXCEPT ![s] = Len(raw[s])]
  /\ UNCHANGED <<feed, wrapped, reader, redis, buffer, listener, held, passed, fails>>

\* Mutant: the message of the final sequence is kept too.
Beyond_Inclusive(n, sequence) == n >= sequence
Beyond(n, sequence) == n > sequence

\* flush: what it returns is counted in a log line and published by nobody.
CompleteResync(s, sequence) ==
  /\ listener = "listening" /\ s \in locks
  /\ buffer' = [buffer EXCEPT ![s] = {n \in @ : Beyond(n, sequence)}]
  /\ resyncing' = resyncing \ {s}
  /\ passed' = [passed EXCEPT ![s] = @ \cup {n \in held[s] : n <= sequence}]
  /\ UNCHANGED <<feed, wrapped, reader, redis, locks, listener, held, mark, fails>>

\* A "complete" for a symbol that has no lock raises KeyError, and Redis may drop
\* the subscription: the task only catches CancelledError, and nobody starts it again.
ListenerDies ==
  /\ listener = "listening"
  /\ listener' = "dead"
  /\ UNCHANGED <<feed, wrapped, reader, redis, resyncing, buffer, locks, history>>

\* The symbol a message of s is filed under.  The pollers asked for it by name, the
\* order book reader knows both formats, the others only the wrapped one.
Key(s) == IF wrapped \/ feed \in Pollers \cup {"orderbook"} THEN s ELSE NoSymbol

\* Mutant: order books are published whatever goes on.
Withheld_Never(s) == FALSE
Withheld(s) == feed = "orderbook" /\ s \in resyncing

Buffered(b, n) ==
  IF Cardinality(b) < BufferMax THEN b \cup {n} ELSE {m \in b : \E l \in b : l < m} \cup {n}

\* add: the deque drops its oldest message for the newest.
Withhold(s, n) ==
  /\ Withheld(s)
  /\ buffer' = [buffer EXCEPT ![s] = Buffered(@, n)]
  /\ held' = [held EXCEPT ![s] = @ \cup {n}]
  /\ UNCHANGED <<pc, hand>>

\* Only liquidations without a symbol are left out.
Publish(s, n) ==
  /\ ~Withheld(s)
  /\ IF feed = "liquidation" /\ Key(s) = NoSymbol
     THEN UNCHANGED <<pc, hand>>
     ELSE pc' = "raw" /\ hand' = [key |-> Key(s), id |-> n]
  /\ UNCHANGED <<buffer, held>>

\* A message is there: of what the exchange sends, numbers only grow, and some never
\* arrive.  For a poller it is the answer to a GET; a failing one changes nothing.
Receive(s) ==
  /\ pc = "recv"
  /\ \E n \in sent[s] + 1 .. MaxSeq :
        /\ sent' = [sent EXCEPT ![s] = n]
        /\ Withhold(s, n) \/ Publish(s, n)
  /\ UNCHANGED <<feed, wrapped, redis, resyncing, locks, listener, passed, mark, fails>>

-----------------------------------------------------------------------------
(* The two XADDs.                                                          *)

Put(log) == [log EXCEPT ![hand.key] = Append(@, hand.id)]

XAddRaw ==
  /\ pc = "raw"
  /\ raw' = Put(raw)
  /\ pc' = "stream"
  /\ UNCHANGED <<feed, wrapped, sent, hand, stream, resync, history>>

XAddStream ==
  /\ pc = "stream"
  /\ stream' = Put(stream)
  /\ pc' = "recv" /\ hand' = Nothing
  /\ UNCHANGED <<feed, wrapped, sent, raw, resync, history>>

\* Mutant: the message is published once more.
AfterFailure_Again == "raw"
\* A socket's reader raises and the connection is dropped; a poller logs and goes on.
AfterFailure == IF feed \in Pollers THEN "recv" ELSE "down"

\* Redis raises; the command was executed or not.
XAddFails ==
  /\ fails < MaxFails
  /\ \/ pc = "raw" /\ raw' \in {raw, Put(raw)} /\ UNCHANGED stream
     \/ pc = "stream" /\ stream' \in {stream, Put(stream)} /\ UNCHANGED raw
  /\ pc' = AfterFailure
  /\ hand' = IF pc' = "raw" THEN hand ELSE Nothing
  /\ fails' = fails + 1
  /\ UNCHANGED <<feed, wrapped, sent, resync, held, passed, mark>>

\* recv or the ping after 30 seconds raises, and the runner comes back to reading.
ConnectionLost ==
  /\ feed \in WebSockets /\ pc = "recv"
  /\ pc' = "down"
  /\ UNCHANGED <<feed, wrapped, sent, hand, redis, resync, history>>

Reconnect ==
  /\ pc = "down"
  /\ pc' = "recv"
  /\ UNCHANGED <<feed, wrapped, sent, hand, redis, resync, history>>

Next ==
  \/ \E s \in Symbols : Receive(s) \/ StartResync(s)
  \/ \E s \in Symbols, sequence \in 0..MaxSeq : CompleteResync(s, sequence)
  \/ ListenerDies
  \/ XAddRaw \/ XAddStream \/ XAddFails
  \/ ConnectionLost \/ Reconnect

Spec == Init /\ [][Next]_vars

-----------------------------------------------------------------------------
Increasing(log) == \A i, j \in 1..Len(log) : i < j => log[i] < log[j]

\* Raw stream and shared stream of a symbol hold its messages in the exchange's order
\* and once each; the shared one has nothing the raw one lacks, and lacks no more
\* than the XADDs that were refused and the message in hand.  Under the empty symbol,
\* where the messages of every symbol come together, there are trades only
\* (_publish_orderbook, _publish_trade and the futures' publications).
StreamsAgree ==
  \A k \in Keys :
    /\ k # NoSymbol => Increasing(raw[k]) /\ Increasing(stream[k])
    /\ k = NoSymbol /\ raw[k] # <<>> => feed = "trade"
    /\ ToSet(stream[k]) \subseteq ToSet(raw[k])
    /\ Len(raw[k]) - Len(stream[k]) <=
         fails + (IF pc = "stream" /\ hand.key = k THEN 1 ELSE 0)

\* From the start of a resync to its completion, and for ever when the listener has
\* died in between, a symbol gets one more order book at most: the one that had passed
\* the test of is_resyncing when the resync started.  What was withheld is never
\* published, completion or not.
ResyncIsQuiet ==
  /\ feed = "orderbook" => \A s \in resyncing : Len(raw[s]) - mark[s] \in {0, 1}
  /\ \A s \in Symbols : held[s] \cap ToSet(raw[s]) = {}

\* The buffer is the newest of the withheld messages that no completion has passed,
\* whichever resync they were withheld in: start_resync does not clear it.
BufferIsNewest ==
  \A s \in Symbols :
    LET open == held[s] \ passed[s]
    IN  /\ buffer[s] \subseteq open
        /\ \A n \in open \ buffer[s] : \A m \in buffer[s] : n < m
        /\ buffer[s] = open \/ Cardinality(buffer[s]) = BufferMax
=============================================================================
