--------------------------- MODULE Microstructure ---------------------------
(***************************************************************************)
(* modules/microstructure/manager.py: MicrostructureManager for one        *)
(* symbol.  Two tasks run _consume_loop, one over raw:orderbook:{symbol}   *)
(* and one over raw:trades:{symbol}.  They share the symbol's state and    *)
(* publish to the same stream and to the same key, and suspend only where  *)
(* they await Redis: before the XADD, before the SETEX and before the next *)
(* XREAD.                                                                  *)
(*                                                                         *)
(* The contents of the book are the version its update id names            *)
(* (BookReplica proves it), so an output is the pair of the book's update  *)
(* id and the last trade id its features were computed from.               *)
(***************************************************************************)
EXTENDS Integers, Sequences

CONSTANTS Ids,          (* the update ids, a set of naturals > 0            *)
          TradeIds,     (* the trade ids, a set of naturals > 0             *)
          MaxRaw,       (* bound of the entries of each raw stream          *)
          MaxRestarts,  (* bound of the number of restarts                  *)
          NoOutput      (* ms:latest when the key does not exist            *)

ASSUME MicrostructureAssumption ==
  /\ Ids \subseteq Nat \ {0}
  /\ TradeIds \subseteq Nat \ {0}
  /\ MaxRaw \in Nat
  /\ MaxRestarts \in Nat

VARIABLES
  rawBook,      \* raw:orderbook:{symbol}, a sequence of [kind, id]
  rawTrades,    \* raw:trades:{symbol}, a sequence of trade ids
  stream,       \* microstructure:{symbol}, a sequence of outputs
  latest,       \* ms:latest:{symbol}
  book,         \* the OrderBook: [lastUpdateId, resyncNeeded]
  lastBookId,   \* _SymbolState.last_orderbook_id
  lastTradeId,  \* _SymbolState.last_trade_id
  pc,           \* what each task awaits: "xread", "xadd" or "setex"
  cursor,       \* the index of the raw entry each task's streams[...] names
  out,          \* the output each task has in hand
  missed,       \* history: tasks whose last publication Redis refused
  life          \* history: how many times the process was restarted

raw      == <<rawBook, rawTrades>>
redis    == <<stream, latest>>
symState == <<book, lastBookId, lastTradeId>>
tasks    == <<pc, cursor, out, missed>>
vars     == <<raw, redis, symState, tasks, life>>

Tasks      == {"orderbook", "trades"}
Kinds      == {"snapshot", "delta"}
Outputs == [by : Tasks, msg : Ids \cup TradeIds, book : Ids \cup {0}, trade : TradeIds \cup {0},
            life : Nat]

TypeOK ==
  /\ rawBook \in Seq([kind : Kinds, id : Ids])
  /\ rawTrades \in Seq(TradeIds)
  /\ stream \in Seq(Outputs)
  /\ latest \in Outputs \cup {NoOutput}
  /\ book \in [lastUpdateId : Ids \cup {0}, resyncNeeded : BOOLEAN]
  /\ lastBookId \in Ids \cup {0}
  /\ lastTradeId \in TradeIds \cup {0}
  /\ pc \in [Tasks -> {"xread", "xadd", "setex"}]
  /\ cursor \in [Tasks -> Nat]
  /\ out \in [Tasks -> Outputs \cup {NoOutput}]
  /\ missed \in SUBSET Tasks
  /\ life \in Nat

EmptyBook == [lastUpdateId |-> 0, resyncNeeded |-> FALSE]

AllAt(x) == [t \in Tasks |-> x]

Init ==
  /\ rawBook = <<>> /\ rawTrades = <<>>
  /\ stream = <<>> /\ latest = NoOutput
  /\ book = EmptyBook /\ lastBookId = 0 /\ lastTradeId = 0
  /\ pc = AllAt("xread") /\ cursor = AllAt(0) /\ out = AllAt(NoOutput)
  /\ missed = {}
  /\ life = 0

-----------------------------------------------------------------------------
\* The ingestor appends to the raw streams.  Messages can have been lost,
\* repeated or reordered before they got there.
FeedBook ==
  /\ Len(rawBook) < MaxRaw
  /\ \E k \in Kinds, i \in Ids : rawBook' = Append(rawBook, [kind |-> k, id |-> i])
  /\ UNCHANGED <<rawTrades, redis, symState, tasks, life>>

FeedTrade ==
  /\ Len(rawTrades) < MaxRaw
  /\ \E i \in TradeIds : rawTrades' = Append(rawTrades, i)
  /\ UNCHANGED <<rawBook, redis, symState, tasks, life>>

-----------------------------------------------------------------------------
\* OrderBook.apply_snapshot and apply_delta, as BookReplica models them, with
\* the levels left out.
ApplySnapshot(b, id) ==
  IF id <= b.lastUpdateId THEN b ELSE [lastUpdateId |-> id, resyncNeeded |-> FALSE]

ApplyDelta(b, id) ==
  CASE id <= b.lastUpdateId     -> b
    [] id > b.lastUpdateId + 1  -> [b EXCEPT !.resyncNeeded = TRUE]
    [] id = b.lastUpdateId + 1  -> [b EXCEPT !.lastUpdateId = id]

Apply(b, m) == IF m.kind = "snapshot" THEN ApplySnapshot(b, m.id) ELSE ApplyDelta(b, m.id)

\* Mutant: the next update counts as seen already.
SeenBook_OffByOne(id) == id <= lastBookId + 1
SeenBook(id)  == id <= lastBookId
\* Mutant: a trade is processed again when it is repeated.
SeenTrade_Repeats(id) == id < lastTradeId
SeenTrade(id) == id <= lastTradeId

\* Mutant: last_orderbook_id moves only when the book did.
NextBookId_OnlyApplied(id, b) == b.lastUpdateId
\* last_orderbook_id after message `id` left the book as b.
NextBookId(id, b) == id

\* The message in hand is done with: streams[stream_key] = msg_id.
Consumed(t) == cursor' = [cursor EXCEPT ![t] = @ + 1]

\* _publish_output builds its output before it first suspends.
Build(t, msg, bookId, tradeId) ==
  /\ out' = [out EXCEPT ![t] = [by |-> t, msg |-> msg, book |-> bookId,
                                trade |-> tradeId, life |-> life]]
  /\ pc' = [pc EXCEPT ![t] = "xadd"]

\* _process_orderbook up to its first await.
ProcessOrderbook ==
  LET m == rawBook[cursor["orderbook"] + 1] IN
  /\ pc["orderbook"] = "xread"
  /\ cursor["orderbook"] < Len(rawBook)
  /\ IF SeenBook(m.id)
     THEN /\ Consumed("orderbook")
          /\ UNCHANGED <<book, lastBookId, pc, out>>
     ELSE /\ book' = Apply(book, m)
          /\ lastBookId' = NextBookId(m.id, book')
          /\ Build("orderbook", m.id, book'.lastUpdateId, lastTradeId)
          /\ UNCHANGED cursor
  /\ UNCHANGED <<raw, redis, lastTradeId, missed, life>>

\* _process_trade up to its first await.
ProcessTrade ==
  LET id == rawTrades[cursor["trades"] + 1] IN
  /\ pc["trades"] = "xread"
  /\ cursor["trades"] < Len(rawTrades)
  /\ IF SeenTrade(id)
     THEN /\ Consumed("trades")
          /\ UNCHANGED <<lastTradeId, pc, out>>
     ELSE /\ lastTradeId' = id
          /\ Build("trades", id, book.lastUpdateId, id)
          /\ UNCHANGED cursor
  /\ UNCHANGED <<raw, redis, book, lastBookId, missed, life>>

-----------------------------------------------------------------------------
\* The handler returns to _consume_loop.
Done(t) ==
  /\ Consumed(t)
  /\ pc' = [pc EXCEPT ![t] = "xread"]
  /\ out' = [out EXCEPT ![t] = NoOutput]

\* Redis executes the XADD of task t.
XAdd(t) ==
  /\ pc[t] = "xadd"
  /\ stream' = Append(stream, out[t])
  /\ pc' = [pc EXCEPT ![t] = "setex"]
  /\ UNCHANGED <<raw, latest, symState, cursor, out, missed, life>>

\* Mutant: the key is set only where none exists.
SetEx_IfAbsent(t) ==
  /\ pc[t] = "setex"
  /\ latest' = IF latest = NoOutput THEN out[t] ELSE latest
  /\ missed' = missed \ {t}
  /\ Done(t)
  /\ UNCHANGED <<raw, stream, symState, life>>

\* Redis executes the SETEX of task t, and the handler returns.  (main.py gives
\* the manager no database, so _write_to_db is never started.)
SetEx(t) ==
  /\ pc[t] = "setex"
  /\ latest' = out[t]
  /\ missed' = missed \ {t}
  /\ Done(t)
  /\ UNCHANGED <<raw, stream, symState, life>>

\* The command raises, a SETEX perhaps after Redis executed it (an XADD that
\* did is XAdd first): the handler's `except Exception` logs it, and the message
\* counts as consumed.
RedisFails(t) ==
  /\ pc[t] \in {"xadd", "setex"}
  /\ latest' \in {latest} \cup (IF pc[t] = "setex" THEN {out[t]} ELSE {})
  /\ missed' = missed \cup {t}
  /\ Done(t)
  /\ UNCHANGED <<raw, stream, symState, life>>

\* Nothing was written to the key for 60 seconds.
Expire ==
  /\ latest # NoOutput
  /\ latest' = NoOutput
  /\ UNCHANGED <<raw, stream, symState, tasks, life>>

\* The process stops, or crashes, and is started again: everything but Redis
\* and the database is lost, and the raw streams are read from the beginning.
Restart ==
  /\ life < MaxRestarts
  /\ life' = life + 1
  /\ book' = EmptyBook /\ lastBookId' = 0 /\ lastTradeId' = 0
  /\ pc' = AllAt("xread") /\ cursor' = AllAt(0) /\ out' = AllAt(NoOutput)
  /\ missed' = {}
  /\ UNCHANGED <<raw, redis>>

TaskStep(t) ==
  \/ t = "orderbook" /\ ProcessOrderbook
  \/ t = "trades" /\ ProcessTrade
  \/ XAdd(t)
  \/ SetEx(t)
  \/ RedisFails(t)

Next ==
  \/ FeedBook \/ FeedTrade
  \/ \E t \in Tasks : TaskStep(t)
  \/ Expire
  \/ Restart

Spec == Init /\ [][Next]_vars

\* The event loop runs a task whose Redis command has returned, and a command
\* returns or raises.
FairSpec == Spec /\ \A t \in Tasks : WF_vars(TaskStep(t))

-----------------------------------------------------------------------------
Streamed == {stream[i] : i \in DOMAIN stream}

\* The dashboard's key never shows an output that the stream's readers were not
\* given first (_publish_output's order).
StreamedFirst == latest # NoOutput => latest \in Streamed

\* As long as the process lives, a task publishes no message twice, in increasing
\* id order, and its outputs never step back to an older book or trade: repeated
\* and late raw entries are dropped.  (Across the two tasks they may step back.)
PublishedOnce ==
  \A i, j \in DOMAIN stream :
    i < j /\ stream[i].by = stream[j].by /\ stream[i].life = stream[j].life
      => /\ stream[i].msg < stream[j].msg
         /\ stream[i].book <= stream[j].book
         /\ stream[i].trade <= stream[j].trade

\* The key falls behind the task that wrote it by at most the output whose
\* SETEX that task is waiting for, unless Redis refused it.
LatestLagsOneStep ==
  latest # NoOutput /\ latest.life = life =>
    \/ pc[latest.by] = "setex"
    \/ latest.by \in missed
    \/ \A o \in Streamed : o.by = latest.by /\ o.life = life => o.msg <= latest.msg

\* Unless it waits for a snapshot, the book is at the last update the manager
\* has taken note of, and never ahead of it.
BookInStep ==
  /\ book.lastUpdateId <= lastBookId
  /\ ~book.resyncNeeded => book.lastUpdateId = lastBookId

\* After a gap the book stands still until a snapshot replaces it: not even the
\* missing deltas, arriving late, move it (last_orderbook_id has passed them).
GapFreezesBook ==
  [][book.resyncNeeded /\ book'.resyncNeeded => book' = book]_vars

Newest(i) == \A j \in 1..(i - 1) : rawBook[j].id < rawBook[i].id

\* The book ends up at or beyond every snapshot that is newer than all entries
\* before it, over any gaps, restarts and refusals by Redis.  A snapshot that is
\* not, the answer to a gap an even later delta has opened, say, is dropped by
\* _process_orderbook and leaves the book frozen: the property is false without
\* Newest(i).
SnapshotsReachBook ==
  <>[](\A i \in DOMAIN rawBook :
         rawBook[i].kind = "snapshot" /\ Newest(i) => book.lastUpdateId >= rawBook[i].id)
=============================================================================
