# RegimeIQ: specifications, model checks and proofs

TLA+ modules of the concurrent core of RegimeIQ, the TLC configurations that
check them, and the TLAPS proofs about them. Source paths are relative to the
repository's root.

## 1. The system

RegimeIQ is one asyncio process beside Redis and a PostgreSQL/TimescaleDB. A
coroutine runs until it awaits, so the steps that interleave are the stretches
between two awaits. Components talk through Redis streams (XADD with an
approximate MAXLEN, read by XREAD with a cursor in memory or by XREADGROUP with
a group), through a few Redis keys, and through asyncio events.

    Binance --> BinanceWSIngestor --+--> raw:orderbook:S, raw:trades:S --> MicrostructureManager
                     ^              |                                       |          |
        SymbolManager (config)      |                                       v          v
                                    |                          microstructure:S   ms:latest:S
                                    +--> stream:microstructure --> RegimePredictor (one per symbol)
                                    |                                       `--> regime:S
                                    `--> Pipeline --> Loader --> database, state keys
    ingestors --> altdata:signals --> ConfluenceEngine --> altdata:confluence
    fetchers  --> raw:sec_filings, raw:news_articles, raw:transcripts
    the last three, altdata:confluence and regime:S --> LLMReasoner --> llm:insights, llm:summary

### Inventory

| Component | Source | State | Operations | What makes it correct | Module |
|---|---|---|---|---|---|
| Circuit breaker | `core/circuit_breaker.py` | state, failure times, opening time, half-open count | call, its success, failure and cancellation | it opens at the threshold, waits, is probed by at most so many calls, and no slot is lost | `CircuitBreaker` |
| Order book | `modules/microstructure/order_book.py` | two sorted sides, last update id, resync flag | snapshot, delta, accessors | the book is one version of the exchange's | `OrderBook`, `BookReplica`, `Replica` |
| Microstructure manager | `modules/microstructure/manager.py` | per symbol: the book, the last ids, two cursors | the order book task, the trade task, publication, restart | outputs are published in stream order and once, the key follows, a gap is flagged | `Microstructure` |
| Regime predictor | `modules/regime/predictor.py` | the group's cursor and pending list, the entry in hand | set-up, read, process, acknowledge, restart | every entry of a symbol is processed once | `RegimePredictor` |
| Symbol feed | `ingestion/extract.py`, `ingestion/ingestors/binance_ws.py` | three copies of the symbol set, the event, the runner, the backoff | reload, add, remove, monitor, connect, fail, retry, stop | the feed ends up subscribed to what is configured | `SymbolFeed` |
| LLM reasoner | `modules/llm_reasoner/reasoners.py` | cursors, the day's cost, two loops | read, call, answer, publish, alert, summary, stop | the cap holds, every entry is read once | `LLMReasoner` |
| Redis bus | `core/redis_bus.py` | the client | publish, single commands; subscribe has no caller | MAXLEN never trims below its bound; a command is executed, refused, or executed with its answer lost | in the modules of its users |
| Configuration | `core/config.py` | the behavioural configuration | load, reload, get_symbols | readers follow it | in `SymbolFeed` |
| Resync buffer, ingest | `ingestion/ingestors/binance_ws.py` 46-84, 175-199, 247-344, `binance_futures.py` | a buffer per symbol, who is resyncing, the message in hand | receive, publish to two streams, start, add, flush, lose the connection | both streams tell the same, a resync is quiet, the buffer keeps the newest | `Ingest` |
| Loader, pipeline | `ingestion/load.py`, `ingestion/pipeline.py`, `ingestion/transform.py` | the queue, the worker, its batch, the cursors | read, enqueue, take, execute, cancel | a write is done once and in order, or known to be dropped | `Loader` |
| Lifecycle | `main.py`, `core/database.py` | which parts run, the stop tasks, the schema and `schema_migrations`, a reader | the start steps, migrations, signals, stop, exit | the schema is complete before it is used, what stop() waits for is over, a signal ends the process | `Lifecycle` |
| Confluence engine | `modules/altdata/confluence.py` | latest signals, classifications, the group's pending entries | read, process, publish, acknowledge, weekly test, restart | an alert means agreement, entries are done in order, the rest is drained | `Confluence` |
| Alternative data | `modules/altdata/ingestors`, `modules/altdata/extractors` | the on-chain cursor, FRED's histories, attempts | poll, classify, publish, back off, stop | nothing is counted twice or waits behind a bad entry, loops end | `AltData` |
| Features, trade flow | `modules/microstructure/features.py`, `trade_flow.py`, `spread.py` | windows | update | OFI, VPIN | planned as operators |
| Regime model, trainer | `modules/regime/hmm.py`, `features.py`, `trainer.py` | matrices | fit, predict | numerical | out of reach |
| Fetchers, prompts, state, cache, dashboard, deployment | `modules/llm_reasoner/fetchers`, `core/state.py`, `core/cache.py`, `dashboard.py`, `deployment` | - | HTTP, text, single commands, a view | - | left out |

The hard behaviours: two tasks of a symbol between an XADD and a SETEX; results
of calls that outlive the circuit breaker's period; deltas and snapshots lost,
repeated and reordered; a consumer group shared by predictors of different
symbols, with crashes between delivery and acknowledgement; an event cleared in
one task and set in another; a cost checked before an await and paid after it;
a resync that starts between a test and the publication it allows; a stop that
`asyncio.run` cancels half-way, and a cancellation that is swallowed.
`PROJECT.json` lists each hazard at its line, with the properties about it.

### What the commit does as a whole

The models describe components from the state their own start leaves, and the
process as if every start step could succeed. Facts about this commit keep much of
it from getting there:

- `core/config.py:99` calls `get_db`, which is not imported: `config.initialize`, the
  first start step of `main.py`, always raises once its pool and its Redis client are made
  (`client` in `Lifecycle`), and so does `reload()`. `Lifecycle` and `SymbolFeed` have
  the success too, and the failure among their behaviours. `config.initialize` also
  reads `system_config` before the migrations that create it.
- `MIGRATIONS_DIR` is `storage/migrations`, which does not exist; the file is
  `migrations/001_core_schema.sql`. The model takes any number of migrations, none
  included.
- That file has a `BEGIN` (line 3) and a `COMMIT` (line 119) of its own, so its row in
  `schema_migrations` is not in its transaction, and it cannot be executed twice (`CREATE
  INDEX`, lines 26 and following). `docker-compose.yml:13` gives the same directory to the
  database's own initialisation, which executes every file and enters no row: over such a
  database no start gets past the migrations.
- `ingestion/pipeline.py:46` calls `RedisBus.consume`, which does not exist: the
  pipeline's task ends with its first step (`Consume` with `task' = "dead"`), and
  `Pipeline.stop` raises its exception again, so the later steps of a stop are skipped.
  `load.py:132` calls `publish` with a keyword it does not have, so the loader's stream
  and state key are never written.
- Nobody publishes to `control:resync`, nothing instantiates `ConfluenceEngine`,
  `LLMReasoner` or the ingestors of `modules/altdata` (`AltDataDelegator` only has
  stubs), `raw:onchain` has no producer (`extract.py:486` shadows the one there is), and
  nothing goes through `CircuitBreaker.call`. These are models of the classes under the
  use they are written for.
- `migrations/001_core_schema.sql:113` seeds `alert_threshold` as a text, on which
  `_check_alert` raises (`textual` in `Confluence`); a configured `whale_threshold_btc` is
  a text too, which makes every entry of `raw:onchain` unparsable.
- No producer of `stream:microstructure` writes the fields that
  `_parse_microstructure` asks for, so the predictor's inference is never reached.

## 2. The modules

**CircuitBreaker.** `call` has two locked sections and awaits the protected
function between them. `Admit` and `Reject` are the first section, including
`_check_state_transition`; `Succeed` and `Fail` are the second; `Cancel` is a
caller cancelled in between, which is no `Exception` and so reaches neither. `now`
is `time.time()`, read inside the locked sections. `pc` says whether a call in
flight was admitted by the current half-open period ("probe"); `lost` is a history
variable, the probes of the period that were cancelled.

**OrderBook, BookReplica, Replica.** `OrderBook` has the methods as operators on
the record [levels, lastUpdateId, resyncNeeded]; a sorted side is a function from
prices to quantities. `BookReplica` feeds it from an exchange whose every message,
snapshot or delta, may arrive at any time and any number of times. `Replica` is
the abstract promise: a copy that shows whole versions and only moves forward.

**Microstructure.** One symbol's two tasks. `ProcessOrderbook` and `ProcessTrade`
run to their first await, where the output is built; `XAdd`, `SetEx` and
`RedisFails` are the commands. `BookReplica` shows that the contents of the book are
determined by its update id, so here the book is the id and the resync flag.
Messages reach the raw streams in any order. `Expire` is the key's 60 seconds,
`Restart` a stop or crash followed by a start.

**RegimePredictor.** Redis' group (cursor, pending entries, acknowledged ones) and
one predictor per symbol. `Publish` adds an entry and may trim (MAXLEN is
approximate); `SetupFails`, `ReadFails` and `AckFails` are commands that raise, executed
or not (`CreateGroup` is the one of the set-up).

**Delivery.** The abstract promise of reading a stream behind a cursor: an entry is handed
to one consumer at most and once at most, and may be passed over or dropped. Two components
implement it (`ImplementsDelivery`). For the consumer group the consumers are the
predictors, `cursor` is the group's last delivered entry, a predictor holds what it has in
hand until `_process_message`, and has taken what it processed: `ReadGroup` and a lost
reply are Hand, `Process` is Take or, for another symbol's entry, Drop, `Restart` drops
everything. For on_chain the one consumer holds the batch from the read to the publication
and has taken what is in a signal; that holds in one life of the process, since the next
one begins with the cursor at 0 again (`on_chain.py:30`). Confluence is no Delivery: read with an id instead of
">", an entry that raised is handed out again.

**SymbolFeed.** `Config`'s symbols, `SymbolManager`'s copy, the ingestor's copy,
the reconnect event and the order book runner (the trade runner is the same code on
its own event). Delays are any time. `touched` is a history variable for the one gap
`FollowsConfig` has to exempt.

**LLMReasoner.** The consumer goes through its streams in `Order`; the summary
generator runs beside it. An entry is TRUE when it leads to a call. `docSpent` and
`seen` are history variables.

**Ingest.** One reader per behaviour, `feed`, since the five share no state: order
books, trades and liquidations from sockets, funding and open interest by polling.
`Receive` is a message up to its first await, withheld or put in `hand`; `XAddRaw`,
`XAddStream` and `XAddFails` are the two commands, after which a socket's reader is gone
and a poller goes on. `StartResync` and `CompleteResync` are ResyncBuffer under its
locks; `ListenerDies` is the KeyError of a "complete" nobody started. `held`, `passed`,
`mark` and `fails` are history variables. Connecting is `SymbolFeed`'s.

**Loader.** The pipeline's task, the bounded queue and the worker, without a
specification of its own: `Lifecycle` extends it. Writes are numbered as they are made.
"taken" is the moment at which `wait_for` has its item and the worker has not gone on,
where Python 3.11 (`Dockerfile.etl`) swallows a cancellation. `cancelled` holds
the cancellations not met yet; `settled` and `written` are the two orders of interest.

**Lifecycle.** `phase` is what `main()` awaits: a start step, its loop, or the end of
`asyncio.run`, which cancels every task once and waits for all. `up` has the parts begun
and neither closed nor waited for; `Unheeded` are the three that `stop()` has no wait for:
the predictors' tasks, and the Redis clients of the configuration and of the cache.
`stop[k]` is the k-th task the signal handler made and the wait of `stop()` it is in;
`Proceed` is the way from one wait to the next, through the manager, `DataExtractor`
(monitor, sockets, ingestors), `Pipeline`, `Loader` and the two closings, and `StopRaises`
an exception of one of them, the one the monitor died of included.
`Ask`, `ExecuteFile`, `InsertRow` and `MigrationFails` are run_migrations, and
`OtherMigrates` the same in another process: `tables` are the files executed, `rows` those
entered, `theirs` the one the other process is between its file and its row with. Earlier
processes may have left either behind (`Init`). `reader` is one task that reads a web
socket, a runner of `BinanceWSIngestor` (`kind` "socket", which stop() does not wait for) or
the liquidation stream (which it cancels and waits for); "got" is to it what "taken" is to the
worker. At most MaxSignals signals are heeded.

**AltData.** One ingestor per behaviour, `source`. All share the loop with its three
attempts; only FRED's failures get to it, since the others log what they catch. `today`
is what FRED has, `got` what an attempt has read of it, `prev` the last of the histories,
`recorded` whether an earlier attempt of the round has appended to them. For on_chain the
stream says which entries can be parsed, and `counted` in how many signals each is. A
behaviour is one life of the ingestor: all it knows is in memory, and a new process starts
its cursor at 0 and its histories empty, so every "once" is of one life.

**Confluence.** Redis' answer to an id instead of ">" is what is pending under the
consumer's name, so the entries 1..Inherited an earlier reader left are all there is.
What is in an entry is chosen when it is first read (`content`). Weights are doubled and
tanh counted in halves, so that scores are exact fractions.

`MC...` modules give the constants values; `...Proofs` modules hold the proofs.

## 3. The runs

| Run | Bounds, and why they are enough | Shows |
|---|---|---|
| circuit_breaker | 3 callers, threshold, window, wait and half-open limit 2, 6 ticks: a call can outlive two openings, and two probes race one late call | SlotsAccounted, CooledDown, HalfOpenResolves, OpenIsProbed |
| book_replica | 2 prices, 2 quantities, 4 versions: gaps of two, sides that are empty, one-sided and full | BookIsExact, MidInsideSpread, ImplementsReplica, CatchesUp |
| microstructure | ids 1..3, one trade id, 2 entries per stream, 1 restart: a gap, the delta that would have closed it, a snapshot beyond it | PublishedOnce, LatestLagsOneStep, GapFreezesBook, SnapshotsReachBook |
| regime_predictor | 2 predictors, 3 entries of which the stream keeps 2, 2 failures, 1 restart | AtMostOnce, OrphansStayPending, ImplementsDelivery, Drained |
| regime_predictor_shared | 1 entry, no failure | violation: the other symbol's predictor acknowledges it unprocessed |
| symbol_feed | 2 symbols, 2 retries, 3 changes: a set is left and returned to | StaleIsFlagged, NoLostWakeup, FollowsConfig, Resubscribes, StopEndsRunner |
| llm_reasoner | 2 streams (one raw) of 2 entries of which Redis may keep 1, cap 1, call cost 1, 2 days: the oldest entry changes under the raw cursor, and the other stream loses an unread one | DocumentsWithinCap, OnlyOldest, ReachesAll, StopEndsLoops |
| llm_reasoner_cap | 1 entry, 1 day | violation: the summary generator calls at the cap |
| ingest | 2 symbols (symmetric), 3 messages each, a buffer of 2, 1 failure: the buffer overflows, and two resyncs of a symbol share it | StreamsAgree, ResyncIsQuiet, BufferIsNewest |
| lifecycle | a queue of 1, batches of 2, 2 entries of a write each, 2 migrations, 2 signals, a reader of either kind: writes are refused, batches of two cut, a file loses its row before another one, two stop tasks, the reader and asyncio.run race | WritesInOrder, SchemaComplete, StoppedIsStopped, SignalEnds |
| altdata | 2 items, 4 entries read 2 at a time, CPI and rate of 3 levels: a bad entry in either half of a batch and before another batch, a fall and a rise | RiskOnIsToldOnce, CountedOnce, ImplementsDelivery, ReadsOn, LoopEnds |
| confluence | 3 sources (an alert needs three), 4 signals whose scores reach every label and both edges, 3 pending entries read 2 at a time, 1 later entry, 1 failure, 1 test, 1 restart | AlertIsStrong, AckedInOrder, Drains |

Properties that the proofs cover and that say least to a reader (the modules'
TypeOK, ClosedBelowThreshold, WedgedForever, StreamedFirst, BookInStep, InHandIsPending,
LostStaysLost, NoneAgain) and OrphansStay of Lifecycle, which
completes SchemaComplete, are proved for every instance and not run.

Every property is stated at the end of its module, with the code it is about. Each
property of a passing run has a mutant: an operator named after the definition it
replaces (`Admits_NoLimit` for `Admits`) with a plausible bug, which makes the
property fail under the run's own configuration.

Some of what holds is not what one would wish; the properties say so:

- `GapFreezesBook`: `last_orderbook_id` also moves past a delta the book refused, so
  once a gap has opened no delta closes it, and a snapshot whose id is not greater
  than the refused delta's is dropped (`manager.py:100`). Nobody reads
  `resync_needed`, which may also stay set after the gap has closed.
- `WedgedForever`: nothing but a result leaves HALF_OPEN; when every probe is
  cancelled, no call is let through any more.
- `LostStaysLost`, `OrphansStayPending`: an entry delivered before a crash or a lost
  reply is never read again, since predictors only ask for ">".
- `OnlyOldest`: `_consume_stream` files the cursor under another name than it looks
  it up by, so of `raw:*` the oldest entry is read, and paid for, in every round.
- `FollowsConfig` exempts a symbol added by hand just before the configuration gets
  it: the monitor compares the configuration with the manager's copy only.
- `Resubscribes` has to wait for the connection to drop: a live one does not look at
  the event.

- `ResyncIsQuiet`: what a resync withholds is never published. `flush` returns it, and
  the listener counts it for a log line ("flushed N messages") and drops it; a symbol
  whose resync is open when the listener dies stays mute.
- `StreamsAgree` lets trades come under the empty symbol: the trade reader takes the
  symbol from the wrapped format only, unlike the order book reader beside it.
- `BufferIsNewest`: the buffer spans resyncs, since `start_resync` does not clear it.
- `SignalEnds` exempts `Deaf`: the worker, a runner of the order books or trades or the
  liquidation reader, when it swallowed its only cancellation in `wait_for` while its
  `_running` is still set, makes `asyncio.run` wait for ever. It is about signals that made
  a stop task; one that arrives during the start is logged and ignored.
- `StoppedIsStopped` says what holds when a stop comes to its end: the pipeline, the worker and
  the liquidation reader are over and the runners told to end; the runners themselves may
  go on a while, and the `Unheeded` parts are left as they are. Mostly a stop does not come
  to its end: it clears `_running` first, `main()` returns within a second, and `asyncio.run`
  cancels the stop task where it is, so the dashboard and the pool can be left open.
- `SchemaComplete` says that no row is there without its file, not the converse: a file can
  be executed and its row never entered, and by `OrphansStay` it then stays so, every later
  start failing on it.
- `ReachesAll` says read or trimmed: with one entry read in a round, `confluence` and `regime`
  streams can lose entries to MAXLEN before the reasoner comes to them.
- `Drains` exempts `Stuck` from some time on for ever: the entry in hand raises whenever
  it is read, because it cannot be read or a text stays among the latest signals.
- `CountedOnce` and on_chain's `ImplementsDelivery` hold in one life.
- `WritesInOrder` speaks of what is not refused: a full queue drops the newest writes,
  also the last chunks of one order book.
- `AckedInOrder`: an entry that raises is read again for ever and holds up all later
  ones; and nothing is ever processed but what was pending before the start.
- `AlertIsStrong` states the two edges: the ranges of `DIRECTION_LABELS` are half open, so an
  alert of full strength is called neutral.
- `RiskOnIsToldOnce`: the CPI's history is appended to before the publication, so when
  that fails the retries compare the CPI with itself; and a request that failed reads as a
  CPI of zero, which is a fall.

CHECK_DEADLOCK is off where a system really comes to rest: after `stop()`, after the exit of
the process, when the bounded streams have been read, or when the bounded messages have
all been received.

### Fairness

- CircuitBreaker: time passes, protected functions return, callers poll. Without the
  last one an open circuit stays open: only a call moves it.
- BookReplica: the snapshot of the current version arrives in the end
  (`depth20@100ms` repeats it).
- Microstructure, RegimePredictor: the event loop runs each task whose command has
  returned, and a command returns or raises.
- SymbolFeed: the event loop runs what is due; an attempt to connect ends; over and
  over one succeeds (strong fairness, since retries alternate with attempts); no
  connection lives for ever (Binance ends it after 24 hours).
- LLMReasoner: requests end; over and over an XREAD that has something returns it
  (strong fairness, since a round goes through all streams).
- Lifecycle: the event loop runs every task that can go on, a statement and a closing
  connection come to an end, a reader that has a message goes on, and so does the one-second sleep of `main()`. Nothing is assumed
  of start steps, migrations, signals or the pipeline's reads.
- AltData: requests and sleeps end, and an XREAD that is tried for ever succeeds over and
  over (strong fairness, since rounds alternate with sleeps).
- Confluence: the loop goes on, and a command tried again and again succeeds in the end
  (failures are bounded by MaxFails).
- Ingest has safety properties only: whether messages arrive is the exchange's affair.

## 4. The proofs

All for every value of the constants, from the named assumptions in the modules (which
TLC evaluates in the runs). Each component's theorems rest on one inductive invariant,
proved action by action; TLC checked the parts of it on the component's run before they were
proved. `CoreProofs` has the proofs about CircuitBreaker and about Lifecycle with Loader,
`AveragesProofs` those about BookReplica and about Confluence, which share the lemmas on
sums; CircuitBreaker and BookReplica therefore say `Breaker` or `Book` in the names that
every other module has too (`BreakerSpec`, `BookTypeOK`).

| Component | Theorems | The invariant, and why it is needed |
|---|---|---|
| CircuitBreaker (CoreProofs) | BreakerTypeCorrect, SlotsAreAccounted, CoolsDown, ClosedIsBelowThreshold, WedgedIsForever | SlotsAccounted is inductive only with ProbesOnlyHalfOpen: slots are counted afresh when a period begins, so nobody may be a probe before it does |
| Lifecycle, Loader (CoreProofs) | LifecycleTypeCorrect, WritesStayInOrder, SchemaStaysComplete, FilesWithoutRowStay, StoppedStaysStopped | the order is that of the concatenation settled, batch, queue, which no regrouping changes; it needs the shape of the batch at each await of the worker and that the writes made are bounded by the entries read (LoaderInv). What a stop task has stopped does not run again, for which no start step may be left once a stop task exists (StartInv, StopInv); whoever closed the pool has seen the worker end (PoolInv), whoever is through with the ingestors has told the reader to stop (ReaderInv), and what nobody waits for is there to the end (UnheededInv). The rows before `next` are there, and a file that still waits for its row has exactly one process about to enter it (SchemaInv), which is why one that lost that process never gets it |
| BookReplica (AveragesProofs) | BookTypeCorrect, Exactness, Refinement, MidStaysInside | a delta takes version n to n + 1 of the recorded market, so a book that is exact stays so; steps map to Replica's Advance, Publish or a stutter. Every version of the market is uncrossed, so an exact book is; and pressures are sums of quantities, so the weighted mid price is an average |
| Confluence (AveragesProofs) | ConfluenceTypeCorrect, AlertsAreStrong, AcksInOrder | what is acknowledged comes before what is pending and is done, the batch is the beginning of what is pending, and so the entry in hand the first of it (GroupInv, BatchInv, HandInv). A score is a sum of terms within their weights, so it is within the sum of the weights, which is not 0: that leaves an alert two ranges and two edges |
| Microstructure | TypeCorrect, BookKeepsStep, GapFreezes, StreamComesFirst, PublishesOnce, LatestLags | a task in "setex" has its output in the stream, and a flagged book is behind the last id the manager saw. For the pairs of outputs: each output of this life is within what the manager has seen of books and trades, which only grows, and the output in hand is beyond every earlier one of its task (HandInv, PastInv, NextInv, SentInv, PubInv) |
| RegimePredictor | TypeCorrect, DeliveredAtMostOnce, HeldIsPending, LostIsForever, OrphansAreForever, GroupImplementsDelivery, NoneHandedTwice | what is in hand, processed, pending or acknowledged lies at or before the group's cursor, and the entry in hand is in no one else's hand and not processed. What XREADGROUP returns lies behind the cursor (ReadableIsNew), so each step is Delivery's Add, Hand, Take, Drop or a stutter; NoneHandedTwice follows for held and taken from their lying at or before the cursor (BehindCursor) |
| SymbolFeed | TypeCorrect, StaleConnectionsAreFlagged, WakeupsAreNotLost | the flag invariant also while the runner sleeps without symbols |
| LLMReasoner | TypeCorrect, DocumentsStayWithinCap, RawStreamsStickToTheOldest, NothingIsReadAgain | docSpent never exceeds the counter, and while a call is under way it was below the cap when the call began |
| Ingest | TypeCorrect, StreamsAgreeAlways, ResyncIsQuietAlways, BufferIsNewestAlways | OrderInv: what is withheld or published was received, the message in hand is newer than its raw stream until the first XADD and in it until the second, and while a resync is open a message in hand is the only one it may let through. BufferInv: an append to a full deque gives up its least message, and flush takes a lower part off the buffer and off what is open alike |
| AltData | TypeCorrect, CountsOnce, TellsRiskOnOnce, OnChainImplementsDelivery | the entries in hand are the ones just read, at or before the cursor and in no signal yet; that the last of the histories is the CPI of this round once it is recorded makes the retries compare it with itself |

Sums over sets (`_pressure_sum`, `_compute_confluence`) are the library's SumFunctionOnSet, a
fold by a recursive function. Its unfolding is proved (`SumIs`) from the existence and the
uniqueness of that function, both by the least counterexample among the subsets of a finite
set; `SumWithin` bounds a sum by the sum of its terms' bounds.

Every invariant the runs check is proved, and of the action properties and refinements those
that are safety properties. Only model-checked is every liveness property (CatchesUp,
SnapshotsReachBook, Drained, HalfOpenResolves, OpenIsProbed, FollowsConfig, Resubscribes,
StopEndsRunner, ReachesAll, StopEndsLoops, SignalEnds, ReadsOn, LoopEnds, Drains): they need
fairness and ENABLED, which the prover does not reach. The two violations have runs only.

## 5. Abstractions

Prices and quantities are small naturals; a stream entry is an id, a symbol, whether it
leads to a call or whether it can be parsed; delays are any time; message formats are left
out but for whether the wrapped one is used. The clock of the breaker is bounded by
MaxTime, the streams by MaxEntries, MaxRaw and MaxSeq, restarts, signals, tests and
failures by bounds of their own, all named in the modules and needed by TLC only (the
proofs do not depend on their values). Components are modelled one at a time with the
commands they issue, except Loader and Lifecycle, which are composed; that ten connections
of one pool serve all readers (`core/redis_bus.py:40`) is therefore not modelled. Logging and
metrics are left out. Time does not run backwards.

Smaller things the modules leave out of what they model:

- Confluence: the XADDs of later signals may trim entries that are pending (MAXLEN 500).
- Microstructure: every message is well formed, so no handler raises before its
  publication, and the raw streams are not trimmed.
- SymbolFeed: no exception ends the monitor; `Lifecycle` has what that does to a stop.
- Lifecycle: the resync listener and the tasks of the manager are, like the predictors, not
  followed as tasks; the manager's are awaited by its own stop.

### Not modelled

- Microstructure features, trade flow, spread: sequential floating-point statistics over
  windows; OFI and the VPIN buckets could be operators over integers.
- Regime model, features, trainer: matrices of floats, out of TLC's reach.
- LLM fetchers, prompts: HTTP and text. What they publish is `LLMReasoner`'s `Produce`.
- Application state, cache: a dictionary, and single Redis commands.
- The classes of `ingestion/extract.py` and `ingestion/ingestors/on_chain.py` that nothing
  instantiates, the dashboard (read-only), deployment.

## 6. Plan

1. Features: OFI, VPIN buckets and trade flow as operators against reference definitions
   over bounded inputs.
2. Proofs: an abstract bounded queue that drops its newest writes and that Loader
   implements.
3. Ingest, Microstructure and RegimePredictor composed over their streams.
