----------------------------- MODULE SymbolFeed -----------------------------
(***************************************************************************)
(* The way from the configured symbols to a live subscription:             *)
(* ingestion/extract.py: SymbolManager.start_monitoring and DataExtractor, *)
(* ingestion/ingestors/binance_ws.py: update_symbols, ExponentialBackoff   *)
(* and one of BinanceWSIngestor's runners (_run_orderbook_streams with     *)
(* _connect_orderbook_stream_simple; the trade runner is the same code on  *)
(* an event of its own).                                                   *)
(*                                                                         *)
(* The stretches between two awaits are the actions.  A delay is any time: *)
(* the clock matters to no guard here.                                     *)
(***************************************************************************)
EXTENDS Integers

CONSTANTS Universe,    (* the symbols there are                             *)
          MaxRetries,  (* BackoffConfig.max_retries                         *)
          MaxChanges   (* bound of the changes of the configured and the    *)
                       (* managed symbols                                   *)

ASSUME FeedAssumption ==
  /\ MaxRetries \in Nat
  /\ MaxChanges \in Nat

VARIABLES
  config,      \* Config.get_symbols()
  managed,     \* SymbolManager._symbols
  symbols,     \* BinanceWSIngestor.symbols
  event,       \* _orderbook_reconnect_event
  running,     \* BinanceWSIngestor._running; DataExtractor.stop clears it
  pc,          \* what the runner awaits
  attempt,     \* ExponentialBackoff.attempt
  subscribed,  \* the symbols in the URL of the latest connection
  changes,     \* history: how often config or managed was changed
  touched      \* history: add_symbol or remove_symbol was called since the
               \* monitor last found a difference

history == <<changes, touched>>
monitor == <<managed, symbols, event>>
runner  == <<pc, attempt, subscribed>>
vars    == <<config, monitor, running, runner, history>>

\* The runner waits for the event, sleeps a second for want of symbols, opens a
\* connection, reads it, sleeps before a retry, sleeps 30 seconds after the last
\* one, or has returned.
Awaits == {"event", "no_symbols", "connect", "recv", "backoff", "rest", "done"}

TypeOK ==
  /\ config \in SUBSET Universe
  /\ managed \in SUBSET Universe
  /\ symbols \in SUBSET Universe
  /\ event \in BOOLEAN
  /\ running \in BOOLEAN
  /\ pc \in Awaits
  /\ attempt \in 0..MaxRetries
  /\ subscribed \in SUBSET Universe
  /\ changes \in 0..MaxChanges
  /\ touched \in BOOLEAN

\* DataExtractor.start: the ingestor is given the manager's symbols.
Init ==
  /\ config \in SUBSET Universe
  /\ managed = config /\ symbols = config
  /\ event = TRUE /\ running = TRUE
  /\ pc = "event" /\ attempt = 0 /\ subscribed = {}
  /\ changes = 0 /\ touched = FALSE

-----------------------------------------------------------------------------
Changes ==
  /\ running
  /\ changes < MaxChanges
  /\ changes' = changes + 1

\* reload() loads other symbols from system_config.  (As the code stands the load
\* raises, config.py:99 having no get_db, and config keeps its default: then this
\* action never happens, and what holds with it holds without it.)
Reload ==
  /\ Changes
  /\ config' \in SUBSET Universe \ {config}
  /\ UNCHANGED <<monitor, running, runner, touched>>

\* add_symbol and remove_symbol change the manager's copy only.
AddSymbol ==
  /\ Changes
  /\ \E s \in Universe \ managed : managed' = managed \cup {s}
  /\ touched' = TRUE
  /\ UNCHANGED <<config, symbols, event, running, runner>>

RemoveSymbol ==
  /\ Changes
  /\ \E s \in managed : managed' = managed \ {s}
  /\ touched' = TRUE
  /\ UNCHANGED <<config, symbols, event, running, runner>>

\* update_symbols: the event is set when the new set differs.
UpdateSymbols(new) ==
  /\ symbols' = new
  /\ event' = (event \/ new # symbols)

\* Mutant: the ingestor is not told.
Monitor_Silent ==
  /\ running /\ managed # config
  /\ managed' = config
  /\ touched' = FALSE
  /\ UNCHANGED <<config, symbols, event, running, runner, changes>>

\* One round of start_monitoring that finds a difference.
Monitor ==
  /\ running /\ managed # config
  /\ managed' = config
  /\ UpdateSymbols(config)
  /\ touched' = FALSE
  /\ UNCHANGED <<config, running, runner, changes>>

\* DataExtractor.stop: the monitor's task is cancelled, _running cleared and the
\* socket closed.
Stop ==
  /\ running
  /\ running' = FALSE
  /\ UNCHANGED <<config, monitor, runner, history>>

-----------------------------------------------------------------------------
\* The condition of the inner loop.
\* Mutant: it does not look at _running.
KeepsConnecting_Always == symbols # {}
KeepsConnecting == running /\ symbols # {}

\* What the next connection subscribes to.
\* Mutant: the URL is built once.
Streams_Once == IF subscribed = {} THEN symbols ELSE subscribed
Streams == symbols

\* The inner loop goes round, or ends and the outer one goes round or ends.
Loop ==
  IF KeepsConnecting
  THEN pc' = "connect" /\ subscribed' = Streams
  ELSE pc' = (IF running THEN "event" ELSE "done") /\ UNCHANGED subscribed

\* The event is there: it is cleared, and a new ExponentialBackoff made.
TakeEvent ==
  /\ pc = "event" /\ event
  /\ event' = FALSE
  /\ IF symbols = {}
     THEN pc' = "no_symbols" /\ UNCHANGED <<attempt, subscribed>>
     ELSE attempt' = 0 /\ Loop
  /\ UNCHANGED <<config, managed, symbols, running, history>>

\* Mutant: the event is cleared after the second without symbols.
SleptWithoutSymbols_Clears ==
  /\ pc = "no_symbols"
  /\ pc' = (IF running THEN "event" ELSE "done")
  /\ event' = FALSE
  /\ UNCHANGED <<config, managed, symbols, running, attempt, subscribed, history>>

SleptWithoutSymbols ==
  /\ pc = "no_symbols"
  /\ pc' = (IF running THEN "event" ELSE "done")
  /\ UNCHANGED <<config, monitor, running, attempt, subscribed, history>>

\* Mutant: the event is cleared once the connection is there.
Connected_Clears ==
  /\ pc = "connect"
  /\ pc' = "recv"
  /\ event' = FALSE
  /\ UNCHANGED <<config, managed, symbols, running, attempt, subscribed, history>>

Connected ==
  /\ pc = "connect"
  /\ pc' = "recv"
  /\ UNCHANGED <<config, monitor, running, attempt, subscribed, history>>

Exhausted == attempt >= MaxRetries

\* Connecting or reading raises; a connection that was up does not reset the
\* backoff.
ConnectionFails ==
  /\ pc \in {"connect", "recv"}
  /\ pc' = IF Exhausted THEN "rest" ELSE "backoff"
  /\ UNCHANGED <<config, monitor, running, attempt, subscribed, history>>

\* The reading loop sees that _running was cleared and returns.
ReadingEnds ==
  /\ pc = "recv" /\ ~running
  /\ Loop
  /\ UNCHANGED <<config, monitor, running, attempt, history>>

\* backoff.wait() returns, or the 30 seconds are over and the backoff is reset.
Retry ==
  /\ pc \in {"backoff", "rest"}
  /\ attempt' = IF pc = "backoff" THEN attempt + 1 ELSE 0
  /\ Loop
  /\ UNCHANGED <<config, monitor, running, history>>

RunnerGoesOn == TakeEvent \/ SleptWithoutSymbols \/ ReadingEnds \/ Retry

Next ==
  \/ Reload \/ AddSymbol \/ RemoveSymbol \/ Monitor \/ Stop
  \/ RunnerGoesOn \/ Connected \/ ConnectionFails

Spec == Init /\ [][Next]_vars

\* The event loop runs what is due.  Of the exchange: an attempt to connect comes
\* to an end, over and over one succeeds, and no connection is kept for ever
\* (Binance closes it after 24 hours).
FairSpec ==
  /\ Spec
  /\ WF_vars(Monitor)
  /\ WF_vars(RunnerGoesOn)
  /\ WF_vars(ConnectionFails)
  /\ SF_vars(Connected)

-----------------------------------------------------------------------------
\* A connection that is opened or read for other symbols than the current ones is
\* flagged by the event, whatever the symbols did while it was being opened: no
\* change goes unnoticed (update_symbols against the runner's clear).
StaleIsFlagged ==
  pc \in {"connect", "recv"} /\ subscribed # symbols => event

\* The runner never waits for the event while there are symbols to subscribe to:
\* no wake-up is lost between the clear, the second without symbols and the wait.
NoLostWakeup == pc = "event" /\ running /\ symbols # {} => event

\* Once changes end, manager and ingestor have the configured symbols: what
\* add_symbol and remove_symbol did is undone.  One gap is in the code: the monitor
\* compares config with the manager's copy, so a symbol that is added by hand just
\* before config gets it too makes no difference, and the ingestor is not told.
FollowsConfig ==
  <>[](~running \/ (managed = config /\ (symbols = config \/ touched)))

\* As long as it runs and has symbols, the feed is again and again connected for
\* exactly its current ones, over changes, refused and dropped connections.
Resubscribes ==
  []<>(~running \/ symbols = {} \/ (pc = "recv" /\ subscribed = symbols))

\* After stop() the runner returns, unless it waits for an event that will never
\* come: it has no symbols, and nobody cancels the task.
StopEndsRunner ==
  ~running ~> (pc = "done" \/ (pc = "event" /\ ~event /\ symbols = {}))
=============================================================================
