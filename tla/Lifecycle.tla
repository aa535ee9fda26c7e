------------------------------ MODULE Lifecycle -----------------------------
(***************************************************************************)
(* main.py from the first start step to the exit of the process, with the  *)
(* migrations of core/database.py, the signal handler, stop() and what     *)
(* asyncio.run does when main() returns; the pipeline and its worker are   *)
(* Loader's.                                                               *)
(*                                                                         *)
(* Every await of a start step may raise.  At this commit the second       *)
(* always does (core/config.py:99 names a function that is not imported);  *)
(* the model has its success too, and with it the rest of the code.        *)
(*                                                                         *)
(* Of the readers of web sockets a behaviour follows one, since they share *)
(* no state: an order book or trade runner of BinanceWSIngestor, or the    *)
(* liquidation stream of BinanceFuturesIngestor.                           *)
(***************************************************************************)
EXTENDS Loader

CONSTANTS Migrations,  \* bound of the files in MIGRATIONS_DIR
          MaxSignals   \* bound of the signals that are heeded

ASSUME LifecycleAssumption == Migrations \in Nat /\ MaxSignals \in Nat \ {0}

VARIABLES
  phase,    \* what main() awaits
  running,  \* RegimeIQ._running
  code,     \* the exit status
  up,       \* the parts that nobody has closed or waited for since they were begun
  next,     \* the migration run_migrations is at
  step,     \* what it awaits about it
  tables,   \* the migration files that are executed, in the database
  rows,     \* schema_migrations, in the database
  theirs,   \* the file another process has executed and not entered yet, 0 for none
  stop,     \* the tasks made by the signal handler: what each awaits in stop()
  kind,     \* whose reader this behaviour follows
  reader,   \* what it awaits
  reading,  \* _running of its ingestor
  struck    \* it has a cancellation that it has not met yet

process == <<phase, running, code, up>>
schema  == <<next, step, tables, rows, theirs>>
feed    == <<kind, reader, reading, struck>>
vars    == <<loaderVars, process, schema, stop, feed>>

\* start(), by what it awaits; the first two are config.initialize's.  Ingestion and
\* modules are begun without waiting.
After == [database   |-> "client",     client     |-> "redis",
          redis      |-> "cache",      cache      |-> "migrations",
          migrations |-> "config",     config     |-> "symbols",
          symbols    |-> "ingestion",  ingestion  |-> "system",
          system     |-> "loop"]
\* stop(), likewise; sockets and ingestors are DataExtractor's two ingestors with tasks,
\* pipeline and loader the two waits of Pipeline.stop.
Then == [begin     |-> "manager",   manager   |-> "monitor",   monitor  |-> "sockets",
         sockets   |-> "ingestors", ingestors |-> "pipeline",  pipeline |-> "loader",
         loader    |-> "database",  database  |-> "redis",     redis    |-> "done"]

Starting == DOMAIN After
Stopping == DOMAIN Then
Over     == {"done", "raised", "cut"}
Tasks    == 1..MaxSignals
\* What stop() does not wait for: the predictors, which it only cancels, and the Redis
\* clients of the configuration and of the cache, which nothing closes.
Unheeded == {"predictors", "configClient", "cacheClient"}
Parts    == {"manager", "monitor", "sockets", "ingestors", "dashboard", "database", "redis"}
              \cup Unheeded
Ready    == {"config", "symbols", "ingestion", "system", "loop"}

TypeOK ==
  /\ LoaderTypeOK
  /\ phase \in Starting \cup {"loop", "cancelling", "exited"}
  /\ running \in BOOLEAN /\ code \in {0, 1}
  /\ up \in SUBSET Parts
  /\ next \in 1 .. Migrations + 1 /\ step \in {"ask", "file", "row"}
  /\ tables \in SUBSET (1..Migrations) /\ rows \in SUBSET (1..Migrations)
  /\ theirs \in 0..Migrations
  /\ stop \in [Tasks -> {"none"} \cup Stopping \cup Over]
  /\ kind \in {"socket", "liquidation"} /\ reader \in {"none", "recv", "got", "idle", "ended"}
  /\ reading \in BOOLEAN /\ struck \in BOOLEAN

\* Earlier processes may have left any number of migrations, the last of them without
\* its row; and docker-compose.yml:13 has the database execute all of them itself, which
\* leaves no row at all.
Init ==
  /\ LoaderInit
  /\ phase = "database" /\ running = FALSE /\ code = 0 /\ up = {}
  /\ next = 1 /\ step = "ask" /\ theirs = 0
  /\ \E n \in 0..Migrations, m \in 0..Migrations :
       /\ m \in {n, n - 1} \/ (m = 0 /\ n = Migrations)
       /\ tables = 1..n /\ rows = 1..m
  /\ stop = [k \in Tasks |-> "none"]
  /\ kind \in {"socket", "liquidation"} /\ reader = "none" /\ reading = FALSE /\ struck = FALSE

-----------------------------------------------------------------------------
(* Start.                                                                  *)

\* Parts that are begun by a start step.
Brought(p) ==
  CASE p \in {"database", "redis"} -> {p}
    [] p = "client" -> {"configClient"}
    [] p = "cache" -> {"cacheClient"}
    [] p = "ingestion" -> {"manager", "monitor", "sockets", "ingestors", "predictors"}
    [] OTHER -> {}

StartStep ==
  /\ phase \in Starting \ {"migrations", "system"}
  /\ phase' = After[phase]
  /\ up' = up \cup Brought(phase)
  /\ IF phase = "ingestion"
     THEN StartPipeline /\ reader' = "recv" /\ reading' = TRUE
     ELSE UNCHANGED <<loaderVars, reader, reading>>
  /\ UNCHANGED <<running, code, schema, stop, kind, struck>>

\* The last await of start(); the dashboard is begun in the same step, or fails.
Operational ==
  /\ phase = "system"
  /\ phase' = "loop" /\ running' = TRUE
  /\ up' \in {up, up \cup {"dashboard"}}
  /\ UNCHANGED <<loaderVars, code, schema, stop, feed>>

\* The reader is a task that is not over.
Reads == reader \notin {"none", "ended"}

\* asyncio.run's end: every task that is not over is cancelled, once, and waited for.
\* In stop() the waits for monitor, pipeline and worker pass the cancellation to the
\* task they wait for and swallow it.
CancelAll ==
  /\ phase' = "cancelling"
  /\ cancelled' = cancelled \cup Alive
  /\ struck' = (struck \/ Reads)
  /\ stop' = [k \in Tasks |->
        IF stop[k] \in Stopping \ {"monitor", "pipeline", "loader"} THEN "cut" ELSE stop[k]]
  /\ UNCHANGED <<pipeline, loading, worker, queue, batch, writes, kind, reader, reading>>

\* sys.exit(1), whatever the step had begun.  A task begun in the step has not run yet,
\* and ends without running.
StartFails ==
  /\ phase \in Starting
  /\ \E begun \in SUBSET Brought(phase) : up' = up \cup begun
  /\ code' = 1
  /\ CancelAll
  /\ UNCHANGED <<running, schema>>

-----------------------------------------------------------------------------
(* run_migrations: one connection, the files in the order of their names.  *)
(* A file has a BEGIN and a COMMIT of its own, which end the transaction   *)
(* that is begun around it; its row is written after it, on its own.       *)

Migrating == phase = "migrations" /\ next <= Migrations

Ask ==
  /\ Migrating /\ step = "ask"
  /\ IF next \in rows THEN next' = next + 1 /\ UNCHANGED step
                      ELSE step' = "file" /\ UNCHANGED next
  /\ UNCHANGED <<loaderVars, process, tables, rows, theirs, stop, feed>>

\* A file that is executed already raises: its CREATE INDEX does.
ExecuteFile ==
  /\ Migrating /\ step = "file" /\ next \notin tables
  /\ tables' = tables \cup {next} /\ step' = "row"
  /\ UNCHANGED <<loaderVars, process, next, rows, theirs, stop, feed>>

InsertRow ==
  /\ Migrating /\ step = "row"
  /\ rows' = rows \cup {next}
  /\ next' = next + 1 /\ step' = "ask"
  /\ UNCHANGED <<loaderVars, process, tables, theirs, stop, feed>>

\* Mutant: a migration that raises is logged, and the next one is tried.
Raises_Logged == FALSE
\* A migration that raises ends the start.
Raises == TRUE

\* The file or the row raises, executed or not.
MigrationFails ==
  /\ Migrating /\ step \in {"file", "row"}
  /\ tables' \in {tables} \cup (IF step = "file" THEN {tables \cup {next}} ELSE {})
  /\ rows' \in {rows} \cup (IF step = "row" THEN {rows \cup {next}} ELSE {})
  /\ IF Raises
     THEN CancelAll /\ code' = 1 /\ UNCHANGED <<next, step>>
     ELSE next' = next + 1 /\ step' = "ask" /\ UNCHANGED <<loaderVars, phase, code, stop, feed>>
  /\ UNCHANGED <<running, up, theirs>>

Migrated ==
  /\ phase = "migrations" /\ next > Migrations
  /\ phase' = After[phase]
  /\ UNCHANGED <<loaderVars, running, code, up, schema, stop, feed>>

\* Another process runs the same code: it has executed a file, has entered its row, or
\* is gone before it has.
OtherMigrates ==
  /\ \/ \E m \in 1..Migrations :
          /\ theirs = 0 /\ m \notin tables /\ 1 .. m - 1 \subseteq rows
          /\ tables' = tables \cup {m} /\ theirs' = m /\ UNCHANGED rows
     \/ /\ theirs # 0 /\ theirs' = 0
        /\ rows' \in {rows, rows \cup {theirs}} /\ UNCHANGED tables
  /\ UNCHANGED <<loaderVars, process, next, step, stop, feed>>

-----------------------------------------------------------------------------
(* The reader: wait_for(ws.recv(), 30) in a loop that looks at _running.   *)

\* The task wait_for() made for recv() has a message.
Got ==
  /\ reader = "recv" /\ ~struck
  /\ reader' = "got"
  /\ UNCHANGED <<kind, reading, struck>>

\* The message is dealt with, and _running tested.
GoesOn ==
  /\ reader = "got" /\ ~struck
  /\ reader' = IF reading THEN "recv" ELSE "ended"
  /\ UNCHANGED <<kind, reading, struck>>

\* CancelledError reaches it.  When wait_for() has its message that is returned instead
\* (Python 3.11), and the reader goes on.
ReaderMeetsCancel ==
  /\ struck
  /\ struck' = FALSE
  /\ reader' = IF reader = "got" THEN "got" ELSE "ended"
  /\ UNCHANGED <<kind, reading>>

\* The socket is closed, or the 30 seconds or a backoff are over, and _running is tested.
ReaderLeaves ==
  /\ reader = "recv" /\ ~reading /\ ~struck
  /\ reader' = "ended"
  /\ UNCHANGED <<kind, reading, struck>>

\* A runner waits for an event, which it does not do with symbols to read; the monitor
\* tells it of new ones.
Idles ==
  /\ kind = "socket" /\ ~struck
  /\ \/ reader = "recv" /\ reading /\ reader' = "idle"
     \/ reader = "idle" /\ phase = "loop" /\ "monitor" \in up /\ reader' = "recv"
  /\ UNCHANGED <<kind, reading, struck>>

ReaderSteps ==
  /\ Got \/ GoesOn \/ ReaderMeetsCancel \/ ReaderLeaves \/ Idles
  /\ UNCHANGED <<loaderVars, process, schema, stop>>

-----------------------------------------------------------------------------
(* Stop.                                                                   *)

\* The handler makes a task for stop() while is_running(), and otherwise does nothing.
Signal ==
  /\ running
  /\ \E k \in Tasks :
       /\ stop[k] = "none" /\ \A j \in 1 .. k - 1 : stop[j] # "none"
       /\ stop' = [stop EXCEPT ![k] = "begin"]
  /\ UNCHANGED <<loaderVars, process, schema, feed>>

\* Mutant: Loader.stop cancels the worker and does not wait for it.
Awaited_NotWorker(w) ==
  /\ w = "ingestors" /\ kind = "liquidation" => reader = "ended"
  /\ w = "pipeline" => task = "ended"
\* The waits that last until a task is over.  A socket's runner nobody waits for.
Awaited(w) ==
  /\ w = "ingestors" /\ kind = "liquidation" => reader = "ended"
  /\ w = "pipeline" => task = "ended"
  /\ w = "loader" => worker = "ended"

\* Mutant: stop() waits for the end of a task that died before.
Onward_Waits(w) == Then[w]
\* What follows a wait.  Pipeline.stop awaits a task that died, and so raises again.
Onward(w) == IF w = "ingestors" /\ task = "dead" THEN "raised" ELSE Then[w]

\* The stop task that is on its way to w clears the _running of the reader's ingestor.
Halts(w) == w = IF kind = "socket" THEN "sockets" ELSE "ingestors"

\* A stop task goes on to its next wait: RegimeIQ.stop, the manager's, DataExtractor's,
\* Pipeline's, Loader's, and the two close().  The dashboard is waited for without
\* awaiting, before the database is closed.
Proceed(k) ==
  /\ stop[k] \in Stopping /\ Awaited(stop[k])
  /\ stop' = [stop EXCEPT ![k] = Onward(@)]
  /\ running' = FALSE
  /\ up' = up \ (IF stop[k] = "loader" THEN {"dashboard"} ELSE {stop[k]})
  /\ loading' = (loading /\ stop[k] # "pipeline")
  /\ cancelled' = cancelled \cup (Alive \cap
        CASE stop'[k] = "pipeline" -> {"task"} [] stop'[k] = "loader" -> {"worker"}
          [] OTHER -> {})
  /\ reading' = (reading /\ ~Halts(stop'[k]))
  /\ struck' = (struck \/ (kind = "liquidation" /\ Halts(stop'[k]) /\ Reads))
  /\ UNCHANGED <<phase, code, schema, pipeline, worker, queue, batch, writes, kind, reader>>

\* The monitor died of an exception, or a socket, the session, the pool or the
\* connection raises while it is closed.
StopRaises(k) ==
  /\ stop[k] \in {"monitor", "sockets", "ingestors", "database", "redis"}
  /\ stop' = [stop EXCEPT ![k] = "raised"]
  /\ UNCHANGED <<loaderVars, process, schema, feed>>

\* The loop of main() wakes, once a second.
MainReturns ==
  /\ phase = "loop" /\ ~running
  /\ CancelAll
  /\ UNCHANGED <<running, code, up, schema>>

\* Only the dashboard, a process of its own, can outlive this.
Exit ==
  /\ phase = "cancelling" /\ Alive = {} /\ ~Reads
  /\ \A k \in Tasks : stop[k] \notin Stopping
  /\ phase' = "exited" /\ up' = up \cap {"dashboard"}
  /\ UNCHANGED <<loaderVars, running, code, schema, stop, feed>>

LoaderSteps ==
  /\ LoaderNext("database" \in up)
  /\ UNCHANGED <<process, schema, stop, feed>>

Next ==
  \/ StartStep \/ Operational \/ StartFails
  \/ Ask \/ ExecuteFile \/ InsertRow \/ MigrationFails \/ Migrated \/ OtherMigrates
  \/ Signal \/ MainReturns \/ Exit
  \/ \E k \in Tasks : Proceed(k) \/ StopRaises(k)
  \/ LoaderSteps \/ ReaderSteps

\* The loop runs every task that can go on, a statement, a closing connection and a
\* receive come to an end, and the sleep of main() does.
Fairness ==
  /\ WF_vars(MainReturns) /\ WF_vars(Exit)
  /\ \A k \in Tasks : WF_vars(Proceed(k))
  /\ LET Worker == Take \/ Fill \/ Execute("database" \in up) \/ WorkerMeetsCancel \/ Leave
         Reader == GoesOn \/ ReaderMeetsCancel \/ ReaderLeaves
     IN  /\ WF_vars(Worker /\ UNCHANGED <<process, schema, stop, feed>>)
         /\ WF_vars(TaskMeetsCancel /\ UNCHANGED <<process, schema, stop, feed>>)
         /\ WF_vars(Reader /\ UNCHANGED <<loaderVars, process, schema, stop>>)

Spec == Init /\ [][Next]_vars /\ Fairness

-----------------------------------------------------------------------------
\* Files are executed and rows entered in order and without a gap, whoever did it and
\* whatever failed, no row is there without its file, and nothing that needs the schema
\* begins before the last row (run_migrations).
SchemaComplete ==
  /\ \A m \in tables : 1..m \subseteq tables
  /\ \A m \in rows : 1..m \subseteq rows
  /\ rows \subseteq tables
  /\ phase \in Ready => rows = 1..Migrations

\* Files whose row nobody is about to enter.
Orphans ==
  {m \in tables \ rows : m # theirs /\ ~(phase = "migrations" /\ step = "row" /\ m = next)}

\* A file that lost its row stays without it: every start executes the file again, which
\* raises (001_core_schema.sql:119 ends the transaction of database.py:113 before the
\* row is entered).  With SchemaComplete, no start gets past the migrations again.
OrphansStay == [][Orphans \subseteq Orphans']_vars

\* A task that asyncio.run waits for for ever: the worker or the reader has swallowed the
\* only cancellation it gets while _running is still set for it; or the runner did, and
\* has come to wait for its event.
Deaf ==
  /\ phase = "cancelling"
  /\ \/ loading /\ "worker" \in Alive /\ "worker" \notin cancelled
     \/ (reading \/ reader = "idle") /\ Reads /\ ~struck

\* A stop() that comes to its end, also with another one beside it, and with main()
\* cancelling both, has seen the pipeline, the worker and the liquidation reader end and
\* has told the runners to; it leaves just what it does not wait for.  The pool is closed
\* by stop() after the worker is over, so no queued write meets a closed pool.  A
\* dashboard outlives the process only when every stop() was cut or raised before it.
StoppedIsStopped ==
  /\ \A k \in Tasks : stop[k] \in {"redis", "done"} =>
       Alive = {} /\ ~reading /\ (kind = "liquidation" => reader = "ended")
  /\ \A k \in Tasks : stop[k] = "done" /\ phase # "exited" => up = Unheeded
  /\ phase \in {"loop", "cancelling"} /\ "database" \notin up /\ code = 0 => worker = "ended"
  /\ phase = "exited" /\ up # {} => \A k \in Tasks : stop[k] # "done"

\* A signal that is heeded ends the process, even when stop() raises or is cut, unless
\* a task has swallowed its cancellation: then asyncio.run waits for ever.
SignalEnds == stop[1] = "begin" ~> [](phase = "exited" \/ Deaf)
=============================================================================
