------------------------------- MODULE Loader -------------------------------
(***************************************************************************)
(* The way of market data into the database: the task of                   *)
(* ingestion/pipeline.py, which reads a stream, transforms its entries and *)
(* queues database writes, and the worker of ingestion/load.py, which      *)
(* takes them in batches and executes them.  Lifecycle starts and stops    *)
(* both.                                                                   *)
(*                                                                         *)
(* The pipeline reads three streams in turn with one cursor each; they     *)
(* share the queue and nothing else, so one stream is enough here.  Its    *)
(* consume() is a method RedisBus does not have: it is external, and the   *)
(* behaviours of this commit are those where it raises.                    *)
(***************************************************************************)
EXTENDS Integers, Sequences, FiniteSetsExt, SequencesExt

CONSTANTS QueueSize,   \* DB_QUEUE_SIZE
          BatchMax,    \* the writes a batch may have, 100 in the code
          ChunksMax,   \* bound of the writes an order book is split into
          MaxEntries   \* bound of the entries of the stream

ASSUME LoaderAssumption ==
  /\ QueueSize \in Nat \ {0}
  /\ BatchMax \in Nat \ {0}
  /\ ChunksMax \in Nat
  /\ MaxEntries \in Nat

VARIABLES
  stream,     \* the entries of the stream so far
  cursor,     \* last_ids[stream]
  task,       \* Pipeline._task: it awaits consume(), or is over
  loading,    \* Loader._running
  worker,     \* Loader._db_worker_task: what it awaits
  queue,      \* Loader._db_queue; writes are numbered as they are made
  batch,      \* what the worker has taken
  cancelled,  \* which of the two has a cancellation it has not met yet
  made,       \* history: the writes the pipeline has made
  refused,    \* history: the writes the queue had no room for
  settled,    \* history: the writes the worker is done with, in its order
  written     \* history: the writes the database has executed, in its order

pipeline   == <<stream, cursor, task>>
writes     == <<made, refused, settled, written>>
loaderVars == <<pipeline, loading, worker, queue, batch, cancelled, writes>>

Writes == 1 .. ChunksMax * MaxEntries

LoaderTypeOK ==
  /\ stream \in 0..MaxEntries /\ cursor \in 0..stream
  /\ task \in {"none", "consume", "dead", "ended"}
  /\ loading \in BOOLEAN
  /\ worker \in {"none", "get", "taken", "execute", "ended"}
  /\ queue \in Seq(Writes) /\ Len(queue) <= QueueSize
  /\ batch \in Seq(Writes) /\ Len(batch) <= BatchMax
  /\ cancelled \in SUBSET {"task", "worker"}
  /\ made \in 0 .. ChunksMax * MaxEntries
  /\ refused \in SUBSET Writes
  /\ settled \in Seq(Writes) /\ written \in Seq(Writes)

LoaderInit ==
  /\ stream = 0 /\ cursor = 0 /\ task = "none"
  /\ loading = FALSE /\ worker = "none"
  /\ queue = <<>> /\ batch = <<>> /\ cancelled = {}
  /\ made = 0 /\ refused = {} /\ settled = <<>> /\ written = <<>>

\* Pipeline.start and Loader.start, without an await that waits.
StartPipeline ==
  /\ task' = "consume"
  /\ loading' = TRUE /\ worker' = "get"
  /\ UNCHANGED <<stream, cursor, queue, batch, cancelled, writes>>

Alive == (IF task = "consume" THEN {"task"} ELSE {})
           \cup (IF worker \in {"none", "ended"} THEN {} ELSE {"worker"})

-----------------------------------------------------------------------------
(* The pipeline.                                                           *)

XAdd ==
  /\ stream < MaxEntries
  /\ stream' = stream + 1
  /\ UNCHANGED <<cursor, task, loading, worker, queue, batch, cancelled, writes>>

\* Mutant: a full queue drops its oldest write for the new one.
Enqueued_Newest(q, fresh) ==
  LET all == q \o fresh
  IN  SubSeq(all, Max({1, Len(all) - QueueSize + 1}), Len(all))
\* _enqueue_db_write: put_nowait raises when the queue is full, and the write is dropped.
Enqueued(q, fresh) == q \o SubSeq(fresh, 1, Min({Len(fresh), QueueSize - Len(q)}))

\* The writes that entries make, by load_orderbook and its siblings: none for an empty
\* book or a field that is not a number, one, or one for each chunk of a great book.
WritesOf(entries) == 0 .. ChunksMax * entries

\* consume() returns some of the new entries.  Handling them awaits nothing that waits:
\* put_nowait does not, and publish() is called with a keyword it does not have, which
\* raises and is logged; so stream and state key are never written.  Whatever
\* consume() or decode_message() raises ends the task.
Consume ==
  /\ task = "consume" /\ "task" \notin cancelled
  /\ \E upto \in cursor..stream :
       /\ cursor' = upto
       /\ \E n \in WritesOf(upto - cursor) :
            /\ made' = made + n
            /\ queue' = Enqueued(queue, [i \in 1..n |-> made + i])
            /\ refused' = refused \cup ((made + 1 .. made') \ ToSet(queue'))
  /\ task' \in {"consume", "dead"}
  /\ UNCHANGED <<stream, loading, worker, batch, cancelled, settled, written>>

TaskMeetsCancel ==
  /\ "task" \in cancelled
  /\ task' = "ended"
  /\ cancelled' = cancelled \ {"task"}
  /\ UNCHANGED <<stream, cursor, loading, worker, queue, batch, writes>>

-----------------------------------------------------------------------------
(* The worker.                                                             *)

\* The task wait_for() made for queue.get() has an item.
Take ==
  /\ worker = "get" /\ "worker" \notin cancelled /\ queue # <<>>
  /\ worker' = "taken"
  /\ batch' = <<Head(queue)>> /\ queue' = Tail(queue)
  /\ UNCHANGED <<pipeline, loading, cancelled, writes>>

\* The worker goes on with it and takes what else is there.
Fill ==
  /\ worker = "taken" /\ "worker" \notin cancelled
  /\ LET n == Min({Len(queue), BatchMax - 1})
     IN  /\ batch' = batch \o SubSeq(queue, 1, n)
         /\ queue' = SubSeq(queue, n + 1, Len(queue))
  /\ worker' = "execute"
  /\ UNCHANGED <<pipeline, loading, cancelled, writes>>

\* A write returns, or raises and is logged, executed or not.  A closed pool raises.
Execute(open) ==
  /\ worker = "execute" /\ "worker" \notin cancelled
  /\ \/ open /\ written' = Append(written, Head(batch))
     \/ UNCHANGED written
  /\ batch' = Tail(batch)
  /\ settled' = Append(settled, Head(batch))
  /\ worker' = IF batch' # <<>> THEN "execute" ELSE IF loading THEN "get" ELSE "ended"
  /\ UNCHANGED <<pipeline, loading, queue, cancelled, made, refused>>

\* CancelledError reaches the worker.  While it waits for an item it ends.  When
\* wait_for() has its item the item is returned instead (Python 3.11), and the worker
\* goes on.  In execute() it ends, and the write in flight is executed or not.
WorkerMeetsCancel ==
  /\ "worker" \in cancelled
  /\ cancelled' = cancelled \ {"worker"}
  /\ IF worker = "taken"
     THEN UNCHANGED <<worker, written>>
     ELSE /\ worker' = "ended"
          /\ \/ UNCHANGED written
             \/ worker = "execute" /\ written' = Append(written, Head(batch))
  /\ UNCHANGED <<pipeline, loading, queue, batch, made, refused, settled>>

\* An empty queue for a second, and _running is tested.
Leave ==
  /\ worker = "get" /\ ~loading /\ "worker" \notin cancelled /\ queue = <<>>
  /\ worker' = "ended"
  /\ UNCHANGED <<pipeline, loading, queue, batch, cancelled, writes>>

LoaderNext(open) ==
  \/ XAdd \/ Consume \/ TaskMeetsCancel
  \/ Take \/ Fill \/ Execute(open) \/ WorkerMeetsCancel \/ Leave

-----------------------------------------------------------------------------
Ordered(log) == \A i, j \in 1..Len(log) : i < j => log[i] < log[j]

\* A write is refused when it is made or it stays: in the queue, in the batch, then
\* settled, in the order the writes were made and none twice.  Of what is not settled
\* the database has the first at most, which a cancellation caught in flight
\* (_enqueue_db_write, _db_worker, _execute_batch).
WritesInOrder ==
  LET unsettled == batch \o queue
      accepted  == settled \o unsettled
  IN  /\ Ordered(accepted) /\ Ordered(written)
      /\ ToSet(accepted) = (1..made) \ refused
      /\ \A w \in ToSet(written) :
           \/ w \in ToSet(settled)
           \/ worker = "ended" /\ batch # <<>> /\ w = Head(batch)
=============================================================================
