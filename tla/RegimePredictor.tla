--------------------------- MODULE RegimePredictor ---------------------------
(***************************************************************************)
(* modules/regime/predictor.py: the predictors of all symbols, the readers *)
(* of one consumer group on stream:microstructure.  main.py runs one task  *)
(* per symbol in one process; Redis keeps the stream, the group's cursor   *)
(* and its pending entries over restarts.                                  *)
(*                                                                         *)
(* An entry is its index in the stream.  Of its fields only the symbol is  *)
(* kept.  Between the reply of XREADGROUP and the XACK a predictor does    *)
(* not suspend: no producer's message has a mid price at its top level, so *)
(* RegimeFeatures.is_ready stays false and neither inference nor fallback  *)
(* is reached.                                                             *)
(***************************************************************************)
EXTENDS Integers, Sequences, FiniteSets

CONSTANTS Symbols,      (* a predictor each                                 *)
          MaxEntries,   (* bound of the entries ever published              *)
          MaxLen,       (* RedisBus._get_maxlen("stream:microstructure")    *)
          MaxFailures,  (* bound of the failing Redis calls                 *)
          MaxRestarts   (* bound of the number of restarts                  *)

ASSUME PredictorAssumption ==
  /\ MaxEntries \in Nat
  /\ MaxLen \in Nat
  /\ MaxFailures \in Nat
  /\ MaxRestarts \in Nat

VARIABLES
  stream,         \* the symbol of every entry ever published
  trimmed,        \* how many of them MAXLEN has removed
  groupExists,    \* the consumer group "regime-predictor"
  lastDelivered,  \* the group's cursor
  pending,        \* the group's pending entries: [entry, consumer]
  acked,          \* history: the entries acknowledged
  pc,             \* what each predictor does next
  hand,           \* the entry each predictor holds, 0 for none
  processed,      \* history: the entries each predictor took into its features
  failures,       \* history: how many Redis calls failed
  restarts        \* history: how many times the process was restarted

group      == <<groupExists, lastDelivered, pending, acked>>
predictors == <<pc, hand, processed>>
vars       == <<stream, trimmed, group, predictors, failures, restarts>>

Entries == Nat \ {0}
States  == {"setup", "xreadgroup", "process", "xack", "sleep", "stopped"}

TypeOK ==
  /\ stream \in Seq(Symbols)
  /\ trimmed \in Nat
  /\ groupExists \in BOOLEAN
  /\ lastDelivered \in Nat
  /\ pending \in SUBSET [entry : Entries, consumer : Symbols]
  /\ acked \in SUBSET Entries
  /\ pc \in [Symbols -> States]
  /\ hand \in [Symbols -> Nat]
  /\ processed \in [Symbols -> Seq(Entries)]
  /\ failures \in Nat
  /\ restarts \in Nat

Init ==
  /\ stream = <<>> /\ trimmed = 0
  /\ groupExists = FALSE /\ lastDelivered = 0 /\ pending = {} /\ acked = {}
  /\ pc = [s \in Symbols |-> "setup"]
  /\ hand = [s \in Symbols |-> 0]
  /\ processed = [s \in Symbols |-> <<>>]
  /\ failures = 0 /\ restarts = 0

-----------------------------------------------------------------------------
GoTo(s, state) == pc' = [pc EXCEPT ![s] = state]

\* A Redis call of predictor s fails.
Fails ==
  /\ failures < MaxFailures
  /\ failures' = failures + 1

\* XADD with an approximate MAXLEN: Redis may keep more entries, never fewer.
Publish ==
  /\ Len(stream) < MaxEntries
  /\ \E s \in Symbols : stream' = Append(stream, s)
  /\ trimmed' \in {n \in trimmed..Len(stream) : n = trimmed \/ Len(stream) + 1 - n >= MaxLen}
  /\ UNCHANGED <<group, predictors, failures, restarts>>

\* Where the group starts to read a stream it finds on its creation.
\* Mutant: id="$", behind the last entry.
StartId_End == Len(stream)
StartId == 0

\* Mutant: an existing group is destroyed and created again.
Setup_Recreates(s) ==
  /\ pc[s] = "setup"
  /\ groupExists' = TRUE
  /\ lastDelivered' = StartId /\ pending' = {}
  /\ GoTo(s, "xreadgroup")
  /\ UNCHANGED <<stream, trimmed, acked, hand, processed, failures, restarts>>

\* Redis executes XGROUP CREATE, which leaves a group that exists alone.
CreateGroup ==
  /\ groupExists' = TRUE
  /\ lastDelivered' = IF groupExists THEN lastDelivered ELSE StartId
  /\ UNCHANGED <<pending, acked>>

\* _setup_consumer_group; BUSYGROUP says that the group exists.
Setup(s) ==
  /\ pc[s] = "setup"
  /\ CreateGroup
  /\ GoTo(s, "xreadgroup")
  /\ UNCHANGED <<stream, trimmed, hand, processed, failures, restarts>>

\* Any other error of XGROUP CREATE, executed or not, ends run(): nothing starts it again.
SetupFails(s) ==
  /\ pc[s] = "setup"
  /\ Fails
  /\ CreateGroup \/ UNCHANGED group
  /\ GoTo(s, "stopped")
  /\ UNCHANGED <<stream, trimmed, hand, processed, restarts>>

\* The first entry behind the group's cursor that is still in the stream.
NextEntry == IF lastDelivered < trimmed THEN trimmed + 1 ELSE lastDelivered + 1

\* What XREADGROUP ">" may return to predictor s: never what it has pending.
\* Mutant: a predictor reads its pending entries ("0") as well.
Readable_WithPending(s) ==
  {i \in {NextEntry} : i <= Len(stream)} \cup {p.entry : p \in {q \in pending : q.consumer = s}}
Readable(s) == {i \in {NextEntry} : i <= Len(stream)}

PendingAfter(s, i) == pending \cup {[entry |-> i, consumer |-> s]}

\* Redis executes XREADGROUP: entry i is delivered to s and pending under its name.
Deliver(s, i) ==
  /\ pc[s] = "xreadgroup"
  /\ i \in Readable(s)
  /\ lastDelivered' = i
  /\ pending' = PendingAfter(s, i)
  /\ UNCHANGED <<stream, trimmed, groupExists, acked, processed, restarts>>

ReadGroup(s) ==
  \E i \in Readable(s) :
    /\ Deliver(s, i)
    /\ hand' = [hand EXCEPT ![s] = i]
    /\ GoTo(s, "process")
    /\ UNCHANGED failures

\* XREADGROUP raises; Redis may have executed it and the reply been lost.
ReadFails(s) ==
  /\ pc[s] = "xreadgroup"
  /\ Fails
  /\ GoTo(s, "sleep")
  /\ \/ UNCHANGED <<stream, trimmed, group, processed, restarts>>
     \/ \E i \in Readable(s) : Deliver(s, i)
  /\ UNCHANGED hand

\* _process_message: an entry of another symbol is left alone.
Process(s) ==
  /\ pc[s] = "process"
  /\ processed' = IF stream[hand[s]] = s
                  THEN [processed EXCEPT ![s] = Append(@, hand[s])]
                  ELSE processed
  /\ GoTo(s, "xack")
  /\ UNCHANGED <<stream, trimmed, group, hand, failures, restarts>>

\* Redis executes XACK for the entry in hand, whosever symbol it is.
Acknowledge(s) ==
  /\ pending' = {p \in pending : p.entry # hand[s]}
  /\ acked' = acked \cup {hand[s]}
  /\ UNCHANGED <<groupExists, lastDelivered>>

Ack(s) ==
  /\ pc[s] = "xack"
  /\ Acknowledge(s)
  /\ hand' = [hand EXCEPT ![s] = 0]
  /\ GoTo(s, "xreadgroup")
  /\ UNCHANGED <<stream, trimmed, processed, failures, restarts>>

\* XACK raises, perhaps after Redis executed it; the entry is not tried again.
AckFails(s) ==
  /\ pc[s] = "xack"
  /\ Fails
  /\ Acknowledge(s) \/ UNCHANGED group
  /\ hand' = [hand EXCEPT ![s] = 0]
  /\ GoTo(s, "sleep")
  /\ UNCHANGED <<stream, trimmed, processed, restarts>>

\* The second after an error is over.
Wake(s) ==
  /\ pc[s] = "sleep"
  /\ GoTo(s, "xreadgroup")
  /\ UNCHANGED <<stream, trimmed, group, hand, processed, failures, restarts>>

\* The process crashes, or its tasks are cancelled, and it is started again.
Restart ==
  /\ restarts < MaxRestarts
  /\ restarts' = restarts + 1
  /\ pc' = [s \in Symbols |-> "setup"]
  /\ hand' = [s \in Symbols |-> 0]
  /\ UNCHANGED <<stream, trimmed, group, processed, failures>>

Predictor(s) ==
  \/ Setup(s) \/ SetupFails(s)
  \/ ReadGroup(s) \/ ReadFails(s)
  \/ Process(s)
  \/ Ack(s) \/ AckFails(s)
  \/ Wake(s)

Next == Publish \/ Restart \/ \E s \in Symbols : Predictor(s)

Spec == Init /\ [][Next]_vars

\* The event loop runs every task whose Redis call has returned or raised.
FairSpec == Spec /\ \A s \in Symbols : WF_vars(Predictor(s))

-----------------------------------------------------------------------------
Processed(i) == \E s \in Symbols : \E k \in DOMAIN processed[s] : processed[s][k] = i

InHand(i) == \E s \in Symbols : hand[s] = i

Orphans == {p \in pending : hand[p.consumer] # p.entry}

\* Over failing calls and restarts a predictor takes only its symbol's entries
\* into its features, each at most once and in the order of the stream.
AtMostOnce ==
  \A s \in Symbols :
    LET p == processed[s] IN
    /\ \A k \in DOMAIN p : p[k] <= Len(stream) /\ stream[p[k]] = s
    /\ \A j, k \in DOMAIN p : j < k => p[j] < p[k]

\* What a predictor has in hand no other one has, and it is pending under its
\* name: a crash or a failing XACK leaves a trace of it in Redis.
InHandIsPending ==
  \A s \in Symbols : hand[s] # 0 =>
    /\ [entry |-> hand[s], consumer |-> s] \in pending
    /\ \A t \in Symbols \ {s} : hand[t] # hand[s]

Lost(i) == i <= lastDelivered /\ ~Processed(i) /\ ~InHand(i)

\* An entry that was delivered to the wrong predictor, or lost on its way to the
\* right one, is lost for good: it is neither processed nor handed out again.
LostStaysLost == [][\A i \in 1..MaxEntries : Lost(i) => Lost(i)']_vars

\* A pending entry that nobody has in hand stays pending for good: there is no
\* XAUTOCLAIM, no read of pending entries and no second XACK.
OrphansStayPending == [][Orphans \subseteq Orphans']_vars

\* The group implements Delivery, over failing calls and restarts: what is handed out was
\* behind the cursor, and a predictor takes nothing but what it was handed last
\* (XREADGROUP ">", _process_message).
Abstract == INSTANCE Delivery WITH
  Consumers <- Symbols, length <- Len(stream), cursor <- lastDelivered,
  held  <- [s \in Symbols |-> IF pc[s] = "process" THEN {hand[s]} ELSE {}],
  taken <- [s \in Symbols |-> {processed[s][k] : k \in DOMAIN processed[s]}]
ImplementsDelivery == Abstract!Spec

Taken(i) == i \in acked \/ \E p \in pending : p.entry = i

\* Unless no predictor got past its setup, every entry is given to some predictor
\* or trimmed first, over failing calls and restarts.
Drained ==
  <>[]((\A i \in 1..Len(stream) : i <= trimmed \/ Taken(i))
       \/ \A s \in Symbols : pc[s] = "stopped")

\* "Main inference loop - subscribes to microstructure stream" (predictor.py:73):
\* as a subscriber to the stream, the predictor of a symbol has processed every
\* entry of its symbol that the group is done with.
AckedWasProcessed == \A i \in acked : Processed(i)
=============================================================================
