---------------------------- MODULE LLMReasoner ----------------------------
(***************************************************************************)
(* modules/llm_reasoner/reasoners.py: the two loops of an LLMReasoner.     *)
(* The consumer reads one entry of each of its streams per round and pays  *)
(* for a call when the entry is worth one; the summary generator pays for  *)
(* a call every 30 seconds.  They share _daily_cost.                       *)
(*                                                                         *)
(* An entry is whether it leads to a call (a text, a score above 0.5, a    *)
(* transition warning).  The stretches between two awaits are the actions. *)
(* Only the consumer enters the semaphore of ten, so it never waits there. *)
(***************************************************************************)
EXTENDS Integers, Sequences

CONSTANTS Order,        (* the streams in the order of a round              *)
          RawSources,   (* those that _consume_stream reads                 *)
          Cap,          (* MAX_DAILY_COST                                   *)
          CallCost,     (* the most one call costs                          *)
          MaxInsights,  (* bound of the valid insights in one answer        *)
          MaxEntries,   (* bound of the entries of each stream              *)
          MaxLen,       (* RedisBus._get_maxlen of each stream              *)
          MaxCost,      (* bound of _daily_cost                             *)
          MaxDays       (* bound of the days                                *)

Sources == {Order[k] : k \in DOMAIN Order}

ASSUME ReasonerAssumption ==
  /\ Order \in Seq(Sources) /\ Len(Order) > 0
  /\ RawSources \subseteq Sources
  /\ Cap \in Nat \ {0} /\ CallCost \in Nat \ {0}
  /\ MaxLen \in [Sources -> Nat]
  /\ {MaxInsights, MaxEntries, MaxCost, MaxDays} \subseteq Nat

VARIABLES
  streams,    \* the entries of each stream, in order
  trimmed,    \* how many of them MAXLEN has removed
  lastIds,    \* _last_stream_ids and _last_regime_ids, by the stream they are for
  running,    \* _running; stop() clears it and closes the HTTP session
  today,      \* the date
  resetDate,  \* _last_reset_date
  dailyCost,  \* _daily_cost
  at,         \* the consumer's place in Order
  consumer,   \* what the consumer awaits
  left,       \* the insights of the answer in hand not published yet
  summary,    \* what the summary generator awaits
  docSpent,   \* history: what the consumer's calls cost since the last reset
  seen        \* history: the entries read of each stream

redis    == <<streams, trimmed>>
clock    == <<today, running>>
spending == <<resetDate, dailyCost, docSpent>>
reading  == <<lastIds, seen>>
place    == <<at, consumer, left>>
vars     == <<redis, clock, spending, reading, place, summary>>

TypeOK ==
  /\ streams \in [Sources -> Seq(BOOLEAN)]
  /\ trimmed \in [Sources -> Nat]
  /\ lastIds \in [Sources -> Nat]
  /\ running \in BOOLEAN
  /\ today \in Nat /\ resetDate \in Nat
  /\ dailyCost \in Nat /\ docSpent \in Nat
  /\ at \in 1..Len(Order)
  /\ consumer \in {"xread", "post", "publish", "alert", "sleep", "done"}
  /\ left \in Nat
  /\ summary \in {"latest", "post", "set", "sleep", "done"}
  /\ seen \in [Sources -> SUBSET Nat]

NothingRead == [s \in Sources |-> 0]

\* __init__ and start, with an API key: without one no loop is started.  Nothing
\* is kept over a restart, so a restarted process begins like this too, with
\* streams that Produce may fill before the first read.
Init ==
  /\ streams = [s \in Sources |-> <<>>] /\ trimmed = [s \in Sources |-> 0]
  /\ lastIds = NothingRead /\ seen = [s \in Sources |-> {}]
  /\ running = TRUE
  /\ today = 0 /\ resetDate = 0 /\ dailyCost = 0 /\ docSpent = 0
  /\ at = 1 /\ consumer = "xread" /\ left = 0 /\ summary = "latest"

-----------------------------------------------------------------------------
\* A fetcher, the confluence engine or a predictor publishes.
Produce(s) ==
  LET n == Len(streams[s]) IN
  /\ n < MaxEntries
  /\ \E worthACall \in BOOLEAN : streams' = [streams EXCEPT ![s] = Append(@, worthACall)]
  /\ \E t \in trimmed[s]..n :
       /\ t = trimmed[s] \/ n + 1 - t >= MaxLen[s]
       /\ trimmed' = [trimmed EXCEPT ![s] = t]
  /\ UNCHANGED <<clock, spending, reading, place, summary>>

Midnight ==
  /\ today < MaxDays
  /\ today' = today + 1
  /\ UNCHANGED <<redis, running, spending, reading, place, summary>>

\* stop() cancels no task.
Stop ==
  /\ running
  /\ running' = FALSE
  /\ UNCHANGED <<redis, today, spending, reading, place, summary>>

-----------------------------------------------------------------------------
NextSource ==
  IF at < Len(Order) THEN at' = at + 1 /\ consumer' = "xread"
                     ELSE at' = 1 /\ consumer' = "sleep"

\* The entry of s that XREAD finds behind the id on file.
NextEntry(s) == IF lastIds[s] < trimmed[s] THEN trimmed[s] + 1 ELSE lastIds[s] + 1

\* The ids on file once entry i of s was read.  _consume_stream looks the id up
\* under its parameter stream_name and files it under the loop variable of that
\* name, the Redis key: under the stream's own name it stays "0-0".
\* Mutant: it is filed under the name it is looked up by.
Filed_ByName(s, i) == [lastIds EXCEPT ![s] = i]
Filed(s, i) == IF s \in RawSources THEN lastIds ELSE [lastIds EXCEPT ![s] = i]

\* _check_daily_reset
NewDay   == today # resetDate
CostSeen == IF NewDay THEN 0 ELSE dailyCost

\* Mutant: at the cap itself one more call is made.
Capped_Above == CostSeen > Cap
Capped == CostSeen >= Cap

\* _trigger_llm up to its first await.  With the session closed _call_llm
\* catches the error and there is no answer.
Trigger ==
  /\ resetDate' = today
  /\ dailyCost' = CostSeen
  /\ docSpent' = IF NewDay THEN 0 ELSE docSpent
  /\ \/ Capped /\ consumer' = "alert" /\ UNCHANGED at
     \/ ~Capped /\ running /\ consumer' = "post" /\ UNCHANGED at
     \/ ~Capped /\ ~running /\ NextSource

\* XREAD returns an entry.
Reads(s) ==
  LET i == NextEntry(s) IN
  /\ consumer = "xread" /\ Order[at] = s
  /\ i <= Len(streams[s])
  /\ lastIds' = Filed(s, i)
  /\ seen' = [seen EXCEPT ![s] = @ \cup {i}]
  /\ IF streams[s][i] THEN Trigger ELSE NextSource /\ UNCHANGED spending
  /\ UNCHANGED <<redis, clock, left, summary>>

\* Mutant: a stream without a new entry ends the round.
ReadsNothing_EndsRound ==
  /\ consumer = "xread"
  /\ at' = 1 /\ consumer' = "sleep"
  /\ UNCHANGED <<redis, clock, spending, reading, left, summary>>

\* XREAD returns nothing within a second, or raises.
ReadsNothing ==
  /\ consumer = "xread"
  /\ NextSource
  /\ UNCHANGED <<redis, clock, spending, reading, left, summary>>

\* What an answer costs: 0 when there is none, or it does not say.
Costs == {c \in 0..CallCost : dailyCost + c <= MaxCost}

\* The answer to the consumer's call, with so many valid insights.
Answer ==
  /\ consumer = "post"
  /\ \E c \in Costs : dailyCost' = dailyCost + c /\ docSpent' = docSpent + c
  /\ left' \in 0..MaxInsights
  /\ IF left' = 0 THEN NextSource ELSE consumer' = "publish" /\ UNCHANGED at
  /\ UNCHANGED <<redis, clock, resetDate, reading, summary>>

\* One insight is published; when that raises, the rest are dropped.
PublishInsight ==
  /\ consumer = "publish"
  /\ left' \in {left - 1, 0}
  /\ IF left' = 0 THEN NextSource ELSE UNCHANGED <<at, consumer>>
  /\ UNCHANGED <<redis, clock, spending, reading, summary>>

\* _publish_alert is over, or raised.
Alerted ==
  /\ consumer = "alert"
  /\ NextSource
  /\ UNCHANGED <<redis, clock, spending, reading, left, summary>>

\* Mutant: the loop does not look at _running.
ConsumerWakes_Always ==
  /\ consumer = "sleep"
  /\ consumer' = "xread"
  /\ UNCHANGED <<redis, clock, spending, reading, at, left, summary>>

ConsumerWakes ==
  /\ consumer = "sleep"
  /\ consumer' = IF running THEN "xread" ELSE "done"
  /\ UNCHANGED <<redis, clock, spending, reading, at, left, summary>>

Consumer ==
  \/ \E s \in Sources : Reads(s)
  \/ ReadsNothing \/ Answer \/ PublishInsight \/ Alerted \/ ConsumerWakes

-----------------------------------------------------------------------------
\* _generate_summary has both get_latest, or one of them raised.
SummaryInputs ==
  /\ summary = "latest"
  /\ summary' \in {"sleep"} \cup (IF running THEN {"post"} ELSE {})
  /\ UNCHANGED <<redis, clock, spending, reading, place>>

\* The answer to its call, an empty one among them.
SummaryAnswer ==
  /\ summary = "post"
  /\ \E c \in Costs : dailyCost' = dailyCost + c
  /\ summary' \in {"set", "sleep"}
  /\ UNCHANGED <<redis, clock, resetDate, docSpent, reading, place>>

\* llm:summary is set, or that raised.
SummarySet ==
  /\ summary = "set"
  /\ summary' = "sleep"
  /\ UNCHANGED <<redis, clock, spending, reading, place>>

SummaryWakes ==
  /\ summary = "sleep"
  /\ summary' = IF running THEN "latest" ELSE "done"
  /\ UNCHANGED <<redis, clock, spending, reading, place>>

Summary == SummaryInputs \/ SummaryAnswer \/ SummarySet \/ SummaryWakes

Next ==
  \/ \E s \in Sources : Produce(s)
  \/ Midnight \/ Stop
  \/ Consumer \/ Summary

Spec == Init /\ [][Next]_vars

\* The event loop runs what is due, requests end, and over and over an XREAD that
\* has something to return returns it.
FairSpec ==
  /\ Spec
  /\ WF_vars(Consumer) /\ WF_vars(Summary)
  /\ \A s \in Sources : SF_vars(Reads(s))

-----------------------------------------------------------------------------
\* What a day's documents cost exceeds the cap by less than one call: no second
\* call is on its way when the first one crosses it, over midnight and beside
\* the summary's calls (_trigger_llm, _update_cost).
DocumentsWithinCap == docSpent < Cap + CallCost

\* Of a raw stream only the oldest entry is ever read: what is published behind it
\* waits for MAXLEN to remove it (_consume_stream's loop variable).
OnlyOldest == \A s \in RawSources : \A i \in seen[s] : i <= trimmed[s] + 1

\* While the process lives, no entry of altdata:confluence or of regime:{symbol}
\* is paid for twice: what is read next was never read before.  (Of the raw streams
\* the same entry is paid for round after round.)
NoneAgain == \A s \in Sources \ RawSources : NextEntry(s) \notin seen[s]

\* Of those two the consumer gets to the end, unless stop() was called, however slow,
\* idle or failing the streams before them in the round are; and it has passed over no
\* entry but what MAXLEN removed, since a round of a minute or more reads one of each.
ReachesAll ==
  <>[](~running \/ \A s \in Sources \ RawSources :
          /\ lastIds[s] = Len(streams[s])
          /\ \A i \in 1..Len(streams[s]) : i \in seen[s] \/ i <= trimmed[s])

\* Both loops end after stop(), although no task is cancelled.
StopEndsLoops == ~running ~> (consumer = "done" /\ summary = "done")

\* "Daily cost cap reached - stopping LLM calls" (reasoners.py:251): no call is
\* begun at or above the cap.
CapStopsCalls ==
  [][(consumer # "post" /\ consumer' = "post") \/ (summary # "post" /\ summary' = "post")
       => dailyCost' < Cap]_vars
=============================================================================
