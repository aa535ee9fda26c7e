----------------------------- MODULE Confluence -----------------------------
(***************************************************************************)
(* ConfluenceEngine of modules/altdata/confluence.py: the loop that reads  *)
(* altdata:signals with a consumer group, keeps the latest signal of each  *)
(* source, and publishes their weighted agreement, its direction and       *)
(* whether it is an alert.                                                 *)
(*                                                                         *)
(* The loop reads with the id "0-0" and never with ">".  To that Redis     *)
(* answers with what is pending under the consumer's own name and nothing  *)
(* else, so all there is to do is what an earlier reader of that name left *)
(* pending: the entries 1..Inherited.                                      *)
(*                                                                         *)
(* Numbers: weights are doubled, tanh is counted in halves and is 2 when   *)
(* its argument is great enough for a float to be 1.0; a score is a pair   *)
(* of its numerator and its denominator.                                   *)
(***************************************************************************)
EXTENDS Integers, FiniteSetsExt

CONSTANTS Sources,     \* the sources of signals
          Signals,     \* the velocities and scores signals have, [v, s]
          None,        \* no source
          Inherited,   \* the entries pending when the engine is first started
          Count,       \* the entries a read returns at most, 10 in the code
          MaxEntries,  \* bound of the entries
          MaxFails,    \* bound of the commands that raise
          MaxTests,    \* bound of the Granger tests that classify a source
          MaxRestarts  \* bound of the restarts

ASSUME ConfluenceAssumption ==
  /\ None \notin Sources /\ IsFiniteSet(Sources)
  /\ Signals \subseteq [v : -2..2, s : -1..1]
  /\ Inherited \in Nat /\ MaxEntries \in Nat /\ Inherited <= MaxEntries
  /\ Count \in Nat \ {0} /\ MaxFails \in Nat /\ MaxTests \in Nat /\ MaxRestarts \in Nat

VARIABLES
  sent,      \* the entries of altdata:signals so far
  pending,   \* the entries pending under the consumer "confluence"
  textual,   \* alert_threshold comes from system_config, as text
  pc,        \* what _consume_loop awaits
  last,      \* last_id
  batch,     \* the entries of the last read that are not done
  content,   \* what is in the first of pending, once it has been read
  latest,    \* _latest_signals
  leadLag,   \* _lead_lag
  out,       \* the output to be published
  told,      \* history: the entries an output was published for
  silent,    \* history: the entries no output was due for
  fails,     \* history: the commands that raised
  tests,     \* history: the Granger tests so far
  restarts   \* history: how often the engine was started again

group   == <<sent, pending>>
loop    == <<pc, last, batch>>
engine  == <<latest, leadLag, out>>
history == <<told, silent, fails, tests, restarts>>
vars    == <<group, textual, loop, content, engine, history>>

Zero     == [v |-> 0, s |-> 0]
Unread   == [kind |-> "unread", src |-> None, sig |-> Zero]
\* A signal; one whose score is text; one without a source; no JSON object.
Contents == [kind : {"signal"}, src : Sources, sig : Signals]
              \cup [kind : {"text"}, src : Sources, sig : {Zero}]
              \cup [kind : {"nosource", "broken"}, src : {None}, sig : {Zero}]
Silence  == [score |-> <<0, 1>>, label |-> "neutral", alert |-> FALSE]
Labels   == {"strong_bullish", "bullish", "neutral", "bearish", "strong_bearish"}

TypeOK ==
  /\ sent \in 0..MaxEntries /\ pending \in SUBSET (1..MaxEntries) /\ textual \in BOOLEAN
  /\ pc \in {"read", "entry", "publish", "ack", "wait"}
  /\ last \in 0..MaxEntries /\ batch \in SUBSET (1..MaxEntries)
  /\ content \in Contents \cup {Unread}
  /\ latest \in [Sources -> [kind : {"none", "signal", "text"}, sig : Signals \cup {Zero}]]
  /\ leadLag \in [Sources -> {"leading", "coincident", "lagging"}]
  /\ out.label \in Labels /\ out.alert \in BOOLEAN
  /\ told \in SUBSET (1..MaxEntries) /\ silent \in SUBSET (1..MaxEntries)
  /\ fails \in 0..MaxFails /\ tests \in 0..MaxTests
  /\ restarts \in 0..MaxRestarts

Fresh ==
  /\ pc' = "read" /\ last' = 0 /\ batch' = {}
  /\ latest' = [src \in Sources |-> [kind |-> "none", sig |-> Zero]]
  /\ leadLag' = [src \in Sources |-> "coincident"] /\ out' = Silence

Init ==
  /\ sent = Inherited /\ pending = 1..Inherited /\ textual \in BOOLEAN
  /\ pc = "read" /\ last = 0 /\ batch = {} /\ content = Unread
  /\ latest = [src \in Sources |-> [kind |-> "none", sig |-> Zero]]
  /\ leadLag = [src \in Sources |-> "coincident"] /\ out = Silence
  /\ told = {} /\ silent = {} /\ fails = 0 /\ tests = 0 /\ restarts = 0

-----------------------------------------------------------------------------
(* The score.  all is _latest_signals, kinds are those of _lead_lag.       *)

Known(all) == {src \in Sources : all[src].kind # "none"}

\* Twice WEIGHTS.
Weight(kind) == CASE kind = "leading" -> 4 [] kind = "coincident" -> 2 [] kind = "lagging" -> 1

\* tanh in halves; a score of zero counts as negative.
Tanh(sig) == sig.v * (IF sig.s > 0 THEN 1 ELSE -1)

Compute(all, kinds) ==
  <<SumFunctionOnSet([src \in Sources |-> Weight(kinds[src]) * Tanh(all[src].sig)], Known(all)),
    SumFunctionOnSet([src \in Sources |-> 2 * Weight(kinds[src])], Known(all))>>

\* DIRECTION_LABELS: low <= score < high, in tenths.
Within(score, low, high) ==
  low * score[2] <= 10 * score[1] /\ 10 * score[1] < high * score[2]

Classify(score) ==
  CASE Within(score, 7, 10)   -> "strong_bullish"
    [] Within(score, 3, 7)    -> "bullish"
    [] Within(score, -3, 3)   -> "neutral"
    [] Within(score, -7, -3)  -> "bearish"
    [] Within(score, -10, -7) -> "strong_bearish"
    [] OTHER -> "neutral"

\* Mutant: a bare majority of the three is enough, however weak the score.
CheckAlert_Weak(all, score) ==
  Cardinality({src \in Known(all) : score[1] * all[src].sig.s > 0}) >= 3
CheckAlert(all, score) ==
  /\ 10 * Max({score[1], -score[1]}) >= 7 * score[2]
  /\ Cardinality({src \in Known(all) : score[1] * all[src].sig.s > 0}) >= 3

-----------------------------------------------------------------------------
(* The loop.                                                               *)

\* The entry of the batch that is next.
NextEntry == Min(batch)

\* Mutant: the loop reads from what is newest at its start.
Delivered_FromNow == {n \in pending : n > Inherited}
\* What XREADGROUP with an id delivers.
Delivered == pending

Read ==
  /\ pc = "read"
  /\ LET after == {n \in Delivered : n > last}
     IN  /\ after # {}
         /\ batch' = {n \in after : Cardinality({m \in after : m < n}) < Count}
  /\ pc' = "entry"
  /\ UNCHANGED <<group, textual, last, content, engine, history>>

\* A signal with a text for a score is kept in _latest_signals before it makes the
\* computation raise, and goes on to do so.
Kept(entry) ==
  IF entry.kind \in {"nosource", "broken"} THEN latest
  ELSE [latest EXCEPT ![entry.src] = [kind |-> entry.kind, sig |-> entry.sig]]

Due(entry, all) == entry.kind \in {"signal", "text"} /\ Cardinality(Known(all)) >= 2

Raises(entry, all) ==
  \/ entry.kind = "broken"
  \/ Due(entry, all) /\ (textual \/ \E src \in Sources : all[src].kind = "text")

\* _process_signal up to its first await.
Process ==
  /\ pc = "entry"
  /\ content' \in IF content = Unread THEN Contents ELSE {content}
  /\ latest' = Kept(content')
  /\ \/ /\ Raises(content', latest')
        /\ pc' = "wait" /\ UNCHANGED <<out, silent>>
     \/ /\ ~Raises(content', latest') /\ ~Due(content', latest')
        /\ pc' = "ack" /\ silent' = silent \cup {NextEntry} /\ UNCHANGED out
     \/ /\ ~Raises(content', latest') /\ Due(content', latest')
        /\ LET score == Compute(latest', leadLag)
           IN  out' = [score |-> score, label |-> Classify(score),
                       alert |-> CheckAlert(latest', score)]
        /\ pc' = "publish" /\ UNCHANGED silent
  /\ UNCHANGED <<group, textual, last, batch, leadLag, told, fails, tests, restarts>>

Publish ==
  /\ pc = "publish"
  /\ pc' = "ack" /\ out' = Silence /\ told' = told \cup {NextEntry}
  /\ UNCHANGED <<group, textual, last, batch, content, latest, leadLag, silent, fails, tests, restarts>>

\* Mutant: an entry whose output could not be published is acknowledged.
AfterRaise_Ack == "ack"
\* A second, and the entry is read again.
AfterRaise == "wait"

PublishFails ==
  /\ pc = "publish" /\ fails < MaxFails /\ fails' = fails + 1
  /\ pc' = AfterRaise /\ out' = Silence
  /\ told' \in {told, told \cup {NextEntry}}
  /\ UNCHANGED <<group, textual, last, batch, content, latest, leadLag, silent, tests, restarts>>

Ack ==
  /\ pc = "ack"
  /\ pending' = pending \ {NextEntry} /\ last' = NextEntry
  /\ content' = Unread /\ batch' = batch \ {NextEntry}
  /\ pc' = IF batch' = {} THEN "read" ELSE "entry"
  /\ UNCHANGED <<sent, textual, engine, history>>

AckFails ==
  /\ pc = "ack" /\ fails < MaxFails /\ fails' = fails + 1
  /\ \/ UNCHANGED <<pending, content>>
     \/ pending' = pending \ {NextEntry} /\ content' = Unread
  /\ pc' = "wait"
  /\ UNCHANGED <<sent, textual, last, batch, engine, told, silent, tests, restarts>>

Wait ==
  /\ pc = "wait"
  /\ pc' = "read" /\ batch' = {}
  /\ UNCHANGED <<group, textual, last, content, engine, history>>

XAdd ==
  /\ sent < MaxEntries
  /\ sent' = sent + 1
  /\ UNCHANGED <<pending, textual, loop, content, engine, history>>

\* _run_granger_tests has classified a source, beside the loop.
Granger ==
  /\ tests < MaxTests /\ tests' = tests + 1
  /\ \E src \in Known(latest), kind \in {"leading", "coincident", "lagging"} :
        leadLag' = [leadLag EXCEPT ![src] = kind]
  /\ UNCHANGED <<group, textual, loop, content, latest, out, told, silent, fails, restarts>>

\* The process ends, at any point, and is started again: XGROUP CREATE finds the group.
Restart ==
  /\ restarts < MaxRestarts
  /\ Fresh
  /\ restarts' = restarts + 1
  /\ UNCHANGED <<group, textual, content, told, silent, fails, tests>>

Next ==
  \/ Read \/ Process \/ Publish \/ PublishFails \/ Ack \/ AckFails \/ Wait
  \/ XAdd \/ Granger \/ Restart

\* The loop goes on, and a command that is tried again and again succeeds in the end.
Spec == Init /\ [][Next]_vars /\ WF_vars(Read \/ Process \/ Publish \/ Ack \/ Wait)

-----------------------------------------------------------------------------
\* An alert has the label that is as strong as it and of its sign, except at the edges,
\* where an alert of full strength is called neutral and one of -0.7 bearish: the ranges
\* of DIRECTION_LABELS are half open (_classify_direction, _check_alert).
AlertIsStrong ==
  LET n == out.score[1]
      d == out.score[2]
  IN  out.alert =>
        out.label = IF n = d THEN "neutral"
                    ELSE IF n > 0 THEN "strong_bullish"
                    ELSE IF 10 * n = -7 * d THEN "bearish" ELSE "strong_bearish"

\* An entry is acknowledged when its output was published or none was due, in the order
\* of the stream over all failures and restarts, and an entry that cannot be processed
\* holds up every later one (_consume_loop acknowledges what _process_signal returned
\* for).  Nothing that was added after the last reader of the name is ever processed.
AckedInOrder ==
  LET acked == 1..Inherited \ pending
  IN  /\ \A n \in acked : 1..n \subseteq acked /\ n \in told \cup silent
      /\ content.kind = "broken" => \A n \in acked : n < Min(pending)
      /\ told \cup silent \subseteq 1..Inherited

\* The entry in hand has raised, and what made it raise is still there: it raises again
\* whenever it is read.
Stuck == content # Unread /\ Raises(content, Kept(content))

\* What is pending is all acknowledged in the end, or else from some time on one entry
\* raises for ever and holds up the rest (_consume_loop).
Drains == <>(pending = {}) \/ <>[]Stuck
=============================================================================
