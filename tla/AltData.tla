------------------------------- MODULE AltData ------------------------------
(***************************************************************************)
(* The ingestors of modules/altdata/ingestors, which publish to            *)
(* altdata:signals: FRED's ("macro"), on_chain's, reddit's, google_trends' *)
(* ("trends") and binance_futures' ("futures").  They share their loop, a  *)
(* round with at most three attempts and a sleep, and no state, so a       *)
(* behaviour follows one of them, source.                                  *)
(*                                                                         *)
(* Scores and velocities are left out: they are numbers of the signal that *)
(* no step depends on.  Of FRED's signal the regime is kept, which depends *)
(* on an earlier attempt.                                                  *)
(*                                                                         *)
(* A behaviour is one life of the ingestor, from its construction on: all  *)
(* it knows is in memory, and the next one starts at the id "0" again, so  *)
(* what is said here about once is said of one life.                       *)
(***************************************************************************)
EXTENDS Integers, Sequences

CONSTANTS Items,       \* the subreddits, keywords or symbols: 1..Items
          Count,       \* the entries an XREAD returns at most, 100 in the code
          MaxEntries,  \* bound of the entries of raw:onchain
          Level        \* the values of CPI and of the rate are 1..Level; 0 is missing

ASSUME AltDataAssumption ==
  /\ Items \in Nat \ {0} /\ Count \in Nat \ {0}
  /\ MaxEntries \in Nat /\ Level \in Nat \ {0}

VARIABLES
  source,    \* the ingestor this behaviour follows
  running,   \* _running
  pc,        \* what _run_loop awaits
  attempt,   \* its attempt
  today,     \* what FRED has this round
  got,       \* what the attempt has read of it
  prev,      \* the last of _cpi_history and of _fed_history
  regime,    \* the regime of the signal to be published
  recorded,  \* history: an earlier attempt of the round has recorded the CPI
  stream,    \* raw:onchain: which of its entries can be parsed
  cursor,    \* OnChainIngestor._last_id
  hand,      \* the entries summed up in the signal to be published
  counted,   \* history: in how many published signals each entry is
  item       \* the item the round is at

loop    == <<running, pc, attempt>>
macro   == <<today, got, prev, regime, recorded>>
onchain == <<stream, cursor, hand, counted>>
vars    == <<source, loop, macro, onchain, item>>

Sources == {"macro", "onchain", "reddit", "trends", "futures"}
Entries == 1..MaxEntries
Data    == [curve : -1..1, cpi : 0..Level, fed : 0..Level]
Nothing == [curve |-> 0, cpi |-> 0, fed |-> 0]

TypeOK ==
  /\ source \in Sources /\ running \in BOOLEAN
  /\ pc \in {"fetch", "publish", "backoff", "sleep", "over"}
  /\ attempt \in 0..3
  /\ today \in Data /\ got \in Data
  /\ prev \in [cpi : 0..Level, fed : 0..Level]
  /\ regime \in {"risk_on", "risk_off", "neutral"} /\ recorded \in BOOLEAN
  /\ stream \in Seq(BOOLEAN) /\ Len(stream) <= MaxEntries
  /\ cursor \in 0..Len(stream) /\ hand \in SUBSET Entries
  /\ counted \in [Entries -> Nat]
  /\ item \in 1 .. Items + 1

\* What FRED may have; it does not change within a round.
Days == IF source = "macro" THEN {d \in Data : d.cpi # 0 /\ d.fed # 0} ELSE {Nothing}

Init ==
  /\ source \in Sources /\ running = TRUE /\ pc = "fetch" /\ attempt = 0
  /\ today \in Days
  /\ got = Nothing /\ prev = [cpi |-> 0, fed |-> 0]
  /\ regime = "neutral" /\ recorded = FALSE
  /\ stream = <<>> /\ cursor = 0 /\ hand = {} /\ counted = [n \in Entries |-> 0]
  /\ item = 1

-----------------------------------------------------------------------------
(* The loop.                                                               *)

\* The attempt has returned: the round is over.
EndRound == pc' = "sleep" /\ UNCHANGED <<running, attempt>>

\* Mutant: attempts are not counted.
Tried_Uncounted(n) == n
Tried(n) == n + 1

\* The attempt has raised, up to the loop: 2 and 4 seconds, then the round is over.
RetryRound ==
  /\ attempt' = Tried(attempt)
  /\ pc' = IF attempt' < 3 THEN "backoff" ELSE "sleep"
  /\ UNCHANGED running

\* Neither the attempts nor the waits between them look at _running.
BackOff ==
  /\ pc = "backoff"
  /\ pc' = "fetch"
  /\ UNCHANGED <<source, running, attempt, macro, onchain, item>>

Wake ==
  /\ pc = "sleep"
  /\ IF running THEN pc' = "fetch" /\ attempt' = 0 ELSE pc' = "over" /\ UNCHANGED attempt
  /\ today' \in Days
  /\ recorded' = FALSE /\ item' = 1
  /\ UNCHANGED <<source, running, got, prev, regime, onchain>>

Stop ==
  /\ running
  /\ running' = FALSE
  /\ UNCHANGED <<source, pc, attempt, macro, onchain, item>>

-----------------------------------------------------------------------------
(* FRED.                                                                   *)

\* A request that fails reads as no value, and so does a curve of zero.
Answers == {d \in Data : \A f \in DOMAIN d : d[f] \in {0, today[f]}}

\* _classify, where 0 stands for what is missing.
Classify(d, old) ==
  IF d.curve > 0 /\ d.cpi < old.cpi THEN "risk_on"
  ELSE IF d.curve < 0 \/ d.fed > old.fed THEN "risk_off" ELSE "neutral"

Or(x, y) == IF x # 0 THEN x ELSE y

\* Mutant: only an empty history is appended to.
Recorded_First(d) == [cpi |-> Or(prev.cpi, d.cpi), fed |-> Or(prev.fed, d.fed)]
Recorded(d) == [cpi |-> Or(d.cpi, prev.cpi), fed |-> Or(d.fed, prev.fed)]

FetchMacro ==
  /\ source = "macro" /\ pc = "fetch"
  /\ got' \in Answers
  /\ IF got' = Nothing
     THEN EndRound /\ UNCHANGED <<prev, regime>>
     ELSE /\ regime' = Classify(got', [cpi |-> Or(prev.cpi, got'.cpi),
                                       fed |-> Or(prev.fed, got'.fed)])
          /\ prev' = Recorded(got')
          /\ pc' = "publish" /\ UNCHANGED <<running, attempt>>
  /\ UNCHANGED <<source, today, recorded, onchain, item>>

\* Only this ingestor's failures get to the loop.
PublishMacro ==
  /\ source = "macro" /\ pc = "publish"
  /\ \/ EndRound /\ UNCHANGED recorded
     \/ RetryRound /\ recorded' = (recorded \/ got.cpi # 0)
  /\ UNCHANGED <<source, today, got, prev, regime, onchain, item>>

-----------------------------------------------------------------------------
(* On chain.                                                               *)

XAdd ==
  /\ source = "onchain" /\ Len(stream) < MaxEntries
  /\ \E good \in BOOLEAN : stream' = Append(stream, good)
  /\ UNCHANGED <<source, loop, macro, cursor, hand, counted, item>>

\* Mutant: the cursor moves when an entry has been parsed.
PastBad_Never(n) == n - 1
\* _last_id moves before the entry is parsed: the cursor after an entry that cannot be.
PastBad(n) == n

\* _consume_stream up to the publication.  What it raises is logged; the sums of an
\* attempt that raised are gone.
FetchOnChain ==
  /\ source = "onchain" /\ pc = "fetch"
  /\ LET upto == IF Len(stream) < cursor + Count THEN Len(stream) ELSE cursor + Count
         new == cursor + 1 .. upto
         bad == {n \in new : ~stream[n]}
     IN  \/ new = {} /\ EndRound /\ UNCHANGED <<cursor, hand>>
         \/ \E n \in bad : /\ \A m \in bad : n <= m
                          /\ EndRound /\ cursor' = PastBad(n) /\ UNCHANGED hand
         \/ /\ new # {} /\ bad = {}
            /\ pc' = "publish" /\ cursor' = upto /\ hand' = new
            /\ UNCHANGED <<running, attempt>>
  /\ UNCHANGED <<source, macro, stream, counted, item>>

\* XREAD raises.
ReadFails ==
  /\ source = "onchain" /\ pc = "fetch"
  /\ EndRound
  /\ UNCHANGED <<source, macro, onchain, item>>

Counted == [n \in Entries |-> IF n \in hand THEN counted[n] + 1 ELSE counted[n]]

\* Mutant: the entries of a publication that raised are read again.
AfterRaise_Again == cursor - 1
\* The cursor after a publication that raised.
AfterRaise == cursor

\* XADD returns, or raises, executed or not, which is logged.
PublishOnChain ==
  /\ source = "onchain" /\ pc = "publish"
  /\ \/ counted' = Counted /\ UNCHANGED cursor
     \/ counted' \in {counted, Counted} /\ cursor' = AfterRaise
  /\ hand' = {}
  /\ EndRound
  /\ UNCHANGED <<source, macro, stream, item>>

-----------------------------------------------------------------------------
(* One signal for each item.                                               *)

NextItem ==
  /\ item' = item + 1
  /\ pc' = IF item < Items THEN "fetch" ELSE "sleep"

\* Praw raises, or there is no post; the client cannot be made, or a number computed,
\* which is logged for the round as a whole.
FetchReddit ==
  /\ source = "reddit" /\ pc = "fetch"
  /\ \/ NextItem
     \/ pc' = "sleep" /\ UNCHANGED item
     \/ pc' = "publish" /\ UNCHANGED item
  /\ UNCHANGED <<source, running, attempt, macro, onchain>>

\* What raises is logged for the round as a whole.
PublishReddit ==
  /\ source = "reddit" /\ pc = "publish"
  /\ \/ NextItem
     \/ pc' = "sleep" /\ UNCHANGED item
  /\ UNCHANGED <<source, running, attempt, macro, onchain>>

\* Pytrends raises, or has no value; what raises is logged for the keyword, but for the
\* making of the client, before the first of them.
FetchTrends ==
  /\ source = "trends" /\ pc = "fetch"
  /\ \/ NextItem
     \/ item = 1 /\ pc' = "sleep" /\ UNCHANGED item
     \/ pc' = "publish" /\ UNCHANGED item
  /\ UNCHANGED <<source, running, attempt, macro, onchain>>

\* A signal is published whichever of the three requests failed.
FetchFutures ==
  /\ source = "futures" /\ pc = "fetch"
  /\ pc' = "publish"
  /\ UNCHANGED <<source, running, attempt, macro, onchain, item>>

PublishItem ==
  /\ source \in {"trends", "futures"} /\ pc = "publish"
  /\ NextItem
  /\ UNCHANGED <<source, running, attempt, macro, onchain>>

Step ==
  \/ BackOff \/ Wake
  \/ FetchMacro \/ PublishMacro
  \/ FetchOnChain \/ ReadFails \/ PublishOnChain
  \/ FetchReddit \/ PublishReddit \/ FetchTrends \/ FetchFutures \/ PublishItem

Next == Step \/ XAdd \/ Stop

\* Requests and sleeps come to an end, and an XREAD that is tried for ever succeeds
\* for ever again.
Spec == Init /\ [][Next]_vars /\ WF_vars(Step) /\ SF_vars(FetchOnChain)

-----------------------------------------------------------------------------
\* risk_on is published for a fall of the CPI only by the first attempt that read it:
\* the histories are appended to before the publication, so when it fails the retries
\* compare the CPI with itself and the fall is never told.  Otherwise risk_on means
\* that the CPI was missing, which reads as a fall to zero (_fetch_all, _classify).
RiskOnIsToldOnce ==
  source = "macro" /\ pc = "publish" /\ regime = "risk_on" => got.cpi = 0 \/ ~recorded

\* In one life of the ingestor no entry of raw:onchain is in two signals, whatever
\* raised, and none is in a signal before the cursor is past it (_consume_stream).  The
\* next life counts all of them again.
CountedOnce ==
  \A n \in Entries :
    /\ counted[n] <= 1
    /\ n \in hand => counted[n] = 0
    /\ counted[n] > 0 => n <= cursor

\* In one life the on-chain ingestor implements Delivery, which it reads raw:onchain for,
\* whatever cannot be parsed or published (_consume_stream).
Abstract == INSTANCE Delivery WITH
  Consumers <- {"onchain"}, length <- Len(stream), cursor <- cursor,
  held  <- [c \in {"onchain"} |-> hand],
  taken <- [c \in {"onchain"} |-> {n \in Entries : counted[n] > 0}]
ImplementsDelivery == Abstract!Spec

\* Entries that cannot be parsed do not keep the ingestor from those behind them.
ReadsOn == \A n \in Entries : (Len(stream) >= n) ~> (cursor >= n \/ ~running)

\* A stopped ingestor's loop ends, after the attempts of its round and a sleep.
LoopEnds == ~running ~> pc = "over"
=============================================================================
