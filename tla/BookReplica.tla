---------------------------- MODULE BookReplica -----------------------------
(***************************************************************************)
(* One OrderBook fed by an exchange over a channel that loses, duplicates  *)
(* and reorders: any message the exchange has ever sent may arrive, at any *)
(* time and any number of times.                                           *)
(***************************************************************************)
EXTENDS OrderBook, Sequences

CONSTANT MaxVersion  (* bound of the exchange's update ids *)

ASSUME MaxVersionAssumption == MaxVersion \in Nat \ {0}

VARIABLES
  market,   \* market[n] is the exchange's book after update n
  updates,  \* updates[n] is the change from version n to version n + 1
  book      \* the OrderBook

bookVars == <<market, updates, book>>

BookTypeOK ==
  /\ market \in Seq(Levels)
  /\ updates \in Seq(Updates)
  /\ book \in Books

\* The exchange's book when the stream begins is not empty in general, and its
\* first update id is not 0.
BookInit ==
  /\ \E levels \in Levels : Uncrossed(levels) /\ market = <<levels>>
  /\ updates = <<>>
  /\ book = EmptyBook

Version == Len(market)

\* A matching engine never leaves its own book crossed.
ExchangeUpdate ==
  /\ Version < MaxVersion
  /\ \E u \in Updates :
       /\ Uncrossed(SetLevel(market[Version], u))
       /\ market' = Append(market, SetLevel(market[Version], u))
       /\ updates' = Append(updates, u)
  /\ UNCHANGED book

SnapshotArrives(n) ==
  /\ book' = ApplySnapshot(book, market[n], n)
  /\ UNCHANGED <<market, updates>>

\* The message that takes version n to version n + 1 carries the id n + 1.
DeltaArrives(n) ==
  /\ book' = ApplyDelta(book, updates[n], n + 1)
  /\ UNCHANGED <<market, updates>>

BookNext ==
  \/ ExchangeUpdate
  \/ \E n \in 1..Version : SnapshotArrives(n)
  \/ \E n \in 1..Len(updates) : DeltaArrives(n)

BookSpec == BookInit /\ [][BookNext]_bookVars

\* binance_ws.py subscribes to depth20@100ms: the exchange keeps sending its
\* current book.
FairSpec == BookSpec /\ WF_bookVars(SnapshotArrives(Version))

-----------------------------------------------------------------------------
\* The book shows exactly the exchange's book of the update id it reports,
\* whatever was lost, repeated or reordered (apply_delta's gap and stale tests).
BookIsExact ==
  IF book.lastUpdateId = 0 THEN book.levels = NoLevels
  ELSE /\ book.lastUpdateId \in 1..Version
       /\ book.levels = market[book.lastUpdateId]

\* The best bid stays below the best ask, so the spread is positive and the
\* weighted mid price lies between them: a delta is never applied to a book it
\* was not computed from (spread, weighted_mid_price).
MidInsideSpread ==
  LET levels == book.levels IN
  TwoSided(levels) =>
    /\ BestBid(levels) < BestAsk(levels)
    /\ BestBid(levels) * WeightedMidDenom(levels) <= WeightedMidNum(levels)
    /\ WeightedMidNum(levels) <= BestAsk(levels) * WeightedMidDenom(levels)

\* The book implements Replica.
Abstract == INSTANCE Replica WITH States <- Levels, Blank <- NoLevels,
                                  shown <- book.levels, version <- book.lastUpdateId
ImplementsReplica == Abstract!Spec

\* When the exchange falls silent the book reaches its last version, whatever
\* gaps it ran into before: the next snapshot replaces it (apply_snapshot).
\* resync_needed may stay set then, when late deltas have closed the gap.
CatchesUp == <>[](book.lastUpdateId = Version)
=============================================================================
