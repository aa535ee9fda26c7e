----------------------------- MODULE OrderBook ------------------------------
(***************************************************************************)
(* modules/microstructure/order_book.py: the local copy of one symbol's    *)
(* order book.  A method of class OrderBook is an operator on the book's   *)
(* state, the record [levels, lastUpdateId, resyncNeeded].  A sorted list  *)
(* of (price, qty) pairs is a function from prices to quantities, 0 where  *)
(* the side has no level.                                                  *)
(***************************************************************************)
EXTENDS Integers, FiniteSetsExt

CONSTANTS Prices,  (* the prices an order can have                          *)
          Qtys     (* the quantities a message can carry, 0 among them      *)

ASSUME OrderBookAssumption ==
  /\ Prices \subseteq Nat
  /\ IsFiniteSet(Prices)
  /\ Qtys \subseteq Nat
  /\ 0 \in Qtys

Sides   == {"bid", "ask"}
Levels  == [Sides -> [Prices -> Qtys]]
Updates == [side : Sides, price : Prices, qty : Qtys]
Books   == [levels : Levels, lastUpdateId : Nat, resyncNeeded : BOOLEAN]

NoLevels  == [s \in Sides |-> [p \in Prices |-> 0]]

\* __init__ and clear
EmptyBook == [levels |-> NoLevels, lastUpdateId |-> 0, resyncNeeded |-> FALSE]

\* One level replaced, or removed when the quantity is 0.
SetLevel(levels, u) == [levels EXCEPT ![u.side][u.price] = u.qty]

-----------------------------------------------------------------------------
\* Mutant: a snapshot is applied whatever its id.
ApplySnapshot_NoIdCheck(b, levels, id) ==
  [levels |-> levels, lastUpdateId |-> id, resyncNeeded |-> FALSE]

\* Mutant: the old levels are not cleared.
ApplySnapshot_Merges(b, levels, id) ==
  IF id <= b.lastUpdateId THEN b
  ELSE [levels |-> [s \in Sides |-> [p \in Prices |->
                      IF levels[s][p] > 0 THEN levels[s][p] ELSE b.levels[s][p]]],
        lastUpdateId |-> id, resyncNeeded |-> FALSE]

\* Mutant: a snapshot across a gap is refused as a delta is.
ApplySnapshot_RefusesGap(b, levels, id) ==
  IF id <= b.lastUpdateId THEN b
  ELSE IF id > b.lastUpdateId + 1 THEN [b EXCEPT !.resyncNeeded = TRUE]
  ELSE [levels |-> levels, lastUpdateId |-> id, resyncNeeded |-> FALSE]

\* apply_snapshot: a gap sets resync_needed and the end of the method clears it.
ApplySnapshot(b, levels, id) ==
  IF id <= b.lastUpdateId THEN b
  ELSE [levels |-> levels, lastUpdateId |-> id, resyncNeeded |-> FALSE]

\* Mutant: a delta beyond the next one is applied.
DeltaStatus_NoGapCheck(b, id) ==
  IF id <= b.lastUpdateId THEN "stale" ELSE "next"

\* The three ways apply_delta can go.
DeltaStatus(b, id) ==
  IF id <= b.lastUpdateId THEN "stale"
  ELSE IF id > b.lastUpdateId + 1 THEN "gap" ELSE "next"

\* apply_delta
ApplyDelta(b, u, id) ==
  CASE DeltaStatus(b, id) = "stale" -> b
    [] DeltaStatus(b, id) = "gap"   -> [b EXCEPT !.resyncNeeded = TRUE]
    [] DeltaStatus(b, id) = "next"  -> [b EXCEPT !.levels = SetLevel(@, u),
                                                 !.lastUpdateId = id]

-----------------------------------------------------------------------------
\* The prices a side quotes, and its n best ones (top_n_bids, top_n_asks).
Quoted(levels, side) == {p \in Prices : levels[side][p] > 0}

Better(side, p, q) == IF side = "bid" THEN p > q ELSE p < q

TopN(levels, side, n) ==
  {p \in Quoted(levels, side) :
     Cardinality({q \in Quoted(levels, side) : Better(side, q, p)}) < n}

\* best_bid and best_ask, of a side that quotes
BestBid(levels) == Max(Quoted(levels, "bid"))
BestAsk(levels) == Min(Quoted(levels, "ask"))

TwoSided(levels) == \A s \in Sides : Quoted(levels, s) # {}

\* _pressure_sum, which always adds up five levels
Pressure(levels, side) == SumFunctionOnSet(levels[side], TopN(levels, side, 5))

\* The numerator and the denominator of weighted_mid_price, None unless TwoSided.
WeightedMidNum(levels) == BestAsk(levels) * Pressure(levels, "bid")
                          + BestBid(levels) * Pressure(levels, "ask")
WeightedMidDenom(levels) == Pressure(levels, "bid") + Pressure(levels, "ask")

\* No bid at or above an ask.
Uncrossed(levels) ==
  \A p \in Quoted(levels, "bid"), q \in Quoted(levels, "ask") : p < q
=============================================================================
