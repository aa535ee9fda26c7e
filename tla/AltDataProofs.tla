---------------------------- MODULE AltDataProofs ---------------------------
(* Proofs about AltData: for every number of items and entries, every size of *)
(* a read and every scale of the macro values.                                *)
EXTENDS AltData, TLAPS

\* While a round goes on there is an item to do and an attempt left.
RoundIsLeft == pc \in {"fetch", "publish", "backoff"} => item <= Items /\ attempt < 3

\* The entries of the signal in hand are behind the cursor.
HandIsRead ==
  /\ \A n \in hand : n <= cursor
  /\ (pc = "publish" /\ source = "onchain") \/ hand = {}

\* A CPI that an attempt of the round has read is the last of the history.
RecordedIsLast ==
  source = "macro" =>
    /\ recorded => prev.cpi = today.cpi
    /\ pc = "publish" /\ got.cpi # 0 => prev.cpi = got.cpi /\ got.cpi = today.cpi

IInv == TypeOK /\ RoundIsLeft /\ CountedOnce /\ HandIsRead /\ RecordedIsLast /\ RiskOnIsToldOnce

LEMMA DaysAreData == Days \subseteq Data /\ Nothing \in Data
BY AltDataAssumption DEF Days, Data, Nothing

LEMMA InitIInv == Init => IInv
<1> SUFFICES ASSUME Init PROVE IInv
  OBVIOUS
<1> USE AltDataAssumption
<1>1. today \in Data /\ got \in Data
  BY DaysAreData DEF Init
<1>2. prev \in [cpi : 0..Level, fed : 0..Level]
  BY DEF Init
<1>3. stream \in Seq(BOOLEAN) /\ Len(stream) = 0 /\ cursor \in 0..Len(stream)
  BY DEF Init
<1>4. counted \in [Entries -> Nat]
  BY DEF Init
<1>5. TypeOK
  <2>1. source \in Sources /\ running \in BOOLEAN /\ pc = "fetch" /\ recorded \in BOOLEAN
    BY DEF Init
  <2>2. attempt \in 0..3 /\ item \in 1..Items + 1
    BY DEF Init
  <2>3. regime \in {"risk_on", "risk_off", "neutral"} /\ hand \in SUBSET Entries
    BY DEF Init
  <2>4. Len(stream) <= MaxEntries
    BY <1>3
  <2> QED BY <1>1, <1>2, <1>3, <1>4, <2>1, <2>2, <2>3, <2>4 DEF TypeOK
<1>6. RoundIsLeft /\ HandIsRead /\ RecordedIsLast /\ RiskOnIsToldOnce
  BY DEF Init, RoundIsLeft, HandIsRead, RecordedIsLast, RiskOnIsToldOnce
<1>7. CountedOnce
  BY DEF Init, CountedOnce
<1> QED BY <1>5, <1>6, <1>7 DEF IInv

-----------------------------------------------------------------------------
(* The loop's own actions, and the stream's.                               *)

LEMMA LoopSteps == IInv /\ (BackOff \/ Wake \/ Stop \/ XAdd \/ UNCHANGED vars) => IInv'
<1> SUFFICES ASSUME IInv, BackOff \/ Wake \/ Stop \/ XAdd \/ UNCHANGED vars PROVE IInv'
  OBVIOUS
<1> USE AltDataAssumption DEF IInv, TypeOK, RoundIsLeft, CountedOnce, HandIsRead,
        RecordedIsLast, RiskOnIsToldOnce, macro, onchain
<1>1. CASE BackOff
  BY <1>1 DEF BackOff
<1>2. CASE Wake
  <2>1. today' \in Data
    BY <1>2, DaysAreData DEF Wake
  <2>2. pc' \in {"fetch", "over"} /\ pc # "publish" /\ attempt' \in {0, attempt}
    BY <1>2 DEF Wake
  <2>3. attempt' < 3 \/ pc' = "over"
    BY <1>2 DEF Wake
  <2>4. /\ recorded' = FALSE /\ item' = 1 /\ hand = {}
        /\ UNCHANGED <<source, running, got, prev, regime, stream, cursor, hand, counted>>
    BY <1>2, <2>2 DEF Wake
  <2>5. TypeOK'
    <3>0. pc' \in {"fetch", "publish", "backoff", "sleep", "over"}
      BY <2>2
    <3>1. attempt' \in 0..3
      <4>1. attempt \in 0..3
        OBVIOUS
      <4> HIDE DEF IInv
      <4> QED BY <2>2, <4>1
    <3>2. item' \in 1..Items + 1
      <4> HIDE DEF IInv
      <4> QED BY <2>4
    <3>3. recorded' \in BOOLEAN
      <4> HIDE DEF IInv
      <4> QED BY <2>4
    <3> QED BY <2>1, <2>4, <3>0, <3>1, <3>2, <3>3
  <2>6. RoundIsLeft' /\ HandIsRead' /\ RecordedIsLast' /\ RiskOnIsToldOnce'
    BY <2>2, <2>3, <2>4
  <2>7. CountedOnce'
    BY <2>4
  <2> QED BY <2>5, <2>6, <2>7
<1>3. CASE Stop
  BY <1>3 DEF Stop
<1>4. CASE XAdd
  <2>1. PICK good \in BOOLEAN : stream' = Append(stream, good)
    BY <1>4 DEF XAdd
  <2>2. stream' \in Seq(BOOLEAN) /\ Len(stream') = Len(stream) + 1
    BY <2>1
  <2> QED BY <1>4, <2>2 DEF XAdd, loop
<1>5. CASE UNCHANGED vars
  BY <1>5 DEF vars, loop
<1> QED BY <1>1, <1>2, <1>3, <1>4, <1>5

-----------------------------------------------------------------------------
(* FRED: what the histories hold decides which attempt can tell a fall.    *)

LEMMA MacroSteps == IInv /\ (FetchMacro \/ PublishMacro) => IInv'
<1> SUFFICES ASSUME IInv, FetchMacro \/ PublishMacro PROVE IInv'
  OBVIOUS
<1> USE AltDataAssumption DEF IInv, onchain
<1>1. CASE FetchMacro
  <2>1. got' \in Data /\ got'.cpi \in {0, today.cpi} /\ got'.cpi \in 0..Level
        /\ got'.fed \in 0..Level
    BY <1>1 DEF FetchMacro, Answers, Data
  <2>2. CASE got' = Nothing
    BY <1>1, <2>1, <2>2 DEF FetchMacro, EndRound, TypeOK, RoundIsLeft, CountedOnce,
       HandIsRead, RecordedIsLast, RiskOnIsToldOnce
  <2>3. CASE got' # Nothing
    <3>0. /\ pc' = "publish" /\ attempt' = attempt /\ running' = running
          /\ UNCHANGED <<source, today, recorded, stream, cursor, hand, counted, item>>
          /\ prev' = Recorded(got')
          /\ regime' = Classify(got', [cpi |-> Or(prev.cpi, got'.cpi),
                                       fed |-> Or(prev.fed, got'.fed)])
          /\ source = "macro" /\ pc = "fetch"
      BY <1>1, <2>3 DEF FetchMacro
    <3>1. prev' \in [cpi : 0..Level, fed : 0..Level]
          /\ prev'.cpi = Or(got'.cpi, prev.cpi)
      BY <3>0, <2>1 DEF Recorded, Or, TypeOK
    <3>2. regime' \in {"risk_on", "risk_off", "neutral"}
          /\ (regime' = "risk_on" => got'.cpi < Or(prev.cpi, got'.cpi))
      BY <3>0 DEF Classify
    <3>3. TypeOK'
      BY <3>0, <3>1, <3>2, <2>1 DEF TypeOK
    <3>4. RecordedIsLast'
      <4>1. recorded => prev.cpi = today.cpi
        BY <3>0 DEF RecordedIsLast
      <4> QED BY <3>0, <3>1, <2>1, <4>1 DEF RecordedIsLast, Or, TypeOK, Data
    <3>5. RiskOnIsToldOnce'
      <4> SUFFICES ASSUME regime' = "risk_on", got'.cpi # 0, recorded PROVE FALSE
        BY <3>0 DEF RiskOnIsToldOnce
      <4>1. prev.cpi = today.cpi /\ got'.cpi = today.cpi
        BY <2>1, <3>0 DEF RecordedIsLast
      <4> QED BY <4>1, <3>2, <2>1 DEF Or
    <3>6. RoundIsLeft' /\ CountedOnce' /\ HandIsRead'
      BY <3>0 DEF RoundIsLeft, CountedOnce, HandIsRead
    <3> QED BY <3>3, <3>4, <3>5, <3>6
  <2> QED BY <2>2, <2>3
<1>2. CASE PublishMacro
  <2>1. attempt < 3 /\ item <= Items /\ pc = "publish" /\ source = "macro"
    BY <1>2 DEF PublishMacro, RoundIsLeft
  <2>2. /\ pc' \in {"sleep", "backoff"} /\ attempt' \in 0..3 /\ running' = running
        /\ pc' = "backoff" => attempt' < 3
    BY <1>2, <2>1 DEF PublishMacro, EndRound, RetryRound, Tried, TypeOK
  <2>3. UNCHANGED <<source, today, got, prev, regime, stream, cursor, hand, counted, item>>
    BY <1>2 DEF PublishMacro
  <2>4. recorded' = recorded \/ recorded' = (recorded \/ got.cpi # 0)
    BY <1>2, Zenon DEF PublishMacro
  <2>5. recorded' \in BOOLEAN
    <3>1. recorded \in BOOLEAN
      BY DEF TypeOK
    <3>2. (recorded \/ got.cpi # 0) \in BOOLEAN
      OBVIOUS
    <3> QED BY <2>4, <3>1, <3>2, Zenon
  <2>6. recorded' => recorded \/ got.cpi # 0
    BY <2>4, Zenon
  <2> QED BY <2>1, <2>2, <2>3, <2>5, <2>6 DEF TypeOK, RoundIsLeft, CountedOnce, HandIsRead,
          RecordedIsLast, RiskOnIsToldOnce
<1> QED BY <1>1, <1>2

-----------------------------------------------------------------------------
(* On chain: the cursor is past every entry that has been taken.           *)

LEMMA OnChainSteps == IInv /\ (FetchOnChain \/ ReadFails \/ PublishOnChain) => IInv'
<1> SUFFICES ASSUME IInv, FetchOnChain \/ ReadFails \/ PublishOnChain PROVE IInv'
  OBVIOUS
<1> USE AltDataAssumption DEF IInv, macro
<1>0. Len(stream) \in Nat /\ Len(stream) <= MaxEntries /\ cursor \in 0..Len(stream)
  BY DEF TypeOK
<1>1. CASE FetchOnChain
  <2> DEFINE upto == IF Len(stream) < cursor + Count THEN Len(stream) ELSE cursor + Count
             new  == cursor + 1 .. upto
             bad  == {n \in new : ~stream[n]}
  <2>1. upto \in 0..Len(stream) /\ cursor <= upto
    BY <1>0
  <2>2. new \subseteq Entries /\ \A n \in new : n <= Len(stream) /\ cursor < n /\ n <= upto
    BY <1>0, <2>1 DEF Entries
  <2>3. /\ source = "onchain" /\ pc = "fetch" /\ hand = {}
        /\ UNCHANGED <<source, today, got, prev, regime, recorded, stream, counted, item>>
        /\ running' = running /\ attempt' = attempt
    BY <1>1 DEF FetchOnChain, EndRound, HandIsRead
  <2>4. \/ pc' = "sleep" /\ hand' = hand /\ cursor' \in cursor..Len(stream)
        \/ pc' = "publish" /\ hand' = new /\ cursor' = upto
    <3> HIDE DEF new, bad, upto
    <3>1. \/ new = {} /\ EndRound /\ UNCHANGED <<cursor, hand>>
          \/ \E n \in bad : EndRound /\ cursor' = PastBad(n) /\ UNCHANGED hand
          \/ pc' = "publish" /\ cursor' = upto /\ hand' = new
      BY <1>1 DEF FetchOnChain, new, bad, upto
    <3>2. \A n \in bad : n \in cursor..Len(stream)
      BY <1>0, <2>1 DEF bad, new
    <3> QED BY <1>0, <3>1, <3>2 DEF EndRound, PastBad
  <2>5. cursor' \in cursor..Len(stream')
    BY <1>0, <2>1, <2>3, <2>4
  <2>6. hand' \subseteq Entries /\ \A n \in hand' : cursor < n /\ n <= cursor'
    BY <2>2, <2>3, <2>4
  <2> HIDE DEF new, bad, upto
  <2>7. TypeOK'
    BY <1>0, <2>3, <2>4, <2>5, <2>6 DEF TypeOK
  <2>8. CountedOnce'
    <3> SUFFICES ASSUME NEW n \in Entries
                 PROVE  /\ counted[n] <= 1
                        /\ n \in hand' => counted[n] = 0
                        /\ counted[n] > 0 => n <= cursor'
      BY <2>3 DEF CountedOnce
    <3>1. counted[n] \in Nat /\ n \in Nat
      BY DEF TypeOK, Entries
    <3>2. counted[n] <= 1 /\ (counted[n] > 0 => n <= cursor)
      BY DEF CountedOnce
    <3> QED BY <1>0, <2>3, <2>5, <2>6, <3>1, <3>2
  <2>9. HandIsRead' /\ RoundIsLeft'
    BY <2>3, <2>4, <2>6 DEF HandIsRead, RoundIsLeft
  <2> QED BY <2>3, <2>7, <2>8, <2>9 DEF RecordedIsLast, RiskOnIsToldOnce
<1>2. CASE ReadFails
  BY <1>2 DEF ReadFails, EndRound, onchain, TypeOK, RoundIsLeft, CountedOnce, HandIsRead,
     RecordedIsLast, RiskOnIsToldOnce
<1>3. CASE PublishOnChain
  <2>1. /\ source = "onchain" /\ pc' = "sleep" /\ hand' = {} /\ cursor' = cursor
        /\ counted' \in {counted, Counted}
        /\ UNCHANGED <<source, today, got, prev, regime, recorded, stream, item>>
        /\ running' = running /\ attempt' = attempt
    BY <1>3 DEF PublishOnChain, EndRound, AfterRaise
  <2>2. \A n \in Entries : counted'[n] = counted[n] \/ (n \in hand /\ counted'[n] = counted[n] + 1)
    BY <2>1 DEF Counted
  <2>3. counted' \in [Entries -> Nat]
    BY <2>1 DEF Counted, TypeOK
  <2>4. TypeOK'
    BY <2>1, <2>3 DEF TypeOK
  <2>5. CountedOnce'
    <3> SUFFICES ASSUME NEW n \in Entries
                 PROVE  counted'[n] <= 1 /\ (counted'[n] > 0 => n <= cursor)
      BY <2>1 DEF CountedOnce
    <3>1. counted[n] \in Nat
      BY DEF TypeOK
    <3> QED BY <2>2, <3>1 DEF CountedOnce, HandIsRead
  <2> QED BY <2>1, <2>4, <2>5 DEF RoundIsLeft, HandIsRead, RecordedIsLast, RiskOnIsToldOnce
<1> QED BY <1>1, <1>2, <1>3

-----------------------------------------------------------------------------
(* The items, and the whole.                                               *)

LEMMA ItemSteps ==
  IInv /\ (FetchReddit \/ PublishReddit \/ FetchTrends \/ FetchFutures \/ PublishItem) => IInv'
<1> SUFFICES ASSUME IInv,
                    FetchReddit \/ PublishReddit \/ FetchTrends \/ FetchFutures \/ PublishItem
             PROVE  IInv'
  OBVIOUS
<1> USE AltDataAssumption DEF IInv
<1>1. /\ source \in {"reddit", "trends", "futures"} /\ pc \in {"fetch", "publish"}
      /\ UNCHANGED <<source, running, attempt, today, got, prev, regime, recorded, stream,
                     cursor, hand, counted>>
      /\ \/ NextItem
         \/ pc' \in {"publish", "sleep"} /\ item' = item
  BY DEF FetchReddit, PublishReddit, FetchTrends, FetchFutures, PublishItem, macro, onchain
<1>2. item \in 1..Items /\ attempt < 3
  BY <1>1 DEF TypeOK, RoundIsLeft
<1>3. item' \in 1..Items + 1 /\ pc' \in {"fetch", "publish", "sleep"}
      /\ (pc' \in {"fetch", "publish"} => item' <= Items)
  BY <1>1, <1>2 DEF NextItem
<1> QED BY <1>1, <1>2, <1>3 DEF TypeOK, RoundIsLeft, CountedOnce, HandIsRead, RecordedIsLast,
        RiskOnIsToldOnce

LEMMA NextIInv == IInv /\ [Next]_vars => IInv'
BY LoopSteps, MacroSteps, OnChainSteps, ItemSteps DEF Next, Step

\* Every reachable state is in IInv.
LEMMA Inductive == Spec => []IInv
BY InitIInv, NextIInv, PTL DEF Spec

\* The ingestors' variables have their types: in particular the cursor of _last_id
\* is never past the stream, and a round never makes more than three attempts.
THEOREM TypeCorrect == Spec => []TypeOK
<1>1. IInv => TypeOK
  BY DEF IInv
<1> QED BY <1>1, Inductive, PTL

\* One life of the on-chain ingestor sums no entry up in two signals, whatever raised
\* (OnChainIngestor._consume_stream).
THEOREM CountsOnce == Spec => []CountedOnce
<1>1. IInv => CountedOnce
  BY DEF IInv
<1> QED BY <1>1, Inductive, PTL

\* A fall of the CPI is told by the first attempt that read it, or never.
THEOREM TellsRiskOnOnce == Spec => []RiskOnIsToldOnce
<1>1. IInv => RiskOnIsToldOnce
  BY DEF IInv
<1> QED BY <1>1, Inductive, PTL

-----------------------------------------------------------------------------
(* The on-chain ingestor implements Delivery with a single consumer.       *)

Summed == {n \in Entries : counted[n] > 0}

LEMMA DeliveryInit == Init => Abstract!Init
BY DEF Init, Abstract!Init

\* An attempt passes over the entries it reads, or has all of them in hand.
LEMMA FetchIsHand ==
  ASSUME IInv, FetchOnChain
  PROVE  [Abstract!Next]_(Abstract!vars)
<1> USE AltDataAssumption
<1> DEFINE upto == IF Len(stream) < cursor + Count THEN Len(stream) ELSE cursor + Count
           new  == cursor + 1 .. upto
           bad  == {n \in new : ~stream[n]}
<1>0. Len(stream) \in Nat /\ cursor \in 0..Len(stream)
  BY DEF IInv, TypeOK
<1>1. upto \in cursor..Len(stream)
  BY <1>0
<1>2. stream' = stream /\ counted' = counted /\ hand = {}
  BY DEF FetchOnChain, IInv, HandIsRead
<1>3. \/ cursor' = cursor /\ hand' = hand
      \/ \E n \in new : cursor' = n /\ hand' = {}
      \/ new # {} /\ cursor' = upto /\ hand' = new
  <2> HIDE DEF new, bad, upto
  <2>1. \/ new = {} /\ cursor' = cursor /\ hand' = hand
        \/ \E n \in bad : cursor' = PastBad(n) /\ hand' = hand
        \/ new # {} /\ cursor' = upto /\ hand' = new
    BY DEF FetchOnChain, new, bad, upto
  <2>2. bad \subseteq new
    BY DEF bad
  <2> QED BY <1>2, <2>1, <2>2 DEF PastBad
<1>4. ASSUME NEW n \in cursor + 1 .. Len(stream), cursor' = n,
             NEW some \in SUBSET (cursor + 1 .. n), hand' = some
      PROVE  Abstract!Next
  <2>1. [c \in {"onchain"} |-> hand'] = [[c \in {"onchain"} |-> hand] EXCEPT !["onchain"] = some]
    BY <1>4
  <2>2. Abstract!Hand("onchain", n)
    BY <1>2, <1>4, <2>1 DEF Abstract!Hand
  <2> QED BY <2>2 DEF Abstract!Next
<1>5. CASE cursor' = cursor /\ hand' = hand
  BY <1>2, <1>5 DEF Abstract!vars
<1>6. CASE \E n \in new : cursor' = n /\ hand' = {}
  <2>1. PICK n \in new : cursor' = n /\ hand' = {}
    BY <1>6
  <2>2. n \in cursor + 1 .. Len(stream)
    BY <1>0, <1>1
  <2> HIDE DEF new
  <2> QED BY <1>4, <2>1, <2>2
<1>7. CASE new # {} /\ cursor' = upto /\ hand' = new
  <2>1. upto \in cursor + 1 .. Len(stream)
    BY <1>0, <1>1, <1>7
  <2>2. new \in SUBSET (cursor + 1 .. upto)
    OBVIOUS
  <2> HIDE DEF new, upto
  <2> QED BY <1>4, <1>7, <2>1, <2>2
<1> QED BY <1>3, <1>5, <1>6, <1>7

\* A publication takes what is in hand, or drops it.
LEMMA PublishIsTake ==
  ASSUME IInv, PublishOnChain
  PROVE  Abstract!Next
<1>1. /\ hand' = {} /\ cursor' = cursor /\ stream' = stream
      /\ counted' \in {counted, Counted}
  BY DEF PublishOnChain, AfterRaise
<1>2. CASE counted' = counted
  <2>1. Abstract!Drop({"onchain"})
    BY <1>1, <1>2 DEF Abstract!Drop
  <2> QED BY <2>1 DEF Abstract!Next
<1>3. CASE counted' = Counted
  <2>1. hand \subseteq Entries /\ counted \in [Entries -> Nat]
    BY DEF IInv, TypeOK
  <2>2. \A n \in Entries : counted'[n] > 0 <=> n \in hand \/ counted[n] > 0
    <3> TAKE n \in Entries
    <3>1. counted[n] \in Nat
      BY <2>1
    <3>2. counted'[n] = IF n \in hand THEN counted[n] + 1 ELSE counted[n]
      BY <1>3 DEF Counted
    <3> QED BY <3>1, <3>2
  <2>3. Summed' = Summed \cup hand
    <3>1. \A n \in Entries : n \in Summed' <=> n \in Summed \cup hand
      BY <2>2 DEF Summed
    <3> QED BY <2>1, <3>1 DEF Summed
  <2>4. Abstract!Take("onchain")
    <3>1. [c \in {"onchain"} |-> Summed']
          = [[c \in {"onchain"} |-> Summed] EXCEPT !["onchain"] = @ \cup hand]
      BY <2>3
    <3>2. [c \in {"onchain"} |-> hand'] = [[c \in {"onchain"} |-> hand] EXCEPT !["onchain"] = {}]
      BY <1>1
    <3> QED BY <1>1, <3>1, <3>2 DEF Abstract!Take, Summed
  <2> QED BY <2>4 DEF Abstract!Next
<1> QED BY <1>1, <1>2, <1>3

LEMMA DeliveryStep == IInv /\ [Next]_vars => [Abstract!Next]_(Abstract!vars)
<1> SUFFICES ASSUME IInv, [Next]_vars PROVE [Abstract!Next]_(Abstract!vars)
  OBVIOUS
<1>1. CASE UNCHANGED <<stream, cursor, hand, counted>>
  BY <1>1 DEF Abstract!vars
<1>2. CASE XAdd
  <2>1. PICK good \in BOOLEAN : stream' = Append(stream, good)
    BY <1>2 DEF XAdd
  <2>2. Len(stream') = Len(stream) + 1
    BY <2>1 DEF IInv, TypeOK
  <2>3. cursor' = cursor /\ hand' = hand /\ counted' = counted
    BY <1>2 DEF XAdd
  <2>4. Abstract!Add
    BY <2>2, <2>3 DEF Abstract!Add
  <2> QED BY <2>4 DEF Abstract!Next
<1>3. CASE FetchOnChain
  BY <1>3, FetchIsHand
<1>4. CASE PublishOnChain
  BY <1>4, PublishIsTake
<1>5. CASE UNCHANGED vars \/ Stop \/ BackOff \/ Wake
  BY <1>1, <1>5 DEF vars, onchain, Stop, BackOff, Wake
<1>6. CASE FetchMacro \/ PublishMacro \/ ReadFails
  BY <1>1, <1>6 DEF onchain, FetchMacro, PublishMacro, ReadFails
<1>7. CASE FetchReddit \/ PublishReddit \/ FetchTrends \/ FetchFutures \/ PublishItem
  BY <1>1, <1>7 DEF onchain, FetchReddit, PublishReddit, FetchTrends, FetchFutures, PublishItem
<1> QED BY <1>2, <1>3, <1>4, <1>5, <1>6, <1>7 DEF Next, Step

\* The on-chain ingestor hands itself each entry once at most, behind its cursor, for any
\* size of a read, unreadable entries and failing publications.
THEOREM OnChainImplementsDelivery == Spec => ImplementsDelivery
BY DeliveryInit, DeliveryStep, Inductive, PTL DEF Spec, ImplementsDelivery, Abstract!Spec
=============================================================================
