----------------------------- MODULE IngestProofs ----------------------------
(* Proofs about Ingest: for every set of symbols, every size of the resync     *)
(* buffer and any number of messages and failures.                             *)
EXTENDS Ingest, FiniteSetTheorems, TLAPS

LEMMA InitTypeOK == Init => TypeOK
<1> SUFFICES ASSUME Init PROVE TypeOK
  OBVIOUS
<1> USE IngestAssumption DEF Init
<1>1. feed \in WebSockets \cup Pollers /\ wrapped \in BOOLEAN
  OBVIOUS
<1>2. sent \in [Symbols -> 0..MaxSeq] /\ mark \in [Symbols -> Nat]
  OBVIOUS
<1>3. hand \in [key : Keys, id : 0..MaxSeq]
  BY DEF Nothing, Keys
<1>4. raw \in [Keys -> Seq(Numbers)] /\ stream \in [Keys -> Seq(Numbers)]
  OBVIOUS
<1>5. buffer \in [Symbols -> SUBSET Numbers] /\ held \in [Symbols -> SUBSET Numbers]
      /\ passed \in [Symbols -> SUBSET Numbers]
  OBVIOUS
<1>6. resyncing \in SUBSET Symbols /\ locks \in SUBSET Symbols
      /\ listener \in {"listening", "dead"} /\ pc \in Awaits /\ fails \in 0..MaxFails
  BY DEF Awaits
<1> QED BY <1>1, <1>2, <1>3, <1>4, <1>5, <1>6 DEF TypeOK

\* What the deque holds after an append are messages of the symbol.
LEMMA BufferedType ==
  ASSUME NEW b \in SUBSET Numbers, NEW n \in Numbers PROVE Buffered(b, n) \in SUBSET Numbers
BY DEF Buffered

\* An XADD appends the message in hand under its key.
LEMMA PutType ==
  ASSUME NEW log \in [Keys -> Seq(Numbers)], hand.key \in Keys, hand.id \in Numbers
  PROVE  Put(log) \in [Keys -> Seq(Numbers)]
<1>1. Append(log[hand.key], hand.id) \in Seq(Numbers)
  OBVIOUS
<1> QED BY <1>1 DEF Put

\* Between reading and publishing there is a message in hand.
HandIsFull == pc \in {"raw", "stream"} => hand.id \in Numbers

IInv == TypeOK /\ HandIsFull

LEMMA NextIInv == IInv /\ [Next]_vars => IInv'
<1> SUFFICES ASSUME TypeOK, HandIsFull, [Next]_vars PROVE IInv'
  BY DEF IInv
<1> USE IngestAssumption
<1>0. hand.key \in Keys /\ hand.id \in 0..MaxSeq /\ Nothing \in [key : Keys, id : 0..MaxSeq]
  BY DEF TypeOK, Nothing, Keys
<1>1. ASSUME NEW s \in Symbols, StartResync(s) PROVE IInv'
  <2>1. mark' \in [Symbols -> Nat]
    <3>1. Len(raw[s]) \in Nat
      BY DEF TypeOK, Keys
    <3> QED BY <1>1, <3>1 DEF StartResync, TypeOK
  <2> QED BY <1>1, <2>1 DEF StartResync, TypeOK, IInv, HandIsFull, reader, redis
<1>2. ASSUME NEW s \in Symbols, NEW sequence \in 0..MaxSeq, CompleteResync(s, sequence)
      PROVE  IInv'
  <2>1. buffer' \in [Symbols -> SUBSET Numbers]
    BY <1>2 DEF CompleteResync, TypeOK
  <2>2. passed' \in [Symbols -> SUBSET Numbers]
    BY <1>2 DEF CompleteResync, TypeOK
  <2> QED BY <1>2, <2>1, <2>2 DEF CompleteResync, TypeOK, IInv, HandIsFull, reader, redis
<1>3. CASE ListenerDies
  BY <1>3 DEF ListenerDies, TypeOK, IInv, HandIsFull, reader, redis, history
<1>4. ASSUME NEW s \in Symbols, Receive(s) PROVE IInv'
  <2>1. PICK n \in sent[s] + 1 .. MaxSeq :
          /\ sent' = [sent EXCEPT ![s] = n]
          /\ Withhold(s, n) \/ Publish(s, n)
    BY <1>4 DEF Receive
  <2>2. n \in Numbers /\ n \in 0..MaxSeq
    BY <2>1 DEF TypeOK, Numbers
  <2>3. sent' \in [Symbols -> 0..MaxSeq]
    <3>1. sent \in [Symbols -> 0..MaxSeq]
      BY DEF TypeOK
    <3> QED BY <2>1, <2>2, <3>1
  <2>4. UNCHANGED <<feed, wrapped, raw, stream, resyncing, locks, listener, passed, mark, fails>>
    BY <1>4 DEF Receive, redis
  <2>5. pc = "recv"
    BY <1>4 DEF Receive
  <2>6. CASE Withhold(s, n)
    <3>1. Buffered(buffer[s], n) \in SUBSET Numbers
      BY <2>2, BufferedType DEF TypeOK
    <3>2. buffer' \in [Symbols -> SUBSET Numbers] /\ held' \in [Symbols -> SUBSET Numbers]
      BY <2>2, <2>6, <3>1 DEF Withhold, TypeOK
    <3> QED BY <2>3, <2>4, <2>5, <2>6, <3>2 DEF Withhold, TypeOK, IInv, HandIsFull
  <2>7. CASE Publish(s, n)
    <3>1. Key(s) \in Keys
      BY DEF Key, Keys
    <3>2. \/ UNCHANGED <<pc, hand>>
          \/ pc' = "raw" /\ hand' \in [key : Keys, id : 0..MaxSeq] /\ hand'.id = n
      BY <2>2, <2>7, <3>1 DEF Publish
    <3> QED BY <2>2, <2>3, <2>4, <2>5, <2>7, <3>2 DEF Publish, TypeOK, IInv, HandIsFull, Awaits
  <2> QED BY <2>1, <2>6, <2>7
<1>5. CASE XAddRaw
  <2>1. Put(raw) \in [Keys -> Seq(Numbers)]
    BY <1>0, <1>5, PutType DEF XAddRaw, TypeOK, HandIsFull
  <2> QED BY <1>5, <2>1 DEF XAddRaw, TypeOK, IInv, HandIsFull, Awaits, resync, history
<1>6. CASE XAddStream
  <2>1. Put(stream) \in [Keys -> Seq(Numbers)]
    BY <1>0, <1>6, PutType DEF XAddStream, TypeOK, HandIsFull
  <2> QED BY <1>0, <1>6, <2>1 DEF XAddStream, TypeOK, IInv, HandIsFull, Awaits, resync, history
<1>7. CASE XAddFails
  <2>1. pc \in {"raw", "stream"} /\ pc' \in {"recv", "down"}
    BY <1>7 DEF XAddFails, AfterFailure
  <2>2. Put(raw) \in [Keys -> Seq(Numbers)] /\ Put(stream) \in [Keys -> Seq(Numbers)]
    BY <1>0, <2>1, PutType DEF TypeOK, HandIsFull
  <2>3. raw' \in [Keys -> Seq(Numbers)] /\ stream' \in [Keys -> Seq(Numbers)]
    BY <1>7, <2>2 DEF XAddFails, TypeOK
  <2>4. hand' = Nothing /\ fails' \in 0..MaxFails
    BY <1>7, <2>1 DEF XAddFails, TypeOK
  <2>5. UNCHANGED <<feed, wrapped, sent, resyncing, buffer, locks, listener, held, passed, mark>>
    BY <1>7 DEF XAddFails, resync
  <2> QED BY <1>0, <2>1, <2>3, <2>4, <2>5 DEF TypeOK, IInv, HandIsFull, Awaits
<1>8. CASE ConnectionLost \/ Reconnect
  <2>1. pc' \in {"recv", "down"}
    BY <1>8 DEF ConnectionLost, Reconnect
  <2> QED BY <1>8, <2>1 DEF ConnectionLost, Reconnect, TypeOK, IInv, HandIsFull, Awaits, redis,
                        resync, history
<1>9. CASE UNCHANGED vars
  BY <1>9 DEF vars, reader, redis, resync, history, TypeOK, IInv, HandIsFull
<1> QED BY <1>1, <1>2, <1>3, <1>4, <1>5, <1>6, <1>7, <1>8, <1>9 DEF Next

LEMMA Inductive == Spec => []IInv
<1>1. Init => IInv
  BY InitTypeOK DEF IInv, HandIsFull, Init
<1> QED BY <1>1, NextIInv, PTL DEF Spec

\* Every reachable state of the readers and the resync buffer is well typed; in
\* particular nothing is published that was not received.
THEOREM TypeCorrect == Spec => []TypeOK
<1>1. IInv => TypeOK
  BY DEF IInv
<1> QED BY <1>1, Inductive, PTL

-----------------------------------------------------------------------------
(* Order, and what a resync withholds.                                        *)

\* Whatever was withheld or published has been received, and nothing is both.
Received ==
  \A s \in Symbols :
    /\ \A n \in held[s] : n <= sent[s]
    /\ \A i \in 1..Len(raw[s]) : raw[s][i] <= sent[s] /\ raw[s][i] \notin held[s]

\* The message about to go to the raw stream is newer than all that is there.
HandIsNext ==
  pc = "raw" /\ hand.key \in Symbols =>
    /\ hand.id <= sent[hand.key] /\ hand.id \notin held[hand.key]
    /\ \A i \in 1..Len(raw[hand.key]) : raw[hand.key][i] < hand.id

\* The message about to go to the shared stream is in the raw one, and newer than
\* all that is in the shared one.
HandIsThere ==
  pc = "stream" =>
    /\ \E j \in 1..Len(raw[hand.key]) : raw[hand.key][j] = hand.id
    /\ hand.key \in Symbols =>
         \A i \in 1..Len(stream[hand.key]) : stream[hand.key][i] < hand.id

Grow == \A s \in Symbols : Increasing(raw[s]) /\ Increasing(stream[s])

Follows == \A k \in Keys : \A i \in 1..Len(stream[k]) :
             \E j \in 1..Len(raw[k]) : stream[k][i] = raw[k][j]

Lag ==
  \A k \in Keys :
    /\ Len(raw[k]) <= Len(stream[k]) + fails + 1
    /\ Len(raw[k]) <= Len(stream[k]) + fails \/ (pc = "stream" /\ hand.key = k)

Nameless ==
  /\ pc \in {"raw", "stream"} /\ hand.key = NoSymbol => feed = "trade"
  /\ raw[NoSymbol] # <<>> => feed = "trade"

\* What may still come is the message that was in hand when the resync started.
OnePasses ==
  feed = "orderbook" =>
    \A s \in resyncing :
      /\ Len(raw[s]) - mark[s] \in {0, 1}
      /\ pc = "raw" /\ hand.key = s => Len(raw[s]) = mark[s]

OrderInv ==
  /\ Received /\ HandIsNext /\ HandIsThere /\ Grow /\ Follows /\ Lag /\ Nameless /\ OnePasses

\* An XADD leaves the other streams alone and adds the message at the end of its own.
LEMMA PutEntries ==
  ASSUME NEW log \in [Keys -> Seq(Numbers)], hand.key \in Keys, hand.id \in Numbers,
         NEW k \in Keys
  PROVE  /\ k # hand.key => Put(log)[k] = log[k]
         /\ k = hand.key =>
              /\ Len(Put(log)[k]) = Len(log[k]) + 1
              /\ Put(log)[k][Len(log[k]) + 1] = hand.id
              /\ \A i \in 1..Len(log[k]) : Put(log)[k][i] = log[k][i]
<1>1. log[k] \in Seq(Numbers)
  OBVIOUS
<1>2. CASE k # hand.key
  BY <1>2 DEF Put
<1>3. CASE k = hand.key
  <2>1. Put(log)[k] = Append(log[k], hand.id)
    BY <1>3 DEF Put
  <2> QED BY <1>1, <1>3, <2>1
<1> QED BY <1>2, <1>3

LEMMA RawAppended ==
  ASSUME TypeOK, HandIsFull, OrderInv, pc = "raw", raw' = Put(raw),
         UNCHANGED <<feed, sent, held, stream, resyncing, mark>>
  PROVE  /\ Received' /\ Grow' /\ Follows'
         /\ raw'[NoSymbol] # <<>> => feed = "trade"
         /\ feed = "orderbook" => \A s \in resyncing : Len(raw'[s]) - mark[s] \in {0, 1}
         /\ \E j \in 1..Len(raw'[hand.key]) : raw'[hand.key][j] = hand.id
         /\ \A k \in Keys : Len(raw'[k]) = Len(raw[k]) + (IF k = hand.key THEN 1 ELSE 0)
<1> USE IngestAssumption
<1>1. hand.key \in Keys /\ hand.id \in Numbers /\ raw \in [Keys -> Seq(Numbers)]
  BY DEF TypeOK, HandIsFull
<1>2. \A k \in Keys : raw[k] \in Seq(Numbers) /\ Len(raw[k]) \in Nat
  BY <1>1
<1>3. \A k \in Keys :
         /\ k # hand.key => raw'[k] = raw[k]
         /\ k = hand.key =>
              /\ Len(raw'[k]) = Len(raw[k]) + 1
              /\ raw'[k][Len(raw[k]) + 1] = hand.id
              /\ \A i \in 1..Len(raw[k]) : raw'[k][i] = raw[k][i]
  BY <1>1, PutEntries
<1>4. \A k \in Keys : Len(raw'[k]) = Len(raw[k]) + (IF k = hand.key THEN 1 ELSE 0)
  <2> TAKE k \in Keys
  <2>1. CASE k = hand.key
    BY <1>3, <2>1
  <2>2. CASE k # hand.key
    <3>1. raw'[k] = raw[k] /\ Len(raw[k]) \in Nat
      BY <1>2, <1>3, <2>2
    <3> QED BY <2>2, <3>1
  <2> QED BY <2>1, <2>2
<1>5. \A s \in Symbols : s \in Keys
  BY DEF Keys
<1>6. Received'
  <2> SUFFICES ASSUME NEW s \in Symbols, NEW i \in 1..Len(raw'[s])
               PROVE  raw'[s][i] <= sent[s] /\ raw'[s][i] \notin held[s]
    BY DEF Received, OrderInv
  <2>1. CASE s # hand.key
    BY <1>3, <1>5, <2>1 DEF Received, OrderInv
  <2>2. CASE s = hand.key /\ i \in 1..Len(raw[s])
    BY <1>3, <1>5, <2>2 DEF Received, OrderInv
  <2>3. CASE s = hand.key /\ i = Len(raw[s]) + 1
    BY <1>3, <1>5, <2>3 DEF HandIsNext, OrderInv
  <2> QED BY <1>2, <1>3, <1>5, <2>1, <2>2, <2>3
<1>7. Grow'
  <2> SUFFICES ASSUME NEW s \in Symbols PROVE Increasing(raw'[s])
    BY DEF Grow, OrderInv
  <2>1. CASE s # hand.key
    BY <1>3, <1>5, <2>1 DEF Grow, OrderInv
  <2>2. CASE s = hand.key
    <3> SUFFICES ASSUME NEW i \in 1..Len(raw'[s]), NEW j \in 1..Len(raw'[s]), i < j
                 PROVE  raw'[s][i] < raw'[s][j]
      BY DEF Increasing
    <3>1. i \in 1..Len(raw[s]) /\ j \in 1 .. Len(raw[s]) + 1
      BY <1>2, <1>3, <1>5, <2>2
    <3>2. CASE j \in 1..Len(raw[s])
      BY <1>3, <1>5, <2>2, <3>1, <3>2 DEF Grow, OrderInv, Increasing
    <3>3. CASE j = Len(raw[s]) + 1
      BY <1>3, <1>5, <2>2, <3>1, <3>3 DEF HandIsNext, OrderInv
    <3> QED BY <1>2, <1>5, <3>1, <3>2, <3>3
  <2> QED BY <2>1, <2>2
<1>8. Follows'
  <2> SUFFICES ASSUME NEW k \in Keys, NEW i \in 1..Len(stream[k])
               PROVE  \E j \in 1..Len(raw'[k]) : stream[k][i] = raw'[k][j]
    BY DEF Follows
  <2>1. PICK j \in 1..Len(raw[k]) : stream[k][i] = raw[k][j]
    BY DEF Follows, OrderInv
  <2>2. j \in 1..Len(raw'[k]) /\ raw'[k][j] = raw[k][j]
    BY <1>2, <1>3
  <2> QED BY <2>1, <2>2
<1>9. raw'[NoSymbol] # <<>> => feed = "trade"
  BY <1>3 DEF Keys, Nameless, OrderInv
<1>10. feed = "orderbook" => \A s \in resyncing : Len(raw'[s]) - mark[s] \in {0, 1}
  <2> SUFFICES ASSUME feed = "orderbook", NEW s \in resyncing
               PROVE  Len(raw'[s]) - mark[s] \in {0, 1}
    OBVIOUS
  <2>1. s \in Symbols /\ mark[s] \in Nat
    BY DEF TypeOK
  <2> QED BY <1>2, <1>3, <1>5, <2>1 DEF OnePasses, OrderInv
<1>11. \E j \in 1..Len(raw'[hand.key]) : raw'[hand.key][j] = hand.id
  BY <1>1, <1>2, <1>3
<1> QED BY <1>4, <1>6, <1>7, <1>8, <1>9, <1>10, <1>11

LEMMA StreamAppended ==
  ASSUME TypeOK, HandIsFull, OrderInv, pc = "stream", stream' = Put(stream), UNCHANGED raw
  PROVE  /\ Grow' /\ Follows'
         /\ \A k \in Keys : Len(stream'[k]) = Len(stream[k]) + (IF k = hand.key THEN 1 ELSE 0)
<1> USE IngestAssumption
<1>1. hand.key \in Keys /\ hand.id \in Numbers /\ stream \in [Keys -> Seq(Numbers)]
  BY DEF TypeOK, HandIsFull
<1>2. \A k \in Keys : stream[k] \in Seq(Numbers) /\ Len(stream[k]) \in Nat
  BY <1>1
<1>3. \A k \in Keys :
         /\ k # hand.key => stream'[k] = stream[k]
         /\ k = hand.key =>
              /\ Len(stream'[k]) = Len(stream[k]) + 1
              /\ stream'[k][Len(stream[k]) + 1] = hand.id
              /\ \A i \in 1..Len(stream[k]) : stream'[k][i] = stream[k][i]
  BY <1>1, PutEntries
<1>4. \A k \in Keys : Len(stream'[k]) = Len(stream[k]) + (IF k = hand.key THEN 1 ELSE 0)
  <2> TAKE k \in Keys
  <2>1. CASE k = hand.key
    BY <1>3, <2>1
  <2>2. CASE k # hand.key
    <3>1. stream'[k] = stream[k] /\ Len(stream[k]) \in Nat
      BY <1>2, <1>3, <2>2
    <3> QED BY <2>2, <3>1
  <2> QED BY <2>1, <2>2
<1>5. \A s \in Symbols : s \in Keys
  BY DEF Keys
<1>6. Grow'
  <2> SUFFICES ASSUME NEW s \in Symbols PROVE Increasing(stream'[s])
    BY DEF Grow, OrderInv
  <2>1. CASE s # hand.key
    BY <1>3, <1>5, <2>1 DEF Grow, OrderInv
  <2>2. CASE s = hand.key
    <3> SUFFICES ASSUME NEW i \in 1..Len(stream'[s]), NEW j \in 1..Len(stream'[s]), i < j
                 PROVE  stream'[s][i] < stream'[s][j]
      BY DEF Increasing
    <3>1. i \in 1..Len(stream[s]) /\ j \in 1 .. Len(stream[s]) + 1
      BY <1>2, <1>3, <1>5, <2>2
    <3>2. CASE j \in 1..Len(stream[s])
      BY <1>3, <1>5, <2>2, <3>1, <3>2 DEF Grow, OrderInv, Increasing
    <3>3. CASE j = Len(stream[s]) + 1
      BY <1>3, <1>5, <2>2, <3>1, <3>3 DEF HandIsThere, OrderInv
    <3> QED BY <1>2, <1>5, <3>1, <3>2, <3>3
  <2> QED BY <2>1, <2>2
<1>7. Follows'
  <2> SUFFICES ASSUME NEW k \in Keys, NEW i \in 1..Len(stream'[k])
               PROVE  \E j \in 1..Len(raw[k]) : stream'[k][i] = raw[k][j]
    BY DEF Follows
  <2>1. CASE k # hand.key \/ i \in 1..Len(stream[k])
    BY <1>3, <2>1 DEF Follows, OrderInv
  <2>2. CASE k = hand.key /\ i = Len(stream[k]) + 1
    BY <1>3, <2>2 DEF HandIsThere, OrderInv
  <2> QED BY <1>2, <1>3, <2>1, <2>2
<1> QED BY <1>4, <1>6, <1>7

\* The invariant looks at these variables; steps that leave them alone keep it.
LEMMA OrderUntouched ==
  OrderInv /\ UNCHANGED <<feed, sent, pc, hand, raw, stream, resyncing, held, mark, fails>>
    => OrderInv'
<1> SUFFICES ASSUME OrderInv,
                    UNCHANGED <<feed, sent, pc, hand, raw, stream, resyncing, held, mark, fails>>
             PROVE  OrderInv'
  OBVIOUS
<1>1. Received' /\ HandIsNext' /\ HandIsThere'
  BY DEF OrderInv, Received, HandIsNext, HandIsThere
<1>2. Grow' /\ Follows'
  BY DEF OrderInv, Grow, Follows
<1>3. Lag' /\ Nameless' /\ OnePasses'
  BY DEF OrderInv, Lag, Nameless, OnePasses
<1> QED BY <1>1, <1>2, <1>3 DEF OrderInv

LEMMA OrderReceive ==
  ASSUME TypeOK, OrderInv, NEW s \in Symbols, Receive(s) PROVE OrderInv'
<1> USE IngestAssumption
<1>1. PICK n \in sent[s] + 1 .. MaxSeq :
        /\ sent' = [sent EXCEPT ![s] = n]
        /\ Withhold(s, n) \/ Publish(s, n)
  BY DEF Receive
<1>2. pc = "recv" /\ UNCHANGED <<feed, raw, stream, resyncing, mark, fails>>
  BY DEF Receive, redis
<1>3. /\ sent[s] \in Nat /\ n \in Nat /\ sent[s] < n /\ n = sent'[s]
      /\ \A t \in Symbols : t # s => sent'[t] = sent[t]
  BY <1>1 DEF TypeOK
<1>4. \A t \in Symbols : raw[t] \in Seq(Numbers) /\ held[t] \in SUBSET Numbers
  BY DEF TypeOK, Keys
<1>5. \A t \in Symbols : \A i \in 1..Len(raw[t]) : raw[t][i] \in Nat
  <2> TAKE t \in Symbols
  <2> TAKE i \in 1..Len(raw[t])
  <2>1. raw[t] \in Seq(Numbers)
    BY <1>4
  <2> QED BY <2>1 DEF Numbers
<1>6. \A i \in 1..Len(raw[s]) : raw[s][i] < n /\ raw[s][i] # n
  BY <1>3, <1>5 DEF Received, OrderInv
<1>7. \A m \in held[s] : m < n /\ m # n
  <2> TAKE m \in held[s]
  <2>1. m \in Nat
    BY <1>4 DEF Numbers
  <2> QED BY <1>3, <2>1 DEF Received, OrderInv
<1>8. CASE Withhold(s, n)
  <2>1. /\ UNCHANGED <<pc, hand>>
        /\ held'[s] = held[s] \cup {n} /\ \A t \in Symbols : t # s => held'[t] = held[t]
    BY <1>8 DEF Withhold, TypeOK
  <2>2. Received'
    <3> SUFFICES ASSUME NEW t \in Symbols
                 PROVE  /\ \A m \in held'[t] : m <= sent'[t]
                        /\ \A i \in 1..Len(raw[t]) : raw[t][i] <= sent'[t] /\ raw[t][i] \notin held'[t]
      BY <1>2 DEF Received
    <3>1. CASE t # s
      BY <1>3, <2>1, <3>1 DEF Received, OrderInv
    <3>2. CASE t = s
      <4>1. \A m \in held'[s] : m <= n
        BY <1>3, <1>4, <1>7, <2>1 DEF Numbers
      <4>2. \A i \in 1..Len(raw[s]) : raw[s][i] <= n
        BY <1>3, <1>5, <1>6
      <4>3. \A i \in 1..Len(raw[s]) : raw[s][i] \notin held'[s]
        BY <1>6, <2>1 DEF Received, OrderInv
      <4> QED BY <1>3, <3>2, <4>1, <4>2, <4>3
    <3> QED BY <3>1, <3>2
  <2>3. HandIsNext' /\ HandIsThere'
    BY <1>2, <2>1 DEF HandIsNext, HandIsThere
  <2>4. Grow' /\ Follows'
    BY <1>2 DEF OrderInv, Grow, Follows
  <2>5. Lag' /\ Nameless' /\ OnePasses'
    BY <1>2, <2>1 DEF OrderInv, Lag, Nameless, OnePasses
  <2> QED BY <2>2, <2>3, <2>4, <2>5 DEF OrderInv
<1>9. CASE Publish(s, n)
  <2>1. UNCHANGED held /\ ~Withheld(s)
    BY <1>9 DEF Publish
  <2>2. Received'
    <3> SUFFICES ASSUME NEW t \in Symbols
                 PROVE  /\ \A m \in held[t] : m <= sent'[t]
                        /\ \A i \in 1..Len(raw[t]) : raw[t][i] <= sent'[t] /\ raw[t][i] \notin held[t]
      BY <1>2, <2>1 DEF Received
    <3>1. CASE t # s
      BY <1>3, <3>1 DEF Received, OrderInv
    <3>2. CASE t = s
      <4>1. \A m \in held[s] : m <= n
        BY <1>3, <1>4, <1>7 DEF Numbers
      <4>2. \A i \in 1..Len(raw[s]) : raw[s][i] <= n
        BY <1>3, <1>5, <1>6
      <4> QED BY <1>3, <3>2, <4>1, <4>2 DEF Received, OrderInv
    <3> QED BY <3>1, <3>2
  <2>3. CASE UNCHANGED <<pc, hand>>
    <3>1. HandIsNext' /\ HandIsThere'
      BY <1>2, <2>3 DEF HandIsNext, HandIsThere
    <3>2. Grow' /\ Follows'
      BY <1>2 DEF OrderInv, Grow, Follows
    <3>3. Lag' /\ Nameless' /\ OnePasses'
      BY <1>2, <2>3 DEF OrderInv, Lag, Nameless, OnePasses
    <3> QED BY <2>2, <3>1, <3>2, <3>3 DEF OrderInv
  <2>4. CASE ~(feed = "liquidation" /\ Key(s) = NoSymbol)
    <3>1. pc' = "raw" /\ hand'.key = Key(s) /\ hand'.id = n
      BY <1>9, <2>4 DEF Publish
    <3>2. Key(s) \in {s, NoSymbol} /\ (Key(s) = NoSymbol => feed = "trade")
      <4>1. Key(s) = NoSymbol => feed \in {"trade", "liquidation"}
        BY DEF Key, Pollers, WebSockets, TypeOK
      <4> QED BY <2>4, <4>1 DEF Key
    <3>3. HandIsNext'
      <4> SUFFICES ASSUME Key(s) \in Symbols
                   PROVE  /\ n <= sent'[Key(s)] /\ n \notin held[Key(s)]
                          /\ \A i \in 1..Len(raw[Key(s)]) : raw[Key(s)][i] < n
        BY <1>2, <2>1, <3>1 DEF HandIsNext
      <4>1. Key(s) = s
        BY <3>2
      <4> QED BY <1>3, <1>6, <1>7, <4>1
    <3>4. OnePasses'
      <4> SUFFICES ASSUME feed = "orderbook", NEW t \in resyncing
                   PROVE  Len(raw[t]) - mark[t] \in {0, 1} /\ hand'.key # t
        BY <1>2 DEF OnePasses
      <4>1. Key(s) = s /\ s \notin resyncing
        BY <2>1 DEF Key, Withheld
      <4> QED BY <3>1, <4>1 DEF OnePasses, OrderInv
    <3>5. Nameless'
      BY <1>2, <3>1, <3>2 DEF Nameless, OrderInv
    <3>6. Lag'
      BY <1>2, <3>1 DEF Lag, OrderInv
    <3>7. Grow' /\ Follows' /\ HandIsThere'
      BY <1>2, <3>1 DEF OrderInv, Grow, Follows, HandIsThere
    <3> QED BY <2>2, <3>3, <3>4, <3>5, <3>6, <3>7 DEF OrderInv
  <2> QED BY <1>9, <2>3, <2>4 DEF Publish
<1> QED BY <1>1, <1>8, <1>9

\* The lag a failed XADD allows for covers the message it may have left behind.
LEMMA LagEnough ==
  ASSUME IInv', fails \in Nat, fails' = fails + 1,
         \A k \in Keys : Len(raw'[k]) <= Len(stream'[k]) + fails + 1
  PROVE  Lag'
<1>1. \A k \in Keys : Len(raw'[k]) \in Nat /\ Len(stream'[k]) \in Nat
  BY DEF IInv, TypeOK
<1>2. ASSUME NEW k \in Keys
      PROVE  Len(raw'[k]) <= Len(stream'[k]) + fails' /\ Len(raw'[k]) <= Len(stream'[k]) + fails' + 1
  <2>1. Len(raw'[k]) <= Len(stream'[k]) + fails + 1
    OBVIOUS
  <2> DEFINE r == Len(raw'[k])
  <2> DEFINE t == Len(stream'[k])
  <2>2. r \in Nat /\ t \in Nat /\ r <= t + fails + 1
    BY <1>1, <2>1
  <2> HIDE DEF r, t
  <2>3. r <= t + fails' /\ r <= t + fails' + 1
    BY <2>2
  <2> QED BY <2>3 DEF r, t
<1> QED BY <1>2 DEF Lag

\* An XADD to the shared stream makes up for the message that was in hand.
LEMMA LagAppended ==
  ASSUME OrderInv, pc = "stream", fails \in Nat,
         \A k \in Keys : Len(raw[k]) \in Nat /\ Len(stream[k]) \in Nat,
         \A k \in Keys : Len(stream'[k]) = Len(stream[k]) + (IF k = hand.key THEN 1 ELSE 0)
  PROVE  \A k \in Keys : /\ Len(raw[k]) <= Len(stream'[k]) + fails
                         /\ Len(raw[k]) <= Len(stream'[k]) + fails + 1
<1> TAKE k \in Keys
<1>1. CASE k = hand.key
  <2>1. Len(stream'[k]) = Len(stream[k]) + 1 /\ Len(raw[k]) <= Len(stream[k]) + fails + 1
    BY <1>1 DEF Lag, OrderInv
  <2> QED BY <2>1
<1>2. CASE k # hand.key
  <2>1. Len(stream'[k]) = Len(stream[k]) + 0 /\ Len(raw[k]) <= Len(stream[k]) + fails
    BY <1>2 DEF Lag, OrderInv
  <2> QED BY <2>1
<1> QED BY <1>1, <1>2

LEMMA OrderStep == TypeOK /\ HandIsFull /\ OrderInv /\ [Next]_vars => OrderInv'
<1> SUFFICES ASSUME TypeOK, HandIsFull, OrderInv, [Next]_vars PROVE OrderInv'
  OBVIOUS
<1> USE IngestAssumption
<1>0. /\ hand.key \in Keys /\ fails \in Nat
      /\ \A k \in Keys : Len(raw[k]) \in Nat /\ Len(stream[k]) \in Nat
  BY DEF TypeOK
<1>1. ASSUME NEW s \in Symbols, StartResync(s) PROVE OrderInv'
  <2>1. UNCHANGED <<feed, sent, pc, hand, raw, stream, held, fails>>
    BY <1>1 DEF StartResync, reader, redis
  <2>2. OnePasses'
    <3> SUFFICES ASSUME feed = "orderbook", NEW t \in resyncing \cup {s}
                 PROVE  /\ Len(raw[t]) - mark'[t] \in {0, 1}
                        /\ pc = "raw" /\ hand.key = t => Len(raw[t]) = mark'[t]
      BY <1>1, <2>1 DEF StartResync, OnePasses
    <3>1. CASE t \in resyncing
      <4>1. mark'[t] = mark[t]
        BY <1>1, <3>1 DEF StartResync, TypeOK
      <4> QED BY <3>1, <4>1 DEF OnePasses, OrderInv
    <3>2. CASE t \notin resyncing
      <4>1. t = s /\ mark'[t] = Len(raw[t])
        BY <1>1, <3>2 DEF StartResync, TypeOK
      <4>2. Len(raw[t]) \in Nat
        BY <1>0 DEF Keys
      <4> QED BY <4>1, <4>2
    <3> QED BY <3>1, <3>2
  <2>3. Received' /\ HandIsNext' /\ HandIsThere'
    BY <2>1 DEF OrderInv, Received, HandIsNext, HandIsThere
  <2>4. Grow' /\ Follows'
    BY <2>1 DEF OrderInv, Grow, Follows
  <2>5. Lag' /\ Nameless'
    BY <2>1 DEF OrderInv, Lag, Nameless
  <2> QED BY <2>2, <2>3, <2>4, <2>5 DEF OrderInv
<1>2. ASSUME NEW s \in Symbols, NEW sequence \in 0..MaxSeq, CompleteResync(s, sequence)
      PROVE  OrderInv'
  <2>1. UNCHANGED <<feed, sent, pc, hand, raw, stream, held, mark, fails>>
    BY <1>2 DEF CompleteResync, reader, redis
  <2>2. OnePasses'
    BY <1>2, <2>1 DEF CompleteResync, OnePasses, OrderInv
  <2>3. Received' /\ HandIsNext' /\ HandIsThere'
    BY <2>1 DEF OrderInv, Received, HandIsNext, HandIsThere
  <2>4. Grow' /\ Follows'
    BY <2>1 DEF OrderInv, Grow, Follows
  <2>5. Lag' /\ Nameless'
    BY <2>1 DEF OrderInv, Lag, Nameless
  <2> QED BY <2>2, <2>3, <2>4, <2>5 DEF OrderInv
<1>3. CASE ListenerDies \/ UNCHANGED vars
  BY <1>3, OrderUntouched DEF ListenerDies, vars, reader, redis, resync, history
<1>4. ASSUME NEW s \in Symbols, Receive(s) PROVE OrderInv'
  BY <1>4, OrderReceive
<1>5. CASE XAddRaw
  <2>1. /\ pc = "raw" /\ raw' = Put(raw) /\ pc' = "stream"
        /\ UNCHANGED <<feed, sent, hand, stream, resyncing, held, mark, fails>>
    BY <1>5 DEF XAddRaw, resync, history
  <2>2. /\ Received' /\ Grow' /\ Follows'
        /\ raw'[NoSymbol] # <<>> => feed = "trade"
        /\ feed = "orderbook" => \A s \in resyncing : Len(raw'[s]) - mark[s] \in {0, 1}
        /\ \E j \in 1..Len(raw'[hand.key]) : raw'[hand.key][j] = hand.id
        /\ \A k \in Keys : Len(raw'[k]) = Len(raw[k]) + (IF k = hand.key THEN 1 ELSE 0)
    BY <2>1, RawAppended
  <2>3. HandIsThere'
    <3> SUFFICES ASSUME hand.key \in Symbols, NEW i \in 1..Len(stream[hand.key])
                 PROVE  stream[hand.key][i] < hand.id
      BY <2>1, <2>2 DEF HandIsThere
    <3>1. PICK j \in 1..Len(raw[hand.key]) : stream[hand.key][i] = raw[hand.key][j]
      BY <1>0 DEF Follows, OrderInv
    <3> QED BY <2>1, <3>1 DEF HandIsNext, OrderInv
  <2>4. Lag'
    <3> SUFFICES ASSUME NEW k \in Keys
                 PROVE  /\ Len(raw'[k]) <= Len(stream[k]) + fails + 1
                        /\ Len(raw'[k]) <= Len(stream[k]) + fails \/ hand.key = k
      BY <2>1 DEF Lag
    <3>1. Len(raw[k]) <= Len(stream[k]) + fails
      BY <2>1 DEF Lag, OrderInv
    <3>2. Len(raw[k]) \in Nat /\ Len(stream[k]) \in Nat
      BY <1>0
    <3>3. CASE k = hand.key
      <4>1. Len(raw'[k]) = Len(raw[k]) + 1
        BY <2>2, <3>3
      <4> QED BY <1>0, <3>1, <3>2, <3>3, <4>1
    <3>4. CASE k # hand.key
      <4>1. Len(raw'[k]) = Len(raw[k]) + 0
        BY <2>2, <3>4
      <4> QED BY <1>0, <3>1, <3>2, <4>1
    <3> QED BY <3>3, <3>4
  <2>5. Nameless' /\ OnePasses' /\ HandIsNext'
    BY <2>1, <2>2 DEF Nameless, OnePasses, HandIsNext, OrderInv
  <2> QED BY <2>2, <2>3, <2>4, <2>5 DEF OrderInv
<1>6. CASE XAddStream
  <2>1. /\ pc = "stream" /\ stream' = Put(stream) /\ pc' = "recv"
        /\ UNCHANGED <<feed, sent, raw, resyncing, held, mark, fails>>
    BY <1>6 DEF XAddStream, resync, history
  <2>2. /\ Grow' /\ Follows'
        /\ \A k \in Keys : Len(stream'[k]) = Len(stream[k]) + (IF k = hand.key THEN 1 ELSE 0)
    BY <2>1, StreamAppended
  <2>3. Lag'
    <3>1. \A k \in Keys : Len(raw[k]) <= Len(stream'[k]) + fails
      BY <1>0, <2>1, <2>2, LagAppended
    <3>2. \A k \in Keys : Len(raw[k]) <= Len(stream'[k]) + fails + 1
      BY <1>0, <2>1, <2>2, LagAppended
    <3> QED BY <2>1, <3>1, <3>2 DEF Lag
  <2>4. Received'
    BY <2>1 DEF Received, OrderInv
  <2>5. HandIsNext' /\ HandIsThere' /\ Nameless' /\ OnePasses'
    BY <2>1 DEF HandIsNext, HandIsThere, Nameless, OnePasses, OrderInv
  <2> QED BY <2>2, <2>3, <2>4, <2>5 DEF OrderInv
<1>7. CASE XAddFails
  <2>1. /\ pc' \in {"recv", "down"} /\ fails' = fails + 1
        /\ UNCHANGED <<feed, sent, resyncing, held, mark>>
    BY <1>7 DEF XAddFails, AfterFailure, resync
  <2>0. IInv'
    BY NextIInv DEF IInv
  <2>2. HandIsNext' /\ HandIsThere'
    BY <2>1 DEF HandIsNext, HandIsThere
  <2>3. CASE pc = "raw" /\ raw' = Put(raw) /\ UNCHANGED stream
    <3>1. /\ Received' /\ Grow' /\ Follows'
          /\ raw'[NoSymbol] # <<>> => feed = "trade"
          /\ feed = "orderbook" => \A s \in resyncing : Len(raw'[s]) - mark[s] \in {0, 1}
          /\ \A k \in Keys : Len(raw'[k]) = Len(raw[k]) + (IF k = hand.key THEN 1 ELSE 0)
      BY <2>1, <2>3, RawAppended
    <3>2. Lag'
      <4>0. SUFFICES ASSUME NEW k \in Keys PROVE Len(raw'[k]) <= Len(stream[k]) + fails + 1
        <5>1. (\A k \in Keys : Len(raw'[k]) <= Len(stream'[k]) + fails + 1) => Lag'
          BY <1>0, <2>0, <2>1, LagEnough
        <5> QED BY <5>1, <2>3
      <4>1. Len(raw[k]) <= Len(stream[k]) + fails
        BY <2>3 DEF Lag, OrderInv
      <4>2. Len(raw[k]) \in Nat /\ Len(stream[k]) \in Nat
        BY <1>0
      <4>3. Len(raw'[k]) = Len(raw[k]) + (IF k = hand.key THEN 1 ELSE 0)
        BY <3>1
      <4>4. CASE k = hand.key
        BY <1>0, <4>1, <4>2, <4>3, <4>4
      <4>5. CASE k # hand.key
        BY <1>0, <4>1, <4>2, <4>3, <4>5
      <4> QED BY <4>4, <4>5
    <3>3. Nameless' /\ OnePasses'
      BY <2>1, <3>1 DEF Nameless, OnePasses
    <3> QED BY <2>2, <3>1, <3>2, <3>3 DEF OrderInv
  <2>4. CASE pc = "stream" /\ stream' = Put(stream) /\ UNCHANGED raw
    <3>1. /\ Grow' /\ Follows'
          /\ \A k \in Keys : Len(stream'[k]) = Len(stream[k]) + (IF k = hand.key THEN 1 ELSE 0)
      BY <2>4, StreamAppended
    <3>2. Lag'
      <4>0. SUFFICES ASSUME NEW k \in Keys PROVE Len(raw[k]) <= Len(stream'[k]) + fails + 1
        <5>1. (\A k \in Keys : Len(raw'[k]) <= Len(stream'[k]) + fails + 1) => Lag'
          BY <1>0, <2>0, <2>1, LagEnough
        <5> QED BY <5>1, <2>4
      <4>1. Len(raw[k]) <= Len(stream[k]) + fails + 1
        BY DEF Lag, OrderInv
      <4>2. Len(stream[k]) \in Nat /\ Len(raw[k]) \in Nat
        BY <1>0
      <4>3. Len(stream'[k]) = Len(stream[k]) + (IF k = hand.key THEN 1 ELSE 0)
        BY <3>1
      <4>4. CASE k = hand.key
        BY <1>0, <4>1, <4>2, <4>3, <4>4
      <4>5. CASE k # hand.key
        BY <1>0, <4>1, <4>2, <4>3, <4>5
      <4> QED BY <4>4, <4>5
    <3>3. Received' /\ Nameless' /\ OnePasses'
      BY <2>1, <2>4 DEF Received, Nameless, OnePasses, OrderInv
    <3> QED BY <2>2, <3>1, <3>2, <3>3 DEF OrderInv
  <2>5. CASE UNCHANGED <<raw, stream>>
    <3>1. Received' /\ Grow' /\ Follows'
      BY <2>1, <2>5 DEF Received, Grow, Follows, OrderInv
    <3>2. Lag'
      <4>0. SUFFICES ASSUME NEW k \in Keys PROVE Len(raw[k]) <= Len(stream[k]) + fails + 1
        <5>1. (\A k \in Keys : Len(raw'[k]) <= Len(stream'[k]) + fails + 1) => Lag'
          BY <1>0, <2>0, <2>1, LagEnough
        <5> QED BY <5>1, <2>5
      <4> QED BY DEF Lag, OrderInv
    <3>3. Nameless' /\ OnePasses'
      BY <2>1, <2>5 DEF Nameless, OnePasses, OrderInv
    <3> QED BY <2>2, <3>1, <3>2, <3>3 DEF OrderInv
  <2> QED BY <1>7, <2>3, <2>4, <2>5 DEF XAddFails
<1>8. CASE ConnectionLost \/ Reconnect
  <2>1. /\ pc \in {"recv", "down"} /\ pc' \in {"recv", "down"}
        /\ UNCHANGED <<feed, sent, hand, raw, stream, resyncing, held, mark, fails>>
    BY <1>8 DEF ConnectionLost, Reconnect, redis, resync, history
  <2>2. Received' /\ Grow' /\ Follows'
    BY <2>1 DEF Received, Grow, Follows, OrderInv
  <2>3. HandIsNext' /\ HandIsThere' /\ Nameless' /\ OnePasses'
    BY <2>1 DEF HandIsNext, HandIsThere, Nameless, OnePasses, OrderInv
  <2>4. Lag'
    BY <2>1 DEF Lag, OrderInv
  <2> QED BY <2>2, <2>3, <2>4 DEF OrderInv
<1> QED BY <1>1, <1>2, <1>3, <1>4, <1>5, <1>6, <1>7, <1>8 DEF Next

-----------------------------------------------------------------------------
(* The buffer.                                                                *)

\* b is the newest of the messages in open, as many as fit.
Newest(open, b) ==
  /\ b \subseteq open
  /\ \A n \in open \ b : \A m \in b : n < m
  /\ b = open \/ Cardinality(b) = BufferMax
  /\ Cardinality(b) <= BufferMax

LEMMA NumbersFinite ==
  ASSUME NEW b \in SUBSET Numbers PROVE IsFiniteSet(b) /\ Cardinality(b) \in Nat
<1>1. IsFiniteSet(Numbers)
  BY FS_Interval, IngestAssumption DEF Numbers
<1>2. IsFiniteSet(b)
  BY <1>1, FS_Subset
<1> QED BY <1>2, FS_CardinalityType

\* A full deque gives up its oldest message for the newest one.
LEMMA NewestAppend ==
  ASSUME NEW open \in SUBSET Numbers, NEW b \in SUBSET Numbers, NEW n \in Numbers,
         Newest(open, b), \A m \in open : m < n
  PROVE  Newest(open \cup {n}, Buffered(b, n))
<1> USE IngestAssumption
<1>1. /\ IsFiniteSet(b) /\ Cardinality(b) \in Nat /\ b \subseteq Nat /\ n \in Nat
      /\ open \subseteq Nat
  BY NumbersFinite DEF Numbers
<1>2. n \notin open /\ n \notin b
  BY <1>1 DEF Newest
<1>3. CASE Cardinality(b) < BufferMax
  <2>1. b = open /\ Buffered(b, n) = b \cup {n}
    BY <1>1, <1>3 DEF Newest, Buffered
  <2>2. Cardinality(b \cup {n}) = Cardinality(b) + 1
    BY <1>1, <1>2, FS_AddElement
  <2> QED BY <1>1, <1>3, <2>1, <2>2 DEF Newest
<1>4. CASE Cardinality(b) = BufferMax
  <2>1. b # {}
    BY <1>4, FS_EmptySet
  <2>2. PICK x \in b : \A y \in b : ~ (<<y, x>> \in OpToRel(<, Nat))
    BY <1>1, <2>1, WFMin, NatLessThanWellFounded
  <2>3. \A y \in b : y # x => x < y
    <3> TAKE y \in b
    <3>1. ~(y < x)
      BY <1>1, <2>2 DEF OpToRel
    <3> QED BY <1>1, <3>1
  <2>4. {m \in b : \E l \in b : l < m} = b \ {x}
    <3>1. \A l \in b : ~(l < x)
      BY <1>1, <2>3
    <3> QED BY <2>3, <3>1
  <2>5. Buffered(b, n) = (b \ {x}) \cup {n}
    BY <1>4, <2>4 DEF Buffered
  <2>6. IsFiniteSet(b \ {x}) /\ Cardinality(b \ {x}) = BufferMax - 1
    BY <1>1, <1>4, <2>2, FS_RemoveElement
  <2>7. Cardinality((b \ {x}) \cup {n}) = BufferMax
    BY <1>2, <2>6, FS_AddElement
  <2>8. \A k \in (open \cup {n}) \ ((b \ {x}) \cup {n}) : \A m \in (b \ {x}) \cup {n} : k < m
    <3> SUFFICES ASSUME NEW k \in open, k \notin b \/ k = x, NEW m \in (b \ {x}) \cup {n}
                 PROVE  k < m
      OBVIOUS
    <3>1. CASE m = n
      BY <3>1
    <3>2. CASE m \in b \ {x}
      BY <2>3, <3>2 DEF Newest
    <3> QED BY <3>1, <3>2
  <2>9. (b \ {x}) \cup {n} \subseteq open \cup {n}
    BY DEF Newest
  <2> QED BY <2>5, <2>7, <2>8, <2>9 DEF Newest
<1> QED BY <1>1, <1>3, <1>4 DEF Newest

\* flush takes the messages up to the sequence out of both.
LEMMA NewestCut ==
  ASSUME NEW open \in SUBSET Numbers, NEW b \in SUBSET Numbers, NEW q \in Nat, Newest(open, b)
  PROVE  Newest({n \in open : n > q}, {n \in b : n > q})
<1> USE IngestAssumption
<1> DEFINE c == {n \in b : n > q}
<1>1. /\ IsFiniteSet(b) /\ Cardinality(b) \in Nat /\ b \subseteq Nat /\ open \subseteq Nat
      /\ Cardinality(c) \in Nat /\ Cardinality(c) <= Cardinality(b)
  <2>1. c \in SUBSET b /\ c \in SUBSET Numbers
    OBVIOUS
  <2>2. IsFiniteSet(b) /\ Cardinality(b) \in Nat /\ Cardinality(c) \in Nat
    BY <2>1, NumbersFinite
  <2>3. Cardinality(c) <= Cardinality(b)
    BY <2>1, <2>2, FS_Subset
  <2> QED BY <2>2, <2>3 DEF Numbers
<1>2. Cardinality(c) <= BufferMax
  BY <1>1 DEF Newest
<1>3. c \subseteq {n \in open : n > q}
  BY DEF Newest
<1>4. \A n \in {n \in open : n > q} \ c : \A m \in c : n < m
  BY DEF Newest
<1>5. c = {n \in open : n > q} \/ Cardinality(c) = BufferMax
  <2>1. CASE b = open
    BY <2>1
  <2>2. CASE c = b /\ Cardinality(b) = BufferMax
    BY <2>2
  <2>3. CASE c # b
    <3>1. PICK m \in b : ~(m > q)
      BY <2>3
    <3>2. \A n \in open \ b : ~(n > q)
      <4> TAKE n \in open \ b
      <4>1. n < m /\ n \in Nat /\ m \in Nat
        BY <1>1 DEF Newest
      <4> QED BY <3>1, <4>1
    <3> QED BY <3>2 DEF Newest
  <2> QED BY <2>1, <2>2, <2>3 DEF Newest
<1> HIDE DEF c
<1>6. Newest({n \in open : n > q}, c)
  BY <1>2, <1>3, <1>4, <1>5 DEF Newest
<1> QED BY <1>6 DEF c

\* The buffers, over what was withheld and not completed beyond.
BufferInv ==
  \A s \in Symbols : passed[s] \subseteq held[s] /\ Newest(held[s] \ passed[s], buffer[s])

LEMMA BufferStep == TypeOK /\ Received /\ BufferInv /\ [Next]_vars => BufferInv'
<1> SUFFICES ASSUME TypeOK, Received, BufferInv, [Next]_vars PROVE BufferInv'
  OBVIOUS
<1>1. CASE UNCHANGED <<held, passed, buffer>>
  BY <1>1 DEF BufferInv
<1>2. ASSUME NEW s \in Symbols, NEW sequence \in 0..MaxSeq, CompleteResync(s, sequence)
      PROVE  BufferInv'
  <2> SUFFICES ASSUME NEW t \in Symbols
               PROVE  passed'[t] \subseteq held'[t] /\ Newest(held'[t] \ passed'[t], buffer'[t])
    BY DEF BufferInv
  <2>1. UNCHANGED held /\ sequence \in Nat
    BY <1>2, IngestAssumption DEF CompleteResync
  <2>2. CASE t # s
    <3>1. passed'[t] = passed[t] /\ buffer'[t] = buffer[t]
      BY <1>2, <2>2 DEF CompleteResync, TypeOK
    <3> QED BY <2>1, <3>1 DEF BufferInv
  <2>3. CASE t = s
    <3>1. /\ passed'[s] = passed[s] \cup {n \in held[s] : n <= sequence}
          /\ buffer'[s] = {n \in buffer[s] : n > sequence}
      BY <1>2 DEF CompleteResync, Beyond, TypeOK
    <3>2. held[s] \in SUBSET Numbers /\ buffer[s] \in SUBSET Numbers
      BY DEF TypeOK
    <3>3. held[s] \ passed'[s] = {n \in held[s] \ passed[s] : n > sequence}
      <4>1. \A n \in held[s] : n <= sequence <=> ~(n > sequence)
        BY <2>1, <3>2 DEF Numbers
      <4> QED BY <3>1, <4>1
    <3>4. Newest({n \in held[s] \ passed[s] : n > sequence}, {n \in buffer[s] : n > sequence})
      BY <2>1, <3>2, NewestCut DEF BufferInv
    <3> QED BY <2>1, <2>3, <3>1, <3>3, <3>4 DEF BufferInv
  <2> QED BY <2>2, <2>3
<1>3. ASSUME NEW s \in Symbols, Receive(s) PROVE BufferInv'
  <2>1. PICK n \in sent[s] + 1 .. MaxSeq : Withhold(s, n) \/ Publish(s, n)
    BY <1>3 DEF Receive
  <2>2. UNCHANGED passed
    BY <1>3 DEF Receive
  <2>3. CASE Publish(s, n)
    BY <1>1, <2>2, <2>3 DEF Publish
  <2>4. CASE Withhold(s, n)
    <3>1. /\ held'[s] = held[s] \cup {n} /\ buffer'[s] = Buffered(buffer[s], n)
          /\ \A t \in Symbols : t # s => held'[t] = held[t] /\ buffer'[t] = buffer[t]
      BY <2>4 DEF Withhold, TypeOK
    <3>2. n \in Numbers /\ sent[s] \in Nat /\ sent[s] < n
      BY IngestAssumption DEF TypeOK, Numbers
    <3>3. held[s] \in SUBSET Numbers /\ buffer[s] \in SUBSET Numbers
      BY DEF TypeOK
    <3>4. \A m \in held[s] : m < n
      <4> TAKE m \in held[s]
      <4>1. m \in Nat /\ n \in Nat /\ m <= sent[s]
        BY <3>2, <3>3 DEF Received, Numbers
      <4> QED BY <3>2, <4>1
    <3>5. (held[s] \cup {n}) \ passed[s] = (held[s] \ passed[s]) \cup {n}
      <4>1. n \notin held[s]
        BY <3>2, <3>4 DEF Numbers
      <4> QED BY <4>1 DEF BufferInv
    <3>6. Newest((held[s] \ passed[s]) \cup {n}, Buffered(buffer[s], n))
      <4>1. held[s] \ passed[s] \in SUBSET Numbers /\ \A m \in held[s] \ passed[s] : m < n
        BY <3>3, <3>4
      <4> QED BY <3>2, <3>3, <4>1, NewestAppend DEF BufferInv
    <3> SUFFICES ASSUME NEW t \in Symbols
                 PROVE  passed'[t] \subseteq held'[t] /\ Newest(held'[t] \ passed'[t], buffer'[t])
      BY DEF BufferInv
    <3>7. CASE t # s
      BY <2>2, <3>1, <3>7 DEF BufferInv
    <3>8. CASE t = s
      BY <2>2, <3>1, <3>5, <3>6, <3>8 DEF BufferInv
    <3> QED BY <3>7, <3>8
  <2> QED BY <2>1, <2>3, <2>4
<1>4. CASE \E s \in Symbols : StartResync(s)
  BY <1>1, <1>4 DEF StartResync
<1>5. CASE ListenerDies \/ XAddRaw \/ XAddStream \/ XAddFails
  BY <1>1, <1>5 DEF ListenerDies, XAddRaw, XAddStream, XAddFails, resync, history
<1>6. CASE ConnectionLost \/ Reconnect \/ UNCHANGED vars
  BY <1>1, <1>6 DEF ConnectionLost, Reconnect, vars, resync, history
<1> QED BY <1>2, <1>3, <1>4, <1>5, <1>6 DEF Next

LEMMA FullInductive == Spec => [](OrderInv /\ BufferInv)
<1>1. Init => OrderInv
  <2> SUFFICES ASSUME Init PROVE OrderInv
    OBVIOUS
  <2>1. /\ \A k \in Keys : raw[k] = <<>> /\ stream[k] = <<>>
        /\ \A s \in Symbols : s \in Keys /\ held[s] = {}
        /\ NoSymbol \in Keys
        /\ resyncing = {} /\ pc = "recv" /\ fails = 0
    BY DEF Init, Keys
  <2>2. Received /\ Grow /\ Follows
    BY <2>1 DEF Received, Grow, Follows, Increasing
  <2>3. HandIsNext /\ HandIsThere /\ Nameless /\ OnePasses
    BY <2>1 DEF HandIsNext, HandIsThere, Nameless, OnePasses
  <2>4. Lag
    BY <2>1 DEF Lag
  <2> QED BY <2>2, <2>3, <2>4 DEF OrderInv
<1>2. Init => BufferInv
  <2> SUFFICES ASSUME Init, NEW s \in Symbols
               PROVE  passed[s] \subseteq held[s] /\ Newest(held[s] \ passed[s], buffer[s])
    BY DEF BufferInv
  <2>1. held[s] = {} /\ passed[s] = {} /\ buffer[s] = {}
    BY DEF Init
  <2> QED BY <2>1, FS_EmptySet, IngestAssumption DEF Newest
<1>3. IInv /\ OrderInv /\ BufferInv /\ [Next]_vars => (OrderInv /\ BufferInv)'
  BY OrderStep, BufferStep DEF IInv, OrderInv
<1> QED BY <1>1, <1>2, <1>3, Inductive, PTL DEF Spec

\* For every number of symbols and failures the two streams of a symbol tell the same,
\* in the exchange's order, up to the refused XADDs and the message in hand.
THEOREM StreamsAgreeAlways == Spec => []StreamsAgree
<1>1. IInv /\ OrderInv => StreamsAgree
  <2> SUFFICES ASSUME IInv, OrderInv, NEW k \in Keys
               PROVE  /\ k # NoSymbol => Increasing(raw[k]) /\ Increasing(stream[k])
                      /\ k = NoSymbol /\ raw[k] # <<>> => feed = "trade"
                      /\ ToSet(stream[k]) \subseteq ToSet(raw[k])
                      /\ Len(raw[k]) - Len(stream[k]) <=
                           fails + (IF pc = "stream" /\ hand.key = k THEN 1 ELSE 0)
    BY DEF StreamsAgree
  <2>1. raw[k] \in Seq(Numbers) /\ stream[k] \in Seq(Numbers) /\ fails \in Nat
    BY IngestAssumption DEF IInv, TypeOK
  <2>2. k # NoSymbol => Increasing(raw[k]) /\ Increasing(stream[k])
    BY DEF OrderInv, Grow, Keys
  <2>3. k = NoSymbol /\ raw[k] # <<>> => feed = "trade"
    BY DEF OrderInv, Nameless
  <2>4. ToSet(stream[k]) \subseteq ToSet(raw[k])
    BY <2>1 DEF OrderInv, Follows, ToSet
  <2>5. Len(raw[k]) - Len(stream[k]) <=
          fails + (IF pc = "stream" /\ hand.key = k THEN 1 ELSE 0)
    <3> DEFINE r == Len(raw[k])
    <3> DEFINE t == Len(stream[k])
    <3>1. r \in Nat /\ t \in Nat /\ fails \in Nat
      BY <2>1
    <3>2. r <= t + fails + 1 /\ (r <= t + fails \/ (pc = "stream" /\ hand.key = k))
      BY DEF OrderInv, Lag
    <3> HIDE DEF r, t
    <3>3. r - t <= fails + (IF pc = "stream" /\ hand.key = k THEN 1 ELSE 0)
      BY <3>1, <3>2
    <3> QED BY <3>3 DEF r, t
  <2> QED BY <2>2, <2>3, <2>4, <2>5
<1> QED BY <1>1, Inductive, FullInductive, PTL

\* A resync lets one order book through at most, and nothing of what it withholds.
THEOREM ResyncIsQuietAlways == Spec => []ResyncIsQuiet
<1>1. IInv /\ OrderInv => ResyncIsQuiet
  <2> SUFFICES ASSUME IInv, OrderInv PROVE ResyncIsQuiet
    OBVIOUS
  <2>1. \A s \in Symbols : raw[s] \in Seq(Numbers)
    BY DEF IInv, TypeOK, Keys
  <2>2. \A s \in Symbols : held[s] \cap ToSet(raw[s]) = {}
    BY <2>1 DEF OrderInv, Received, ToSet
  <2> QED BY <2>2 DEF OrderInv, OnePasses, ResyncIsQuiet
<1> QED BY <1>1, Inductive, FullInductive, PTL

\* The buffer of a symbol is the newest of what was withheld and not completed beyond.
THEOREM BufferIsNewestAlways == Spec => []BufferIsNewest
<1>1. BufferInv => BufferIsNewest
  BY DEF BufferInv, Newest, BufferIsNewest
<1> QED BY <1>1, FullInductive, PTL
=============================================================================
