------------------------ MODULE MicrostructureProofs ------------------------
(***************************************************************************)
(* What holds of the manager for every set of ids, every length of the raw *)
(* streams and any number of restarts: the types, the state of the book    *)
(* around a gap, the order of a task's publications, and how far the       *)
(* dashboard's key may be behind them.                                     *)
(***************************************************************************)
EXTENDS Microstructure, TLAPS

\* In a gap the manager has taken note of an update the book does not hold.
BookInv ==
  /\ BookInStep
  /\ book.resyncNeeded => book.lastUpdateId < lastBookId

\* An output whose SETEX is awaited has been through its XADD.
StreamInv ==
  /\ StreamedFirst
  /\ \A t \in Tasks : pc[t] = "setex" => out[t] \in Streamed

\* An output is in hand whenever a task waits for Redis to publish it.
OutInHand ==
  \A t \in Tasks : pc[t] \in {"xadd", "setex"} => out[t] \in Outputs

Typed == TypeOK /\ OutInHand

-----------------------------------------------------------------------------
LEMMA NextEntry ==
  ASSUME NEW S, NEW s \in Seq(S), NEW k \in Nat, k < Len(s)
  PROVE  s[k + 1] \in S
  <1>1. k + 1 \in 1..Len(s)
    OBVIOUS
  <1> QED BY <1>1

LEMMA RawEntries ==
  ASSUME TypeOK
  PROVE  /\ cursor["orderbook"] < Len(rawBook)
              => rawBook[cursor["orderbook"] + 1] \in [kind : Kinds, id : Ids]
         /\ cursor["trades"] < Len(rawTrades)
              => rawTrades[cursor["trades"] + 1] \in TradeIds
  <1>1. cursor["orderbook"] \in Nat /\ cursor["trades"] \in Nat
    BY DEF TypeOK, Tasks
  <1>2. rawBook \in Seq([kind : Kinds, id : Ids]) /\ rawTrades \in Seq(TradeIds)
    BY DEF TypeOK
  <1> QED BY <1>1, <1>2, NextEntry

LEMMA IdsAreNaturals == Ids \cup {0} \subseteq Nat
  BY MicrostructureAssumption DEF MicrostructureAssumption

LEMMA BookIds ==
  ASSUME NEW b \in [lastUpdateId : Ids \cup {0}, resyncNeeded : BOOLEAN],
         NEW m \in [kind : Kinds, id : Ids]
  PROVE  /\ b.lastUpdateId \in Nat
         /\ m.id \in Nat
         /\ b = [lastUpdateId |-> b.lastUpdateId, resyncNeeded |-> b.resyncNeeded]
  <1>1. b.lastUpdateId \in Ids \cup {0} /\ m.id \in Ids
    OBVIOUS
  <1> QED BY <1>1, IdsAreNaturals

LEMMA ApplyTyped ==
  ASSUME NEW b \in [lastUpdateId : Ids \cup {0}, resyncNeeded : BOOLEAN],
         NEW m \in [kind : Kinds, id : Ids]
  PROVE  Apply(b, m) \in [lastUpdateId : Ids \cup {0}, resyncNeeded : BOOLEAN]
  <1> USE MicrostructureAssumption DEF MicrostructureAssumption
  <1>1. ApplySnapshot(b, m.id) \in [lastUpdateId : Ids \cup {0}, resyncNeeded : BOOLEAN]
    BY DEF ApplySnapshot
  <1>2. ApplyDelta(b, m.id) \in [lastUpdateId : Ids \cup {0}, resyncNeeded : BOOLEAN]
    <2>1. b.lastUpdateId \in Nat /\ m.id \in Nat
      BY BookIds
    <2>2. CASE m.id <= b.lastUpdateId
      BY <2>1, <2>2 DEF ApplyDelta
    <2>3. CASE m.id > b.lastUpdateId + 1
      BY <2>1, <2>3 DEF ApplyDelta
    <2>4. CASE m.id = b.lastUpdateId + 1
      BY <2>1, <2>4 DEF ApplyDelta
    <2> QED BY <2>1, <2>2, <2>3, <2>4
  <1> QED BY <1>1, <1>2 DEF Apply

\* What an update newer than the last one noted does to the book: a snapshot
\* brings it there, a delta does if there is no gap to cross.
LEMMA ApplyEffect ==
  ASSUME NEW b \in [lastUpdateId : Ids \cup {0}, resyncNeeded : BOOLEAN],
         NEW m \in [kind : Kinds, id : Ids],
         b.lastUpdateId < m.id
  PROVE  \/ Apply(b, m) = [lastUpdateId |-> m.id, resyncNeeded |-> FALSE]
         \/ /\ m.id = b.lastUpdateId + 1
            /\ Apply(b, m) = [lastUpdateId |-> m.id, resyncNeeded |-> b.resyncNeeded]
         \/ /\ m.id > b.lastUpdateId + 1
            /\ Apply(b, m) = [lastUpdateId |-> b.lastUpdateId, resyncNeeded |-> TRUE]
  <1>1. /\ b.lastUpdateId \in Nat
        /\ m.id \in Nat
        /\ b = [lastUpdateId |-> b.lastUpdateId, resyncNeeded |-> b.resyncNeeded]
    BY BookIds
  <1>2. CASE m.kind = "snapshot"
    BY <1>1, <1>2 DEF Apply, ApplySnapshot
  <1>3. CASE m.kind # "snapshot" /\ m.id = b.lastUpdateId + 1
    BY <1>1, <1>3 DEF Apply, ApplyDelta
  <1>4. CASE m.kind # "snapshot" /\ m.id > b.lastUpdateId + 1
    <2>1. ~(m.id <= b.lastUpdateId) /\ ~(m.id = b.lastUpdateId + 1)
      BY <1>1, <1>4
    <2>2. ApplyDelta(b, m.id) = [b EXCEPT !.resyncNeeded = TRUE]
      BY <1>4, <2>1 DEF ApplyDelta
    <2> QED BY <1>4, <2>2 DEF Apply
  <1> QED BY <1>1, <1>2, <1>3, <1>4

-----------------------------------------------------------------------------
LEMMA TypedInit == Init => Typed
  BY MicrostructureAssumption DEF MicrostructureAssumption, Init, Typed, TypeOK, OutInHand, EmptyBook, AllAt, Tasks

LEMMA TypedStep == Typed /\ [Next]_vars => Typed'
  <1> SUFFICES ASSUME Typed, [Next]_vars PROVE Typed'
    OBVIOUS
  <1> USE MicrostructureAssumption DEF MicrostructureAssumption, Typed, TypeOK, OutInHand, raw, redis, symState, tasks
  <1>1. CASE FeedBook
    BY <1>1 DEF FeedBook
  <1>2. CASE FeedTrade
    BY <1>2 DEF FeedTrade
  <1>3. ASSUME ProcessOrderbook PROVE Typed'
    <2> DEFINE m == rawBook[cursor["orderbook"] + 1]
    <2>1. m \in [kind : Kinds, id : Ids]
      BY <1>3, RawEntries DEF ProcessOrderbook
    <2>2. CASE SeenBook(m.id)
      BY <1>3, <2>2 DEF ProcessOrderbook, Consumed, Tasks
    <2>3. CASE ~SeenBook(m.id)
      <3>1. /\ book' = Apply(book, m)
            /\ lastBookId' = m.id
            /\ Build("orderbook", m.id, book'.lastUpdateId, lastTradeId)
            /\ UNCHANGED <<cursor, raw, redis, lastTradeId, missed, life>>
        BY <1>3, <2>3 DEF ProcessOrderbook, NextBookId
      <3>2. book' \in [lastUpdateId : Ids \cup {0}, resyncNeeded : BOOLEAN]
        BY <2>1, <3>1, ApplyTyped
      <3> QED BY <2>1, <3>1, <3>2 DEF Build, Outputs, Tasks
    <2> QED BY <2>2, <2>3
  <1>4. ASSUME ProcessTrade PROVE Typed'
    <2> DEFINE id == rawTrades[cursor["trades"] + 1]
    <2>1. id \in TradeIds
      BY <1>4, RawEntries DEF ProcessTrade
    <2>2. CASE SeenTrade(id)
      BY <1>4, <2>2 DEF ProcessTrade, Consumed, Tasks
    <2>3. CASE ~SeenTrade(id)
      BY <1>4, <2>1, <2>3 DEF ProcessTrade, Build, Outputs, Tasks
    <2> QED BY <2>2, <2>3
  <1>5. ASSUME NEW t \in Tasks, XAdd(t) PROVE Typed'
    BY <1>5 DEF XAdd
  <1>6. ASSUME NEW t \in Tasks, SetEx(t) PROVE Typed'
    BY <1>6 DEF SetEx, Done, Consumed
  <1>7. ASSUME NEW t \in Tasks, RedisFails(t) PROVE Typed'
    BY <1>7 DEF RedisFails, Done, Consumed
  <1>8. CASE Expire
    BY <1>8 DEF Expire
  <1>9. CASE Restart
    BY <1>9 DEF Restart, AllAt, EmptyBook
  <1>10. CASE UNCHANGED vars
    BY <1>10 DEF vars
  <1> QED BY <1>1, <1>2, <1>3, <1>4, <1>5, <1>6, <1>7, <1>8, <1>9, <1>10 DEF Next, TaskStep

LEMMA TypedAlways == Spec => []Typed
  BY TypedInit, TypedStep, PTL DEF Spec

\* The manager's variables keep their types.
THEOREM TypeCorrect == Spec => []TypeOK
  BY TypedAlways, PTL DEF Typed

-----------------------------------------------------------------------------
LEMMA BookInit == Init => BookInv
  BY DEF Init, BookInv, BookInStep, EmptyBook

\* The only step of a living process that touches the book or last_orderbook_id.
LEMMA BookOnlyThere ==
  ASSUME [Next]_vars
  PROVE  \/ ProcessOrderbook
         \/ Restart
         \/ UNCHANGED <<book, lastBookId>>
  BY DEF Next, TaskStep, vars, symState, FeedBook, FeedTrade, ProcessTrade, XAdd,
         SetEx, RedisFails, Expire

\* An update the manager has not seen, in the terms of the invariant.
LEMMA UnseenUpdate ==
  ASSUME TypeOK, BookInv, ProcessOrderbook, UNCHANGED <<book, lastBookId>> => FALSE
  PROVE  \E m \in [kind : Kinds, id : Ids] :
           /\ m.id > lastBookId
           /\ m.id > book.lastUpdateId
           /\ book' = Apply(book, m)
           /\ lastBookId' = m.id
  <1> DEFINE m == rawBook[cursor["orderbook"] + 1]
  <1>1. m \in [kind : Kinds, id : Ids]
    BY RawEntries DEF ProcessOrderbook
  <1>2. ~SeenBook(m.id) /\ book' = Apply(book, m) /\ lastBookId' = m.id
    BY DEF ProcessOrderbook, NextBookId
  <1>3. m.id \in Nat /\ lastBookId \in Nat /\ book.lastUpdateId \in Nat
    BY <1>1, BookIds, IdsAreNaturals DEF TypeOK
  <1>4. m.id > lastBookId /\ m.id > book.lastUpdateId
    BY <1>2, <1>3 DEF SeenBook, BookInv, BookInStep
  <1> QED BY <1>1, <1>2, <1>4

LEMMA BookStep == TypeOK /\ BookInv /\ [Next]_vars => BookInv'
  <1> SUFFICES ASSUME TypeOK, BookInv, [Next]_vars PROVE BookInv'
    OBVIOUS
  <1>1. CASE UNCHANGED <<book, lastBookId>>
    BY <1>1 DEF BookInv, BookInStep
  <1>2. CASE ProcessOrderbook /\ ~UNCHANGED <<book, lastBookId>>
    <2>1. PICK m \in [kind : Kinds, id : Ids] :
            /\ m.id > lastBookId
            /\ m.id > book.lastUpdateId
            /\ book' = Apply(book, m)
            /\ lastBookId' = m.id
      BY <1>2, UnseenUpdate
    <2>2. /\ m.id \in Nat /\ lastBookId \in Nat /\ book.lastUpdateId \in Nat
          /\ book \in [lastUpdateId : Ids \cup {0}, resyncNeeded : BOOLEAN]
      BY BookIds, IdsAreNaturals DEF TypeOK
    <2>3. \/ book' = [lastUpdateId |-> m.id, resyncNeeded |-> FALSE]
          \/ /\ m.id = book.lastUpdateId + 1
             /\ book' = [lastUpdateId |-> m.id, resyncNeeded |-> book.resyncNeeded]
          \/ /\ m.id > book.lastUpdateId + 1
             /\ book' = [lastUpdateId |-> book.lastUpdateId, resyncNeeded |-> TRUE]
      BY <2>1, <2>2, ApplyEffect
    <2> QED BY <2>1, <2>2, <2>3 DEF BookInv, BookInStep
  <1>3. CASE Restart
    BY <1>3 DEF Restart, EmptyBook, BookInv, BookInStep
  <1> QED BY <1>1, <1>2, <1>3, BookOnlyThere

LEMMA BookAlways == Spec => []BookInv
  BY BookInit, BookStep, TypeCorrect, PTL DEF Spec

\* Unless it waits for a snapshot the book is at the last update the manager
\* has noted (_process_orderbook and apply_delta keep their ids in step).
THEOREM BookKeepsStep == Spec => []BookInStep
  BY BookAlways, PTL DEF BookInv

\* Once a gap is open no delta moves the book, whenever it arrives.
THEOREM GapFreezes == Spec => GapFreezesBook
  <1>1. TypeOK /\ BookInv /\ [Next]_vars
          => [book.resyncNeeded /\ book'.resyncNeeded => book' = book]_vars
    <2> SUFFICES ASSUME TypeOK, BookInv, [Next]_vars,
                        book.resyncNeeded, book'.resyncNeeded
                 PROVE  book' = book
      OBVIOUS
    <2>1. CASE UNCHANGED <<book, lastBookId>>
      BY <2>1
    <2>2. CASE ProcessOrderbook /\ ~UNCHANGED <<book, lastBookId>>
      <3>1. PICK m \in [kind : Kinds, id : Ids] :
              /\ m.id > lastBookId
              /\ m.id > book.lastUpdateId
              /\ book' = Apply(book, m)
              /\ lastBookId' = m.id
        BY <2>2, UnseenUpdate
      <3>2. /\ m.id \in Nat /\ lastBookId \in Nat /\ book.lastUpdateId \in Nat
            /\ book \in [lastUpdateId : Ids \cup {0}, resyncNeeded : BOOLEAN]
        BY BookIds, IdsAreNaturals DEF TypeOK
      <3>3. m.id > book.lastUpdateId + 1
        BY <3>1, <3>2 DEF BookInv
      <3>4. book' = [lastUpdateId |-> book.lastUpdateId, resyncNeeded |-> TRUE]
        BY <3>1, <3>2, <3>3, ApplyEffect
      <3> QED BY <3>2, <3>4
    <2>3. CASE Restart
      BY <2>3 DEF Restart, EmptyBook
    <2> QED BY <2>1, <2>2, <2>3, BookOnlyThere
  <1> QED BY <1>1, TypeCorrect, BookAlways, PTL DEF Spec, GapFreezesBook

-----------------------------------------------------------------------------
LEMMA StreamInit == Init => StreamInv
  BY DEF Init, StreamInv, StreamedFirst, AllAt, Tasks

LEMMA StreamStep == Typed /\ StreamInv /\ [Next]_vars => StreamInv'
  <1> SUFFICES ASSUME Typed, StreamInv, [Next]_vars PROVE StreamInv'
    OBVIOUS
  <1> USE DEF StreamInv, StreamedFirst, raw, redis, symState, tasks
  <1> USE DEF Typed, TypeOK
  <1>1. CASE FeedBook
    BY <1>1 DEF FeedBook, Streamed
  <1>2. CASE FeedTrade
    BY <1>2 DEF FeedTrade, Streamed
  <1>3. CASE ProcessOrderbook
    BY <1>3 DEF ProcessOrderbook, Build, Consumed, Streamed
  <1>4. CASE ProcessTrade
    BY <1>4 DEF ProcessTrade, Build, Consumed, Streamed
  <1>5. ASSUME NEW t \in Tasks, XAdd(t) PROVE StreamInv'
    <2>1. out[t] \in Outputs
      BY <1>5 DEF XAdd, OutInHand
    <2>2. Streamed' = Streamed \cup {out[t]}
      <3>1. stream' = Append(stream, out[t])
        BY <1>5 DEF XAdd
      <3>2. /\ DOMAIN stream' = DOMAIN stream \cup {Len(stream) + 1}
            /\ \A i \in DOMAIN stream : stream'[i] = stream[i]
            /\ stream'[Len(stream) + 1] = out[t]
        BY <2>1, <3>1
      <3> QED BY <3>2 DEF Streamed
    <2> QED BY <1>5, <2>2 DEF XAdd
  <1>6. ASSUME NEW t \in Tasks, SetEx(t) PROVE StreamInv'
    BY <1>6 DEF SetEx, Done, Consumed, Streamed
  <1>7. ASSUME NEW t \in Tasks, RedisFails(t) PROVE StreamInv'
    BY <1>7 DEF RedisFails, Done, Consumed, Streamed
  <1>8. CASE Expire
    BY <1>8 DEF Expire, Streamed
  <1>9. CASE Restart
    BY <1>9 DEF Restart, AllAt, Streamed
  <1>10. CASE UNCHANGED vars
    BY <1>10 DEF vars, Streamed
  <1> QED BY <1>1, <1>2, <1>3, <1>4, <1>5, <1>6, <1>7, <1>8, <1>9, <1>10 DEF Next, TaskStep

LEMMA StreamAlways == Spec => []StreamInv
  BY StreamInit, StreamStep, TypedAlways, PTL DEF Spec

\* ms:latest never shows what the stream was not given first.
THEOREM StreamComesFirst == Spec => []StreamedFirst
  BY StreamAlways, PTL DEF StreamInv

-----------------------------------------------------------------------------
\* What task t has noted of its raw stream.
Noted(t) == IF t = "orderbook" THEN lastBookId ELSE lastTradeId

\* Output o was built from no later state than the manager's.
Within(o) ==
  /\ o.msg <= Noted(o.by)
  /\ o.book <= book.lastUpdateId
  /\ o.trade <= lastTradeId

Before(o, p) == o.msg < p.msg /\ o.book <= p.book /\ o.trade <= p.trade

\* The outputs of task t that this life of the process has streamed.
Ours(t) == {o \in Streamed : o.by = t /\ o.life = life}

\* What a task has in hand is its own, of this life, and within its state.
HandInv ==
  \A t \in Tasks : pc[t] \in {"xadd", "setex"} =>
    out[t].by = t /\ out[t].life = life /\ Within(out[t])

\* So is all that this life has streamed.
PastInv == \A o \in Streamed : o.life <= life /\ (o.life = life => Within(o))

\* What a task is about to stream comes after all that it has streamed.
NextInv == \A t \in Tasks : pc[t] = "xadd" => \A o \in Ours(t) : Before(o, out[t])

\* What a task is about to set is the last that it has streamed.
SentInv == \A t \in Tasks : pc[t] = "setex" => \A o \in Ours(t) : o.msg <= out[t].msg

PubInv == HandInv /\ PastInv /\ NextInv /\ SentInv

LEMMA OutputIds ==
  ASSUME NEW o \in Outputs
  PROVE  /\ o.msg \in Nat /\ o.book \in Nat /\ o.trade \in Nat /\ o.life \in Nat
         /\ o.by \in Tasks
  <1>1. /\ o.msg \in Ids \cup TradeIds /\ o.book \in Ids \cup {0}
        /\ o.trade \in TradeIds \cup {0} /\ o.life \in Nat /\ o.by \in Tasks
    BY DEF Outputs
  <1>2. TradeIds \subseteq Nat
    BY MicrostructureAssumption DEF MicrostructureAssumption
  <1> QED BY <1>1, <1>2, IdsAreNaturals

LEMMA NotedIds ==
  ASSUME TypeOK
  PROVE  /\ lastBookId \in Nat /\ lastTradeId \in Nat /\ book.lastUpdateId \in Nat
         /\ life \in Nat
         /\ \A t \in Tasks : Noted(t) \in Nat
  <1>1. /\ lastBookId \in Ids \cup {0} /\ lastTradeId \in TradeIds \cup {0}
        /\ book.lastUpdateId \in Ids \cup {0} /\ life \in Nat
    BY DEF TypeOK
  <1>2. TradeIds \subseteq Nat
    BY MicrostructureAssumption DEF MicrostructureAssumption
  <1>3. lastBookId \in Nat /\ lastTradeId \in Nat /\ book.lastUpdateId \in Nat /\ life \in Nat
    BY <1>1, <1>2, IdsAreNaturals
  <1> QED BY <1>3 DEF Noted

LEMMA StreamedTyped ==
  ASSUME TypeOK
  PROVE  Streamed \subseteq Outputs
  BY DEF TypeOK, Streamed

\* While the process lives, what it has noted and what its book holds only grow.
LEMMA NotedGrows ==
  ASSUME TypeOK, BookInv, [Next]_vars, life' = life
  PROVE  /\ \A t \in Tasks : Noted(t) <= Noted(t)'
         /\ book.lastUpdateId <= book'.lastUpdateId
         /\ lastTradeId <= lastTradeId'
  <1> USE DEF raw, redis, symState, tasks
  <1>1. /\ lastBookId \in Nat /\ lastTradeId \in Nat /\ book.lastUpdateId \in Nat
        /\ life \in Nat
    BY NotedIds
  <1>2. ~Restart
    BY <1>1 DEF Restart
  <1>3. lastBookId <= lastBookId' /\ book.lastUpdateId <= book'.lastUpdateId
    <2>1. CASE UNCHANGED <<book, lastBookId>>
      BY <1>1, <2>1
    <2>2. CASE ProcessOrderbook /\ ~UNCHANGED <<book, lastBookId>>
      <3>1. PICK m \in [kind : Kinds, id : Ids] :
              /\ m.id > lastBookId
              /\ m.id > book.lastUpdateId
              /\ book' = Apply(book, m)
              /\ lastBookId' = m.id
        BY <2>2, UnseenUpdate
      <3>2. /\ m.id \in Nat
            /\ book \in [lastUpdateId : Ids \cup {0}, resyncNeeded : BOOLEAN]
        BY BookIds DEF TypeOK
      <3> QED BY <1>1, <3>1, <3>2, ApplyEffect
    <2> QED BY <1>2, <2>1, <2>2, BookOnlyThere
  <1>4. lastTradeId <= lastTradeId'
    <2>1. CASE ProcessTrade
      <3>1. rawTrades[cursor["trades"] + 1] \in Nat
        BY <2>1, RawEntries, MicrostructureAssumption
           DEF ProcessTrade, MicrostructureAssumption
      <3> QED BY <1>1, <2>1, <3>1 DEF ProcessTrade, SeenTrade
    <2>2. CASE ~ProcessTrade
      <3>1. lastTradeId' = lastTradeId
        BY <1>2, <2>2 DEF Next, TaskStep, vars, FeedBook, FeedTrade, ProcessOrderbook,
           XAdd, SetEx, RedisFails, Expire
      <3> QED BY <1>1, <3>1
    <2> QED BY <2>1, <2>2
  <1> QED BY <1>3, <1>4 DEF Noted

\* Only an XADD adds to the stream, at its end.
LEMMA StreamGrows ==
  ASSUME Typed, [Next]_vars
  PROVE  \/ stream' = stream /\ Streamed' = Streamed
         \/ \E t \in Tasks : /\ XAdd(t)
                             /\ out[t] \in Outputs
                             /\ Streamed' = Streamed \cup {out[t]}
  <1> USE DEF raw, redis, symState, tasks
  <1>1. ASSUME NEW t \in Tasks, XAdd(t)
        PROVE  out[t] \in Outputs /\ Streamed' = Streamed \cup {out[t]}
    <2>1. out[t] \in Outputs
      BY <1>1 DEF XAdd, Typed, OutInHand
    <2>2. stream' = Append(stream, out[t])
      BY <1>1 DEF XAdd
    <2>3. stream \in Seq(Outputs)
      BY DEF Typed, TypeOK
    <2>4. /\ DOMAIN stream' = DOMAIN stream \cup {Len(stream) + 1}
          /\ \A i \in DOMAIN stream : stream'[i] = stream[i]
          /\ stream'[Len(stream) + 1] = out[t]
      BY <2>1, <2>2, <2>3
    <2> QED BY <2>1, <2>4 DEF Streamed
  <1>2. CASE \A t \in Tasks : ~XAdd(t)
    <2>1. stream' = stream
      BY <1>2 DEF Next, TaskStep, vars, FeedBook, FeedTrade, ProcessOrderbook,
         ProcessTrade, SetEx, RedisFails, Expire, Restart
    <2> QED BY <2>1 DEF Streamed
  <1> QED BY <1>1, <1>2

\* A task that is about to publish either was so before, or has just built an
\* output from a message it had not noted and from the state as it now is.
LEMMA HandStep ==
  ASSUME Typed, BookInv, [Next]_vars, NEW t \in Tasks, pc'[t] = "xadd"
  PROVE  /\ life' = life
         /\ \/ pc[t] = "xadd" /\ out'[t] = out[t]
            \/ /\ out'[t] = [by |-> t, msg |-> Noted(t)', book |-> book'.lastUpdateId,
                             trade |-> lastTradeId', life |-> life']
               /\ Noted(t) < Noted(t)'
  <1> USE DEF raw, redis, symState, tasks
  <1>1. /\ pc \in [Tasks -> {"xread", "xadd", "setex"}]
        /\ out \in [Tasks -> Outputs \cup {NoOutput}]
        /\ lastBookId \in Nat /\ lastTradeId \in Nat /\ TypeOK
    BY NotedIds DEF Typed, TypeOK
  <1>2. CASE ProcessOrderbook
    <2> DEFINE m == rawBook[cursor["orderbook"] + 1]
    <2>1. CASE SeenBook(m.id)
      BY <1>2, <2>1 DEF ProcessOrderbook
    <2>2. CASE ~SeenBook(m.id)
      <3>1. /\ Build("orderbook", m.id, book'.lastUpdateId, lastTradeId)
            /\ lastBookId' = m.id
            /\ lastTradeId' = lastTradeId /\ life' = life
        BY <1>2, <2>2 DEF ProcessOrderbook, NextBookId
      <3>2. m.id \in Nat
        BY <1>1, <1>2, RawEntries, MicrostructureAssumption
           DEF ProcessOrderbook, MicrostructureAssumption
      <3>3. CASE t = "orderbook"
        <4>1. lastBookId < m.id
          BY <1>1, <2>2, <3>2 DEF SeenBook
        <4>2. Noted(t) = lastBookId /\ Noted(t)' = m.id
          BY <3>1, <3>3 DEF Noted
        <4>3. out'[t] = [by |-> t, msg |-> m.id, book |-> book'.lastUpdateId,
                         trade |-> lastTradeId, life |-> life]
          BY <1>1, <3>1, <3>3 DEF Build
        <4> QED BY <3>1, <4>1, <4>2, <4>3
      <3>4. CASE t # "orderbook"
        BY <1>1, <3>1, <3>4 DEF Build
      <3> QED BY <3>3, <3>4
    <2> QED BY <2>1, <2>2
  <1>3. CASE ProcessTrade
    <2> DEFINE id == rawTrades[cursor["trades"] + 1]
    <2>1. CASE SeenTrade(id)
      BY <1>3, <2>1 DEF ProcessTrade
    <2>2. CASE ~SeenTrade(id)
      <3>1. /\ Build("trades", id, book.lastUpdateId, id)
            /\ lastTradeId' = id
            /\ book' = book /\ life' = life
        BY <1>3, <2>2 DEF ProcessTrade
      <3>2. id \in Nat
        BY <1>1, <1>3, RawEntries, MicrostructureAssumption
           DEF ProcessTrade, MicrostructureAssumption
      <3>3. CASE t = "trades"
        <4>1. lastTradeId < id
          BY <1>1, <2>2, <3>2 DEF SeenTrade
        <4>2. Noted(t) = lastTradeId /\ Noted(t)' = id
          BY <3>1, <3>3 DEF Noted
        <4>3. out'[t] = [by |-> t, msg |-> id, book |-> book.lastUpdateId,
                         trade |-> id, life |-> life]
          BY <1>1, <3>1, <3>3 DEF Build
        <4> QED BY <3>1, <4>1, <4>2, <4>3
      <3>4. CASE t # "trades"
        BY <1>1, <3>1, <3>4 DEF Build
      <3> QED BY <3>3, <3>4
    <2> QED BY <2>1, <2>2
  <1>4. ASSUME NEW s \in Tasks, XAdd(s) \/ SetEx(s) \/ RedisFails(s)
        PROVE  life' = life /\ pc[t] = "xadd" /\ out'[t] = out[t]
    BY <1>1, <1>4 DEF XAdd, SetEx, RedisFails, Done
  <1>5. CASE FeedBook \/ FeedTrade \/ Expire \/ UNCHANGED vars
    BY <1>5 DEF FeedBook, FeedTrade, Expire, vars
  <1>6. ~Restart
    BY DEF Restart, AllAt
  <1> QED BY <1>2, <1>3, <1>4, <1>5, <1>6 DEF Next, TaskStep

\* A task that waits for its SETEX has done its XADD, now or earlier.
LEMMA SentStep ==
  ASSUME Typed, [Next]_vars, NEW t \in Tasks, pc'[t] = "setex"
  PROVE  life' = life /\ out'[t] = out[t] /\ (pc[t] = "setex" \/ XAdd(t))
  <1> USE DEF raw, redis, symState, tasks
  <1>1. /\ pc \in [Tasks -> {"xread", "xadd", "setex"}]
        /\ out \in [Tasks -> Outputs \cup {NoOutput}]
    BY DEF Typed, TypeOK
  <1>2. ASSUME NEW s \in Tasks, XAdd(s)
        PROVE  life' = life /\ out'[t] = out[t] /\ (pc[t] = "setex" \/ XAdd(t))
    BY <1>1, <1>2 DEF XAdd
  <1>3. ASSUME NEW s \in Tasks, SetEx(s) \/ RedisFails(s)
        PROVE  life' = life /\ out'[t] = out[t] /\ pc[t] = "setex"
    BY <1>1, <1>3 DEF SetEx, RedisFails, Done
  <1>4. CASE ProcessOrderbook
    <2>1. life' = life /\ pc'[t] = pc[t] /\ out'[t] = out[t]
      BY <1>1, <1>4 DEF ProcessOrderbook, Build
    <2> QED BY <2>1
  <1>5. CASE ProcessTrade
    <2>1. life' = life /\ pc'[t] = pc[t] /\ out'[t] = out[t]
      BY <1>1, <1>5 DEF ProcessTrade, Build
    <2> QED BY <2>1
  <1>6. CASE FeedBook \/ FeedTrade \/ Expire \/ UNCHANGED vars
    BY <1>6 DEF FeedBook, FeedTrade, Expire, vars
  <1>7. ~Restart
    BY DEF Restart, AllAt
  <1> QED BY <1>2, <1>3, <1>4, <1>5, <1>6, <1>7 DEF Next, TaskStep

-----------------------------------------------------------------------------
\* What an output lies within it lies within as long as the process lives.
LEMMA WithinStays ==
  ASSUME TypeOK, TypeOK', BookInv, [Next]_vars, life' = life, NEW o \in Outputs, Within(o)
  PROVE  Within(o)'
  <1>1. o.msg \in Nat /\ o.book \in Nat /\ o.trade \in Nat /\ o.by \in Tasks
    BY OutputIds
  <1>2. /\ Noted(o.by) \in Nat /\ book.lastUpdateId \in Nat /\ lastTradeId \in Nat
    BY <1>1, NotedIds
  <1>3. /\ Noted(o.by)' \in Nat /\ book'.lastUpdateId \in Nat /\ lastTradeId' \in Nat
    <2>1. /\ lastBookId' \in Ids \cup {0} /\ lastTradeId' \in TradeIds \cup {0}
          /\ book'.lastUpdateId \in Ids \cup {0}
      BY DEF TypeOK
    <2>2. TradeIds \subseteq Nat
      BY MicrostructureAssumption DEF MicrostructureAssumption
    <2> QED BY <1>1, <2>1, <2>2, IdsAreNaturals DEF Noted
  <1>4. /\ Noted(o.by) <= Noted(o.by)' /\ book.lastUpdateId <= book'.lastUpdateId
        /\ lastTradeId <= lastTradeId'
    BY <1>1, NotedGrows
  <1> QED BY <1>1, <1>2, <1>3, <1>4 DEF Within

LEMMA PubInit == Init => PubInv /\ PublishedOnce /\ LatestLagsOneStep
  <1> SUFFICES ASSUME Init PROVE PubInv /\ PublishedOnce /\ LatestLagsOneStep
    OBVIOUS
  <1>1. \A t \in Tasks : pc[t] = "xread"
    BY DEF Init, AllAt
  <1>2. HandInv /\ NextInv /\ SentInv
    BY <1>1 DEF HandInv, NextInv, SentInv
  <1>3. DOMAIN stream = {} /\ latest = NoOutput
    BY DEF Init
  <1> QED BY <1>2, <1>3 DEF PubInv, PastInv, Streamed, PublishedOnce, LatestLagsOneStep

LEMMA HandInvStep ==
  ASSUME Typed, Typed', BookInv, HandInv, [Next]_vars
  PROVE  HandInv'
  <1> SUFFICES ASSUME NEW t \in Tasks, pc'[t] \in {"xadd", "setex"},
                      NEW o, o = out'[t]
               PROVE  o.by = t /\ o.life = life' /\ Within(o)'
    BY DEF HandInv
  <1>1. TypeOK /\ TypeOK'
    BY DEF Typed
  <1>2. o \in Outputs
    BY DEF Typed, OutInHand
  <1>3. ASSUME pc[t] \in {"xadd", "setex"}, o = out[t], life' = life
        PROVE  o.by = t /\ o.life = life' /\ Within(o)'
    <2>1. o.by = t /\ o.life = life /\ Within(o)
      BY <1>3 DEF HandInv
    <2> QED BY <1>1, <1>2, <1>3, <2>1, WithinStays
  <1>4. CASE pc'[t] = "setex"
    BY <1>3, <1>4, SentStep DEF XAdd
  <1>5. CASE pc'[t] = "xadd"
    <2>1. CASE pc[t] = "xadd" /\ out'[t] = out[t]
      BY <1>3, <1>5, <2>1, HandStep
    <2>2. CASE out'[t] = [by |-> t, msg |-> Noted(t)', book |-> book'.lastUpdateId,
                          trade |-> lastTradeId', life |-> life']
      <3>1. /\ o.msg \in Nat /\ o.book \in Nat /\ o.trade \in Nat
        BY <1>2, OutputIds
      <3>2. /\ o.by = t /\ o.life = life' /\ o.msg = Noted(t)'
            /\ o.book = book'.lastUpdateId /\ o.trade = lastTradeId'
        BY <2>2
      <3>3. o.msg <= Noted(o.by)' /\ o.book <= book'.lastUpdateId /\ o.trade <= lastTradeId'
        BY <3>1, <3>2
      <3> QED BY <3>2, <3>3 DEF Within
    <2> QED BY <1>5, <2>1, <2>2, HandStep
  <1> QED BY <1>4, <1>5

\* A restart is the only step that begins a new life.
LEMMA LifeGoesOn ==
  ASSUME [Next]_vars
  PROVE  life' = life \/ (Restart /\ life' = life + 1)
  BY DEF Next, TaskStep, vars, tasks, FeedBook, FeedTrade, ProcessOrderbook, ProcessTrade,
     XAdd, SetEx, RedisFails, Expire, Restart

LEMMA PastInvStep ==
  ASSUME Typed, Typed', BookInv, HandInv, PastInv, [Next]_vars
  PROVE  PastInv'
  <1>1. TypeOK /\ TypeOK' /\ life \in Nat /\ Streamed \subseteq Outputs
    BY StreamedTyped, NotedIds DEF Typed
  <1>2. ASSUME NEW o \in Outputs, o.life <= life, o.life = life => Within(o)
        PROVE  o.life <= life' /\ (o.life = life' => Within(o)')
    <2>1. o.life \in Nat
      BY OutputIds
    <2>2. CASE life' = life
      BY <1>1, <1>2, <2>2, WithinStays
    <2>3. CASE life' = life + 1
      BY <1>1, <1>2, <2>1, <2>3
    <2> QED BY <2>2, <2>3, LifeGoesOn
  <1>3. ASSUME NEW o \in Streamed'
        PROVE  o \in Outputs /\ o.life <= life /\ (o.life = life => Within(o))
    <2>1. CASE o \in Streamed
      BY <1>1, <2>1 DEF PastInv
    <2>2. CASE o \notin Streamed
      <3>1. PICK t \in Tasks : XAdd(t) /\ out[t] \in Outputs
                                /\ Streamed' = Streamed \cup {out[t]}
        BY <1>3, <2>2, StreamGrows
      <3>2. o = out[t] /\ pc[t] = "xadd"
        BY <1>3, <2>2, <3>1 DEF XAdd
      <3> QED BY <1>1, <3>1, <3>2 DEF HandInv
    <2> QED BY <2>1, <2>2
  <1>4. \A o \in Streamed' : o.life <= life' /\ (o.life = life' => Within(o)')
    BY <1>2, <1>3
  <1> QED BY <1>4 DEF PastInv

\* What joins a task's outputs of this life is what its XADD put there.
LEMMA OursGrows ==
  ASSUME Typed, HandInv, [Next]_vars, life' = life, NEW t \in Tasks, NEW o \in Ours(t)'
  PROVE  o \in Ours(t) \/ (XAdd(t) /\ o = out[t])
  <1>1. o \in Streamed' /\ o.by = t /\ o.life = life
    BY DEF Ours
  <1>2. CASE o \in Streamed
    BY <1>1, <1>2 DEF Ours
  <1>3. CASE o \notin Streamed
    <2>1. PICK s \in Tasks : XAdd(s) /\ Streamed' = Streamed \cup {out[s]}
      BY <1>1, <1>3, StreamGrows
    <2>2. o = out[s] /\ pc[s] = "xadd"
      BY <1>1, <1>3, <2>1 DEF XAdd
    <2>3. out[s].by = s
      BY <2>2 DEF HandInv
    <2> QED BY <1>1, <2>1, <2>2, <2>3
  <1> QED BY <1>2, <1>3

LEMMA NextInvStep ==
  ASSUME Typed, Typed', BookInv, HandInv, PastInv, NextInv, [Next]_vars
  PROVE  NextInv'
  <1> SUFFICES ASSUME NEW t \in Tasks, pc'[t] = "xadd", NEW o \in Ours(t)', NEW p, p = out'[t]
               PROVE  Before(o, p)
    BY DEF NextInv
  <1>1. TypeOK /\ TypeOK' /\ life' = life
    BY HandStep DEF Typed
  <1>2. o \in Ours(t)
    <2>1. ~XAdd(t)
      BY DEF XAdd, Typed, TypeOK
    <2> QED BY <1>1, <2>1, OursGrows
  <1>3. CASE pc[t] = "xadd" /\ out'[t] = out[t]
    BY <1>2, <1>3 DEF NextInv
  <1>4. CASE /\ out'[t] = [by |-> t, msg |-> Noted(t)', book |-> book'.lastUpdateId,
                           trade |-> lastTradeId', life |-> life']
             /\ Noted(t) < Noted(t)'
    <2>1. o \in Outputs /\ Within(o) /\ o.by = t
      BY <1>1, <1>2, StreamedTyped DEF Ours, PastInv
    <2>2. p \in Outputs
      BY DEF Typed, OutInHand
    <2>3. /\ o.msg \in Nat /\ o.book \in Nat /\ o.trade \in Nat
          /\ p.msg \in Nat /\ p.book \in Nat /\ p.trade \in Nat
      BY <2>1, <2>2, OutputIds
    <2>4. p.msg = Noted(t)' /\ p.book = book'.lastUpdateId /\ p.trade = lastTradeId'
      BY <1>4
    <2>5. /\ o.msg <= Noted(t) /\ o.book <= book.lastUpdateId /\ o.trade <= lastTradeId
      BY <2>1 DEF Within
    <2>6. /\ book.lastUpdateId <= p.book /\ lastTradeId <= p.trade /\ Noted(t) < p.msg
      BY <1>1, <1>4, <2>4, NotedGrows
    <2>7. Noted(t) \in Nat /\ book.lastUpdateId \in Nat /\ lastTradeId \in Nat
      BY <1>1, NotedIds
    <2> QED BY <2>3, <2>5, <2>6, <2>7 DEF Before
  <1> QED BY <1>3, <1>4, HandStep

LEMMA SentInvStep ==
  ASSUME Typed, HandInv, NextInv, SentInv, [Next]_vars
  PROVE  SentInv'
  <1> SUFFICES ASSUME NEW t \in Tasks, pc'[t] = "setex", NEW o \in Ours(t)', NEW p, p = out'[t]
               PROVE  o.msg <= p.msg
    BY DEF SentInv
  <1>1. life' = life /\ p = out[t] /\ (pc[t] = "setex" \/ XAdd(t))
    BY SentStep
  <1>2. p \in Outputs
    BY <1>1 DEF Typed, OutInHand, XAdd
  <1>3. p.msg \in Nat
    BY <1>2, OutputIds
  <1>4. CASE o \in Ours(t) /\ pc[t] = "setex"
    BY <1>1, <1>4 DEF SentInv
  <1>5. CASE o \in Ours(t) /\ XAdd(t)
    <2>1. Before(o, p)
      BY <1>1, <1>5 DEF NextInv, XAdd
    <2>2. o.msg \in Nat
      <3>1. o \in Outputs
        BY <1>5, StreamedTyped DEF Typed, Ours
      <3> QED BY <3>1, OutputIds
    <2> QED BY <1>3, <2>1, <2>2 DEF Before
  <1>6. CASE o = out[t]
    BY <1>1, <1>3, <1>6
  <1> QED BY <1>1, <1>4, <1>5, <1>6, OursGrows

LEMMA PubStep == Typed /\ Typed' /\ BookInv /\ PubInv /\ [Next]_vars => PubInv'
  BY HandInvStep, PastInvStep, NextInvStep, SentInvStep DEF PubInv

LEMMA PubAlways == Spec => []PubInv
  BY PubInit, PubStep, TypedAlways, BookAlways, PTL DEF Spec

LEMMA OnceStep == Typed /\ PubInv /\ PublishedOnce /\ [Next]_vars => PublishedOnce'
  <1> SUFFICES ASSUME Typed, PubInv, PublishedOnce, [Next]_vars,
                      NEW i \in DOMAIN stream', NEW j \in DOMAIN stream',
                      i < j, stream'[i].by = stream'[j].by, stream'[i].life = stream'[j].life
               PROVE  Before(stream'[i], stream'[j])
    BY DEF PublishedOnce, Before
  <1>1. CASE stream' = stream
    BY <1>1 DEF PublishedOnce, Before
  <1>2. ASSUME NEW t \in Tasks, XAdd(t), out[t] \in Outputs
        PROVE  Before(stream'[i], stream'[j])
    <2>1. stream \in Seq(Outputs) /\ stream' = Append(stream, out[t]) /\ pc[t] = "xadd"
      BY <1>2 DEF XAdd, Typed, TypeOK
    <2>2. /\ DOMAIN stream' = 1..(Len(stream) + 1)
          /\ DOMAIN stream = 1..Len(stream)
          /\ Len(stream) \in Nat
          /\ \A k \in DOMAIN stream : stream'[k] = stream[k]
          /\ stream'[Len(stream) + 1] = out[t]
      BY <1>2, <2>1
    <2>3. i \in DOMAIN stream /\ stream'[i] = stream[i]
      BY <2>2
    <2>4. CASE j \in DOMAIN stream
      BY <2>2, <2>3, <2>4 DEF PublishedOnce, Before
    <2>5. CASE j = Len(stream) + 1
      <3>1. out[t].by = t /\ out[t].life = life
        BY <2>1 DEF PubInv, HandInv
      <3>2. stream[i] \in Ours(t)
        BY <2>2, <2>3, <2>5, <3>1 DEF Ours, Streamed
      <3> QED BY <2>1, <2>2, <2>3, <2>5, <3>2 DEF PubInv, NextInv
    <2> QED BY <2>2, <2>4, <2>5
  <1> QED BY <1>1, <1>2, StreamGrows

\* As long as the process lives a task publishes no message twice and never an
\* older book or trade after a newer one (_process_orderbook and _process_trade
\* compare ids before, and _publish_output builds its output before, they await).
THEOREM PublishesOnce == Spec => []PublishedOnce
  BY PubInit, OnceStep, TypedAlways, PubAlways, PTL DEF Spec

-----------------------------------------------------------------------------
\* Who may write ms:latest, and what.
LEMMA LatestSteps ==
  ASSUME [Next]_vars
  PROVE  \/ latest' = latest
         \/ latest' = NoOutput
         \/ \E t \in Tasks : pc[t] = "setex" /\ latest' = out[t] /\ Streamed' = Streamed
  BY DEF Next, TaskStep, vars, redis, Streamed, FeedBook, FeedTrade, ProcessOrderbook,
     ProcessTrade, XAdd, SetEx, RedisFails, Expire, Restart

\* A SETEX that is awaited no more was executed, or Redis is on record as having
\* refused it; and only an executed one clears that record.
LEMMA ReturnStep ==
  ASSUME Typed, [Next]_vars, life' = life, NEW t \in Tasks,
         pc[t] = "setex" \/ t \in missed, pc'[t] # "setex", t \notin missed'
  PROVE  SetEx(t)
  <1> USE DEF raw, redis, symState, tasks
  <1>1. /\ pc \in [Tasks -> {"xread", "xadd", "setex"}]
        /\ life \in Nat
    BY DEF Typed, TypeOK
  <1>2. ASSUME NEW s \in Tasks, SetEx(s)
        PROVE  SetEx(t)
    BY <1>1, <1>2 DEF SetEx, Done
  <1>3. ASSUME NEW s \in Tasks, XAdd(s) \/ RedisFails(s)
        PROVE  FALSE
    BY <1>1, <1>3 DEF XAdd, RedisFails, Done
  <1>4. ~ProcessOrderbook
    BY <1>1 DEF ProcessOrderbook, Build
  <1>5. ~ProcessTrade
    BY <1>1 DEF ProcessTrade, Build
  <1>6. ~(FeedBook \/ FeedTrade \/ Expire \/ Restart \/ UNCHANGED vars)
    BY <1>1 DEF FeedBook, FeedTrade, Expire, Restart, vars
  <1> QED BY <1>2, <1>3, <1>4, <1>5, <1>6 DEF Next, TaskStep

LEMMA LagStep ==
  Typed /\ StreamInv /\ PubInv /\ LatestLagsOneStep /\ [Next]_vars => LatestLagsOneStep'
  <1> SUFFICES ASSUME Typed, StreamInv, PubInv, LatestLagsOneStep, [Next]_vars,
                      NEW a, a = latest', a # NoOutput, a.life = life', NEW t, t = a.by,
                      pc'[t] # "setex", t \notin missed', NEW o \in Ours(t)'
               PROVE  o.msg <= a.msg
    BY DEF LatestLagsOneStep, Ours
  <1>1. life' = life
    <2>1. CASE Restart
      <3>1. latest' = latest /\ life' = life + 1 /\ latest \in Streamed
        BY <2>1 DEF Restart, redis, StreamInv, StreamedFirst
      <3>2. a \in Outputs /\ a.life <= life
        BY <3>1, StreamedTyped DEF PubInv, PastInv, Typed
      <3>3. a.life \in Nat /\ life \in Nat
        BY <3>2, OutputIds, NotedIds DEF Typed
      <3> QED BY <3>1, <3>2, <3>3
    <2> QED BY <2>1, LifeGoesOn
  <1>2. ASSUME NEW s \in Tasks, pc[s] = "setex", a = out[s], Streamed' = Streamed
        PROVE  o.msg <= a.msg
    <2>1. t = s
      BY <1>2 DEF PubInv, HandInv
    <2>2. o \in Ours(t)
      BY <1>1, <1>2 DEF Ours
    <2> QED BY <1>2, <2>1, <2>2 DEF PubInv, SentInv
  <1>3. ASSUME NEW s \in Tasks, SetEx(s)
        PROVE  o.msg <= a.msg
    BY <1>2, <1>3 DEF SetEx, Streamed
  <1>4. CASE latest' = latest /\ \A s \in Tasks : ~SetEx(s)
    <2>1. t \in Tasks
      <3>1. a \in Outputs
        BY <1>4 DEF Typed, TypeOK
      <3> QED BY <3>1, OutputIds
    <2>2. ~XAdd(t)
      BY <2>1 DEF XAdd, Typed, TypeOK
    <2>3. o \in Ours(t)
      BY <1>1, <2>1, <2>2, OursGrows DEF PubInv
    <2>4. pc[t] # "setex" /\ t \notin missed
      BY <1>1, <1>4, <2>1, ReturnStep
    <2>5. o \in Streamed /\ o.by = latest.by /\ o.life = latest.life
      BY <1>1, <1>4, <2>3 DEF Ours
    <2> QED BY <1>1, <1>4, <2>4, <2>5 DEF LatestLagsOneStep
  <1> QED BY <1>2, <1>3, <1>4, LatestSteps

\* The dashboard's key is behind its writer by at most the output that waits for
\* its SETEX, unless Redis refused one (_publish_output: XADD, then SETEX, with
\* the task suspended at each).
THEOREM LatestLags == Spec => []LatestLagsOneStep
  BY PubInit, LagStep, TypedAlways, StreamAlways, PubAlways, PTL DEF Spec
=============================================================================
