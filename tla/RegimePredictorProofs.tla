------------------------ MODULE RegimePredictorProofs ------------------------
(***************************************************************************)
(* The delivery of the consumer group for any set of symbols and any       *)
(* number of entries, failing calls and restarts: at most once, in order,  *)
(* and never again once an entry is lost.                                  *)
(***************************************************************************)
EXTENDS RegimePredictor, TLAPS

\* An entry is in hand between its XREADGROUP and its XACK, and only then.
HandHeld == \A s \in Symbols : hand[s] # 0 <=> pc[s] \in {"process", "xack"}

\* Nothing is known of entries the cursor has not passed.
BelowCursor ==
  /\ lastDelivered <= Len(stream)
  /\ trimmed <= Len(stream)
  /\ \A s \in Symbols : hand[s] <= lastDelivered
  /\ \A p \in pending : p.entry <= lastDelivered
  /\ \A s \in Symbols : \A k \in DOMAIN processed[s] : processed[s][k] <= lastDelivered

\* An entry is pending for one consumer.
OneOwner == \A p, q \in pending : p.entry = q.entry => p = q

\* What s is about to process is newer than all it has processed.
NewerInHand ==
  \A s \in Symbols : pc[s] = "process" =>
    \A k \in DOMAIN processed[s] : processed[s][k] < hand[s]

\* The cursor has not moved where there is no group, nor can a predictor read.
GroupFirst ==
  ~groupExists =>
    /\ lastDelivered = 0
    /\ \A s \in Symbols : pc[s] \in {"setup", "stopped"}

Inv ==
  /\ TypeOK
  /\ GroupFirst
  /\ HandHeld
  /\ BelowCursor
  /\ OneOwner
  /\ NewerInHand
  /\ InHandIsPending
  /\ AtMostOnce

-----------------------------------------------------------------------------
LEMMA InvInit == Init => Inv
  <1> SUFFICES ASSUME Init PROVE Inv
    OBVIOUS
  <1> USE DEF Init
  <1>1. TypeOK
    <2>1. <<>> \in Seq(Symbols) /\ <<>> \in Seq(Entries)
      OBVIOUS
    <2> QED BY <2>1 DEF TypeOK, States
  <1>2. HandHeld /\ OneOwner /\ NewerInHand /\ InHandIsPending /\ AtMostOnce
    BY DEF HandHeld, OneOwner, NewerInHand, InHandIsPending, AtMostOnce
  <1>3. BelowCursor /\ GroupFirst
    BY DEF BelowCursor, GroupFirst
  <1> QED BY <1>1, <1>2, <1>3 DEF Inv

\* XREADGROUP returns an entry behind the cursor that the stream holds.
LEMMA ReadableIsNew ==
  ASSUME Inv, NEW s \in Symbols, NEW i \in Readable(s)
  PROVE  i \in Entries /\ i > lastDelivered /\ i <= Len(stream)
  BY DEF Inv, TypeOK, Readable, NextEntry, Entries

LEMMA PublishStep == Inv /\ Publish => Inv'
  <1> SUFFICES ASSUME Inv, Publish PROVE Inv'
    OBVIOUS
  <1> USE DEF Publish, group, predictors
  <1>1. PICK s \in Symbols : stream' = Append(stream, s)
    OBVIOUS
  <1>2. /\ stream \in Seq(Symbols) /\ trimmed \in Nat /\ Len(stream) \in Nat
        /\ lastDelivered \in Nat
    BY DEF Inv, TypeOK
  <1>3. /\ stream' \in Seq(Symbols)
        /\ Len(stream') = Len(stream) + 1
        /\ \A i \in 1..Len(stream) : stream'[i] = stream[i]
    BY <1>1, <1>2
  <1>4. trimmed' \in Nat /\ trimmed' <= Len(stream)
    BY <1>2
  <1>5. TypeOK'
    BY <1>3, <1>4 DEF Inv, TypeOK
  <1>6. HandHeld' /\ OneOwner' /\ NewerInHand' /\ InHandIsPending' /\ GroupFirst'
    BY DEF Inv, HandHeld, OneOwner, NewerInHand, InHandIsPending, GroupFirst
  <1>7. BelowCursor'
    <2>1. lastDelivered <= Len(stream)
      BY DEF Inv, BelowCursor
    <2>2. lastDelivered <= Len(stream') /\ trimmed' <= Len(stream')
      BY <1>2, <1>3, <1>4, <2>1
    <2> QED BY <2>2 DEF Inv, BelowCursor
  <1>8. AtMostOnce'
    <2> SUFFICES ASSUME NEW t \in Symbols, NEW k \in DOMAIN processed[t]
                 PROVE  processed[t][k] <= Len(stream') /\ stream'[processed[t][k]] = t
      BY DEF Inv, AtMostOnce
    <2>1. processed[t] \in Seq(Entries)
      BY DEF Inv, TypeOK
    <2>2. processed[t][k] \in Entries
      BY <2>1
    <2>3. processed[t][k] <= Len(stream) /\ stream[processed[t][k]] = t
      BY DEF Inv, AtMostOnce
    <2> QED BY <1>2, <1>3, <2>2, <2>3 DEF Entries
  <1> QED BY <1>5, <1>6, <1>7, <1>8 DEF Inv

\* Steps that leave the stream, the pending entries and the histories alone.
LEMMA QuietStep ==
  ASSUME Inv, UNCHANGED <<stream, trimmed, lastDelivered, pending, acked, processed>>,
         groupExists' \in BOOLEAN, failures' \in Nat, restarts' \in Nat,
         pc' \in [Symbols -> States],
         GroupFirst',
         \A s \in Symbols :
           \/ hand'[s] = hand[s] /\ pc'[s] = pc[s]
           \/ hand'[s] = 0 /\ pc'[s] \notin {"process", "xack"},
         hand' \in [Symbols -> Nat]
  PROVE  Inv'
  <1>1. TypeOK'
    BY DEF Inv, TypeOK
  <1>2. HandHeld' /\ OneOwner' /\ NewerInHand' /\ AtMostOnce'
    BY DEF Inv, HandHeld, OneOwner, NewerInHand, AtMostOnce
  <1>3. BelowCursor'
    <2>1. \A s \in Symbols : hand'[s] <= lastDelivered
      <3> TAKE s \in Symbols
      <3>1. lastDelivered \in Nat /\ hand[s] <= lastDelivered
        BY DEF Inv, TypeOK, BelowCursor
      <3>2. hand'[s] = hand[s] \/ hand'[s] = 0
        OBVIOUS
      <3> QED BY <3>1, <3>2
    <2> QED BY <2>1 DEF Inv, BelowCursor
  <1>4. InHandIsPending'
    BY DEF Inv, InHandIsPending
  <1> QED BY <1>1, <1>2, <1>3, <1>4 DEF Inv

\* Redis gives entry i to predictor s, which takes it in hand or never hears of it.
LEMMA DeliverStep ==
  ASSUME Inv, NEW s \in Symbols, NEW i \in Readable(s), Deliver(s, i), failures' \in Nat,
         \/ hand' = [hand EXCEPT ![s] = i] /\ pc' = [pc EXCEPT ![s] = "process"]
         \/ hand' = hand /\ pc' = [pc EXCEPT ![s] = "sleep"]
  PROVE  Inv'
  <1> USE DEF Deliver
  <1>1. /\ i \in Entries /\ i \in Nat /\ i # 0 /\ i > lastDelivered /\ i <= Len(stream)
        /\ lastDelivered \in Nat
    BY ReadableIsNew DEF Entries, Inv, TypeOK
  <1>2. /\ lastDelivered' = i
        /\ pending' = pending \cup {[entry |-> i, consumer |-> s]}
        /\ UNCHANGED <<stream, trimmed, groupExists, acked, processed, restarts>>
    BY DEF PendingAfter
  <1>3. hand[s] = 0 /\ hand \in [Symbols -> Nat] /\ pc \in [Symbols -> States]
    BY DEF Inv, TypeOK, HandHeld
  <1>4. TypeOK'
    <2>1. pending' \in SUBSET [entry : Entries, consumer : Symbols]
      BY <1>1, <1>2 DEF Inv, TypeOK
    <2>2. hand' \in [Symbols -> Nat] /\ pc' \in [Symbols -> States]
      BY <1>1, <1>3 DEF States
    <2> QED BY <1>1, <1>2, <2>1, <2>2 DEF Inv, TypeOK
  <1>5. HandHeld' /\ GroupFirst'
    BY <1>1, <1>2, <1>3 DEF Inv, HandHeld, GroupFirst
  <1>6. BelowCursor'
    <2>1. \A t \in Symbols : hand'[t] <= i
      BY <1>1, <1>3 DEF Inv, BelowCursor
    <2>2. \A p \in pending' : p.entry <= i
      <3> TAKE p \in pending'
      <3>1. CASE p \in pending
        <4>1. p.entry \in Nat /\ p.entry <= lastDelivered
          BY <3>1 DEF Inv, TypeOK, BelowCursor, Entries
        <4> QED BY <1>1, <4>1
      <3>2. CASE p = [entry |-> i, consumer |-> s]
        BY <1>1, <3>2
      <3> QED BY <1>2, <3>1, <3>2
    <2>3. \A t \in Symbols : \A k \in DOMAIN processed[t] : processed[t][k] <= i
      <3> TAKE t \in Symbols
      <3> TAKE k \in DOMAIN processed[t]
      <3>1. processed[t] \in Seq(Entries) /\ processed[t][k] <= lastDelivered
        BY DEF Inv, TypeOK, BelowCursor
      <3>2. processed[t][k] \in Entries
        BY <3>1
      <3> QED BY <1>1, <3>1, <3>2 DEF Entries
    <2> QED BY <1>1, <1>2, <2>1, <2>2, <2>3 DEF Inv, BelowCursor
  <1>7. OneOwner'
    <2>1. \A p \in pending : p.entry # i
      BY <1>1 DEF Inv, TypeOK, BelowCursor, Entries
    <2> QED BY <1>2, <2>1 DEF Inv, OneOwner
  <1>8. NewerInHand'
    <2> SUFFICES ASSUME NEW t \in Symbols, pc'[t] = "process", NEW k \in DOMAIN processed[t]
                 PROVE  processed[t][k] < hand'[t]
      BY <1>2 DEF NewerInHand
    <2>1. CASE t # s
      BY <1>3, <2>1 DEF Inv, NewerInHand
    <2>2. CASE t = s
      <3>1. hand'[s] = i
        BY <1>3, <2>2
      <3>2. processed[t] \in Seq(Entries) /\ processed[t][k] <= lastDelivered
        BY DEF Inv, TypeOK, BelowCursor
      <3>3. processed[t][k] \in Entries
        BY <3>2
      <3> QED BY <1>1, <2>2, <3>1, <3>2, <3>3 DEF Entries
    <2> QED BY <2>1, <2>2
  <1>9. InHandIsPending'
    <2>1. \A t \in Symbols : hand[t] # i
      BY <1>1, <1>3 DEF Inv, BelowCursor
    <2> QED BY <1>2, <1>3, <2>1 DEF Inv, InHandIsPending
  <1>10. AtMostOnce'
    BY <1>2 DEF Inv, AtMostOnce
  <1> QED BY <1>4, <1>5, <1>6, <1>7, <1>8, <1>9, <1>10 DEF Inv

LEMMA ProcessStep ==
  ASSUME Inv, NEW s \in Symbols, Process(s)
  PROVE  Inv'
  <1> USE DEF Process, GoTo, group
  <1> DEFINE p == processed[s]
             q == Append(p, hand[s])
  <1>1. /\ hand[s] \in Entries /\ hand[s] <= lastDelivered /\ hand[s] <= Len(stream)
        /\ pc[s] = "process"
    BY DEF Inv, TypeOK, HandHeld, BelowCursor, Entries
  <1>2. p \in Seq(Entries)
    BY DEF Inv, TypeOK
  <1>3. /\ q \in Seq(Entries) /\ DOMAIN q = 1..(Len(p) + 1) /\ DOMAIN p = 1..Len(p)
        /\ \A k \in DOMAIN p : q[k] = p[k] /\ p[k] \in Entries
        /\ q[Len(p) + 1] = hand[s]
        /\ Len(p) \in Nat
    BY <1>1, <1>2
  <1>4. /\ \A t \in Symbols \ {s} : processed'[t] = processed[t]
        /\ \/ processed'[s] = p
           \/ processed'[s] = q /\ stream[hand[s]] = s
        /\ processed' \in [Symbols -> Seq(Entries)]
    BY <1>2, <1>3 DEF Inv, TypeOK
  <1>5. TypeOK'
    BY <1>4 DEF Inv, TypeOK, States
  <1>6. HandHeld' /\ OneOwner' /\ InHandIsPending' /\ GroupFirst'
    BY <1>1 DEF Inv, TypeOK, HandHeld, OneOwner, InHandIsPending, GroupFirst
  <1>7. BelowCursor'
    BY <1>1, <1>3, <1>4 DEF Inv, BelowCursor
  <1>8. NewerInHand'
    <2> SUFFICES ASSUME NEW t \in Symbols, pc'[t] = "process"
                 PROVE  \A k \in DOMAIN processed'[t] : processed'[t][k] < hand[t]
      BY DEF NewerInHand
    <2>1. t # s /\ pc[t] = "process"
      BY DEF Inv, TypeOK
    <2> QED BY <1>4, <2>1 DEF Inv, NewerInHand
  <1>9. AtMostOnce'
    <2> SUFFICES ASSUME NEW t \in Symbols
                 PROVE  /\ \A k \in DOMAIN processed'[t] :
                             processed'[t][k] <= Len(stream) /\ stream[processed'[t][k]] = t
                        /\ \A j, k \in DOMAIN processed'[t] :
                             j < k => processed'[t][j] < processed'[t][k]
      BY DEF AtMostOnce
    <2>1. CASE processed'[t] = processed[t]
      BY <2>1 DEF Inv, AtMostOnce
    <2>2. CASE t = s /\ processed'[s] = q /\ stream[hand[s]] = s
      <3>1. /\ \A k \in DOMAIN p : p[k] <= Len(stream) /\ stream[p[k]] = s
            /\ \A j, k \in DOMAIN p : j < k => p[j] < p[k]
        BY DEF Inv, AtMostOnce
      <3>2. \A k \in DOMAIN p : p[k] < hand[s]
        BY <1>1 DEF Inv, NewerInHand
      <3>3. \A k \in DOMAIN q : k \in DOMAIN p \/ k = Len(p) + 1
        BY <1>3
      <3>4. \A k \in DOMAIN q : q[k] <= Len(stream) /\ stream[q[k]] = s
        BY <1>1, <1>3, <2>2, <3>1, <3>3
      <3>5. ASSUME NEW j \in DOMAIN q, NEW k \in DOMAIN q, j < k
            PROVE  q[j] < q[k]
        <4>1. j \in DOMAIN p
          BY <1>3, <3>5
        <4>2. CASE k \in DOMAIN p
          BY <1>3, <3>1, <3>5, <4>1, <4>2
        <4>3. CASE k = Len(p) + 1
          BY <1>3, <3>2, <4>1, <4>3
        <4> QED BY <3>3, <4>2, <4>3
      <3> QED BY <2>2, <3>4, <3>5
    <2> QED BY <1>4, <2>1, <2>2
  <1> QED BY <1>5, <1>6, <1>7, <1>8, <1>9 DEF Inv

\* The entry in hand of s leaves the pending entries: no other predictor holds it.
LEMMA AcknowledgeStep ==
  ASSUME Inv, NEW s \in Symbols, pc[s] = "xack", Acknowledge(s),
         hand' = [hand EXCEPT ![s] = 0],
         NEW state \in {"xreadgroup", "sleep"}, pc' = [pc EXCEPT ![s] = state],
         UNCHANGED <<stream, trimmed, processed, restarts>>, failures' \in Nat
  PROVE  Inv'
  <1> USE DEF Acknowledge
  <1>1. hand[s] \in Entries
    BY DEF Inv, TypeOK, HandHeld, Entries
  <1>2. TypeOK'
    BY <1>1 DEF Inv, TypeOK, States
  <1>3. HandHeld' /\ OneOwner' /\ NewerInHand' /\ AtMostOnce' /\ GroupFirst'
    BY DEF Inv, TypeOK, HandHeld, OneOwner, NewerInHand, AtMostOnce, GroupFirst
  <1>4. BelowCursor'
    BY DEF Inv, TypeOK, BelowCursor
  <1>5. InHandIsPending'
    BY <1>1 DEF Inv, TypeOK, InHandIsPending
  <1> QED BY <1>2, <1>3, <1>4, <1>5 DEF Inv

LEMMA PredictorStep ==
  ASSUME Inv, NEW s \in Symbols, Predictor(s)
  PROVE  Inv'
  <1> USE DEF GoTo, Fails, group
  <1>0. /\ failures \in Nat /\ restarts \in Nat /\ groupExists \in BOOLEAN
        /\ pc \in [Symbols -> States] /\ hand \in [Symbols -> Nat]
        /\ lastDelivered \in Nat
        /\ GroupFirst
    BY DEF Inv, TypeOK
  <1> USE DEF GroupFirst
  <1>h. pc[s] \notin {"process", "xack"} => hand[s] = 0
    BY DEF Inv, HandHeld
  <1>1. ASSUME Setup(s) PROVE Inv'
    <2>1. lastDelivered' = lastDelivered
      BY <1>1 DEF Setup, CreateGroup, StartId, Inv, GroupFirst
    <2> QED BY <1>0, <1>1, <1>h, <2>1, QuietStep DEF Setup, CreateGroup, States, GroupFirst
  <1>2. ASSUME SetupFails(s) PROVE Inv'
    <2>1. lastDelivered' = lastDelivered
      BY <1>2 DEF SetupFails, CreateGroup, StartId, Inv, GroupFirst
    <2>2. /\ groupExists' \in BOOLEAN /\ UNCHANGED <<pending, acked>>
          /\ groupExists' = TRUE \/ groupExists' = groupExists
      BY <1>0, <1>2 DEF SetupFails, CreateGroup
    <2> QED BY <1>0, <1>2, <1>h, <2>1, <2>2, QuietStep DEF SetupFails, States, GroupFirst
  <1>3. ASSUME ReadGroup(s) PROVE Inv'
    BY <1>0, <1>3, DeliverStep DEF ReadGroup
  <1>4. ASSUME ReadFails(s) PROVE Inv'
    <2>1. CASE UNCHANGED <<stream, trimmed, group, processed, restarts>>
      BY <1>0, <1>4, <1>h, <2>1, QuietStep DEF ReadFails, States
    <2>2. CASE \E i \in Readable(s) : Deliver(s, i)
      <3>1. /\ failures' \in Nat
            /\ hand' = hand /\ pc' = [pc EXCEPT ![s] = "sleep"]
        BY <1>0, <1>4 DEF ReadFails
      <3>2. PICK i \in Readable(s) : Deliver(s, i)
        BY <2>2
      <3> QED BY <3>1, <3>2, DeliverStep
    <2> QED BY <1>4, <2>1, <2>2 DEF ReadFails
  <1>5. ASSUME Process(s) PROVE Inv'
    BY <1>5, ProcessStep
  <1>6. ASSUME Ack(s) PROVE Inv'
    BY <1>0, <1>6, AcknowledgeStep DEF Ack
  <1>7. ASSUME AckFails(s) PROVE Inv'
    <2>1. CASE Acknowledge(s)
      <3>1. /\ failures' \in Nat /\ pc[s] = "xack"
            /\ hand' = [hand EXCEPT ![s] = 0] /\ pc' = [pc EXCEPT ![s] = "sleep"]
            /\ UNCHANGED <<stream, trimmed, processed, restarts>>
        BY <1>0, <1>7 DEF AckFails
      <3> QED BY <2>1, <3>1, AcknowledgeStep
    <2>2. CASE UNCHANGED group
      BY <1>0, <1>7, <2>2, QuietStep DEF AckFails, States
    <2> QED BY <1>7, <2>1, <2>2 DEF AckFails
  <1>8. ASSUME Wake(s) PROVE Inv'
    BY <1>0, <1>8, <1>h, QuietStep DEF Wake, States
  <1> QED BY <1>1, <1>2, <1>3, <1>4, <1>5, <1>6, <1>7, <1>8 DEF Predictor

LEMMA RestartStep == Inv /\ Restart => Inv'
  <1> SUFFICES ASSUME Inv, Restart PROVE Inv'
    OBVIOUS
  <1>1. /\ groupExists' \in BOOLEAN /\ failures' \in Nat /\ restarts' \in Nat
        /\ pc' \in [Symbols -> States] /\ hand' \in [Symbols -> Nat]
        /\ GroupFirst'
    BY DEF Inv, TypeOK, GroupFirst, Restart, group, States
  <1> QED BY <1>1, QuietStep DEF Restart, group

LEMMA InvStep == Inv /\ [Next]_vars => Inv'
  <1> SUFFICES ASSUME Inv, [Next]_vars PROVE Inv'
    OBVIOUS
  <1>1. CASE UNCHANGED vars
    <2>1. /\ groupExists' \in BOOLEAN /\ failures' \in Nat /\ restarts' \in Nat
          /\ pc' \in [Symbols -> States] /\ hand' \in [Symbols -> Nat]
          /\ GroupFirst'
      BY <1>1 DEF Inv, TypeOK, GroupFirst, vars, group, predictors
    <2> QED BY <1>1, <2>1, QuietStep DEF vars, group, predictors
  <1> QED BY <1>1, PublishStep, RestartStep, PredictorStep DEF Next

LEMMA InvAlways == Spec => []Inv
  BY InvInit, InvStep, PTL DEF Spec

\* The state of the stream, the group and the predictors keeps its types.
THEOREM TypeCorrect == Spec => []TypeOK
  BY InvAlways, PTL DEF Inv

\* A predictor takes only entries of its symbol, in stream order, none twice
\* (_process_message behind XREADGROUP ">"), over any failures and restarts.
THEOREM DeliveredAtMostOnce == Spec => []AtMostOnce
  BY InvAlways, PTL DEF Inv

\* What a predictor holds is pending under its name and held by no other.
THEOREM HeldIsPending == Spec => []InHandIsPending
  BY InvAlways, PTL DEF Inv

-----------------------------------------------------------------------------
\* A step that puts nothing behind the cursor in hand and processes only what
\* is in hand keeps an entry lost.
LEMMA LostByHand ==
  ASSUME Inv, NEW i \in Nat, Lost(i),
         lastDelivered' \in Nat, lastDelivered' >= lastDelivered,
         \A s \in Symbols : hand'[s] = hand[s] \/ hand'[s] = 0 \/ hand'[s] > lastDelivered,
         \/ UNCHANGED processed
         \/ \E s \in Symbols : processed' = [processed EXCEPT ![s] = Append(@, hand[s])],
         i # 0
  PROVE  Lost(i)'
  <1>1. lastDelivered \in Nat /\ i <= lastDelivered /\ ~InHand(i) /\ ~Processed(i)
    BY DEF Inv, TypeOK, Lost
  <1>2. i <= lastDelivered'
    BY <1>1
  <1>3. ~InHand(i)'
    <2> SUFFICES ASSUME NEW s \in Symbols PROVE hand'[s] # i
      BY DEF InHand
    <2> QED BY <1>1 DEF InHand
  <1>4. ~Processed(i)'
    <2>1. CASE UNCHANGED processed
      BY <1>1, <2>1 DEF Processed
    <2>2. ASSUME NEW s \in Symbols,
                 processed' = [processed EXCEPT ![s] = Append(@, hand[s])]
          PROVE  ~Processed(i)'
      <3> SUFFICES ASSUME NEW t \in Symbols, NEW k \in DOMAIN processed'[t]
                   PROVE  processed'[t][k] # i
        BY DEF Processed
      <3>1. CASE t # s
        BY <1>1, <2>2, <3>1 DEF Processed, Inv, TypeOK
      <3>2. CASE t = s
        <4> DEFINE p == processed[s]
        <4>1. p \in Seq(Entries) /\ hand[s] \in Nat /\ hand[s] # i
          BY <1>1 DEF Inv, TypeOK, InHand
        <4>2. processed'[t] = Append(p, hand[s])
          BY <2>2, <3>2 DEF Inv, TypeOK
        <4>3. k \in 1..(Len(p) + 1) /\ Len(p) \in Nat
          BY <4>1, <4>2
        <4>4. CASE k = Len(p) + 1
          BY <4>1, <4>2, <4>4
        <4>5. CASE k \in 1..Len(p)
          BY <1>1, <4>1, <4>2, <4>5 DEF Processed
        <4> QED BY <4>3, <4>4, <4>5
      <3> QED BY <3>1, <3>2
    <2> QED BY <2>1, <2>2
  <1> QED BY <1>2, <1>3, <1>4 DEF Lost

\* Every step of the system is of that kind.
LEMMA HandStep ==
  ASSUME Inv, [Next]_vars
  PROVE  /\ lastDelivered' \in Nat /\ lastDelivered' >= lastDelivered
         /\ \A s \in Symbols : hand'[s] = hand[s] \/ hand'[s] = 0 \/ hand'[s] > lastDelivered
         /\ \/ UNCHANGED processed
            \/ \E s \in Symbols : processed' = [processed EXCEPT ![s] = Append(@, hand[s])]
  <1>0. lastDelivered \in Nat /\ hand \in [Symbols -> Nat]
    BY DEF Inv, TypeOK
  <1>1. CASE UNCHANGED vars \/ Publish \/ Restart
    BY <1>0, <1>1 DEF vars, group, predictors, Publish, Restart
  <1>2. ASSUME NEW s \in Symbols, Setup(s) \/ SetupFails(s) \/ Wake(s) \/ Ack(s) \/ AckFails(s)
        PROVE  /\ lastDelivered' = lastDelivered
               /\ hand' = hand \/ hand' = [hand EXCEPT ![s] = 0]
               /\ UNCHANGED processed
    BY <1>2 DEF Setup, CreateGroup, StartId, SetupFails, Wake, Ack, AckFails, Acknowledge, group,
                Inv, GroupFirst
  <1>3. ASSUME NEW s \in Symbols, ReadGroup(s) \/ ReadFails(s)
        PROVE  /\ UNCHANGED processed
               /\ \/ UNCHANGED <<lastDelivered, hand>>
                  \/ \E i \in Readable(s) : /\ lastDelivered' = i
                                            /\ hand' = hand \/ hand' = [hand EXCEPT ![s] = i]
    BY <1>3 DEF ReadGroup, ReadFails, Deliver, group
  <1>4. ASSUME NEW s \in Symbols, ReadGroup(s) \/ ReadFails(s),
               NEW i \in Readable(s), lastDelivered' = i,
               hand' = hand \/ hand' = [hand EXCEPT ![s] = i]
        PROVE  /\ lastDelivered' \in Nat /\ lastDelivered' >= lastDelivered
               /\ \A t \in Symbols : hand'[t] = hand[t] \/ hand'[t] > lastDelivered
    BY <1>0, <1>4, ReadableIsNew DEF Entries
  <1>5. ASSUME NEW s \in Symbols, Process(s)
        PROVE  /\ UNCHANGED <<lastDelivered, hand>>
               /\ \/ UNCHANGED processed
                  \/ processed' = [processed EXCEPT ![s] = Append(@, hand[s])]
    BY <1>5 DEF Process, group
  <1>6. CASE \E s \in Symbols : Setup(s) \/ SetupFails(s) \/ Wake(s) \/ Ack(s) \/ AckFails(s)
    BY <1>0, <1>2, <1>6
  <1>7. CASE \E s \in Symbols : ReadGroup(s) \/ ReadFails(s)
    BY <1>0, <1>3, <1>4, <1>7
  <1>8. CASE \E s \in Symbols : Process(s)
    BY <1>0, <1>5, <1>8
  <1> QED BY <1>1, <1>6, <1>7, <1>8 DEF Next, Predictor

\* A lost entry is never handed out or processed again.
THEOREM LostIsForever == Spec => LostStaysLost
  <1>1. Inv /\ [Next]_vars => [\A i \in 1..MaxEntries : Lost(i) => Lost(i)']_vars
    <2> SUFFICES ASSUME Inv, [Next]_vars, NEW i \in 1..MaxEntries, Lost(i) PROVE Lost(i)'
      OBVIOUS
    <2> QED BY HandStep, LostByHand
  <1> QED BY <1>1, InvAlways, PTL DEF Spec, LostStaysLost

-----------------------------------------------------------------------------
\* Only an acknowledgement takes a pending entry away: the one in hand.
LEMMA PendingStep ==
  ASSUME Inv, [Next]_vars
  PROVE  \/ pending \subseteq pending'
         \/ \E s \in Symbols : /\ hand[s] # 0
                              /\ pending' = {p \in pending : p.entry # hand[s]}
  <1>1. CASE UNCHANGED vars \/ Publish \/ Restart
    BY <1>1 DEF vars, group, Publish, Restart
  <1>2. ASSUME NEW s \in Symbols, Predictor(s), ~(Ack(s) \/ AckFails(s))
        PROVE  pending \subseteq pending'
    BY <1>2 DEF Predictor, Setup, CreateGroup, SetupFails, ReadGroup, ReadFails, Deliver, PendingAfter,
                Process, Wake, group
  <1>3. ASSUME NEW s \in Symbols, Ack(s) \/ AckFails(s)
        PROVE  /\ hand[s] # 0
               /\ \/ UNCHANGED pending
                  \/ pending' = {p \in pending : p.entry # hand[s]}
    BY <1>3 DEF Ack, AckFails, Acknowledge, group, Inv, HandHeld
  <1> QED BY <1>1, <1>2, <1>3 DEF Next

\* An entry that is pending and in nobody's hand stays so.
THEOREM OrphansAreForever == Spec => OrphansStayPending
  <1>1. Inv /\ [Next]_vars => [Orphans \subseteq Orphans']_vars
    <2> SUFFICES ASSUME Inv, [Next]_vars, NEW p \in Orphans PROVE p \in Orphans'
      OBVIOUS
    <2>1. /\ p \in pending /\ p.consumer \in Symbols /\ p.entry \in Nat /\ p.entry # 0
          /\ hand[p.consumer] # p.entry
      BY DEF Orphans, Inv, TypeOK, Entries
    <2>2. p \in pending'
      <3>1. CASE pending \subseteq pending'
        BY <2>1, <3>1
      <3>2. ASSUME NEW s \in Symbols, hand[s] # 0,
                   pending' = {q \in pending : q.entry # hand[s]}
            PROVE  p \in pending'
        <4>1. [entry |-> hand[s], consumer |-> s] \in pending
          BY <3>2 DEF Inv, InHandIsPending
        <4>2. p.entry # hand[s]
          <5> SUFFICES ASSUME p.entry = hand[s] PROVE FALSE
            OBVIOUS
          <5>1. p = [entry |-> hand[s], consumer |-> s]
            BY <2>1, <4>1 DEF Inv, OneOwner
          <5> QED BY <2>1, <5>1
        <4> QED BY <2>1, <3>2, <4>2
      <3> QED BY <3>1, <3>2, PendingStep
    <2>3. hand'[p.consumer] # p.entry
      <3>1. lastDelivered \in Nat /\ p.entry <= lastDelivered
        BY <2>1 DEF Inv, TypeOK, BelowCursor
      <3>2. \/ hand'[p.consumer] = hand[p.consumer]
            \/ hand'[p.consumer] = 0
            \/ hand'[p.consumer] > lastDelivered
        BY <2>1, HandStep
      <3> QED BY <2>1, <3>1, <3>2
    <2> QED BY <2>2, <2>3 DEF Orphans
  <1> QED BY <1>1, InvAlways, PTL DEF Spec, OrphansStayPending

-----------------------------------------------------------------------------
(* The group implements Delivery.  HeldBy and TakenBy are what Delivery's   *)
(* held and taken stand for.                                               *)

HeldBy  == [s \in Symbols |-> IF pc[s] = "process" THEN {hand[s]} ELSE {}]
TakenBy == [s \in Symbols |-> {processed[s][k] : k \in DOMAIN processed[s]}]

DeliveryUnchanged ==
  Len(stream') = Len(stream) /\ lastDelivered' = lastDelivered
  /\ HeldBy' = HeldBy /\ TakenBy' = TakenBy

\* Nobody's reading goes on or is begun by a step between other states.
LEMMA SameHeld ==
  ASSUME Inv, NEW s \in Symbols, NEW state \in States \ {"process"},
         pc[s] # "process", pc' = [pc EXCEPT ![s] = state],
         \A t \in Symbols \ {s} : hand'[t] = hand[t]
  PROVE  HeldBy' = HeldBy
  <1>1. pc \in [Symbols -> States]
    BY DEF Inv, TypeOK
  <1> QED BY <1>1 DEF HeldBy

\* An entry that is handed out is behind the cursor; the one who gets it has none,
\* and has it in hand unless the reply is lost.
LEMMA HandsOut ==
  ASSUME Inv, NEW s \in Symbols, NEW i \in Readable(s), Deliver(s, i),
         \/ hand' = [hand EXCEPT ![s] = i] /\ pc' = [pc EXCEPT ![s] = "process"]
         \/ hand' = hand /\ pc' = [pc EXCEPT ![s] = "sleep"]
  PROVE  Abstract!Next
  <1>1. /\ i \in Nat /\ lastDelivered \in Nat /\ Len(stream) \in Nat
        /\ i \in lastDelivered + 1 .. Len(stream)
    BY ReadableIsNew DEF Entries, Inv, TypeOK
  <1>2. /\ pc[s] = "xreadgroup" /\ lastDelivered' = i
        /\ stream' = stream /\ processed' = processed
    BY DEF Deliver
  <1>3. hand \in [Symbols -> Nat] /\ pc \in [Symbols -> States]
    BY DEF Inv, TypeOK
  <1>4. HeldBy[s] = {} /\ TakenBy' = TakenBy
    BY <1>2 DEF HeldBy, TakenBy
  <1>5. \E some \in SUBSET (lastDelivered + 1 .. i) : HeldBy' = [HeldBy EXCEPT ![s] = some]
    <2>1. CASE hand' = [hand EXCEPT ![s] = i] /\ pc' = [pc EXCEPT ![s] = "process"]
      <3>1. HeldBy' = [HeldBy EXCEPT ![s] = {i}]
        BY <1>3, <2>1 DEF HeldBy
      <3>2. {i} \in SUBSET (lastDelivered + 1 .. i)
        BY <1>1
      <3> QED BY <3>1, <3>2
    <2>2. CASE hand' = hand /\ pc' = [pc EXCEPT ![s] = "sleep"]
      <3>1. HeldBy' = [HeldBy EXCEPT ![s] = {}]
        BY <1>2, <1>3, <2>2 DEF HeldBy
      <3> QED BY <3>1
    <2> QED BY <2>1, <2>2
  <1>6. Abstract!Hand(s, i)
    BY <1>2, <1>4, <1>5 DEF Abstract!Hand, HeldBy, TakenBy
  <1> QED BY <1>1, <1>6 DEF Abstract!Next

\* A predictor takes what it was handed, or drops it as another symbol's.
LEMMA TakesOrDrops ==
  ASSUME Inv, NEW s \in Symbols, Process(s)
  PROVE  Abstract!Next
  <1>1. /\ pc[s] = "process" /\ pc' = [pc EXCEPT ![s] = "xack"] /\ hand' = hand
        /\ stream' = stream /\ lastDelivered' = lastDelivered
    BY DEF Process, GoTo, group
  <1>2. /\ hand[s] \in Entries /\ pc \in [Symbols -> States]
        /\ processed \in [Symbols -> Seq(Entries)]
    BY <1>1 DEF Inv, TypeOK, HandHeld, Entries
  <1>3. HeldBy[s] = {hand[s]} /\ HeldBy' = [HeldBy EXCEPT ![s] = {}]
    BY <1>1, <1>2 DEF HeldBy
  <1>4. CASE processed' = processed
    <2>1. TakenBy' = TakenBy
      BY <1>4 DEF TakenBy
    <2>2. HeldBy' = [c \in Symbols |-> IF c \in {s} THEN {} ELSE HeldBy[c]]
      BY <1>3 DEF HeldBy
    <2>3. Abstract!Drop({s})
      BY <1>1, <2>1, <2>2 DEF Abstract!Drop, HeldBy, TakenBy
    <2> QED BY <2>3 DEF Abstract!Next
  <1>5. CASE processed' = [processed EXCEPT ![s] = Append(@, hand[s])]
    <2> DEFINE p == processed[s]
               q == Append(p, hand[s])
    <2>1. /\ DOMAIN q = 1..(Len(p) + 1) /\ DOMAIN p = 1..Len(p) /\ Len(p) \in Nat
          /\ \A k \in DOMAIN p : q[k] = p[k]
          /\ q[Len(p) + 1] = hand[s]
      BY <1>2
    <2>2. {q[k] : k \in DOMAIN q} = {p[k] : k \in DOMAIN p} \cup {hand[s]}
      <3> HIDE DEF p, q
      <3>1. \A k \in DOMAIN q : k \in DOMAIN p \/ k = Len(p) + 1
        BY <2>1
      <3>2. DOMAIN p \subseteq DOMAIN q /\ Len(p) + 1 \in DOMAIN q
        BY <2>1
      <3> QED BY <2>1, <3>1, <3>2
    <2>3. processed'[s] = q /\ \A t \in Symbols \ {s} : processed'[t] = processed[t]
      BY <1>2, <1>5
    <2>4. TakenBy' = [TakenBy EXCEPT ![s] = @ \cup HeldBy[s]]
      <3> HIDE DEF p, q
      <3>1. TakenBy[s] = {p[k] : k \in DOMAIN p} /\ TakenBy'[s] = {q[k] : k \in DOMAIN q}
        BY <2>3 DEF TakenBy, p
      <3>2. TakenBy'[s] = TakenBy[s] \cup HeldBy[s]
        BY <1>3, <2>2, <3>1
      <3>3. \A t \in Symbols \ {s} : TakenBy'[t] = TakenBy[t]
        BY <2>3 DEF TakenBy
      <3> QED BY <3>2, <3>3 DEF TakenBy
    <2>5. Abstract!Take(s)
      BY <1>1, <1>3, <2>4 DEF Abstract!Take, HeldBy, TakenBy
    <2> QED BY <2>5 DEF Abstract!Next
  <1> QED BY <1>4, <1>5 DEF Process

\* The other steps of a predictor are none of Delivery's.
LEMMA ReadsNothing ==
  ASSUME Inv, NEW s \in Symbols,
         \/ Setup(s) \/ SetupFails(s) \/ Ack(s) \/ AckFails(s) \/ Wake(s)
         \/ ReadFails(s) /\ UNCHANGED <<stream, trimmed, group, processed, restarts>>
  PROVE  DeliveryUnchanged
  <1>1. UNCHANGED <<stream, processed>>
    BY DEF Setup, SetupFails, Ack, AckFails, Wake
  <1>2. lastDelivered' = lastDelivered
    BY DEF Setup, SetupFails, CreateGroup, Ack, AckFails, Wake, Acknowledge, group, StartId, Inv, GroupFirst
  <1>3. /\ pc[s] # "process"
        /\ \E state \in States \ {"process"} : pc' = [pc EXCEPT ![s] = state]
        /\ hand' = hand \/ hand' = [hand EXCEPT ![s] = 0]
    BY DEF Setup, SetupFails, Ack, AckFails, Wake, ReadFails, GoTo, States
  <1>4. \A t \in Symbols \ {s} : hand'[t] = hand[t]
    BY <1>3 DEF Inv, TypeOK
  <1>5. HeldBy' = HeldBy
    BY <1>3, <1>4, SameHeld
  <1>6. TakenBy' = TakenBy
    BY <1>1 DEF TakenBy
  <1> QED BY <1>1, <1>2, <1>5, <1>6 DEF DeliveryUnchanged

LEMMA DeliveryStep == Inv /\ [Next]_vars => [Abstract!Next]_(Abstract!vars)
  <1> SUFFICES ASSUME Inv, [Next]_vars PROVE [Abstract!Next]_(Abstract!vars)
    OBVIOUS
  <1>0. DeliveryUnchanged => [Abstract!Next]_(Abstract!vars)
    BY DEF DeliveryUnchanged, Abstract!vars, HeldBy, TakenBy
  <1>1. CASE UNCHANGED vars
    BY <1>1 DEF vars, group, predictors, Abstract!vars
  <1>2. CASE Publish
    <2>1. PICK s \in Symbols : stream' = Append(stream, s)
      BY <1>2 DEF Publish
    <2>2. Len(stream') = Len(stream) + 1
      BY <2>1 DEF Inv, TypeOK
    <2>3. lastDelivered' = lastDelivered /\ pc' = pc /\ hand' = hand /\ processed' = processed
      BY <1>2 DEF Publish, group, predictors
    <2>4. Abstract!Add
      BY <2>2, <2>3 DEF Abstract!Add
    <2> QED BY <2>4 DEF Abstract!Next
  <1>3. CASE Restart
    <2>1. /\ stream' = stream /\ lastDelivered' = lastDelivered /\ processed' = processed
          /\ pc' = [s \in Symbols |-> "setup"]
      BY <1>3 DEF Restart, group
    <2>2. HeldBy' = [c \in Symbols |-> IF c \in Symbols THEN {} ELSE HeldBy[c]]
      BY <2>1 DEF HeldBy
    <2>3. Abstract!Drop(Symbols)
      BY <2>1, <2>2 DEF Abstract!Drop, HeldBy
    <2> QED BY <2>3 DEF Abstract!Next
  <1>4. ASSUME NEW s \in Symbols, Predictor(s) PROVE [Abstract!Next]_(Abstract!vars)
    <2>1. CASE ReadGroup(s)
      BY <2>1, HandsOut DEF ReadGroup, GoTo
    <2>2. CASE ReadFails(s) /\ \E i \in Readable(s) : Deliver(s, i)
      <3>1. hand' = hand /\ pc' = [pc EXCEPT ![s] = "sleep"]
        BY <2>2 DEF ReadFails, GoTo
      <3>2. PICK i \in Readable(s) : Deliver(s, i)
        BY <2>2
      <3> QED BY <3>1, <3>2, HandsOut
    <2>3. CASE Process(s)
      BY <2>3, TakesOrDrops
    <2>4. CASE \/ Setup(s) \/ SetupFails(s) \/ Ack(s) \/ AckFails(s) \/ Wake(s)
               \/ ReadFails(s) /\ UNCHANGED <<stream, trimmed, group, processed, restarts>>
      BY <1>0, <2>4, ReadsNothing
    <2>5. ReadFails(s) => \/ UNCHANGED <<stream, trimmed, group, processed, restarts>>
                          \/ \E i \in Readable(s) : Deliver(s, i)
      BY DEF ReadFails
    <2> QED BY <1>4, <2>1, <2>2, <2>3, <2>4, <2>5 DEF Predictor
  <1> QED BY <1>1, <1>2, <1>3, <1>4 DEF Next

LEMMA DeliveryInit == Init => Abstract!Init
  BY DEF Init, Abstract!Init

\* The consumer group implements Delivery, whatever calls fail and however often the
\* process is started again.
THEOREM GroupImplementsDelivery == Spec => ImplementsDelivery
  BY DeliveryInit, DeliveryStep, InvAlways, PTL DEF Spec, ImplementsDelivery, Abstract!Spec

-----------------------------------------------------------------------------
(* What Delivery promises.  The cursor is past all that was handed out, so *)
(* what is handed out next was neither held nor taken.                     *)

OncePerEntry ==
  \A c \in Symbols :
    /\ \A d \in Symbols \ {c} : (HeldBy[c] \cup TakenBy[c]) \cap (HeldBy[d] \cup TakenBy[d]) = {}
    /\ \A i \in HeldBy[c], j \in TakenBy[c] : j < i

BehindCursor == \A c \in Symbols : HeldBy[c] \cup TakenBy[c] \subseteq 1..lastDelivered

LEMMA OnceInit == Init => OncePerEntry /\ BehindCursor
  BY DEF Init, OncePerEntry, BehindCursor, HeldBy, TakenBy

LEMMA OnceStep ==
  ASSUME Inv, OncePerEntry, BehindCursor, [Abstract!Next]_(Abstract!vars)
  PROVE  OncePerEntry' /\ BehindCursor'
  <1>0. lastDelivered \in Nat /\ Len(stream) \in Nat
    BY DEF Inv, TypeOK
  <1>1. CASE HeldBy' = HeldBy /\ TakenBy' = TakenBy /\ lastDelivered' = lastDelivered
    BY <1>1 DEF OncePerEntry, BehindCursor
  <1>2. CASE UNCHANGED Abstract!vars
    BY <1>1, <1>2 DEF Abstract!vars, HeldBy, TakenBy
  <1>3. CASE Abstract!Add
    BY <1>1, <1>3 DEF Abstract!Add, HeldBy, TakenBy
  <1>4. ASSUME NEW c \in Symbols, NEW n \in lastDelivered + 1 .. Len(stream), Abstract!Hand(c, n)
        PROVE  OncePerEntry' /\ BehindCursor'
    <2>a. lastDelivered' = n /\ TakenBy' = TakenBy
      BY <1>4 DEF Abstract!Hand, TakenBy
    <2>b. n \in Nat /\ lastDelivered <= n
      BY <1>0
    <2>1. lastDelivered' = n /\ TakenBy' = TakenBy /\ n \in Nat /\ lastDelivered <= n
      BY <2>a, <2>b
    <2>2. PICK some \in SUBSET (lastDelivered + 1 .. n) : HeldBy' = [HeldBy EXCEPT ![c] = some]
      BY <1>4 DEF Abstract!Hand, HeldBy
    <2>3. /\ HeldBy'[c] = some
          /\ \A d \in Symbols \ {c} : HeldBy'[d] = HeldBy[d]
      BY <2>2 DEF HeldBy
    <2>4. \A d \in Symbols : \A j \in HeldBy[d] \cup TakenBy[d] : j \in 1..n /\ j <= lastDelivered
      BY <1>0, <2>1 DEF BehindCursor
    <2>5. \A i \in some : i \in 1..n /\ i > lastDelivered
      BY <1>0, <2>1
    <2>6. BehindCursor'
      BY <2>1, <2>3, <2>4, <2>5 DEF BehindCursor
    <2>7. \A d \in Symbols : some \cap (HeldBy[d] \cup TakenBy[d]) = {}
      BY <1>0, <2>4, <2>5
    <2>8. \A i \in some, j \in TakenBy[c] : j < i
      BY <1>0, <2>4, <2>5
    <2>9. OncePerEntry'
      BY <2>1, <2>3, <2>7, <2>8 DEF OncePerEntry
    <2> QED BY <2>6, <2>9
  <1>5. ASSUME NEW c \in Symbols, Abstract!Take(c)
        PROVE  OncePerEntry' /\ BehindCursor'
    <2>1. /\ lastDelivered' = lastDelivered
          /\ HeldBy' = [HeldBy EXCEPT ![c] = {}]
          /\ TakenBy' = [TakenBy EXCEPT ![c] = @ \cup HeldBy[c]]
      BY <1>5 DEF Abstract!Take, HeldBy, TakenBy
    <2>2. /\ HeldBy'[c] = {} /\ TakenBy'[c] = TakenBy[c] \cup HeldBy[c]
          /\ \A d \in Symbols \ {c} : HeldBy'[d] = HeldBy[d] /\ TakenBy'[d] = TakenBy[d]
      BY <2>1 DEF HeldBy, TakenBy
    <2> QED BY <2>1, <2>2 DEF OncePerEntry, BehindCursor
  <1>6. ASSUME NEW some \in SUBSET Symbols, Abstract!Drop(some)
        PROVE  OncePerEntry' /\ BehindCursor'
    <2>1. lastDelivered' = lastDelivered /\ TakenBy' = TakenBy
      BY <1>6 DEF Abstract!Drop, TakenBy
    <2>2. \A c \in Symbols : HeldBy'[c] \subseteq HeldBy[c]
      BY <1>6 DEF Abstract!Drop, HeldBy
    <2> QED BY <2>1, <2>2 DEF OncePerEntry, BehindCursor
  <1> QED BY <1>2, <1>3, <1>4, <1>5, <1>6 DEF Abstract!Next

\* No entry is handed to two predictors, or again to the one that has taken it, and what
\* one of them holds lies behind all it has taken.
THEOREM NoneHandedTwice == Spec => []Abstract!NoneTwice
  <1>1. Inv /\ OncePerEntry /\ BehindCursor /\ [Next]_vars => OncePerEntry' /\ BehindCursor'
    BY DeliveryStep, OnceStep
  <1>2. OncePerEntry => Abstract!NoneTwice
    BY DEF OncePerEntry, HeldBy, TakenBy, Abstract!NoneTwice
  <1> QED BY <1>1, <1>2, OnceInit, InvAlways, PTL DEF Spec
=============================================================================
