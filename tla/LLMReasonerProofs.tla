------------------------- MODULE LLMReasonerProofs -------------------------
(* Proofs about LLMReasoner: for any streams in any order, any cap, cost of a *)
(* call and number of insights, and without bound on the entries and days.    *)
EXTENDS LLMReasoner, TLAPS

\* The summary's calls only add to _daily_cost, and a reset clears both counts.
SpentIsCounted == docSpent <= dailyCost

\* A document's call was begun below the cap.
BegunBelowCap == consumer = "post" => docSpent < Cap

\* Something is left to publish.
SomeLeft == consumer = "publish" => left > 0

\* No id is filed for a raw stream, and every other one's id follows the reads.
RawAtStart == \A s \in RawSources : lastIds[s] = 0
ReadIsFiled == \A s \in Sources \ RawSources : \A i \in seen[s] : i <= lastIds[s]

MoneyInv == SpentIsCounted /\ BegunBelowCap /\ DocumentsWithinCap
ReadInv  == RawAtStart /\ OnlyOldest /\ ReadIsFiled
IInv     == TypeOK /\ SomeLeft /\ MoneyInv /\ ReadInv

LEMMA InitIInv == Init => IInv
<1> SUFFICES ASSUME Init PROVE IInv
  OBVIOUS
<1> USE ReasonerAssumption DEF Init, NothingRead
<1>1. TypeOK
  BY DEF TypeOK
<1>2. SomeLeft /\ MoneyInv
  BY DEF SomeLeft, MoneyInv, SpentIsCounted, BegunBelowCap, DocumentsWithinCap
<1>3. ReadInv
  BY DEF ReadInv, RawAtStart, OnlyOldest, ReadIsFiled
<1> QED BY <1>1, <1>2, <1>3 DEF IInv

\* Where the consumer goes after a stream.
LEMMA NextSourceLeads ==
  ASSUME TypeOK, NextSource
  PROVE  at' \in 1..Len(Order) /\ consumer' \in {"xread", "sleep"}
<1>1. Len(Order) \in Nat /\ at \in 1..Len(Order)
  BY ReasonerAssumption DEF TypeOK
<1> QED BY <1>1 DEF NextSource

\* What _trigger_llm does before it suspends.
LEMMA TriggerLeads ==
  ASSUME TypeOK, SpentIsCounted, Trigger
  PROVE  /\ resetDate' = today /\ dailyCost' \in Nat /\ docSpent' \in Nat
         /\ docSpent' <= dailyCost' /\ (docSpent' = docSpent \/ docSpent' = 0)
         /\ at' \in 1..Len(Order)
         /\ \/ consumer' \in {"alert", "xread", "sleep"}
            \/ consumer' = "post" /\ docSpent' < Cap
<1>1. /\ dailyCost' = CostSeen /\ CostSeen \in Nat /\ docSpent' \in Nat
      /\ docSpent' <= dailyCost' /\ (docSpent' = docSpent \/ docSpent' = 0)
  BY DEF TypeOK, SpentIsCounted, Trigger, CostSeen
<1>2. CASE Capped /\ consumer' = "alert" /\ UNCHANGED at
  BY <1>1, <1>2 DEF Trigger, TypeOK
<1>3. CASE ~Capped /\ running /\ consumer' = "post" /\ UNCHANGED at
  <2>1. CostSeen < Cap
    BY <1>1, <1>3, ReasonerAssumption DEF Capped
  <2>2. docSpent' < Cap
    BY <1>1, <2>1, ReasonerAssumption
  <2> QED BY <1>1, <1>3, <2>2 DEF Trigger, TypeOK
<1>4. CASE ~Capped /\ ~running /\ NextSource
  BY <1>1, <1>4, NextSourceLeads DEF Trigger
<1> QED BY <1>2, <1>3, <1>4 DEF Trigger

\* A read of s, whichever way it goes.
LEMMA ReadsStep ==
  ASSUME IInv, NEW s \in Sources, Reads(s)
  PROVE  IInv'
<1> DEFINE i == NextEntry(s)
<1>t. TypeOK /\ SpentIsCounted /\ DocumentsWithinCap
  BY DEF IInv, MoneyInv
<1>i. i \in Nat /\ i > lastIds[s] /\ i > 0
  BY <1>t DEF NextEntry, TypeOK
<1>u. UNCHANGED <<redis, clock, left, summary>>
  BY DEF Reads
<1>1. /\ resetDate' \in Nat /\ dailyCost' \in Nat /\ docSpent' \in Nat
      /\ docSpent' <= dailyCost' /\ (docSpent' = docSpent \/ docSpent' = 0)
      /\ at' \in 1..Len(Order)
      /\ \/ consumer' \in {"alert", "xread", "sleep"}
         \/ consumer' = "post" /\ docSpent' < Cap
  <2>1. CASE streams[s][i]
    <3>1. Trigger
      BY <2>1 DEF Reads
    <3> QED BY <1>t, <3>1, TriggerLeads DEF TypeOK
  <2>2. CASE ~streams[s][i]
    <3>1. NextSource /\ UNCHANGED spending
      BY <2>2 DEF Reads
    <3> QED BY <1>t, <3>1, NextSourceLeads DEF TypeOK, SpentIsCounted, spending
  <2> QED BY <2>1, <2>2
<1>2. lastIds' = Filed(s, i) /\ seen' = [seen EXCEPT ![s] = @ \cup {i}]
  BY DEF Reads
<1>3. lastIds' \in [Sources -> Nat] /\ seen' \in [Sources -> SUBSET Nat]
  BY <1>2, <1>i, <1>t DEF Filed, TypeOK
<1>4. TypeOK'
  BY <1>1, <1>3, <1>t, <1>u DEF TypeOK, redis, clock
<1>5. SomeLeft'
  BY <1>1 DEF SomeLeft
<1>6. MoneyInv'
  <2>1. DocumentsWithinCap'
    BY <1>t, <1>1, ReasonerAssumption DEF DocumentsWithinCap
  <2> QED BY <1>1, <2>1 DEF MoneyInv, SpentIsCounted, BegunBelowCap
<1>7. ReadInv'
  <2>0. trimmed' = trimmed /\ ReadInv
    BY <1>u DEF redis, IInv
  <2>1. RawAtStart'
    BY <1>2, <2>0, <1>t, ReasonerAssumption
    DEF ReadInv, RawAtStart, Filed, TypeOK
  <2>2. OnlyOldest'
    <3>1. SUFFICES ASSUME NEW r \in RawSources, NEW j \in seen'[r]
                   PROVE  j <= trimmed[r] + 1
      BY <2>0 DEF OnlyOldest
    <3>2. r \in Sources
      BY ReasonerAssumption
    <3>3. CASE r = s /\ j = i
      <4>1. lastIds[s] = 0
        BY <2>0, <3>3 DEF ReadInv, RawAtStart
      <4> QED BY <3>3, <4>1, <1>t DEF NextEntry, TypeOK
    <3>4. CASE ~(r = s /\ j = i)
      <4>1. j \in seen[r]
        BY <3>4, <3>2, <1>2, <1>t DEF TypeOK
      <4> QED BY <4>1, <2>0 DEF ReadInv, OnlyOldest
    <3> QED BY <3>3, <3>4
  <2>3. ReadIsFiled'
    <3>1. SUFFICES ASSUME NEW r \in Sources \ RawSources, NEW j \in seen'[r]
                   PROVE  j <= lastIds'[r]
      BY DEF ReadIsFiled
    <3>2. CASE r = s
      <4>1. lastIds'[s] = i
        BY <3>2, <1>2, <1>t DEF Filed, TypeOK
      <4>2. CASE j = i
        BY <3>2, <4>1, <4>2, <1>i
      <4>3. CASE j # i
        <5>1. j \in seen[s] /\ j \in Nat
          BY <3>1, <3>2, <4>3, <1>2, <1>t DEF TypeOK
        <5>2. j <= lastIds[s]
          BY <3>2, <5>1, <2>0 DEF ReadInv, ReadIsFiled
        <5> QED BY <3>2, <4>1, <5>1, <5>2, <1>i, <1>t DEF TypeOK
      <4> QED BY <4>2, <4>3
    <3>3. CASE r # s
      <4>1. j \in seen[r] /\ lastIds'[r] = lastIds[r]
        BY <3>3, <1>2, <1>t DEF Filed, TypeOK
      <4> QED BY <4>1, <2>0 DEF ReadInv, ReadIsFiled
    <3> QED BY <3>2, <3>3
  <2> QED BY <2>1, <2>2, <2>3 DEF ReadInv
<1> QED BY <1>4, <1>5, <1>6, <1>7 DEF IInv

\* The other steps of the consumer leave what was read alone.
LEMMA StepIInv == IInv /\ [Next]_vars => IInv'
<1> SUFFICES ASSUME IInv, [Next]_vars PROVE IInv'
  OBVIOUS
<1>t. TypeOK /\ SomeLeft /\ MoneyInv /\ ReadInv
  BY DEF IInv
<1>r. ASSUME UNCHANGED <<trimmed, reading>> PROVE ReadInv'
  BY <1>t, <1>r DEF ReadInv, RawAtStart, OnlyOldest, ReadIsFiled, reading
<1>m. ASSUME UNCHANGED <<spending, consumer>> PROVE MoneyInv'
  BY <1>t, <1>m
  DEF MoneyInv, SpentIsCounted, BegunBelowCap, DocumentsWithinCap, spending
<1>n. ASSUME UNCHANGED spending, consumer' # "post" PROVE MoneyInv'
  BY <1>t, <1>n
  DEF MoneyInv, SpentIsCounted, BegunBelowCap, DocumentsWithinCap, spending
<1>1. CASE \E s \in Sources : Produce(s)
  <2>1. PICK s \in Sources : Produce(s)
    BY <1>1
  <2>2. /\ UNCHANGED <<clock, spending, reading, place, summary>>
        /\ streams' \in [Sources -> Seq(BOOLEAN)]
    BY <2>1, <1>t DEF Produce, TypeOK
  <2>3. PICK t \in trimmed[s]..Len(streams[s]) : trimmed' = [trimmed EXCEPT ![s] = t]
    BY <2>1 DEF Produce
  <2>4. /\ trimmed[s] \in Nat /\ t \in Nat /\ t >= trimmed[s]
        /\ trimmed' \in [Sources -> Nat]
    <3>1. trimmed[s] \in Nat /\ Len(streams[s]) \in Nat
      BY <1>t DEF TypeOK
    <3> QED BY <3>1, <2>3, <1>t DEF TypeOK
  <2>5. TypeOK'
    BY <2>2, <2>4, <1>t DEF TypeOK, clock, spending, reading, place
  <2>6. SomeLeft' /\ MoneyInv'
    BY <2>2, <1>m, <1>t DEF SomeLeft, place
  <2>7. OnlyOldest'
    <3>1. \A r \in Sources : trimmed'[r] \in Nat /\ trimmed[r] \in Nat /\ trimmed'[r] >= trimmed[r]
      BY <2>3, <2>4, <1>t DEF TypeOK
    <3>2. SUFFICES ASSUME NEW r \in RawSources, NEW j \in seen[r]
                   PROVE  j <= trimmed'[r] + 1
      BY <2>2 DEF OnlyOldest, reading
    <3>3. r \in Sources /\ j \in Nat
      BY <1>t, ReasonerAssumption DEF TypeOK
    <3>4. j <= trimmed[r] + 1
      BY <1>t DEF ReadInv, OnlyOldest
    <3> QED BY <3>1, <3>3, <3>4
  <2>8. RawAtStart' /\ ReadIsFiled'
    BY <2>2, <1>t DEF ReadInv, RawAtStart, ReadIsFiled, reading
  <2> QED BY <2>5, <2>6, <2>7, <2>8 DEF IInv, ReadInv
<1>2. CASE Midnight \/ Stop
  <2>0. today' \in Nat /\ running' \in BOOLEAN
    <3>1. CASE Midnight
      BY <3>1, <1>t DEF TypeOK, Midnight
    <3>2. CASE Stop
      BY <3>2, <1>t DEF TypeOK, Stop
    <3> QED BY <1>2, <3>1, <3>2
  <2>1. TypeOK'
    BY <2>0, <1>2, <1>t DEF TypeOK, Midnight, Stop, redis, spending, reading, place
  <2> QED BY <2>1, <1>2, <1>t, <1>m, <1>r
      DEF IInv, Midnight, Stop, SomeLeft, redis, place
<1>3. CASE \E s \in Sources : Reads(s)
  BY <1>3, ReadsStep
<1>4. CASE ReadsNothing
  <2>1. consumer' # "post" /\ consumer' # "publish" /\ TypeOK'
    BY <1>4, <1>t, NextSourceLeads
    DEF TypeOK, ReadsNothing, redis, clock, spending, reading
  <2> QED BY <2>1, <1>4, <1>t, <1>n, <1>r DEF IInv, ReadsNothing, SomeLeft, redis
<1>5. CASE Answer
  <2>1. PICK c \in Costs : dailyCost' = dailyCost + c /\ docSpent' = docSpent + c
    BY <1>5 DEF Answer
  <2>2. c \in Nat /\ c <= CallCost /\ docSpent < Cap /\ docSpent <= dailyCost
    BY <1>5, <2>1, <1>t, ReasonerAssumption
    DEF Costs, Answer, MoneyInv, SpentIsCounted, BegunBelowCap
  <2>3. left' \in 0..MaxInsights /\ left' \in Nat
    BY <1>5, ReasonerAssumption DEF Answer
  <2>4. /\ at' \in 1..Len(Order)
        /\ \/ consumer' \in {"xread", "sleep"}
           \/ consumer' = "publish" /\ left' # 0
    BY <1>5, <1>t, NextSourceLeads DEF Answer, TypeOK
  <2>5. TypeOK'
    BY <1>5, <2>1, <2>2, <2>3, <2>4, <1>t DEF TypeOK, Answer, redis, clock, reading
  <2>6. SomeLeft'
    BY <2>3, <2>4 DEF SomeLeft
  <2>7. MoneyInv'
    <3>1. docSpent \in Nat /\ dailyCost \in Nat /\ Cap \in Nat /\ CallCost \in Nat
      BY <1>t, ReasonerAssumption DEF TypeOK
    <3>2. docSpent' <= dailyCost' /\ docSpent' < Cap + CallCost
      BY <2>1, <2>2, <3>1
    <3> QED BY <2>4, <3>2
        DEF MoneyInv, SpentIsCounted, BegunBelowCap, DocumentsWithinCap
  <2> QED BY <1>5, <2>5, <2>6, <2>7, <1>r DEF IInv, Answer, redis
<1>6. CASE PublishInsight
  <2>1. left \in Nat /\ left > 0 /\ left' \in {left - 1, 0}
    BY <1>6, <1>t DEF PublishInsight, SomeLeft, TypeOK
  <2>2. left' \in Nat
    BY <2>1
  <2>3. /\ at' \in 1..Len(Order)
        /\ \/ consumer' \in {"xread", "sleep"}
           \/ consumer' = "publish" /\ left' # 0
    BY <1>6, <1>t, NextSourceLeads DEF PublishInsight, TypeOK
  <2>4. TypeOK'
    BY <1>6, <2>2, <2>3, <1>t
    DEF TypeOK, PublishInsight, redis, clock, spending, reading
  <2>5. SomeLeft'
    BY <2>2, <2>3 DEF SomeLeft
  <2> QED BY <1>6, <2>3, <2>4, <2>5, <1>n, <1>r DEF IInv, PublishInsight, redis
<1>7. CASE Alerted
  <2>1. consumer' # "post" /\ consumer' # "publish" /\ TypeOK'
    BY <1>7, <1>t, NextSourceLeads
    DEF TypeOK, Alerted, redis, clock, spending, reading
  <2> QED BY <2>1, <1>7, <1>t, <1>n, <1>r DEF IInv, Alerted, SomeLeft, redis
<1>8. CASE ConsumerWakes
  <2>1. consumer' # "post" /\ consumer' # "publish" /\ TypeOK'
    BY <1>8, <1>t DEF TypeOK, ConsumerWakes, redis, clock, spending, reading
  <2> QED BY <2>1, <1>8, <1>t, <1>n, <1>r DEF IInv, ConsumerWakes, SomeLeft, redis
<1>9. CASE SummaryAnswer
  <2>1. PICK c \in Costs : dailyCost' = dailyCost + c
    BY <1>9 DEF SummaryAnswer
  <2>2. c \in Nat
    BY <2>1, ReasonerAssumption DEF Costs
  <2>3. TypeOK'
    BY <1>9, <2>1, <2>2, <1>t DEF TypeOK, SummaryAnswer, redis, clock, reading, place
  <2>4. MoneyInv'
    BY <1>9, <2>1, <2>2, <1>t
    DEF TypeOK, MoneyInv, SpentIsCounted, BegunBelowCap, DocumentsWithinCap,
        SummaryAnswer, place
  <2> QED BY <1>9, <2>3, <2>4, <1>t, <1>r DEF IInv, SummaryAnswer, SomeLeft, redis, place
<1>10. CASE SummaryInputs \/ SummarySet \/ SummaryWakes
  <2>1. UNCHANGED <<redis, clock, spending, reading, place>>
    BY <1>10 DEF SummaryInputs, SummarySet, SummaryWakes
  <2>2. summary' \in {"latest", "post", "set", "sleep", "done"}
    BY <1>10 DEF SummaryInputs, SummarySet, SummaryWakes
  <2>3. TypeOK'
    BY <2>1, <2>2, <1>t DEF TypeOK, redis, clock, spending, reading, place
  <2> QED BY <2>1, <2>3, <1>t, <1>m, <1>r DEF IInv, SomeLeft, redis, place
<1>11. CASE UNCHANGED vars
  <2>1. TypeOK'
    BY <1>11, <1>t DEF TypeOK, vars, redis, clock, spending, reading, place
  <2> QED BY <2>1, <1>11, <1>t, <1>m, <1>r DEF IInv, SomeLeft, vars, redis, place
<1> QED BY <1>1, <1>2, <1>3, <1>4, <1>5, <1>6, <1>7, <1>8, <1>9, <1>10, <1>11
    DEF Next, Consumer, Summary

LEMMA Inductive == Spec => []IInv
BY InitIInv, StepIInv, PTL DEF Spec

\* The variables keep their types; in particular the consumer never leaves the
\* list of its streams (reasoners.py:107-121).
THEOREM TypeCorrect == Spec => []TypeOK
BY Inductive, PTL DEF IInv

\* A day's documents exceed the cap by less than one call, whatever the summary
\* generator spends meanwhile (reasoners.py:238-270 and 301-307).
THEOREM DocumentsStayWithinCap == Spec => []DocumentsWithinCap
BY Inductive, PTL DEF IInv, MoneyInv

\* The shadowed loop variable: a raw stream is never read beyond its oldest entry
\* (reasoners.py:129-143).
THEOREM RawStreamsStickToTheOldest == Spec => []OnlyOldest
BY Inductive, PTL DEF IInv, ReadInv

\* The other streams' entries are read once each (reasoners.py:167-236).
THEOREM NothingIsReadAgain == Spec => []NoneAgain
<1>1. IInv => NoneAgain
  <2> SUFFICES ASSUME IInv, NEW s \in Sources \ RawSources PROVE NextEntry(s) \notin seen[s]
    BY DEF NoneAgain
  <2>1. NextEntry(s) \in Nat /\ NextEntry(s) > lastIds[s] /\ lastIds[s] \in Nat
    BY DEF IInv, TypeOK, NextEntry
  <2>2. \A j \in seen[s] : j \in Nat /\ j <= lastIds[s]
    BY DEF IInv, TypeOK, ReadInv, ReadIsFiled
  <2> QED BY <2>1, <2>2
<1> QED BY <1>1, Inductive, PTL
=============================================================================
