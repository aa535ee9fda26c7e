----------------------------- MODULE CoreProofs -----------------------------
(***************************************************************************)
(* What runs beside everything else: the circuit breaker, for every number *)
(* of callers and every configuration, and the life of the process with    *)
(* its pipeline and its database worker, for every length of the stream,   *)
(* the queue and the batch and every number of signals and migrations.     *)
(***************************************************************************)
EXTENDS CircuitBreaker, Lifecycle, FiniteSetTheorems, SequenceTheorems, TLAPS

-----------------------------------------------------------------------------
(* The circuit breaker.                                                    *)

\* The inductive invariant.  ProbesOnlyHalfOpen is the strengthening that
\* SlotsAccounted needs: a half-open period begins with no probe in flight.
BreakerInv ==
  /\ BreakerTypeOK
  /\ ProbesOnlyHalfOpen
  /\ SlotsAccounted
  /\ CooledDown
  /\ ClosedBelowThreshold

-----------------------------------------------------------------------------
\* The set of probes is finite, and a caller joining or leaving it changes its
\* size by one (call, half-open admission).
LEMMA ProbeCount ==
  /\ IsFiniteSet(Probes)
  /\ Cardinality(Probes) \in Nat
  /\ \A c \in Callers :
       /\ c \notin Probes => Cardinality(Probes \cup {c}) = Cardinality(Probes) + 1
       /\ c \in Probes => Cardinality(Probes \ {c}) = Cardinality(Probes) - 1
<1>1. Probes \subseteq Callers
  BY DEF Probes
<1>2. IsFiniteSet(Probes)
  BY <1>1, BreakerAssumption, FS_Subset
<1>3. Cardinality(Probes) \in Nat
  BY <1>2, FS_CardinalityType
<1>4. QED
  BY <1>2, <1>3, FS_AddElement, FS_RemoveElement

\* Recording a failure and cleaning the old ones keeps the failure list a
\* finite set of timestamps (_on_failure).
LEMMA RecordedType ==
  ASSUME BreakerTypeOK
  PROVE  LET recorded == CleanOldFailures(RecordFailure(failures)) IN
         recorded \in SUBSET (Times \X Nat) /\ IsFiniteSet(recorded)
<1>1. DEFINE same == {e \in failures : e[1] = now}
<1>2. IsFiniteSet(same) /\ Cardinality(same) \in Nat
  BY FS_Subset, FS_CardinalityType DEF BreakerTypeOK
<1>3. <<now, Cardinality(same) + 1>> \in Times \X Nat
  BY <1>2 DEF BreakerTypeOK
<1>4. /\ RecordFailure(failures) \in SUBSET (Times \X Nat)
      /\ IsFiniteSet(RecordFailure(failures))
  <2>1. RecordFailure(failures) = failures \cup {<<now, Cardinality(same) + 1>>}
    BY DEF RecordFailure
  <2> HIDE DEF same
  <2>2. RecordFailure(failures) \in SUBSET (Times \X Nat)
    BY <1>3, <2>1 DEF BreakerTypeOK
  <2>3. IsFiniteSet(failures)
    BY DEF BreakerTypeOK
  <2>4. \A x : IsFiniteSet(failures \cup {x})
    BY <2>3, FS_AddElement
  <2>5. QED
    BY <2>1, <2>2, <2>4
<1>5. CleanOldFailures(RecordFailure(failures)) \subseteq RecordFailure(failures)
  BY DEF CleanOldFailures
<1>6. QED
  BY <1>4, <1>5, FS_Subset

-----------------------------------------------------------------------------
\* A fresh breaker satisfies the invariant (CircuitBreaker.__init__).
LEMMA BreakerInitInv == BreakerInit => BreakerInv
<1> SUFFICES ASSUME BreakerInit PROVE BreakerInv
  OBVIOUS
<1>1. BreakerTypeOK
  BY BreakerAssumption, FS_EmptySet DEF BreakerInit, BreakerTypeOK, Times, CircuitState
<1>2. ProbesOnlyHalfOpen /\ SlotsAccounted /\ CooledDown
  BY DEF BreakerInit, ProbesOnlyHalfOpen, SlotsAccounted, CooledDown, Probes
<1>3. ClosedBelowThreshold
  BY BreakerAssumption, FS_EmptySet DEF BreakerInit, ClosedBelowThreshold
<1>4. QED
  BY <1>1, <1>2, <1>3 DEF BreakerInv

\* Admitting a call (the first locked section of call).
LEMMA AdmitInv ==
  ASSUME BreakerInv, NEW c \in Callers, Admit(c)
  PROVE  BreakerInv'
<1> USE DEF BreakerInv
<1>1. BreakerTypeOK'
  BY BreakerAssumption DEF BreakerTypeOK, Admit, StateSeen, CallsSeen, CircuitState
<1>2. ProbesOnlyHalfOpen'
  <2>1. CASE StateSeen = "half_open"
    BY <2>1 DEF Admit, ProbesOnlyHalfOpen
  <2>2. CASE StateSeen # "half_open"
    <3>1. state' = state /\ state # "half_open" /\ lost' = lost
      BY <2>2 DEF Admit, StateSeen, WaitElapsed, BreakerTypeOK
    <3>2. Probes' = Probes
      BY <2>2, <3>1 DEF Admit, Probes, BreakerTypeOK, ProbesOnlyHalfOpen
    <3>3. QED
      BY <3>1, <3>2 DEF ProbesOnlyHalfOpen
  <2>3. QED
    BY <2>1, <2>2
<1>3. SlotsAccounted'
  <2> SUFFICES ASSUME StateSeen = "half_open" PROVE SlotsAccounted'
    BY DEF Admit, SlotsAccounted
  <2>1. c \notin Probes /\ Probes' = Probes \cup {c}
    BY DEF Admit, InFlight, Probes, BreakerTypeOK
  <2>2. Cardinality(Probes') = Cardinality(Probes) + 1
    BY <2>1, ProbeCount
  <2>3. halfOpenCalls' = CallsSeen + 1 /\ CallsSeen + 1 <= HalfOpenMaxCalls
    BY BreakerAssumption DEF Admit, Admits, CallsSeen, BreakerTypeOK
  <2>4. CASE WaitElapsed
    <3>1. Cardinality(Probes) = 0 /\ lost' = 0 /\ CallsSeen = 0
      BY <2>4, FS_EmptySet DEF WaitElapsed, ProbesOnlyHalfOpen, Admit, CallsSeen
    <3>2. QED
      BY <3>1, <2>2, <2>3 DEF SlotsAccounted
  <2>5. CASE ~WaitElapsed
    <3>1. state = "half_open" /\ lost' = lost /\ CallsSeen = halfOpenCalls
      BY <2>5 DEF StateSeen, Admit, CallsSeen
    <3>2. QED
      BY <3>1, <2>2, <2>3, ProbeCount DEF SlotsAccounted, BreakerTypeOK
  <2>6. QED
    BY <2>4, <2>5
<1>4. CooledDown'
  BY DEF CooledDown, Admit, StateSeen, WaitElapsed, BreakerTypeOK
<1>5. ClosedBelowThreshold'
  BY DEF ClosedBelowThreshold, Admit, StateSeen
<1>6. QED
  BY <1>1, <1>2, <1>3, <1>4, <1>5

\* Rejecting a call changes nothing but the caller.
LEMMA RejectInv ==
  ASSUME BreakerInv, NEW c \in Callers, Reject(c)
  PROVE  BreakerInv'
<1>1. Probes' = Probes
  BY DEF Reject, InFlight, Probes, BreakerInv, BreakerTypeOK
<1>2. BreakerTypeOK'
  BY DEF BreakerInv, BreakerTypeOK, Reject
<1>3. QED
  BY <1>1, <1>2 DEF BreakerInv, Reject, ProbesOnlyHalfOpen, SlotsAccounted,
                    CooledDown, ClosedBelowThreshold

\* A result that does not end a half-open period takes at most the caller out
\* of flight: outside such a period there is no probe to account for.
LEMMA NoProbesAfter ==
  ASSUME BreakerTypeOK, NEW c \in Callers, pc' = PeriodOver(c)
  PROVE  Probes' = {} /\ pc' \in [Callers -> {"idle", "rejected", "call", "probe"}]
BY DEF PeriodOver, Probes, BreakerTypeOK

\* Recording a success (_on_success).
LEMMA SucceedInv ==
  ASSUME BreakerInv, NEW c \in Callers, Succeed(c)
  PROVE  BreakerInv'
<1> USE DEF BreakerInv
<1>1. CASE state = "half_open"
  <2>1. BreakerTypeOK'
    BY <1>1, NoProbesAfter, FS_EmptySet DEF Succeed, BreakerTypeOK, CircuitState
  <2>2. ProbesOnlyHalfOpen' /\ SlotsAccounted' /\ CooledDown'
    BY <1>1, NoProbesAfter
       DEF Succeed, ProbesOnlyHalfOpen, SlotsAccounted, CooledDown
  <2>3. ClosedBelowThreshold'
    BY <1>1, BreakerAssumption, FS_EmptySet DEF Succeed, ClosedBelowThreshold
  <2>4. QED
    BY <2>1, <2>2, <2>3
<1>2. CASE state # "half_open"
  <2>1. BreakerTypeOK'
    BY <1>2 DEF Succeed, BreakerTypeOK
  <2>2. Probes' = {}
    BY <1>2 DEF Succeed, Probes, ProbesOnlyHalfOpen, BreakerTypeOK
  <2>3. QED
    BY <1>2, <2>1, <2>2 DEF Succeed, ProbesOnlyHalfOpen, SlotsAccounted,
                            CooledDown, ClosedBelowThreshold
<1>3. QED
  BY <1>1, <1>2

\* Recording a failure (_on_failure).
LEMMA FailInv ==
  ASSUME BreakerInv, NEW c \in Callers, Fail(c)
  PROVE  BreakerInv'
<1> USE DEF BreakerInv
<1> DEFINE recorded == CleanOldFailures(RecordFailure(failures))
<1>1. failures' = recorded /\ recorded \in SUBSET (Times \X Nat) /\ IsFiniteSet(recorded)
  BY RecordedType DEF Fail
<1>2. Cardinality(recorded) \in Nat
  BY <1>1, FS_CardinalityType
<1> HIDE DEF recorded
<1>3. \/ /\ Trips(recorded) /\ state' = "open" /\ lastOpened' = now
      \/ ~Trips(recorded) /\ state' = state /\ lastOpened' = lastOpened
  BY DEF Fail, recorded
<1>4. Probes' = {} /\ lost' = 0
  <2>1. CASE state = "half_open"
    BY <2>1, <1>3, NoProbesAfter DEF Fail, Trips
  <2>2. CASE state # "half_open"
    BY <2>2 DEF Fail, Probes, ProbesOnlyHalfOpen, BreakerTypeOK
  <2>3. QED
    BY <2>1, <2>2
<1>5. BreakerTypeOK'
  <2>1. pc' \in [Callers -> {"idle", "rejected", "call", "probe"}]
    BY NoProbesAfter DEF Fail, BreakerTypeOK
  <2>2. QED
    BY <1>1, <1>3, <1>4, <2>1 DEF Fail, BreakerTypeOK, CircuitState, Times
<1>6. state' # "half_open"
  BY <1>3 DEF Trips
<1>7. CooledDown'
  BY <1>3 DEF CooledDown, Fail, BreakerTypeOK, Times
<1>8. ClosedBelowThreshold'
  BY <1>1, <1>2, <1>3, BreakerAssumption DEF ClosedBelowThreshold, Trips, ThresholdReached
<1>9. QED
  BY <1>4, <1>5, <1>6, <1>7, <1>8 DEF ProbesOnlyHalfOpen, SlotsAccounted

\* Cancelling a caller: a cancelled probe moves from Probes to lost.
LEMMA CancelInv ==
  ASSUME BreakerInv, NEW c \in Callers, Cancel(c)
  PROVE  BreakerInv'
<1> USE DEF BreakerInv
<1>1. BreakerTypeOK'
  BY DEF Cancel, BreakerTypeOK
<1>2. Probes' = Probes \ {c}
  BY DEF Cancel, Probes, BreakerTypeOK
<1>3. CASE c \in Probes
  <2>1. Cardinality(Probes') = Cardinality(Probes) - 1 /\ lost' = lost + 1
    BY <1>2, <1>3, ProbeCount DEF Cancel, Probes
  <2>2. SlotsAccounted'
    BY <2>1, ProbeCount DEF SlotsAccounted, Cancel, BreakerTypeOK
  <2>3. QED
    BY <1>1, <1>2, <1>3, <2>2
       DEF Cancel, ProbesOnlyHalfOpen, CooledDown, ClosedBelowThreshold
<1>4. CASE c \notin Probes
  <2>1. Probes' = Probes /\ lost' = lost
    BY <1>2, <1>4 DEF Cancel, Probes
  <2>2. QED
    BY <1>1, <2>1 DEF Cancel, ProbesOnlyHalfOpen, SlotsAccounted,
                      CooledDown, ClosedBelowThreshold
<1>5. QED
  BY <1>3, <1>4

\* The clock only moves forward.
LEMMA TickInv ==
  ASSUME BreakerInv, Tick
  PROVE  BreakerInv'
<1>1. BreakerTypeOK'
  BY BreakerAssumption DEF BreakerInv, BreakerTypeOK, Tick, Times
<1>2. Probes' = Probes
  BY DEF Tick, Probes
<1>3. CooledDown'
  BY BreakerAssumption DEF BreakerInv, BreakerTypeOK, Tick, CooledDown, Times
<1>4. QED
  BY <1>1, <1>2, <1>3 DEF BreakerInv, Tick, ProbesOnlyHalfOpen, SlotsAccounted, ClosedBelowThreshold

\* Every step of the breaker preserves the invariant.
LEMMA BreakerNextInv == BreakerInv /\ [BreakerNext]_breakerVars => BreakerInv'
<1> SUFFICES ASSUME BreakerInv, [BreakerNext]_breakerVars PROVE BreakerInv'
  OBVIOUS
<1>1. CASE UNCHANGED breakerVars
  <2>1. Probes' = Probes
    BY <1>1 DEF breakerVars, Probes
  <2>2. QED
    BY <1>1, <2>1 DEF breakerVars, BreakerInv, BreakerTypeOK, ProbesOnlyHalfOpen, SlotsAccounted,
                      CooledDown, ClosedBelowThreshold
<1>2. CASE BreakerNext
  BY <1>2, TickInv, AdmitInv, RejectInv, SucceedInv, FailInv, CancelInv
     DEF BreakerNext, Call, Return
<1>3. QED
  BY <1>1, <1>2

\* The invariant of every reachable state of the breaker.
LEMMA BreakerInvariance == BreakerSpec => []BreakerInv
  BY BreakerInitInv, BreakerNextInv, PTL DEF BreakerSpec

-----------------------------------------------------------------------------
\* Type correctness.
THEOREM BreakerTypeCorrect == BreakerSpec => []BreakerTypeOK
<1>1. BreakerInv => BreakerTypeOK
  BY DEF BreakerInv
<1>2. QED
  BY <1>1, BreakerInvariance, PTL

\* At every moment of a half-open period the taken slots are the probes in
\* flight and the cancelled ones, at most half_open_max_calls (call).
THEOREM SlotsAreAccounted == BreakerSpec => []SlotsAccounted
<1>1. BreakerInv => SlotsAccounted
  BY DEF BreakerInv
<1>2. QED
  BY <1>1, BreakerInvariance, PTL

\* A circuit that has opened lets nothing through for wait_seconds, for any
\* number of late results (_check_state_transition, _on_success, _on_failure).
THEOREM CoolsDown == BreakerSpec => []CooledDown
<1>1. BreakerInv => CooledDown
  BY DEF BreakerInv
<1>2. QED
  BY <1>1, BreakerInvariance, PTL

\* A closed circuit never holds failure_threshold recorded failures.
THEOREM ClosedIsBelowThreshold == BreakerSpec => []ClosedBelowThreshold
<1>1. BreakerInv => ClosedBelowThreshold
  BY DEF BreakerInv
<1>2. QED
  BY <1>1, BreakerInvariance, PTL

\* A breaker whose half-open slots were all lost to cancelled probes is stuck:
\* no step of any caller, and no passage of time, leaves that state.
THEOREM WedgedIsForever == BreakerSpec => WedgedForever
<1>1. ASSUME BreakerTypeOK, [BreakerNext]_breakerVars, Wedged PROVE Wedged'
  <2>1. ~Admits /\ ~WaitElapsed
    BY <1>1, BreakerAssumption DEF Wedged, Admits, StateSeen, CallsSeen, WaitElapsed, BreakerTypeOK
  <2>2. CASE Tick
    BY <1>1, <2>2 DEF Tick, Wedged, InFlight
  <2>3. ASSUME NEW c \in Callers, Call(c) PROVE Wedged'
    BY <1>1, <2>1, <2>3 DEF Call, Admit, Reject, Wedged, InFlight, BreakerTypeOK
  <2>4. ASSUME NEW c \in Callers, Return(c) PROVE FALSE
    BY <1>1, <2>4 DEF Return, Succeed, Fail, Cancel, Wedged
  <2>5. CASE UNCHANGED breakerVars
    BY <1>1, <2>5 DEF breakerVars, Wedged, InFlight
  <2>6. QED
    BY <1>1, <2>2, <2>3, <2>4, <2>5 DEF BreakerNext
<1>2. BreakerTypeOK /\ [BreakerNext]_breakerVars => [Wedged => Wedged']_breakerVars
  BY <1>1
<1>3. QED
  BY <1>2, BreakerTypeCorrect, PTL DEF BreakerSpec, WedgedForever

-----------------------------------------------------------------------------
(* The process: the parts of its invariant.                               *)

\* What the batch of the worker is like, by what the worker awaits.
BatchShape ==
  /\ worker \in {"none", "get"} => batch = <<>>
  /\ worker = "taken" => Len(batch) = 1
  /\ worker = "execute" => batch # <<>>

\* The writes made are those of the entries read, and the refused among them.
Counted == made <= ChunksMax * cursor /\ refused \subseteq 1..made

\* What is cancelled has not met it yet.
CancelledLive == cancelled \subseteq Alive

LoaderInv == LoaderTypeOK /\ BatchShape /\ Counted /\ CancelledLive /\ WritesInOrder

\* The process as it was made: nothing runs before its start step has returned.
StartInv ==
  /\ phase \in Starting => ~running /\ code = 0 /\ \A k \in Tasks : stop[k] = "none"
  /\ phase \in Starting \ {"system"} => worker = "none" /\ task = "none"
  /\ phase \in (Starting \ {"database"}) => "database" \in up
  /\ code = 1 => phase \in {"cancelling", "exited"} /\ ~running
                   /\ \A k \in Tasks : stop[k] = "none"

\* What stop() does not wait for is there from its beginning to the end of the process.
UnheededInv ==
  /\ phase \in Starting \ {"database", "client"} => "configClient" \in up
  /\ phase \in Starting \ {"database", "client", "redis", "cache"} => "cacheClient" \in up
  /\ phase = "system" => "predictors" \in up
  /\ phase \in {"loop", "cancelling"} /\ code = 0 => Unheeded \subseteq up
  /\ phase = "exited" => up \subseteq {"dashboard"}

\* The parts a stop task is through with, by what it awaits.
Stopped(w) ==
  CASE w = "monitor" -> {"manager"}
    [] w = "sockets" -> {"manager", "monitor"}
    [] w = "ingestors" -> {"manager", "monitor", "sockets"}
    [] w \in {"pipeline", "loader"} -> {"manager", "monitor", "sockets", "ingestors"}
    [] w = "database" -> {"manager", "monitor", "sockets", "ingestors", "dashboard"}
    [] w = "redis" -> {"manager", "monitor", "sockets", "ingestors", "dashboard", "database"}
    [] w = "done" -> Parts \ Unheeded
    [] OTHER -> {}

\* A stop task leaves behind it what it has stopped.
StopInv ==
  \A k \in Tasks :
    /\ up \cap Stopped(stop[k]) = {}
    /\ stop[k] \in {"loader", "database", "redis", "done"} => task = "ended"
    /\ stop[k] \in {"database", "redis", "done"} => worker = "ended"

\* A stop task that is through with the ingestors has told the reader to stop, and has
\* seen a liquidation reader end.
ReaderInv ==
  \A k \in Tasks :
    /\ stop[k] = "sockets" /\ kind = "socket" => ~reading
    /\ stop[k] = "ingestors" => ~reading
    /\ stop[k] \in {"pipeline", "loader", "database", "redis", "done"} =>
         ~reading /\ (kind = "liquidation" => reader = "ended")

\* The pool is closed by the stop task that has seen the worker end.
PoolInv ==
  phase \in {"loop", "cancelling"} /\ code = 0 => "database" \in up \/ worker = "ended"

\* All rows before the file run_migrations is at are there, and all before the one the
\* other process is at; a file that waits for its row is this process's or the other's.
SchemaInv ==
  /\ SchemaComplete
  /\ 1 .. next - 1 \subseteq rows
  /\ step = "row" =>
       next \in tables /\ next # theirs /\ phase \in {"migrations", "cancelling", "exited"}
  /\ theirs # 0 => theirs \in tables /\ 1 .. theirs - 1 \subseteq rows

-----------------------------------------------------------------------------
(* Sequences of numbers.                                                   *)

\* The elements of a concatenation.
LEMMA ToSetOfConcat ==
  ASSUME NEW S, NEW s \in Seq(S), NEW t \in Seq(S)
  PROVE  ToSet(s \o t) = ToSet(s) \cup ToSet(t)
  <1> DEFINE m == Len(s)
             n == Len(t)
             u == s \o t
  <1>1. /\ m \in Nat /\ n \in Nat
        /\ DOMAIN s = 1..m /\ DOMAIN t = 1..n /\ DOMAIN u = 1 .. m + n
        /\ \A i \in 1..m : u[i] = s[i]
        /\ \A i \in 1..n : u[m + i] = t[i]
    BY ConcatProperties
  <1> HIDE DEF m, n, u
  <1>2. ASSUME NEW i \in 1 .. m + n PROVE u[i] \in ToSet(s) \cup ToSet(t)
    <2>1. CASE i <= m
      BY <1>1, <2>1 DEF ToSet
    <2>2. CASE i > m
      <3>1. i - m \in 1..n /\ m + (i - m) = i
        BY <1>1, <2>2
      <3> QED BY <1>1, <3>1 DEF ToSet
    <2> QED BY <1>1, <2>1, <2>2
  <1>3. ASSUME NEW x \in ToSet(s) PROVE x \in ToSet(u)
    <2>1. PICK i \in 1..m : x = s[i]
      BY <1>1 DEF ToSet
    <2>2. i \in 1 .. m + n /\ u[i] = x
      BY <1>1, <2>1
    <2> QED BY <1>1, <2>2 DEF ToSet
  <1>4. ASSUME NEW x \in ToSet(t) PROVE x \in ToSet(u)
    <2>1. PICK i \in 1..n : x = t[i]
      BY <1>1 DEF ToSet
    <2>2. m + i \in 1 .. m + n /\ u[m + i] = x
      BY <1>1, <2>1
    <2> QED BY <1>1, <2>2 DEF ToSet
  <1>5. ToSet(u) \subseteq ToSet(s) \cup ToSet(t)
    BY <1>1, <1>2 DEF ToSet
  <1> QED BY <1>3, <1>4, <1>5 DEF u

\* The elements of three sequences behind one another.
LEMMA ToSetOfThree ==
  ASSUME NEW S, NEW s \in Seq(S), NEW t \in Seq(S), NEW u \in Seq(S)
  PROVE  ToSet(s \o (t \o u)) = ToSet(s) \cup (ToSet(t) \cup ToSet(u))
  <1>1. PICK w \in Seq(S) : w = t \o u
    BY ConcatProperties
  <1>2. ToSet(w) = ToSet(t) \cup ToSet(u)
    BY <1>1, ToSetOfConcat
  <1>3. ToSet(s \o w) = ToSet(s) \cup ToSet(w)
    BY ToSetOfConcat
  <1> QED BY <1>1, <1>2, <1>3

\* A concatenation is in order when its parts are and the first is below the second.
LEMMA OrderedConcat ==
  ASSUME NEW S \in SUBSET Int, NEW s \in Seq(S), NEW t \in Seq(S)
  PROVE  Ordered(s \o t) <=>
           /\ Ordered(s) /\ Ordered(t)
           /\ \A a \in ToSet(s), b \in ToSet(t) : a < b
  <1> DEFINE m == Len(s)
             n == Len(t)
             u == s \o t
  <1>1. /\ m \in Nat /\ n \in Nat /\ Len(u) = m + n
        /\ DOMAIN s = 1..m /\ DOMAIN t = 1..n
        /\ \A i \in 1..m : u[i] = s[i]
        /\ \A i \in 1..n : u[m + i] = t[i]
    BY ConcatProperties
  <1>a. /\ Ordered(s) <=> \A i, j \in 1..m : i < j => s[i] < s[j]
        /\ Ordered(t) <=> \A i, j \in 1..n : i < j => t[i] < t[j]
        /\ Ordered(u) <=> \A i, j \in 1 .. m + n : i < j => u[i] < u[j]
    BY <1>1 DEF Ordered
  <1> HIDE DEF m, n, u
  <1>2. ASSUME Ordered(u)
        PROVE  Ordered(s) /\ Ordered(t) /\ \A a \in ToSet(s), b \in ToSet(t) : a < b
    <2>1. Ordered(s)
      <3> SUFFICES ASSUME NEW i \in 1..m, NEW j \in 1..m, i < j PROVE s[i] < s[j]
        BY <1>a
      <3> QED BY <1>1, <1>2, <1>a
    <2>2. Ordered(t)
      <3> SUFFICES ASSUME NEW i \in 1..n, NEW j \in 1..n, i < j PROVE t[i] < t[j]
        BY <1>a
      <3>1. m + i \in 1 .. m + n /\ m + j \in 1 .. m + n /\ m + i < m + j
        BY <1>1
      <3> QED BY <1>1, <1>2, <1>a, <3>1
    <2>3. ASSUME NEW a \in ToSet(s), NEW b \in ToSet(t) PROVE a < b
      <3>1. PICK i \in 1..m, j \in 1..n : a = s[i] /\ b = t[j]
        BY <1>1 DEF ToSet
      <3>2. i \in 1 .. m + n /\ m + j \in 1 .. m + n /\ i < m + j
        BY <1>1
      <3> QED BY <1>1, <1>2, <1>a, <3>1, <3>2
    <2> QED BY <2>1, <2>2, <2>3
  <1>3. ASSUME Ordered(s), Ordered(t), \A a \in ToSet(s), b \in ToSet(t) : a < b
        PROVE  Ordered(u)
    <2> SUFFICES ASSUME NEW i \in 1 .. m + n, NEW j \in 1 .. m + n, i < j PROVE u[i] < u[j]
      BY <1>a
    <2>1. CASE j <= m
      <3>1. i \in 1..m /\ j \in 1..m
        BY <1>1, <2>1
      <3> QED BY <1>1, <1>3, <1>a, <3>1
    <2>2. CASE i <= m /\ j > m
      <3>1. i \in 1..m /\ j - m \in 1..n /\ m + (j - m) = j
        BY <1>1, <2>2
      <3>2. u[i] \in ToSet(s) /\ u[j] \in ToSet(t)
        BY <1>1, <3>1 DEF ToSet
      <3> QED BY <1>3, <3>2
    <2>3. CASE i > m
      <3>1. /\ i - m \in 1..n /\ m + (i - m) = i
            /\ j - m \in 1..n /\ m + (j - m) = j /\ i - m < j - m
        BY <1>1, <2>3
      <3> QED BY <1>1, <1>3, <1>a, <3>1
    <2> QED BY <1>1, <2>1, <2>2, <2>3
  <1> QED BY <1>2, <1>3 DEF u

\* Named, so that a proof instantiates it where it is needed and nowhere else.
Regroups(s, t, u) == (s \o t) \o u = s \o (t \o u)

LEMMA Regroup == \A S : \A s, t, u \in Seq(S) : Regroups(s, t, u)
  <1> TAKE S
  <1> TAKE s, t, u \in Seq(S)
  <1> QED BY ConcatAssociative DEF Regroups

\* A concatenation is over the same elements.
LEMMA Closed == \A S : \A s, t \in Seq(S) : s \o t \in Seq(S)
  BY ConcatProperties

\* One write is in order.
LEMMA OneInOrder ==
  ASSUME NEW S, NEW x \in S
  PROVE  Ordered(<<x>>) /\ ToSet(<<x>>) = {x} /\ <<x>> \in Seq(S) /\ Len(<<x>>) = 1
  BY DEF Ordered, ToSet

\* What the worker has left once it is through with the first of its batch.
LEMMA HeadAndTail ==
  ASSUME NEW S, NEW s \in Seq(S), s # <<>>
  PROVE  /\ Head(s) \in S /\ Tail(s) \in Seq(S) /\ Len(Tail(s)) = Len(s) - 1
         /\ <<Head(s)>> \o Tail(s) = s
         /\ Head(s) \in ToSet(s)
  <1>1. Head(s) \in S /\ Tail(s) \in Seq(S) /\ Len(Tail(s)) = Len(s) - 1
    BY HeadTailProperties
  <1>2. Len(s) \in Nat \ {0} /\ Head(s) = s[1]
    BY EmptySeq
  <1>3. <<Head(s)>> \o Tail(s) = s
    <2>1. SubSeq(s, 1, Len(s)) = <<s[1]>> \o SubSeq(s, 2, Len(s))
      BY <1>2, SubSeqRecursiveFirst
    <2> QED BY <1>2, <2>1, SubSeqFull, TailIsSubSeq
  <1> QED BY <1>1, <1>2, <1>3 DEF ToSet

\* What the worker takes from the queue, and what it leaves.
LEMMA Halves ==
  ASSUME NEW S, NEW s \in Seq(S), NEW n \in 0..Len(s)
  PROVE  /\ SubSeq(s, 1, n) \in Seq(S) /\ Len(SubSeq(s, 1, n)) = n
         /\ SubSeq(s, n + 1, Len(s)) \in Seq(S) /\ Len(SubSeq(s, n + 1, Len(s))) = Len(s) - n
         /\ SubSeq(s, 1, n) \o SubSeq(s, n + 1, Len(s)) = s
  <1>1. Len(s) \in Nat /\ \A i \in 1..Len(s) : s[i] \in S
    BY ElementOfSeq, LenProperties
  <1>2. SubSeq(s, 1, n) \in Seq(S) /\ Len(SubSeq(s, 1, n)) = n
    BY <1>1, SubSeqProperties
  <1>3. /\ SubSeq(s, n + 1, Len(s)) \in Seq(S)
        /\ Len(SubSeq(s, n + 1, Len(s))) = Len(s) - n
    BY <1>1, SubSeqProperties
  <1>4. SubSeq(s, 1, n) \o SubSeq(s, n + 1, Len(s)) = SubSeq(s, 1, Len(s))
    <2>1. 1 \in 1 .. Len(s) + 1 /\ n \in 1 - 1 .. Len(s) /\ Len(s) \in n .. Len(s)
      BY <1>1
    <2> QED BY <2>1, ConcatAdjacentSubSeq
  <1> QED BY <1>2, <1>3, <1>4, SubSeqFull

\* The lesser of two numbers, as BATCH_SIZE and the room in the queue are used.
LEMMA MinOfTwo ==
  ASSUME NEW a \in Int, NEW b \in Int
  PROVE  Min({a, b}) = IF a <= b THEN a ELSE b
  <1>1. CASE a <= b
    <2>1. \E x \in {a, b} : \A y \in {a, b} : x <= y
      BY <1>1
    <2> QED BY <1>1, <2>1 DEF Min
  <1>2. CASE ~(a <= b)
    <2>1. \E x \in {a, b} : \A y \in {a, b} : x <= y
      BY <1>2
    <2> QED BY <1>2, <2>1 DEF Min
  <1> QED BY <1>1, <1>2

-----------------------------------------------------------------------------
(* The loader.                                                             *)

\* The types the proofs about the queue and the batch need.
LEMMA LoaderTypes ==
  ASSUME LoaderTypeOK
  PROVE  /\ Writes \subseteq Nat /\ Writes \in SUBSET Int
         /\ batch \in Seq(Writes) /\ queue \in Seq(Writes) /\ settled \in Seq(Writes)
         /\ written \in Seq(Writes)
         /\ batch \o queue \in Seq(Writes)
         /\ settled \o (batch \o queue) \in Seq(Writes)
         /\ made \in Nat /\ cursor \in Nat /\ stream \in Nat
         /\ Len(batch) \in Nat /\ Len(queue) \in Nat
  <1>1. Writes \subseteq Nat
    BY LoaderAssumption DEF LoaderAssumption, Writes
  <1>2. /\ batch \in Seq(Writes) /\ queue \in Seq(Writes) /\ settled \in Seq(Writes)
        /\ written \in Seq(Writes)
    BY DEF LoaderTypeOK
  <1>3. made \in Nat /\ cursor \in Nat /\ stream \in Nat
    BY LoaderAssumption DEF LoaderAssumption, LoaderTypeOK
  <1> QED BY <1>1, <1>2, <1>3, ConcatProperties

\* The writes the pipeline adds to the queue and those that are refused.
LEMMA EnqueuedIs ==
  ASSUME LoaderTypeOK, NEW n \in Nat, made + n <= ChunksMax * MaxEntries
  PROVE  LET fresh == [i \in 1..n |-> made + i]
             k     == IF n <= QueueSize - Len(queue) THEN n ELSE QueueSize - Len(queue)
             added == [i \in 1..k |-> made + i]
         IN  /\ Enqueued(queue, fresh) = queue \o added
             /\ k \in 0..n
             /\ added \in Seq(Writes) /\ Len(added) = k
             /\ ToSet(added) = made + 1 .. made + k
             /\ Ordered(added)
             /\ Len(queue \o added) <= QueueSize
             /\ queue \o added \in Seq(Writes)
  <1> DEFINE fresh == [i \in 1..n |-> made + i]
             room  == QueueSize - Len(queue)
             k     == IF n <= room THEN n ELSE room
             added == [i \in 1..k |-> made + i]
  <1>1. /\ made \in Nat /\ Len(queue) \in Nat /\ queue \in Seq(Writes) /\ room \in Nat
        /\ ChunksMax * MaxEntries \in Nat
    BY LoaderTypes, LoaderAssumption DEF LoaderTypeOK, LoaderAssumption
  <1> HIDE DEF room
  <1>2. k \in 0..n
    BY <1>1
  <1> HIDE DEF k
  <1>3. \A i \in 1..n : made + i \in Writes
    BY <1>1 DEF Writes
  <1>4. added \in Seq(Writes) /\ Len(added) = k /\ DOMAIN added = 1..k
    BY <1>2, <1>3
  <1>5. fresh \in Seq(Writes) /\ Len(fresh) = n
    BY <1>3
  <1>6. SubSeq(fresh, 1, k) = added
    <2>1. \A i \in 1..k : fresh[i] = made + i /\ fresh[i] \in Writes
      BY <1>2, <1>3
    <2>2. /\ SubSeq(fresh, 1, k) \in Seq(Writes)
          /\ Len(SubSeq(fresh, 1, k)) = k
          /\ \A i \in 1 .. k : SubSeq(fresh, 1, k)[i] = fresh[i]
      BY <1>2, <2>1, SubSeqProperties
    <2> HIDE DEF fresh
    <2>3. \A i \in 1..Len(added) : SubSeq(fresh, 1, k)[i] = added[i]
      BY <1>4, <2>1, <2>2
    <2> QED BY <1>4, <2>2, <2>3, SeqEqual
  <1>7. Min({Len(fresh), QueueSize - Len(queue)}) = k
    BY <1>1, <1>5, MinOfTwo DEF room, k
  <1>8. Enqueued(queue, fresh) = queue \o added
    BY <1>6, <1>7 DEF Enqueued
  <1>9. ToSet(added) = made + 1 .. made + k
    <2>1. ASSUME NEW x \in made + 1 .. made + k PROVE x \in ToSet(added)
      <3>1. x - made \in 1..k /\ x = made + (x - made)
        BY <1>1, <1>2, <2>1
      <3> QED BY <1>4, <3>1 DEF ToSet
    <2>2. ASSUME NEW i \in 1..k PROVE added[i] \in made + 1 .. made + k
      BY <1>1, <1>2
    <2> QED BY <1>4, <2>1, <2>2 DEF ToSet
  <1>10. Ordered(added)
    <2> SUFFICES ASSUME NEW i \in 1..k, NEW j \in 1..k, i < j PROVE added[i] < added[j]
      BY <1>4 DEF Ordered
    <2> QED BY <1>1, <1>2
  <1>11. Len(queue \o added) <= QueueSize /\ queue \o added \in Seq(Writes)
    <2>1. Len(queue \o added) = Len(queue) + k /\ queue \o added \in Seq(Writes)
      <3>1. queue \in Seq(Writes) /\ added \in Seq(Writes) /\ Len(added) = k
        BY <1>1, <1>4
      <3> HIDE DEF added
      <3> QED BY <3>1, ConcatProperties
    <2>2. k <= room
      BY <1>1 DEF k
    <2> QED BY <1>1, <1>2, <2>1, <2>2, LoaderAssumption DEF room, LoaderAssumption
  <1> QED BY <1>2, <1>4, <1>8, <1>9, <1>10, <1>11 DEF k, room

\* The writes that were queued, in the order in which they are executed.
Accepted == settled \o (batch \o queue)

\* A write that was made is behind the worker, or the worker was ended in it.
Executed ==
  \A w \in ToSet(written) :
    w \in ToSet(settled) \/ (worker = "ended" /\ batch # <<>> /\ w = Head(batch))

\* WritesInOrder by its parts.
LEMMA InOrderIs ==
  WritesInOrder <=> /\ Ordered(Accepted) /\ Ordered(written)
                    /\ ToSet(Accepted) = (1..made) \ refused
                    /\ Executed
  BY DEF WritesInOrder, Accepted, Executed

\* The entries read bound the writes made.
LEMMA WritesFit ==
  ASSUME NEW a \in Nat, NEW b \in Nat, NEW c \in Nat, b <= c
  PROVE  /\ a * b \in Nat /\ a * c \in Nat /\ a * (c - b) \in Nat
         /\ a * b + a * (c - b) = a * c
         /\ a * b <= a * c
  <1>1. PICK d \in Nat : d = c - b
    OBVIOUS
  <1>2. a * d \in Nat /\ a * b \in Nat
    OBVIOUS
  <1>3. c = b + d
    BY <1>1
  <1>4. a * (b + d) = a * b + a * d
    OBVIOUS
  <1> QED BY <1>1, <1>2, <1>3, <1>4

\* The pipeline reads entries and puts what it makes of them in the queue
\* (Pipeline._run, Loader._enqueue_db_write).
LEMMA ConsumeKeepsOrder ==
  ASSUME LoaderInv, Consume
  PROVE  LoaderInv'
  <1> USE LoaderAssumption DEF LoaderAssumption
  <1>0. PICK upto \in cursor..stream :
          /\ cursor' = upto
          /\ \E n \in WritesOf(upto - cursor) :
               /\ made' = made + n
               /\ queue' = Enqueued(queue, [i \in 1..n |-> made + i])
               /\ refused' = refused \cup ((made + 1 .. made') \ ToSet(queue'))
    BY DEF Consume
  <1>1. PICK n \in WritesOf(upto - cursor) :
          /\ cursor' = upto
          /\ made' = made + n
          /\ queue' = Enqueued(queue, [i \in 1..n |-> made + i])
          /\ refused' = refused \cup ((made + 1 .. made') \ ToSet(queue'))
    BY <1>0
  <1>2. /\ UNCHANGED <<stream, loading, worker, batch, cancelled, settled, written>>
        /\ task' \in {"consume", "dead"} /\ "task" \notin cancelled
    BY DEF Consume
  <1>3. /\ LoaderTypeOK /\ BatchShape /\ Counted /\ CancelledLive
        /\ made \in Nat /\ cursor \in Nat /\ stream \in Nat
        /\ made <= ChunksMax * cursor /\ refused \subseteq 1..made
        /\ stream \in 0..MaxEntries
    BY LoaderTypes DEF LoaderInv, Counted, LoaderTypeOK
  <1>4. /\ n \in Nat /\ made + n <= ChunksMax * upto /\ made + n <= ChunksMax * MaxEntries
        /\ upto \in Nat /\ upto <= stream
    <2>1. upto \in Nat /\ cursor <= upto /\ upto <= MaxEntries
      BY <1>3
    <2>2. /\ ChunksMax * (upto - cursor) \in Nat
          /\ ChunksMax * cursor + ChunksMax * (upto - cursor) = ChunksMax * upto
          /\ ChunksMax * cursor \in Nat /\ ChunksMax * upto \in Nat
      BY <1>3, <2>1, WritesFit
    <2>3. ChunksMax * upto <= ChunksMax * MaxEntries /\ ChunksMax * MaxEntries \in Nat
      BY <2>1, WritesFit
    <2>4. n \in 0 .. ChunksMax * (upto - cursor)
      BY DEF WritesOf
    <2> HIDE LoaderAssumption
    <2> QED BY <1>1, <1>3, <2>1, <2>2, <2>3, <2>4
  <1> DEFINE k     == IF n <= QueueSize - Len(queue) THEN n ELSE QueueSize - Len(queue)
             added == [i \in 1..k |-> made + i]
  <1>5. /\ queue' = queue \o added
        /\ k \in 0..n
        /\ added \in Seq(Writes)
        /\ ToSet(added) = made + 1 .. made + k
        /\ Ordered(added)
        /\ Len(queue') <= QueueSize
        /\ queue' \in Seq(Writes)
    BY <1>1, <1>3, <1>4, EnqueuedIs
  <1> HIDE DEF k, added
  <1>6. LoaderTypeOK'
    <2>1. cursor' \in 0..stream' /\ made' \in 0 .. ChunksMax * MaxEntries
      BY <1>1, <1>2, <1>3, <1>4
    <2>2. refused' \in SUBSET Writes
      <3>1. made + 1 .. made' \subseteq Writes
        BY <1>1, <1>3, <1>4 DEF Writes
      <3> QED BY <1>1, <1>3, <3>1 DEF LoaderTypeOK
    <2> QED BY <1>2, <1>3, <1>5, <2>1, <2>2 DEF LoaderTypeOK
  <1>7. BatchShape'
    BY <1>2, <1>3 DEF BatchShape
  <1>8. Counted'
    <2>1. made' <= ChunksMax * cursor' /\ 1..made \subseteq 1..made'
      BY <1>1, <1>3, <1>4
    <2>2. made + 1 .. made' \subseteq 1..made'
      BY <1>3
    <2> QED BY <1>1, <1>3, <2>1, <2>2 DEF Counted
  <1>9. CancelledLive'
    BY <1>2, <1>3 DEF CancelledLive, Alive
  <1>10. WritesInOrder'
    <2> HIDE LoaderAssumption
    <2>1. /\ Ordered(Accepted) /\ Ordered(written) /\ Executed
          /\ ToSet(Accepted) = (1..made) \ refused
      BY InOrderIs DEF LoaderInv
    <2>2. /\ Accepted \in Seq(Writes) /\ batch \o queue \in Seq(Writes)
          /\ batch \in Seq(Writes) /\ queue \in Seq(Writes) /\ settled \in Seq(Writes)
          /\ added \in Seq(Writes) /\ Writes \in SUBSET Int
      BY <1>3, <1>5, LoaderTypes DEF Accepted
    <2>3. Accepted' = Accepted \o added
      <3>1. Regroups(batch, queue, added) /\ Regroups(settled, batch \o queue, added)
        BY <2>2, Regroup, Zenon
      <3>2. settled \o (batch \o (queue \o added)) = (settled \o (batch \o queue)) \o added
        BY <3>1, Zenon DEF Regroups
      <3> QED BY <1>2, <1>5, <3>2 DEF Accepted
    <2>4. Ordered(Accepted')
      <3>1. \A a \in ToSet(Accepted), b \in ToSet(added) : a < b
        BY <1>3, <1>5, <2>1
      <3> QED BY <1>5, <2>1, <2>2, <2>3, <3>1, OrderedConcat
    <2>5. ToSet(queue) \subseteq 1..made
      <3>1. ToSet(Accepted) = ToSet(settled) \cup (ToSet(batch) \cup ToSet(queue))
        BY <2>2, ToSetOfThree DEF Accepted
      <3> QED BY <2>1, <3>1
    <2>6. ToSet(queue') = ToSet(queue) \cup (made + 1 .. made + k)
      <3>1. ToSet(queue \o added) = ToSet(queue) \cup ToSet(added)
        BY <2>2, ToSetOfConcat
      <3> QED BY <1>5, <3>1
    <2>7. ToSet(Accepted') = ToSet(Accepted) \cup (made + 1 .. made + k)
      <3>1. ToSet(Accepted \o added) = ToSet(Accepted) \cup ToSet(added)
        BY <2>2, ToSetOfConcat
      <3> QED BY <1>5, <2>3, <3>1
    <2>8. (made + 1 .. made') \ ToSet(queue') = made + k + 1 .. made'
      <3>1. k \in Nat /\ k <= n /\ made' = made + n
        BY <1>1, <1>4, <1>5
      <3>2. ASSUME NEW x \in made + 1 .. made'
            PROVE  x \in ToSet(queue') <=> x \notin made + k + 1 .. made'
        BY <1>3, <1>4, <2>5, <2>6, <3>1
      <3>3. made + k + 1 .. made' \subseteq made + 1 .. made'
        BY <1>3, <1>4, <3>1
      <3> QED BY <3>2, <3>3
    <2>9. ToSet(Accepted') = (1..made') \ refused'
      <3>1. refused' = refused \cup (made + k + 1 .. made')
        BY <1>1, <2>8
      <3>2. \A x : x \in 1..made' <=> \/ x \in 1..made
                                      \/ x \in made + 1 .. made + k
                                      \/ x \in made + k + 1 .. made'
        BY <1>1, <1>3, <1>4, <1>5
      <3>3. \A x : ~(x \in 1..made /\ x \in made + k + 1 .. made')
        BY <1>1, <1>3, <1>4, <1>5
      <3>4. \A x : ~(x \in made + 1 .. made + k /\ x \in made + k + 1 .. made')
        BY <1>1, <1>3, <1>4, <1>5
      <3>5. \A x : ~(x \in made + 1 .. made + k /\ x \in refused)
        BY <1>3
      <3> QED BY <1>3, <2>1, <2>7, <3>1, <3>2, <3>3, <3>4, <3>5
    <2>10. Executed' /\ Ordered(written)'
      BY <1>2, <2>1 DEF Executed, Ordered
    <2> QED BY <2>4, <2>9, <2>10 DEF WritesInOrder, Accepted, Executed, Ordered
  <1> QED BY <1>6, <1>7, <1>8, <1>9, <1>10 DEF LoaderInv

\* Steps that leave the writes where they are in their order.
LEMMA SameOrder ==
  ASSUME WritesInOrder, Accepted' = Accepted, Ordered(written)', Executed',
         UNCHANGED <<made, refused>>
  PROVE  WritesInOrder'
  <1>1. Ordered(Accepted) /\ ToSet(Accepted) = (1..made) \ refused
    BY InOrderIs
  <1>2. Ordered(Accepted') /\ ToSet(Accepted') = (1..made') \ refused'
    BY <1>1
  <1> QED BY <1>2 DEF WritesInOrder, Accepted, Executed, Ordered

\* Steps that touch no write.
LEMMA NoWrite ==
  ASSUME LoaderInv, UNCHANGED <<made, refused, settled, written, batch, queue>>,
         worker = "ended" => worker' = "ended"
  PROVE  WritesInOrder'
  <1>1. Ordered(written) /\ Executed /\ WritesInOrder
    BY InOrderIs DEF LoaderInv
  <1>2. Accepted' = Accepted
    BY DEF Accepted
  <1>3. Ordered(written)' /\ Executed'
    BY <1>1 DEF Ordered, Executed
  <1> QED BY <1>1, <1>2, <1>3, SameOrder

\* The worker takes the first write (Loader._db_worker).
LEMMA TakeKeepsOrder ==
  ASSUME LoaderInv, Take
  PROVE  LoaderInv'
  <1> USE DEF pipeline, writes
  <1>1. /\ worker = "get" /\ "worker" \notin cancelled /\ queue # <<>> /\ worker' = "taken"
        /\ batch' = <<Head(queue)>> /\ queue' = Tail(queue)
        /\ UNCHANGED <<stream, cursor, task, loading, cancelled, made, refused, settled, written>>
    BY DEF Take
  <1>2. LoaderTypeOK /\ BatchShape /\ Counted /\ CancelledLive
    BY DEF LoaderInv
  <1>3. /\ Head(queue) \in Writes /\ Tail(queue) \in Seq(Writes)
        /\ Len(Tail(queue)) = Len(queue) - 1
        /\ <<Head(queue)>> \o Tail(queue) = queue
        /\ queue \in Seq(Writes) /\ Len(queue) \in Nat
    BY <1>1, <1>2, LoaderTypes, HeadAndTail
  <1>4. batch' \in Seq(Writes) /\ Len(batch') = 1
    BY <1>1, <1>3, OneInOrder
  <1>5. LoaderTypeOK'
    <2>1. Len(queue') <= QueueSize /\ Len(batch') <= BatchMax
      BY <1>1, <1>2, <1>3, <1>4, LoaderAssumption DEF LoaderTypeOK, LoaderAssumption
    <2> QED BY <1>1, <1>2, <1>3, <1>4, <2>1 DEF LoaderTypeOK
  <1>6. BatchShape' /\ Counted' /\ CancelledLive'
    BY <1>1, <1>2, <1>4 DEF BatchShape, Counted, CancelledLive, Alive
  <1>7. WritesInOrder'
    <2>1. Ordered(written) /\ Executed /\ WritesInOrder
      BY InOrderIs DEF LoaderInv
    <2>2. batch = <<>>
      BY <1>1, <1>2 DEF BatchShape
    <2>3. Accepted' = Accepted
      <3>1. batch \o queue = queue
        BY <1>3, <2>2, ConcatEmptySeq
      <3> QED BY <1>1, <1>3, <3>1 DEF Accepted
    <2>4. Ordered(written)' /\ Executed'
      BY <1>1, <2>1 DEF Ordered, Executed
    <2> QED BY <1>1, <2>1, <2>3, <2>4, SameOrder
  <1> QED BY <1>5, <1>6, <1>7 DEF LoaderInv

\* The worker fills its batch from the queue (Loader._db_worker).
LEMMA FillKeepsOrder ==
  ASSUME LoaderInv, Fill
  PROVE  LoaderInv'
  <1> USE DEF pipeline, writes
  <1> DEFINE n == Min({Len(queue), BatchMax - 1})
             some == SubSeq(queue, 1, n)
             rest == SubSeq(queue, n + 1, Len(queue))
  <1>1. /\ worker = "taken" /\ "worker" \notin cancelled /\ worker' = "execute"
        /\ batch' = batch \o some /\ queue' = rest
        /\ UNCHANGED <<stream, cursor, task, loading, cancelled, made, refused, settled, written>>
    BY DEF Fill
  <1>2. LoaderTypeOK /\ BatchShape /\ Counted /\ CancelledLive
    BY DEF LoaderInv
  <1>3. /\ batch \in Seq(Writes) /\ queue \in Seq(Writes) /\ Len(queue) \in Nat
        /\ Len(batch) = 1
    BY <1>1, <1>2, LoaderTypes DEF BatchShape
  <1>4. n \in 0..Len(queue) /\ n <= BatchMax - 1
    <2>1. BatchMax - 1 \in Nat
      BY LoaderAssumption DEF LoaderAssumption
    <2> QED BY <1>3, <2>1, MinOfTwo
  <1>5. /\ some \in Seq(Writes) /\ Len(some) = n
        /\ rest \in Seq(Writes) /\ Len(rest) = Len(queue) - n
        /\ some \o rest = queue
    <2> HIDE DEF n
    <2> QED BY <1>3, <1>4, Halves
  <1> HIDE DEF n, some, rest
  <1>6. batch \o some \in Seq(Writes) /\ Len(batch \o some) = 1 + n
    <2>1. batch \in Seq(Writes) /\ some \in Seq(Writes)
      BY <1>3, <1>5
    <2>2. batch \o some \in Seq(Writes) /\ Len(batch \o some) = Len(batch) + Len(some)
      BY <2>1, ConcatProperties
    <2> QED BY <1>3, <1>5, <2>2
  <1>7. LoaderTypeOK'
    <2>1. Len(queue') <= QueueSize /\ Len(batch') <= BatchMax
      BY <1>1, <1>2, <1>3, <1>4, <1>5, <1>6, LoaderAssumption DEF LoaderTypeOK, LoaderAssumption
    <2> QED BY <1>1, <1>2, <1>5, <1>6, <2>1 DEF LoaderTypeOK
  <1>8. BatchShape' /\ Counted' /\ CancelledLive'
    <2>1. batch' # <<>>
      BY <1>1, <1>4, <1>6
    <2> QED BY <1>1, <1>2, <2>1 DEF BatchShape, Counted, CancelledLive, Alive
  <1>9. WritesInOrder'
    <2>1. Ordered(written) /\ Executed /\ WritesInOrder
      BY InOrderIs DEF LoaderInv
    <2>2. Accepted' = Accepted
      <3>1. Regroups(batch, some, rest)
        BY <1>3, <1>5, Regroup, Zenon
      <3>2. (batch \o some) \o rest = batch \o queue
        BY <1>5, <3>1, Zenon DEF Regroups
      <3> QED BY <1>1, <3>2 DEF Accepted
    <2>3. Ordered(written)' /\ Executed'
      BY <1>1, <2>1 DEF Ordered, Executed
    <2> QED BY <1>1, <2>1, <2>2, <2>3, SameOrder
  <1> QED BY <1>7, <1>8, <1>9 DEF LoaderInv

\* What is in hand comes after all that is settled.
LEMMA HeadIsNext ==
  ASSUME LoaderInv, batch # <<>>
  PROVE  /\ Head(batch) \in Writes /\ Head(batch) \in ToSet(batch)
         /\ \A w \in ToSet(settled) : w < Head(batch)
  <1>1. /\ batch \in Seq(Writes) /\ queue \in Seq(Writes) /\ settled \in Seq(Writes)
        /\ batch \o queue \in Seq(Writes) /\ Writes \in SUBSET Int
    BY LoaderTypes DEF LoaderInv
  <1>2. Head(batch) \in Writes /\ Head(batch) \in ToSet(batch)
    BY <1>1, HeadAndTail
  <1>3. ToSet(batch \o queue) = ToSet(batch) \cup ToSet(queue)
    BY <1>1, ToSetOfConcat
  <1>4. Ordered(settled \o (batch \o queue))
    BY InOrderIs DEF LoaderInv, Accepted
  <1>5. \A a \in ToSet(settled), b \in ToSet(batch \o queue) : a < b
    <2>1. /\ batch \o queue \in Seq(Writes) /\ settled \in Seq(Writes)
          /\ Writes \in SUBSET Int
      BY <1>1
    <2> QED BY <1>4, <2>1, OrderedConcat
  <1> QED BY <1>2, <1>3, <1>5

\* A write the database executes comes after all that it has executed.
LEMMA ExecutedNext ==
  ASSUME LoaderInv, worker # "ended", batch # <<>>, written' = Append(written, Head(batch))
  PROVE  /\ written' \in Seq(Writes) /\ Ordered(written')
         /\ ToSet(written') \subseteq ToSet(settled) \cup {Head(batch)}
  <1>1. written \in Seq(Writes) /\ Writes \in SUBSET Int /\ Head(batch) \in Writes
    BY LoaderTypes, HeadIsNext DEF LoaderInv
  <1>2. Ordered(written) /\ ToSet(written) \subseteq ToSet(settled)
    BY InOrderIs DEF LoaderInv, Executed
  <1>3. \A w \in ToSet(settled) : w < Head(batch)
    BY HeadIsNext
  <1>4. written' \in Seq(Writes) /\ written' = written \o <<Head(batch)>>
    BY <1>1, AppendProperties, AppendIsConcat
  <1>5. /\ Ordered(<<Head(batch)>>) /\ ToSet(<<Head(batch)>>) = {Head(batch)}
        /\ <<Head(batch)>> \in Seq(Writes)
    BY <1>1, OneInOrder
  <1>6. Ordered(written \o <<Head(batch)>>)
    BY <1>1, <1>2, <1>3, <1>5, OrderedConcat
  <1>7. ToSet(written \o <<Head(batch)>>) = ToSet(written) \cup {Head(batch)}
    <2>1. written \in Seq(Writes) /\ <<Head(batch)>> \in Seq(Writes)
      BY <1>1, <1>5
    <2>2. ToSet(written \o <<Head(batch)>>) = ToSet(written) \cup ToSet(<<Head(batch)>>)
      BY <2>1, ToSetOfConcat
    <2> QED BY <1>5, <2>2
  <1> QED BY <1>2, <1>4, <1>6, <1>7

\* The worker executes the batch, or gives up on it (Loader._execute_batch).
LEMMA ExecuteKeepsOrder ==
  ASSUME LoaderInv, NEW open, Execute(open)
  PROVE  LoaderInv'
  <1> USE DEF pipeline, writes
  <1>1. /\ worker = "execute" /\ "worker" \notin cancelled
        /\ written' = Append(written, Head(batch)) \/ written' = written
        /\ batch' = Tail(batch)
        /\ settled' = Append(settled, Head(batch))
        /\ worker' = IF batch' # <<>> THEN "execute" ELSE IF loading THEN "get" ELSE "ended"
        /\ UNCHANGED <<stream, cursor, task, loading, queue, cancelled, made, refused>>
    BY DEF Execute
  <1>2. LoaderTypeOK /\ BatchShape /\ Counted /\ CancelledLive /\ batch # <<>>
    BY <1>1 DEF LoaderInv, BatchShape
  <1> DEFINE h == Head(batch)
  <1>3. /\ batch \in Seq(Writes) /\ queue \in Seq(Writes) /\ settled \in Seq(Writes)
        /\ written \in Seq(Writes) /\ Len(batch) \in Nat
    BY <1>2, LoaderTypes
  <1>4. /\ h \in Writes /\ Tail(batch) \in Seq(Writes) /\ Len(Tail(batch)) = Len(batch) - 1
        /\ <<h>> \o Tail(batch) = batch
        /\ <<h>> \in Seq(Writes)
    BY <1>2, <1>3, HeadAndTail, OneInOrder
  <1>5. settled' \in Seq(Writes) /\ settled' = settled \o <<h>>
    <2> HIDE DEF h
    <2>1. settled \in Seq(Writes) /\ h \in Writes /\ settled' = Append(settled, h)
      BY <1>1, <1>3, <1>4 DEF h
    <2> QED BY <2>1, AppendProperties, AppendIsConcat
  <1>6. /\ written' \in Seq(Writes) /\ Ordered(written')
        /\ ToSet(written') \subseteq ToSet(settled) \cup {h}
    <2>1. CASE written' = Append(written, h)
      BY <1>1, <1>2, <2>1, ExecutedNext
    <2>2. CASE written' = written
      BY <1>1, <1>3, <2>2, InOrderIs DEF LoaderInv, Executed
    <2> QED BY <1>1, <2>1, <2>2
  <1>7. LoaderTypeOK'
    <2>1. Len(batch') <= BatchMax
      BY <1>1, <1>2, <1>3, <1>4, LoaderAssumption DEF LoaderTypeOK, LoaderAssumption
    <2> QED BY <1>1, <1>2, <1>4, <1>5, <1>6, <2>1 DEF LoaderTypeOK
  <1>8. BatchShape' /\ Counted' /\ CancelledLive'
    BY <1>1, <1>2 DEF BatchShape, Counted, CancelledLive, Alive
  <1>9. WritesInOrder'
    <2>1. WritesInOrder
      BY DEF LoaderInv
    <2>2. Accepted' = Accepted
      <3>1. Tail(batch) \o queue \in Seq(Writes)
        BY <1>3, <1>4, Closed, Zenon
      <3>2. /\ Regroups(settled, <<h>>, Tail(batch) \o queue)
            /\ Regroups(<<h>>, Tail(batch), queue)
        BY <1>3, <1>4, <3>1, Regroup, Zenon
      <3>3. (settled \o <<h>>) \o (Tail(batch) \o queue) = settled \o (batch \o queue)
        BY <1>4, <3>2, Zenon DEF Regroups
      <3> QED BY <1>1, <1>5, <3>3, Zenon DEF Accepted
    <2>3. ToSet(settled') = ToSet(settled) \cup {h}
      <3>1. ToSet(<<h>>) = {h}
        BY <1>4, OneInOrder
      <3>2. ToSet(settled \o <<h>>) = ToSet(settled) \cup ToSet(<<h>>)
        <4>1. settled \in Seq(Writes) /\ <<h>> \in Seq(Writes)
          BY <1>3, <1>4
        <4> QED BY <4>1, ToSetOfConcat
      <3> QED BY <1>5, <3>1, <3>2
    <2>4. Executed'
      BY <1>6, <2>3 DEF Executed
    <2> QED BY <1>1, <1>6, <2>1, <2>2, <2>4, SameOrder
  <1> QED BY <1>7, <1>8, <1>9 DEF LoaderInv

\* A cancellation meets the worker or the pipeline.
LEMMA CancelKeepsOrder ==
  ASSUME LoaderInv, WorkerMeetsCancel
  PROVE  LoaderInv'
  <1> USE DEF pipeline, writes
  <1>1. /\ "worker" \in cancelled /\ cancelled' = cancelled \ {"worker"}
        /\ UNCHANGED <<stream, cursor, task, loading, queue, batch, made, refused, settled>>
        /\ \/ worker = "taken" /\ UNCHANGED <<worker, written>>
           \/ worker # "taken" /\ worker' = "ended" /\ UNCHANGED written
           \/ /\ worker = "execute" /\ worker' = "ended"
              /\ written' = Append(written, Head(batch))
    BY DEF WorkerMeetsCancel
  <1>2. LoaderTypeOK /\ BatchShape /\ Counted /\ CancelledLive
    BY DEF LoaderInv
  <1>3. worker # "ended"
    BY <1>1, <1>2 DEF CancelledLive, Alive
  <1>4. /\ written' \in Seq(Writes) /\ Ordered(written')
        /\ ToSet(written') \subseteq
             ToSet(settled) \cup (IF worker = "execute" THEN {Head(batch)} ELSE {})
    <2>1. CASE written' = written
      <3>1. written \in Seq(Writes) /\ Ordered(written) /\ ToSet(written) \subseteq ToSet(settled)
        BY <1>2, <1>3, InOrderIs, LoaderTypes DEF LoaderInv, Executed
      <3> QED BY <2>1, <3>1
    <2>2. CASE worker = "execute" /\ written' = Append(written, Head(batch))
      BY <1>2, <2>2, ExecutedNext DEF BatchShape
    <2> QED BY <1>1, <2>1, <2>2
  <1>5. LoaderTypeOK'
    BY <1>1, <1>2, <1>4 DEF LoaderTypeOK
  <1>6. BatchShape' /\ Counted' /\ CancelledLive'
    BY <1>1, <1>2 DEF BatchShape, Counted, CancelledLive, Alive
  <1>7. WritesInOrder'
    <2>1. WritesInOrder
      BY DEF LoaderInv
    <2>2. Accepted' = Accepted
      BY <1>1 DEF Accepted
    <2>3. Executed'
      <3>1. CASE written' = written
        <4>1. ToSet(written') \subseteq ToSet(settled')
          BY <1>1, <1>3, <3>1, InOrderIs DEF LoaderInv, Executed
        <4> QED BY <4>1 DEF Executed
      <3>2. CASE worker = "execute" /\ worker' = "ended"
        <4>1. batch' # <<>> /\ Head(batch') = Head(batch)
          BY <1>1, <1>2, <3>2 DEF BatchShape
        <4> QED BY <1>1, <1>4, <3>2, <4>1 DEF Executed
      <3> QED BY <1>1, <3>1, <3>2
    <2> QED BY <1>1, <1>4, <2>1, <2>2, <2>3, SameOrder
  <1> QED BY <1>5, <1>6, <1>7 DEF LoaderInv

\* Lifecycle's own steps cancel what is alive, or end the loop of the worker.
LEMMA CancelsKeepOrder ==
  ASSUME LoaderInv, UNCHANGED <<pipeline, worker, queue, batch, writes>>,
         loading' \in BOOLEAN, cancelled' \subseteq cancelled \cup Alive
  PROVE  LoaderInv'
  <1> USE DEF pipeline, writes
  <1>1. LoaderTypeOK /\ BatchShape /\ Counted /\ CancelledLive
    BY DEF LoaderInv
  <1>2. Alive' = Alive /\ Alive \subseteq {"task", "worker"}
    BY DEF Alive
  <1>3. LoaderTypeOK'
    BY <1>1, <1>2 DEF LoaderTypeOK
  <1>4. BatchShape' /\ Counted' /\ CancelledLive'
    BY <1>1, <1>2 DEF BatchShape, Counted, CancelledLive
  <1>5. WritesInOrder'
    BY NoWrite
  <1> QED BY <1>3, <1>4, <1>5 DEF LoaderInv

\* The start of the pipeline and of its worker.
LEMMA StartKeepsOrder ==
  ASSUME LoaderInv, StartPipeline, worker = "none", task = "none"
  PROVE  LoaderInv'
  <1> USE DEF writes
  <1>1. LoaderTypeOK /\ BatchShape /\ Counted /\ CancelledLive
    BY DEF LoaderInv
  <1>2. LoaderTypeOK'
    BY <1>1 DEF StartPipeline, LoaderTypeOK
  <1>3. BatchShape' /\ Counted' /\ CancelledLive'
    BY <1>1 DEF StartPipeline, BatchShape, Counted, CancelledLive, Alive
  <1>4. WritesInOrder'
    BY NoWrite DEF StartPipeline
  <1> QED BY <1>2, <1>3, <1>4 DEF LoaderInv

\* No step of the loader changes the order.
LEMMA LoaderKeepsOrder ==
  ASSUME LoaderInv, NEW open, LoaderNext(open)
  PROVE  LoaderInv'
  <1> USE DEF pipeline, writes
  <1>1. LoaderTypeOK /\ BatchShape /\ Counted /\ CancelledLive
    BY DEF LoaderInv
  <1>2. CASE XAdd
    <2>1. LoaderTypeOK'
      <3>1. stream \in Nat /\ cursor \in 0..stream
        BY <1>1, LoaderTypes DEF LoaderTypeOK
      <3>2. stream' \in 0..MaxEntries /\ cursor' \in 0..stream'
        BY <1>2, <3>1, LoaderAssumption DEF XAdd, LoaderAssumption
      <3> QED BY <1>1, <1>2, <3>2 DEF LoaderTypeOK, XAdd
    <2>2. BatchShape' /\ Counted' /\ CancelledLive'
      BY <1>1, <1>2 DEF XAdd, BatchShape, Counted, CancelledLive, Alive
    <2>3. WritesInOrder'
      BY <1>2, NoWrite DEF XAdd
    <2> QED BY <2>1, <2>2, <2>3 DEF LoaderInv
  <1>3. CASE TaskMeetsCancel
    <2>1. LoaderTypeOK' /\ BatchShape' /\ Counted' /\ CancelledLive'
      BY <1>1, <1>3 DEF TaskMeetsCancel, LoaderTypeOK, BatchShape, Counted, CancelledLive, Alive
    <2>2. WritesInOrder'
      BY <1>3, NoWrite DEF TaskMeetsCancel
    <2> QED BY <2>1, <2>2 DEF LoaderInv
  <1>4. CASE Leave
    <2>1. LoaderTypeOK' /\ BatchShape' /\ Counted' /\ CancelledLive'
      BY <1>1, <1>4 DEF Leave, LoaderTypeOK, BatchShape, Counted, CancelledLive, Alive
    <2>2. WritesInOrder'
      BY <1>4, NoWrite DEF Leave
    <2> QED BY <2>1, <2>2 DEF LoaderInv
  <1> QED BY <1>2, <1>3, <1>4, ConsumeKeepsOrder, TakeKeepsOrder, FillKeepsOrder,
             ExecuteKeepsOrder, CancelKeepsOrder DEF LoaderNext

\* Before the start there is nothing to be out of order.
LEMMA LoaderBegins == LoaderInit => LoaderInv
  <1> SUFFICES ASSUME LoaderInit PROVE LoaderInv
    OBVIOUS
  <1> USE LoaderAssumption DEF LoaderAssumption, LoaderInit
  <1>1. Len(<<>>) = 0 /\ ToSet(<<>>) = {} /\ Ordered(<<>>) /\ <<>> \o <<>> = <<>>
    BY DEF ToSet, Ordered
  <1>2. ChunksMax * MaxEntries \in Nat /\ ChunksMax * 0 = 0
    OBVIOUS
  <1>3. LoaderTypeOK
    <2>1. queue = <<>> /\ batch = <<>> /\ settled = <<>> /\ written = <<>> /\ made = 0
      OBVIOUS
    <2>2. <<>> \in Seq(Writes)
      OBVIOUS
    <2>3. Len(<<>>) <= QueueSize /\ Len(<<>>) <= BatchMax
      BY <1>1
    <2>4. made \in 0 .. ChunksMax * MaxEntries
      BY <1>2, <2>1
    <2>5. stream \in 0..MaxEntries /\ cursor \in 0..stream
      <3>1. 0 \in 0..MaxEntries /\ 0 \in 0..0
        OBVIOUS
      <3> QED BY <3>1
    <2>6. /\ task = "none" /\ loading = FALSE /\ worker = "none"
          /\ cancelled = {} /\ refused = {}
      OBVIOUS
    <2> HIDE DEF LoaderInit
    <2> QED BY <2>1, <2>2, <2>3, <2>4, <2>5, <2>6 DEF LoaderTypeOK
  <1>4. BatchShape /\ Counted /\ CancelledLive
    BY <1>2 DEF BatchShape, Counted, CancelledLive
  <1>5. WritesInOrder
    <2>1. Accepted = <<>>
      BY DEF Accepted
    <2> QED BY <1>1, <2>1, InOrderIs DEF Executed
  <1> QED BY <1>3, <1>4, <1>5 DEF LoaderInv

-----------------------------------------------------------------------------
(* The process.                                                            *)

\* TypeOK but for the loader.
ProcessTypeOK ==
  /\ phase \in Starting \cup {"loop", "cancelling", "exited"}
  /\ running \in BOOLEAN /\ code \in {0, 1}
  /\ up \in SUBSET Parts
  /\ next \in 1 .. Migrations + 1 /\ step \in {"ask", "file", "row"}
  /\ tables \in SUBSET (1..Migrations) /\ rows \in SUBSET (1..Migrations)
  /\ theirs \in 0..Migrations
  /\ stop \in [Tasks -> {"none"} \cup Stopping \cup Over]
  /\ kind \in {"socket", "liquidation"} /\ reader \in {"none", "recv", "got", "idle", "ended"}
  /\ reading \in BOOLEAN /\ struck \in BOOLEAN

\* The start steps, by their names.
LEMMA StartingIs ==
  /\ Starting = {"database", "client", "redis", "cache", "migrations", "config", "symbols",
                 "ingestion", "system"}
  /\ After["database"] = "client" /\ After["client"] = "redis" /\ After["redis"] = "cache"
  /\ After["cache"] = "migrations" /\ After["migrations"] = "config"
  /\ After["config"] = "symbols" /\ After["symbols"] = "ingestion"
  /\ After["ingestion"] = "system" /\ After["system"] = "loop"
  BY DEF Starting, After

\* The stop steps, by their names.
LEMMA StoppingIs ==
  /\ Stopping = {"begin", "manager", "monitor", "sockets", "ingestors", "pipeline",
                 "loader", "database", "redis"}
  /\ Then["begin"] = "manager" /\ Then["manager"] = "monitor"
  /\ Then["monitor"] = "sockets" /\ Then["sockets"] = "ingestors"
  /\ Then["ingestors"] = "pipeline"
  /\ Then["pipeline"] = "loader" /\ Then["loader"] = "database"
  /\ Then["database"] = "redis" /\ Then["redis"] = "done"
  BY DEF Stopping, Then

\* A step of main() or of stop() keeps the process well typed.
LEMMA ProcessTypeStep ==
  ASSUME ProcessTypeOK, [Next]_vars
  PROVE  ProcessTypeOK'
  <1> USE LifecycleAssumption DEF LifecycleAssumption, ProcessTypeOK, process, schema, feed
  <1> USE StartingIs, StoppingIs
  <1>1. CASE StartStep
    BY <1>1 DEF StartStep, Brought, Parts, Unheeded
  <1>2. CASE Operational
    BY <1>2 DEF Operational, Parts
  <1>3. CASE StartFails
    <2>1. struck' \in BOOLEAN
      BY <1>3 DEF StartFails, CancelAll, Reads
    <2>2. up' \subseteq Parts
      BY <1>3 DEF StartFails, Brought, Parts, Unheeded
    <2> QED BY <1>3, <2>1, <2>2 DEF StartFails, CancelAll, Over
  <1>4. CASE Ask
    <2>1. next \in 1..Migrations /\ next + 1 \in 1 .. Migrations + 1
      BY <1>4 DEF Ask, Migrating
    <2> QED BY <1>4, <2>1 DEF Ask
  <1>5. CASE ExecuteFile
    <2>1. next \in 1..Migrations
      BY <1>5 DEF ExecuteFile, Migrating
    <2> QED BY <1>5, <2>1 DEF ExecuteFile
  <1>16. CASE InsertRow
    <2>1. next \in 1..Migrations /\ next + 1 \in 1 .. Migrations + 1
      BY <1>16 DEF InsertRow, Migrating
    <2> QED BY <1>16, <2>1 DEF InsertRow
  <1>6. CASE MigrationFails
    <2>1. next \in 1..Migrations
      BY <1>6 DEF MigrationFails, Migrating
    <2>2. tables' \in {tables, tables \cup {next}} /\ rows' \in {rows, rows \cup {next}}
      BY <1>6 DEF MigrationFails
    <2>3. tables' \in SUBSET (1..Migrations) /\ rows' \in SUBSET (1..Migrations)
      BY <2>1, <2>2
    <2>4. struck' \in BOOLEAN
      BY <1>6 DEF MigrationFails, CancelAll, Raises, Reads
    <2> QED BY <1>6, <2>3, <2>4 DEF MigrationFails, CancelAll, Raises, Over
  <1>7. CASE Migrated
    BY <1>7 DEF Migrated
  <1>8. CASE OtherMigrates
    <2>1. CASE \E m \in 1..Migrations :
                 tables' = tables \cup {m} /\ theirs' = m /\ UNCHANGED rows
      BY <1>8, <2>1 DEF OtherMigrates
    <2>2. CASE theirs # 0 /\ theirs' = 0 /\ rows' \in {rows, rows \cup {theirs}}
                 /\ UNCHANGED tables
      <3>1. rows \cup {theirs} \subseteq 1..Migrations
        BY <2>2
      <3> QED BY <1>8, <2>2, <3>1 DEF OtherMigrates
    <2> QED BY <1>8, <2>1, <2>2 DEF OtherMigrates
  <1>9. CASE Signal
    BY <1>9 DEF Signal
  <1>10. CASE MainReturns
    <2>1. struck' \in BOOLEAN
      BY <1>10 DEF MainReturns, CancelAll, Reads
    <2> QED BY <1>10, <2>1 DEF MainReturns, CancelAll, Over
  <1>11. CASE Exit
    BY <1>11 DEF Exit
  <1>12. ASSUME NEW k \in Tasks, Proceed(k) PROVE ProcessTypeOK'
    <2>1. stop[k] \in Stopping /\ stop' = [stop EXCEPT ![k] = Onward(stop[k])]
      BY <1>12 DEF Proceed
    <2>2. Onward(stop[k]) \in Stopping \cup Over
      BY <2>1 DEF Onward, Over
    <2>3. stop' \in [Tasks -> {"none"} \cup Stopping \cup Over]
      BY <2>1, <2>2
    <2>4. reading' \in BOOLEAN /\ struck' \in BOOLEAN
      BY <1>12 DEF Proceed, Reads, Halts
    <2>5. /\ UNCHANGED <<phase, code, next, step, tables, rows, theirs, kind, reader>>
          /\ running' = FALSE /\ up' \subseteq up
      BY <1>12 DEF Proceed
    <2> QED BY <2>3, <2>4, <2>5
  <1>13. ASSUME NEW k \in Tasks, StopRaises(k) PROVE ProcessTypeOK'
    BY <1>13 DEF StopRaises, Over
  <1>14. CASE LoaderSteps
    BY <1>14 DEF LoaderSteps
  <1>15. CASE UNCHANGED vars
    BY <1>15 DEF vars
  <1>17. CASE ReaderSteps
    <2>1. kind' = kind /\ reading' = reading /\ struck' \in BOOLEAN
          /\ reader' \in {"none", "recv", "got", "idle", "ended"}
      BY <1>17 DEF ReaderSteps, Got, GoesOn, ReaderMeetsCancel, ReaderLeaves, Idles
    <2> QED BY <1>17, <2>1 DEF ReaderSteps
  <1> QED BY <1>1, <1>2, <1>3, <1>4, <1>5, <1>6, <1>7, <1>8, <1>9, <1>10, <1>11, <1>12,
             <1>13, <1>14, <1>15, <1>16, <1>17 DEF Next

\* What is over stays over, and what was not begun is not begun by the loader itself.
LEMMA LoaderEnds ==
  ASSUME CancelledLive, NEW open, LoaderNext(open)
  PROVE  /\ task = "ended" => task' = "ended"
         /\ worker = "ended" => worker' = "ended"
         /\ worker = "none" /\ task = "none" => worker' = "none" /\ task' = "none"
         /\ Alive' \subseteq Alive
  <1> USE DEF pipeline, writes, CancelledLive, Alive
  <1>1. CASE XAdd
    BY <1>1 DEF XAdd
  <1>2. CASE Consume
    BY <1>2 DEF Consume
  <1>3. CASE TaskMeetsCancel
    BY <1>3 DEF TaskMeetsCancel
  <1>4. CASE Take
    BY <1>4 DEF Take
  <1>5. CASE Fill
    BY <1>5 DEF Fill
  <1>6. CASE Execute(open)
    BY <1>6 DEF Execute
  <1>7. CASE WorkerMeetsCancel
    BY <1>7 DEF WorkerMeetsCancel
  <1>8. CASE Leave
    BY <1>8 DEF Leave
  <1> QED BY <1>1, <1>2, <1>3, <1>4, <1>5, <1>6, <1>7, <1>8 DEF LoaderNext

\* A step of the process does to the loader what the loader allows.
LEMMA LoaderPartStep ==
  ASSUME LoaderInv, StartInv, [Next]_vars
  PROVE  LoaderInv'
  <1> USE DEF loaderVars
  <1>0. loading \in BOOLEAN
    BY DEF LoaderInv, LoaderTypeOK
  <1>a. ASSUME UNCHANGED loaderVars PROVE LoaderInv'
    BY <1>0, <1>a, CancelsKeepOrder
  <1>1. CASE StartStep
    <2>1. CASE phase = "ingestion"
      BY <1>1, <2>1, StartKeepsOrder, StartingIs DEF StartStep, StartInv
    <2>2. CASE phase # "ingestion"
      BY <1>1, <1>a, <2>2 DEF StartStep
    <2> QED BY <2>1, <2>2
  <1>2. CASE StartFails \/ MainReturns
    <2>1. /\ cancelled' = cancelled \cup Alive
          /\ UNCHANGED <<pipeline, loading, worker, queue, batch, writes>>
      BY <1>2 DEF StartFails, MainReturns, CancelAll
    <2> QED BY <1>0, <2>1, CancelsKeepOrder
  <1>3. CASE MigrationFails
    <2>1. /\ cancelled' = cancelled \cup Alive
          /\ UNCHANGED <<pipeline, loading, worker, queue, batch, writes>>
      BY <1>3 DEF MigrationFails, Raises, CancelAll
    <2> QED BY <1>0, <2>1, CancelsKeepOrder
  <1>4. ASSUME NEW k \in Tasks, Proceed(k) PROVE LoaderInv'
    <2>1. /\ cancelled' \subseteq cancelled \cup Alive /\ loading' \in BOOLEAN
          /\ UNCHANGED <<pipeline, worker, queue, batch, writes>>
      BY <1>4, <1>0 DEF Proceed
    <2> QED BY <2>1, CancelsKeepOrder
  <1>5. CASE LoaderSteps
    BY <1>5, LoaderKeepsOrder DEF LoaderSteps
  <1>6. ASSUME NEW k \in Tasks, StopRaises(k) PROVE LoaderInv'
    BY <1>6, <1>a DEF StopRaises
  <1>7. CASE Operational \/ Ask \/ ExecuteFile \/ InsertRow \/ Migrated \/ OtherMigrates
             \/ Signal \/ Exit \/ ReaderSteps \/ UNCHANGED vars
    <2>1. UNCHANGED loaderVars
      BY <1>7 DEF Operational, Ask, ExecuteFile, InsertRow, Migrated, OtherMigrates, Signal,
                  Exit, ReaderSteps, vars
    <2> QED BY <1>a, <2>1
  <1> QED BY <1>1, <1>2, <1>3, <1>4, <1>5, <1>6, <1>7 DEF Next

\* Nothing runs before its start step has returned (RegimeIQ.start).
LEMMA StartInvStep ==
  ASSUME ProcessTypeOK, LoaderInv, StartInv, [Next]_vars
  PROVE  StartInv'
  <1> USE DEF StartInv, process, schema, loaderVars, pipeline
  <1> USE StartingIs
  <1>1. CASE StartStep
    BY <1>1 DEF StartStep, StartPipeline, Brought
  <1>2. CASE Operational
    BY <1>2 DEF Operational
  <1>3. CASE StartFails
    <2>1. phase \in Starting /\ phase' = "cancelling" /\ running' = running
      BY <1>3 DEF StartFails, CancelAll
    <2>2. \A k \in Tasks : stop'[k] = "none"
      BY <1>3, <2>1, StoppingIs DEF StartFails, CancelAll
    <2> QED BY <2>1, <2>2
  <1>4. CASE Ask
    BY <1>4 DEF Ask
  <1>5. CASE ExecuteFile \/ InsertRow
    BY <1>5 DEF ExecuteFile, InsertRow
  <1>6. CASE MigrationFails
    <2>1. phase = "migrations" /\ phase' = "cancelling" /\ running' = running
      BY <1>6 DEF MigrationFails, Migrating, CancelAll, Raises
    <2>2. \A k \in Tasks : stop'[k] = "none"
      BY <1>6, <2>1, StoppingIs DEF MigrationFails, CancelAll, Raises
    <2> QED BY <2>1, <2>2
  <1>7. CASE Migrated
    BY <1>7 DEF Migrated, ProcessTypeOK
  <1>8. CASE OtherMigrates \/ ReaderSteps
    BY <1>8 DEF OtherMigrates, ReaderSteps
  <1>9. CASE Signal
    <2>1. running /\ UNCHANGED <<phase, running, code, up, worker, task>>
      BY <1>9 DEF Signal
    <2> QED BY <2>1
  <1>10. CASE MainReturns
    <2>1. phase = "loop" /\ phase' = "cancelling" /\ code' = code
      BY <1>10 DEF MainReturns, CancelAll
    <2> QED BY <2>1
  <1>11. CASE Exit
    BY <1>11 DEF Exit
  <1>12. ASSUME NEW k \in Tasks, Proceed(k) PROVE StartInv'
    <2>1. phase \notin Starting
      BY <1>12, StoppingIs DEF Proceed
    <2>2. phase' = phase /\ code' = code
      BY <1>12 DEF Proceed
    <2>3. code = 0
      BY <1>12, StoppingIs DEF Proceed, ProcessTypeOK
    <2> QED BY <2>1, <2>2, <2>3
  <1>13. ASSUME NEW k \in Tasks, StopRaises(k) PROVE StartInv'
    <2>1. phase \notin Starting
      BY <1>13 DEF StopRaises
    <2>2. phase' = phase /\ code' = code
      BY <1>13 DEF StopRaises
    <2>3. code = 0
      BY <1>13 DEF StopRaises, ProcessTypeOK
    <2> QED BY <2>1, <2>2, <2>3
  <1>14. CASE LoaderSteps
    <2>1. worker = "none" /\ task = "none" => worker' = "none" /\ task' = "none"
      BY <1>14, LoaderEnds DEF LoaderSteps, LoaderInv
    <2> QED BY <1>14, <2>1 DEF LoaderSteps
  <1>15. CASE UNCHANGED vars
    BY <1>15 DEF vars
  <1> QED BY <1>1, <1>2, <1>3, <1>4, <1>5, <1>6, <1>7, <1>8, <1>9, <1>10, <1>11, <1>12,
             <1>13, <1>14, <1>15 DEF Next

\* Steps after which no stop task is further on, no part is up that was not, and what
\* is over is over.
LEMMA StopStays ==
  ASSUME StopInv, up' \subseteq up,
         \A k \in Tasks : stop'[k] = stop[k] \/ stop'[k] \in {"none", "begin", "cut", "raised"},
         task = "ended" => task' = "ended", worker = "ended" => worker' = "ended"
  PROVE  StopInv'
  <1> SUFFICES ASSUME NEW k \in Tasks
               PROVE  /\ up' \cap Stopped(stop'[k]) = {}
                      /\ stop'[k] \in {"loader", "database", "redis", "done"} => task' = "ended"
                      /\ stop'[k] \in {"database", "redis", "done"} => worker' = "ended"
    BY DEF StopInv, Stopped
  <1>1. CASE stop'[k] = stop[k]
    BY <1>1 DEF StopInv
  <1>2. CASE stop'[k] \in {"none", "begin", "cut", "raised"}
    BY <1>2 DEF Stopped
  <1> QED BY <1>1, <1>2

\* What stop() is through with does not run (RegimeIQ.stop).
LEMMA StopInvStep ==
  ASSUME ProcessTypeOK, LoaderInv, StartInv, StopInv, [Next]_vars
  PROVE  StopInv'
  <1> USE DEF process, schema, loaderVars, pipeline
  <1>1. CASE StartStep \/ Operational
    <2>1. \A k \in Tasks : stop'[k] = "none"
      BY <1>1, StartingIs DEF StartStep, Operational, StartInv
    <2> QED BY <2>1 DEF StopInv, Stopped
  <1>2. CASE StartFails
    <2>1. \A k \in Tasks : stop'[k] = "none"
      BY <1>2, StoppingIs DEF StartFails, StartInv, CancelAll
    <2> QED BY <2>1 DEF StopInv, Stopped
  <1>3. CASE MigrationFails
    <2>1. \A k \in Tasks : stop'[k] = "none"
      BY <1>3, StoppingIs, StartingIs
         DEF MigrationFails, Migrating, Raises, StartInv, CancelAll
    <2> QED BY <2>1 DEF StopInv, Stopped
  <1>4. CASE MainReturns
    BY <1>4, StopStays DEF MainReturns, CancelAll
  <1>5. CASE Exit
    BY <1>5, StopStays DEF Exit
  <1>6. CASE Signal
    <2>1. \A k \in Tasks : stop'[k] = stop[k] \/ stop'[k] = "begin"
      BY <1>6 DEF Signal, ProcessTypeOK
    <2> QED BY <1>6, <2>1, StopStays DEF Signal
  <1>7. ASSUME NEW k \in Tasks, Proceed(k) PROVE StopInv'
    <2>1. /\ stop[k] \in Stopping /\ Awaited(stop[k])
          /\ stop' = [stop EXCEPT ![k] = Onward(stop[k])]
          /\ up' = up \ (IF stop[k] = "loader" THEN {"dashboard"} ELSE {stop[k]})
          /\ task' = task /\ worker' = worker
      BY <1>7 DEF Proceed
    <2> SUFFICES ASSUME NEW j \in Tasks
                 PROVE  /\ up' \cap Stopped(stop'[j]) = {}
                        /\ stop'[j] \in {"loader", "database", "redis", "done"} => task = "ended"
                        /\ stop'[j] \in {"database", "redis", "done"} => worker = "ended"
      BY <2>1 DEF StopInv, Stopped
    <2>2. CASE j # k
      <3>1. stop'[j] = stop[j] /\ up' \subseteq up
        BY <2>1, <2>2 DEF ProcessTypeOK
      <3> QED BY <3>1 DEF StopInv
    <2>3. CASE j = k
      <3>1. stop'[j] = Onward(stop[k])
        BY <2>1, <2>3 DEF ProcessTypeOK
      <3>2. CASE Onward(stop[k]) = "raised"
        BY <3>1, <3>2 DEF Stopped
      <3>3. CASE Onward(stop[k]) = Then[stop[k]]
        <4>1. up \cap Stopped(stop[k]) = {} /\ up \subseteq Parts
          BY DEF StopInv, ProcessTypeOK
        <4>2. stop[k] \in {"loader", "database", "redis", "done"} => task = "ended"
          BY DEF StopInv
        <4>3. stop[k] \in {"database", "redis", "done"} => worker = "ended"
          BY DEF StopInv
        <4>4. up' \cap Stopped(stop'[j]) = {}
          BY <2>1, <3>1, <3>3, <4>1, StoppingIs DEF Stopped, Parts, Unheeded
        <4>5. stop'[j] \in {"loader", "database", "redis", "done"} => task = "ended"
          BY <2>1, <3>1, <3>3, <4>2, StoppingIs DEF Awaited
        <4>6. stop'[j] \in {"database", "redis", "done"} => worker = "ended"
          BY <2>1, <3>1, <3>3, <4>3, StoppingIs DEF Awaited
        <4> QED BY <4>4, <4>5, <4>6
      <3> QED BY <3>2, <3>3 DEF Onward
    <2> QED BY <2>2, <2>3
  <1>8. ASSUME NEW k \in Tasks, StopRaises(k) PROVE StopInv'
    <2>1. \A j \in Tasks : stop'[j] = stop[j] \/ stop'[j] = "raised"
      BY <1>8 DEF StopRaises, ProcessTypeOK
    <2> QED BY <1>8, <2>1, StopStays DEF StopRaises
  <1>9. CASE LoaderSteps
    <2>1. (task = "ended" => task' = "ended") /\ (worker = "ended" => worker' = "ended")
      BY <1>9, LoaderEnds DEF LoaderSteps, LoaderInv
    <2> QED BY <1>9, <2>1, StopStays DEF LoaderSteps
  <1>10. CASE Ask \/ ExecuteFile \/ InsertRow \/ Migrated \/ OtherMigrates \/ ReaderSteps
              \/ UNCHANGED vars
    <2>1. UNCHANGED <<up, stop, task, worker>>
      BY <1>10 DEF Ask, ExecuteFile, InsertRow, Migrated, OtherMigrates, ReaderSteps, vars
    <2> QED BY <2>1, StopStays
  <1> QED BY <1>1, <1>2, <1>3, <1>4, <1>5, <1>6, <1>7, <1>8, <1>9, <1>10 DEF Next

\* The pool outlives the worker while the process runs.
LEMMA PoolInvStep ==
  ASSUME ProcessTypeOK, LoaderInv, StartInv, StopInv, PoolInv, [Next]_vars
  PROVE  PoolInv'
  <1> USE DEF PoolInv, process, schema, loaderVars, pipeline
  <1> USE StartingIs
  <1>1. CASE StartStep
    BY <1>1 DEF StartStep
  <1>2. CASE Operational
    BY <1>2 DEF Operational, StartInv
  <1>3. CASE StartFails
    BY <1>3 DEF StartFails
  <1>4. CASE MigrationFails
    BY <1>4 DEF MigrationFails, Raises
  <1>5. CASE MainReturns
    BY <1>5 DEF MainReturns, CancelAll
  <1>6. CASE Exit
    BY <1>6 DEF Exit
  <1>7. ASSUME NEW k \in Tasks, Proceed(k) PROVE PoolInv'
    <2>1. /\ UNCHANGED <<phase, code, worker>>
          /\ up' = up \ (IF stop[k] = "loader" THEN {"dashboard"} ELSE {stop[k]})
      BY <1>7 DEF Proceed
    <2>2. stop[k] = "database" => worker = "ended"
      BY DEF StopInv
    <2> QED BY <2>1, <2>2
  <1>8. ASSUME NEW k \in Tasks, StopRaises(k) PROVE PoolInv'
    BY <1>8 DEF StopRaises
  <1>9. CASE LoaderSteps
    <2>1. worker = "ended" => worker' = "ended"
      BY <1>9, LoaderEnds DEF LoaderSteps, LoaderInv
    <2> QED BY <1>9, <2>1 DEF LoaderSteps
  <1>10. CASE Migrated
    BY <1>10 DEF Migrated
  <1>11. CASE Ask \/ ExecuteFile \/ InsertRow \/ OtherMigrates \/ Signal \/ ReaderSteps
              \/ UNCHANGED vars
    <2>1. UNCHANGED <<phase, code, up, worker>>
      BY <1>11 DEF Ask, ExecuteFile, InsertRow, OtherMigrates, Signal, ReaderSteps, vars
    <2> QED BY <2>1
  <1> QED BY <1>1, <1>2, <1>3, <1>4, <1>5, <1>6, <1>7, <1>8, <1>9, <1>10, <1>11 DEF Next

\* What nothing closes or waits for stays, once begun (RegimeIQ.stop).
LEMMA UnheededInvStep ==
  ASSUME ProcessTypeOK, StartInv, UnheededInv, [Next]_vars
  PROVE  UnheededInv'
  <1> USE DEF UnheededInv, process
  <1> USE StartingIs
  <1>1. CASE StartStep
    BY <1>1 DEF StartStep, Brought
  <1>2. CASE Operational
    <2>1. Unheeded \subseteq up
      BY <1>2 DEF Operational, Unheeded
    <2> QED BY <1>2, <2>1 DEF Operational
  <1>3. CASE StartFails \/ MigrationFails
    <2>1. phase' = "cancelling" /\ code' = 1
      BY <1>3 DEF StartFails, MigrationFails, CancelAll, Raises
    <2> QED BY <2>1
  <1>4. CASE Migrated
    BY <1>4 DEF Migrated
  <1>5. CASE MainReturns
    BY <1>5 DEF MainReturns, CancelAll
  <1>6. CASE Exit
    BY <1>6 DEF Exit
  <1>7. ASSUME NEW k \in Tasks, Proceed(k) PROVE UnheededInv'
    <2>1. phase \notin Starting /\ UNCHANGED <<phase, code>>
      BY <1>7, StoppingIs DEF Proceed, StartInv
    <2>2. up' = up \ (IF stop[k] = "loader" THEN {"dashboard"} ELSE {stop[k]})
          /\ stop[k] \in Stopping
      BY <1>7 DEF Proceed
    <2>3. Unheeded \subseteq up => Unheeded \subseteq up'
      BY <2>2, StoppingIs DEF Unheeded
    <2> QED BY <2>1, <2>2, <2>3
  <1>8. ASSUME NEW k \in Tasks, StopRaises(k) PROVE UnheededInv'
    BY <1>8 DEF StopRaises
  <1>9. CASE Ask \/ ExecuteFile \/ InsertRow \/ OtherMigrates \/ Signal \/ LoaderSteps
             \/ ReaderSteps \/ UNCHANGED vars
    <2>1. UNCHANGED <<phase, code, up>>
      BY <1>9 DEF Ask, ExecuteFile, InsertRow, OtherMigrates, Signal, LoaderSteps, ReaderSteps,
                  vars
    <2> QED BY <2>1
  <1> QED BY <1>1, <1>2, <1>3, <1>4, <1>5, <1>6, <1>7, <1>8, <1>9 DEF Next

\* Steps after which no stop task is further on and the reader is not begun again.
LEMMA ReaderStays ==
  ASSUME ReaderInv, kind' = kind, reading' = reading,
         \A k \in Tasks : stop'[k] = stop[k] \/ stop'[k] \in {"none", "begin", "cut", "raised"},
         reader = "ended" => reader' = "ended"
  PROVE  ReaderInv'
  BY DEF ReaderInv

\* A stop task that is through with the ingestors has told the reader to stop, and the
\* liquidation reader has ended (DataExtractor.stop, BinanceFuturesIngestor.stop).
LEMMA ReaderInvStep ==
  ASSUME ProcessTypeOK, StartInv, ReaderInv, [Next]_vars
  PROVE  ReaderInv'
  <1> USE DEF process, schema, feed
  <1>1. CASE StartStep \/ Operational \/ StartFails \/ MigrationFails
    <2>1. \A k \in Tasks : stop[k] = "none"
      BY <1>1, StartingIs
         DEF StartStep, Operational, StartFails, MigrationFails, Migrating, StartInv
    <2>2. \A k \in Tasks : stop'[k] = "none"
      BY <1>1, <2>1, StoppingIs
         DEF StartStep, Operational, StartFails, MigrationFails, CancelAll, Raises
    <2> QED BY <2>2 DEF ReaderInv
  <1>2. CASE MainReturns
    BY <1>2, ReaderStays DEF MainReturns, CancelAll
  <1>3. CASE Signal
    <2>1. \A k \in Tasks : stop'[k] = stop[k] \/ stop'[k] = "begin"
      BY <1>3 DEF Signal, ProcessTypeOK
    <2> QED BY <1>3, <2>1, ReaderStays DEF Signal
  <1>4. ASSUME NEW k \in Tasks, Proceed(k) PROVE ReaderInv'
    <2>1. /\ stop[k] \in Stopping /\ Awaited(stop[k])
          /\ stop' = [stop EXCEPT ![k] = Onward(stop[k])]
          /\ reading' = (reading /\ ~Halts(stop'[k]))
          /\ kind' = kind /\ reader' = reader
      BY <1>4 DEF Proceed
    <2>2. ASSUME NEW j \in Tasks, j # k
          PROVE  /\ stop'[j] = "sockets" /\ kind' = "socket" => ~reading'
                 /\ stop'[j] = "ingestors" => ~reading'
                 /\ stop'[j] \in {"pipeline", "loader", "database", "redis", "done"} =>
                      ~reading' /\ (kind' = "liquidation" => reader' = "ended")
      <3>1. stop'[j] = stop[j]
        BY <2>1, <2>2 DEF ProcessTypeOK
      <3> QED BY <2>1, <3>1 DEF ReaderInv
    <2>3. stop'[k] = Onward(stop[k])
      BY <2>1 DEF ProcessTypeOK
    <2>4. stop'[k] = "sockets" /\ kind' = "socket" => ~reading'
      BY <2>1 DEF Halts
    <2>5. stop'[k] = "ingestors" => ~reading'
      <3>1. CASE kind = "socket" /\ stop'[k] = "ingestors"
        <4>1. stop[k] = "sockets"
          BY <2>1, <2>3, <3>1, StoppingIs DEF Onward
        <4> QED BY <2>1, <3>1, <4>1 DEF ReaderInv
      <3>2. CASE kind = "liquidation" /\ stop'[k] = "ingestors"
        BY <2>1, <3>2 DEF Halts
      <3> QED BY <3>1, <3>2 DEF ProcessTypeOK
    <2>6. stop'[k] \in {"pipeline", "loader", "database", "redis", "done"} =>
            ~reading' /\ (kind' = "liquidation" => reader' = "ended")
      <3> SUFFICES ASSUME stop'[k] \in {"pipeline", "loader", "database", "redis", "done"}
                   PROVE  ~reading' /\ (kind' = "liquidation" => reader' = "ended")
        OBVIOUS
      <3>1. stop[k] \in {"ingestors", "pipeline", "loader", "database", "redis"}
        BY <2>1, <2>3, StoppingIs DEF Onward
      <3>2. ~reading
        BY <3>1 DEF ReaderInv
      <3>3. kind = "liquidation" => reader = "ended"
        BY <2>1, <3>1 DEF ReaderInv, Awaited
      <3> QED BY <2>1, <3>2, <3>3
    <2> QED BY <2>2, <2>4, <2>5, <2>6 DEF ReaderInv
  <1>5. ASSUME NEW k \in Tasks, StopRaises(k) PROVE ReaderInv'
    <2>1. \A j \in Tasks : stop'[j] = stop[j] \/ stop'[j] = "raised"
      BY <1>5 DEF StopRaises, ProcessTypeOK
    <2> QED BY <1>5, <2>1, ReaderStays DEF StopRaises
  <1>6. CASE ReaderSteps
    <2>1. kind' = kind /\ reading' = reading /\ (reader = "ended" => reader' = "ended")
      BY <1>6 DEF ReaderSteps, Got, GoesOn, ReaderMeetsCancel, ReaderLeaves, Idles
    <2>2. stop' = stop
      BY <1>6 DEF ReaderSteps
    <2> QED BY <2>1, <2>2, ReaderStays
  <1>7. CASE Ask \/ ExecuteFile \/ InsertRow \/ Migrated \/ OtherMigrates \/ Exit
             \/ LoaderSteps \/ UNCHANGED vars
    <2>1. UNCHANGED <<stop, kind, reader, reading>>
      BY <1>7 DEF Ask, ExecuteFile, InsertRow, Migrated, OtherMigrates, Exit, LoaderSteps, vars
    <2> QED BY <2>1, ReaderStays
  <1> QED BY <1>1, <1>2, <1>3, <1>4, <1>5, <1>6, <1>7 DEF Next

\* Every member of a set of migrations has all before it in the set.
Whole(A) == \A m \in A : 1..m \subseteq A

\* One more migration on top of all before it.
LEMMA OneMore ==
  ASSUME NEW A \in SUBSET (1..Migrations), NEW n \in 1..Migrations, 1 .. n - 1 \subseteq A,
         Whole(A)
  PROVE  Whole(A \cup {n}) /\ 1..n \subseteq A \cup {n}
  <1>1. Migrations \in Nat
    BY LifecycleAssumption DEF LifecycleAssumption
  <1>2. 1..n \subseteq A \cup {n}
    <2>1. \A i \in 1..n : i \in 1 .. n - 1 \/ i = n
      BY <1>1
    <2> QED BY <2>1
  <1> QED BY <1>2 DEF Whole

\* Steps that leave the schema alone and do not get past the migrations.
LEMMA SchemaStays ==
  ASSUME SchemaInv, UNCHANGED schema, phase' \in Ready => phase \in Ready,
         step = "row" => phase' \in {"migrations", "cancelling", "exited"}
  PROVE  SchemaInv'
  BY DEF SchemaInv, SchemaComplete, schema

\* A file is executed only on top of the rows before it, and a row entered only on top
\* of its file, by the process that executed it (run_migrations).
LEMMA SchemaInvStep ==
  ASSUME ProcessTypeOK, SchemaInv, [Next]_vars
  PROVE  SchemaInv'
  <1>1. /\ Whole(tables) /\ Whole(rows) /\ rows \subseteq tables
        /\ 1 .. next - 1 \subseteq rows
        /\ phase \in Ready => rows = 1..Migrations
        /\ step = "row" =>
             next \in tables /\ next # theirs /\ phase \in {"migrations", "cancelling", "exited"}
        /\ theirs # 0 => theirs \in tables /\ 1 .. theirs - 1 \subseteq rows
    BY DEF SchemaInv, SchemaComplete, Whole
  <1>2. /\ tables \in SUBSET (1..Migrations) /\ rows \in SUBSET (1..Migrations)
        /\ next \in 1 .. Migrations + 1 /\ Migrations \in Nat /\ theirs \in 0..Migrations
        /\ step \in {"ask", "file", "row"}
    BY LifecycleAssumption DEF ProcessTypeOK, LifecycleAssumption
  <1>3. SUFFICES
          /\ Whole(tables') /\ Whole(rows') /\ rows' \subseteq tables'
          /\ 1 .. next' - 1 \subseteq rows'
          /\ phase' \in Ready => rows' = 1..Migrations
          /\ step' = "row" => /\ next' \in tables' /\ next' # theirs'
                              /\ phase' \in {"migrations", "cancelling", "exited"}
          /\ theirs' # 0 => theirs' \in tables' /\ 1 .. theirs' - 1 \subseteq rows'
    BY DEF SchemaInv, SchemaComplete, Whole
  <1> USE DEF process
  <1>4. CASE StartStep \/ Operational \/ StartFails \/ MainReturns \/ Exit \/ Signal
             \/ LoaderSteps \/ ReaderSteps \/ UNCHANGED vars
    <2>1. UNCHANGED schema
      BY <1>4 DEF StartStep, Operational, StartFails, MainReturns, CancelAll, Exit, Signal,
                  LoaderSteps, ReaderSteps, vars
    <2>2. \/ phase' \in {"cancelling", "exited"}
          \/ phase' = phase
          \/ phase \in Starting \ {"migrations"} /\ phase' = After[phase]
      BY <1>4, StartingIs
         DEF StartStep, Operational, StartFails, MainReturns, CancelAll, Exit, Signal,
             LoaderSteps, ReaderSteps, vars
    <2>3. /\ phase' \in Ready => phase \in Ready
          /\ phase \in {"migrations", "cancelling", "exited"} =>
               phase' \in {"migrations", "cancelling", "exited"}
      BY <2>2, StartingIs DEF Ready
    <2>4. SchemaInv'
      BY <1>1, <2>1, <2>3, SchemaStays
    <2> QED BY <2>4 DEF SchemaInv, SchemaComplete, Whole
  <1>5. ASSUME NEW k \in Tasks, Proceed(k) \/ StopRaises(k) PROVE SchemaInv'
    <2>1. UNCHANGED <<phase, schema>>
      BY <1>5 DEF Proceed, StopRaises
    <2> QED BY <1>1, <2>1, SchemaStays
  <1>6. CASE Ask
    <2>1. /\ UNCHANGED <<phase, tables, rows, theirs>> /\ step' # "row"
          /\ next' = next \/ (next' = next + 1 /\ next \in rows)
      BY <1>6 DEF Ask, Migrating
    <2>2. 1 .. next' - 1 \subseteq rows
      <3>1. CASE next' = next
        BY <1>1, <3>1
      <3>2. CASE next' = next + 1 /\ next \in rows
        <4>1. 1 .. next' - 1 = 1..next
          BY <1>2, <3>2
        <4> QED BY <1>1, <3>2, <4>1 DEF Whole
      <3> QED BY <2>1, <3>1, <3>2
    <2> QED BY <1>1, <2>1, <2>2
  <1>7. CASE ExecuteFile
    <2>1. /\ next \in 1..Migrations /\ next \notin tables /\ tables' = tables \cup {next}
          /\ UNCHANGED <<phase, next, rows, theirs>> /\ phase = "migrations"
      BY <1>2, <1>7 DEF ExecuteFile, Migrating
    <2>2. Whole(tables \cup {next})
      BY <1>1, <1>2, <2>1, OneMore
    <2>3. theirs # next
      BY <1>1, <1>2, <2>1
    <2> QED BY <1>1, <2>1, <2>2, <2>3
  <1>8. CASE InsertRow
    <2>1. /\ next \in 1..Migrations /\ rows' = rows \cup {next} /\ step' = "ask"
          /\ UNCHANGED <<tables, theirs>> /\ next' = next + 1
          /\ phase' = "migrations" /\ next \in tables
      BY <1>1, <1>2, <1>8 DEF InsertRow, Migrating
    <2>2. Whole(rows \cup {next}) /\ 1..next \subseteq rows \cup {next}
      BY <1>1, <1>2, <2>1, OneMore
    <2>3. 1 .. next' - 1 = 1..next
      BY <2>1
    <2>4. phase' \notin Ready
      BY <2>1 DEF Ready
    <2> QED BY <1>1, <2>1, <2>2, <2>3, <2>4
  <1>9. CASE MigrationFails
    <2>1. /\ next \in 1..Migrations /\ UNCHANGED <<next, step, theirs>>
          /\ phase' = "cancelling"
          /\ tables' \in {tables, tables \cup {next}} /\ rows' \in {rows, rows \cup {next}}
          /\ rows' = rows \/ step = "row"
          /\ tables' = tables \/ step = "file"
      BY <1>2, <1>9 DEF MigrationFails, Migrating, Raises, CancelAll
    <2>2. Whole(tables \cup {next}) /\ Whole(rows \cup {next})
      BY <1>1, <1>2, <2>1, OneMore
    <2>3. Whole(tables') /\ Whole(rows') /\ rows' \subseteq tables'
      BY <1>1, <2>1, <2>2
    <2>4. phase' \notin Ready
      BY <2>1 DEF Ready
    <2> QED BY <1>1, <2>1, <2>3, <2>4
  <1>10. CASE Migrated
    <2>1. next - 1 = Migrations /\ UNCHANGED <<next, step, tables, rows, theirs>>
      BY <1>2, <1>10 DEF Migrated, schema
    <2>2. rows = 1..Migrations
      BY <1>1, <1>2, <2>1
    <2>3. step # "row"
      BY <1>1, <1>2, <2>1
    <2> QED BY <1>1, <2>1, <2>2, <2>3
  <1>11. CASE OtherMigrates
    <2>1. UNCHANGED <<phase, next, step>>
      BY <1>11 DEF OtherMigrates
    <2>2. CASE \E m \in 1..Migrations :
                 /\ theirs = 0 /\ m \notin tables /\ 1 .. m - 1 \subseteq rows
                 /\ tables' = tables \cup {m} /\ theirs' = m /\ UNCHANGED rows
      <3>1. PICK m \in 1..Migrations :
              /\ m \notin tables /\ 1 .. m - 1 \subseteq rows
              /\ tables' = tables \cup {m} /\ theirs' = m /\ rows' = rows
        BY <2>2
      <3>2. Whole(tables \cup {m})
        BY <1>1, <1>2, <3>1, OneMore
      <3> QED BY <1>1, <2>1, <3>1, <3>2
    <2>3. CASE /\ theirs # 0 /\ theirs' = 0
               /\ rows' \in {rows, rows \cup {theirs}} /\ UNCHANGED tables
      <3>1. theirs \in 1..Migrations
        BY <1>2, <2>3
      <3>2. Whole(rows \cup {theirs})
        BY <1>1, <1>2, <2>3, <3>1, OneMore
      <3>3. Whole(rows') /\ rows \subseteq rows' /\ rows' \subseteq tables
            /\ rows' \in SUBSET (1..Migrations)
        BY <1>1, <1>2, <2>3, <3>1, <3>2
      <3>4. next \in tables => next # 0
        BY <1>2
      <3> QED BY <1>1, <1>2, <2>1, <2>3, <3>3, <3>4
    <2> QED BY <1>11, <2>2, <2>3 DEF OtherMigrates
  <1>12. SchemaInv' =>
          /\ Whole(tables') /\ Whole(rows') /\ rows' \subseteq tables'
          /\ 1 .. next' - 1 \subseteq rows'
          /\ phase' \in Ready => rows' = 1..Migrations
          /\ step' = "row" => /\ next' \in tables' /\ next' # theirs'
                              /\ phase' \in {"migrations", "cancelling", "exited"}
          /\ theirs' # 0 => theirs' \in tables' /\ 1 .. theirs' - 1 \subseteq rows'
    BY DEF SchemaInv, SchemaComplete, Whole
  <1> QED BY <1>4, <1>5, <1>6, <1>7, <1>8, <1>9, <1>10, <1>11, <1>12 DEF Next

\* The inductive invariant.
LifeInv ==
  /\ ProcessTypeOK /\ LoaderInv
  /\ StartInv /\ UnheededInv /\ StopInv /\ ReaderInv /\ PoolInv
  /\ SchemaInv

\* The invariant holds when the process is made.
LEMMA LifeInit == Init => LifeInv
  <1> SUFFICES ASSUME Init PROVE LifeInv
    OBVIOUS
  <1> USE LifecycleAssumption, StartingIs, StoppingIs DEF LifecycleAssumption
  <1>1. LoaderInv
    BY LoaderBegins DEF Init
  <1>2. PICK n \in 0..Migrations, m \in 0..Migrations :
          m <= n /\ tables = 1..n /\ rows = 1..m
    <2>1. PICK n \in 0..Migrations, m \in 0..Migrations :
            (m \in {n, n - 1} \/ (m = 0 /\ n = Migrations)) /\ tables = 1..n /\ rows = 1..m
      BY Zenon DEF Init
    <2>2. m <= n
      BY <2>1
    <2> QED BY <2>1, <2>2
  <1>3. /\ phase = "database" /\ running = FALSE /\ code = 0 /\ up = {}
        /\ next = 1 /\ step = "ask" /\ theirs = 0
        /\ stop = [k \in Tasks |-> "none"] /\ worker = "none" /\ task = "none"
        /\ kind \in {"socket", "liquidation"} /\ reader = "none"
        /\ reading = FALSE /\ struck = FALSE
    BY DEF Init, LoaderInit
  <1>4. ProcessTypeOK
    <2>1. tables \subseteq 1..Migrations /\ rows \subseteq 1..Migrations
      BY <1>2
    <2>2. next \in 1 .. Migrations + 1 /\ theirs \in 0..Migrations
      BY <1>3
    <2> QED BY <1>3, <2>1, <2>2 DEF ProcessTypeOK
  <1>5. StartInv /\ StopInv /\ PoolInv /\ UnheededInv /\ ReaderInv
    BY <1>3 DEF StartInv, StopInv, PoolInv, Stopped, UnheededInv, ReaderInv
  <1>6. SchemaInv
    <2>1. /\ \A i \in tables : 1..i \subseteq tables
          /\ \A i \in rows : 1..i \subseteq rows
          /\ rows \subseteq tables
      BY <1>2
    <2> QED BY <1>3, <2>1 DEF SchemaInv, SchemaComplete, Ready
  <1> QED BY <1>1, <1>4, <1>5, <1>6 DEF LifeInv

\* Every step of the process keeps it.
LEMMA LifeStep == LifeInv /\ [Next]_vars => LifeInv'
  BY ProcessTypeStep, LoaderPartStep, StartInvStep, UnheededInvStep, StopInvStep,
     ReaderInvStep, PoolInvStep, SchemaInvStep
     DEF LifeInv

\* The invariant of every reachable state of the process.
LEMMA LifeAlways == Spec => []LifeInv
  BY LifeInit, LifeStep, PTL DEF Spec

\* The variables of process, schema, reader and loader keep their types, the queue and
\* the batch their bounds (Queue(maxsize), _execute_batch's limit).
THEOREM LifecycleTypeCorrect == Spec => []TypeOK
  <1>1. LifeInv => TypeOK
    BY DEF LifeInv, ProcessTypeOK, LoaderInv, TypeOK
  <1> QED BY <1>1, LifeAlways, PTL

\* No write that the queue took is lost, repeated or overtaken, whenever the worker is
\* cancelled or the pool closed (_enqueue_db_write, _db_worker, _execute_batch).
THEOREM WritesStayInOrder == Spec => []WritesInOrder
  <1>1. LifeInv => WritesInOrder
    BY DEF LifeInv, LoaderInv
  <1> QED BY <1>1, LifeAlways, PTL

\* Files are executed and rows entered in order and without a gap, by two processes and
\* with a failure between a file and its row; no row is there without its file, and
\* start() does not go on before the last row (run_migrations).
THEOREM SchemaStaysComplete == Spec => []SchemaComplete
  <1>1. LifeInv => SchemaComplete
    BY DEF LifeInv, SchemaInv
  <1> QED BY <1>1, LifeAlways, PTL

\* A file that is executed and has lost its row never gets it: no start enters a row
\* but after executing the file, which raises the second time (run_migrations).
THEOREM FilesWithoutRowStay == Spec => OrphansStay
  <1>1. LifeInv /\ [Next]_vars => [Orphans \subseteq Orphans']_vars
    <2> SUFFICES ASSUME LifeInv, [Next]_vars, NEW m \in Orphans
                 PROVE  m \in Orphans'
      OBVIOUS
    <2>1. /\ m \in tables /\ m \notin rows /\ m # theirs
          /\ ~(phase = "migrations" /\ step = "row" /\ m = next)
      BY DEF Orphans
    <2>2. /\ tables \in SUBSET (1..Migrations)
          /\ step = "row" => phase \in {"migrations", "cancelling", "exited"}
          /\ step = "row" => next \in tables
      BY DEF LifeInv, ProcessTypeOK, SchemaInv
    <2>3. m # 0
      BY <2>1, <2>2, LifecycleAssumption DEF LifecycleAssumption
    <2> SUFFICES /\ m \in tables' /\ m \notin rows' /\ m # theirs'
                 /\ ~(phase' = "migrations" /\ step' = "row" /\ m = next')
      BY DEF Orphans
    <2>4. CASE ExecuteFile
      BY <2>1, <2>4 DEF ExecuteFile, process
    <2>5. CASE InsertRow
      BY <2>1, <2>5 DEF InsertRow, Migrating
    <2>6. CASE MigrationFails
      <3>1. /\ tables \subseteq tables' /\ theirs' = theirs /\ phase' = "cancelling"
            /\ rows' = rows \/ (step = "row" /\ rows' = rows \cup {next})
            /\ phase = "migrations"
        BY <2>6 DEF MigrationFails, Migrating, Raises, CancelAll
      <3> QED BY <2>1, <3>1
    <2>7. CASE OtherMigrates
      BY <2>1, <2>3, <2>7 DEF OtherMigrates, process
    <2>8. CASE Ask
      BY <2>1, <2>8 DEF Ask, process
    <2>9. CASE StartStep
      <3>1. UNCHANGED schema /\ phase # "migrations" /\ phase \in Starting
        BY <2>9 DEF StartStep
      <3>2. step # "row"
        BY <2>2, <3>1, StartingIs
      <3> QED BY <2>1, <3>1, <3>2 DEF schema
    <2>10. CASE Operational \/ StartFails \/ MainReturns \/ Exit \/ Migrated
      <3>1. UNCHANGED schema /\ phase' # "migrations"
        BY <2>10, StartingIs
           DEF Operational, StartFails, MainReturns, CancelAll, Exit, Migrated
      <3> QED BY <2>1, <3>1 DEF schema
    <2>11. CASE Signal \/ LoaderSteps \/ ReaderSteps \/ UNCHANGED vars
                \/ \E k \in Tasks : Proceed(k) \/ StopRaises(k)
      <3>1. UNCHANGED <<schema, phase>>
        BY <2>11 DEF Signal, LoaderSteps, ReaderSteps, vars, Proceed, StopRaises, process
      <3> QED BY <2>1, <3>1 DEF schema
    <2> QED BY <2>4, <2>5, <2>6, <2>7, <2>8, <2>9, <2>10, <2>11 DEF Next
  <1> QED BY <1>1, LifeAlways, PTL DEF Spec, OrphansStay

\* A stop() that ends leaves neither pipeline nor worker nor liquidation reader, and of
\* the parts just those it does not wait for, however many stop tasks run beside it and
\* whenever main() cancels them; the pool is closed after the last write (RegimeIQ.stop,
\* DataExtractor.stop, Pipeline.stop, Loader.stop).
THEOREM StoppedStaysStopped == Spec => []StoppedIsStopped
  <1>1. LifeInv => StoppedIsStopped
    <2> SUFFICES ASSUME LifeInv PROVE StoppedIsStopped
      OBVIOUS
    <2>1. ASSUME NEW k \in Tasks, stop[k] \in {"redis", "done"} PROVE Alive = {}
      BY <2>1 DEF LifeInv, StopInv, Alive
    <2>2. ASSUME NEW k \in Tasks, stop[k] \in {"redis", "done"}
          PROVE  ~reading /\ (kind = "liquidation" => reader = "ended")
      BY <2>2 DEF LifeInv, ReaderInv
    <2>3. ASSUME NEW k \in Tasks, stop[k] = "done" PROVE up \subseteq Unheeded
      BY <2>3 DEF LifeInv, StopInv, Stopped, ProcessTypeOK
    <2>4. ASSUME NEW k \in Tasks, stop[k] = "done", phase # "exited"
          PROVE  Unheeded \subseteq up
      <3>1. phase \notin Starting /\ code # 1
        BY <2>4 DEF LifeInv, StartInv
      <3>2. phase \in {"loop", "cancelling"} /\ code = 0
        BY <2>4, <3>1 DEF LifeInv, ProcessTypeOK
      <3> QED BY <3>2 DEF LifeInv, UnheededInv
    <2>5. phase \in {"loop", "cancelling"} /\ "database" \notin up /\ code = 0
            => worker = "ended"
      BY DEF LifeInv, PoolInv
    <2>6. phase = "exited" /\ up # {} => \A k \in Tasks : stop[k] # "done"
      BY DEF LifeInv, UnheededInv, StopInv, Stopped, Parts, Unheeded
    <2> QED BY <2>1, <2>2, <2>3, <2>4, <2>5, <2>6 DEF StoppedIsStopped
  <1> QED BY <1>1, LifeAlways, PTL
=============================================================================
