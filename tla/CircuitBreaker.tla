--------------------------- MODULE CircuitBreaker ---------------------------
(***************************************************************************)
(* core/circuit_breaker.py: one CircuitBreaker shared by concurrent        *)
(* callers.                                                                *)
(*                                                                         *)
(* `call` takes the lock twice: once to admit the call and, after the      *)
(* protected function has been awaited without the lock, once to record    *)
(* its result.  Neither locked section suspends, so each is one action;    *)
(* everything else may happen in between.                                  *)
(*                                                                         *)
(* The failure timestamps are a set of pairs <<t, k>>, the k-th failure at *)
(* time t: the code never reads their order, it counts the recent ones.    *)
(***************************************************************************)
EXTENDS Integers, FiniteSets

CONSTANTS Callers,           (* the coroutines that use the breaker         *)
          FailureThreshold,  (* CircuitBreakerConfig.failure_threshold      *)
          WindowSeconds,     (* CircuitBreakerConfig.window_seconds         *)
          WaitSeconds,       (* CircuitBreakerConfig.wait_seconds           *)
          HalfOpenMaxCalls,  (* CircuitBreakerConfig.half_open_max_calls    *)
          MaxTime            (* bound of the clock                          *)

ASSUME BreakerAssumption ==
  /\ IsFiniteSet(Callers)
  /\ FailureThreshold \in Nat \ {0}
  /\ WindowSeconds \in Nat
  /\ WaitSeconds \in Nat
  /\ HalfOpenMaxCalls \in Nat \ {0}
  /\ MaxTime \in Nat \ {0}

VARIABLES
  now,            \* time.time(), in seconds
  state,          \* _state
  failures,       \* _failure_timestamps
  lastOpened,     \* _last_opened_time, with 0 for None (both are falsy)
  halfOpenCalls,  \* _half_open_calls
  pc,             \* where each caller is; a "probe" was admitted by the
                  \* half-open period that is still going on
  lost            \* history: probes of this half-open period that were cancelled

breakerVars == <<now, state, failures, lastOpened, halfOpenCalls, pc, lost>>

CircuitState == {"closed", "open", "half_open"}
Times        == 1..MaxTime

BreakerTypeOK ==
  /\ now \in Times
  /\ state \in CircuitState
  /\ failures \in SUBSET (Times \X Nat) /\ IsFiniteSet(failures)
  /\ lastOpened \in 0..MaxTime
  /\ halfOpenCalls \in Nat
  /\ pc \in [Callers -> {"idle", "rejected", "call", "probe"}]
  /\ lost \in Nat

BreakerInit ==
  /\ now = 1
  /\ state = "closed"
  /\ failures = {}
  /\ lastOpened = 0
  /\ halfOpenCalls = 0
  /\ pc = [c \in Callers |-> "idle"]
  /\ lost = 0

Probes   == {c \in Callers : pc[c] = "probe"}
InFlight == {c \in Callers : pc[c] \in {"call", "probe"}}

\* pc once `c` has returned from a half-open period that its result ends: the
\* calls still in flight were admitted by a period that is over.
PeriodOver(c) ==
  [d \in Callers |-> IF d = c THEN "idle"
                     ELSE IF pc[d] = "probe" THEN "call" ELSE pc[d]]

-----------------------------------------------------------------------------
\* The first locked section of `call`.

\* Mutant: the elapsed time is not tested.
WaitElapsed_NoWait == state = "open" /\ lastOpened # 0

\* _check_state_transition moves an open breaker to half-open.
WaitElapsed ==
  /\ state = "open"
  /\ lastOpened # 0
  /\ now - lastOpened >= WaitSeconds

\* The state and the half-open count that the admission test sees.
StateSeen == IF WaitElapsed THEN "half_open" ELSE state

\* Mutant: entering half-open does not reset the count.
CallsSeen_NotReset == halfOpenCalls
CallsSeen == IF WaitElapsed THEN 0 ELSE halfOpenCalls

Admits == \/ StateSeen = "closed"
          \/ StateSeen = "half_open" /\ CallsSeen < HalfOpenMaxCalls

Admit(c) ==
  /\ c \notin InFlight
  /\ Admits
  /\ state' = StateSeen
  /\ IF StateSeen = "half_open"
     THEN /\ halfOpenCalls' = CallsSeen + 1
          /\ pc' = [pc EXCEPT ![c] = "probe"]
     ELSE /\ pc' = [pc EXCEPT ![c] = "call"]
          /\ UNCHANGED halfOpenCalls
  /\ lost' = IF WaitElapsed THEN 0 ELSE lost
  /\ UNCHANGED <<now, failures, lastOpened>>

\* CircuitBreakerOpen is raised.
Reject(c) ==
  /\ c \notin InFlight
  /\ ~Admits
  /\ pc' = [pc EXCEPT ![c] = "rejected"]
  /\ UNCHANGED <<now, state, failures, lastOpened, halfOpenCalls, lost>>

-----------------------------------------------------------------------------
\* The second locked section.

\* _on_success
Succeed(c) ==
  /\ c \in InFlight
  /\ IF state = "half_open"
     THEN /\ state' = "closed"
          /\ failures' = {}
          /\ halfOpenCalls' = 0
          /\ pc' = PeriodOver(c)
          /\ lost' = 0
     ELSE /\ pc' = [pc EXCEPT ![c] = "idle"]
          /\ UNCHANGED <<state, failures, halfOpenCalls, lost>>
  /\ UNCHANGED <<now, lastOpened>>

\* append(now)
RecordFailure(f) == f \cup {<<now, Cardinality({e \in f : e[1] = now}) + 1>>}

\* _clean_old_failures: only the failures after now - window_seconds are kept.
CleanOldFailures(f) == {e \in f : e[1] > now - WindowSeconds}

ThresholdReached(f) == Cardinality(f) >= FailureThreshold

\* Mutant: a failed probe does not re-open the circuit.
Trips_NotHalfOpen(f) == state = "closed" /\ ThresholdReached(f)
\* Mutant: a late failure re-opens a circuit that is open already.
Trips_AlsoOpen(f) == state = "half_open" \/ ThresholdReached(f)
Trips(f) == \/ state = "half_open"
            \/ state = "closed" /\ ThresholdReached(f)

\* _on_failure
Fail(c) ==
  LET recorded == CleanOldFailures(RecordFailure(failures)) IN
  /\ c \in InFlight
  /\ failures' = recorded
  /\ IF Trips(recorded)
     THEN state' = "open" /\ lastOpened' = now
     ELSE UNCHANGED <<state, lastOpened>>
  /\ IF state = "half_open" /\ state' = "open"
     THEN pc' = PeriodOver(c) /\ lost' = 0
     ELSE pc' = [pc EXCEPT ![c] = "idle"] /\ UNCHANGED lost
  /\ UNCHANGED <<now, halfOpenCalls>>

\* The caller is cancelled while it awaits the function: CancelledError is not
\* an Exception, so neither _on_success nor _on_failure runs.
Cancel(c) ==
  /\ c \in InFlight
  /\ lost' = IF pc[c] = "probe" THEN lost + 1 ELSE lost
  /\ pc' = [pc EXCEPT ![c] = "idle"]
  /\ UNCHANGED <<now, state, failures, lastOpened, halfOpenCalls>>

Tick ==
  /\ now < MaxTime
  /\ now' = now + 1
  /\ UNCHANGED <<state, failures, lastOpened, halfOpenCalls, pc, lost>>

Call(c)   == Admit(c) \/ Reject(c)
Return(c) == Succeed(c) \/ Fail(c) \/ Cancel(c)

BreakerNext == Tick \/ \E c \in Callers : Call(c) \/ Return(c)

BreakerSpec == BreakerInit /\ [][BreakerNext]_breakerVars

\* Time passes, the protected functions return, and each caller calls again
\* (as a polling loop does).
FairSpec ==
  /\ BreakerSpec
  /\ WF_breakerVars(Tick)
  /\ \A c \in Callers : WF_breakerVars(Call(c)) /\ WF_breakerVars(Return(c))
-----------------------------------------------------------------------------
\* While the circuit is half-open, every slot of half_open_max_calls that is
\* taken belongs to a probe in flight or to one that was cancelled, and no more
\* slots are taken than there are: no slot is taken twice, and none is left
\* over from an earlier half-open period (_half_open_calls).
SlotsAccounted ==
  state = "half_open" =>
    /\ halfOpenCalls = Cardinality(Probes) + lost
    /\ halfOpenCalls <= HalfOpenMaxCalls

\* No caller counts as a probe outside a half-open period.
ProbesOnlyHalfOpen == state # "half_open" => Probes = {} /\ lost = 0

\* Once the circuit has opened, it lets no call through for wait_seconds,
\* whatever late results of earlier calls arrive meanwhile
\* (_check_state_transition is the only way out of OPEN).
CooledDown ==
  state # "open" /\ lastOpened # 0 => now - lastOpened >= WaitSeconds

\* A closed circuit has recorded fewer than failure_threshold failures: neither
\* a re-opening nor a burst of late failures leaves it closed with a full list
\* (_on_failure, _on_success).
ClosedBelowThreshold ==
  state = "closed" => Cardinality(failures) < FailureThreshold

\* No slot is left and nobody is in flight to give one back.
Wedged ==
  /\ state = "half_open"
  /\ halfOpenCalls >= HalfOpenMaxCalls
  /\ InFlight = {}

\* A half-open circuit whose slots were all taken by cancelled probes rejects
\* every call for ever: no timeout leaves HALF_OPEN (_check_state_transition).
WedgedForever == [][Wedged => Wedged']_breakerVars

\* A half-open circuit is resolved, unless one of its probes was cancelled.
HalfOpenResolves == (state = "half_open") ~> (state # "half_open" \/ lost > 0)

\* An open circuit is given its probe once wait_seconds have passed (the clock
\* must have that much left); late failures do not put the probe off.
OpenIsProbed ==
  (state = "open" /\ now + WaitSeconds <= MaxTime) ~> (state # "open")
=============================================================================
