-------------------------- MODULE SymbolFeedProofs --------------------------
(* Proofs about SymbolFeed: for every set of symbols, every number of         *)
(* retries and of changes.                                                    *)
EXTENDS SymbolFeed, TLAPS

\* NoLostWakeup says it of the wait only; the second without symbols before the
\* wait needs it too.
WakeupIsDue ==
  pc \in {"event", "no_symbols"} /\ running /\ symbols # {} => event

\* backoff.wait() is called only when it is not exhausted: it never raises.
BackoffIsLeft == pc = "backoff" => attempt < MaxRetries

IInv == TypeOK /\ BackoffIsLeft /\ StaleIsFlagged /\ WakeupIsDue

\* Where the inner loop leads: to a connection for the current symbols; or, while
\* it runs, to the wait with no symbols; or to the end.
LEMMA LoopLeads ==
  ASSUME Loop
  PROVE  \/ pc' = "connect" /\ subscribed' = symbols
         \/ pc' = "event" /\ running /\ symbols = {} /\ subscribed' = subscribed
         \/ pc' = "done" /\ ~running /\ subscribed' = subscribed
BY DEF Loop, KeepsConnecting, Streams

LEMMA InitIInv == Init => IInv
<1> SUFFICES ASSUME Init PROVE IInv
  OBVIOUS
<1>1. TypeOK
  <2>1. 0 \in 0..MaxRetries /\ 0 \in 0..MaxChanges
    BY FeedAssumption
  <2>2. event \in BOOLEAN /\ running \in BOOLEAN /\ touched \in BOOLEAN
    BY DEF Init
  <2>3. /\ config \in SUBSET Universe /\ managed \in SUBSET Universe
        /\ symbols \in SUBSET Universe /\ subscribed \in SUBSET Universe
    BY DEF Init
  <2>4. pc \in Awaits /\ attempt \in 0..MaxRetries /\ changes \in 0..MaxChanges
    BY <2>1 DEF Init, Awaits
  <2> QED BY <2>2, <2>3, <2>4 DEF TypeOK
<1>2. BackoffIsLeft /\ StaleIsFlagged
  BY DEF Init, BackoffIsLeft, StaleIsFlagged
<1>3. WakeupIsDue
  BY DEF Init, WakeupIsDue
<1> QED BY <1>1, <1>2, <1>3 DEF IInv

\* Types first: each action by itself.
LEMMA StepTypes == IInv /\ [Next]_vars => TypeOK'
<1> SUFFICES ASSUME IInv, [Next]_vars PROVE TypeOK'
  OBVIOUS
<1> USE FeedAssumption
<1>t. TypeOK /\ BackoffIsLeft
  BY DEF IInv
<1>1. CASE Reload
  BY <1>t, <1>1 DEF TypeOK, Awaits, Reload, Changes, monitor, runner
<1>a. CASE AddSymbol
  BY <1>t, <1>a DEF TypeOK, Awaits, AddSymbol, Changes, runner
<1>r. CASE RemoveSymbol
  BY <1>t, <1>r DEF TypeOK, Awaits, RemoveSymbol, Changes, runner
<1>2. CASE Monitor \/ Stop
  BY <1>t, <1>2 DEF TypeOK, Awaits, Monitor, UpdateSymbols, Stop, monitor, runner, history
<1>3. CASE TakeEvent
  <2>1. CASE symbols = {}
    BY <1>t, <1>3, <2>1 DEF TypeOK, Awaits, TakeEvent, history
  <2>2. CASE symbols # {}
    <3>0. event' = FALSE /\ attempt' = 0 /\ Loop
      BY <1>3, <2>2, Zenon DEF TakeEvent
    <3>1. event' \in BOOLEAN
      BY <3>0
    <3>2. attempt' \in 0..MaxRetries
      BY <3>0
    <3>3. pc' \in Awaits /\ subscribed' \in SUBSET Universe
      BY <1>t, <3>0, LoopLeads DEF TypeOK, Awaits
    <3> QED BY <1>t, <1>3, <3>1, <3>2, <3>3 DEF TypeOK, TakeEvent, history
  <2> QED BY <2>1, <2>2
<1>4. CASE SleptWithoutSymbols \/ Connected \/ ConnectionFails
  BY <1>t, <1>4 DEF TypeOK, Awaits, SleptWithoutSymbols, Connected, ConnectionFails,
     monitor, history
<1>5. CASE ReadingEnds
  BY <1>t, <1>5, LoopLeads DEF TypeOK, Awaits, ReadingEnds, monitor, history
<1>6. CASE Retry
  <2>1. attempt' \in 0..MaxRetries
    BY <1>t, <1>6 DEF TypeOK, BackoffIsLeft, Retry
  <2> QED BY <1>t, <1>6, <2>1, LoopLeads DEF TypeOK, Awaits, Retry, monitor, history
<1>7. CASE UNCHANGED vars
  BY <1>t, <1>7 DEF TypeOK, vars, monitor, runner, history
<1> QED BY <1>1, <1>a, <1>r, <1>2, <1>3, <1>4, <1>5, <1>6, <1>7 DEF Next, RunnerGoesOn

\* What the steps do to the flags.  An action that leaves the runner alone can
\* only set the event when it changes the symbols; an action of the runner that
\* opens a connection takes the current symbols.
LEMMA StepFlags ==
  IInv /\ [Next]_vars => BackoffIsLeft' /\ StaleIsFlagged' /\ WakeupIsDue'
<1> SUFFICES ASSUME IInv, [Next]_vars
             PROVE  BackoffIsLeft' /\ StaleIsFlagged' /\ WakeupIsDue'
  OBVIOUS
<1> USE FeedAssumption DEF BackoffIsLeft, StaleIsFlagged, WakeupIsDue
<1>t. TypeOK /\ BackoffIsLeft /\ StaleIsFlagged /\ WakeupIsDue
  BY DEF IInv
<1>1. CASE Reload
  BY <1>t, <1>1 DEF Reload, monitor, runner
<1>2. CASE AddSymbol \/ RemoveSymbol
  BY <1>t, <1>2 DEF AddSymbol, RemoveSymbol, runner
<1>3. CASE Monitor
  <2>1. event \/ symbols' # symbols => event'
    BY <1>3 DEF Monitor, UpdateSymbols
  <2> QED BY <1>t, <1>3, <2>1 DEF Monitor, runner
<1>4. CASE Stop
  BY <1>t, <1>4 DEF Stop, monitor, runner
<1>5. CASE TakeEvent
  <2>1. CASE symbols = {}
    BY <1>t, <1>5, <2>1 DEF TakeEvent
  <2>2. CASE symbols # {}
    BY <1>t, <1>5, <2>2, LoopLeads DEF TakeEvent
  <2> QED BY <2>1, <2>2
<1>6. CASE SleptWithoutSymbols
  BY <1>t, <1>6 DEF SleptWithoutSymbols, monitor
<1>7. CASE Connected
  BY <1>t, <1>7 DEF Connected, monitor
<1>8. CASE ConnectionFails
  BY <1>t, <1>8 DEF ConnectionFails, Exhausted, TypeOK, monitor
<1>9. CASE ReadingEnds \/ Retry
  BY <1>t, <1>9, LoopLeads DEF ReadingEnds, Retry, monitor
<1>10. CASE UNCHANGED vars
  BY <1>t, <1>10 DEF vars, monitor, runner
<1> QED BY <1>1, <1>2, <1>3, <1>4, <1>5, <1>6, <1>7, <1>8, <1>9, <1>10
    DEF Next, RunnerGoesOn

LEMMA Inductive == Spec => []IInv
BY InitIInv, StepTypes, StepFlags, PTL DEF Spec, IInv

\* The variables keep their types; in particular attempt never passes max_retries,
\* so backoff.wait() never raises inside the except clause (binance_ws.py:29-39).
THEOREM TypeCorrect == Spec => []TypeOK
BY Inductive, PTL DEF IInv

\* No change of the symbols goes unnoticed by a connection that was opened for
\* others (update_symbols against the runner, binance_ws.py:127-135 and 198-222).
THEOREM StaleConnectionsAreFlagged == Spec => []StaleIsFlagged
BY Inductive, PTL DEF IInv

\* The runner never waits for an event nobody will set while it has symbols
\* (binance_ws.py:198-211).
THEOREM WakeupsAreNotLost == Spec => []NoLostWakeup
<1>1. IInv => NoLostWakeup
  BY DEF IInv, WakeupIsDue, NoLostWakeup
<1> QED BY <1>1, Inductive, PTL
=============================================================================
