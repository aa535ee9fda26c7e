-------------------------- MODULE MCCircuitBreaker --------------------------
(* Three callers: one call admitted before the circuit opens can outlive it  *)
(* and return while another caller's probe is in flight and a third waits.   *)
EXTENDS CircuitBreaker
CONSTANTS c1, c2, c3
MCCallers == {c1, c2, c3}
=============================================================================
