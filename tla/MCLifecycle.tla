----------------------------- MODULE MCLifecycle ----------------------------
(* Numbers only; the configuration gives them.                               *)
EXTENDS Lifecycle
=============================================================================
