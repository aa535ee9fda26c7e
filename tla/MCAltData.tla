------------------------------ MODULE MCAltData -----------------------------
(* Numbers only; the configuration gives them.                               *)
EXTENDS AltData
=============================================================================
