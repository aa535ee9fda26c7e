-------------------------- MODULE MCMicrostructure --------------------------
(* Three ids give a gap, the delta that would have closed it and a snapshot  *)
(* beyond it; two entries per raw stream let either task overtake the other  *)
(* and repeat a trade; one restart replays both streams.                     *)
EXTENDS Microstructure
MCIds == 1..3
MCTradeIds == {1}
=============================================================================
