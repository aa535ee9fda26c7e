------------------------- MODULE MCRegimePredictor -------------------------
(* Two predictors and three entries, one more than the stream keeps: each    *)
(* predictor can get its own entries, the other's or none.                   *)
EXTENDS RegimePredictor
CONSTANTS btc, eth
MCSymbols == {btc, eth}
=============================================================================
