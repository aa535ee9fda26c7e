------------------------------ MODULE MCIngest ------------------------------
(* Two symbols: one can be quiet while the other is not.                     *)
EXTENDS Ingest, TLC
CONSTANTS btc, eth
MCSymbols == {btc, eth}
SymbolSymmetry == Permutations(MCSymbols)
=============================================================================
