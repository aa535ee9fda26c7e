---------------------------- MODULE MCSymbolFeed ----------------------------
(* Two symbols: the sets can be empty, grow, shrink and be exchanged; three  *)
(* changes reach a set, leave it and come back to it.                        *)
EXTENDS SymbolFeed
CONSTANTS btc, eth
MCUniverse == {btc, eth}
=============================================================================
