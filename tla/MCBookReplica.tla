--------------------------- MODULE MCBookReplica ----------------------------
(* Two prices and two quantities let a side quote nothing, one or both; four *)
(* versions leave room for a gap of two between applied updates.             *)
EXTENDS BookReplica
MCPrices == {1, 2}
MCQtys == {0, 1}
=============================================================================
