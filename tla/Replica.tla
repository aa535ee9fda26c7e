------------------------------ MODULE Replica -------------------------------
(***************************************************************************)
(* What a local copy of an order book promises.  The market goes through   *)
(* numbered versions; the copy shows one whole version of it, the one      *)
(* whose number it reports, and only ever moves to a later version.        *)
(***************************************************************************)
EXTENDS Integers, Sequences

CONSTANTS States,  (* what a version of the market can be                   *)
          Blank    (* what the copy shows before it has seen any version    *)

VARIABLES market,  \* the versions so far, in order
          shown,   \* what the copy shows
          version  \* the number it reports, 0 before it has seen any

vars == <<market, shown, version>>

Init == /\ \E s \in States : market = <<s>>
        /\ shown = Blank
        /\ version = 0

Publish == /\ \E s \in States : market' = Append(market, s)
           /\ UNCHANGED <<shown, version>>

Advance == /\ \E v \in 1..Len(market) :
                /\ v > version
                /\ version' = v
                /\ shown' = market[v]
           /\ UNCHANGED market

Next == Publish \/ Advance

Spec == Init /\ [][Next]_vars
=============================================================================
