------------------------------ MODULE Delivery ------------------------------
(***************************************************************************)
(* What reading a stream behind a cursor promises: an entry is handed to   *)
(* one consumer at most and once at most, in the order of the stream.  It  *)
(* is not promised that it is handed to anyone, nor that it is taken: an   *)
(* entry may be passed over, lost on its way, or dropped by who holds it.  *)
(***************************************************************************)
EXTENDS Integers

CONSTANT Consumers  (* who reads the stream                                 *)

VARIABLES length,  \* the entries so far
          cursor,  \* the entries up to here are not handed out any more
          held,    \* what each consumer was handed and has not taken yet
          taken    \* what each consumer has taken

vars == <<length, cursor, held, taken>>

Init == /\ length = 0 /\ cursor = 0
        /\ held = [c \in Consumers |-> {}]
        /\ taken = [c \in Consumers |-> {}]

Add == /\ length' = length + 1
       /\ UNCHANGED <<cursor, held, taken>>

\* Some of the entries up to n are handed to c, which holds none.
Hand(c, n) == /\ held[c] = {}
              /\ cursor' = n
              /\ \E some \in SUBSET (cursor + 1 .. n) : held' = [held EXCEPT ![c] = some]
              /\ UNCHANGED <<length, taken>>

Take(c) == /\ taken' = [taken EXCEPT ![c] = @ \cup held[c]]
           /\ held' = [held EXCEPT ![c] = {}]
           /\ UNCHANGED <<length, cursor>>

Drop(some) == /\ held' = [c \in Consumers |-> IF c \in some THEN {} ELSE held[c]]
              /\ UNCHANGED <<length, cursor, taken>>

Next == \/ Add
        \/ \E c \in Consumers, n \in cursor + 1 .. length : Hand(c, n)
        \/ \E c \in Consumers : Take(c)
        \/ \E some \in SUBSET Consumers : Drop(some)

Spec == Init /\ [][Next]_vars

-----------------------------------------------------------------------------
\* What is held was taken by nobody and is held by nobody else, and nothing is taken by
\* two; what one holds lies behind all it has taken (XREADGROUP ">", XREAD behind an id).
NoneTwice ==
  \A c \in Consumers :
    /\ \A d \in Consumers \ {c} : (held[c] \cup taken[c]) \cap (held[d] \cup taken[d]) = {}
    /\ \A i \in held[c], j \in taken[c] : j < i
=============================================================================
