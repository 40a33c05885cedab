--------------------------- MODULE BoundedBuffer ---------------------------
(***************************************************************************)
(* What pc.c promises about the messages it prints: a buffer of capacity   *)
(* Capacity through which Total messages pass.  A message is consumed only *)
(* after it was produced, and at most Capacity are produced ahead.         *)
(***************************************************************************)
EXTENDS Naturals

CONSTANTS Capacity, Total

VARIABLES produced, consumed

Init == produced = 0 /\ consumed = 0

Produce ==
  /\ produced < Total
  /\ produced - consumed < Capacity
  /\ produced' = produced + 1
  /\ UNCHANGED consumed

Consume ==
  /\ consumed < produced
  /\ consumed' = consumed + 1
  /\ UNCHANGED produced

Next == Produce \/ Consume

Spec == Init /\ [][Next]_<<produced, consumed>>
=============================================================================
