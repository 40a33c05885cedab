-------------------------------- MODULE Fifo --------------------------------
(***************************************************************************)
(* What a pipe promises: a queue of at most Capacity bytes that come out   *)
(* once each and in the order they went in.  out is the byte read last.    *)
(* A new pipe begins empty.                                                *)
(***************************************************************************)
EXTENDS Naturals, Sequences

CONSTANTS Bytes, Capacity

VARIABLES queue, out

Init == queue = <<>> /\ out \in Bytes

Put ==
  /\ Len(queue) < Capacity
  /\ \E b \in Bytes : queue' = Append(queue, b)
  /\ UNCHANGED out

Get ==
  /\ queue # <<>>
  /\ out' = Head(queue)
  /\ queue' = Tail(queue)

New == queue' = <<>> /\ UNCHANGED out

Next == Put \/ Get \/ New

Spec == Init /\ [][Next]_<<queue, out>>
=============================================================================
