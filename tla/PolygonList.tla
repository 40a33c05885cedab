---------------------------- MODULE PolygonList ----------------------------
(***************************************************************************)
(* The polygon program of ex1: it reads words, adds those marked new to a  *)
(* list, and runs the actions a word asks for on the word itself or on     *)
(* the polygons of the list, up to a word marked last.                     *)
(*                                                                         *)
(* scanf is given a word every time: a file that ends without a word       *)
(* marked last makes the program run the last one again for ever.          *)
(***************************************************************************)
EXTENDS Polygon

CONSTANTS Inputs    \* the sequences of words that may be typed

VARIABLES
  input,        \* the words not yet read
  list,         \* polygonList
  out,          \* what was printed
  done

listVars == <<input, list, out, done>>

Init ==
  /\ input \in Inputs
  /\ list = <<>>
  /\ out = <<>>
  /\ done = FALSE

\* One turn of the loop in main.
RunWord ==
  /\ ~done
  /\ input # <<>>
  /\ input' = Tail(input)
  /\ list' = NewList(Head(input), list)
  /\ out' = out \o Output(Head(input), list)
  /\ done' = Head(input).last

Next == RunWord

Spec == Init /\ [][Next]_listVars
=============================================================================
