------------------------------ MODULE Polygon ------------------------------
(***************************************************************************)
(* What the polygon programs of ex1 and ex2 do with a word, the same code  *)
(* in both: the list it joins, and the actions it asks for.                *)
(*                                                                         *)
(* A word is a record of the fields its bits encode: last, new, type,      *)
(* actions, runOn and the vertices, of which nothing but their identity    *)
(* matters to the list.  What is printed about a polygon is the pair of    *)
(* the action and the polygon.                                             *)
(***************************************************************************)
EXTENDS Integers, Sequences, SequencesExt

\* runAction: the actions asked for, in this order.
Run(action, actions, polygon) ==
  IF action \in actions THEN <<<<action, polygon>>>> ELSE <<>>
RunAction(actions, polygon) ==
  Run("vertices", actions, polygon) \o Run("perimeter", actions, polygon)
    \o Run("area", actions, polygon)

ShouldRun(w, polygon) ==
  \/ w.runOn = "all"
  \/ w.runOn = "triangles" /\ polygon.type = "triangle"
  \/ w.runOn = "squares" /\ polygon.type = "square"

\* do_all: from the head of the list to its tail.
DoAll(w, polygons) ==
  FlattenSeq([k \in 1..Len(polygons) |->
                IF ShouldRun(w, polygons[k]) THEN RunAction(w.actions, polygons[k]) ELSE <<>>])

\* What a word adds to the list and to the output.
NewList(w, polygons) == IF w.new THEN Append(polygons, w) ELSE polygons
Output(w, polygons) ==
  IF w.runOn = "this" THEN RunAction(w.actions, w) ELSE DoAll(w, NewList(w, polygons))
=============================================================================
