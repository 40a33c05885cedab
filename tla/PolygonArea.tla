---------------------------- MODULE PolygonArea ----------------------------
(***************************************************************************)
(* The numbers in a polygon's word: its coordinates, six bits each, and    *)
(* its area, the same code in ex1 and ex2.  The loop of polygonArea is one *)
(* action; area counts in halves, as the int it accumulates does.          *)
(***************************************************************************)
EXTENDS Integers

CONSTANTS Fields    \* what the six bits of a coordinate may be

VARIABLES
  num,          \* numPoints: 3 or 4
  X, Y,         \* the coordinates, from 0 as in the code
  i, j, area    \* the variables of polygonArea

vars == <<num, X, Y, i, j, area>>

\* A char is signed.
Char(n) == IF n % 256 < 128 THEN n % 256 ELSE (n % 256) - 256

\* getXAndY: x ^ 0xc0 sets the two top bits, which are clear.
Coordinate(bits) == IF bits < 32 THEN bits ELSE Char(bits + 192)

\* area reads the vertices, and calls polygonArea.
Init ==
  /\ num \in {3, 4}
  /\ \E f, g \in [0..num - 1 -> Fields] :
       /\ X = [k \in 0..num - 1 |-> Coordinate(f[k])]
       /\ Y = [k \in 0..num - 1 |-> Coordinate(g[k])]
  /\ i = 0 /\ j = num - 1 /\ area = 0

\* One turn of the loop.
Vertex ==
  /\ i < num
  /\ area' = area + (X[j] + X[i]) * (Y[j] - Y[i])
  /\ j' = i /\ i' = i + 1
  /\ UNCHANGED <<num, X, Y>>

Next == Vertex

Spec == Init /\ [][Next]_vars

-----------------------------------------------------------------------------
(* Properties *)

\* The type invariant: a coordinate is a six-bit number in two's complement,
\* whatever the char arithmetic of getXAndY does to it.
TypeOK ==
  /\ num \in {3, 4}
  /\ X \in [0..num - 1 -> (-32)..31] /\ Y \in [0..num - 1 -> (-32)..31]
  /\ i \in 0..num /\ j \in 0..num - 1 /\ area \in Int

\* Twice the signed area of the triangle of three vertices, counterclockwise
\* positive: the formula in the comment of area.
Formula(a, b, c) ==
  X[a] * (Y[b] - Y[c]) + X[b] * (Y[c] - Y[a]) + X[c] * (Y[a] - Y[b])

\* When the loop of polygonArea ends, area is that of the triangle, or of the
\* two triangles a diagonal cuts the quadrilateral into, clockwise positive.
AreaOfTriangles ==
  i = num =>
    area = -(IF num = 3 THEN Formula(0, 1, 2)
             ELSE Formula(0, 1, 2) + Formula(0, 2, 3))
=============================================================================
