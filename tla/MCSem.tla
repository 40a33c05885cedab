------------------------------- MODULE MCSem -------------------------------
(* Instances of Sem for TLC. *)
EXTENDS Sem

CONSTANTS p1, p2, p3, a, b, long, garbled

\* long has eight characters or more: once owner_pid is stored, the bytes of
\* its slot spell something no program passes as a name.
MCSpelled ==
  [n \in Names |-> [p \in Procs |-> IF n = long THEN garbled ELSE n]]

\* Arguments of sem_reset: minus one leaves the value as it is.
MCResetVals == {-1, 1}
MCResetMaxes == {-1, 2}
=============================================================================
