---------------------------- MODULE MCProcQuery ----------------------------
(* Instances of ProcQuery for TLC. *)
EXTENDS ProcQuery

\* The pid of the first child, which init makes.
MCTargets == {2}
=============================================================================
