------------------------------ MODULE MCBcache ------------------------------
(* An instance of Bcache for TLC: processes are interchangeable for safety,   *)
(* but symmetry is not used, since a liveness property is checked.            *)
EXTENDS Bcache
MCBlocks == 1..4
CONSTANTS p1, p2
MCWrites == {<<p1, 1>>, <<p2, 1>>, <<p2, 2>>}
=============================================================================
