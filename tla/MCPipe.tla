------------------------------- MODULE MCPipe -------------------------------
(* Instances of Pipe for TLC. *)
EXTENDS Pipe

CONSTANTS p1, p2

\* One lap of the ring writes zeros, the next one ones: a byte in the wrong
\* place, left over or overwritten shows, and nothing else of its value counts.
MCSent(n) == {(n \div PIPESIZE) % 2}
=============================================================================
