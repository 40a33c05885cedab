----------------------------- MODULE BlockStore -----------------------------
(* What the buffer cache promises its callers: a store of blocks, each held   *)
(* by at most one process at a time, who sees what the last one left there.   *)
CONSTANTS Procs, Blocks, Blank, Nobody

VARIABLES val, owner

Init == /\ val = [b \in Blocks |-> Blank]
        /\ owner = [b \in Blocks |-> Nobody]

\* bread returns: the block is the caller's.
Get(p, b) == /\ owner[b] = Nobody
             /\ owner' = [owner EXCEPT ![b] = p]
             /\ UNCHANGED val

\* The caller changes the block it holds.
Put(p, b) == /\ owner[b] = p
             /\ val' = [val EXCEPT ![b] = p]
             /\ UNCHANGED owner

\* brelse.
Drop(p, b) == /\ owner[b] = p
              /\ owner' = [owner EXCEPT ![b] = Nobody]
              /\ UNCHANGED val

Next == \E p \in Procs, b \in Blocks : Get(p, b) \/ Put(p, b) \/ Drop(p, b)
Spec == Init /\ [][Next]_<<val, owner>>
=============================================================================
