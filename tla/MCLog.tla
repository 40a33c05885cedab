------------------------------- MODULE MCLog -------------------------------
(* Instances of Log for TLC. *)
EXTENDS Log

CONSTANTS o1, o2, o3

\* Blocks that the calls share and blocks of their own, some written twice;
\* without a reservation three calls could log five.
MCPlans ==
  [p \in Ops |-> CASE p = o1 -> {<<1>>, <<1, 2>>}
                   [] p = o2 -> {<<2, 2>>, <<3, 4>>}
                   [] p = o3 -> {<<>>, <<1>>, <<4, 5>>}]

\* filewrite's largest piece, (LOGSIZE-1-1-2)/2 blocks of data that are not
\* aligned to a block and so touch one more, in the indirect part of a file:
\* the bitmap block 1, the data and the indirect block, the inode block 2.
MCFileOwn == (LOGSIZE - 1 - 1 - 2) \div 2 + 1 + 1
MCFileNumber(p) == IF p = o1 THEN 0 ELSE 1
MCFilePlans ==
  [p \in Ops |->
     {<<1>> \o [k \in 1..MCFileOwn |-> 2 + MCFileNumber(p) * MCFileOwn + k]
        \o <<2>>}]
MCFileBlockSet == 1..(2 + 2 * MCFileOwn)
=============================================================================
