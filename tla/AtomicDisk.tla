----------------------------- MODULE AtomicDisk -----------------------------
(***************************************************************************)
(* What log.c promises the file system: a disk whose stable contents only  *)
(* ever change by taking over everything written so far, at a moment when  *)
(* no system call is half way through its writes, and to which the memory  *)
(* falls back when the machine crashes.                                    *)
(***************************************************************************)
EXTENDS Naturals

CONSTANTS Blocks, Data, Blank

VARIABLES mem, stable, active

Init ==
  /\ mem = [b \in Blocks |-> Blank]
  /\ stable = mem
  /\ active = 0

Begin == active' = active + 1 /\ UNCHANGED <<mem, stable>>

Write ==
  /\ active > 0
  /\ \E b \in Blocks, v \in Data : mem' = [mem EXCEPT ![b] = v]
  /\ UNCHANGED <<stable, active>>

End == active > 0 /\ active' = active - 1 /\ UNCHANGED <<mem, stable>>

Commit == active = 0 /\ stable' = mem /\ UNCHANGED <<mem, active>>

Crash == mem' = stable /\ active' = 0 /\ UNCHANGED stable

Next == Begin \/ Write \/ End \/ Commit \/ Crash

Spec == Init /\ [][Next]_<<mem, stable, active>>
=============================================================================
