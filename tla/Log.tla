-------------------------------- MODULE Log --------------------------------
(***************************************************************************)
(* The redo log of the file system, log.c: system calls that write through *)
(* begin_op, log_write and end_op, the commit the last of them makes, and  *)
(* the recovery of the next boot.  The machine may crash between any two   *)
(* steps, in the middle of a commit or of a recovery too.                  *)
(*                                                                         *)
(* The disk writes one block at a time, whole or not at all.  cache is the *)
(* contents of the buffer cache as the system calls see it: a block that   *)
(* was logged stays in it (B_DIRTY) until it is installed.                 *)
(***************************************************************************)
EXTENDS Integers, Sequences, FiniteSets, Functions

CONSTANTS
  Ops,            \* the system calls; each writes its own name into a block
  Blank,          \* what an empty disk holds
  Blocks,         \* the home blocks
  Plans,          \* for each call, the block sequences it may write
  LOGSIZE,        \* the entries of a log header
  MAXOPBLOCKS,    \* the blocks begin_op reserves for a call
  Size,           \* log.size: the header and the log blocks on the disk
  MaxCrashes      \* bound on crashes

ASSUME LogAssumption ==
  /\ Blank \notin Ops
  /\ LOGSIZE \in Nat /\ MAXOPBLOCKS \in Nat \ {0} /\ Size \in Nat
  /\ Plans \in [Ops -> SUBSET Seq(Blocks)]
  /\ MaxCrashes \in Nat

VARIABLES
  disk, dlog, dhead,            \* on the disk: home blocks, log blocks, header
  cache,                        \* in memory: the buffer cache,
  lh, outstanding, committing,  \*   struct log,
  pc, todo, tail,               \*   each call, and the loop of a commit
  boot,                         \* where the boot is, "up" when it is over
  crashes, panicked

diskVars == <<disk, dlog, dhead>>
callVars == <<pc, todo>>
vars == <<diskVars, cache, lh, outstanding, committing, callVars, tail, boot,
          crashes, panicked>>

Init ==
  /\ disk = [b \in Blocks |-> Blank]
  /\ dlog = [k \in 1..LOGSIZE |-> Blank]
  /\ dhead = <<>>
  /\ cache = disk
  /\ lh = <<>> /\ outstanding = 0 /\ committing = FALSE
  /\ pc = [p \in Ops |-> "idle"]
  /\ todo = [p \in Ops |-> <<>>]
  /\ tail = 1
  /\ boot = "up"
  /\ crashes = 0 /\ panicked = FALSE

At(p, label) == boot = "up" /\ ~panicked /\ pc[p] = label

Goto(p, label) == pc' = [pc EXCEPT ![p] = label]

\* wakeup(&log): those asleep in begin_op try again.  p goes on at label.
WakeupGoto(p, label) ==
  pc' = [q \in Ops |-> IF q = p THEN label
                       ELSE IF pc[q] = "asleep" THEN "begin" ELSE pc[q]]

-----------------------------------------------------------------------------
(* begin_op, log_write, end_op *)

\* A system call begins that will write these blocks, as mkdir does.
Call(p) ==
  /\ At(p, "idle")
  /\ \E s \in Plans[p] : todo' = [todo EXCEPT ![p] = s]
  /\ Goto(p, "begin")
  /\ UNCHANGED <<diskVars, cache, lh, outstanding, committing, tail, boot,
                 crashes, panicked>>

MustWait == committing \/ Len(lh) + (outstanding + 1) * MAXOPBLOCKS > LOGSIZE

\* Mutants: the reservation leaves this call out; the call is not counted.
BeginOp_NoReserve(p) ==
  /\ At(p, "begin")
  /\ IF committing \/ Len(lh) + outstanding * MAXOPBLOCKS > LOGSIZE
     THEN Goto(p, "asleep") /\ UNCHANGED outstanding
     ELSE Goto(p, "op") /\ outstanding' = outstanding + 1
  /\ UNCHANGED <<diskVars, cache, lh, committing, todo, tail, boot, crashes,
                 panicked>>

BeginOp_NoCount(p) ==
  /\ At(p, "begin")
  /\ Goto(p, IF MustWait THEN "asleep" ELSE "op")
  /\ UNCHANGED <<diskVars, cache, lh, outstanding, committing, todo, tail, boot,
                 crashes, panicked>>

BeginOp(p) ==
  /\ At(p, "begin")
  /\ IF MustWait
     THEN Goto(p, "asleep") /\ UNCHANGED outstanding
     ELSE Goto(p, "op") /\ outstanding' = outstanding + 1
  /\ UNCHANGED <<diskVars, cache, lh, committing, todo, tail, boot, crashes,
                 panicked>>

\* The caller has changed the buffer; log_write makes its two tests without
\* the lock.
LogWriteTest(p) ==
  /\ At(p, "op") /\ todo[p] # <<>>
  /\ cache' = [cache EXCEPT ![Head(todo[p])] = p]
  /\ IF Len(lh) >= LOGSIZE \/ Len(lh) >= Size - 1 \/ outstanding < 1
     THEN panicked' = TRUE /\ UNCHANGED pc
     ELSE Goto(p, "log_add") /\ UNCHANGED panicked
  /\ UNCHANGED <<diskVars, lh, outstanding, committing, todo, tail, boot, crashes>>

\* Under the lock: a block already in the header is absorbed.
LogWriteAdd(p) ==
  LET b == Head(todo[p]) IN
  /\ At(p, "log_add")
  /\ lh' = IF b \in Range(lh) THEN lh ELSE Append(lh, b)
  /\ todo' = [todo EXCEPT ![p] = Tail(@)]
  /\ Goto(p, "op")
  /\ UNCHANGED <<diskVars, cache, outstanding, committing, tail, boot, crashes,
                 panicked>>

\* Mutant: committing is not set.
EndOp_NoFlag(p) ==
  /\ At(p, "op") /\ todo[p] = <<>>
  /\ outstanding' = outstanding - 1
  /\ IF committing
     THEN panicked' = TRUE /\ UNCHANGED <<pc, tail>>
     ELSE /\ IF outstanding = 1 THEN Goto(p, "commit") /\ tail' = 1
                                ELSE WakeupGoto(p, "done") /\ UNCHANGED tail
          /\ UNCHANGED panicked
  /\ UNCHANGED <<diskVars, cache, lh, committing, todo, boot, crashes>>

\* end_op: the last call out commits, another only makes room.
EndOp(p) ==
  /\ At(p, "op") /\ todo[p] = <<>>
  /\ outstanding' = outstanding - 1
  /\ IF committing
     THEN panicked' = TRUE /\ UNCHANGED <<pc, tail, committing>>
     ELSE /\ IF outstanding = 1
             THEN Goto(p, "commit") /\ committing' = TRUE /\ tail' = 1
             ELSE WakeupGoto(p, "done") /\ UNCHANGED <<committing, tail>>
          /\ UNCHANGED panicked
  /\ UNCHANGED <<diskVars, cache, lh, todo, boot, crashes>>

-----------------------------------------------------------------------------
(* commit *)

\* write_log, one block.
WriteLog(p) ==
  /\ At(p, "commit") /\ tail <= Len(lh)
  /\ dlog' = [dlog EXCEPT ![tail] = cache[lh[tail]]]
  /\ tail' = tail + 1
  /\ UNCHANGED <<disk, dhead, cache, lh, outstanding, committing, callVars, boot,
                 crashes, panicked>>

\* Mutant: the installation is forgotten.
WriteHead_NoInstall(p) ==
  /\ At(p, "commit") /\ lh # <<>> /\ tail > Len(lh)
  /\ dhead' = lh
  /\ tail' = 1
  /\ lh' = <<>>
  /\ Goto(p, "clear")
  /\ UNCHANGED <<disk, dlog, cache, outstanding, committing, todo, boot, crashes,
                 panicked>>

\* write_head, "the real commit".
WriteHead(p) ==
  /\ At(p, "commit") /\ lh # <<>> /\ tail > Len(lh)
  /\ dhead' = lh
  /\ tail' = 1
  /\ Goto(p, "install")
  /\ UNCHANGED <<disk, dlog, cache, lh, outstanding, committing, todo, boot,
                 crashes, panicked>>

\* install_trans, one block.
Install(p) ==
  /\ At(p, "install") /\ tail <= Len(lh)
  /\ disk' = [disk EXCEPT ![lh[tail]] = dlog[tail]]
  /\ cache' = [cache EXCEPT ![lh[tail]] = dlog[tail]]
  /\ tail' = tail + 1
  /\ UNCHANGED <<dlog, dhead, lh, outstanding, committing, callVars, boot, crashes,
                 panicked>>

InstallEnd(p) ==
  /\ At(p, "install") /\ tail > Len(lh)
  /\ lh' = <<>>
  /\ Goto(p, "clear")
  /\ UNCHANGED <<diskVars, cache, outstanding, committing, todo, tail, boot, crashes,
                 panicked>>

\* write_head again, which erases the transaction.
ClearHead(p) ==
  /\ At(p, "clear")
  /\ dhead' = lh
  /\ Goto(p, "finish")
  /\ UNCHANGED <<disk, dlog, cache, lh, outstanding, committing, todo, tail, boot,
                 crashes, panicked>>

\* A transaction that logged nothing commits nothing.
CommitEmpty(p) ==
  /\ At(p, "commit") /\ lh = <<>>
  /\ Goto(p, "finish")
  /\ UNCHANGED <<diskVars, cache, lh, outstanding, committing, todo, tail, boot,
                 crashes, panicked>>

\* Mutant: nobody is woken.
Finish_NoWakeup(p) ==
  /\ At(p, "finish")
  /\ committing' = FALSE
  /\ Goto(p, "done")
  /\ UNCHANGED <<diskVars, cache, lh, outstanding, todo, tail, boot, crashes,
                 panicked>>

\* The end of end_op.
Finish(p) ==
  /\ At(p, "finish")
  /\ committing' = FALSE
  /\ WakeupGoto(p, "done")
  /\ UNCHANGED <<diskVars, cache, lh, outstanding, todo, tail, boot, crashes,
                 panicked>>

-----------------------------------------------------------------------------
(* Crash and recovery *)

\* Memory is gone; a call that had begun is lost, with or without its writes.
Crash ==
  /\ crashes < MaxCrashes /\ ~panicked
  /\ crashes' = crashes + 1
  /\ boot' = "read_head"
  /\ lh' = <<>> /\ outstanding' = 0 /\ committing' = FALSE /\ tail' = 1
  /\ pc' = [p \in Ops |-> IF pc[p] \in {"idle", "done"} THEN pc[p] ELSE "lost"]
  /\ todo' = [p \in Ops |-> <<>>]
  /\ cache' = [b \in Blocks |-> Blank]
  /\ UNCHANGED <<diskVars, panicked>>

\* read_head
ReadHead ==
  /\ boot = "read_head"
  /\ lh' = dhead
  /\ boot' = "install"
  /\ UNCHANGED <<diskVars, cache, outstanding, committing, callVars, tail, crashes,
                 panicked>>

\* install_trans, one block.
Recover ==
  /\ boot = "install" /\ tail <= Len(lh)
  /\ disk' = [disk EXCEPT ![lh[tail]] = dlog[tail]]
  /\ tail' = tail + 1
  /\ UNCHANGED <<dlog, dhead, cache, lh, outstanding, committing, callVars, boot,
                 crashes, panicked>>

\* log.lh.n = 0 and write_head; from here on blocks are read from the disk.
RecoverEnd ==
  /\ boot = "install" /\ tail > Len(lh)
  /\ lh' = <<>>
  /\ dhead' = <<>>
  /\ cache' = disk
  /\ boot' = "up"
  /\ UNCHANGED <<disk, dlog, outstanding, committing, callVars, tail, crashes,
                 panicked>>

-----------------------------------------------------------------------------

\* What the kernel does for a call under way.
CallStep(p) ==
  \/ BeginOp(p) \/ LogWriteTest(p) \/ LogWriteAdd(p) \/ EndOp(p)
  \/ WriteLog(p) \/ WriteHead(p) \/ Install(p) \/ InstallEnd(p) \/ ClearHead(p)
  \/ CommitEmpty(p) \/ Finish(p)

Boot == ReadHead \/ Recover \/ RecoverEnd

Next == Boot \/ Crash \/ \E p \in Ops : Call(p) \/ CallStep(p)

Spec == Init /\ [][Next]_vars

\* The scheduler runs every call that can go on, and a boot goes on.
FairSpec == Spec /\ WF_vars(Boot) /\ \A p \in Ops : WF_vars(CallStep(p))

-----------------------------------------------------------------------------
(* Properties *)

CommitLabels == {"commit", "install", "clear", "finish"}

\* The type invariant of the log, in memory and on the disk.
TypeOK ==
  /\ disk \in [Blocks -> Ops \cup {Blank}]
  /\ dlog \in [1..LOGSIZE -> Ops \cup {Blank}]
  /\ cache \in [Blocks -> Ops \cup {Blank}]
  /\ dhead \in Seq(Blocks)
  /\ lh \in Seq(Blocks)
  /\ outstanding \in Nat
  /\ committing \in BOOLEAN
  /\ pc \in [Ops -> {"idle", "begin", "asleep", "op", "log_add", "done", "lost"}
                      \cup CommitLabels]
  /\ todo \in [Ops -> Seq(Blocks)]
  /\ tail \in Nat
  /\ boot \in {"up", "read_head", "install"}
  /\ crashes \in 0..MaxCrashes
  /\ panicked \in BOOLEAN

\* "this op might exhaust log space; wait for commit": what begin_op reserves
\* is enough.  log_write never panics, and the log never reaches past its
\* last block on the disk, although log_write tests for room without the lock.
LogHolds == ~panicked /\ Len(lh) <= Size - 1

\* "only commits when there are no FS system calls active": while a call
\* commits, no other commits and none is between begin_op and end_op.
CommitAlone ==
  \A p, q \in Ops :
    pc[p] \in CommitLabels => p = q \/ pc[q] \notin CommitLabels \cup {"op", "log_add"}

\* The disk as a boot would leave it: the committed log installed.
Recovered ==
  [b \in Blocks |->
     IF b \in Range(dhead)
     THEN dlog[CHOOSE k \in DOMAIN dhead : dhead[k] = b] ELSE disk[b]]

\* Whatever happens, a boot finds the writes of all the calls up to some
\* commit and of no other call: commits are atomic.
Disk == INSTANCE AtomicDisk WITH
  Data <- Ops,
  mem <- IF boot = "up" THEN cache ELSE Recovered,
  stable <- Recovered,
  active <- outstanding
ImplementsAtomicDisk == Disk!Spec

\* "it sleeps until the last outstanding end_op() commits": a system call
\* that asks for the log gets it and ends, unless the machine crashes.
CallsEnd == \A p \in Ops : pc[p] = "begin" ~> pc[p] \in {"done", "lost"}
=============================================================================
