------------------------------- MODULE Bcache -------------------------------
(* The buffer cache of bio.c over the disk driver of ide.c, used by processes *)
(* that read blocks, change them, write them through or leave them dirty for  *)
(* the log, and release them.  A step is one section under bcache.lock or     *)
(* idelock, or a sleep lock taken or released.                                *)
EXTENDS Integers, Sequences, FiniteSets, FiniteSetsExt

CONSTANTS Procs,     \* processes
          Nobody,    \* no process; also what a fresh disk block holds
          Blocks,    \* block numbers, 1 .. n; 0 is the block of an unused buffer
          NBuf,      \* NBUF
          Writes,    \* <<process, block>>: who changes which block
          MaxHeld,   \* buffers a process holds at once, in increasing order
          MaxDirty   \* LOGSIZE: blocks the log keeps dirty before it writes them

ASSUME BcacheAssumption ==
  /\ IsFiniteSet(Procs) /\ Nobody \notin Procs /\ Blocks \subseteq Nat \ {0}
  /\ Writes \subseteq Procs \X Blocks
  /\ NBuf \in Nat \ {0} /\ MaxHeld \in Nat \ {0} /\ MaxDirty \in Nat

VARIABLES disk,      \* what the disk holds
          buf,       \* bcache.buf[]: blockno, flags, refcnt, the sleep lock, data
          lru,       \* the list of buffers, head.next first
          idequeue,  \* the requests, the active one first
          started,   \* idestart gave the disk a command it has not finished
          proc,      \* where each process is, the buffer it is getting or
                     \* dropping, and the buffers it holds
          panic
vars == <<disk, buf, lru, idequeue, started, proc, panic>>

Bufs == 1..NBuf

Init ==
  /\ disk = [b \in Blocks |-> Nobody]
  /\ buf = [k \in Bufs |-> [blockno |-> 0, valid |-> FALSE, dirty |-> FALSE,
                            refcnt |-> 0, lock |-> Nobody, data |-> Nobody]]
  /\ lru = [i \in Bufs |-> NBuf + 1 - i]
  /\ idequeue = <<>> /\ started = FALSE
  /\ proc = [p \in Procs |-> [pc |-> "run", b |-> 0, held |-> {}]]
  /\ panic = FALSE

At(p, pc) == ~panic /\ proc[p].pc = pc
Goto(p, pc, k) == proc' = [proc EXCEPT ![p].pc = pc, ![p].b = k]
Has(p, k) == proc' = [proc EXCEPT ![p] = [pc |-> "run", b |-> 0, held |-> @.held \union {k}]]

Panics == panic' = TRUE /\ UNCHANGED <<disk, buf, lru, idequeue, started, proc>>

(* --- bio.c --------------------------------------------------------------- *)

\* The first buffer of the list for block n, and the last one to recycle.
\* Mutant: a buffer that is still being read is not found.
Hits_Valid(n) == {i \in Bufs : buf[lru[i]].blockno = n /\ buf[lru[i]].valid}
Hits(n)   == {i \in Bufs : buf[lru[i]].blockno = n}
\* Mutant: a dirty buffer is recycled.
Unused_Dirty == {i \in Bufs : buf[lru[i]].refcnt = 0}
Unused    == {i \in Bufs : buf[lru[i]].refcnt = 0 /\ ~buf[lru[i]].dirty}

\* The callers take the buffers they hold together in one order: a log block or
\* an indirect block before the block it leads to.
MayGet(p, n) == /\ Cardinality(proc[p].held) < MaxHeld
                /\ \A k \in proc[p].held : buf[k].blockno < n

BgetHit(p, n) ==
  /\ At(p, "run") /\ MayGet(p, n) /\ Hits(n) # {}
  /\ LET k == lru[Min(Hits(n))]
     IN  /\ buf' = [buf EXCEPT ![k].refcnt = @ + 1]
         /\ Goto(p, "lock", k)
  /\ UNCHANGED <<disk, lru, idequeue, started, panic>>

BgetMiss(p, n) ==
  /\ At(p, "run") /\ MayGet(p, n) /\ Hits(n) = {}
  /\ IF Unused = {} THEN Panics
     ELSE LET k == lru[Max(Unused)]
          IN  /\ buf' = [buf EXCEPT ![k] = [@ EXCEPT !.blockno = n, !.valid = FALSE,
                                                     !.dirty = FALSE, !.refcnt = 1]]
              /\ Goto(p, "lock", k)
              /\ UNCHANGED <<disk, lru, idequeue, started, panic>>

\* acquiresleep, and the test of B_VALID in bread.
AcquireSleep(p) ==
  LET k == proc[p].b IN
  /\ At(p, "lock") /\ buf[k].lock = Nobody
  /\ buf' = [buf EXCEPT ![k].lock = p]
  /\ IF buf[k].valid THEN Has(p, k) ELSE Goto(p, "iderw", k)
  /\ UNCHANGED <<disk, lru, idequeue, started, panic>>

\* holdingsleep: the lock is taken, by whom is not asked.
Holdingsleep(k) == buf[k].lock # Nobody

\* The caller changes a block and log_write leaves it dirty ...
Dirty == {k \in Bufs : buf[k].dirty}
LogWrite(p, k) ==
  /\ At(p, "run") /\ k \in proc[p].held
  /\ <<p, buf[k].blockno>> \in Writes
  /\ k \in Dirty \/ Cardinality(Dirty) < MaxDirty
  /\ buf' = [buf EXCEPT ![k].dirty = TRUE, ![k].data = p]
  /\ UNCHANGED <<disk, lru, idequeue, started, proc, panic>>

\* ... or bwrite writes it through; the commit does so with the dirty ones.
Bwrite(p, k) ==
  /\ At(p, "run") /\ k \in proc[p].held
  /\ buf[k].dirty \/ <<p, buf[k].blockno>> \in Writes
  /\ IF ~Holdingsleep(k) THEN Panics
     ELSE /\ buf' = [buf EXCEPT ![k].dirty = TRUE,
                                ![k].data = IF buf[k].dirty THEN @ ELSE p]
          /\ proc' = [proc EXCEPT ![p] = [pc |-> "iderw", b |-> k, held |-> @.held \ {k}]]
          /\ UNCHANGED <<disk, lru, idequeue, started, panic>>

\* The list once k is taken out of it and put at its head.
ToFront(k) == LET i == CHOOSE j \in Bufs : lru[j] = k
              IN  [j \in Bufs |-> IF j = 1 THEN k ELSE IF j <= i THEN lru[j - 1] ELSE lru[j]]

\* brelse, in two sections.
Releasesleep(p, k) ==
  /\ At(p, "run") /\ k \in proc[p].held
  /\ IF ~Holdingsleep(k) THEN Panics
     ELSE /\ buf' = [buf EXCEPT ![k].lock = Nobody]
          /\ proc' = [proc EXCEPT ![p] = [pc |-> "drop", b |-> k, held |-> @.held \ {k}]]
          /\ UNCHANGED <<disk, lru, idequeue, started, panic>>
\* Mutant: the reference is dropped only when it is the last one.
Brelse_LastOnly(p) ==
  LET k == proc[p].b IN
  /\ At(p, "drop")
  /\ buf' = [buf EXCEPT ![k].refcnt = IF @ = 1 THEN 0 ELSE @]
  /\ lru' = IF buf[k].refcnt = 1 THEN ToFront(k) ELSE lru
  /\ Goto(p, "run", 0)
  /\ UNCHANGED <<disk, idequeue, started, panic>>
Brelse(p) ==
  LET k == proc[p].b IN
  /\ At(p, "drop")
  /\ buf' = [buf EXCEPT ![k].refcnt = @ - 1]
  /\ lru' = IF buf[k].refcnt = 1 THEN ToFront(k) ELSE lru
  /\ Goto(p, "run", 0)
  /\ UNCHANGED <<disk, idequeue, started, panic>>

(* --- ide.c --------------------------------------------------------------- *)

\* iderw: the request is queued, and started when it is alone.
\* Mutant: the request is put in front.
Queued_Front(k) == <<k>> \o idequeue
Queued(k) == Append(idequeue, k)
Iderw(p) ==
  LET k == proc[p].b IN
  /\ At(p, "iderw")
  /\ IF ~Holdingsleep(k) \/ (buf[k].valid /\ ~buf[k].dirty) THEN Panics
     ELSE /\ idequeue' = Queued(k)
          /\ started' = (started \/ Head(Queued(k)) = k)
          /\ Goto(p, "sleep", k)
          /\ UNCHANGED <<disk, buf, lru, panic>>

\* The disk ends its command: the first request is done, its sleeper is woken
\* and the next one is started.
Ideintr ==
  LET k == Head(idequeue) IN
  /\ ~panic /\ started
  /\ idequeue' = Tail(idequeue)
  /\ disk' = IF buf[k].dirty THEN [disk EXCEPT ![buf[k].blockno] = buf[k].data] ELSE disk
  /\ buf' = [buf EXCEPT ![k].valid = TRUE, ![k].dirty = FALSE,
                        ![k].data = IF buf[k].dirty THEN @ ELSE disk[buf[k].blockno]]
  /\ started' = (Tail(idequeue) # <<>>)
  /\ UNCHANGED <<lru, proc, panic>>

Wake(p) ==
  LET k == proc[p].b IN
  /\ At(p, "sleep") /\ buf[k].valid /\ ~buf[k].dirty
  /\ Has(p, k)
  /\ UNCHANGED <<disk, buf, lru, idequeue, started, panic>>

Step(p) ==
  \/ \E n \in Blocks : BgetHit(p, n) \/ BgetMiss(p, n)
  \/ AcquireSleep(p) \/ Brelse(p) \/ Iderw(p) \/ Wake(p)
  \/ \E k \in Bufs : LogWrite(p, k) \/ Bwrite(p, k) \/ Releasesleep(p, k)

Next == Ideintr \/ \E p \in Procs : Step(p)

\* The disk ends what it was told to do, a process queues the request it made
\* and one that was woken runs.
Fairness == WF_vars(Ideintr) /\ \A p \in Procs : WF_vars(Iderw(p)) /\ WF_vars(Wake(p))
Spec == Init /\ [][Next]_vars /\ Fairness

(* --- properties ------------------------------------------------------------ *)

\* Types and the counters that belong together.
TypeOK ==
  /\ disk \in [Blocks -> Procs \union {Nobody}]
  /\ buf \in [Bufs -> [blockno : Blocks \union {0}, valid : BOOLEAN, dirty : BOOLEAN,
                       refcnt : Nat, lock : Procs \union {Nobody}, data : Procs \union {Nobody}]]
  /\ lru \in [Bufs -> Bufs] /\ idequeue \in Seq(Bufs)
  /\ started \in BOOLEAN /\ panic \in BOOLEAN
  /\ proc \in [Procs -> [pc : {"run", "lock", "iderw", "sleep", "drop"},
                         b : Bufs \union {0}, held : SUBSET Bufs]]

\* No block has two buffers (the comment of bio.c:6).
OneBuffer == \A j, k \in Bufs :
  j # k /\ buf[j].blockno = buf[k].blockno => buf[j].blockno = 0

\* The buffers that process p holds, is getting or is dropping.
InUse(p) == proc[p].held \union (IF proc[p].pc = "run" THEN {} ELSE {proc[p].b})

\* The cache panics only when bget needs a buffer and each of them is in use by a
\* process or dirty: no reference is leaked, however often a block was shared,
\* and bwrite, brelse and iderw always have the lock and something to do.
OnlyNoBuffers ==
  [][~panic /\ panic' => \A k \in Bufs : buf[k].dirty \/ \E p \in Procs : k \in InUse(p)]_vars

\* The cache is a store of blocks: what a process reads is what the last one to
\* hold the block left there, on the disk or not, and one process holds it.
BufOf(b) == {k \in Bufs : buf[k].blockno = b /\ (buf[k].valid \/ buf[k].dirty)}
Val == [b \in Blocks |-> IF BufOf(b) = {} THEN disk[b]
                        ELSE buf[CHOOSE k \in BufOf(b) : TRUE].data]
HolderOf(b) == {p \in Procs : \E k \in Bufs : /\ buf[k].blockno = b /\ buf[k].lock = p
                                             /\ (k \in proc[p].held \/ buf[k].valid)}
Owner == [b \in Blocks |-> IF HolderOf(b) = {} THEN Nobody ELSE CHOOSE p \in HolderOf(b) : TRUE]
Store == INSTANCE BlockStore WITH Blank <- Nobody, val <- Val, owner <- Owner
ImplementsStore == Store!Spec

\* Every request to the disk is answered, unless the machine stops in a panic.
RequestsEnd == \A p \in Procs : proc[p].pc \in {"iderw", "sleep"} ~> proc[p].pc = "run" \/ panic
=============================================================================
