--------------------------- MODULE Bcache_proofs ---------------------------
(***************************************************************************)
(* Proofs about Bcache for any number of processes, blocks and buffers:    *)
(* the invariant, the refinement of BlockStore, and which panics can come. *)
(***************************************************************************)
EXTENDS Bcache, FiniteSetTheorems, SequenceTheorems, TLAPS

\* A set of natural numbers has a least element.
LEMMA LeastOf ==
  ASSUME NEW S \in SUBSET Nat, S # {}
  PROVE  \E x \in S : \A y \in S : x =< y
<1> DEFINE L == OpToRel(<, Nat)
<1>1. PICK x \in S : \A y \in S : ~(<<y, x>> \in L)
  BY NatLessThanWellFounded, WFMin
<1>2. ASSUME NEW y \in S PROVE <<y, x>> \in L <=> y < x
  <2>1. <<y, x>> \in Nat \X Nat
    OBVIOUS
  <2> QED
    BY <2>1 DEF OpToRel
<1> HIDE DEF L
<1>3. \A y \in S : ~(y < x)
  BY <1>1, <1>2, Zenon
<1> QED
  BY <1>3

\* Min picks an element: the first buffer of the list that bget meets.
LEMMA MinIn ==
  ASSUME NEW S \in SUBSET Nat, S # {}
  PROVE  Min(S) \in S
BY LeastOf DEF Min

\* So does Max: the last buffer of the list that bget can recycle.
LEMMA MaxIn ==
  ASSUME NEW S \in SUBSET Bufs, S # {}
  PROVE  Max(S) \in S
<1> DEFINE T == {NBuf - i : i \in S}
<1>1. \A i \in S : i \in Nat /\ NBuf - i \in Nat
  BY BcacheAssumption DEF Bufs
<1>2. T \in SUBSET Nat /\ T # {}
  BY <1>1
<1>3. \E t \in T : \A y \in T : t =< y
  <2> HIDE DEF T
  <2> QED
    BY <1>2, LeastOf
<1>4. PICK x \in S : \A y \in S : NBuf - x =< NBuf - y
  BY <1>3
<1>5. \A y \in S : x >= y
  BY <1>1, <1>4, BcacheAssumption
<1> QED
  BY <1>5 DEF Max

-----------------------------------------------------------------------------
(* The inductive invariant *)

\* The processes with a reference to buffer k.
Users(k) == {p \in Procs : k \in InUse(p)}

\* Process p has the sleep lock of buffer k.
DiskCall == {"iderw", "sleep"}
Owns(p, k) == k \in proc[p].held \/ (proc[p].pc \in DiskCall /\ proc[p].b = k)

\* iderw has nothing to do.
Done(k) == buf[k].valid /\ ~buf[k].dirty

\* A process in a call works on a buffer that it does not hold already.
ProcOK ==
  \A p \in Procs : proc[p].pc # "run" => proc[p].b \in Bufs /\ proc[p].b \notin proc[p].held

\* refcnt counts the processes with a reference.
RefOK == \A k \in Bufs : buf[k].refcnt = Cardinality(Users(k))

\* The sleep lock has the owner that the code believes it has.
LockOK == \A k \in Bufs : \A p \in Procs : buf[k].lock = p <=> Owns(p, k)

\* A buffer that is dirty has been read, one that has been read or is in use is
\* a block's, and one that a caller holds has been read.
ValidOK ==
  \A k \in Bufs :
    /\ buf[k].dirty => buf[k].valid
    /\ buf[k].valid \/ Users(k) # {} => buf[k].blockno \in Blocks
    /\ \A p \in Procs : k \in proc[p].held => buf[k].valid

\* Every buffer is in the list.
LruOK == \A k \in Bufs : \E i \in Bufs : lru[i] = k

\* Each request is queued once, by a process that sleeps for it, and there is
\* something to do for it.
QueueOK ==
  /\ \A i, j \in DOMAIN idequeue : idequeue[i] = idequeue[j] => i = j
  /\ \A i \in DOMAIN idequeue :
       /\ ~Done(idequeue[i])
       /\ \E p \in Procs : proc[p].pc = "sleep" /\ proc[p].b = idequeue[i]
  /\ \A p \in Procs : proc[p].pc = "iderw" => ~Done(proc[p].b)
  /\ started => idequeue # <<>>

\* A buffer with nothing to write holds what the disk holds.
CleanOK == \A k \in Bufs : Done(k) => buf[k].data = disk[buf[k].blockno]

IInv == /\ TypeOK /\ ProcOK /\ RefOK /\ LockOK /\ ValidOK
        /\ OneBuffer /\ LruOK /\ QueueOK /\ CleanOK

-----------------------------------------------------------------------------
(* What a step changes *)

\* Process p goes to pc with buffer b, and holds the buffers of held.
Moves(p, pc, b, held) ==
  /\ proc'[p].pc = pc /\ proc'[p].b = b /\ proc'[p].held = held
  /\ \A q \in Procs \ {p} : proc'[q] = proc[q]

\* Only buffer k changes.
Others(k) == \A j \in Bufs \ {k} : buf'[j] = buf[j]

PCs == {"run", "lock", "iderw", "sleep", "drop"}
BufType == [blockno : Blocks \union {0}, valid : BOOLEAN, dirty : BOOLEAN,
            refcnt : Nat, lock : Procs \union {Nobody}, data : Procs \union {Nobody}]
ProcType == [pc : PCs, b : Bufs \union {0}, held : SUBSET Bufs]

\* The parts of TypeOK.
LEMMA TypeIs ==
  TypeOK <=> /\ disk \in [Blocks -> Procs \union {Nobody}]
             /\ buf \in [Bufs -> BufType]
             /\ lru \in [Bufs -> Bufs] /\ idequeue \in Seq(Bufs)
             /\ started \in BOOLEAN /\ panic \in BOOLEAN
             /\ proc \in [Procs -> ProcType]
BY DEF TypeOK, BufType, ProcType, PCs

\* A process that moves.
LEMMA Moving ==
  ASSUME TypeOK, NEW p \in Procs, NEW c \in PCs, NEW k \in Bufs \union {0},
         NEW h \in SUBSET Bufs
  PROVE  /\ proc' = [proc EXCEPT ![p] = [pc |-> c, b |-> k, held |-> h]]
              => proc' \in [Procs -> ProcType] /\ Moves(p, c, k, h)
         /\ proc' = [proc EXCEPT ![p].pc = c, ![p].b = k]
              => proc' \in [Procs -> ProcType] /\ Moves(p, c, k, proc[p].held)
<1>1. proc \in [Procs -> ProcType]
  BY TypeIs
<1>2. ASSUME proc' = [proc EXCEPT ![p] = [pc |-> c, b |-> k, held |-> h]]
      PROVE  proc' \in [Procs -> ProcType] /\ Moves(p, c, k, h)
  BY <1>1, <1>2 DEF ProcType, Moves
<1>3. ASSUME proc' = [proc EXCEPT ![p].pc = c, ![p].b = k]
      PROVE  proc' \in [Procs -> ProcType] /\ Moves(p, c, k, proc[p].held)
  BY <1>1, <1>3 DEF ProcType, Moves
<1> QED
  BY <1>2, <1>3

\* bget finds the block.
LEMMA BgetHitFacts ==
  ASSUME IInv, NEW p \in Procs, NEW n \in Blocks, BgetHit(p, n)
  PROVE  \E k \in Bufs :
           /\ proc[p].pc = "run" /\ Moves(p, "lock", k, proc[p].held)
           /\ k \notin proc[p].held /\ buf[k].blockno = n
           /\ buf'[k] = [buf[k] EXCEPT !.refcnt = @ + 1] /\ Others(k)
           /\ UNCHANGED <<disk, lru, idequeue, started, panic>>
           /\ TypeOK'
<1> DEFINE k == lru[Min(Hits(n))]
<1>1. /\ proc[p].pc = "run" /\ MayGet(p, n) /\ Hits(n) # {}
      /\ buf' = [buf EXCEPT ![k].refcnt = @ + 1]
      /\ proc' = [proc EXCEPT ![p].pc = "lock", ![p].b = k]
      /\ UNCHANGED <<disk, lru, idequeue, started, panic>>
  BY DEF BgetHit, At, Goto
<1>2. TypeOK
  BY DEF IInv
<1>3. Min(Hits(n)) \in Hits(n)
  <2>1. Hits(n) \in SUBSET Nat
    BY DEF Hits, Bufs
  <2> QED
    BY <1>1, <2>1, MinIn
<1>4. k \in Bufs /\ buf[k].blockno = n
  BY <1>2, <1>3, TypeIs DEF Hits
<1> HIDE DEF k
<1>5. proc' \in [Procs -> ProcType] /\ Moves(p, "lock", k, proc[p].held)
  BY <1>1, <1>2, <1>4, Moving DEF PCs
<1>6. buf[k] \in BufType /\ buf \in [Bufs -> BufType]
  BY <1>2, <1>4, TypeIs
<1>7. /\ buf' \in [Bufs -> BufType] /\ Others(k)
      /\ buf'[k] = [buf[k] EXCEPT !.refcnt = @ + 1]
  BY <1>1, <1>4, <1>6 DEF BufType, Others
<1>8. k \notin proc[p].held
  BY <1>1, <1>2, <1>4, <1>6, BcacheAssumption DEF MayGet
<1>9. TypeOK'
  BY <1>1, <1>2, <1>5, <1>7, TypeIs DEF TypeOK, BufType, ProcType, PCs
<1> QED
  BY <1>1, <1>4, <1>5, <1>7, <1>8, <1>9

\* bget recycles a buffer that nobody uses and that is not dirty, or there is
\* none and it panics.
LEMMA BgetMissFacts ==
  ASSUME IInv, NEW p \in Procs, NEW n \in Blocks, BgetMiss(p, n), Unused # {}
  PROVE  \E k \in Bufs :
           /\ proc[p].pc = "run" /\ Moves(p, "lock", k, proc[p].held)
           /\ buf[k].refcnt = 0 /\ ~buf[k].dirty
           /\ \A j \in Bufs : buf[j].blockno # n
           /\ buf'[k] = [buf[k] EXCEPT !.blockno = n, !.valid = FALSE,
                                       !.dirty = FALSE, !.refcnt = 1]
           /\ Others(k)
           /\ UNCHANGED <<disk, lru, idequeue, started, panic>>
           /\ TypeOK'
<1> DEFINE k == lru[Max(Unused)]
<1>1. /\ proc[p].pc = "run" /\ Hits(n) = {}
      /\ buf' = [buf EXCEPT ![k] = [@ EXCEPT !.blockno = n, !.valid = FALSE,
                                             !.dirty = FALSE, !.refcnt = 1]]
      /\ proc' = [proc EXCEPT ![p].pc = "lock", ![p].b = k]
      /\ UNCHANGED <<disk, lru, idequeue, started, panic>>
  BY DEF BgetMiss, At, Goto
<1>2. TypeOK /\ LruOK
  BY DEF IInv
<1>3. Max(Unused) \in Unused
  <2>1. Unused \in SUBSET Bufs
    BY DEF Unused
  <2> QED
    BY <2>1, MaxIn
<1>4. k \in Bufs /\ buf[k].refcnt = 0 /\ ~buf[k].dirty
  BY <1>2, <1>3, TypeIs DEF Unused
<1>5. \A j \in Bufs : buf[j].blockno # n
  BY <1>1, <1>2 DEF Hits, LruOK
<1> HIDE DEF k
<1>6. proc' \in [Procs -> ProcType] /\ Moves(p, "lock", k, proc[p].held)
  BY <1>1, <1>2, <1>4, Moving DEF PCs
<1>7. buf[k] \in BufType /\ buf \in [Bufs -> BufType]
  BY <1>2, <1>4, TypeIs
<1>8. /\ buf' \in [Bufs -> BufType] /\ Others(k)
      /\ buf'[k] = [buf[k] EXCEPT !.blockno = n, !.valid = FALSE,
                                  !.dirty = FALSE, !.refcnt = 1]
  BY <1>1, <1>4, <1>7 DEF BufType, Others
<1>9. TypeOK'
  BY <1>1, <1>2, <1>6, <1>8, TypeIs DEF TypeOK, BufType, ProcType, PCs
<1> QED
  BY <1>1, <1>4, <1>5, <1>6, <1>8, <1>9

\* The sleep lock is taken.
LEMMA AcquireSleepFacts ==
  ASSUME IInv, NEW p \in Procs, AcquireSleep(p)
  PROVE  \E k \in Bufs :
           /\ proc[p].pc = "lock" /\ proc[p].b = k
           /\ buf[k].lock = Nobody
           /\ IF buf[k].valid THEN Moves(p, "run", 0, proc[p].held \union {k})
              ELSE Moves(p, "iderw", k, proc[p].held)
           /\ buf'[k] = [buf[k] EXCEPT !.lock = p] /\ Others(k)
           /\ UNCHANGED <<disk, lru, idequeue, started, panic>>
           /\ TypeOK'
<1>1. TypeOK /\ ProcOK
  BY DEF IInv
<1>2. proc[p].pc = "lock"
  BY DEF AcquireSleep, At
<1>3. PICK k \in Bufs : k = proc[p].b
  BY <1>1, <1>2 DEF ProcOK
<1>4. /\ buf[k].lock = Nobody /\ buf' = [buf EXCEPT ![k].lock = p]
      /\ UNCHANGED <<disk, lru, idequeue, started, panic>>
      /\ buf[k].valid =>
           proc' = [proc EXCEPT ![p] = [pc |-> "run", b |-> 0,
                                        held |-> proc[p].held \union {k}]]
      /\ ~buf[k].valid => proc' = [proc EXCEPT ![p].pc = "iderw", ![p].b = k]
  BY <1>3 DEF AcquireSleep, Has, Goto
<1>5. proc[p].held \union {k} \in SUBSET Bufs
  BY <1>1, TypeIs DEF ProcType
<1>6. /\ proc' \in [Procs -> ProcType]
      /\ IF buf[k].valid THEN Moves(p, "run", 0, proc[p].held \union {k})
         ELSE Moves(p, "iderw", k, proc[p].held)
  <2>1. {"run", "iderw"} \subseteq PCs /\ k \in Bufs \union {0} /\ 0 \in Bufs \union {0}
    BY DEF PCs
  <2>2. CASE buf[k].valid
    BY <1>1, <1>4, <1>5, <2>1, <2>2, Moving
  <2>3. CASE ~buf[k].valid
    BY <1>1, <1>4, <2>1, <2>3, Moving
  <2> QED
    BY <2>2, <2>3
<1>7. buf[k] \in BufType /\ buf \in [Bufs -> BufType]
  BY <1>1, TypeIs
<1>8. /\ buf' \in [Bufs -> BufType] /\ Others(k)
      /\ buf'[k] = [buf[k] EXCEPT !.lock = p]
  BY <1>4, <1>7 DEF BufType, Others
<1>9. TypeOK'
  BY <1>1, <1>4, <1>6, <1>8, TypeIs DEF TypeOK, BufType, ProcType, PCs
<1> QED
  BY <1>2, <1>3, <1>4, <1>6, <1>8, <1>9

\* A process that has the lock finds it taken.
LEMMA Locked ==
  ASSUME IInv, NEW p \in Procs, NEW k \in Bufs, Owns(p, k)
  PROVE  buf[k].lock = p /\ Holdingsleep(k)
BY BcacheAssumption DEF IInv, LockOK, Holdingsleep

\* log_write.
LEMMA LogWriteFacts ==
  ASSUME IInv, NEW p \in Procs, NEW k \in Bufs, LogWrite(p, k)
  PROVE  /\ proc[p].pc = "run" /\ k \in proc[p].held
         /\ buf'[k] = [buf[k] EXCEPT !.dirty = TRUE, !.data = p] /\ Others(k)
         /\ UNCHANGED <<disk, lru, idequeue, started, proc, panic>>
         /\ TypeOK'
<1>1. /\ proc[p].pc = "run" /\ k \in proc[p].held
      /\ buf' = [buf EXCEPT ![k].dirty = TRUE, ![k].data = p]
      /\ UNCHANGED <<disk, lru, idequeue, started, proc, panic>>
  BY DEF LogWrite, At
<1>2. TypeOK /\ buf[k] \in BufType /\ buf \in [Bufs -> BufType]
  BY TypeIs DEF IInv
<1>3. /\ buf' \in [Bufs -> BufType] /\ Others(k)
      /\ buf'[k] = [buf[k] EXCEPT !.dirty = TRUE, !.data = p]
  BY <1>1, <1>2 DEF BufType, Others
<1>4. TypeOK'
  BY <1>1, <1>2, <1>3, TypeIs DEF TypeOK, BufType, ProcType, PCs
<1> QED
  BY <1>1, <1>3, <1>4

\* bwrite, which has the lock.
LEMMA BwriteFacts ==
  ASSUME IInv, NEW p \in Procs, NEW k \in Bufs, Bwrite(p, k)
  PROVE  /\ proc[p].pc = "run" /\ k \in proc[p].held
         /\ Moves(p, "iderw", k, proc[p].held \ {k})
         /\ buf'[k] = [buf[k] EXCEPT !.dirty = TRUE, !.data = IF buf[k].dirty THEN @ ELSE p]
         /\ Others(k)
         /\ UNCHANGED <<disk, lru, idequeue, started, panic>>
         /\ TypeOK'
<1>1. proc[p].pc = "run" /\ k \in proc[p].held
  BY DEF Bwrite, At
<1>2. Holdingsleep(k)
  BY <1>1, Locked DEF Owns
<1>3. /\ buf' = [buf EXCEPT ![k].dirty = TRUE, ![k].data = IF buf[k].dirty THEN @ ELSE p]
      /\ proc' = [proc EXCEPT ![p] = [pc |-> "iderw", b |-> k, held |-> proc[p].held \ {k}]]
      /\ UNCHANGED <<disk, lru, idequeue, started, panic>>
  BY <1>2 DEF Bwrite
<1>4. TypeOK /\ buf[k] \in BufType /\ buf \in [Bufs -> BufType]
  BY TypeIs DEF IInv
<1>5. proc' \in [Procs -> ProcType] /\ Moves(p, "iderw", k, proc[p].held \ {k})
  <2>1. proc[p].held \ {k} \in SUBSET Bufs
    BY <1>4, TypeIs DEF ProcType
  <2> QED
    BY <1>3, <1>4, <2>1, Moving DEF PCs
<1>6. /\ buf' \in [Bufs -> BufType] /\ Others(k)
      /\ buf'[k] = [buf[k] EXCEPT !.dirty = TRUE, !.data = IF buf[k].dirty THEN @ ELSE p]
  BY <1>3, <1>4 DEF BufType, Others
<1>7. TypeOK'
  BY <1>3, <1>4, <1>5, <1>6, TypeIs DEF TypeOK, BufType, ProcType, PCs
<1> QED
  BY <1>1, <1>3, <1>5, <1>6, <1>7

\* The first section of brelse, which has the lock.
LEMMA ReleasesleepFacts ==
  ASSUME IInv, NEW p \in Procs, NEW k \in Bufs, Releasesleep(p, k)
  PROVE  /\ proc[p].pc = "run" /\ k \in proc[p].held
         /\ Moves(p, "drop", k, proc[p].held \ {k})
         /\ buf'[k] = [buf[k] EXCEPT !.lock = Nobody] /\ Others(k)
         /\ UNCHANGED <<disk, lru, idequeue, started, panic>>
         /\ TypeOK'
<1>1. proc[p].pc = "run" /\ k \in proc[p].held
  BY DEF Releasesleep, At
<1>2. Holdingsleep(k)
  BY <1>1, Locked DEF Owns
<1>3. /\ buf' = [buf EXCEPT ![k].lock = Nobody]
      /\ proc' = [proc EXCEPT ![p] = [pc |-> "drop", b |-> k, held |-> proc[p].held \ {k}]]
      /\ UNCHANGED <<disk, lru, idequeue, started, panic>>
  BY <1>2 DEF Releasesleep
<1>4. TypeOK /\ buf[k] \in BufType /\ buf \in [Bufs -> BufType]
  BY TypeIs DEF IInv
<1>5. proc' \in [Procs -> ProcType] /\ Moves(p, "drop", k, proc[p].held \ {k})
  <2>1. proc[p].held \ {k} \in SUBSET Bufs
    BY <1>4, TypeIs DEF ProcType
  <2> QED
    BY <1>3, <1>4, <2>1, Moving DEF PCs
<1>6. /\ buf' \in [Bufs -> BufType] /\ Others(k)
      /\ buf'[k] = [buf[k] EXCEPT !.lock = Nobody]
  BY <1>3, <1>4 DEF BufType, Others
<1>7. TypeOK'
  BY <1>3, <1>4, <1>5, <1>6, TypeIs DEF TypeOK, BufType, ProcType, PCs
<1> QED
  BY <1>1, <1>3, <1>5, <1>6, <1>7

\* The list stays a list of all buffers when one is put at its head.
LEMMA ToFrontListsAll ==
  ASSUME TypeOK, LruOK, NEW k \in Bufs
  PROVE  /\ ToFront(k) \in [Bufs -> Bufs]
         /\ \A j \in Bufs : \E i \in Bufs : ToFront(k)[i] = j
<1> DEFINE i == CHOOSE j \in Bufs : lru[j] = k
           f == [j \in Bufs |-> IF j = 1 THEN k ELSE IF j <= i THEN lru[j - 1] ELSE lru[j]]
<1>1. i \in Bufs /\ lru[i] = k
  BY DEF LruOK
<1>2. ToFront(k) = f
  BY DEF ToFront
<1> HIDE DEF i
<1>3. lru \in [Bufs -> Bufs] /\ Bufs = 1..NBuf /\ NBuf \in Nat \ {0}
  BY TypeIs, BcacheAssumption DEF Bufs
<1>4. f \in [Bufs -> Bufs]
  <2>1. ASSUME NEW j \in Bufs
        PROVE  (IF j = 1 THEN k ELSE IF j <= i THEN lru[j - 1] ELSE lru[j]) \in Bufs
    <3>1. j # 1 => j - 1 \in Bufs
      BY <1>3
    <3> QED
      BY <1>3, <3>1
  <2> QED
    BY <2>1
<1>5. ASSUME NEW j \in Bufs PROVE \E m \in Bufs : f[m] = j
  <2>1. PICK m \in Bufs : lru[m] = j
    BY DEF LruOK
  <2>2. CASE m = i
    BY <1>1, <1>3, <2>1, <2>2
  <2>3. CASE m < i
    <3>1. m + 1 \in Bufs /\ m + 1 # 1 /\ m + 1 <= i /\ m + 1 - 1 = m
      BY <1>1, <1>3, <2>3
    <3> DEFINE n == m + 1
    <3>2. f[n] = lru[n - 1]
      BY <3>1
    <3>3. n \in Bufs /\ n - 1 = m
      BY <1>3, <3>1
    <3> HIDE DEF f, n
    <3> QED
      BY <2>1, <3>2, <3>3
  <2>4. CASE m > i
    <3>1. m # 1 /\ ~(m <= i)
      BY <1>1, <1>3, <2>4
    <3> QED
      BY <2>1, <3>1
  <2> QED
    BY <1>1, <1>3, <2>2, <2>3, <2>4
<1> QED
  BY <1>2, <1>4, <1>5

\* The second section of brelse.
LEMMA BrelseFacts ==
  ASSUME IInv, NEW p \in Procs, Brelse(p)
  PROVE  \E k \in Bufs :
           /\ proc[p].pc = "drop" /\ proc[p].b = k
           /\ Moves(p, "run", 0, proc[p].held)
           /\ buf'[k] = [buf[k] EXCEPT !.refcnt = @ - 1] /\ Others(k)
           /\ UNCHANGED <<disk, idequeue, started, panic>>
           /\ TypeOK' /\ LruOK'
<1>1. TypeOK /\ ProcOK /\ LruOK /\ RefOK
  BY DEF IInv
<1>2. proc[p].pc = "drop"
  BY DEF Brelse, At
<1>3. PICK k \in Bufs : k = proc[p].b
  BY <1>1, <1>2 DEF ProcOK
<1>4. /\ buf' = [buf EXCEPT ![k].refcnt = @ - 1]
      /\ lru' = lru \/ lru' = ToFront(k)
      /\ proc' = [proc EXCEPT ![p].pc = "run", ![p].b = 0]
      /\ UNCHANGED <<disk, idequeue, started, panic>>
  BY <1>3 DEF Brelse, Goto
<1>5. lru' \in [Bufs -> Bufs] /\ LruOK'
  <2>1. lru \in [Bufs -> Bufs]
    BY <1>1, TypeIs
  <2>2. CASE lru' = lru
    BY <1>1, <2>1, <2>2 DEF LruOK
  <2>3. CASE lru' = ToFront(k)
    <3>1. /\ ToFront(k) \in [Bufs -> Bufs]
          /\ \A j \in Bufs : \E i \in Bufs : ToFront(k)[i] = j
      BY <1>1, ToFrontListsAll
    <3> QED
      BY <2>3, <3>1 DEF LruOK
  <2> QED
    BY <1>4, <2>2, <2>3
<1>6. proc' \in [Procs -> ProcType] /\ Moves(p, "run", 0, proc[p].held)
  BY <1>1, <1>4, Moving DEF PCs
<1>7. buf[k] \in BufType /\ buf \in [Bufs -> BufType]
  BY <1>1, TypeIs
<1>8. buf[k].refcnt - 1 \in Nat
  <2>1. p \in Users(k)
    BY <1>2, <1>3 DEF Users, InUse
  <2>2. Users(k) \in SUBSET Procs
    BY DEF Users
  <2>3. Cardinality(Users(k)) # 0 /\ Cardinality(Users(k)) \in Nat
    BY <2>1, <2>2, FS_EmptySet, FS_Subset, FS_CardinalityType, BcacheAssumption
  <2> QED
    BY <1>1, <2>3 DEF RefOK
<1>9. /\ buf' \in [Bufs -> BufType] /\ Others(k)
      /\ buf'[k] = [buf[k] EXCEPT !.refcnt = @ - 1]
  BY <1>4, <1>7, <1>8 DEF BufType, Others
<1>10. TypeOK'
  BY <1>1, <1>4, <1>5, <1>6, <1>9, TypeIs DEF TypeOK, BufType, ProcType, PCs
<1> QED
  BY <1>2, <1>3, <1>4, <1>5, <1>6, <1>9, <1>10

\* iderw queues a request for a buffer that it has the lock of and that has
\* something to do.
LEMMA IderwFacts ==
  ASSUME IInv, NEW p \in Procs, Iderw(p)
  PROVE  \E k \in Bufs :
           /\ proc[p].pc = "iderw" /\ proc[p].b = k /\ ~Done(k)
           /\ Moves(p, "sleep", k, proc[p].held)
           /\ idequeue' = Append(idequeue, k)
           /\ UNCHANGED <<disk, buf, lru, panic>>
           /\ TypeOK'
<1>1. TypeOK /\ ProcOK /\ QueueOK
  BY DEF IInv
<1>2. proc[p].pc = "iderw"
  BY DEF Iderw, At
<1>3. PICK k \in Bufs : k = proc[p].b
  BY <1>1, <1>2 DEF ProcOK
<1>4. Holdingsleep(k) /\ ~Done(k)
  BY <1>1, <1>2, <1>3, Locked DEF Owns, DiskCall, QueueOK
<1>5. /\ idequeue' = Append(idequeue, k)
      /\ started' = (started \/ Head(Append(idequeue, k)) = k)
      /\ proc' = [proc EXCEPT ![p].pc = "sleep", ![p].b = k]
      /\ UNCHANGED <<disk, buf, lru, panic>>
  BY <1>3, <1>4 DEF Iderw, Goto, Queued, Done
<1>6. proc' \in [Procs -> ProcType] /\ Moves(p, "sleep", k, proc[p].held)
  BY <1>1, <1>5, Moving DEF PCs
<1>7. idequeue' \in Seq(Bufs) /\ started' \in BOOLEAN
  <2>1. idequeue' \in Seq(Bufs)
    BY <1>1, <1>5, TypeIs
  <2>2. started' \in BOOLEAN
    BY <1>5
  <2> QED
    BY <2>1, <2>2
<1>8. TypeOK'
  BY <1>1, <1>5, <1>6, <1>7, TypeIs DEF TypeOK, BufType, ProcType, PCs
<1> QED
  BY <1>2, <1>3, <1>4, <1>5, <1>6, <1>8

\* The disk ends a command for a process that sleeps for it.
LEMMA IdeintrFacts ==
  ASSUME IInv, Ideintr
  PROVE  \E k \in Bufs :
           /\ idequeue # <<>> /\ k = idequeue[1] /\ ~Done(k)
           /\ \E p \in Procs : proc[p].pc = "sleep" /\ proc[p].b = k
           /\ idequeue' = Tail(idequeue) /\ started' = (Tail(idequeue) # <<>>)
           /\ disk' = IF buf[k].dirty THEN [disk EXCEPT ![buf[k].blockno] = buf[k].data]
                      ELSE disk
           /\ buf'[k] = [buf[k] EXCEPT !.valid = TRUE, !.dirty = FALSE,
                                       !.data = IF buf[k].dirty THEN @ ELSE disk[buf[k].blockno]]
           /\ Others(k)
           /\ UNCHANGED <<lru, proc, panic>>
           /\ TypeOK'
<1>1. TypeOK /\ QueueOK /\ ValidOK /\ started
  BY DEF IInv, Ideintr
<1>2. idequeue # <<>> /\ idequeue \in Seq(Bufs)
  BY <1>1, TypeIs DEF QueueOK
<1>3. /\ Head(idequeue) \in Bufs /\ Head(idequeue) = idequeue[1]
      /\ 1 \in DOMAIN idequeue
  BY <1>2
<1>4. PICK k \in Bufs : k = Head(idequeue)
  BY <1>3
<1>5. ~Done(k) /\ \E p \in Procs : proc[p].pc = "sleep" /\ proc[p].b = k
  BY <1>1, <1>3, <1>4 DEF QueueOK
<1>6. /\ idequeue' = Tail(idequeue) /\ started' = (Tail(idequeue) # <<>>)
      /\ disk' = IF buf[k].dirty THEN [disk EXCEPT ![buf[k].blockno] = buf[k].data] ELSE disk
      /\ buf' = [buf EXCEPT ![k].valid = TRUE, ![k].dirty = FALSE,
                            ![k].data = IF buf[k].dirty THEN @ ELSE disk[buf[k].blockno]]
      /\ UNCHANGED <<lru, proc, panic>>
  BY <1>4 DEF Ideintr
<1>7. /\ buf[k] \in BufType /\ buf \in [Bufs -> BufType]
      /\ disk \in [Blocks -> Procs \union {Nobody}]
  BY <1>1, TypeIs
<1>8. buf[k].blockno \in Blocks
  <2>1. Users(k) # {}
    BY <1>5 DEF Users, InUse
  <2> QED
    BY <1>1, <2>1 DEF ValidOK
<1>9. /\ buf' \in [Bufs -> BufType] /\ Others(k)
      /\ buf'[k] = [buf[k] EXCEPT !.valid = TRUE, !.dirty = FALSE,
                                  !.data = IF buf[k].dirty THEN @ ELSE disk[buf[k].blockno]]
  BY <1>6, <1>7, <1>8 DEF BufType, Others
<1>10. disk' \in [Blocks -> Procs \union {Nobody}]
  BY <1>6, <1>7, <1>8 DEF BufType
<1>11. idequeue' \in Seq(Bufs) /\ started' \in BOOLEAN
  BY <1>2, <1>6
<1>12. TypeOK'
  BY <1>1, <1>6, <1>9, <1>10, <1>11, TypeIs DEF TypeOK, BufType, ProcType, PCs
<1> QED
  BY <1>2, <1>3, <1>4, <1>5, <1>6, <1>9, <1>12

\* iderw returns.
LEMMA WakeFacts ==
  ASSUME IInv, NEW p \in Procs, Wake(p)
  PROVE  \E k \in Bufs :
           /\ proc[p].pc = "sleep" /\ proc[p].b = k /\ Done(k)
           /\ Moves(p, "run", 0, proc[p].held \union {k})
           /\ UNCHANGED <<disk, buf, lru, idequeue, started, panic>>
           /\ TypeOK'
<1>1. TypeOK /\ ProcOK
  BY DEF IInv
<1>2. proc[p].pc = "sleep"
  BY DEF Wake, At
<1>3. PICK k \in Bufs : k = proc[p].b
  BY <1>1, <1>2 DEF ProcOK
<1>4. /\ Done(k)
      /\ proc' = [proc EXCEPT ![p] = [pc |-> "run", b |-> 0,
                                      held |-> proc[p].held \union {k}]]
      /\ UNCHANGED <<disk, buf, lru, idequeue, started, panic>>
  BY <1>3 DEF Wake, Has, Done
<1>5. /\ proc' \in [Procs -> ProcType]
      /\ Moves(p, "run", 0, proc[p].held \union {k})
  <2>1. proc[p].held \union {k} \in SUBSET Bufs
    BY <1>1, TypeIs DEF ProcType
  <2> QED
    BY <1>1, <1>4, <2>1, Moving DEF PCs
<1>6. TypeOK'
  BY <1>1, <1>4, <1>5, TypeIs DEF TypeOK, BufType, ProcType, PCs
<1> QED
  BY <1>2, <1>3, <1>4, <1>5, <1>6

-----------------------------------------------------------------------------
(* The invariant is kept *)

\* Processes that come to nothing new: the counts stay right.
LEMMA RefSame ==
  ASSUME RefOK, \A q \in Procs : InUse(q)' = InUse(q),
         \A j \in Bufs : buf'[j].refcnt = buf[j].refcnt
  PROVE  RefOK'
<1>1. ASSUME NEW j \in Bufs PROVE Users(j)' = Users(j)
  BY DEF Users
<1> QED
  BY <1>1 DEF RefOK

\* The users of one buffer are finitely many.
LEMMA UsersFinite ==
  ASSUME NEW j
  PROVE  IsFiniteSet(Users(j)) /\ Cardinality(Users(j)) \in Nat
<1>1. Users(j) \in SUBSET Procs
  BY DEF Users
<1> QED
  BY <1>1, FS_Subset, FS_CardinalityType, BcacheAssumption

\* A process that takes a reference.
LEMMA RefAdd ==
  ASSUME RefOK, NEW p \in Procs, NEW k \in Bufs, k \notin InUse(p),
         InUse(p)' = InUse(p) \union {k},
         \A q \in Procs \ {p} : InUse(q)' = InUse(q),
         buf'[k].refcnt = buf[k].refcnt + 1,
         \A j \in Bufs \ {k} : buf'[j].refcnt = buf[j].refcnt
  PROVE  RefOK'
<1>1. Users(k)' = Users(k) \union {p} /\ p \notin Users(k)
  BY DEF Users
<1>2. ASSUME NEW j \in Bufs \ {k} PROVE Users(j)' = Users(j)
  BY <1>2 DEF Users
<1>3. Cardinality(Users(k) \union {p}) = Cardinality(Users(k)) + 1
  <2> DEFINE U == Users(k)
  <2>1. IsFiniteSet(U) /\ p \notin U
    BY <1>1, UsersFinite
  <2> HIDE DEF U
  <2>2. Cardinality(U \union {p}) = Cardinality(U) + 1
    BY <2>1, FS_AddElement
  <2> QED
    BY <2>2 DEF U
<1>4. Cardinality(Users(k))' = Cardinality(Users(k)) + 1
  BY <1>1, <1>3
<1>5. ASSUME NEW j \in Bufs \ {k} PROVE Cardinality(Users(j))' = Cardinality(Users(j))
  BY <1>2
<1> QED
  BY <1>4, <1>5 DEF RefOK

\* A process that gives one back.
LEMMA RefDrop ==
  ASSUME RefOK, NEW p \in Procs, NEW k \in Bufs, k \in InUse(p),
         InUse(p)' = InUse(p) \ {k},
         \A q \in Procs \ {p} : InUse(q)' = InUse(q),
         buf'[k].refcnt = buf[k].refcnt - 1,
         \A j \in Bufs \ {k} : buf'[j].refcnt = buf[j].refcnt
  PROVE  RefOK'
<1>1. Users(k)' = Users(k) \ {p} /\ p \in Users(k)
  BY DEF Users
<1>2. ASSUME NEW j \in Bufs \ {k} PROVE Users(j)' = Users(j)
  BY <1>2 DEF Users
<1>3. Cardinality(Users(k) \ {p}) = Cardinality(Users(k)) - 1
  <2> DEFINE U == Users(k)
  <2>1. IsFiniteSet(U) /\ p \in U
    BY <1>1, UsersFinite
  <2> HIDE DEF U
  <2>2. Cardinality(U \ {p}) = Cardinality(U) - 1
    BY <2>1, FS_RemoveElement
  <2> QED
    BY <2>2 DEF U
<1>4. Cardinality(Users(k))' = Cardinality(Users(k)) - 1
  BY <1>1, <1>3
<1>5. ASSUME NEW j \in Bufs \ {k} PROVE Cardinality(Users(j))' = Cardinality(Users(j))
  BY <1>2
<1> QED
  BY <1>4, <1>5 DEF RefOK

\* A buffer nobody counts has no user and no owner.
LEMMA NoUsers ==
  ASSUME IInv, NEW k \in Bufs, buf[k].refcnt = 0
  PROVE  Users(k) = {} /\ \A q \in Procs : k \notin InUse(q) /\ ~Owns(q, k)
<1>1. Cardinality(Users(k)) = 0
  BY DEF IInv, RefOK
<1>2. Users(k) = {}
  <2> DEFINE U == Users(k)
  <2>1. IsFiniteSet(U) /\ Cardinality(U) = 0
    BY <1>1, UsersFinite
  <2> HIDE DEF U
  <2>2. U = {}
    BY <2>1, FS_EmptySet
  <2> QED
    BY <2>2 DEF U
<1> QED
  BY <1>2 DEF Users, Owns, InUse, DiskCall

\* A request in the queue has its sleeper, who has the lock.
LEMMA QueuedOwned ==
  ASSUME IInv, NEW i \in DOMAIN idequeue
  PROVE  /\ idequeue[i] \in Bufs
         /\ \E q \in Procs : /\ proc[q].pc = "sleep" /\ proc[q].b = idequeue[i]
                             /\ buf[idequeue[i]].lock = q
<1>1. idequeue[i] \in Bufs
  BY TypeIs DEF IInv
<1>2. PICK q \in Procs : proc[q].pc = "sleep" /\ proc[q].b = idequeue[i]
  BY DEF IInv, QueueOK
<1>3. Owns(q, idequeue[i])
  BY <1>2 DEF Owns, DiskCall
<1> QED
  BY <1>1, <1>2, <1>3 DEF IInv, LockOK

\* bget that finds the block keeps the invariant.
LEMMA BgetHitKeeps ==
  ASSUME IInv, NEW p \in Procs, NEW n \in Blocks, BgetHit(p, n)
  PROVE  IInv'
<1>1. PICK k \in Bufs :
           /\ proc[p].pc = "run" /\ Moves(p, "lock", k, proc[p].held)
           /\ k \notin proc[p].held /\ buf[k].blockno = n
           /\ buf'[k] = [buf[k] EXCEPT !.refcnt = @ + 1] /\ Others(k)
           /\ UNCHANGED <<disk, lru, idequeue, started, panic>>
           /\ TypeOK'
  BY BgetHitFacts
<1>2. /\ ProcOK /\ RefOK /\ LockOK /\ ValidOK
      /\ OneBuffer /\ LruOK /\ QueueOK /\ CleanOK
      /\ buf[k] \in BufType
  BY TypeIs DEF IInv
<1>3. /\ \A j \in Bufs : /\ buf'[j].blockno = buf[j].blockno
                         /\ buf'[j].valid = buf[j].valid
                         /\ buf'[j].dirty = buf[j].dirty
                         /\ buf'[j].lock = buf[j].lock
                         /\ buf'[j].data = buf[j].data
      /\ buf'[k].refcnt = buf[k].refcnt + 1
      /\ \A j \in Bufs \ {k} : buf'[j].refcnt = buf[j].refcnt
  BY <1>1, <1>2 DEF Others, BufType
<1>4. /\ k \notin InUse(p) /\ InUse(p)' = InUse(p) \union {k}
      /\ \A q \in Procs \ {p} : InUse(q)' = InUse(q)
  BY <1>1 DEF InUse, Moves
<1>5. \A q \in Procs : \A j \in Bufs : Owns(q, j)' <=> Owns(q, j)
  BY <1>1 DEF Owns, Moves, DiskCall
<1>6. ProcOK'
  BY <1>1, <1>2 DEF ProcOK, Moves
<1>7. RefOK'
  BY <1>2, <1>3, <1>4, RefAdd
<1>8. LockOK'
  BY <1>2, <1>3, <1>5 DEF LockOK
<1>9. ValidOK'
  <2>1. \A j \in Bufs \ {k} : Users(j)' = Users(j)
    BY <1>4 DEF Users
  <2>2. \A q \in Procs : proc'[q].held = proc[q].held
    BY <1>1 DEF Moves
  <2> QED
    BY <1>1, <1>2, <1>3, <2>1, <2>2 DEF ValidOK
<1>10. OneBuffer'
  BY <1>2, <1>3 DEF OneBuffer
<1>11. LruOK'
  BY <1>1, <1>2 DEF LruOK
<1>12. \A j \in Bufs : Done(j)' <=> Done(j)
  BY <1>3 DEF Done
<1>13. QueueOK'
  <2>1. \A i \in DOMAIN idequeue : idequeue[i] \in Bufs
    BY QueuedOwned
  <2>2. \A q \in Procs : proc[q].pc \in DiskCall => proc'[q] = proc[q]
    BY <1>1 DEF Moves, DiskCall
  <2>3. \A q \in Procs : proc'[q].pc = "iderw" => proc'[q] = proc[q]
    BY <1>1 DEF Moves
  <2>4. \A q \in Procs : proc[q].pc = "iderw" => proc[q].b \in Bufs
    BY <1>2 DEF ProcOK
  <2> QED
    BY <1>1, <1>2, <1>12, <2>1, <2>2, <2>3, <2>4 DEF QueueOK, DiskCall
<1>14. CleanOK'
  BY <1>1, <1>2, <1>3, <1>12 DEF CleanOK
<1> QED
  BY <1>1, <1>6, <1>7, <1>8, <1>9, <1>10, <1>11, <1>13, <1>14 DEF IInv

\* bget that recycles a buffer keeps the invariant.
LEMMA BgetMissKeeps ==
  ASSUME IInv, NEW p \in Procs, NEW n \in Blocks, BgetMiss(p, n), Unused # {}
  PROVE  IInv'
<1>1. PICK k \in Bufs :
           /\ proc[p].pc = "run" /\ Moves(p, "lock", k, proc[p].held)
           /\ buf[k].refcnt = 0 /\ ~buf[k].dirty
           /\ \A j \in Bufs : buf[j].blockno # n
           /\ buf'[k] = [buf[k] EXCEPT !.blockno = n, !.valid = FALSE,
                                       !.dirty = FALSE, !.refcnt = 1]
           /\ Others(k)
           /\ UNCHANGED <<disk, lru, idequeue, started, panic>>
           /\ TypeOK'
  BY BgetMissFacts
<1>2. /\ ProcOK /\ RefOK /\ LockOK /\ ValidOK
      /\ OneBuffer /\ LruOK /\ QueueOK /\ CleanOK
      /\ buf \in [Bufs -> BufType] /\ buf[k] \in BufType
  BY TypeIs DEF IInv
<1>3. /\ buf'[k].blockno = n /\ ~buf'[k].valid /\ ~buf'[k].dirty
      /\ buf'[k].refcnt = buf[k].refcnt + 1 /\ buf'[k].lock = buf[k].lock
      /\ \A j \in Bufs \ {k} : buf'[j] = buf[j]
  BY <1>1, <1>2 DEF Others, BufType
<1>4. \A q \in Procs : k \notin InUse(q) /\ ~Owns(q, k)
  BY <1>1, NoUsers
<1>5. /\ InUse(p)' = InUse(p) \union {k}
      /\ \A q \in Procs \ {p} : InUse(q)' = InUse(q)
      /\ \A q \in Procs : \A j \in Bufs : Owns(q, j)' <=> Owns(q, j)
  BY <1>1 DEF InUse, Owns, Moves, DiskCall
<1>6. ProcOK'
  BY <1>1, <1>2, <1>4 DEF ProcOK, Moves, InUse
<1>7. RefOK'
  BY <1>2, <1>3, <1>4, <1>5, RefAdd
<1>8. LockOK'
  BY <1>2, <1>3, <1>5 DEF LockOK
<1>9. ValidOK'
  <2>1. \A j \in Bufs \ {k} : Users(j)' = Users(j)
    BY <1>5 DEF Users
  <2>2. \A q \in Procs : proc'[q].held = proc[q].held /\ k \notin proc[q].held
    BY <1>1, <1>4 DEF Moves, InUse
  <2> QED
    BY <1>2, <1>3, <2>1, <2>2 DEF ValidOK
<1>10. OneBuffer'
  <2>1. \A j \in Bufs \ {k} : buf'[j].blockno = buf[j].blockno /\ buf[j].blockno # n
    BY <1>1, <1>3
  <2> QED
    BY <1>2, <1>3, <2>1 DEF OneBuffer
<1>11. LruOK'
  BY <1>1, <1>2 DEF LruOK
<1>12. \A j \in Bufs \ {k} : Done(j)' <=> Done(j)
  BY <1>3 DEF Done
<1>13. QueueOK'
  <2>1. \A i \in DOMAIN idequeue : idequeue[i] \in Bufs \ {k}
    BY <1>4, QueuedOwned DEF Owns, DiskCall
  <2>2. \A q \in Procs : proc[q].pc \in DiskCall => proc'[q] = proc[q]
    BY <1>1 DEF Moves, DiskCall
  <2>3. \A q \in Procs : proc'[q].pc = "iderw" => proc'[q] = proc[q]
    BY <1>1 DEF Moves
  <2>4. \A q \in Procs : proc[q].pc = "iderw" => proc[q].b \in Bufs \ {k}
    BY <1>2, <1>4 DEF ProcOK, Owns, DiskCall
  <2> QED
    BY <1>1, <1>2, <1>12, <2>1, <2>2, <2>3, <2>4 DEF QueueOK, DiskCall
<1>14. CleanOK'
  <2>1. ~Done(k)'
    BY <1>3 DEF Done
  <2>2. \A j \in Bufs \ {k} : buf'[j].blockno = buf[j].blockno /\ buf'[j].data = buf[j].data
    BY <1>3
  <2> QED
    BY <1>1, <1>2, <1>12, <2>1, <2>2 DEF CleanOK
<1> QED
  BY <1>1, <1>6, <1>7, <1>8, <1>9, <1>10, <1>11, <1>13, <1>14 DEF IInv

\* Taking the sleep lock keeps the invariant.
LEMMA AcquireSleepKeeps ==
  ASSUME IInv, NEW p \in Procs, AcquireSleep(p)
  PROVE  IInv'
<1>1. PICK k \in Bufs :
           /\ proc[p].pc = "lock" /\ proc[p].b = k
           /\ buf[k].lock = Nobody
           /\ IF buf[k].valid THEN Moves(p, "run", 0, proc[p].held \union {k})
              ELSE Moves(p, "iderw", k, proc[p].held)
           /\ buf'[k] = [buf[k] EXCEPT !.lock = p] /\ Others(k)
           /\ UNCHANGED <<disk, lru, idequeue, started, panic>>
           /\ TypeOK'
  BY AcquireSleepFacts
<1>2. /\ ProcOK /\ RefOK /\ LockOK /\ ValidOK
      /\ OneBuffer /\ LruOK /\ QueueOK /\ CleanOK
      /\ buf \in [Bufs -> BufType] /\ buf[k] \in BufType
  BY TypeIs DEF IInv
<1>3. /\ \A j \in Bufs : /\ buf'[j].blockno = buf[j].blockno
                         /\ buf'[j].valid = buf[j].valid
                         /\ buf'[j].dirty = buf[j].dirty
                         /\ buf'[j].refcnt = buf[j].refcnt
                         /\ buf'[j].data = buf[j].data
      /\ buf'[k].lock = p
      /\ \A j \in Bufs \ {k} : buf'[j].lock = buf[j].lock
  BY <1>1, <1>2 DEF Others, BufType
<1>4. /\ \A q \in Procs : ~Owns(q, k) /\ InUse(q)' = InUse(q)
      /\ k \notin proc[p].held
      /\ \A q \in Procs \ {p} : proc'[q] = proc[q]
  <2>1. \A q \in Procs : ~Owns(q, k)
    BY <1>1, <1>2, BcacheAssumption DEF LockOK
  <2> QED
    BY <1>1, <1>2, <2>1 DEF InUse, Moves, ProcOK
<1>5. /\ Owns(p, k)'
      /\ \A q \in Procs : \A j \in Bufs \ {k} : Owns(q, j)' <=> Owns(q, j)
      /\ \A q \in Procs \ {p} : Owns(q, k)' <=> Owns(q, k)
  BY <1>1, <1>4 DEF Owns, Moves, DiskCall
<1>6. ProcOK'
  BY <1>1, <1>2, <1>4 DEF ProcOK, Moves
<1>7. RefOK'
  BY <1>2, <1>3, <1>4, RefSame
<1>8. LockOK'
  BY <1>2, <1>3, <1>4, <1>5 DEF LockOK
<1>9. ValidOK'
  <2>1. \A j \in Bufs : Users(j)' = Users(j)
    BY <1>4 DEF Users
  <2>2. \A j \in Bufs : j \in proc'[p].held => j \in proc[p].held \/ (j = k /\ buf[k].valid)
    BY <1>1 DEF Moves
  <2> QED
    BY <1>2, <1>3, <1>4, <2>1, <2>2 DEF ValidOK
<1>10. OneBuffer'
  BY <1>2, <1>3 DEF OneBuffer
<1>11. LruOK'
  BY <1>1, <1>2 DEF LruOK
<1>12. \A j \in Bufs : Done(j)' <=> Done(j)
  BY <1>3 DEF Done
<1>13. QueueOK'
  <2>1. \A i \in DOMAIN idequeue : idequeue[i] \in Bufs
    BY QueuedOwned
  <2>2. \A q \in Procs : proc[q].pc = "sleep" => proc'[q] = proc[q]
    BY <1>1, <1>4
  <2>3. \A q \in Procs : proc'[q].pc = "iderw" => ~Done(proc'[q].b) /\ proc'[q].b \in Bufs
    <3>1. proc'[p].pc = "iderw" => proc'[p].b = k /\ ~Done(k)
      BY <1>1 DEF Moves, Done
    <3> QED
      BY <1>2, <1>4, <3>1 DEF QueueOK, ProcOK
  <2> QED
    BY <1>1, <1>2, <1>12, <2>1, <2>2, <2>3 DEF QueueOK
<1>14. CleanOK'
  BY <1>1, <1>2, <1>3, <1>12 DEF CleanOK
<1> QED
  BY <1>1, <1>6, <1>7, <1>8, <1>9, <1>10, <1>11, <1>13, <1>14 DEF IInv

\* log_write keeps the invariant.
LEMMA LogWriteKeeps ==
  ASSUME IInv, NEW p \in Procs, NEW k \in Bufs, LogWrite(p, k)
  PROVE  IInv'
<1>1. /\ proc[p].pc = "run" /\ k \in proc[p].held
      /\ buf'[k] = [buf[k] EXCEPT !.dirty = TRUE, !.data = p] /\ Others(k)
      /\ UNCHANGED <<disk, lru, idequeue, started, proc, panic>>
      /\ TypeOK'
  BY LogWriteFacts
<1>2. /\ ProcOK /\ RefOK /\ LockOK /\ ValidOK
      /\ OneBuffer /\ LruOK /\ QueueOK /\ CleanOK
      /\ buf \in [Bufs -> BufType] /\ buf[k] \in BufType
  BY TypeIs DEF IInv
<1>3. /\ \A j \in Bufs : /\ buf'[j].blockno = buf[j].blockno
                         /\ buf'[j].valid = buf[j].valid
                         /\ buf'[j].refcnt = buf[j].refcnt
                         /\ buf'[j].lock = buf[j].lock
      /\ buf'[k].dirty = TRUE /\ \A j \in Bufs \ {k} : buf'[j] = buf[j]
  <2>1. \A j \in Bufs \ {k} : buf'[j] = buf[j]
    BY <1>1 DEF Others
  <2>2. /\ buf'[k].blockno = buf[k].blockno /\ buf'[k].valid = buf[k].valid
        /\ buf'[k].refcnt = buf[k].refcnt /\ buf'[k].lock = buf[k].lock
    BY <1>1, <1>2 DEF BufType
  <2>3. buf'[k].dirty = TRUE
    BY <1>1, <1>2 DEF BufType
  <2> QED
    BY <2>1, <2>2, <2>3
<1>4. /\ Owns(p, k) /\ \A q \in Procs \ {p} : ~Owns(q, k)
      /\ buf[k].valid
  BY <1>1, <1>2 DEF Owns, LockOK, ValidOK
<1>5. \A q \in Procs : InUse(q)' = InUse(q) /\ \A j \in Bufs : Owns(q, j)' <=> Owns(q, j)
  BY <1>1 DEF InUse, Owns
<1>6. ProcOK'
  BY <1>1, <1>2 DEF ProcOK
<1>7. RefOK'
  BY <1>2, <1>3, <1>5, RefSame
<1>8. LockOK'
  BY <1>2, <1>3, <1>5 DEF LockOK
<1>9. ValidOK'
  <2>1. \A j \in Bufs : Users(j)' = Users(j)
    BY <1>5 DEF Users
  <2> QED
    BY <1>1, <1>2, <1>3, <1>4, <2>1 DEF ValidOK
<1>10. OneBuffer'
  BY <1>2, <1>3 DEF OneBuffer
<1>11. LruOK'
  BY <1>1, <1>2 DEF LruOK
<1>12. ~Done(k)' /\ \A j \in Bufs \ {k} : Done(j)' <=> Done(j)
  BY <1>3 DEF Done
<1>13. QueueOK'
  <2>1. \A i \in DOMAIN idequeue : idequeue[i] \in Bufs
    BY QueuedOwned
  <2>2. \A q \in Procs : proc[q].pc = "iderw" => proc[q].b \in Bufs
    BY <1>2 DEF ProcOK
  <2> QED
    BY <1>1, <1>2, <1>12, <2>1, <2>2 DEF QueueOK
<1>14. CleanOK'
  BY <1>1, <1>2, <1>3, <1>12 DEF CleanOK
<1> QED
  BY <1>1, <1>6, <1>7, <1>8, <1>9, <1>10, <1>11, <1>13, <1>14 DEF IInv

\* bwrite keeps the invariant.
LEMMA BwriteKeeps ==
  ASSUME IInv, NEW p \in Procs, NEW k \in Bufs, Bwrite(p, k)
  PROVE  IInv'
<1>1. /\ proc[p].pc = "run" /\ k \in proc[p].held
      /\ Moves(p, "iderw", k, proc[p].held \ {k})
      /\ buf'[k] = [buf[k] EXCEPT !.dirty = TRUE, !.data = IF buf[k].dirty THEN @ ELSE p]
      /\ Others(k)
      /\ UNCHANGED <<disk, lru, idequeue, started, panic>>
      /\ TypeOK'
  BY BwriteFacts
<1>2. /\ ProcOK /\ RefOK /\ LockOK /\ ValidOK
      /\ OneBuffer /\ LruOK /\ QueueOK /\ CleanOK
      /\ buf \in [Bufs -> BufType] /\ buf[k] \in BufType
  BY TypeIs DEF IInv
<1>3. /\ \A j \in Bufs : /\ buf'[j].blockno = buf[j].blockno
                         /\ buf'[j].valid = buf[j].valid
                         /\ buf'[j].refcnt = buf[j].refcnt
                         /\ buf'[j].lock = buf[j].lock
      /\ buf'[k].dirty = TRUE /\ \A j \in Bufs \ {k} : buf'[j] = buf[j]
  <2>1. \A j \in Bufs \ {k} : buf'[j] = buf[j]
    BY <1>1 DEF Others
  <2>2. /\ buf'[k].blockno = buf[k].blockno /\ buf'[k].valid = buf[k].valid
        /\ buf'[k].refcnt = buf[k].refcnt /\ buf'[k].lock = buf[k].lock
    BY <1>1, <1>2 DEF BufType
  <2>3. buf'[k].dirty = TRUE
    BY <1>1, <1>2 DEF BufType
  <2> QED
    BY <2>1, <2>2, <2>3
<1>4. /\ Owns(p, k) /\ \A q \in Procs \ {p} : ~Owns(q, k)
      /\ buf[k].valid
  BY <1>1, <1>2 DEF Owns, LockOK, ValidOK
<1>5. \A q \in Procs : InUse(q)' = InUse(q) /\ \A j \in Bufs : Owns(q, j)' <=> Owns(q, j)
  BY <1>1 DEF InUse, Owns, Moves, DiskCall
<1>6. ProcOK'
  BY <1>1, <1>2 DEF ProcOK, Moves
<1>7. RefOK'
  BY <1>2, <1>3, <1>5, RefSame
<1>8. LockOK'
  BY <1>2, <1>3, <1>5 DEF LockOK
<1>9. ValidOK'
  <2>1. \A j \in Bufs : Users(j)' = Users(j)
    BY <1>5 DEF Users
  <2>2. \A q \in Procs : proc'[q].held \subseteq proc[q].held
    BY <1>1 DEF Moves
  <2> QED
    BY <1>2, <1>3, <1>4, <2>1, <2>2 DEF ValidOK
<1>10. OneBuffer'
  BY <1>2, <1>3 DEF OneBuffer
<1>11. LruOK'
  BY <1>1, <1>2 DEF LruOK
<1>12. ~Done(k)' /\ \A j \in Bufs \ {k} : Done(j)' <=> Done(j)
  BY <1>3 DEF Done
<1>13. QueueOK'
  <2>1. \A i \in DOMAIN idequeue : idequeue[i] \in Bufs
    BY QueuedOwned
  <2>2. \A q \in Procs : proc[q].pc = "sleep" => proc'[q] = proc[q]
    BY <1>1 DEF Moves
  <2>3. \A q \in Procs : proc'[q].pc = "iderw" =>
          proc'[q].b \in Bufs /\ (proc'[q].b = k \/ ~Done(proc'[q].b))
    BY <1>1, <1>2 DEF Moves, ProcOK, QueueOK
  <2> QED
    BY <1>1, <1>2, <1>12, <2>1, <2>2, <2>3 DEF QueueOK
<1>14. CleanOK'
  BY <1>1, <1>2, <1>3, <1>12 DEF CleanOK
<1> QED
  BY <1>1, <1>6, <1>7, <1>8, <1>9, <1>10, <1>11, <1>13, <1>14 DEF IInv

\* The first section of brelse keeps the invariant.
LEMMA ReleasesleepKeeps ==
  ASSUME IInv, NEW p \in Procs, NEW k \in Bufs, Releasesleep(p, k)
  PROVE  IInv'
<1>1. /\ proc[p].pc = "run" /\ k \in proc[p].held
      /\ Moves(p, "drop", k, proc[p].held \ {k})
      /\ buf'[k] = [buf[k] EXCEPT !.lock = Nobody] /\ Others(k)
      /\ UNCHANGED <<disk, lru, idequeue, started, panic>>
      /\ TypeOK'
  BY ReleasesleepFacts
<1>2. /\ ProcOK /\ RefOK /\ LockOK /\ ValidOK
      /\ OneBuffer /\ LruOK /\ QueueOK /\ CleanOK
      /\ buf \in [Bufs -> BufType] /\ buf[k] \in BufType
  BY TypeIs DEF IInv
<1>3. /\ \A j \in Bufs : /\ buf'[j].blockno = buf[j].blockno
                         /\ buf'[j].valid = buf[j].valid
                         /\ buf'[j].dirty = buf[j].dirty
                         /\ buf'[j].refcnt = buf[j].refcnt
                         /\ buf'[j].data = buf[j].data
      /\ buf'[k].lock = Nobody
      /\ \A j \in Bufs \ {k} : buf'[j].lock = buf[j].lock
  BY <1>1, <1>2 DEF Others, BufType
<1>4. /\ Owns(p, k) /\ \A q \in Procs \ {p} : ~Owns(q, k)
      /\ buf[k].valid
  BY <1>1, <1>2 DEF Owns, LockOK, ValidOK
<1>5. /\ \A q \in Procs : InUse(q)' = InUse(q)
      /\ \A q \in Procs : \A j \in Bufs \ {k} : Owns(q, j)' <=> Owns(q, j)
      /\ \A q \in Procs : ~Owns(q, k)'
  BY <1>1, <1>4 DEF InUse, Owns, Moves, DiskCall
<1>6. ProcOK'
  BY <1>1, <1>2 DEF ProcOK, Moves
<1>7. RefOK'
  BY <1>2, <1>3, <1>5, RefSame
<1>8. LockOK'
  BY <1>2, <1>3, <1>5, BcacheAssumption DEF LockOK
<1>9. ValidOK'
  <2>1. \A j \in Bufs : Users(j)' = Users(j)
    BY <1>5 DEF Users
  <2>2. \A q \in Procs : proc'[q].held \subseteq proc[q].held
    BY <1>1 DEF Moves
  <2> QED
    BY <1>2, <1>3, <2>1, <2>2 DEF ValidOK
<1>10. OneBuffer'
  BY <1>2, <1>3 DEF OneBuffer
<1>11. LruOK'
  BY <1>1, <1>2 DEF LruOK
<1>12. \A j \in Bufs : Done(j)' <=> Done(j)
  BY <1>3 DEF Done
<1>13. QueueOK'
  <2>1. \A i \in DOMAIN idequeue : idequeue[i] \in Bufs
    BY QueuedOwned
  <2>2. \A q \in Procs : proc[q].pc = "sleep" => proc'[q] = proc[q]
    BY <1>1 DEF Moves
  <2>3. \A q \in Procs : proc'[q].pc = "iderw" => proc'[q] = proc[q] /\ proc[q].b \in Bufs
    BY <1>1, <1>2 DEF Moves, ProcOK
  <2> QED
    BY <1>1, <1>2, <1>12, <2>1, <2>2, <2>3 DEF QueueOK
<1>14. CleanOK'
  BY <1>1, <1>2, <1>3, <1>12 DEF CleanOK
<1> QED
  BY <1>1, <1>6, <1>7, <1>8, <1>9, <1>10, <1>11, <1>13, <1>14 DEF IInv

\* The second section of brelse keeps the invariant.
LEMMA BrelseKeeps ==
  ASSUME IInv, NEW p \in Procs, Brelse(p)
  PROVE  IInv'
<1>1. PICK k \in Bufs :
           /\ proc[p].pc = "drop" /\ proc[p].b = k
           /\ Moves(p, "run", 0, proc[p].held)
           /\ buf'[k] = [buf[k] EXCEPT !.refcnt = @ - 1] /\ Others(k)
           /\ UNCHANGED <<disk, idequeue, started, panic>>
           /\ TypeOK' /\ LruOK'
  BY BrelseFacts
<1>2. /\ ProcOK /\ RefOK /\ LockOK /\ ValidOK
      /\ OneBuffer /\ LruOK /\ QueueOK /\ CleanOK
      /\ buf \in [Bufs -> BufType] /\ buf[k] \in BufType
  BY TypeIs DEF IInv
<1>3. /\ \A j \in Bufs : /\ buf'[j].blockno = buf[j].blockno
                         /\ buf'[j].valid = buf[j].valid
                         /\ buf'[j].dirty = buf[j].dirty
                         /\ buf'[j].lock = buf[j].lock
                         /\ buf'[j].data = buf[j].data
      /\ buf'[k].refcnt = buf[k].refcnt - 1
      /\ \A j \in Bufs \ {k} : buf'[j].refcnt = buf[j].refcnt
  BY <1>1, <1>2 DEF Others, BufType
<1>4. /\ k \in InUse(p) /\ InUse(p)' = InUse(p) \ {k}
      /\ \A q \in Procs \ {p} : InUse(q)' = InUse(q)
  BY <1>1, <1>2 DEF InUse, Moves, ProcOK
<1>5. \A q \in Procs : \A j \in Bufs : Owns(q, j)' <=> Owns(q, j)
  BY <1>1 DEF Owns, Moves, DiskCall
<1>6. ProcOK'
  BY <1>1, <1>2 DEF ProcOK, Moves
<1>7. RefOK'
  BY <1>2, <1>3, <1>4, RefDrop
<1>8. LockOK'
  BY <1>2, <1>3, <1>5 DEF LockOK
<1>9. ValidOK'
  <2>1. \A j \in Bufs : Users(j)' \subseteq Users(j)
    BY <1>4 DEF Users
  <2>2. \A q \in Procs : proc'[q].held = proc[q].held
    BY <1>1 DEF Moves
  <2> QED
    BY <1>2, <1>3, <2>1, <2>2 DEF ValidOK
<1>10. OneBuffer'
  BY <1>2, <1>3 DEF OneBuffer
<1>12. \A j \in Bufs : Done(j)' <=> Done(j)
  BY <1>3 DEF Done
<1>13. QueueOK'
  <2>1. \A i \in DOMAIN idequeue : idequeue[i] \in Bufs
    BY QueuedOwned
  <2>2. \A q \in Procs : proc[q].pc = "sleep" => proc'[q] = proc[q]
    BY <1>1 DEF Moves
  <2>3. \A q \in Procs : proc'[q].pc = "iderw" => proc'[q] = proc[q] /\ proc[q].b \in Bufs
    BY <1>1, <1>2 DEF Moves, ProcOK
  <2> QED
    BY <1>1, <1>2, <1>12, <2>1, <2>2, <2>3 DEF QueueOK
<1>14. CleanOK'
  BY <1>1, <1>2, <1>3, <1>12 DEF CleanOK
<1> QED
  BY <1>1, <1>6, <1>7, <1>8, <1>9, <1>10, <1>13, <1>14 DEF IInv

\* Queueing a request keeps the invariant.
LEMMA IderwKeeps ==
  ASSUME IInv, NEW p \in Procs, Iderw(p)
  PROVE  IInv'
<1>1. PICK k \in Bufs :
           /\ proc[p].pc = "iderw" /\ proc[p].b = k /\ ~Done(k)
           /\ Moves(p, "sleep", k, proc[p].held)
           /\ idequeue' = Append(idequeue, k)
           /\ UNCHANGED <<disk, buf, lru, panic>>
           /\ TypeOK'
  BY IderwFacts
<1>2. /\ ProcOK /\ RefOK /\ LockOK /\ ValidOK
      /\ OneBuffer /\ LruOK /\ QueueOK /\ CleanOK
      /\ buf \in [Bufs -> BufType] /\ buf[k] \in BufType
  BY TypeIs DEF IInv
<1>4. \A q \in Procs : InUse(q)' = InUse(q)
  BY <1>1 DEF InUse, Moves
<1>5. \A q \in Procs : \A j \in Bufs : Owns(q, j)' <=> Owns(q, j)
  BY <1>1 DEF Owns, Moves, DiskCall
<1>6. ProcOK'
  BY <1>1, <1>2 DEF ProcOK, Moves
<1>7. RefOK'
  BY <1>1, <1>2, <1>4, RefSame
<1>8. LockOK'
  BY <1>1, <1>2, <1>5 DEF LockOK
<1>9. ValidOK'
  <2>1. \A j \in Bufs : Users(j)' = Users(j)
    BY <1>4 DEF Users
  <2>2. \A q \in Procs : proc'[q].held = proc[q].held
    BY <1>1 DEF Moves
  <2> QED
    BY <1>1, <1>2, <2>1, <2>2 DEF ValidOK
<1>10. OneBuffer'
  BY <1>1, <1>2 DEF OneBuffer
<1>11. LruOK'
  BY <1>1, <1>2 DEF LruOK
<1>12. \A j : Done(j)' <=> Done(j)
  BY <1>1 DEF Done
<1>13. QueueOK'
  <2> DEFINE m == Len(idequeue)
  <2>1. /\ idequeue \in Seq(Bufs) /\ m \in Nat
        /\ DOMAIN idequeue = 1..m /\ DOMAIN idequeue' = 1..(m + 1)
        /\ \A i \in 1..m : idequeue'[i] = idequeue[i]
        /\ idequeue'[m + 1] = k /\ idequeue' # <<>>
    BY <1>1, TypeIs DEF IInv
  <2>2. \A i \in 1..m : idequeue[i] # k
    <3>1. ASSUME NEW i \in 1..m PROVE idequeue[i] # k
      <4>1. PICK q \in Procs : /\ proc[q].pc = "sleep"
                               /\ buf[idequeue[i]].lock = q
        BY <2>1, QueuedOwned
      <4>2. buf[k].lock = p
        BY <1>1, <1>2 DEF LockOK, Owns, DiskCall
      <4> QED
        BY <1>1, <4>1, <4>2
    <3> QED
      BY <3>1
  <2> HIDE DEF m
  <2>3. \A i \in DOMAIN idequeue' : (i \in 1..m /\ idequeue'[i] = idequeue[i])
                                 \/ (i = m + 1 /\ idequeue'[i] = k)
    BY <2>1
  <2>4. \A i, j \in DOMAIN idequeue' : idequeue'[i] = idequeue'[j] => i = j
    BY <1>2, <2>1, <2>2, <2>3 DEF QueueOK
  <2>5. \A q \in Procs : proc[q].pc = "sleep" => proc'[q] = proc[q]
    BY <1>1 DEF Moves
  <2>6. \A i \in DOMAIN idequeue' :
          /\ ~Done(idequeue'[i])
          /\ \E q \in Procs : proc'[q].pc = "sleep" /\ proc'[q].b = idequeue'[i]
    <3>1. proc'[p].pc = "sleep" /\ proc'[p].b = k
      BY <1>1 DEF Moves
    <3> QED
      BY <1>1, <1>2, <2>1, <2>3, <2>5, <3>1 DEF QueueOK
  <2>7. \A q \in Procs : proc'[q].pc = "iderw" => proc'[q] = proc[q]
    BY <1>1 DEF Moves
  <2> QED
    BY <1>2, <1>12, <2>1, <2>4, <2>6, <2>7 DEF QueueOK
<1>14. CleanOK'
  BY <1>1, <1>2, <1>12 DEF CleanOK
<1> QED
  BY <1>1, <1>6, <1>7, <1>8, <1>9, <1>10, <1>11, <1>13, <1>14 DEF IInv

\* The return of iderw keeps the invariant.
LEMMA WakeKeeps ==
  ASSUME IInv, NEW p \in Procs, Wake(p)
  PROVE  IInv'
<1>1. PICK k \in Bufs :
           /\ proc[p].pc = "sleep" /\ proc[p].b = k /\ Done(k)
           /\ Moves(p, "run", 0, proc[p].held \union {k})
           /\ UNCHANGED <<disk, buf, lru, idequeue, started, panic>>
           /\ TypeOK'
  BY WakeFacts
<1>2. /\ ProcOK /\ RefOK /\ LockOK /\ ValidOK
      /\ OneBuffer /\ LruOK /\ QueueOK /\ CleanOK
      /\ buf \in [Bufs -> BufType] /\ buf[k] \in BufType
  BY TypeIs DEF IInv
<1>4. \A q \in Procs : InUse(q)' = InUse(q)
  BY <1>1 DEF InUse, Moves
<1>5. \A q \in Procs : \A j \in Bufs : Owns(q, j)' <=> Owns(q, j)
  BY <1>1 DEF Owns, Moves, DiskCall
<1>6. ProcOK'
  BY <1>1, <1>2 DEF ProcOK, Moves
<1>7. RefOK'
  BY <1>1, <1>2, <1>4, RefSame
<1>8. LockOK'
  BY <1>1, <1>2, <1>5 DEF LockOK
<1>9. ValidOK'
  <2>1. \A j \in Bufs : Users(j)' = Users(j)
    BY <1>4 DEF Users
  <2>2. \A q \in Procs : \A j \in proc'[q].held : j \in proc[q].held \/ (j = k /\ buf[k].valid)
    BY <1>1 DEF Moves, Done
  <2> QED
    BY <1>1, <1>2, <2>1, <2>2 DEF ValidOK
<1>10. OneBuffer'
  BY <1>1, <1>2 DEF OneBuffer
<1>11. LruOK'
  BY <1>1, <1>2 DEF LruOK
<1>12. \A j : Done(j)' <=> Done(j)
  BY <1>1 DEF Done
<1>13. QueueOK'
  <2>1. \A q \in Procs : proc[q].pc = "sleep" /\ q # p => proc'[q] = proc[q]
    BY <1>1 DEF Moves
  <2>2. \A i \in DOMAIN idequeue : idequeue[i] # k
    BY <1>1, <1>2 DEF QueueOK
  <2>3. \A q \in Procs : proc'[q].pc = "iderw" => proc'[q] = proc[q]
    BY <1>1 DEF Moves
  <2> QED
    BY <1>1, <1>2, <1>12, <2>1, <2>2, <2>3 DEF QueueOK
<1>14. CleanOK'
  BY <1>1, <1>2, <1>12 DEF CleanOK
<1> QED
  BY <1>1, <1>6, <1>7, <1>8, <1>9, <1>10, <1>11, <1>13, <1>14 DEF IInv

\* The end of a command of the disk keeps the invariant.
LEMMA IdeintrKeeps ==
  ASSUME IInv, Ideintr
  PROVE  IInv'
<1>1. PICK k \in Bufs :
           /\ idequeue # <<>> /\ k = idequeue[1] /\ ~Done(k)
           /\ \E p \in Procs : proc[p].pc = "sleep" /\ proc[p].b = k
           /\ idequeue' = Tail(idequeue) /\ started' = (Tail(idequeue) # <<>>)
           /\ disk' = IF buf[k].dirty THEN [disk EXCEPT ![buf[k].blockno] = buf[k].data]
                      ELSE disk
           /\ buf'[k] = [buf[k] EXCEPT !.valid = TRUE, !.dirty = FALSE,
                                       !.data = IF buf[k].dirty THEN @ ELSE disk[buf[k].blockno]]
           /\ Others(k)
           /\ UNCHANGED <<lru, proc, panic>>
           /\ TypeOK'
  BY IdeintrFacts
<1>2. /\ ProcOK /\ RefOK /\ LockOK /\ ValidOK
      /\ OneBuffer /\ LruOK /\ QueueOK /\ CleanOK
      /\ buf \in [Bufs -> BufType] /\ buf[k] \in BufType
      /\ disk \in [Blocks -> Procs \union {Nobody}]
  BY TypeIs DEF IInv
<1>3. /\ buf'[k].blockno = buf[k].blockno /\ buf'[k].refcnt = buf[k].refcnt
      /\ buf'[k].lock = buf[k].lock
      /\ \A j \in Bufs \ {k} : buf'[j] = buf[j]
  <2>1. \A j \in Bufs \ {k} : buf'[j] = buf[j]
    BY <1>1 DEF Others
  <2>2. /\ buf'[k].blockno = buf[k].blockno /\ buf'[k].refcnt = buf[k].refcnt
        /\ buf'[k].lock = buf[k].lock
    BY <1>1, <1>2 DEF BufType
  <2> QED
    BY <2>1, <2>2
<1>4. /\ buf'[k].valid = TRUE /\ buf'[k].dirty = FALSE
      /\ buf'[k].data = IF buf[k].dirty THEN buf[k].data ELSE disk[buf[k].blockno]
  <2>1. buf'[k].valid = TRUE
    BY <1>1, <1>2 DEF BufType
  <2>2. buf'[k].dirty = FALSE
    BY <1>1, <1>2 DEF BufType
  <2>3. buf'[k].data = IF buf[k].dirty THEN buf[k].data ELSE disk[buf[k].blockno]
    BY <1>1, <1>2 DEF BufType
  <2> QED
    BY <2>1, <2>2, <2>3
<1>5. /\ \A q \in Procs : InUse(q)' = InUse(q)
      /\ \A q \in Procs : \A j \in Bufs : Owns(q, j)' <=> Owns(q, j)
  BY <1>1 DEF InUse, Owns
<1>6. ProcOK'
  BY <1>1, <1>2 DEF ProcOK
<1>7. RefOK'
  BY <1>2, <1>3, <1>5, RefSame
<1>8. LockOK'
  BY <1>2, <1>3, <1>5 DEF LockOK
<1>9. \A j \in Bufs : Users(j)' = Users(j)
  BY <1>5 DEF Users
<1>10. buf[k].blockno \in Blocks /\ Users(k) # {}
  <2>1. Users(k) # {}
    BY <1>1 DEF Users, InUse
  <2> QED
    BY <1>2, <2>1 DEF ValidOK
<1>11. ValidOK'
  <2>1. ASSUME NEW j \in Bufs
        PROVE  /\ buf'[j].dirty => buf'[j].valid
               /\ buf'[j].valid \/ Users(j)' # {} => buf'[j].blockno \in Blocks
               /\ \A p \in Procs : j \in proc'[p].held => buf'[j].valid
    <3>1. CASE j = k
      BY <1>3, <1>4, <1>10, <3>1
    <3>2. CASE j # k
      BY <1>1, <1>2, <1>3, <1>9, <3>2 DEF ValidOK
    <3> QED
      BY <3>1, <3>2
  <2> QED
    BY <2>1 DEF ValidOK
<1>12. OneBuffer'
  BY <1>2, <1>3 DEF OneBuffer
<1>13. LruOK'
  BY <1>1, <1>2 DEF LruOK
<1>14. \A j \in Bufs \ {k} : Done(j)' <=> Done(j)
  BY <1>3 DEF Done
<1>15. QueueOK'
  <2> DEFINE m == Len(idequeue)
  <2>1. /\ m \in Nat /\ m >= 1 /\ DOMAIN idequeue = 1..m /\ DOMAIN idequeue' = 1..(m - 1)
        /\ \A i \in 1..(m - 1) : idequeue'[i] = idequeue[i + 1]
        /\ \A i \in 1..m : idequeue[i] \in Bufs
    BY <1>1, TypeIs DEF IInv
  <2>2. 1 \in DOMAIN idequeue
    BY <2>1
  <2> HIDE DEF m
  <2>3. ASSUME NEW i \in DOMAIN idequeue'
        PROVE  /\ i \in Int /\ i + 1 \in DOMAIN idequeue
               /\ idequeue'[i] = idequeue[i + 1] /\ idequeue'[i] \in Bufs \ {k}
    <3>1. i \in Int /\ i + 1 \in 1..m /\ i + 1 # 1 /\ i \in 1..(m - 1)
      BY <2>1
    <3>2. idequeue'[i] = idequeue[i + 1] /\ idequeue[i + 1] \in Bufs
      BY <2>1, <3>1
    <3>3. idequeue[i + 1] # k
      BY <1>1, <1>2, <2>1, <2>2, <3>1 DEF QueueOK
    <3> QED
      BY <2>1, <3>1, <3>2, <3>3
  <2>4. ASSUME NEW i \in DOMAIN idequeue', NEW j \in DOMAIN idequeue',
               idequeue'[i] = idequeue'[j]
        PROVE  i = j
    <3>1. i + 1 = j + 1
      BY <1>2, <2>3, <2>4 DEF QueueOK
    <3> QED
      BY <2>3, <3>1
  <2>5. ASSUME NEW i \in DOMAIN idequeue'
        PROVE  /\ ~Done(idequeue[i])'
               /\ \E q \in Procs : proc'[q].pc = "sleep" /\ proc'[q].b = idequeue'[i]
    <3>1. /\ ~Done(idequeue[i + 1])
          /\ \E q \in Procs : proc[q].pc = "sleep" /\ proc[q].b = idequeue[i + 1]
      BY <1>2, <2>3 DEF QueueOK
    <3>2. PICK j \in Bufs \ {k} : j = idequeue'[i] /\ j = idequeue[i + 1]
      BY <2>3
    <3>3. ~Done(j)
      BY <3>1, <3>2
    <3>4. ~Done(j)'
      BY <1>14, <3>3
    <3> QED
      BY <1>1, <3>1, <3>2, <3>4 DEF Done
  <2>6. ASSUME NEW q \in Procs, proc'[q].pc = "iderw" PROVE ~Done(proc[q].b)'
    <3>1. /\ proc'[q] = proc[q] /\ proc[q].b \in Bufs /\ ~Done(proc[q].b)
      BY <1>1, <1>2, <2>6 DEF ProcOK, QueueOK
    <3>2. Owns(q, proc[q].b)
      BY <2>6, <3>1 DEF Owns, DiskCall
    <3>3. proc[q].b # k
      BY <1>1, <1>2, <2>6, <3>1, <3>2 DEF LockOK, Owns, DiskCall
    <3>4. PICK j \in Bufs \ {k} : j = proc[q].b
      BY <3>1, <3>3
    <3>5. ~Done(j)'
      BY <1>14, <3>1, <3>4
    <3> QED
      BY <3>1, <3>4, <3>5 DEF Done
  <2>7. started' => idequeue' # <<>>
    BY <1>1
  <2> QED
    BY <2>4, <2>5, <2>6, <2>7 DEF QueueOK
<1>16. CleanOK'
  <2>1. ASSUME NEW j \in Bufs \ {k}, Done(j)'
        PROVE  buf'[j].data = disk'[buf'[j].blockno]
    <3>1. Done(j) /\ buf'[j] = buf[j]
      BY <1>3, <1>14, <2>1
    <3>2. buf[j].blockno \in Blocks /\ buf[j].blockno # 0
      BY <1>2, <3>1, BcacheAssumption DEF ValidOK, Done
    <3>3. buf[j].blockno # buf[k].blockno
      BY <1>2, <3>2 DEF OneBuffer
    <3>4. disk'[buf[j].blockno] = disk[buf[j].blockno]
      BY <1>1, <1>2, <3>2, <3>3
    <3> QED
      BY <1>2, <3>1, <3>4 DEF CleanOK
  <2>2. buf'[k].data = disk'[buf'[k].blockno]
    BY <1>1, <1>2, <1>3, <1>4, <1>10
  <2> QED
    BY <2>1, <2>2 DEF CleanOK
<1> QED
  BY <1>1, <1>6, <1>7, <1>8, <1>11, <1>12, <1>13, <1>15, <1>16 DEF IInv

\* After a panic nothing has changed, and nothing will.
LEMMA PanicKeeps ==
  ASSUME IInv, panic' \in BOOLEAN, UNCHANGED <<disk, buf, lru, idequeue, started, proc>>
  PROVE  IInv'
<1>1. TypeOK'
  BY TypeIs DEF IInv, TypeOK
<1>2. ProcOK' /\ LruOK'
  BY DEF IInv, ProcOK, LruOK
<1>3. RefOK'
  BY DEF IInv, RefOK, Users, InUse
<1>4. LockOK'
  BY DEF IInv, LockOK, Owns
<1>5. ValidOK' /\ OneBuffer'
  BY DEF IInv, ValidOK, OneBuffer, Users, InUse
<1>6. QueueOK' /\ CleanOK'
  BY DEF IInv, QueueOK, CleanOK, Done
<1> QED
  BY <1>1, <1>2, <1>3, <1>4, <1>5, <1>6 DEF IInv

\* A step is one of the disk or of a process, or bget's panic.
LEMMA Steps ==
  ASSUME IInv, [Next]_vars
  PROVE  \/ Ideintr
         \/ \E p \in Procs :
              \/ \E n \in Blocks : BgetHit(p, n) \/ (BgetMiss(p, n) /\ Unused # {})
              \/ AcquireSleep(p) \/ Brelse(p) \/ Iderw(p) \/ Wake(p)
              \/ \E k \in Bufs : LogWrite(p, k) \/ Bwrite(p, k) \/ Releasesleep(p, k)
         \/ \E p \in Procs, n \in Blocks : BgetMiss(p, n) /\ Unused = {} /\ Panics
         \/ UNCHANGED vars
BY DEF Next, Step, BgetMiss

\* The invariant holds at boot.
LEMMA InitHolds == Init => IInv
<1> SUFFICES ASSUME Init PROVE IInv
  OBVIOUS
<1>1. NBuf \in Nat \ {0} /\ Bufs = 1..NBuf
  BY BcacheAssumption DEF Bufs
<1>2. TypeOK
  <2>1. lru \in [Bufs -> Bufs]
    BY <1>1 DEF Init
  <2>2. buf \in [Bufs -> BufType]
    BY DEF Init, BufType
  <2>3. proc \in [Procs -> ProcType]
    BY DEF Init, ProcType, PCs
  <2>4. disk \in [Blocks -> Procs \union {Nobody}]
    BY DEF Init
  <2>5. idequeue \in Seq(Bufs) /\ started \in BOOLEAN /\ panic \in BOOLEAN
    <3>1. <<>> \in Seq(Bufs)
      BY EmptySeq
    <3> QED
      BY <3>1 DEF Init
  <2> QED
    BY <2>1, <2>2, <2>3, <2>4, <2>5, TypeIs
<1>3. \A p \in Procs : proc[p].pc = "run" /\ proc[p].held = {}
  BY DEF Init
<1>4. \A k \in Bufs : /\ buf[k].blockno = 0 /\ ~buf[k].valid /\ ~buf[k].dirty
                      /\ buf[k].refcnt = 0 /\ buf[k].lock = Nobody
  BY DEF Init
<1>5. \A k : Users(k) = {}
  BY <1>3 DEF Users, InUse
<1>6. RefOK
  BY <1>4, <1>5, FS_EmptySet DEF RefOK
<1>7. ProcOK /\ LockOK
  BY <1>3, <1>4, BcacheAssumption DEF ProcOK, LockOK, Owns, DiskCall
<1>8. ValidOK /\ OneBuffer /\ CleanOK
  BY <1>3, <1>4, <1>5 DEF ValidOK, OneBuffer, CleanOK, Done
<1>9. LruOK
  <2>1. ASSUME NEW k \in Bufs PROVE \E i \in Bufs : lru[i] = k
    <3> DEFINE i == NBuf + 1 - k
    <3>1. i \in Bufs /\ NBuf + 1 - i = k
      BY <1>1
    <3>2. lru[i] = NBuf + 1 - i
      BY <3>1 DEF Init
    <3> QED
      BY <3>1, <3>2
  <2> QED
    BY <2>1 DEF LruOK
<1>10. QueueOK
  BY <1>3 DEF Init, QueueOK
<1> QED
  BY <1>2, <1>6, <1>7, <1>8, <1>9, <1>10 DEF IInv

\* Every step keeps the invariant.
LEMMA NextKeeps == IInv /\ [Next]_vars => IInv'
<1> SUFFICES ASSUME IInv, [Next]_vars PROVE IInv'
  OBVIOUS
<1>1. CASE Ideintr
  BY <1>1, IdeintrKeeps
<1>2. ASSUME NEW p \in Procs, NEW n \in Blocks, BgetHit(p, n) PROVE IInv'
  BY <1>2, BgetHitKeeps
<1>3. ASSUME NEW p \in Procs, NEW n \in Blocks, BgetMiss(p, n), Unused # {} PROVE IInv'
  BY <1>3, BgetMissKeeps
<1>4. ASSUME NEW p \in Procs, AcquireSleep(p) PROVE IInv'
  BY <1>4, AcquireSleepKeeps
<1>5. ASSUME NEW p \in Procs, Brelse(p) PROVE IInv'
  BY <1>5, BrelseKeeps
<1>6. ASSUME NEW p \in Procs, Iderw(p) PROVE IInv'
  BY <1>6, IderwKeeps
<1>7. ASSUME NEW p \in Procs, Wake(p) PROVE IInv'
  BY <1>7, WakeKeeps
<1>8. ASSUME NEW p \in Procs, NEW k \in Bufs, LogWrite(p, k) PROVE IInv'
  BY <1>8, LogWriteKeeps
<1>9. ASSUME NEW p \in Procs, NEW k \in Bufs, Bwrite(p, k) PROVE IInv'
  BY <1>9, BwriteKeeps
<1>10. ASSUME NEW p \in Procs, NEW k \in Bufs, Releasesleep(p, k) PROVE IInv'
  BY <1>10, ReleasesleepKeeps
<1>11. CASE Panics
  BY <1>11, PanicKeeps DEF Panics
<1>12. CASE UNCHANGED vars
  <2>1. panic' \in BOOLEAN
    BY <1>12, TypeIs DEF vars, IInv
  <2> QED
    BY <1>12, <2>1, PanicKeeps DEF vars
<1> QED
  BY <1>1, <1>2, <1>3, <1>4, <1>5, <1>6, <1>7, <1>8, <1>9, <1>10, <1>11, <1>12, Steps

\* The invariant of the cache, for any number of processes, blocks and buffers.
THEOREM Invariance == Spec => []IInv
<1>1. Init => IInv
  BY InitHolds
<1>2. IInv /\ [Next]_vars => IInv'
  BY NextKeeps
<1> QED
  BY <1>1, <1>2, PTL DEF Spec

-----------------------------------------------------------------------------
(* The cache implements the store *)

\* What the store is, told by the buffer that has been read, of which a block
\* has one at most.
StoreIs ==
  /\ \A k \in Bufs : buf[k].valid => /\ Val[buf[k].blockno] = buf[k].data
                                     /\ Owner[buf[k].blockno] = buf[k].lock
  /\ \A b \in Blocks : (\A k \in Bufs : buf[k].blockno = b => ~buf[k].valid)
       => Val[b] = disk[b] /\ Owner[b] = Nobody

\* The invariant gives what the mapping to BlockStore is computed from ...
LEMMA StoreFacts == IInv => StoreIs
<1> SUFFICES ASSUME IInv PROVE StoreIs
  OBVIOUS
<1>1. /\ TypeOK /\ ValidOK /\ OneBuffer /\ buf \in [Bufs -> BufType]
      /\ 0 \notin Blocks /\ Nobody \notin Procs
  BY TypeIs, BcacheAssumption DEF IInv
<1>2. ASSUME NEW k \in Bufs, buf[k].valid
      PROVE  Val[buf[k].blockno] = buf[k].data /\ Owner[buf[k].blockno] = buf[k].lock
  <2> DEFINE b == buf[k].blockno
  <2>1. b \in Blocks
    BY <1>1, <1>2 DEF ValidOK
  <2>2. \A j \in Bufs : buf[j].blockno = b => j = k
    BY <1>1, <2>1 DEF OneBuffer
  <2>3. BufOf(b) = {k}
    BY <1>2, <2>2 DEF BufOf
  <2>4. HolderOf(b) = {buf[k].lock} \cap Procs
    BY <1>2, <2>2 DEF HolderOf
  <2>5. buf[k].lock \in Procs \union {Nobody}
    BY <1>1 DEF BufType
  <2>6. Val[b] = buf[k].data
    BY <2>1, <2>3 DEF Val
  <2>7. Owner[b] = buf[k].lock
    BY <1>1, <2>1, <2>4, <2>5 DEF Owner
  <2> QED
    BY <2>6, <2>7
<1>3. ASSUME NEW b \in Blocks, \A k \in Bufs : buf[k].blockno = b => ~buf[k].valid
      PROVE  Val[b] = disk[b] /\ Owner[b] = Nobody
  <2>1. BufOf(b) = {}
    BY <1>1, <1>3 DEF BufOf, ValidOK
  <2>2. HolderOf(b) = {}
    BY <1>1, <1>3 DEF HolderOf, ValidOK
  <2> QED
    BY <2>1, <2>2 DEF Val, Owner
<1> QED
  BY <1>2, <1>3 DEF StoreIs

\* ... before and after a step.
LEMMA StoreFactsNext == IInv' => StoreIs'
BY StoreFacts, PTL

\* Another block than buffer k's is not touched.
LEMMA Untouched ==
  ASSUME IInv, IInv', NEW k \in Bufs, Others(k), NEW b \in Blocks,
         buf[k].blockno = b => ~buf[k].valid,
         buf'[k].blockno = b => ~buf'[k].valid,
         disk'[b] = disk[b]
  PROVE  Val'[b] = Val[b] /\ Owner'[b] = Owner[b]
<1>1. StoreIs /\ StoreIs'
  BY StoreFacts, StoreFactsNext
<1>2. \A j \in Bufs \ {k} : buf'[j] = buf[j]
  BY DEF Others
<1>3. CASE \E j \in Bufs : buf[j].blockno = b /\ buf[j].valid
  <2>1. PICK j \in Bufs : buf[j].blockno = b /\ buf[j].valid
    BY <1>3
  <2>2. j \in Bufs \ {k} /\ buf'[j] = buf[j]
    BY <1>2, <2>1
  <2>3. Val[b] = buf[j].data /\ Owner[b] = buf[j].lock
    BY <1>1, <2>1 DEF StoreIs
  <2>4. Val'[b] = buf'[j].data /\ Owner'[b] = buf'[j].lock
    BY <1>1, <2>1, <2>2 DEF StoreIs
  <2> QED
    BY <2>2, <2>3, <2>4
<1>4. CASE \A j \in Bufs : buf[j].blockno = b => ~buf[j].valid
  <2>1. \A j \in Bufs : buf'[j].blockno = b => ~buf'[j].valid
    BY <1>2, <1>4
  <2>2. Val[b] = disk[b] /\ Owner[b] = Nobody
    BY <1>1, <1>4 DEF StoreIs
  <2>3. Val'[b] = disk'[b] /\ Owner'[b] = Nobody
    BY <1>1, <2>1 DEF StoreIs
  <2> QED
    BY <2>2, <2>3
<1> QED
  BY <1>3, <1>4

\* Both are functions on the blocks.
LEMMA StoreDomains ==
  /\ Val = [b \in Blocks |-> Val[b]] /\ Val' = [b \in Blocks |-> Val'[b]]
  /\ Owner = [b \in Blocks |-> Owner[b]] /\ Owner' = [b \in Blocks |-> Owner'[b]]
BY DEF Val, Owner

\* A step that changes the data or the lock of a buffer that has been read does
\* so for its block.
LEMMA OneChange ==
  ASSUME IInv, IInv', NEW k \in Bufs, Others(k), buf[k].valid, buf'[k].valid,
         buf'[k].blockno = buf[k].blockno,
         \A b \in Blocks : b # buf[k].blockno => disk'[b] = disk[b]
  PROVE  /\ buf[k].blockno \in Blocks
         /\ Owner[buf[k].blockno] = buf[k].lock
         /\ Val[buf[k].blockno] = buf[k].data
         /\ Val' = [Val EXCEPT ![buf[k].blockno] = buf'[k].data]
         /\ Owner' = [Owner EXCEPT ![buf[k].blockno] = buf'[k].lock]
<1>1. StoreIs /\ StoreIs'
  BY StoreFacts, StoreFactsNext
<1>2. PICK c \in Blocks : c = buf[k].blockno
  BY DEF IInv, ValidOK
<1>3. /\ Val[c] = buf[k].data /\ Owner[c] = buf[k].lock
      /\ Val'[c] = buf'[k].data /\ Owner'[c] = buf'[k].lock
  BY <1>1, <1>2 DEF StoreIs
<1>4. \A b \in Blocks : b # c => Val'[b] = Val[b] /\ Owner'[b] = Owner[b]
  BY <1>2, Untouched
<1>5. Val' = [Val EXCEPT ![c] = buf'[k].data]
  BY <1>3, <1>4, StoreDomains
<1>6. Owner' = [Owner EXCEPT ![c] = buf'[k].lock]
  BY <1>3, <1>4, StoreDomains
<1> QED
  BY <1>2, <1>3, <1>5, <1>6

\* A step that leaves buffers, locks and disk alone leaves the store alone.
LEMMA Idle ==
  ASSUME IInv, IInv', buf' = buf, disk' = disk
  PROVE  UNCHANGED <<Val, Owner>>
<1>1. StoreIs /\ StoreIs'
  BY StoreFacts, StoreFactsNext
<1>2. \A b \in Blocks : Val'[b] = Val[b] /\ Owner'[b] = Owner[b]
  <2>1. ASSUME NEW b \in Blocks, \A k \in Bufs : buf[k].blockno = b => ~buf[k].valid
        PROVE  Val'[b] = Val[b] /\ Owner'[b] = Owner[b]
    BY <1>1, <2>1 DEF StoreIs
  <2>2. ASSUME NEW b \in Blocks, NEW k \in Bufs, buf[k].blockno = b, buf[k].valid
        PROVE  Val'[b] = Val[b] /\ Owner'[b] = Owner[b]
    BY <1>1, <2>2 DEF StoreIs
  <2> QED
    BY <2>1, <2>2
<1> QED
  BY <1>2, StoreDomains

\* The same for a buffer that keeps its data and its lock, or is not yet read.
LEMMA SameStore ==
  ASSUME IInv, IInv', NEW k \in Bufs, Others(k), disk' = disk,
         buf'[k].blockno = buf[k].blockno, buf'[k].valid = buf[k].valid,
         buf[k].valid => buf'[k].data = buf[k].data /\ buf'[k].lock = buf[k].lock
  PROVE  UNCHANGED <<Val, Owner>>
<1>1. CASE buf[k].valid
  <2>1. PICK c \in Blocks : c = buf[k].blockno
    BY <1>1 DEF IInv, ValidOK
  <2>2. /\ Owner[c] = buf[k].lock /\ Val[c] = buf[k].data
        /\ Val' = [Val EXCEPT ![c] = buf'[k].data]
        /\ Owner' = [Owner EXCEPT ![c] = buf'[k].lock]
    BY <1>1, <2>1, OneChange
  <2> QED
    BY <1>1, <2>2, StoreDomains
<1>2. CASE ~buf[k].valid
  <2>1. \A b \in Blocks : Val'[b] = Val[b] /\ Owner'[b] = Owner[b]
    BY <1>2, Untouched
  <2> QED
    BY <2>1, StoreDomains
<1> QED
  BY <1>1, <1>2

\* Every step of the cache gets, changes or drops one block of the store, or
\* leaves it alone.
LEMMA StoreStep ==
  ASSUME IInv, IInv', [Next]_vars
  PROVE  Store!Next \/ UNCHANGED <<Val, Owner>>
<1> DEFINE Same == UNCHANGED <<Val, Owner>>
<1>0. buf \in [Bufs -> BufType] /\ Nobody \notin Procs
  BY TypeIs, BcacheAssumption DEF IInv
<1>1. ASSUME NEW p \in Procs, NEW n \in Blocks, BgetHit(p, n) PROVE Same
  <2>1. PICK k \in Bufs : /\ buf'[k] = [buf[k] EXCEPT !.refcnt = @ + 1] /\ Others(k)
                          /\ disk' = disk
    BY <1>1, BgetHitFacts
  <2>2. /\ buf'[k].blockno = buf[k].blockno /\ buf'[k].valid = buf[k].valid
        /\ buf'[k].data = buf[k].data /\ buf'[k].lock = buf[k].lock
    BY <1>0, <2>1 DEF BufType
  <2> QED
    BY <2>1, <2>2, SameStore
<1>2. ASSUME NEW p \in Procs, NEW n \in Blocks, BgetMiss(p, n), Unused # {} PROVE Same
  <2>1. PICK k \in Bufs :
          /\ buf[k].refcnt = 0 /\ ~buf[k].dirty
          /\ \A j \in Bufs : buf[j].blockno # n
          /\ buf'[k] = [buf[k] EXCEPT !.blockno = n, !.valid = FALSE,
                                      !.dirty = FALSE, !.refcnt = 1]
          /\ Others(k) /\ disk' = disk
    BY <1>2, BgetMissFacts
  <2>2. ~buf'[k].valid
    BY <1>0, <2>1 DEF BufType
  <2>3. ASSUME NEW b \in Blocks, buf[k].blockno = b, buf[k].valid
        PROVE  Val'[b] = Val[b] /\ Owner'[b] = Owner[b]
    <3>1. StoreIs /\ StoreIs' /\ OneBuffer /\ CleanOK /\ LockOK /\ b # 0
      BY StoreFacts, StoreFactsNext, BcacheAssumption DEF IInv
    <3>2. Val[b] = disk[b]
      BY <2>1, <2>3, <3>1 DEF StoreIs, CleanOK, Done
    <3>3. Owner[b] = Nobody
      <4>1. \A q \in Procs : buf[k].lock # q
        BY <2>1, <3>1, NoUsers DEF LockOK
      <4>2. buf[k].lock \in Procs \union {Nobody}
        BY <1>0 DEF BufType
      <4> QED
        BY <2>3, <3>1, <4>1, <4>2 DEF StoreIs
    <3>4. \A j \in Bufs : buf'[j].blockno = b => ~buf'[j].valid
      <4>1. \A j \in Bufs \ {k} : buf'[j] = buf[j] /\ buf[j].blockno # b
        BY <2>1, <2>3, <3>1 DEF OneBuffer, Others
      <4> QED
        BY <2>2, <4>1
    <3>5. Val'[b] = disk'[b] /\ Owner'[b] = Nobody
      BY <3>1, <3>4 DEF StoreIs
    <3> QED
      BY <2>1, <3>2, <3>3, <3>5
  <2>4. \A b \in Blocks : Val'[b] = Val[b] /\ Owner'[b] = Owner[b]
    BY <2>1, <2>2, <2>3, Untouched
  <2> QED
    BY <2>4, StoreDomains
<1>3. ASSUME NEW p \in Procs, AcquireSleep(p) PROVE Store!Next \/ Same
  <2>1. PICK k \in Bufs : /\ buf[k].lock = Nobody /\ disk' = disk
                          /\ buf'[k] = [buf[k] EXCEPT !.lock = p] /\ Others(k)
    BY <1>3, AcquireSleepFacts
  <2>2. /\ buf'[k].blockno = buf[k].blockno /\ buf'[k].valid = buf[k].valid
        /\ buf'[k].data = buf[k].data /\ buf'[k].lock = p
    BY <1>0, <2>1 DEF BufType
  <2>3. CASE buf[k].valid
    <3>1. PICK c \in Blocks : c = buf[k].blockno
      BY <2>3 DEF IInv, ValidOK
    <3>2. /\ Owner[c] = Nobody /\ Owner' = [Owner EXCEPT ![c] = p]
          /\ Val' = [Val EXCEPT ![c] = buf'[k].data] /\ Val[c] = buf[k].data
      BY <2>1, <2>2, <2>3, <3>1, OneChange
    <3>3. Val' = Val
      BY <2>2, <3>2, StoreDomains
    <3>4. Store!Get(p, c)
      BY <3>2, <3>3 DEF Store!Get
    <3> QED
      BY <3>4 DEF Store!Next
  <2>4. CASE ~buf[k].valid
    BY <2>1, <2>2, <2>4, SameStore
  <2> QED
    BY <2>3, <2>4
<1>4. ASSUME NEW p \in Procs, NEW k \in Bufs, LogWrite(p, k) PROVE Store!Next
  <2>1. /\ k \in proc[p].held /\ disk' = disk /\ Others(k)
        /\ buf'[k] = [buf[k] EXCEPT !.dirty = TRUE, !.data = p]
    BY <1>4, LogWriteFacts
  <2>2. buf[k].valid /\ buf[k].lock = p
    BY <2>1, Locked DEF Owns, IInv, ValidOK
  <2>3. /\ buf'[k].blockno = buf[k].blockno /\ buf'[k].valid = buf[k].valid
        /\ buf'[k].data = p /\ buf'[k].lock = p
    BY <1>0, <2>1, <2>2 DEF BufType
  <2>4. PICK c \in Blocks : c = buf[k].blockno
    BY <2>2 DEF IInv, ValidOK
  <2>5. /\ Owner[c] = p /\ Val' = [Val EXCEPT ![c] = p]
        /\ Owner' = [Owner EXCEPT ![c] = buf'[k].lock]
    BY <2>1, <2>2, <2>3, <2>4, OneChange
  <2>6. Owner' = Owner
    BY <2>3, <2>5, StoreDomains
  <2>7. Store!Put(p, c)
    BY <2>5, <2>6 DEF Store!Put
  <2> QED
    BY <2>7 DEF Store!Next
<1>5. ASSUME NEW p \in Procs, NEW k \in Bufs, Bwrite(p, k) PROVE Store!Next \/ Same
  <2>1. /\ k \in proc[p].held /\ disk' = disk /\ Others(k)
        /\ buf'[k] = [buf[k] EXCEPT !.dirty = TRUE, !.data = IF buf[k].dirty THEN @ ELSE p]
    BY <1>5, BwriteFacts
  <2>2. buf[k].valid /\ buf[k].lock = p
    BY <2>1, Locked DEF Owns, IInv, ValidOK
  <2>3. /\ buf'[k].blockno = buf[k].blockno /\ buf'[k].valid = buf[k].valid
        /\ buf'[k].data = (IF buf[k].dirty THEN buf[k].data ELSE p) /\ buf'[k].lock = p
    BY <1>0, <2>1, <2>2 DEF BufType
  <2>4. CASE buf[k].dirty
    BY <2>1, <2>2, <2>3, <2>4, SameStore
  <2>5. CASE ~buf[k].dirty
    <3>1. PICK c \in Blocks : c = buf[k].blockno
      BY <2>2 DEF IInv, ValidOK
    <3>2. /\ Owner[c] = p /\ Val' = [Val EXCEPT ![c] = p]
          /\ Owner' = [Owner EXCEPT ![c] = buf'[k].lock]
      BY <2>1, <2>2, <2>3, <2>5, <3>1, OneChange
    <3>3. Owner' = Owner
      BY <2>3, <3>2, StoreDomains
    <3>4. Store!Put(p, c)
      BY <3>2, <3>3 DEF Store!Put
    <3> QED
      BY <3>4 DEF Store!Next
  <2> QED
    BY <2>4, <2>5
<1>6. ASSUME NEW p \in Procs, NEW k \in Bufs, Releasesleep(p, k) PROVE Store!Next
  <2>1. /\ k \in proc[p].held /\ disk' = disk /\ Others(k)
        /\ buf'[k] = [buf[k] EXCEPT !.lock = Nobody]
    BY <1>6, ReleasesleepFacts
  <2>2. buf[k].valid /\ buf[k].lock = p
    BY <2>1, Locked DEF Owns, IInv, ValidOK
  <2>3. /\ buf'[k].blockno = buf[k].blockno /\ buf'[k].valid = buf[k].valid
        /\ buf'[k].data = buf[k].data /\ buf'[k].lock = Nobody
    BY <1>0, <2>1, <2>2 DEF BufType
  <2>4. PICK c \in Blocks : c = buf[k].blockno
    BY <2>2 DEF IInv, ValidOK
  <2>5. /\ Owner[c] = p /\ Owner' = [Owner EXCEPT ![c] = Nobody]
        /\ Val' = [Val EXCEPT ![c] = buf'[k].data] /\ Val[c] = buf[k].data
    BY <2>1, <2>2, <2>3, <2>4, OneChange
  <2>6. Val' = Val
    BY <2>3, <2>5, StoreDomains
  <2>7. Store!Drop(p, c)
    BY <2>5, <2>6 DEF Store!Drop
  <2> QED
    BY <2>7 DEF Store!Next
<1>7. ASSUME NEW p \in Procs, Brelse(p) PROVE Same
  <2>1. PICK k \in Bufs : /\ buf'[k] = [buf[k] EXCEPT !.refcnt = @ - 1] /\ Others(k)
                          /\ disk' = disk
    BY <1>7, BrelseFacts
  <2>2. /\ buf'[k].blockno = buf[k].blockno /\ buf'[k].valid = buf[k].valid
        /\ buf'[k].data = buf[k].data /\ buf'[k].lock = buf[k].lock
    BY <1>0, <2>1 DEF BufType
  <2> QED
    BY <2>1, <2>2, SameStore
<1>8. ASSUME NEW p \in Procs, Iderw(p) \/ Wake(p) PROVE Same
  <2>1. buf' = buf /\ disk' = disk
    BY <1>8, IderwFacts, WakeFacts
  <2> QED
    BY <2>1, Idle
<1>9. ASSUME Ideintr PROVE Store!Next \/ Same
  <2>1. PICK k \in Bufs :
          /\ ~Done(k) /\ \E p \in Procs : proc[p].pc = "sleep" /\ proc[p].b = k
          /\ disk' = IF buf[k].dirty THEN [disk EXCEPT ![buf[k].blockno] = buf[k].data]
                     ELSE disk
          /\ buf'[k] = [buf[k] EXCEPT !.valid = TRUE, !.dirty = FALSE,
                                      !.data = IF buf[k].dirty THEN @ ELSE disk[buf[k].blockno]]
          /\ Others(k)
    BY <1>9, IdeintrFacts
  <2>2. PICK p \in Procs : proc[p].pc = "sleep" /\ proc[p].b = k
    BY <2>1
  <2>3. buf[k].lock = p
    BY <2>2, Locked DEF Owns, DiskCall
  <2>4. PICK c \in Blocks : c = buf[k].blockno
    <3>1. Users(k) # {}
      BY <2>2 DEF Users, InUse
    <3> QED
      BY <3>1 DEF IInv, ValidOK
  <2>5. /\ buf'[k].blockno = c /\ buf'[k].lock = p
        /\ buf'[k].data = IF buf[k].dirty THEN buf[k].data ELSE disk[c]
    BY <1>0, <2>1, <2>3, <2>4 DEF BufType
  <2>6. buf'[k].valid = TRUE
    BY <1>0, <2>1 DEF BufType
  <2>7. disk \in [Blocks -> Procs \union {Nobody}]
    BY TypeIs DEF IInv
  <2>8. \A b \in Blocks : b # c => disk'[b] = disk[b]
    BY <2>1, <2>4, <2>7
  <2>9. CASE buf[k].dirty
    <3>1. buf[k].valid
      BY <2>9 DEF IInv, ValidOK
    <3>2. /\ Owner[c] = p /\ Val' = [Val EXCEPT ![c] = buf'[k].data] /\ Val[c] = buf[k].data
          /\ Owner' = [Owner EXCEPT ![c] = buf'[k].lock]
      BY <2>1, <2>3, <2>4, <2>5, <2>6, <2>8, <2>9, <3>1, OneChange
    <3> QED
      BY <2>5, <2>9, <3>2, StoreDomains
  <2>10. CASE ~buf[k].dirty
    <3>1. ~buf[k].valid /\ disk' = disk
      BY <2>1, <2>10 DEF Done
    <3>2. StoreIs /\ StoreIs' /\ OneBuffer /\ c # 0
      BY StoreFacts, StoreFactsNext, BcacheAssumption DEF IInv
    <3>3. Val[c] = disk[c] /\ Owner[c] = Nobody
      <4>1. \A j \in Bufs : buf[j].blockno = c => ~buf[j].valid
        BY <2>4, <3>1, <3>2 DEF OneBuffer
      <4> QED
        BY <3>2, <4>1 DEF StoreIs
    <3>4. Val'[c] = disk[c] /\ Owner'[c] = p
      BY <2>5, <2>6, <2>10, <3>2 DEF StoreIs
    <3>5. \A b \in Blocks : b # c => Val'[b] = Val[b] /\ Owner'[b] = Owner[b]
      BY <2>1, <2>4, <2>5, <3>1, Untouched
    <3>6. Val' = Val
      BY <3>3, <3>4, <3>5, StoreDomains
    <3>7. Owner' = [Owner EXCEPT ![c] = p]
      BY <3>4, <3>5, StoreDomains
    <3>8. Store!Get(p, c)
      BY <3>3, <3>6, <3>7 DEF Store!Get
    <3> QED
      BY <3>8 DEF Store!Next
  <2> QED
    BY <2>9, <2>10
<1>10. ASSUME Panics \/ UNCHANGED vars PROVE Same
  BY <1>10, Idle DEF Panics, vars
<1> HIDE DEF Same
<1>11. Store!Next \/ Same
  BY <1>1, <1>2, <1>3, <1>4, <1>5, <1>6, <1>7, <1>8, <1>9, <1>10, Steps
<1> QED
  BY <1>11 DEF Same

\* bio.c over ide.c is a store of blocks: whatever processes read, change,
\* write through, leave to the log and release, and whichever buffers are
\* recycled meanwhile, a block has one holder, who sees what the last one left.
THEOREM RefinesStore == Spec => ImplementsStore
<1>1. Init => Store!Init
  <2> SUFFICES ASSUME Init PROVE Store!Init
    OBVIOUS
  <2>1. StoreIs
    BY InitHolds, StoreFacts
  <2>2. \A b \in Blocks : Val[b] = Nobody /\ Owner[b] = Nobody
    BY <2>1 DEF StoreIs, Init
  <2>3. Val = [b \in Blocks |-> Nobody] /\ Owner = [b \in Blocks |-> Nobody]
    BY <2>2, StoreDomains
  <2> QED
    BY <2>3 DEF Store!Init
<1>2. IInv /\ IInv' /\ [Next]_vars => [Store!Next]_<<Val, Owner>>
  BY StoreStep
<1> QED
  BY <1>1, <1>2, Invariance, PTL DEF Spec, ImplementsStore, Store!Spec

-----------------------------------------------------------------------------
(* What panics *)

\* The only step that panics is a bget that finds no buffer to recycle.
LEMMA OnlyBget ==
  ASSUME IInv, [Next]_vars, ~panic, panic'
  PROVE  \E p \in Procs, n \in Blocks : BgetMiss(p, n) /\ Unused = {}
<1>1. \A p \in Procs : \A n \in Blocks :
        ~BgetHit(p, n) /\ ~(BgetMiss(p, n) /\ Unused # {})
  BY BgetHitFacts, BgetMissFacts
<1>2. \A p \in Procs : ~AcquireSleep(p) /\ ~Brelse(p) /\ ~Iderw(p) /\ ~Wake(p)
  BY AcquireSleepFacts, BrelseFacts, IderwFacts, WakeFacts
<1>3. \A p \in Procs : \A k \in Bufs :
        ~LogWrite(p, k) /\ ~Bwrite(p, k) /\ ~Releasesleep(p, k)
  BY LogWriteFacts, BwriteFacts, ReleasesleepFacts
<1>4. ~Ideintr /\ ~UNCHANGED vars
  BY IdeintrFacts DEF vars
<1> QED
  BY <1>1, <1>2, <1>3, <1>4, Steps

\* Where bget finds no buffer, each is dirty or counted, and so used by a process.
LEMMA AllTaken ==
  ASSUME IInv, Unused = {}, NEW k \in Bufs
  PROVE  buf[k].dirty \/ \E p \in Procs : k \in InUse(p)
<1>1. PICK i \in Bufs : lru[i] = k
  BY DEF IInv, LruOK
<1>2. buf[k].refcnt # 0 \/ buf[k].dirty
  BY <1>1 DEF Unused
<1>3. ASSUME \A p \in Procs : k \notin InUse(p) PROVE buf[k].refcnt = 0
  <2>1. Users(k) = {}
    BY <1>3 DEF Users
  <2> QED
    BY <2>1, FS_EmptySet DEF IInv, RefOK
<1> QED
  BY <1>2, <1>3

\* OnlyNoBuffers: of the panics of bio.c:92, 113 and 124 and ide.c:143 and 145
\* only the first is reached, and only when every buffer is dirty or in use,
\* however few or many the buffers are.
THEOREM PanicsForBuffersOnly == Spec => OnlyNoBuffers
<1> DEFINE Taken == \A k \in Bufs : buf[k].dirty \/ \E p \in Procs : k \in InUse(p)
<1>1. IInv /\ [Next]_vars => [~panic /\ panic' => Taken]_vars
  <2> SUFFICES ASSUME IInv, [Next]_vars, ~panic, panic' PROVE Taken
    OBVIOUS
  <2>1. Unused = {}
    BY OnlyBget
  <2> QED
    BY <2>1, AllTaken
<1> QED
  BY <1>1, Invariance, PTL DEF Spec, OnlyNoBuffers

\* The comment of bio.c:6: a block has one buffer at most.
THEOREM BlockCachedOnce == Spec => []OneBuffer
<1>1. IInv => OneBuffer
  BY DEF IInv
<1> QED
  BY <1>1, Invariance, PTL

\* The types.
THEOREM TypeCorrect == Spec => []TypeOK
<1>1. IInv => TypeOK
  BY DEF IInv
<1> QED
  BY <1>1, Invariance, PTL
=============================================================================
