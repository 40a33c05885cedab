---------------------------- MODULE Sem_proofs ----------------------------
(***************************************************************************)
(* Proofs about Sem for any number of processes, slots, descriptors and    *)
(* names, under the usage one-opener programs such as pc.c follow, and     *)
(* about ProdCons, the program pc.c over such semaphores, for any numbers  *)
(* of children, messages and spots.                                        *)
(***************************************************************************)
EXTENDS Sem, MCProdCons, FiniteSetTheorems, TLAPS

\* One process opens semaphores, with descriptors to spare and initial values
\* that are not negative; anybody forks, waits, posts, resets, unlinks, kills.
OneOpener == Discipline # "free" /\ InitVals \subseteq Nat

-----------------------------------------------------------------------------
(* The inductive invariant *)

Opening(p)   == pc[p] \in {"open_initlock", "open_set"}
Using(p)     == pc[p] \in {"wait", "wait_sleep", "reset_val", "reset_max",
                           "reset_set"}
Unlinking(p) == pc[p] \in {"unlink", "unlink_wait", "unlink_sleep"}

\* A slot being opened is still unlinked, and only Root opens; a slot being
\* waited on or reset is held by a descriptor of the process.
CurOK ==
  \A p \in Procs :
    /\ Opening(p) => /\ p = Root
                     /\ cur[p] \in Slots
                     /\ ~linked[cur[p]]
                     /\ \E d \in Descs : osem[p][d] = NoSlot
                     /\ args[p].name \in Names
                     /\ args[p].val >= 0
    /\ Using(p) => /\ cur[p] \in Slots
                   /\ \E d \in Descs : osem[p][d] = cur[p]
    /\ Unlinking(p) => cur[p] \in Slots
    /\ pc[p] = "reset_val" => args[p].val >= 0

\* A process inside a call is alive, it sleeps in the two wait loops only,
\* and the child it builds is nobody else's.
StateOK ==
  \A p \in Procs :
    /\ pc[p] # "user" => state[p] \in {"RUNNABLE", "SLEEPING"}
    /\ state[p] = "SLEEPING" => pc[p] \in {"wait", "unlink_wait"}
    /\ pc[p] = "fork" => /\ np[p] \in Procs
                         /\ state[np[p]] = "EMBRYO"
                         /\ \A q \in Procs : pc[q] = "fork" /\ np[q] = np[p] => q = p

\* A semaphore's lock is held exactly by the process about to sleep on it,
\* and the units it saw missing are still missing.
LockOK ==
  /\ \A s \in Slots, p \in Procs :
       sslock[s] = p => pc[p] = "wait_sleep" /\ cur[p] = s
  /\ \A p \in Procs : pc[p] = "wait_sleep" =>
       sslock[cur[p]] = p /\ count[cur[p]] <= 0

CountOK == \A s \in Slots : count[s] >= 0

IInv ==
  /\ TypeOK
  /\ CurOK
  /\ StateOK
  /\ LockOK
  /\ CountOK
  /\ NoLostWakeup
  /\ FreeSlotUnused
  /\ RefCount
  /\ NoPanic

-----------------------------------------------------------------------------
(* Counting descriptors *)

Holders(f, s) == {pd \in Procs \X Descs : f[pd[1]][pd[2]] = s}

Rows == [Procs -> [Descs -> Slots \cup {NoSlot}]]

\* The empty descriptor, the table's own channel and the free lock are apart from slots and processes.
LEMMA ConstantsDiffer ==
  /\ NoSlot \notin Slots
  /\ Table \notin Slots
  /\ Nobody \notin Procs
  /\ Slots \subseteq Int
BY SizesAssumption, ProcsAssumption DEF NoSlot, Table, Slots

\* There are finitely many descriptors, so finitely many on any slot.
LEMMA HoldersFinite ==
  ASSUME NEW f, NEW s
  PROVE  IsFiniteSet(Holders(f, s)) /\ Cardinality(Holders(f, s)) \in Nat
<1>1. IsFiniteSet(Descs)
  BY SizesAssumption, FS_Interval DEF Descs
<1>2. IsFiniteSet(Procs \X Descs)
  BY <1>1, ProcsAssumption, FS_Product
<1>3. Holders(f, s) \subseteq Procs \X Descs
  BY DEF Holders
<1> QED
  BY <1>2, <1>3, FS_Subset, FS_CardinalityType

\* A slot has no descriptors exactly when none points at it.
LEMMA NoHolder ==
  ASSUME NEW f \in Rows, NEW s \in Slots
  PROVE  Cardinality(Holders(f, s)) = 0 <=>
           \A p \in Procs, d \in Descs : f[p][d] # s
<1>1. Cardinality(Holders(f, s)) = 0 <=> Holders(f, s) = {}
  BY HoldersFinite, FS_EmptySet
<1>2. ASSUME Holders(f, s) = {}, NEW p \in Procs, NEW d \in Descs
      PROVE  f[p][d] # s
  <2>1. <<p, d>> \in Procs \X Descs /\ <<p, d>> \notin Holders(f, s)
    BY <1>2
  <2> QED
    BY <2>1 DEF Holders
<1>3. ASSUME \A p \in Procs, d \in Descs : f[p][d] # s
      PROVE  Holders(f, s) = {}
  BY <1>3 DEF Holders
<1> QED
  BY <1>1, <1>2, <1>3

\* The test count > 0 of sem_wait and the test # 0 of its negation agree, as no count is negative.
LEMMA CountPositive ==
  ASSUME TypeOK, CountOK, NEW s \in Slots, count[s] # 0
  PROVE  count[s] \in Int /\ count[s] > 0
BY DEF TypeOK, CountOK

RefTypes == ref \in [Slots -> Nat] /\ osem \in Rows

\* Slots somebody has a descriptor for, and only those, have references.
LEMMA RefZero ==
  ASSUME RefCount, NEW s \in Slots, RefTypes
  PROVE  ref[s] = 0 <=> \A p \in Procs, d \in Descs : osem[p][d] # s
<1>1. ref[s] = Cardinality(Holders(osem, s))
  BY DEF RefCount, Holders
<1> QED
  BY <1>1, NoHolder DEF RefTypes

\* Counting a descriptor as it is filled keeps the counts right.
LEMMA RefFill ==
  ASSUME RefCount, RefTypes,
         NEW p \in Procs, NEW d \in Descs, osem[p][d] = NoSlot,
         NEW s \in Slots,
         osem' = [osem EXCEPT ![p][d] = s],
         ref' = [ref EXCEPT ![s] = @ + 1]
  PROVE  RefCount' /\ RefTypes'
<1>1. RefTypes'
  BY DEF RefTypes, Rows
<1>2. ASSUME NEW t \in Slots
      PROVE  ref'[t] = Cardinality(Holders(osem', t))
  <2>1. ref[t] = Cardinality(Holders(osem, t))
    BY DEF RefCount, Holders
  <2>2. CASE t = s
    <3>1. /\ Holders(osem', t) = Holders(osem, t) \cup {<<p, d>>}
          /\ <<p, d>> \notin Holders(osem, t)
      BY <2>2, ConstantsDiffer DEF Holders, RefTypes, Rows
    <3>2. Cardinality(Holders(osem', t)) = Cardinality(Holders(osem, t)) + 1
      BY <3>1, HoldersFinite, FS_AddElement
    <3> QED
      BY <2>1, <2>2, <3>2 DEF RefTypes
  <2>3. CASE t # s
    <3>1. Holders(osem', t) = Holders(osem, t)
      BY <2>3, ConstantsDiffer DEF Holders, RefTypes, Rows
    <3> QED
      BY <2>1, <2>3, <3>1 DEF RefTypes
  <2> QED
    BY <2>2, <2>3
<1> QED
  BY <1>1, <1>2 DEF RefCount, Holders

\* So does counting it out as it is cleared, and the count stays natural.
LEMMA RefClear ==
  ASSUME RefCount, RefTypes,
         NEW p \in Procs, NEW d \in Descs, osem[p][d] \in Slots,
         osem' = [osem EXCEPT ![p][d] = NoSlot],
         ref' = [ref EXCEPT ![osem[p][d]] = @ - 1]
  PROVE  RefCount' /\ RefTypes'
<1> DEFINE s == osem[p][d]
<1>1. ASSUME NEW t \in Slots
      PROVE  ref'[t] = Cardinality(Holders(osem', t))
  <2>1. ref[t] = Cardinality(Holders(osem, t))
    BY DEF RefCount, Holders
  <2>2. CASE t = s
    <3>1. /\ Holders(osem', t) = Holders(osem, t) \ {<<p, d>>}
          /\ <<p, d>> \in Holders(osem, t)
      BY <2>2, ConstantsDiffer DEF Holders, RefTypes, Rows
    <3>2. Cardinality(Holders(osem', t)) = Cardinality(Holders(osem, t)) - 1
      BY <3>1, HoldersFinite, FS_RemoveElement
    <3> QED
      BY <2>1, <2>2, <3>2 DEF RefTypes
  <2>3. CASE t # s
    <3>1. Holders(osem', t) = Holders(osem, t)
      BY <2>3, ConstantsDiffer DEF Holders, RefTypes, Rows
    <3> QED
      BY <2>1, <2>3, <3>1 DEF RefTypes
  <2> QED
    BY <2>2, <2>3
<1>2. RefTypes'
  <2>1. \A t \in Slots : ref'[t] \in Nat
    BY <1>1, HoldersFinite
  <2> QED
    BY <2>1 DEF RefTypes, Rows
<1> QED
  BY <1>1, <1>2 DEF RefCount, Holders

-----------------------------------------------------------------------------
(* Every action preserves the invariant *)

\* Opening an open name: the new descriptor is counted, on a slot that is linked.
LEMMA OpenFoundInv ==
  ASSUME OneOpener, IInv, NEW p \in Procs, NEW n \in Names,
         OpenFound(p, n)
  PROVE  IInv'
<1> USE ConstantsDiffer DEF Running, Syscall, OpenFound, GiveDescriptor,
      IsFirst, MayOpen, semVars, lockVars, procVars, stackVars, IInv
<1>a. PICK s \in Slots, d \in Descs :
        /\ ref[s] > 0
        /\ ref' = [ref EXCEPT ![s] = @ + 1]
        /\ osem[p][d] = NoSlot
        /\ osem' = [osem EXCEPT ![p][d] = s]
  BY DEF OneOpener
<1>b. RefTypes
  BY DEF RefTypes, TypeOK, Rows
<1>c. RefCount' /\ RefTypes'
  BY <1>a, <1>b, RefFill
<1>d. linked[s]
  BY <1>a, <1>b, RefZero DEF FreeSlotUnused, TypeOK
<1>1. TypeOK'
  BY <1>c DEF TypeOK, RefTypes, Rows
<1>2. CurOK'
  BY <1>a DEF CurOK, TypeOK, Opening, Using, Unlinking
<1>3. FreeSlotUnused'
  BY <1>a, <1>d DEF FreeSlotUnused, TypeOK
<1>4. RefCount'
  BY <1>c
<1>5. StateOK' /\ LockOK' /\ CountOK' /\ NoLostWakeup' /\ NoPanic'
  BY DEF StateOK, LockOK, CountOK, NoLostWakeup, NoPanic
<1> QED
  BY <1>1, <1>2, <1>3, <1>4, <1>5

\* The scan of sem_open settles on an unlinked slot.
LEMMA OpenScanInv ==
  ASSUME OneOpener, IInv, NEW p \in Procs, NEW n \in Names,
         NEW init \in InitVals, NEW max \in MaxVals,
         OpenScan(p, n, init, max)
  PROVE  IInv'
<1> USE ConstantsDiffer DEF Goto, Running, Syscall, OpenScan, IsFirst,
      MayOpen, semVars, lockVars, procVars, stackVars, IInv
<1>1. TypeOK'
  BY NamesAssumption DEF TypeOK, Labels
<1>2. CurOK'
  <2>1. p = Root /\ \E d \in Descs : osem[p][d] = NoSlot
    BY DEF OneOpener
  <2>2. init >= 0
    <3>1. init \in Nat
      BY Zenon DEF OneOpener
    <3> QED
      BY ONLY <3>1
  <2> QED
    BY <2>1, <2>2 DEF CurOK, TypeOK, Opening, Using, Unlinking
<1>3. StateOK'
  BY DEF StateOK, TypeOK, Labels
<1>4. LockOK'
  BY DEF LockOK, CurOK, TypeOK, FreeSlotUnused, Labels, Opening, Using,
     Unlinking
<1>5. NoLostWakeup'
  BY DEF NoLostWakeup, CountOK, LockOK, CurOK, TypeOK, FreeSlotUnused,
     Labels, Opening, Using, Unlinking
<1>6. CountOK' /\ FreeSlotUnused' /\ RefCount' /\ NoPanic'
  BY DEF CountOK, FreeSlotUnused, RefCount, NoPanic
<1> QED
  BY <1>1, <1>2, <1>3, <1>4, <1>5, <1>6

\* The unlocked initlock meets no holder: nobody can wait on an unlinked slot.
LEMMA OpenInitlockInv ==
  ASSUME OneOpener, IInv, NEW p \in Procs,
         OpenInitlock(p)
  PROVE  IInv'
<1> USE ConstantsDiffer DEF At, Goto, Running, OpenInitlock, semVars,
      lockVars, procVars, stackVars, IInv
<1>1. TypeOK'
  BY DEF TypeOK, CurOK, StateOK, Labels, Opening, Using, Unlinking
<1>2. CurOK'
  BY DEF CurOK, TypeOK, StateOK, Labels, Opening, Using, Unlinking
<1>3. StateOK'
  BY DEF StateOK, TypeOK, Labels
<1>4. LockOK'
  BY DEF LockOK, CurOK, TypeOK, FreeSlotUnused, Labels, Opening, Using,
     Unlinking
<1>5. NoLostWakeup'
  BY DEF NoLostWakeup, CountOK, LockOK, CurOK, TypeOK, FreeSlotUnused,
     Labels, Opening, Using, Unlinking
<1>6. CountOK' /\ FreeSlotUnused' /\ RefCount' /\ NoPanic'
  BY DEF CountOK, FreeSlotUnused, RefCount, NoPanic
<1> QED
  BY <1>1, <1>2, <1>3, <1>4, <1>5, <1>6

\* Filling the slot: it had no descriptors, so one reference is right.
LEMMA OpenSetInv ==
  ASSUME OneOpener, IInv, NEW p \in Procs,
         OpenSet(p)
  PROVE  IInv'
<1> USE ConstantsDiffer DEF At, Goto, Return, Running, OpenSet,
      GiveDescriptor, IsFirst, semVars, lockVars, procVars, stackVars, IInv
<1>a. PICK d \in Descs :
        /\ osem[p][d] = NoSlot
        /\ osem' = [osem EXCEPT ![p][d] = cur[p]]
  BY DEF CurOK, Opening
<1>b. cur[p] \in Slots /\ ~linked[cur[p]]
  BY DEF CurOK, Opening
<1>c. RefTypes
  BY DEF RefTypes, TypeOK, Rows
<1>d. ref[cur[p]] = 0
  BY <1>b, <1>c, RefZero DEF FreeSlotUnused
<1>e. ref' = [ref EXCEPT ![cur[p]] = @ + 1]
  BY <1>b, <1>d DEF TypeOK
<1>f. RefCount' /\ RefTypes'
  BY <1>a, <1>b, <1>c, <1>e, RefFill
<1>1. TypeOK'
  BY <1>a, <1>b, NamesAssumption DEF TypeOK, CurOK, Opening, Labels, NoArgs,
     StoredNames
<1>2. CurOK'
  BY <1>a, <1>b DEF CurOK, TypeOK, Opening, Using, Unlinking
<1>3. StateOK'
  BY DEF StateOK, TypeOK, Labels
<1>4. LockOK'
  BY DEF LockOK, CurOK, TypeOK, FreeSlotUnused, Labels, Opening, Using,
     Unlinking
<1>5. CountOK'
  BY DEF CountOK, TypeOK, CurOK, Opening, Using, Unlinking
<1>6. NoLostWakeup'
  BY DEF NoLostWakeup, CountOK, LockOK, CurOK, TypeOK, FreeSlotUnused,
     Labels, Opening, Using, Unlinking
<1>7. FreeSlotUnused'
  BY <1>a, <1>b DEF FreeSlotUnused, TypeOK
<1>8. RefCount'
  BY <1>f
<1>9. NoPanic'
  BY DEF NoPanic
<1> QED
  BY <1>1, <1>2, <1>3, <1>4, <1>5, <1>6, <1>7, <1>8, <1>9

\* sem_close takes back one counted descriptor.
LEMMA CloseInv ==
  ASSUME OneOpener, IInv, NEW p \in Procs, NEW d \in Descs,
         Close(p, d)
  PROVE  IInv'
<1> USE ConstantsDiffer DEF Running, Syscall, Close, CloseDescriptor, Wakeup,
      Chan, semVars, lockVars, procVars, stackVars, IInv
<1>b. /\ osem[p][d] \in Slots
      /\ osem' = [osem EXCEPT ![p][d] = NoSlot]
      /\ ref' = [ref EXCEPT ![osem[p][d]] = @ - 1]
  BY DEF TypeOK
<1>c. RefTypes
  BY DEF RefTypes, TypeOK, Rows
<1>d. RefCount' /\ RefTypes'
  BY <1>b, <1>c, RefClear
<1>1. TypeOK'
  <2>1. state' \in [Procs -> {"UNUSED", "EMBRYO", "RUNNABLE", "SLEEPING", "ZOMBIE"}]
    BY DEF TypeOK
  <2> QED
    BY <1>d, <2>1 DEF TypeOK, RefTypes, Rows
<1>2. CurOK'
  BY DEF CurOK, TypeOK, StateOK, Labels, Opening, Using, Unlinking
<1>3. StateOK'
  BY DEF StateOK, TypeOK, Labels
<1>4. NoLostWakeup'
  BY DEF NoLostWakeup, CountOK, LockOK, CurOK, TypeOK, FreeSlotUnused,
     Labels, Opening, Using, Unlinking
<1>5. FreeSlotUnused'
  BY DEF FreeSlotUnused, TypeOK, CurOK, RefCount, Opening, Using, Unlinking
<1>6. RefCount'
  BY <1>d
<1>7. LockOK' /\ CountOK' /\ NoPanic'
  BY DEF LockOK, CountOK, NoPanic
<1> QED
  BY <1>1, <1>2, <1>3, <1>4, <1>5, <1>6, <1>7

\* sem_wait takes a unit that is there.
LEMMA WaitTakeInv ==
  ASSUME OneOpener, IInv, NEW p \in Procs, NEW s \in Slots,
         WaitTake(p, s)
  PROVE  IInv'
<1> USE ConstantsDiffer DEF At, Goto, Return, Running, Syscall, WaitTake,
      InWait, OpenSlots, semVars, lockVars, procVars, stackVars, IInv
<1>1. TypeOK'
  BY DEF TypeOK, CurOK, StateOK, Labels, NoArgs, Opening, Using, Unlinking
<1>2. CurOK'
  BY DEF CurOK, TypeOK, StateOK, Labels, Opening, Using, Unlinking
<1>3. StateOK'
  BY DEF StateOK, TypeOK, Labels
<1>4. LockOK'
  BY DEF LockOK, CurOK, TypeOK, FreeSlotUnused, Labels, Opening, Using,
     Unlinking
<1>5. CountOK'
  BY DEF CountOK, TypeOK, CurOK, Opening, Using, Unlinking
<1>6. NoLostWakeup'
  BY DEF NoLostWakeup, CountOK, LockOK, CurOK, TypeOK, FreeSlotUnused,
     Labels, Opening, Using, Unlinking
<1>7. FreeSlotUnused' /\ RefCount' /\ NoPanic'
  BY DEF FreeSlotUnused, RefCount, NoPanic
<1> QED
  BY <1>1, <1>2, <1>3, <1>4, <1>5, <1>6, <1>7

\* sem_wait gives up.
LEMMA WaitKilledInv ==
  ASSUME OneOpener, IInv, NEW p \in Procs, NEW s \in Slots,
         WaitKilled(p, s)
  PROVE  IInv'
<1> USE ConstantsDiffer DEF At, Goto, Return, Running, Syscall, WaitKilled,
      InWait, OpenSlots, semVars, lockVars, procVars, stackVars, IInv
<1>1. TypeOK'
  BY DEF TypeOK, CurOK, StateOK, Labels, NoArgs, Opening, Using, Unlinking
<1>2. CurOK'
  BY DEF CurOK, TypeOK, StateOK, Labels, Opening, Using, Unlinking
<1>3. StateOK'
  BY DEF StateOK, TypeOK, Labels
<1>4. LockOK'
  BY DEF LockOK, CurOK, TypeOK, FreeSlotUnused, Labels, Opening, Using,
     Unlinking
<1>5. NoLostWakeup'
  BY DEF NoLostWakeup, CountOK, LockOK, CurOK, TypeOK, FreeSlotUnused,
     Labels, Opening, Using, Unlinking
<1>6. CountOK' /\ FreeSlotUnused' /\ RefCount' /\ NoPanic'
  BY DEF CountOK, FreeSlotUnused, RefCount, NoPanic
<1> QED
  BY <1>1, <1>2, <1>3, <1>4, <1>5, <1>6

\* sem_wait keeps the lock after seeing no unit.
LEMMA WaitBlockInv ==
  ASSUME OneOpener, IInv, NEW p \in Procs, NEW s \in Slots,
         WaitBlock(p, s)
  PROVE  IInv'
<1> USE ConstantsDiffer DEF At, Goto, Running, Syscall, WaitBlock, InWait,
      OpenSlots, semVars, lockVars, procVars, stackVars, IInv
<1>1. TypeOK'
  BY DEF TypeOK, CurOK, StateOK, Labels, Opening, Using, Unlinking
<1>2. CurOK'
  BY DEF CurOK, TypeOK, StateOK, Labels, Opening, Using, Unlinking
<1>3. StateOK'
  BY DEF StateOK, TypeOK, Labels
<1>4. LockOK'
  BY DEF LockOK, CurOK, TypeOK, FreeSlotUnused, Labels, Opening, Using,
     Unlinking
<1>5. NoLostWakeup'
  BY DEF NoLostWakeup, CountOK, LockOK, CurOK, TypeOK, FreeSlotUnused,
     Labels, Opening, Using, Unlinking
<1>6. CountOK' /\ FreeSlotUnused' /\ RefCount' /\ NoPanic'
  BY DEF CountOK, FreeSlotUnused, RefCount, NoPanic
<1> QED
  BY <1>1, <1>2, <1>3, <1>4, <1>5, <1>6

\* sleep() still holds the lock, so the count is still not positive.
LEMMA WaitSleepInv ==
  ASSUME OneOpener, IInv, NEW p \in Procs,
         WaitSleep(p)
  PROVE  IInv'
<1> USE ConstantsDiffer DEF At, Goto, Running, WaitSleep, semVars, IInv
<1>a. /\ cur[p] \in Slots /\ sslock[cur[p]] = p /\ count[cur[p]] <= 0
      /\ state' = [state EXCEPT ![p] = "SLEEPING"]
      /\ sslock' = [sslock EXCEPT ![cur[p]] = Nobody]
      /\ pc' = [pc EXCEPT ![p] = "wait"]
      /\ panicked' = panicked
  BY DEF LockOK, CurOK, Using
<1>1. TypeOK'
  BY <1>a DEF TypeOK, Labels
<1>2. CurOK'
  BY <1>a DEF CurOK, TypeOK, Opening, Using, Unlinking
<1>3. StateOK'
  BY <1>a DEF StateOK, TypeOK
<1>4. LockOK'
  BY <1>a DEF LockOK, CurOK, Using, TypeOK
<1>5. NoLostWakeup'
  BY <1>a DEF NoLostWakeup, TypeOK
<1>6. NoPanic'
  BY <1>a DEF NoPanic
<1>7. CountOK' /\ FreeSlotUnused' /\ RefCount'
  BY DEF CountOK, FreeSlotUnused, RefCount
<1> QED
  BY <1>1, <1>2, <1>3, <1>4, <1>5, <1>6, <1>7

\* sem_try_wait takes a unit that is there.
LEMMA TryWaitInv ==
  ASSUME OneOpener, IInv, NEW p \in Procs, NEW s \in Slots,
         TryWait(p, s)
  PROVE  IInv'
<1> USE ConstantsDiffer DEF Running, Syscall, TryWait, OpenSlots, semVars,
      lockVars, procVars, stackVars, IInv
<1>1. TypeOK'
  BY DEF TypeOK, CurOK, StateOK, Labels, Opening, Using, Unlinking
<1>2. LockOK'
  BY DEF LockOK, CurOK, TypeOK, FreeSlotUnused, Labels, Opening, Using,
     Unlinking
<1>3. CountOK'
  BY DEF CountOK, TypeOK, CurOK, Opening, Using, Unlinking
<1>4. NoLostWakeup'
  BY DEF NoLostWakeup, CountOK, LockOK, CurOK, TypeOK, FreeSlotUnused,
     Labels, Opening, Using, Unlinking
<1>5. CurOK' /\ StateOK' /\ FreeSlotUnused' /\ RefCount' /\ NoPanic'
  BY DEF CurOK, StateOK, FreeSlotUnused, RefCount, NoPanic, Opening, Using,
     Unlinking
<1> QED
  BY <1>1, <1>2, <1>3, <1>4, <1>5

\* sem_post wakes every sleeper when the count leaves zero; above zero nobody sleeps.
LEMMA PostInv ==
  ASSUME OneOpener, IInv, NEW p \in Procs, NEW s \in Slots,
         Post(p, s)
  PROVE  IInv'
<1> USE ConstantsDiffer DEF Running, Syscall, Post, OpenSlots, Wakeup, Chan,
      semVars, lockVars, procVars, stackVars, IInv
<1>1. TypeOK'
  BY DEF TypeOK, CurOK, StateOK, Labels, Opening, Using, Unlinking
<1>2. StateOK'
  BY DEF StateOK, TypeOK, Labels
<1>3. LockOK'
  BY DEF LockOK, CurOK, TypeOK, FreeSlotUnused, Labels, Opening, Using,
     Unlinking
<1>4. CountOK'
  BY DEF CountOK, TypeOK, CurOK, Opening, Using, Unlinking
<1>5. NoLostWakeup'
  BY DEF NoLostWakeup, CountOK, LockOK, CurOK, TypeOK, FreeSlotUnused,
     Labels, Opening, Using, Unlinking
<1>6. CurOK' /\ FreeSlotUnused' /\ RefCount' /\ NoPanic'
  BY DEF CurOK, FreeSlotUnused, RefCount, NoPanic, Opening, Using, Unlinking
<1> QED
  BY <1>1, <1>2, <1>3, <1>4, <1>5, <1>6

\* sem_reset works on a slot its process holds.
LEMMA ResetCheckInv ==
  ASSUME OneOpener, IInv, NEW p \in Procs, NEW s \in Slots,
         NEW v \in ResetVals, NEW m \in ResetMaxes,
         ResetCheck(p, s, v, m)
  PROVE  IInv'
<1> USE ConstantsDiffer DEF Goto, Running, Syscall, ResetCheck, OpenSlots,
      semVars, lockVars, procVars, stackVars, IInv
<1>1. TypeOK'
  BY NamesAssumption DEF TypeOK, Labels
<1>2. CurOK'
  BY DEF CurOK, TypeOK, StateOK, Labels, Opening, Using, Unlinking
<1>3. StateOK'
  BY DEF StateOK, TypeOK, Labels
<1>4. LockOK'
  BY DEF LockOK, CurOK, TypeOK, FreeSlotUnused, Labels, Opening, Using,
     Unlinking
<1>5. NoLostWakeup'
  BY DEF NoLostWakeup, CountOK, LockOK, CurOK, TypeOK, FreeSlotUnused,
     Labels, Opening, Using, Unlinking
<1>6. CountOK' /\ FreeSlotUnused' /\ RefCount' /\ NoPanic'
  BY DEF CountOK, FreeSlotUnused, RefCount, NoPanic
<1> QED
  BY <1>1, <1>2, <1>3, <1>4, <1>5, <1>6

\* sem_reset wakes when the count leaves zero; above zero nobody sleeps.
LEMMA ResetValInv ==
  ASSUME OneOpener, IInv, NEW p \in Procs,
         ResetVal(p)
  PROVE  IInv'
<1> USE ConstantsDiffer DEF At, Goto, Running, ResetVal, Wakeup, Chan,
      semVars, lockVars, procVars, stackVars, IInv
<1>1. TypeOK'
  BY DEF TypeOK, CurOK, StateOK, Labels, Opening, Using, Unlinking
<1>2. CurOK'
  BY DEF CurOK, TypeOK, StateOK, Labels, Opening, Using, Unlinking
<1>3. StateOK'
  BY DEF StateOK, TypeOK, Labels
<1>4. LockOK'
  BY DEF LockOK, CurOK, TypeOK, FreeSlotUnused, Labels, Opening, Using,
     Unlinking
<1>5. CountOK'
  BY DEF CountOK, TypeOK, CurOK, Opening, Using, Unlinking
<1>6. NoLostWakeup'
  <2>1. cur[p] \in Slots /\ args[p].val >= 0 /\ args[p].val \in Int
    BY DEF CurOK, Using, TypeOK
  <2>2. CASE args[p].val > 0 /\ count[cur[p]] = 0
    BY <2>1, <2>2 DEF NoLostWakeup, TypeOK
  <2>3. CASE args[p].val > 0 /\ count[cur[p]] # 0
    <3>1. count[cur[p]] \in Int /\ count[cur[p]] > 0
      BY <2>1, <2>3, CountPositive
    <3>2. state' = state
      BY <2>3
    <3>3. ASSUME NEW q \in Procs, state'[q] = "SLEEPING", pc'[q] = "wait"
          PROVE  count'[cur'[q]] <= 0
      <4>1. q # p /\ pc[q] = "wait" /\ count[cur[q]] <= 0
        BY <3>2, <3>3 DEF NoLostWakeup, TypeOK
      <4>2. cur[q] # cur[p]
        BY ONLY <3>1, <4>1
      <4>3. count'[cur[q]] = count[cur[q]]
        BY <4>1, <4>2 DEF TypeOK, CurOK, Using
      <4> QED
        BY <4>1, <4>3
    <3> QED
      BY <3>3 DEF NoLostWakeup
  <2>4. CASE args[p].val <= 0
    BY <2>1, <2>4 DEF NoLostWakeup, TypeOK
  <2> QED
    BY <2>1, <2>2, <2>3, <2>4
<1>7. FreeSlotUnused' /\ RefCount' /\ NoPanic'
  BY DEF FreeSlotUnused, RefCount, NoPanic
<1> QED
  BY <1>1, <1>2, <1>3, <1>4, <1>5, <1>6, <1>7

\* The unlocked test of sem_reset changes no semaphore.
LEMMA ResetMaxTestInv ==
  ASSUME OneOpener, IInv, NEW p \in Procs,
         ResetMaxTest(p)
  PROVE  IInv'
<1> USE ConstantsDiffer DEF At, Goto, Return, Running, ResetMaxTest, semVars,
      lockVars, procVars, stackVars, IInv
<1>1. TypeOK'
  <2>1. CASE args[p].max > maxVal[cur[p]]
    BY <2>1 DEF TypeOK, Labels
  <2>2. CASE ~(args[p].max > maxVal[cur[p]])
    <3>1. /\ pc' = [pc EXCEPT ![p] = "user"]
          /\ cur' = [cur EXCEPT ![p] = NoSlot]
          /\ args' = [args EXCEPT ![p] = NoArgs]
          /\ np' = np
      BY <2>2
    <3> QED
      BY <3>1 DEF TypeOK, Labels, NoArgs
  <2> QED
    BY <2>1, <2>2
<1>2. CurOK'
  BY DEF CurOK, TypeOK, StateOK, Labels, Opening, Using, Unlinking
<1>3. StateOK'
  <2>1. CASE args[p].max > maxVal[cur[p]]
    BY <2>1 DEF StateOK, TypeOK
  <2>2. CASE ~(args[p].max > maxVal[cur[p]])
    BY <2>2 DEF StateOK, TypeOK
  <2> QED
    BY <2>1, <2>2
<1>4. LockOK'
  BY DEF LockOK, CurOK, TypeOK, FreeSlotUnused, Labels, Opening, Using,
     Unlinking
<1>5. NoLostWakeup'
  BY DEF NoLostWakeup, CountOK, LockOK, CurOK, TypeOK, FreeSlotUnused,
     Labels, Opening, Using, Unlinking
<1>6. CountOK' /\ FreeSlotUnused' /\ RefCount' /\ NoPanic'
  BY DEF CountOK, FreeSlotUnused, RefCount, NoPanic
<1> QED
  BY <1>1, <1>2, <1>3, <1>4, <1>5, <1>6

\* sem_reset raises maxVal.
LEMMA ResetMaxInv ==
  ASSUME OneOpener, IInv, NEW p \in Procs,
         ResetMax(p)
  PROVE  IInv'
<1> USE ConstantsDiffer DEF At, Goto, Return, Running, ResetMax, semVars,
      lockVars, procVars, stackVars, IInv
<1>1. TypeOK'
  BY DEF TypeOK, CurOK, StateOK, Labels, NoArgs, Opening, Using, Unlinking
<1>2. CurOK'
  BY DEF CurOK, TypeOK, StateOK, Labels, Opening, Using, Unlinking
<1>3. StateOK'
  BY DEF StateOK, TypeOK, Labels
<1>4. LockOK'
  BY DEF LockOK, CurOK, TypeOK, FreeSlotUnused, Labels, Opening, Using,
     Unlinking
<1>5. NoLostWakeup'
  BY DEF NoLostWakeup, CountOK, LockOK, CurOK, TypeOK, FreeSlotUnused,
     Labels, Opening, Using, Unlinking
<1>6. CountOK' /\ FreeSlotUnused' /\ RefCount' /\ NoPanic'
  BY DEF CountOK, FreeSlotUnused, RefCount, NoPanic
<1> QED
  BY <1>1, <1>2, <1>3, <1>4, <1>5, <1>6

\* sem_unlink finds a slot.
LEMMA UnlinkFindInv ==
  ASSUME OneOpener, IInv, NEW p \in Procs, NEW n \in Names,
         UnlinkFind(p, n)
  PROVE  IInv'
<1> USE ConstantsDiffer DEF Goto, Running, Syscall, UnlinkFind, IsFirst,
      semVars, lockVars, procVars, stackVars, IInv
<1>1. TypeOK'
  BY DEF TypeOK, CurOK, StateOK, Labels, Opening, Using, Unlinking
<1>2. CurOK'
  BY DEF CurOK, TypeOK, StateOK, Labels, Opening, Using, Unlinking
<1>3. StateOK'
  BY DEF StateOK, TypeOK, Labels
<1>4. LockOK'
  BY DEF LockOK, CurOK, TypeOK, FreeSlotUnused, Labels, Opening, Using,
     Unlinking
<1>5. NoLostWakeup'
  BY DEF NoLostWakeup, CountOK, LockOK, CurOK, TypeOK, FreeSlotUnused,
     Labels, Opening, Using, Unlinking
<1>6. CountOK' /\ FreeSlotUnused' /\ RefCount' /\ NoPanic'
  BY DEF CountOK, FreeSlotUnused, RefCount, NoPanic
<1> QED
  BY <1>1, <1>2, <1>3, <1>4, <1>5, <1>6

\* A slot without references has no descriptors: it may be unlinked.
LEMMA UnlinkDoneInv ==
  ASSUME OneOpener, IInv, NEW p \in Procs,
         UnlinkDone(p)
  PROVE  IInv'
<1> USE ConstantsDiffer DEF At, Goto, Return, Running, UnlinkDone,
      UnlinkEnter, semVars, lockVars, procVars, stackVars, IInv
<1>1. TypeOK'
  BY DEF TypeOK, CurOK, StateOK, Labels, NoArgs, Opening, Using, Unlinking
<1>2. CurOK'
  BY DEF CurOK, TypeOK, StateOK, Labels, Opening, Using, Unlinking
<1>3. StateOK'
  BY DEF StateOK, TypeOK, Labels
<1>4. LockOK'
  BY DEF LockOK, CurOK, TypeOK, FreeSlotUnused, Labels, Opening, Using,
     Unlinking
<1>5. NoLostWakeup'
  BY DEF NoLostWakeup, CountOK, LockOK, CurOK, TypeOK, FreeSlotUnused,
     Labels, Opening, Using, Unlinking
<1>6. FreeSlotUnused'
  <2>1. cur[p] \in Slots /\ RefTypes
    BY DEF CurOK, Unlinking, RefTypes, TypeOK, Rows
  <2>2. \A q \in Procs, d \in Descs : osem[q][d] # cur[p]
    BY <2>1, RefZero
  <2> QED
    BY <2>1, <2>2 DEF FreeSlotUnused, TypeOK
<1>7. CountOK' /\ RefCount' /\ NoPanic'
  BY DEF CountOK, RefCount, NoPanic
<1> QED
  BY <1>1, <1>2, <1>3, <1>4, <1>5, <1>6, <1>7

\* sem_unlink gives up.
LEMMA UnlinkKilledInv ==
  ASSUME OneOpener, IInv, NEW p \in Procs,
         UnlinkKilled(p)
  PROVE  IInv'
<1> USE ConstantsDiffer DEF At, Goto, Return, Running, UnlinkKilled,
      UnlinkEnter, semVars, lockVars, procVars, stackVars, IInv
<1>1. TypeOK'
  BY DEF TypeOK, CurOK, StateOK, Labels, NoArgs, Opening, Using, Unlinking
<1>2. CurOK'
  BY DEF CurOK, TypeOK, StateOK, Labels, Opening, Using, Unlinking
<1>3. StateOK'
  BY DEF StateOK, TypeOK, Labels
<1>4. LockOK'
  BY DEF LockOK, CurOK, TypeOK, FreeSlotUnused, Labels, Opening, Using,
     Unlinking
<1>5. NoLostWakeup'
  BY DEF NoLostWakeup, CountOK, LockOK, CurOK, TypeOK, FreeSlotUnused,
     Labels, Opening, Using, Unlinking
<1>6. CountOK' /\ FreeSlotUnused' /\ RefCount' /\ NoPanic'
  BY DEF CountOK, FreeSlotUnused, RefCount, NoPanic
<1> QED
  BY <1>1, <1>2, <1>3, <1>4, <1>5, <1>6

\* sem_unlink decides to sleep.
LEMMA UnlinkBlockInv ==
  ASSUME OneOpener, IInv, NEW p \in Procs,
         UnlinkBlock(p)
  PROVE  IInv'
<1> USE ConstantsDiffer DEF At, Goto, Running, UnlinkBlock, UnlinkEnter,
      semVars, lockVars, procVars, stackVars, IInv
<1>1. TypeOK'
  BY DEF TypeOK, CurOK, StateOK, Labels, Opening, Using, Unlinking
<1>2. CurOK'
  BY DEF CurOK, TypeOK, StateOK, Labels, Opening, Using, Unlinking
<1>3. StateOK'
  BY DEF StateOK, TypeOK, Labels
<1>4. LockOK'
  BY DEF LockOK, CurOK, TypeOK, FreeSlotUnused, Labels, Opening, Using,
     Unlinking
<1>5. NoLostWakeup'
  BY DEF NoLostWakeup, CountOK, LockOK, CurOK, TypeOK, FreeSlotUnused,
     Labels, Opening, Using, Unlinking
<1>6. CountOK' /\ FreeSlotUnused' /\ RefCount' /\ NoPanic'
  BY DEF CountOK, FreeSlotUnused, RefCount, NoPanic
<1> QED
  BY <1>1, <1>2, <1>3, <1>4, <1>5, <1>6

\* sem_unlink sleeps.
LEMMA UnlinkSleepInv ==
  ASSUME OneOpener, IInv, NEW p \in Procs,
         UnlinkSleep(p)
  PROVE  IInv'
<1> USE ConstantsDiffer DEF At, Goto, Running, UnlinkSleep, semVars, IInv
<1>1. TypeOK'
  BY DEF TypeOK, CurOK, StateOK, Labels, Opening, Using, Unlinking
<1>2. CurOK'
  BY DEF CurOK, TypeOK, StateOK, Labels, Opening, Using, Unlinking
<1>3. StateOK'
  BY DEF StateOK, TypeOK, Labels
<1>4. LockOK'
  BY DEF LockOK, CurOK, TypeOK, FreeSlotUnused, Labels, Opening, Using,
     Unlinking
<1>5. NoLostWakeup'
  BY DEF NoLostWakeup, CountOK, LockOK, CurOK, TypeOK, FreeSlotUnused,
     Labels, Opening, Using, Unlinking
<1>6. CountOK' /\ FreeSlotUnused' /\ RefCount' /\ NoPanic'
  BY DEF CountOK, FreeSlotUnused, RefCount, NoPanic
<1> QED
  BY <1>1, <1>2, <1>3, <1>4, <1>5, <1>6

\* fork takes an UNUSED entry nobody else is filling.
LEMMA ForkAllocInv ==
  ASSUME OneOpener, IInv, NEW p \in Procs, NEW c \in Procs,
         ForkAlloc(p, c)
  PROVE  IInv'
<1> USE ConstantsDiffer DEF Goto, Running, Syscall, ForkAlloc, semVars,
      lockVars, procVars, stackVars, IInv
<1>1. TypeOK'
  BY DEF TypeOK, CurOK, StateOK, Labels, Opening, Using, Unlinking
<1>2. CurOK'
  BY DEF CurOK, TypeOK, StateOK, Labels, Opening, Using, Unlinking
<1>3. StateOK'
  BY DEF StateOK, TypeOK, Labels
<1>4. LockOK'
  BY DEF LockOK, CurOK, TypeOK, FreeSlotUnused, Labels, Opening, Using,
     Unlinking
<1>5. NoLostWakeup'
  BY DEF NoLostWakeup, CountOK, LockOK, CurOK, TypeOK, FreeSlotUnused,
     Labels, Opening, Using, Unlinking
<1>6. CountOK' /\ FreeSlotUnused' /\ RefCount' /\ NoPanic'
  BY DEF CountOK, FreeSlotUnused, RefCount, NoPanic
<1> QED
  BY <1>1, <1>2, <1>3, <1>4, <1>5, <1>6

\* semdup counts the child's copy; the child is not in any call yet.
LEMMA ForkDupInv ==
  ASSUME OneOpener, IInv, NEW p \in Procs,
         ForkDup(p)
  PROVE  IInv'
<1> USE ConstantsDiffer DEF At, Running, ForkDup, IsFirst, ToDup, semVars,
      lockVars, procVars, stackVars, IInv
<1>a. PICK d \in Descs :
        /\ osem[p][d] # NoSlot /\ osem[np[p]][d] = NoSlot
        /\ ref' = [ref EXCEPT ![osem[p][d]] = @ + 1]
        /\ osem' = [osem EXCEPT ![np[p]][d] = osem[p][d]]
  OBVIOUS
<1>b. /\ np[p] \in Procs /\ pc[np[p]] = "user"
      /\ osem[p][d] \in Slots
  BY <1>a DEF StateOK, TypeOK
<1>c. RefTypes
  BY DEF RefTypes, TypeOK, Rows
<1>d. RefCount' /\ RefTypes'
  BY <1>a, <1>b, <1>c, RefFill
<1>1. TypeOK'
  BY <1>d DEF TypeOK, RefTypes, Rows
<1>2. CurOK'
  BY <1>a, <1>b DEF CurOK, TypeOK, Opening, Using, Unlinking
<1>3. FreeSlotUnused'
  BY <1>a, <1>b DEF FreeSlotUnused, TypeOK
<1>4. RefCount'
  BY <1>d
<1>5. StateOK' /\ LockOK' /\ CountOK' /\ NoLostWakeup' /\ NoPanic'
  BY DEF StateOK, LockOK, CountOK, NoLostWakeup, NoPanic
<1> QED
  BY <1>1, <1>2, <1>3, <1>4, <1>5

\* fork sets its own child running.
LEMMA ForkRunInv ==
  ASSUME OneOpener, IInv, NEW p \in Procs,
         ForkRun(p)
  PROVE  IInv'
<1> USE ConstantsDiffer DEF At, Goto, Running, ForkRun, semVars, lockVars,
      procVars, stackVars, IInv
<1>1. TypeOK'
  BY DEF TypeOK, CurOK, StateOK, Labels, Opening, Using, Unlinking
<1>2. CurOK'
  BY DEF CurOK, TypeOK, StateOK, Labels, Opening, Using, Unlinking
<1>3. StateOK'
  BY DEF StateOK, TypeOK, Labels
<1>4. LockOK'
  BY DEF LockOK, CurOK, TypeOK, FreeSlotUnused, Labels, Opening, Using,
     Unlinking
<1>5. NoLostWakeup'
  BY DEF NoLostWakeup, CountOK, LockOK, CurOK, TypeOK, FreeSlotUnused,
     Labels, Opening, Using, Unlinking
<1>6. CountOK' /\ FreeSlotUnused' /\ RefCount' /\ NoPanic'
  BY DEF CountOK, FreeSlotUnused, RefCount, NoPanic
<1> QED
  BY <1>1, <1>2, <1>3, <1>4, <1>5, <1>6

\* A process starts to exit.
LEMMA ExitInv ==
  ASSUME OneOpener, IInv, NEW p \in Procs,
         Exit(p)
  PROVE  IInv'
<1> USE ConstantsDiffer DEF At, Goto, Running, Exit, semVars, lockVars,
      procVars, stackVars, IInv
<1>1. TypeOK'
  BY DEF TypeOK, CurOK, StateOK, Labels, Opening, Using, Unlinking
<1>2. CurOK'
  BY DEF CurOK, TypeOK, StateOK, Labels, Opening, Using, Unlinking
<1>3. StateOK'
  BY DEF StateOK, TypeOK, Labels
<1>4. LockOK'
  BY DEF LockOK, CurOK, TypeOK, FreeSlotUnused, Labels, Opening, Using,
     Unlinking
<1>5. NoLostWakeup'
  BY DEF NoLostWakeup, CountOK, LockOK, CurOK, TypeOK, FreeSlotUnused,
     Labels, Opening, Using, Unlinking
<1>6. CountOK' /\ FreeSlotUnused' /\ RefCount' /\ NoPanic'
  BY DEF CountOK, FreeSlotUnused, RefCount, NoPanic
<1> QED
  BY <1>1, <1>2, <1>3, <1>4, <1>5, <1>6

\* exit() closes one descriptor, as sem_close does.
LEMMA ExitCloseInv ==
  ASSUME OneOpener, IInv, NEW p \in Procs,
         ExitClose(p)
  PROVE  IInv'
<1> USE ConstantsDiffer DEF At, Running, ExitClose, CloseDescriptor, IsFirst,
      Wakeup, Chan, semVars, lockVars, procVars, stackVars, IInv
<1>a. PICK d \in Descs : osem[p][d] # NoSlot /\ CloseDescriptor(p, d)
  BY DEF IsFirst
<1>0. osem[p][d] \in Slots
  BY <1>a DEF TypeOK
<1>b. /\ osem[p][d] \in Slots
      /\ osem' = [osem EXCEPT ![p][d] = NoSlot]
      /\ ref' = [ref EXCEPT ![osem[p][d]] = @ - 1]
  BY <1>0, <1>a
<1>c. RefTypes
  BY DEF RefTypes, TypeOK, Rows
<1>d. RefCount' /\ RefTypes'
  BY <1>b, <1>c, RefClear
<1>1. TypeOK'
  <2>1. state' \in [Procs -> {"UNUSED", "EMBRYO", "RUNNABLE", "SLEEPING", "ZOMBIE"}]
    BY <1>a DEF TypeOK
  <2> QED
    BY <1>d, <2>1 DEF TypeOK, RefTypes, Rows
<1>2. CurOK'
  BY DEF CurOK, TypeOK, StateOK, Labels, Opening, Using, Unlinking
<1>3. StateOK'
  BY DEF StateOK, TypeOK, Labels
<1>4. NoLostWakeup'
  BY DEF NoLostWakeup, CountOK, LockOK, CurOK, TypeOK, FreeSlotUnused,
     Labels, Opening, Using, Unlinking
<1>5. FreeSlotUnused'
  BY DEF FreeSlotUnused, TypeOK, CurOK, RefCount, Opening, Using, Unlinking
<1>6. RefCount'
  BY <1>d
<1>7. LockOK' /\ CountOK' /\ NoPanic'
  BY DEF LockOK, CountOK, NoPanic
<1> QED
  BY <1>1, <1>2, <1>3, <1>4, <1>5, <1>6, <1>7

\* exit() ends with no descriptor left.
LEMMA ExitZombieInv ==
  ASSUME OneOpener, IInv, NEW p \in Procs,
         ExitZombie(p)
  PROVE  IInv'
<1> USE ConstantsDiffer DEF At, Goto, Running, ExitZombie, OpenSlots,
      semVars, lockVars, procVars, stackVars, IInv
<1>1. TypeOK'
  BY DEF TypeOK, CurOK, StateOK, Labels, Opening, Using, Unlinking
<1>2. CurOK'
  BY DEF CurOK, TypeOK, StateOK, Labels, Opening, Using, Unlinking
<1>3. StateOK'
  BY DEF StateOK, TypeOK, Labels
<1>4. LockOK'
  BY DEF LockOK, CurOK, TypeOK, FreeSlotUnused, Labels, Opening, Using,
     Unlinking
<1>5. NoLostWakeup'
  BY DEF NoLostWakeup, CountOK, LockOK, CurOK, TypeOK, FreeSlotUnused,
     Labels, Opening, Using, Unlinking
<1>6. CountOK' /\ FreeSlotUnused' /\ RefCount' /\ NoPanic'
  BY DEF CountOK, FreeSlotUnused, RefCount, NoPanic
<1> QED
  BY <1>1, <1>2, <1>3, <1>4, <1>5, <1>6

\* kill() may end a sleep, nothing else.
LEMMA KillInv ==
  ASSUME OneOpener, IInv, NEW p \in Procs, NEW q \in Procs,
         Kill(p, q)
  PROVE  IInv'
<1> USE ConstantsDiffer DEF Running, Syscall, Kill, semVars, lockVars,
      procVars, stackVars, IInv
<1>1. TypeOK'
  BY DEF TypeOK, CurOK, StateOK, Labels, Opening, Using, Unlinking
<1>2. StateOK'
  BY DEF StateOK, TypeOK, Labels
<1>3. NoLostWakeup'
  BY DEF NoLostWakeup, CountOK, LockOK, CurOK, TypeOK, FreeSlotUnused,
     Labels, Opening, Using, Unlinking
<1>4. CurOK'
  BY DEF CurOK, Opening, Using, Unlinking
<1>5. LockOK'
  BY DEF LockOK
<1>6. CountOK'
  BY DEF CountOK
<1>7. FreeSlotUnused'
  BY DEF FreeSlotUnused
<1>8. RefCount'
  BY DEF RefCount
<1>9. NoPanic'
  BY DEF NoPanic
<1> QED
  BY <1>1, <1>2, <1>3, <1>4, <1>5, <1>6, <1>7, <1>8, <1>9

-----------------------------------------------------------------------------
(* The theorems *)

\* seminit leaves an empty table, which satisfies the invariant.
LEMMA InitInv == OneOpener /\ Init => IInv
<1> SUFFICES ASSUME OneOpener, Init PROVE IInv
  OBVIOUS
<1> USE ConstantsDiffer DEF Init
<1>1. TypeOK
  <2>1. /\ state \in [Procs -> {"UNUSED", "EMBRYO", "RUNNABLE", "SLEEPING", "ZOMBIE"}]
        /\ pc \in [Procs -> Labels]
    BY DEF Labels
  <2>2. /\ args \in [Procs -> [name : Names \cup {NoName}, val : Int, max : Int]]
        /\ osem \in [Procs -> [Descs -> Slots \cup {NoSlot}]]
    BY DEF NoArgs
  <2>3. name \in [Slots -> StoredNames]
    BY DEF StoredNames
  <2>4. /\ linked \in [Slots -> BOOLEAN]
        /\ waitingForDeath \in [Slots -> BOOLEAN]
        /\ killed \in [Procs -> BOOLEAN]
        /\ panicked \in BOOLEAN
    OBVIOUS
  <2>5. /\ count \in [Slots -> Int] /\ ref \in [Slots -> Nat]
        /\ maxVal \in [Slots -> Int]
        /\ owner_pid \in [Slots -> Procs \cup {Nobody}]
        /\ gslock \in Procs \cup {Nobody}
        /\ sslock \in [Slots -> Procs \cup {Nobody}]
        /\ cur \in [Procs -> Slots \cup {NoSlot}]
        /\ np \in [Procs -> Procs \cup {Nobody}]
    OBVIOUS
  <2> HIDE DEF Init
  <2> QED
    BY <2>1, <2>2, <2>3, <2>4, <2>5 DEF TypeOK
<1>2. CurOK /\ StateOK /\ LockOK /\ CountOK
  BY DEF CurOK, StateOK, LockOK, CountOK, Opening, Using, Unlinking
<1>3. NoLostWakeup /\ FreeSlotUnused /\ NoPanic
  BY DEF NoLostWakeup, FreeSlotUnused, NoPanic
<1>4. RefCount
  <2>1. ASSUME NEW s \in Slots
        PROVE  Cardinality(Holders(osem, s)) = 0
    BY <1>1, NoHolder DEF TypeOK, Rows
  <2> QED
    BY <2>1 DEF RefCount, Holders
<1> QED
  BY <1>1, <1>2, <1>3, <1>4 DEF IInv

\* A step that leaves the state alone keeps the invariant.
LEMMA StutterInv == IInv /\ UNCHANGED vars => IInv'
BY DEF IInv, vars, semVars, lockVars, procVars, stackVars, TypeOK, CurOK,
       StateOK, LockOK, CountOK, NoLostWakeup, FreeSlotUnused, RefCount,
       NoPanic, Opening, Using, Unlinking

\* Every step of every process keeps the invariant, one action at a time.
LEMMA NextInv == OneOpener /\ IInv /\ [Next]_vars => IInv'
<1> SUFFICES ASSUME OneOpener, IInv, [Next]_vars PROVE IInv'
  OBVIOUS
<1>1. CASE UNCHANGED vars
  BY <1>1, StutterInv
<1>2. ASSUME NEW p \in Procs, UserCall(p) PROVE IInv'
  BY <1>2, OpenFoundInv, OpenScanInv, UnlinkFindInv, CloseInv, TryWaitInv,
     PostInv, ResetCheckInv, ForkAllocInv, KillInv, ExitInv DEF UserCall
<1>3. ASSUME NEW p \in Procs, KernelStep(p) PROVE IInv'
  BY <1>3, OpenInitlockInv, OpenSetInv, WaitTakeInv, WaitKilledInv,
     WaitBlockInv, WaitSleepInv, ResetValInv, ResetMaxTestInv, ResetMaxInv,
     UnlinkDoneInv, UnlinkKilledInv, UnlinkBlockInv, UnlinkSleepInv,
     ForkDupInv, ForkRunInv, ExitCloseInv, ExitZombieInv DEF KernelStep
<1> QED
  BY <1>1, <1>2, <1>3 DEF Next

\* The strengthening is invariant: what the theorems below are read off from.
THEOREM Invariance ==
  ASSUME OneOpener
  PROVE  Spec => []IInv
<1>1. Init => IInv
  BY InitInv
<1>2. IInv /\ [Next]_vars => IInv'
  BY NextInv
<1> QED
  BY <1>1, <1>2, PTL DEF Spec

\* Type correctness: every field keeps its type, and no sequence of opens,
\* closes, forks and exits takes a reference count below zero.
THEOREM TypeCorrect ==
  ASSUME OneOpener
  PROVE  Spec => []TypeOK
<1>1. IInv => TypeOK
  BY DEF IInv
<1> QED
  BY <1>1, Invariance, PTL

\* sem_open, semdup, sem_close, fork and exit: ref is at all times the number
\* of descriptors on the slot.
THEOREM RefCountCorrect ==
  ASSUME OneOpener
  PROVE  Spec => []RefCount
<1>1. IInv => RefCount
  BY DEF IInv
<1> QED
  BY <1>1, Invariance, PTL

\* sem_post and sem_reset: nobody sleeps in sem_wait while a unit is there.
THEOREM WakeupsNotLost ==
  ASSUME OneOpener
  PROVE  Spec => []NoLostWakeup
<1>1. IInv => NoLostWakeup
  BY DEF IInv
<1> QED
  BY <1>1, Invariance, PTL

\* sem_unlink and sem_open: a slot that is free to be filled again is out of
\* every process's reach.
THEOREM SlotsRecycledSafely ==
  ASSUME OneOpener
  PROVE  Spec => []FreeSlotUnused
<1>1. IInv => FreeSlotUnused
  BY DEF IInv
<1> QED
  BY <1>1, Invariance, PTL

\* sem_open's unlocked initlock never frees a lock under its holder, so the
\* release in sleep() never panics.
THEOREM KernelNeverPanics ==
  ASSUME OneOpener
  PROVE  Spec => []NoPanic
<1>1. IInv => NoPanic
  BY DEF IInv
<1> QED
  BY <1>1, Invariance, PTL

-----------------------------------------------------------------------------
(* The producer/consumer program *)

Kin == Prods \cup Conss
Places == {"unborn", "close", "barrier", "loop", "take", "lock", "write", "unlock", "post",
           "zombie", "reaped"}

\* The children of S that are at one of the labels L.
AtOf(S, L) == {c \in S : at[c] \in L}
N(S, L) == Cardinality(AtOf(S, L))

\* Every spot of the buffer is free, filled, or with a child between its wait
\* and its post.
Spots ==
  buffa + buffb + N(Prods, {"lock", "write"}) + N(Prods, {"unlock", "post"})
    + N(Conss, {"lock", "write"}) + N(Conss, {"unlock", "post"}) = MAX_MSG

\* The messages printed and not consumed: those not posted yet, in buffb, or
\* with a consumer that has not printed yet.
Ahead ==
  produced - consumed = N(Prods, {"unlock", "post"}) + buffb + N(Conss, {"lock", "write"})

\* The right to print is there, or with one child.
Right == write + N(Kin, {"write", "unlock"}) = 1

\* The messages still to be printed, one by one.
Todo == {x \in Prods \X (1..MsgNumPerProd) : x[2] <= left[x[1]]}
AllCounted == produced + Cardinality(Todo) = PC!AllMsgs

\* A message is counted in total, with a consumer, or consumed.
TotalCounted == total + consumed + N(Conss, {"take", "lock", "write"}) = PC!AllMsgs

\* References to waitc: the parent's while it forks, and those of the children
\* that have not closed it.
Refs == waitc = (IF par \in {"forkprod", "forkcons"} THEN 1 ELSE 0) + N(Kin, {"close"})

\* A producer about to print has something to; one that ended has not, and a
\* consumer ended because nothing was left.
Ends ==
  /\ \A c \in Prods : at[c] # "take" /\ (at[c] \in {"lock", "write"} => left[c] > 0)
                      /\ (at[c] \in {"zombie", "reaped"} => left[c] = 0)
  /\ \A c \in Conss : at[c] \in {"zombie", "reaped"} => total = 0

\* The parent has reaped as many as it has waited for, unless none is left.
Reaped ==
  /\ par = "wait" => turn <= PC!consNum + PC!prodNum /\ (N(Kin, {"reaped"}) = turn \/ PC!Kids = {})
  /\ par \in {"unlink", "done"} => PC!Kids = {}

PcInv ==
  /\ PC!TypeOK /\ Spots /\ Ahead /\ Right /\ AllCounted /\ TotalCounted
  /\ Refs /\ PC!StartBarrier /\ Ends /\ Reaped

\* The sizes an instance speaks of are those of the library's theorems.
LEMMA SameSize ==
  ASSUME NEW S
  PROVE  (PC!IsFiniteSet(S) <=> IsFiniteSet(S)) /\ PC!Cardinality(S) = Cardinality(S)
<1>1. \A T : PC!IsFiniteSet(T) <=> IsFiniteSet(T)
  BY Zenon DEF IsFiniteSet, PC!IsFiniteSet
<1>2. PC!Cardinality(S) = Cardinality(S)
  BY Zenon DEF Cardinality, PC!Cardinality
<1> QED
  BY <1>1, <1>2

\* The children and the sizes.
LEMMA PcSizes ==
  /\ IsFiniteSet(Prods) /\ IsFiniteSet(Conss) /\ IsFiniteSet(Kin)
  /\ Prods \subseteq Kin /\ Conss \subseteq Kin /\ PC!Children = Kin
  /\ \A c \in Prods : c \notin Conss
  /\ PC!prodNum \in Nat /\ PC!consNum \in Nat /\ Cardinality(Kin) = PC!prodNum + PC!consNum
  /\ Conss # {}
  /\ MsgNumPerProd \in Nat \ {0} /\ MAX_MSG \in Nat \ {0} /\ PC!AllMsgs \in Nat
<1>1. /\ IsFiniteSet(Prods) /\ IsFiniteSet(Conss) /\ Prods \cap Conss = {} /\ Conss # {}
      /\ MsgNumPerProd \in Nat \ {0} /\ MAX_MSG \in Nat \ {0}
  <2>1. PC!PCAssumption
    BY PcConstants
  <2> QED
    BY <2>1, SameSize, Zenon DEF PC!PCAssumption
<1>2. Cardinality(Prods) \in Nat /\ Cardinality(Conss) \in Nat
  BY <1>1, FS_CardinalityType
<1>3. IsFiniteSet(Kin) /\ Cardinality(Kin) = Cardinality(Prods) + Cardinality(Conss)
  <2>1. Cardinality(Prods \cap Conss) = 0
    BY <1>1, FS_EmptySet
  <2>2. /\ IsFiniteSet(Prods \cup Conss)
        /\ Cardinality(Prods \cup Conss)
             = Cardinality(Prods) + Cardinality(Conss) - Cardinality(Prods \cap Conss)
    BY <1>1, FS_Union
  <2> QED
    BY <1>2, <2>1, <2>2 DEF Kin
<1>4. PC!prodNum = Cardinality(Prods) /\ PC!consNum = Cardinality(Conss)
  BY SameSize DEF PC!prodNum, PC!consNum
<1>5. PC!AllMsgs \in Nat
  BY <1>1, <1>2, <1>4 DEF PC!AllMsgs
<1>6. Prods \subseteq Kin /\ Conss \subseteq Kin /\ PC!Children = Kin
  BY DEF Kin, PC!Children
<1>7. \A c \in Prods : c \notin Conss
  BY <1>1
<1> QED
  BY <1>1, <1>2, <1>3, <1>4, <1>5, <1>6, <1>7

\* How many there are is a number, positive when one is there.
LEMMA Numbers ==
  \A S \in SUBSET Kin : \A L : /\ IsFiniteSet(AtOf(S, L))
                               /\ N(S, L) \in Nat
                               /\ \A c \in S : at[c] \in L => N(S, L) > 0
<1> SUFFICES ASSUME NEW S \in SUBSET Kin, NEW L
             PROVE  /\ IsFiniteSet(AtOf(S, L))
                    /\ N(S, L) \in Nat
                    /\ \A c \in S : at[c] \in L => N(S, L) > 0
  OBVIOUS
<1>1. IsFiniteSet(AtOf(S, L))
  BY PcSizes, FS_Subset DEF AtOf
<1>2. N(S, L) \in Nat
  BY <1>1, FS_CardinalityType DEF N
<1>3. ASSUME NEW c \in S, at[c] \in L PROVE N(S, L) > 0
  <2>1. AtOf(S, L) # {}
    BY <1>3 DEF AtOf
  <2> QED
    BY <1>1, <1>2, <2>1, FS_EmptySet DEF N
<1> QED
  BY <1>1, <1>2, <1>3

\* What the step of one child does to how many there are.
Change(S, L, c, to) ==
  IF c \in S /\ to \in L /\ at[c] \notin L THEN 1
  ELSE IF c \in S /\ to \notin L /\ at[c] \in L THEN -1 ELSE 0

LEMMA Moves ==
  ASSUME PC!TypeOK, NEW c \in Kin, NEW to, at' = [at EXCEPT ![c] = to]
  PROVE  \A S \in SUBSET Kin : \A L : N(S, L)' = N(S, L) + Change(S, L, c, to)
<1> SUFFICES ASSUME NEW S \in SUBSET Kin, NEW L
             PROVE  N(S, L)' = N(S, L) + Change(S, L, c, to)
  OBVIOUS
<1>1. at \in [Kin -> Places]
  BY PcSizes DEF PC!TypeOK, Places
<1>2. IsFiniteSet(AtOf(S, L)) /\ N(S, L) \in Nat
  BY Numbers
<1>3. \A d \in S : at'[d] = IF d = c THEN to ELSE at[d]
  BY <1>1
<1>4. CASE c \in S /\ to \in L /\ at[c] \notin L
  <2>1. AtOf(S, L)' = AtOf(S, L) \cup {c} /\ c \notin AtOf(S, L)
    BY <1>3, <1>4 DEF AtOf
  <2> QED
    BY <1>2, <1>4, <2>1, FS_AddElement DEF N, Change
<1>5. CASE c \in S /\ to \notin L /\ at[c] \in L
  <2>1. AtOf(S, L)' = AtOf(S, L) \ {c} /\ c \in AtOf(S, L)
    BY <1>3, <1>5 DEF AtOf
  <2> QED
    BY <1>2, <1>5, <2>1, FS_RemoveElement DEF N, Change
<1>6. CASE c \notin S \/ (to \in L <=> at[c] \in L)
  <2>1. AtOf(S, L)' = AtOf(S, L)
    BY <1>3, <1>6 DEF AtOf
  <2>2. N(S, L)' = N(S, L) /\ Change(S, L, c, to) = 0
    BY <1>6, <2>1 DEF N, Change
  <2> QED
    BY <1>2, <2>2
<1> QED
  BY <1>4, <1>5, <1>6

\* The messages to do, and what printing one does.
LEMMA TodoFinite ==
  IsFiniteSet(Todo) /\ Cardinality(Todo) \in Nat
<1>1. IsFiniteSet(Prods \X (1..MsgNumPerProd))
  <2>1. IsFiniteSet(Prods) /\ MsgNumPerProd \in Int
    BY PcSizes
  <2>2. IsFiniteSet(1..MsgNumPerProd)
    BY <2>1, FS_Interval
  <2> QED
    BY <2>1, <2>2, FS_Product
<1>2. IsFiniteSet(Todo)
  BY <1>1, FS_Subset DEF Todo
<1> QED
  BY <1>2, FS_CardinalityType

LEMMA TodoPrinted ==
  ASSUME PC!TypeOK, NEW c \in Prods, left[c] > 0, left' = [left EXCEPT ![c] = @ - 1]
  PROVE  Cardinality(Todo)' = Cardinality(Todo) - 1 /\ Cardinality(Todo) > 0
<1>1. left \in [Kin -> 0..MsgNumPerProd] /\ MsgNumPerProd \in Nat /\ c \in Kin /\ Prods \subseteq Kin
  BY PcSizes DEF PC!TypeOK
<1> DEFINE y == <<c, left[c]>>
<1>2. left[c] \in 1..MsgNumPerProd /\ left'[c] = left[c] - 1
  BY <1>1
<1>3. \A d \in Prods : left[d] \in 0..MsgNumPerProd /\ (d # c => left'[d] = left[d])
  BY <1>1
<1>4. y \in Todo
  BY <1>2 DEF Todo
<1>5. Todo' = Todo \ {y}
  <2>1. ASSUME NEW x \in Prods \X (1..MsgNumPerProd)
        PROVE  x[2] <= left'[x[1]] <=> x[2] <= left[x[1]] /\ x # y
    <3>1. x[1] \in Prods /\ x[2] \in 1..MsgNumPerProd /\ x = <<x[1], x[2]>>
      BY <2>1
    <3>2. CASE x[1] = c
      <4>1. x = y <=> x[2] = left[c]
        BY <3>1, <3>2
      <4> QED
        BY <1>2, <3>1, <3>2, <4>1
    <3>3. CASE x[1] # c
      <4>1. x # y
        BY <3>3
      <4> QED
        BY <1>3, <3>1, <3>3, <4>1
    <3> QED
      BY <3>2, <3>3
  <2> QED
    BY <2>1 DEF Todo
<1>6. IsFiniteSet(Todo)
  BY TodoFinite
<1>7. Cardinality(Todo) \in Nat /\ Cardinality(Todo) # 0
  BY <1>4, <1>6, TodoFinite, FS_EmptySet
<1> HIDE DEF y
<1>8. Cardinality(Todo \ {y}) = Cardinality(Todo) - 1
  BY <1>4, <1>6, FS_RemoveElement
<1> QED
  BY <1>5, <1>7, <1>8

\* The initial state satisfies the invariant.
LEMMA PcStart == PC!Init => PcInv
<1> SUFFICES ASSUME PC!Init PROVE PcInv
  OBVIOUS
<1>1. /\ par = "forkprod" /\ turn = 0 /\ waitc = 1 /\ buffa = MAX_MSG /\ buffb = 0
      /\ total = PC!AllMsgs /\ write = 1 /\ produced = 0 /\ consumed = 0
      /\ at = [c \in Kin |-> "unborn"]
      /\ left = [c \in Kin |-> IF c \in Prods THEN MsgNumPerProd ELSE 0]
  BY PcSizes DEF PC!Init
<1>2. PC!TypeOK
  BY <1>1, PcSizes DEF PC!TypeOK
<1>3. ASSUME NEW S \in SUBSET Kin, NEW L, "unborn" \notin L PROVE N(S, L) = 0
  <2>1. AtOf(S, L) = {}
    BY <1>1, <1>3 DEF AtOf
  <2> QED
    BY <2>1, FS_EmptySet DEF N
<1>4. /\ N(Prods, {"lock", "write"}) = 0 /\ N(Prods, {"unlock", "post"}) = 0
      /\ N(Conss, {"lock", "write"}) = 0 /\ N(Conss, {"unlock", "post"}) = 0
      /\ N(Kin, {"write", "unlock"}) = 0 /\ N(Conss, {"take", "lock", "write"}) = 0
      /\ N(Kin, {"close"}) = 0
  BY <1>3, PcSizes
<1>5. Spots /\ Ahead /\ Right /\ TotalCounted /\ Refs
  BY <1>1, <1>4, PcSizes DEF Spots, Ahead, Right, TotalCounted, Refs
<1>6. AllCounted
  <2>1. IsFiniteSet(Prods) /\ MsgNumPerProd \in Nat \ {0} /\ 1 \in Int
    BY PcSizes
  <2>2. IsFiniteSet(1..MsgNumPerProd) /\ Cardinality(1..MsgNumPerProd) = MsgNumPerProd
    BY <2>1, FS_Interval
  <2>3. Cardinality(Prods \X (1..MsgNumPerProd)) = Cardinality(Prods) * MsgNumPerProd
    BY <2>1, <2>2, FS_Product
  <2>4. Todo = Prods \X (1..MsgNumPerProd)
    <3>1. \A x \in Prods \X (1..MsgNumPerProd) : x[1] \in Prods /\ x[2] \in 1..MsgNumPerProd
      OBVIOUS
    <3>2. \A c \in Prods : left[c] = MsgNumPerProd
      BY <1>1, PcSizes
    <3> QED
      BY <2>1, <3>1, <3>2 DEF Todo
  <2>5. PC!AllMsgs = Cardinality(Prods) * MsgNumPerProd
    BY SameSize DEF PC!AllMsgs, PC!prodNum
  <2>6. PC!AllMsgs \in Nat
    BY PcSizes
  <2> QED
    BY <1>1, <2>3, <2>4, <2>5, <2>6 DEF AllCounted
<1>7. PC!StartBarrier /\ Ends /\ Reaped
  BY <1>1, PcSizes DEF PC!StartBarrier, Ends, Reaped
<1> QED
  BY <1>2, <1>5, <1>6, <1>7 DEF PcInv

\* What every step of a child keeps: it is born and not reaped, so the parent
\* is not past its waits.
LEMMA ChildKeeps ==
  ASSUME PcInv, NEW c \in Kin, NEW from \in Places \ {"unborn", "reaped"},
         NEW to \in Places \ {"unborn", "reaped"}, PC!Step(c, from, to), UNCHANGED <<par, turn>>
  PROVE  /\ at[c] = from /\ at' = [at EXCEPT ![c] = to] /\ at'[c] = to
         /\ at \in [Kin -> Places] /\ at' \in [Kin -> Places]
         /\ \A d \in Kin : d # c => at'[d] = at[d]
         /\ par \in {"forkprod", "forkcons", "wait"}
         /\ Reaped'
         /\ (from \notin {"close", "barrier"} \/ to = "barrier") => PC!StartBarrier'
<1>1. at[c] = from /\ at' = [at EXCEPT ![c] = to] /\ par' = par /\ turn' = turn
  BY DEF PC!Step
<1>2. at \in [Kin -> Places] /\ par \in {"forkprod", "forkcons", "wait", "unlink", "done"} /\ turn \in Nat
  BY PcSizes DEF PcInv, PC!TypeOK, Places
<1>3. at' \in [Kin -> Places] /\ at'[c] = to /\ \A d \in Kin : d # c => at'[d] = at[d]
  BY <1>1, <1>2
<1>4. c \in PC!Kids
  BY <1>1, PcSizes DEF PC!Kids, PC!Born
<1>5. par \in {"forkprod", "forkcons", "wait"}
  BY <1>2, <1>4 DEF PcInv, Reaped
<1>6. Reaped'
  <2>1. N(Kin, {"reaped"})' = N(Kin, {"reaped"}) + Change(Kin, {"reaped"}, c, to)
    BY <1>1, Moves DEF PcInv
  <2>2. Change(Kin, {"reaped"}, c, to) = 0
    BY <1>1 DEF Change
  <2>3. N(Kin, {"reaped"}) \in Nat
    BY Numbers
  <2>4. N(Kin, {"reaped"})' = N(Kin, {"reaped"})
    BY <2>1, <2>2, <2>3
  <2>5. PC!consNum' = PC!consNum /\ PC!prodNum' = PC!prodNum
    BY DEF PC!consNum, PC!prodNum
  <2> QED
    BY <1>1, <1>4, <1>5, <2>4, <2>5 DEF PcInv, Reaped
<1>7. ASSUME from \notin {"close", "barrier"} \/ to = "barrier" PROVE PC!StartBarrier'
  <2>1. PC!StartBarrier
    BY DEF PcInv
  <2>2. ASSUME NEW d \in Kin, at'[d] \notin {"unborn", "close", "barrier"}
        PROVE  at[d] \notin {"unborn", "close", "barrier"}
    BY <1>1, <1>3, <1>7, <2>2
  <2> QED
    BY <1>1, <2>1, <2>2, PcSizes DEF PC!StartBarrier
<1> QED
  BY <1>1, <1>2, <1>3, <1>5, <1>6, <1>7

\* The numbers the invariant speaks of, before and after a child's step.
Counted(c, to) ==
  /\ N(Prods, {"lock", "write"})' = N(Prods, {"lock", "write"}) + Change(Prods, {"lock", "write"}, c, to)
  /\ N(Prods, {"unlock", "post"})' = N(Prods, {"unlock", "post"}) + Change(Prods, {"unlock", "post"}, c, to)
  /\ N(Conss, {"lock", "write"})' = N(Conss, {"lock", "write"}) + Change(Conss, {"lock", "write"}, c, to)
  /\ N(Conss, {"unlock", "post"})' = N(Conss, {"unlock", "post"}) + Change(Conss, {"unlock", "post"}, c, to)
  /\ N(Kin, {"write", "unlock"})' = N(Kin, {"write", "unlock"}) + Change(Kin, {"write", "unlock"}, c, to)
  /\ N(Conss, {"take", "lock", "write"})'
       = N(Conss, {"take", "lock", "write"}) + Change(Conss, {"take", "lock", "write"}, c, to)
  /\ N(Kin, {"close"})' = N(Kin, {"close"}) + Change(Kin, {"close"}, c, to)

Naturals7 ==
  /\ N(Prods, {"lock", "write"}) \in Nat /\ N(Prods, {"unlock", "post"}) \in Nat
  /\ N(Conss, {"lock", "write"}) \in Nat /\ N(Conss, {"unlock", "post"}) \in Nat
  /\ N(Kin, {"write", "unlock"}) \in Nat /\ N(Conss, {"take", "lock", "write"}) \in Nat
  /\ N(Kin, {"close"}) \in Nat

LEMMA Counts ==
  ASSUME PC!TypeOK, NEW c \in Kin, NEW to, at' = [at EXCEPT ![c] = to]
  PROVE  Counted(c, to) /\ Naturals7
<1>1. Prods \in SUBSET Kin /\ Conss \in SUBSET Kin /\ Kin \in SUBSET Kin
  BY PcSizes
<1>2. Naturals7
  BY <1>1, Numbers DEF Naturals7
<1>3. \A S \in SUBSET Kin : \A L : N(S, L)' = N(S, L) + Change(S, L, c, to)
  BY Moves
<1>4. Counted(c, to)
  BY <1>1, <1>3 DEF Counted
<1> QED
  BY <1>2, <1>4

\* A step that prints nothing leaves what is to print.
LEMMA Unprinted ==
  ASSUME AllCounted, left' = left, produced' = produced
  PROVE  AllCounted'
<1>1. PC!AllMsgs' = PC!AllMsgs
  BY DEF PC!AllMsgs, PC!prodNum
<1>2. Todo' = Todo
  BY DEF Todo
<1> QED
  BY <1>1, <1>2 DEF AllCounted

\* The types of the state, with the children and the sizes named.
Typed ==
  /\ par \in {"forkprod", "forkcons", "wait", "unlink", "done"} /\ turn \in Nat
  /\ at \in [Kin -> Places] /\ left \in [Kin -> 0..MsgNumPerProd]
  /\ waitc \in Nat /\ buffa \in 0..MAX_MSG /\ buffb \in 0..MAX_MSG
  /\ total \in 0..PC!AllMsgs /\ write \in 0..1 /\ produced \in Nat /\ consumed \in Nat

LEMMA PcTyped ==
  (PC!TypeOK <=> Typed) /\ (PC!TypeOK' <=> Typed') /\ PC!AllMsgs' = PC!AllMsgs
<1>1. PC!Children = Kin /\ PC!AllMsgs' = PC!AllMsgs
  BY PcSizes DEF PC!AllMsgs, PC!prodNum
<1> QED
  BY <1>1 DEF PC!TypeOK, Typed, Places

\* A child closes its reference to "waitc".
LEMMA PcClose ==
  ASSUME PcInv, NEW c \in Kin, PC!CloseBarrier(c)
  PROVE  PcInv'
<1>1. /\ PC!Step(c, "close", "barrier") /\ UNCHANGED <<par, turn>> /\ waitc' = waitc - 1
      /\ UNCHANGED <<left, buffa, buffb, total, write, produced, consumed>>
  BY PcSizes DEF PC!CloseBarrier, PC!parVars, PC!semVars, PC!msgVars
<1>2. c \in Kin
  BY PcSizes
<1>3. /\ at[c] = "close" /\ at' = [at EXCEPT ![c] = "barrier"] /\ at' \in [Kin -> Places]
      /\ at'[c] = "barrier" /\ (\A d \in Kin : d # c => at'[d] = at[d])
      /\ par \in {"forkprod", "forkcons", "wait"} /\ Reaped' /\ PC!StartBarrier'
  BY <1>1, <1>2, ChildKeeps DEF Places
<1>4. Counted(c, "barrier") /\ Naturals7
  BY <1>2, <1>3, Counts DEF PcInv
<1>5. /\ N(Prods, {"lock", "write"})' = N(Prods, {"lock", "write"})
      /\ N(Prods, {"unlock", "post"})' = N(Prods, {"unlock", "post"})
      /\ N(Conss, {"lock", "write"})' = N(Conss, {"lock", "write"})
      /\ N(Conss, {"unlock", "post"})' = N(Conss, {"unlock", "post"})
      /\ N(Kin, {"write", "unlock"})' = N(Kin, {"write", "unlock"})
      /\ N(Conss, {"take", "lock", "write"})' = N(Conss, {"take", "lock", "write"})
      /\ N(Kin, {"close"})' = N(Kin, {"close"}) - 1
  BY <1>3, <1>4, PcSizes DEF Counted, Naturals7, Change
<1>6. Typed /\ PC!AllMsgs' = PC!AllMsgs /\ PC!AllMsgs \in Nat /\ MAX_MSG \in Nat
  BY PcTyped, PcSizes DEF PcInv
<1>7. Typed'
  <2>1. N(Kin, {"close"}) > 0
    BY <1>2, <1>3, Numbers
  <2>2. waitc' \in Nat
    BY <1>1, <1>4, <1>6, <2>1 DEF PcInv, Refs, Naturals7, Typed
  <2> QED
    BY <1>1, <1>3, <1>6, <2>2 DEF Typed
<1>8. Spots' /\ Ahead' /\ Right' /\ TotalCounted' /\ Refs'
  BY <1>1, <1>3, <1>4, <1>5, <1>6
     DEF PcInv, Spots, Ahead, Right, TotalCounted, Refs, Naturals7, Typed
<1>9. AllCounted'
  BY <1>1, Unprinted DEF PcInv
<1>10. Ends'
  BY <1>1, <1>3, PcSizes DEF PcInv, Ends
<1> QED
  BY <1>3, <1>7, <1>8, <1>9, <1>10, PcTyped DEF PcInv

\* The passage of the barrier: nobody holds "waitc" any more.
LEMMA PcBarrier ==
  ASSUME PcInv, NEW c \in Kin, PC!PassBarrier(c)
  PROVE  PcInv'
<1>1. /\ PC!Step(c, "barrier", "loop") /\ UNCHANGED <<par, turn>> /\ waitc = 0
      /\ UNCHANGED <<left, waitc, buffa, buffb, total, write, produced, consumed>>
  BY PcSizes DEF PC!PassBarrier, PC!parVars, PC!semVars, PC!msgVars
<1>2. c \in Kin
  BY PcSizes
<1>3. /\ at[c] = "barrier" /\ at' = [at EXCEPT ![c] = "loop"] /\ at' \in [Kin -> Places]
      /\ at'[c] = "loop" /\ (\A d \in Kin : d # c => at'[d] = at[d])
      /\ par \in {"forkprod", "forkcons", "wait"} /\ Reaped'
  BY <1>1, <1>2, ChildKeeps DEF Places
<1>4. Counted(c, "loop") /\ Naturals7
  BY <1>2, <1>3, Counts DEF PcInv
<1>5. /\ N(Prods, {"lock", "write"})' = N(Prods, {"lock", "write"})
      /\ N(Prods, {"unlock", "post"})' = N(Prods, {"unlock", "post"})
      /\ N(Conss, {"lock", "write"})' = N(Conss, {"lock", "write"})
      /\ N(Conss, {"unlock", "post"})' = N(Conss, {"unlock", "post"})
      /\ N(Kin, {"write", "unlock"})' = N(Kin, {"write", "unlock"})
      /\ N(Conss, {"take", "lock", "write"})' = N(Conss, {"take", "lock", "write"})
      /\ N(Kin, {"close"})' = N(Kin, {"close"})
  BY <1>3, <1>4, PcSizes DEF Counted, Naturals7, Change
<1>6. Typed /\ PC!AllMsgs' = PC!AllMsgs /\ PC!AllMsgs \in Nat /\ MAX_MSG \in Nat
  BY PcTyped, PcSizes DEF PcInv
<1>7. Typed'
  BY <1>1, <1>3, <1>6 DEF Typed
<1>8. Spots' /\ Ahead' /\ Right' /\ TotalCounted' /\ Refs'
  BY <1>1, <1>3, <1>4, <1>5, <1>6
     DEF PcInv, Spots, Ahead, Right, TotalCounted, Refs, Naturals7, Typed
<1>9. AllCounted'
  BY <1>1, Unprinted DEF PcInv
<1>10. Ends'
  BY <1>1, <1>3, PcSizes DEF PcInv, Ends
<1>11. PC!StartBarrier'
  BY <1>1, <1>4, <1>8 DEF PcInv, Refs, Naturals7, PC!StartBarrier
<1> QED
  BY <1>11, <1>3, <1>7, <1>8, <1>9, <1>10, PcTyped DEF PcInv

\* A producer takes a free spot.
LEMMA PcProdWait ==
  ASSUME PcInv, NEW c \in Prods, PC!ProdWait(c)
  PROVE  PcInv'
<1>1. /\ PC!Step(c, "loop", "lock") /\ UNCHANGED <<par, turn>> /\ left[c] > 0
      /\ buffa > 0 /\ buffa' = buffa - 1
      /\ UNCHANGED <<left, waitc, buffb, total, write, produced, consumed>>
  BY PcSizes DEF PC!ProdWait, PC!parVars, PC!semVars, PC!msgVars
<1>2. c \in Kin
  BY PcSizes
<1>3. /\ at[c] = "loop" /\ at' = [at EXCEPT ![c] = "lock"] /\ at' \in [Kin -> Places]
      /\ at'[c] = "lock" /\ (\A d \in Kin : d # c => at'[d] = at[d])
      /\ par \in {"forkprod", "forkcons", "wait"} /\ Reaped' /\ PC!StartBarrier'
  BY <1>1, <1>2, ChildKeeps DEF Places
<1>4. Counted(c, "lock") /\ Naturals7
  BY <1>2, <1>3, Counts DEF PcInv
<1>5. /\ N(Prods, {"lock", "write"})' = N(Prods, {"lock", "write"}) + 1
      /\ N(Prods, {"unlock", "post"})' = N(Prods, {"unlock", "post"})
      /\ N(Conss, {"lock", "write"})' = N(Conss, {"lock", "write"})
      /\ N(Conss, {"unlock", "post"})' = N(Conss, {"unlock", "post"})
      /\ N(Kin, {"write", "unlock"})' = N(Kin, {"write", "unlock"})
      /\ N(Conss, {"take", "lock", "write"})' = N(Conss, {"take", "lock", "write"})
      /\ N(Kin, {"close"})' = N(Kin, {"close"})
  BY <1>3, <1>4, PcSizes DEF Counted, Naturals7, Change
<1>6. Typed /\ PC!AllMsgs' = PC!AllMsgs /\ PC!AllMsgs \in Nat /\ MAX_MSG \in Nat
  BY PcTyped, PcSizes DEF PcInv
<1>7. Typed'
  BY <1>1, <1>3, <1>6 DEF Typed
<1>8. Spots' /\ Ahead' /\ Right' /\ TotalCounted' /\ Refs'
  BY <1>1, <1>3, <1>4, <1>5, <1>6
     DEF PcInv, Spots, Ahead, Right, TotalCounted, Refs, Naturals7, Typed
<1>9. AllCounted'
  BY <1>1, Unprinted DEF PcInv
<1>10. Ends'
  BY <1>1, <1>3, PcSizes DEF PcInv, Ends
<1> QED
  BY <1>3, <1>7, <1>8, <1>9, <1>10, PcTyped DEF PcInv

\* A consumer takes one of the messages to come.
LEMMA PcConsTry ==
  ASSUME PcInv, NEW c \in Conss, PC!ConsTry(c)
  PROVE  PcInv'
<1>1. /\ PC!Step(c, "loop", "take") /\ UNCHANGED <<par, turn>> /\ total > 0
      /\ total' = total - 1
      /\ UNCHANGED <<left, waitc, buffa, buffb, write, produced, consumed>>
  BY PcSizes DEF PC!ConsTry, PC!parVars, PC!semVars, PC!msgVars
<1>2. c \in Kin
  BY PcSizes
<1>3. /\ at[c] = "loop" /\ at' = [at EXCEPT ![c] = "take"] /\ at' \in [Kin -> Places]
      /\ at'[c] = "take" /\ (\A d \in Kin : d # c => at'[d] = at[d])
      /\ par \in {"forkprod", "forkcons", "wait"} /\ Reaped' /\ PC!StartBarrier'
  BY <1>1, <1>2, ChildKeeps DEF Places
<1>4. Counted(c, "take") /\ Naturals7
  BY <1>2, <1>3, Counts DEF PcInv
<1>5. /\ N(Prods, {"lock", "write"})' = N(Prods, {"lock", "write"})
      /\ N(Prods, {"unlock", "post"})' = N(Prods, {"unlock", "post"})
      /\ N(Conss, {"lock", "write"})' = N(Conss, {"lock", "write"})
      /\ N(Conss, {"unlock", "post"})' = N(Conss, {"unlock", "post"})
      /\ N(Kin, {"write", "unlock"})' = N(Kin, {"write", "unlock"})
      /\ N(Conss, {"take", "lock", "write"})' = N(Conss, {"take", "lock", "write"}) + 1
      /\ N(Kin, {"close"})' = N(Kin, {"close"})
  BY <1>3, <1>4, PcSizes DEF Counted, Naturals7, Change
<1>6. Typed /\ PC!AllMsgs' = PC!AllMsgs /\ PC!AllMsgs \in Nat /\ MAX_MSG \in Nat
  BY PcTyped, PcSizes DEF PcInv
<1>7. Typed'
  BY <1>1, <1>3, <1>6 DEF Typed
<1>8. Spots' /\ Ahead' /\ Right' /\ TotalCounted' /\ Refs'
  BY <1>1, <1>3, <1>4, <1>5, <1>6
     DEF PcInv, Spots, Ahead, Right, TotalCounted, Refs, Naturals7, Typed
<1>9. AllCounted'
  BY <1>1, Unprinted DEF PcInv
<1>10. Ends'
  BY <1>1, <1>3, PcSizes DEF PcInv, Ends
<1> QED
  BY <1>3, <1>7, <1>8, <1>9, <1>10, PcTyped DEF PcInv

\* A consumer takes a filled spot.
LEMMA PcConsWait ==
  ASSUME PcInv, NEW c \in Conss, PC!ConsWait(c)
  PROVE  PcInv'
<1>1. /\ PC!Step(c, "take", "lock") /\ UNCHANGED <<par, turn>> /\ buffb > 0
      /\ buffb' = buffb - 1
      /\ UNCHANGED <<left, waitc, buffa, total, write, produced, consumed>>
  BY PcSizes DEF PC!ConsWait, PC!parVars, PC!semVars, PC!msgVars
<1>2. c \in Kin
  BY PcSizes
<1>3. /\ at[c] = "take" /\ at' = [at EXCEPT ![c] = "lock"] /\ at' \in [Kin -> Places]
      /\ at'[c] = "lock" /\ (\A d \in Kin : d # c => at'[d] = at[d])
      /\ par \in {"forkprod", "forkcons", "wait"} /\ Reaped' /\ PC!StartBarrier'
  BY <1>1, <1>2, ChildKeeps DEF Places
<1>4. Counted(c, "lock") /\ Naturals7
  BY <1>2, <1>3, Counts DEF PcInv
<1>5. /\ N(Prods, {"lock", "write"})' = N(Prods, {"lock", "write"})
      /\ N(Prods, {"unlock", "post"})' = N(Prods, {"unlock", "post"})
      /\ N(Conss, {"lock", "write"})' = N(Conss, {"lock", "write"}) + 1
      /\ N(Conss, {"unlock", "post"})' = N(Conss, {"unlock", "post"})
      /\ N(Kin, {"write", "unlock"})' = N(Kin, {"write", "unlock"})
      /\ N(Conss, {"take", "lock", "write"})' = N(Conss, {"take", "lock", "write"})
      /\ N(Kin, {"close"})' = N(Kin, {"close"})
  BY <1>3, <1>4, PcSizes DEF Counted, Naturals7, Change
<1>6. Typed /\ PC!AllMsgs' = PC!AllMsgs /\ PC!AllMsgs \in Nat /\ MAX_MSG \in Nat
  BY PcTyped, PcSizes DEF PcInv
<1>7. Typed'
  BY <1>1, <1>3, <1>6 DEF Typed
<1>8. Spots' /\ Ahead' /\ Right' /\ TotalCounted' /\ Refs'
  BY <1>1, <1>3, <1>4, <1>5, <1>6
     DEF PcInv, Spots, Ahead, Right, TotalCounted, Refs, Naturals7, Typed
<1>9. AllCounted'
  BY <1>1, Unprinted DEF PcInv
<1>10. Ends'
  BY <1>1, <1>3, PcSizes DEF PcInv, Ends
<1> QED
  BY <1>3, <1>7, <1>8, <1>9, <1>10, PcTyped DEF PcInv

\* A child takes the right to print.
LEMMA PcLock ==
  ASSUME PcInv, NEW c \in Kin, PC!Lock(c)
  PROVE  PcInv'
<1>1. /\ PC!Step(c, "lock", "write") /\ UNCHANGED <<par, turn>> /\ write > 0 /\ write' = write - 1
      /\ UNCHANGED <<left, waitc, buffa, buffb, total, produced, consumed>>
  BY PcSizes DEF PC!Lock, PC!parVars, PC!semVars, PC!msgVars
<1>2. c \in Kin
  BY PcSizes
<1>3. /\ at[c] = "lock" /\ at' = [at EXCEPT ![c] = "write"] /\ at' \in [Kin -> Places]
      /\ at'[c] = "write" /\ (\A d \in Kin : d # c => at'[d] = at[d])
      /\ par \in {"forkprod", "forkcons", "wait"} /\ Reaped' /\ PC!StartBarrier'
  BY <1>1, <1>2, ChildKeeps DEF Places
<1>4. Counted(c, "write") /\ Naturals7
  BY <1>2, <1>3, Counts DEF PcInv
<1>5. /\ N(Prods, {"lock", "write"})' = N(Prods, {"lock", "write"})
      /\ N(Prods, {"unlock", "post"})' = N(Prods, {"unlock", "post"})
      /\ N(Conss, {"lock", "write"})' = N(Conss, {"lock", "write"})
      /\ N(Conss, {"unlock", "post"})' = N(Conss, {"unlock", "post"})
      /\ N(Kin, {"write", "unlock"})' = N(Kin, {"write", "unlock"}) + 1
      /\ N(Conss, {"take", "lock", "write"})' = N(Conss, {"take", "lock", "write"})
      /\ N(Kin, {"close"})' = N(Kin, {"close"})
  BY <1>3, <1>4, PcSizes DEF Counted, Naturals7, Change
<1>6. Typed /\ PC!AllMsgs' = PC!AllMsgs /\ PC!AllMsgs \in Nat /\ MAX_MSG \in Nat
  BY PcTyped, PcSizes DEF PcInv
<1>7. Typed'
  BY <1>1, <1>3, <1>6 DEF Typed
<1>8. Spots' /\ Ahead' /\ Right' /\ TotalCounted' /\ Refs'
  BY <1>1, <1>3, <1>4, <1>5, <1>6
     DEF PcInv, Spots, Ahead, Right, TotalCounted, Refs, Naturals7, Typed
<1>9. AllCounted'
  BY <1>1, Unprinted DEF PcInv
<1>10. Ends'
  BY <1>1, <1>3, PcSizes DEF PcInv, Ends
<1> QED
  BY <1>3, <1>7, <1>8, <1>9, <1>10, PcTyped DEF PcInv

\* A child gives the right back: the post is not refused.
LEMMA PcUnlock ==
  ASSUME PcInv, NEW c \in Kin, PC!Unlock(c)
  PROVE  PcInv'
<1>1. /\ PC!Step(c, "unlock", "post") /\ UNCHANGED <<par, turn>> /\ write' = PC!Posted(write, 1)
      /\ UNCHANGED <<left, waitc, buffa, buffb, total, produced, consumed>>
  BY PcSizes DEF PC!Unlock, PC!parVars, PC!semVars, PC!msgVars
<1>2. c \in Kin
  BY PcSizes
<1>3. /\ at[c] = "unlock" /\ at' = [at EXCEPT ![c] = "post"] /\ at' \in [Kin -> Places]
      /\ at'[c] = "post" /\ (\A d \in Kin : d # c => at'[d] = at[d])
      /\ par \in {"forkprod", "forkcons", "wait"} /\ Reaped' /\ PC!StartBarrier'
  BY <1>1, <1>2, ChildKeeps DEF Places
<1>4. Counted(c, "post") /\ Naturals7
  BY <1>2, <1>3, Counts DEF PcInv
<1>5. /\ N(Prods, {"lock", "write"})' = N(Prods, {"lock", "write"})
      /\ N(Prods, {"unlock", "post"})' = N(Prods, {"unlock", "post"})
      /\ N(Conss, {"lock", "write"})' = N(Conss, {"lock", "write"})
      /\ N(Conss, {"unlock", "post"})' = N(Conss, {"unlock", "post"})
      /\ N(Kin, {"write", "unlock"})' = N(Kin, {"write", "unlock"}) - 1
      /\ N(Conss, {"take", "lock", "write"})' = N(Conss, {"take", "lock", "write"})
      /\ N(Kin, {"close"})' = N(Kin, {"close"})
  BY <1>3, <1>4, PcSizes DEF Counted, Naturals7, Change
<1>6. Typed /\ PC!AllMsgs' = PC!AllMsgs /\ PC!AllMsgs \in Nat /\ MAX_MSG \in Nat
  BY PcTyped, PcSizes DEF PcInv
<1>7. write = 0 /\ write' = 1 /\ Typed'
  <2>1. N(Kin, {"write", "unlock"}) > 0
    BY <1>2, <1>3, Numbers
  <2>2. write = 0
    BY <1>4, <1>6, <2>1 DEF PcInv, Right, Naturals7, Typed
  <2>3. write' = 1
    BY <1>1, <2>2 DEF PC!Posted
  <2> QED
    BY <1>1, <1>3, <1>6, <2>2, <2>3 DEF Typed
<1>8. Spots' /\ Ahead' /\ Right' /\ TotalCounted' /\ Refs'
  BY <1>1, <1>3, <1>4, <1>5, <1>6, <1>7
     DEF PcInv, Spots, Ahead, Right, TotalCounted, Refs, Naturals7, Typed
<1>9. AllCounted'
  BY <1>1, Unprinted DEF PcInv
<1>10. Ends'
  BY <1>1, <1>3, PcSizes DEF PcInv, Ends
<1> QED
  BY <1>3, <1>7, <1>8, <1>9, <1>10, PcTyped DEF PcInv

\* A producer posts a filled spot, which is not refused.
LEMMA PcPostProd ==
  ASSUME PcInv, NEW c \in Prods, PC!Post(c)
  PROVE  PcInv'
<1>1. /\ PC!Step(c, "post", "loop") /\ UNCHANGED <<par, turn>> /\ buffb' = PC!Posted(buffb, MAX_MSG)
      /\ UNCHANGED <<left, waitc, buffa, total, write, produced, consumed>>
  BY PcSizes DEF PC!Post, PC!parVars, PC!semVars, PC!msgVars
<1>2. c \in Kin
  BY PcSizes
<1>3. /\ at[c] = "post" /\ at' = [at EXCEPT ![c] = "loop"] /\ at' \in [Kin -> Places]
      /\ at'[c] = "loop" /\ (\A d \in Kin : d # c => at'[d] = at[d])
      /\ par \in {"forkprod", "forkcons", "wait"} /\ Reaped' /\ PC!StartBarrier'
  BY <1>1, <1>2, ChildKeeps DEF Places
<1>4. Counted(c, "loop") /\ Naturals7
  BY <1>2, <1>3, Counts DEF PcInv
<1>5. /\ N(Prods, {"lock", "write"})' = N(Prods, {"lock", "write"})
      /\ N(Prods, {"unlock", "post"})' = N(Prods, {"unlock", "post"}) - 1
      /\ N(Conss, {"lock", "write"})' = N(Conss, {"lock", "write"})
      /\ N(Conss, {"unlock", "post"})' = N(Conss, {"unlock", "post"})
      /\ N(Kin, {"write", "unlock"})' = N(Kin, {"write", "unlock"})
      /\ N(Conss, {"take", "lock", "write"})' = N(Conss, {"take", "lock", "write"})
      /\ N(Kin, {"close"})' = N(Kin, {"close"})
  BY <1>3, <1>4, PcSizes DEF Counted, Naturals7, Change
<1>6. Typed /\ PC!AllMsgs' = PC!AllMsgs /\ PC!AllMsgs \in Nat /\ MAX_MSG \in Nat
  BY PcTyped, PcSizes DEF PcInv
<1>7. buffb < MAX_MSG /\ buffb' = buffb + 1 /\ Typed'
  <2>1. N(Prods, {"unlock", "post"}) > 0
    BY <1>2, <1>3, Numbers, PcSizes
  <2>2. buffb < MAX_MSG
    BY <1>4, <1>6, <2>1 DEF PcInv, Spots, Naturals7, Typed
  <2>3. buffb' = buffb + 1
    BY <1>1, <1>6, <2>2 DEF PC!Posted, Typed
  <2> QED
    BY <1>1, <1>3, <1>6, <2>2, <2>3 DEF Typed
<1>8. Spots' /\ Ahead' /\ Right' /\ TotalCounted' /\ Refs'
  BY <1>1, <1>3, <1>4, <1>5, <1>6, <1>7
     DEF PcInv, Spots, Ahead, Right, TotalCounted, Refs, Naturals7, Typed
<1>9. AllCounted'
  BY <1>1, Unprinted DEF PcInv
<1>10. Ends'
  BY <1>1, <1>3, PcSizes DEF PcInv, Ends
<1> QED
  BY <1>3, <1>7, <1>8, <1>9, <1>10, PcTyped DEF PcInv

\* A consumer posts a free spot, which is not refused.
LEMMA PcPostCons ==
  ASSUME PcInv, NEW c \in Conss, PC!Post(c)
  PROVE  PcInv'
<1>1. /\ PC!Step(c, "post", "loop") /\ UNCHANGED <<par, turn>> /\ buffa' = PC!Posted(buffa, MAX_MSG)
      /\ UNCHANGED <<left, waitc, buffb, total, write, produced, consumed>>
  BY PcSizes DEF PC!Post, PC!parVars, PC!semVars, PC!msgVars
<1>2. c \in Kin
  BY PcSizes
<1>3. /\ at[c] = "post" /\ at' = [at EXCEPT ![c] = "loop"] /\ at' \in [Kin -> Places]
      /\ at'[c] = "loop" /\ (\A d \in Kin : d # c => at'[d] = at[d])
      /\ par \in {"forkprod", "forkcons", "wait"} /\ Reaped' /\ PC!StartBarrier'
  BY <1>1, <1>2, ChildKeeps DEF Places
<1>4. Counted(c, "loop") /\ Naturals7
  BY <1>2, <1>3, Counts DEF PcInv
<1>5. /\ N(Prods, {"lock", "write"})' = N(Prods, {"lock", "write"})
      /\ N(Prods, {"unlock", "post"})' = N(Prods, {"unlock", "post"})
      /\ N(Conss, {"lock", "write"})' = N(Conss, {"lock", "write"})
      /\ N(Conss, {"unlock", "post"})' = N(Conss, {"unlock", "post"}) - 1
      /\ N(Kin, {"write", "unlock"})' = N(Kin, {"write", "unlock"})
      /\ N(Conss, {"take", "lock", "write"})' = N(Conss, {"take", "lock", "write"})
      /\ N(Kin, {"close"})' = N(Kin, {"close"})
  BY <1>3, <1>4, PcSizes DEF Counted, Naturals7, Change
<1>6. Typed /\ PC!AllMsgs' = PC!AllMsgs /\ PC!AllMsgs \in Nat /\ MAX_MSG \in Nat
  BY PcTyped, PcSizes DEF PcInv
<1>7. buffa < MAX_MSG /\ buffa' = buffa + 1 /\ Typed'
  <2>1. N(Conss, {"unlock", "post"}) > 0
    BY <1>2, <1>3, Numbers, PcSizes
  <2>2. buffa < MAX_MSG
    BY <1>4, <1>6, <2>1 DEF PcInv, Spots, Naturals7, Typed
  <2>3. buffa' = buffa + 1
    BY <1>1, <1>6, <2>2 DEF PC!Posted, Typed
  <2> QED
    BY <1>1, <1>3, <1>6, <2>2, <2>3 DEF Typed
<1>8. Spots' /\ Ahead' /\ Right' /\ TotalCounted' /\ Refs'
  BY <1>1, <1>3, <1>4, <1>5, <1>6, <1>7
     DEF PcInv, Spots, Ahead, Right, TotalCounted, Refs, Naturals7, Typed
<1>9. AllCounted'
  BY <1>1, Unprinted DEF PcInv
<1>10. Ends'
  BY <1>1, <1>3, PcSizes DEF PcInv, Ends
<1> QED
  BY <1>3, <1>7, <1>8, <1>9, <1>10, PcTyped DEF PcInv

\* A consumer prints.
LEMMA PcPrintCons ==
  ASSUME PcInv, NEW c \in Conss, PC!PrintMsg(c)
  PROVE  PcInv'
<1>1. /\ PC!Step(c, "write", "unlock") /\ UNCHANGED <<par, turn>> /\ consumed' = consumed + 1
      /\ UNCHANGED <<left, waitc, buffa, buffb, total, write, produced>>
  BY PcSizes DEF PC!PrintMsg, PC!parVars, PC!semVars, PC!msgVars
<1>2. c \in Kin
  BY PcSizes
<1>3. /\ at[c] = "write" /\ at' = [at EXCEPT ![c] = "unlock"] /\ at' \in [Kin -> Places]
      /\ at'[c] = "unlock" /\ (\A d \in Kin : d # c => at'[d] = at[d])
      /\ par \in {"forkprod", "forkcons", "wait"} /\ Reaped' /\ PC!StartBarrier'
  BY <1>1, <1>2, ChildKeeps DEF Places
<1>4. Counted(c, "unlock") /\ Naturals7
  BY <1>2, <1>3, Counts DEF PcInv
<1>5. /\ N(Prods, {"lock", "write"})' = N(Prods, {"lock", "write"})
      /\ N(Prods, {"unlock", "post"})' = N(Prods, {"unlock", "post"})
      /\ N(Conss, {"lock", "write"})' = N(Conss, {"lock", "write"}) - 1
      /\ N(Conss, {"unlock", "post"})' = N(Conss, {"unlock", "post"}) + 1
      /\ N(Kin, {"write", "unlock"})' = N(Kin, {"write", "unlock"})
      /\ N(Conss, {"take", "lock", "write"})' = N(Conss, {"take", "lock", "write"}) - 1
      /\ N(Kin, {"close"})' = N(Kin, {"close"})
  BY <1>3, <1>4, PcSizes DEF Counted, Naturals7, Change
<1>6. Typed /\ PC!AllMsgs' = PC!AllMsgs /\ PC!AllMsgs \in Nat /\ MAX_MSG \in Nat
  BY PcTyped, PcSizes DEF PcInv
<1>7. Typed'
  BY <1>1, <1>3, <1>6 DEF Typed
<1>8. Spots' /\ Ahead' /\ Right' /\ TotalCounted' /\ Refs'
  BY <1>1, <1>3, <1>4, <1>5, <1>6
     DEF PcInv, Spots, Ahead, Right, TotalCounted, Refs, Naturals7, Typed
<1>9. AllCounted'
  BY <1>1, Unprinted DEF PcInv
<1>10. Ends'
  BY <1>1, <1>3, PcSizes DEF PcInv, Ends
<1> QED
  BY <1>3, <1>7, <1>8, <1>9, <1>10, PcTyped DEF PcInv

\* A producer prints one of its messages.
LEMMA PcPrintProd ==
  ASSUME PcInv, NEW c \in Prods, PC!PrintMsg(c)
  PROVE  PcInv'
<1>1. /\ PC!Step(c, "write", "unlock") /\ UNCHANGED <<par, turn>> /\ produced' = produced + 1
      /\ left' = [left EXCEPT ![c] = @ - 1]
      /\ UNCHANGED <<waitc, buffa, buffb, total, write, consumed>>
  BY PcSizes DEF PC!PrintMsg, PC!parVars, PC!semVars, PC!msgVars
<1>2. c \in Kin
  BY PcSizes
<1>3. /\ at[c] = "write" /\ at' = [at EXCEPT ![c] = "unlock"] /\ at' \in [Kin -> Places]
      /\ at'[c] = "unlock" /\ (\A d \in Kin : d # c => at'[d] = at[d])
      /\ par \in {"forkprod", "forkcons", "wait"} /\ Reaped' /\ PC!StartBarrier'
  BY <1>1, <1>2, ChildKeeps DEF Places
<1>4. Counted(c, "unlock") /\ Naturals7
  BY <1>2, <1>3, Counts DEF PcInv
<1>5. /\ N(Prods, {"lock", "write"})' = N(Prods, {"lock", "write"}) - 1
      /\ N(Prods, {"unlock", "post"})' = N(Prods, {"unlock", "post"}) + 1
      /\ N(Conss, {"lock", "write"})' = N(Conss, {"lock", "write"})
      /\ N(Conss, {"unlock", "post"})' = N(Conss, {"unlock", "post"})
      /\ N(Kin, {"write", "unlock"})' = N(Kin, {"write", "unlock"})
      /\ N(Conss, {"take", "lock", "write"})' = N(Conss, {"take", "lock", "write"})
      /\ N(Kin, {"close"})' = N(Kin, {"close"})
  BY <1>3, <1>4, PcSizes DEF Counted, Naturals7, Change
<1>6. Typed /\ PC!AllMsgs' = PC!AllMsgs /\ PC!AllMsgs \in Nat /\ MAX_MSG \in Nat
  BY PcTyped, PcSizes DEF PcInv
<1>7. left[c] > 0 /\ left[c] \in 0..MsgNumPerProd /\ left' \in [Kin -> 0..MsgNumPerProd] /\ Typed'
  <2>1. left[c] > 0 /\ left \in [Kin -> 0..MsgNumPerProd] /\ MsgNumPerProd \in Nat
    BY <1>3, <1>6, PcSizes DEF PcInv, Ends, Typed
  <2>2. left[c] \in 0..MsgNumPerProd /\ left' \in [Kin -> 0..MsgNumPerProd]
    BY <1>1, <1>2, <2>1
  <2> QED
    BY <1>1, <1>3, <1>6, <2>1, <2>2 DEF Typed
<1>8. Spots' /\ Ahead' /\ Right' /\ TotalCounted' /\ Refs'
  BY <1>1, <1>3, <1>4, <1>5, <1>6
     DEF PcInv, Spots, Ahead, Right, TotalCounted, Refs, Naturals7, Typed
<1>9. AllCounted'
  <2>1. Cardinality(Todo)' = Cardinality(Todo) - 1 /\ Cardinality(Todo) > 0
    BY <1>1, <1>7, TodoPrinted DEF PcInv
  <2>2. Cardinality(Todo) \in Nat
    BY TodoFinite
  <2> QED
    BY <1>1, <1>6, <2>1, <2>2 DEF PcInv, AllCounted, Typed
<1>10. Ends'
  <2>1. \A d \in Prods : d # c => left'[d] = left[d]
    BY <1>1, <1>6, PcSizes DEF Typed
  <2> QED
    BY <1>1, <1>3, <2>1, PcSizes DEF PcInv, Ends
<1> QED
  BY <1>3, <1>7, <1>8, <1>9, <1>10, PcTyped DEF PcInv

\* A child ends.
LEMMA PcExit ==
  ASSUME PcInv, NEW c \in Kin, PC!Exit(c)
  PROVE  PcInv'
<1>1. /\ PC!Step(c, "loop", "zombie") /\ UNCHANGED <<par, turn>>
      /\ (IF c \in Prods THEN left[c] = 0 ELSE total = 0)
      /\ UNCHANGED <<left, waitc, buffa, buffb, total, write, produced, consumed>>
  BY PcSizes DEF PC!Exit, PC!parVars, PC!semVars, PC!msgVars
<1>2. c \in Kin
  BY PcSizes
<1>3. /\ at[c] = "loop" /\ at' = [at EXCEPT ![c] = "zombie"] /\ at' \in [Kin -> Places]
      /\ at'[c] = "zombie" /\ (\A d \in Kin : d # c => at'[d] = at[d])
      /\ par \in {"forkprod", "forkcons", "wait"} /\ Reaped' /\ PC!StartBarrier'
  BY <1>1, <1>2, ChildKeeps DEF Places
<1>4. Counted(c, "zombie") /\ Naturals7
  BY <1>2, <1>3, Counts DEF PcInv
<1>5. /\ N(Prods, {"lock", "write"})' = N(Prods, {"lock", "write"})
      /\ N(Prods, {"unlock", "post"})' = N(Prods, {"unlock", "post"})
      /\ N(Conss, {"lock", "write"})' = N(Conss, {"lock", "write"})
      /\ N(Conss, {"unlock", "post"})' = N(Conss, {"unlock", "post"})
      /\ N(Kin, {"write", "unlock"})' = N(Kin, {"write", "unlock"})
      /\ N(Conss, {"take", "lock", "write"})' = N(Conss, {"take", "lock", "write"})
      /\ N(Kin, {"close"})' = N(Kin, {"close"})
  BY <1>3, <1>4, PcSizes DEF Counted, Naturals7, Change
<1>6. Typed /\ PC!AllMsgs' = PC!AllMsgs /\ PC!AllMsgs \in Nat /\ MAX_MSG \in Nat
  BY PcTyped, PcSizes DEF PcInv
<1>7. Typed'
  BY <1>1, <1>3, <1>6 DEF Typed
<1>8. Spots' /\ Ahead' /\ Right' /\ TotalCounted' /\ Refs'
  BY <1>1, <1>3, <1>4, <1>5, <1>6
     DEF PcInv, Spots, Ahead, Right, TotalCounted, Refs, Naturals7, Typed
<1>9. AllCounted'
  BY <1>1, Unprinted DEF PcInv
<1>10. Ends'
  BY <1>1, <1>3, PcSizes DEF PcInv, Ends
<1> QED
  BY <1>3, <1>7, <1>8, <1>9, <1>10, PcTyped DEF PcInv

\* The step of a fork loop.
LEMMA PcFork ==
  ASSUME PcInv, NEW loop \in {"forkprod", "forkcons"}, NEW S \in SUBSET Kin, NEW num,
         PC!Fork(loop, S, num)
  PROVE  PcInv'
<1>1. /\ par = loop /\ par' = par /\ turn' = turn + 1
      /\ UNCHANGED <<left, buffa, buffb, total, write, produced, consumed>>
  BY DEF PC!Fork, PC!semVars, PC!msgVars
<1>2. Typed /\ PC!AllMsgs' = PC!AllMsgs /\ PC!AllMsgs \in Nat /\ MAX_MSG \in Nat
  BY PcTyped, PcSizes DEF PcInv
<1>3. AllCounted'
  BY <1>1, Unprinted DEF PcInv
<1>4. Reaped'
  BY <1>1 DEF Reaped
<1>5. CASE at' = at /\ waitc' = waitc
  <2>1. \A R \in SUBSET Kin : \A L : N(R, L)' = N(R, L)
    BY <1>5 DEF N, AtOf
  <2>2. /\ N(Prods, {"lock", "write"})' = N(Prods, {"lock", "write"})
        /\ N(Prods, {"unlock", "post"})' = N(Prods, {"unlock", "post"})
        /\ N(Conss, {"lock", "write"})' = N(Conss, {"lock", "write"})
        /\ N(Conss, {"unlock", "post"})' = N(Conss, {"unlock", "post"})
        /\ N(Kin, {"write", "unlock"})' = N(Kin, {"write", "unlock"})
        /\ N(Conss, {"take", "lock", "write"})' = N(Conss, {"take", "lock", "write"})
        /\ N(Kin, {"close"})' = N(Kin, {"close"})
    BY <2>1, PcSizes
  <2>3. Typed'
    BY <1>1, <1>2, <1>5 DEF Typed
  <2>4. Spots' /\ Ahead' /\ Right' /\ TotalCounted' /\ Refs'
    BY <1>1, <1>2, <1>5, <2>2 DEF PcInv, Spots, Ahead, Right, TotalCounted, Refs
  <2>5. PC!StartBarrier' /\ Ends'
    BY <1>1, <1>5, PcSizes DEF PcInv, PC!StartBarrier, Ends
  <2> QED
    BY <1>3, <1>4, <2>3, <2>4, <2>5, PcTyped DEF PcInv
<1>6. ASSUME NEW c \in S, at[c] = "unborn", at' = [at EXCEPT ![c] = "close"], waitc' = waitc + 1
      PROVE  PcInv'
  <2>1. c \in Kin
    OBVIOUS
  <2>2. at' \in [Kin -> Places] /\ at'[c] = "close" /\ (\A d \in Kin : d # c => at'[d] = at[d])
    BY <1>2, <1>6, <2>1 DEF Typed, Places
  <2>3. Counted(c, "close") /\ Naturals7
    BY <1>6, <2>1, Counts DEF PcInv
  <2>4. /\ N(Prods, {"lock", "write"})' = N(Prods, {"lock", "write"})
        /\ N(Prods, {"unlock", "post"})' = N(Prods, {"unlock", "post"})
        /\ N(Conss, {"lock", "write"})' = N(Conss, {"lock", "write"})
        /\ N(Conss, {"unlock", "post"})' = N(Conss, {"unlock", "post"})
        /\ N(Kin, {"write", "unlock"})' = N(Kin, {"write", "unlock"})
        /\ N(Conss, {"take", "lock", "write"})' = N(Conss, {"take", "lock", "write"})
        /\ N(Kin, {"close"})' = N(Kin, {"close"}) + 1
    BY <1>6, <2>1, <2>3 DEF Counted, Naturals7, Change
  <2>5. Typed'
    BY <1>1, <1>2, <1>6, <2>2 DEF Typed
  <2>6. Spots' /\ Ahead' /\ Right' /\ TotalCounted' /\ Refs'
    BY <1>1, <1>2, <1>6, <2>3, <2>4
       DEF PcInv, Spots, Ahead, Right, TotalCounted, Refs, Naturals7, Typed
  <2>7. PC!StartBarrier'
    <3>1. ASSUME NEW d \in Kin PROVE at'[d] \in {"unborn", "close", "barrier"}
      BY <1>1, <2>2, PcSizes DEF PcInv, PC!StartBarrier
    <3> QED
      BY <3>1, PcSizes DEF PC!StartBarrier
  <2>8. Ends'
    BY <1>1, <2>2, PcSizes DEF PcInv, Ends
  <2> QED
    BY <1>3, <1>4, <2>5, <2>6, <2>7, <2>8, PcTyped DEF PcInv
<1>7. \/ at' = at /\ waitc' = waitc
      \/ \E c \in S : at[c] = "unborn" /\ at' = [at EXCEPT ![c] = "close"] /\ waitc' = waitc + 1
  BY PcSizes DEF PC!Fork, PC!Born
<1> QED
  BY <1>5, <1>6, <1>7

\* A step of the parent that leaves the children alone.
LEMMA PcAlone ==
  ASSUME PcInv, at' = at, turn' \in Nat,
         UNCHANGED <<left, buffa, buffb, total, write, produced, consumed>>,
         par' \in {"forkprod", "forkcons", "wait", "unlink", "done"},
         par' \in {"forkprod", "forkcons"} => par \in {"forkprod", "forkcons"},
         waitc' = waitc + (IF par' \in {"forkprod", "forkcons"} THEN 1 ELSE 0)
                        - (IF par \in {"forkprod", "forkcons"} THEN 1 ELSE 0),
         Reaped'
  PROVE  PcInv'
<1>1. Typed /\ PC!AllMsgs' = PC!AllMsgs /\ PC!AllMsgs \in Nat /\ MAX_MSG \in Nat
  BY PcTyped, PcSizes DEF PcInv
<1>2. \A R \in SUBSET Kin : \A L : N(R, L)' = N(R, L)
  BY DEF N, AtOf
<1>3. /\ N(Prods, {"lock", "write"})' = N(Prods, {"lock", "write"})
      /\ N(Prods, {"unlock", "post"})' = N(Prods, {"unlock", "post"})
      /\ N(Conss, {"lock", "write"})' = N(Conss, {"lock", "write"})
      /\ N(Conss, {"unlock", "post"})' = N(Conss, {"unlock", "post"})
      /\ N(Kin, {"write", "unlock"})' = N(Kin, {"write", "unlock"})
      /\ N(Conss, {"take", "lock", "write"})' = N(Conss, {"take", "lock", "write"})
      /\ N(Kin, {"close"})' = N(Kin, {"close"})
  BY <1>2, PcSizes
<1>4. N(Kin, {"close"}) \in Nat
  BY Numbers
<1>5. waitc' \in Nat /\ Refs'
  BY <1>1, <1>3, <1>4 DEF PcInv, Refs, Typed
<1>6. Typed'
  BY <1>1, <1>5 DEF Typed
<1>7. Spots' /\ Ahead' /\ Right' /\ TotalCounted'
  BY <1>1, <1>3 DEF PcInv, Spots, Ahead, Right, TotalCounted
<1>8. PC!StartBarrier' /\ Ends'
  BY PcSizes DEF PcInv, PC!StartBarrier, Ends
<1>9. AllCounted'
  BY Unprinted DEF PcInv
<1> QED
  BY <1>5, <1>6, <1>7, <1>8, <1>9, PcTyped DEF PcInv

\* A child waited for.
LEMMA PcReap ==
  ASSUME PcInv, par = "wait", turn < PC!consNum + PC!prodNum,
         NEW c \in PC!Kids, PC!Step(c, "zombie", "reaped"), par' = par, turn' = turn + 1,
         UNCHANGED <<waitc, left, buffa, buffb, total, write, produced, consumed>>
  PROVE  PcInv'
<1>1. c \in Kin /\ at[c] = "zombie" /\ at' = [at EXCEPT ![c] = "reaped"]
  BY PcSizes DEF PC!Step, PC!Kids, PC!Born
<1>2. Typed /\ PC!AllMsgs' = PC!AllMsgs /\ PC!AllMsgs \in Nat /\ MAX_MSG \in Nat
  BY PcTyped, PcSizes DEF PcInv
<1>3. at' \in [Kin -> Places] /\ at'[c] = "reaped" /\ (\A d \in Kin : d # c => at'[d] = at[d])
  BY <1>1, <1>2 DEF Typed, Places
<1>4. Counted(c, "reaped") /\ Naturals7
  BY <1>1, Counts DEF PcInv
<1>5. /\ N(Prods, {"lock", "write"})' = N(Prods, {"lock", "write"})
      /\ N(Prods, {"unlock", "post"})' = N(Prods, {"unlock", "post"})
      /\ N(Conss, {"lock", "write"})' = N(Conss, {"lock", "write"})
      /\ N(Conss, {"unlock", "post"})' = N(Conss, {"unlock", "post"})
      /\ N(Kin, {"write", "unlock"})' = N(Kin, {"write", "unlock"})
      /\ N(Conss, {"take", "lock", "write"})' = N(Conss, {"take", "lock", "write"})
      /\ N(Kin, {"close"})' = N(Kin, {"close"})
  BY <1>1, <1>4 DEF Counted, Naturals7, Change
<1>6. Typed'
  BY <1>2, <1>3 DEF Typed
<1>7. Spots' /\ Ahead' /\ Right' /\ TotalCounted' /\ Refs'
  BY <1>2, <1>5 DEF PcInv, Spots, Ahead, Right, TotalCounted, Refs
<1>8. PC!StartBarrier' /\ Ends'
  BY <1>1, <1>3, PcSizes DEF PcInv, PC!StartBarrier, Ends
<1>9. AllCounted'
  BY Unprinted DEF PcInv
<1>10. Reaped'
  <2>1. N(Kin, {"reaped"})' = N(Kin, {"reaped"}) + Change(Kin, {"reaped"}, c, "reaped")
    BY <1>1, Moves DEF PcInv
  <2>2. Change(Kin, {"reaped"}, c, "reaped") = 1
    BY <1>1 DEF Change
  <2>3. N(Kin, {"reaped"}) = turn
    BY DEF PcInv, Reaped
  <2>4. PC!consNum' = PC!consNum /\ PC!prodNum' = PC!prodNum /\ PC!consNum \in Nat /\ PC!prodNum \in Nat
    BY PcSizes DEF PC!consNum, PC!prodNum
  <2>5. N(Kin, {"reaped"})' = turn' /\ turn' <= PC!consNum' + PC!prodNum'
    BY <1>2, <2>1, <2>2, <2>3, <2>4 DEF Typed
  <2> QED
    BY <2>5 DEF Reaped
<1> QED
  BY <1>6, <1>7, <1>8, <1>9, <1>10, PcTyped DEF PcInv

\* When as many have been reaped as there are children, no child is left.
LEMMA AllReaped ==
  ASSUME PC!TypeOK, N(Kin, {"reaped"}) = PC!consNum + PC!prodNum
  PROVE  PC!Kids = {}
<1>1. IsFiniteSet(Kin) /\ Cardinality(AtOf(Kin, {"reaped"})) = Cardinality(Kin)
  BY PcSizes DEF N
<1>2. AtOf(Kin, {"reaped"}) \subseteq Kin
  BY DEF AtOf
<1>3. AtOf(Kin, {"reaped"}) = Kin
  BY <1>1, <1>2, FS_Subset
<1> QED
  BY <1>3, PcSizes DEF AtOf, PC!Kids, PC!Born

\* Every step of the parent keeps the invariant.
LEMMA PcParent == PcInv /\ PC!Parent => PcInv'
<1> SUFFICES ASSUME PcInv, PC!Parent PROVE PcInv'
  OBVIOUS
<1> USE DEF PC!parVars, PC!semVars, PC!msgVars
<1>1. Prods \in SUBSET Kin /\ Conss \in SUBSET Kin
  BY PcSizes
<1>2. Typed
  BY PcTyped DEF PcInv
<1>3. at' = at => PC!Kids' = PC!Kids
  BY DEF PC!Kids, PC!Born, PC!Children
<1>4. PC!consNum' = PC!consNum /\ PC!prodNum' = PC!prodNum
  BY DEF PC!consNum, PC!prodNum
<1>5. CASE PC!ForkProd
  BY <1>1, <1>5, PcFork DEF PC!ForkProd
<1>6. CASE PC!ForkCons
  BY <1>1, <1>6, PcFork DEF PC!ForkCons
<1>7. CASE PC!ForkProdEnd
  <2>1. Reaped'
    BY <1>7 DEF PC!ForkProdEnd, Reaped
  <2> QED
    BY <1>2, <1>7, <2>1, PcAlone DEF PC!ForkProdEnd, Typed
<1>8. CASE PC!CloseWaitc
  <2>1. PC!consNum \in Nat /\ PC!prodNum \in Nat /\ IsFiniteSet(Kin)
    BY PcSizes
  <2>2. Reaped'
    <3>1. CASE N(Kin, {"reaped"}) = 0
      <4>1. N(Kin, {"reaped"})' = N(Kin, {"reaped"})
        BY <1>8 DEF PC!CloseWaitc, N, AtOf
      <4> QED
        BY <1>4, <1>8, <2>1, <3>1, <4>1 DEF PC!CloseWaitc, Reaped
    <3>2. \A c \in Kin : at[c] # "reaped"
      BY <1>8, PcSizes DEF PC!CloseWaitc, PcInv, PC!StartBarrier
    <3>3. AtOf(Kin, {"reaped"}) = {}
      BY <3>2 DEF AtOf
    <3> QED
      BY <3>1, <3>3, FS_EmptySet DEF N
  <2> QED
    BY <1>2, <1>8, <2>2, PcAlone DEF PC!CloseWaitc, Typed
<1>9. CASE PC!Wait
  <2>1. ASSUME NEW c \in PC!Kids, PC!Step(c, "zombie", "reaped") PROVE PcInv'
    BY <1>9, <2>1, PcReap DEF PC!Wait
  <2>2. CASE PC!Kids = {} /\ at' = at
    <3>1. turn' \in Nat /\ turn' <= PC!consNum + PC!prodNum
      BY <1>2, <1>9, PcSizes DEF PC!Wait, Typed
    <3>2. Reaped'
      BY <1>3, <1>4, <1>9, <2>2, <3>1 DEF PC!Wait, Reaped
    <3> QED
      BY <1>2, <1>9, <2>2, <3>1, <3>2, PcAlone DEF PC!Wait, Typed
  <2> QED
    BY <1>9, <2>1, <2>2 DEF PC!Wait
<1>10. CASE PC!WaitEnd
  <2>1. PC!Kids = {}
    BY <1>10, AllReaped DEF PC!WaitEnd, PcInv, Reaped
  <2>2. Reaped'
    BY <1>3, <1>10, <2>1 DEF PC!WaitEnd, Reaped
  <2> QED
    BY <1>2, <1>10, <2>2, PcAlone DEF PC!WaitEnd, Typed
<1>11. CASE PC!Unlink \/ PC!ParentExit
  <2>1. Reaped' /\ at' = at /\ turn' \in Nat
    BY <1>2, <1>3, <1>11 DEF PC!Unlink, PC!ParentExit, PcInv, Reaped, Typed
  <2> QED
    BY <1>2, <1>11, <2>1, PcAlone DEF PC!Unlink, PC!ParentExit, Typed
<1> QED
  BY <1>5, <1>6, <1>7, <1>8, <1>9, <1>10, <1>11 DEF PC!Parent

\* Every step of the program keeps the invariant.
LEMMA PcStep == PcInv /\ [PC!Next]_PC!vars => PcInv'
<1> SUFFICES ASSUME PcInv, [PC!Next]_PC!vars PROVE PcInv'
  OBVIOUS
<1>1. CASE PC!Parent
  BY <1>1, PcParent
<1>2. ASSUME NEW c \in Kin, PC!Child(c) PROVE PcInv'
  <2>1. c \in Prods \/ c \in Conss
    BY DEF Kin
  <2>2. CASE PC!CloseBarrier(c)
    BY <2>2, PcClose
  <2>3. CASE PC!PassBarrier(c)
    BY <2>3, PcBarrier
  <2>4. CASE PC!ProdWait(c)
    BY <2>4, PcProdWait DEF PC!ProdWait
  <2>5. CASE PC!ConsTry(c)
    BY <2>5, PcConsTry DEF PC!ConsTry
  <2>6. CASE PC!ConsWait(c)
    <3>1. c \in Conss
      BY <2>1, <2>6 DEF PC!ConsWait, PC!Step, PcInv, Ends
    <3> QED
      BY <2>6, <3>1, PcConsWait
  <2>7. CASE PC!Lock(c)
    BY <2>7, PcLock
  <2>8. CASE PC!PrintMsg(c)
    BY <2>1, <2>8, PcPrintProd, PcPrintCons
  <2>9. CASE PC!Unlock(c)
    BY <2>9, PcUnlock
  <2>10. CASE PC!Post(c)
    BY <2>1, <2>10, PcPostProd, PcPostCons
  <2>11. CASE PC!Exit(c)
    BY <2>11, PcExit
  <2> QED
    BY <1>2, <2>2, <2>3, <2>4, <2>5, <2>6, <2>7, <2>8, <2>9, <2>10, <2>11 DEF PC!Child
<1>3. CASE UNCHANGED PC!vars
  <2>1. /\ at' = at /\ turn' = turn /\ par' = par /\ waitc' = waitc
        /\ UNCHANGED <<left, buffa, buffb, total, write, produced, consumed>>
    BY <1>3 DEF PC!vars, PC!parVars, PC!semVars, PC!msgVars
  <2>2. Reaped'
    BY <2>1 DEF PcInv, Reaped, N, AtOf, PC!Kids, PC!Born, PC!Children, PC!consNum, PC!prodNum
  <2>3. Typed
    BY PcTyped DEF PcInv
  <2> QED
    BY <2>1, <2>2, <2>3, PcAlone DEF Typed
<1> QED
  BY <1>1, <1>2, <1>3, PcSizes DEF PC!Next, PC!Terminated

\* The invariant holds throughout.
LEMMA PcAlways ==
  PC!Spec => []PcInv
<1>1. PC!Init => PcInv
  BY PcStart
<1>2. PcInv /\ [PC!Next]_PC!vars => PcInv'
  BY PcStep
<1> QED
  BY <1>1, <1>2, PTL DEF PC!Spec

\* The producer/consumer program keeps its types: for any numbers of children,
\* messages and spots, whether fork fails or not.
THEOREM PcTypeCorrect ==
  PC!Spec => []PC!TypeOK
<1>1. PcInv => PC!TypeOK
  BY DEF PcInv
<1> QED
  BY <1>1, PcAlways, PTL

\* No child of pc.c is past the barrier on "waitc" before the parent has gone
\* through both fork loops.
THEOREM ChildrenWait ==
  PC!Spec => []PC!StartBarrier
<1>1. PcInv => PC!StartBarrier
  BY DEF PcInv
<1> QED
  BY <1>1, PcAlways, PTL

\* The count is at most one: so is the set.
LEMMA OneOf ==
  ASSUME NEW L, N(Kin, L) <= 1
  PROVE  \A c, d \in Kin : at[c] \in L /\ at[d] \in L => c = d
<1> SUFFICES ASSUME NEW c \in Kin, NEW d \in Kin, at[c] \in L, at[d] \in L, c # d PROVE FALSE
  OBVIOUS
<1>1. c \in AtOf(Kin, L) /\ d \in AtOf(Kin, L) \ {c} /\ IsFiniteSet(AtOf(Kin, L))
  BY Numbers DEF AtOf
<1>2. IsFiniteSet(AtOf(Kin, L) \ {c}) /\ Cardinality(AtOf(Kin, L) \ {c}) = Cardinality(AtOf(Kin, L)) - 1
  BY <1>1, FS_RemoveElement
<1>3. Cardinality(AtOf(Kin, L) \ {c}) \in Nat /\ Cardinality(AtOf(Kin, L) \ {c}) # 0
  BY <1>1, <1>2, FS_EmptySet, FS_CardinalityType
<1>4. Cardinality(AtOf(Kin, L)) \in Nat
  BY <1>1, FS_CardinalityType
<1> QED
  BY <1>2, <1>3, <1>4 DEF N

\* One process at a time prints.
THEOREM PrintersExclude ==
  PC!Spec => []PC!OneWriter
<1>1. PcInv => PC!OneWriter
  <2> SUFFICES ASSUME PcInv PROVE PC!OneWriter
    OBVIOUS
  <2>1. N(Kin, {"write", "unlock"}) \in Nat /\ Typed
    BY Numbers, PcTyped DEF PcInv
  <2>2. N(Kin, {"write", "unlock"}) <= 1
    BY <2>1 DEF PcInv, Right, Typed
  <2>3. \A c, d \in Kin : at[c] \in {"write", "unlock"} /\ at[d] \in {"write", "unlock"} => c = d
    BY <2>2, OneOf
  <2> QED
    BY <2>3, PcSizes DEF PC!OneWriter
<1> QED
  BY <1>1, PcAlways, PTL

\* None of the posts of pc.c, whose results it ignores, is refused.
THEOREM PostsCount ==
  PC!Spec => []PC!NoPostRefused
<1>1. PcInv => PC!NoPostRefused
  <2> SUFFICES ASSUME PcInv, NEW c \in Kin
               PROVE  /\ at[c] = "unlock" => write < 1
                      /\ at[c] = "post" => IF c \in Prods THEN buffb < MAX_MSG ELSE buffa < MAX_MSG
    BY PcSizes DEF PC!NoPostRefused
  <2>1. /\ N(Prods, {"lock", "write"}) \in Nat /\ N(Prods, {"unlock", "post"}) \in Nat
        /\ N(Conss, {"lock", "write"}) \in Nat /\ N(Conss, {"unlock", "post"}) \in Nat
        /\ N(Kin, {"write", "unlock"}) \in Nat /\ Typed /\ MAX_MSG \in Nat
    BY Numbers, PcTyped, PcSizes DEF PcInv
  <2>2. ASSUME at[c] = "unlock" PROVE write < 1
    <3>1. N(Kin, {"write", "unlock"}) > 0
      BY <2>2, Numbers
    <3> QED
      BY <2>1, <3>1 DEF PcInv, Right, Typed
  <2>3. ASSUME at[c] = "post", c \in Prods PROVE buffb < MAX_MSG
    <3>1. N(Prods, {"unlock", "post"}) > 0
      BY <2>3, Numbers, PcSizes
    <3> QED
      BY <2>1, <3>1 DEF PcInv, Spots, Typed
  <2>4. ASSUME at[c] = "post", c \notin Prods PROVE buffa < MAX_MSG
    <3>1. N(Conss, {"unlock", "post"}) > 0
      BY <2>4, Numbers, PcSizes DEF Kin
    <3> QED
      BY <2>1, <3>1 DEF PcInv, Spots, Typed
  <2> QED
    BY <2>2, <2>3, <2>4
<1> QED
  BY <1>1, PcAlways, PTL

\* When the parent is done every child has been reaped, and if every fork
\* succeeded all messages were printed and consumed.
THEOREM FinishClean ==
  PC!Spec => []PC!CleanFinish
<1>1. PcInv => PC!CleanFinish
  <2> SUFFICES ASSUME PcInv, par = "done"
               PROVE  PC!Kids = {} /\ (PC!Born = Kin => produced = PC!AllMsgs /\ consumed = PC!AllMsgs)
    BY PcSizes DEF PC!CleanFinish
  <2>1. PC!Kids = {}
    BY DEF PcInv, Reaped
  <2>2. ASSUME PC!Born = Kin PROVE produced = PC!AllMsgs /\ consumed = PC!AllMsgs
    <3>1. \A c \in Kin : at[c] = "reaped"
      BY <2>1, <2>2, PcSizes DEF PC!Kids
    <3>2. Typed /\ PC!AllMsgs \in Nat
      BY PcTyped, PcSizes DEF PcInv
    <3>3. Todo = {}
      <4>1. \A c \in Prods : left[c] = 0
        BY <3>1, PcSizes DEF PcInv, Ends
      <4>2. \A x \in Prods \X (1..MsgNumPerProd) : x[1] \in Prods /\ x[2] \in 1..MsgNumPerProd
        OBVIOUS
      <4> QED
        BY <4>1, <4>2, PcSizes DEF Todo
    <3>4. produced = PC!AllMsgs
      BY <3>2, <3>3, FS_EmptySet DEF PcInv, AllCounted, Typed
    <3>5. total = 0
      BY <3>1, PcSizes DEF PcInv, Ends
    <3>6. AtOf(Conss, {"take", "lock", "write"}) = {}
      BY <3>1, PcSizes DEF AtOf
    <3>7. N(Conss, {"take", "lock", "write"}) = 0
      BY <3>6, FS_EmptySet DEF N
    <3>8. consumed = PC!AllMsgs
      BY <3>2, <3>5, <3>7 DEF PcInv, TotalCounted, Typed
    <3> QED
      BY <3>4, <3>8
  <2> QED
    BY <2>1, <2>2
<1> QED
  BY <1>1, PcAlways, PTL

\* The messages pc.c prints pass through a bounded buffer: one is consumed only
\* after it was produced, at most MAX_MSG are ahead, and no more than
\* num_of_prods * msg_num_per_prod are produced.
THEOREM RefinesBuffer ==
  PC!Spec => ImplementsBuffer
<1>1. PC!Init => PC!Buffer!Init
  BY DEF PC!Init, PC!Buffer!Init
<1>2. PcInv /\ PcInv' /\ [PC!Next]_PC!vars => [PC!Buffer!Next]_<<produced, consumed>>
  <2> SUFFICES ASSUME PcInv, PcInv', PC!Next, ~ UNCHANGED <<produced, consumed>>
               PROVE  PC!Buffer!Next
    BY DEF PC!vars, PC!msgVars
  <2>1. PICK c \in Kin : PC!PrintMsg(c)
    <3>1. PICK c \in Kin : PC!Child(c)
      BY PcSizes DEF PC!Next, PC!Terminated, PC!vars, PC!msgVars, PC!Parent, PC!ForkProd, PC!ForkCons,
                     PC!Fork, PC!ForkProdEnd, PC!CloseWaitc, PC!Wait, PC!WaitEnd, PC!Unlink, PC!ParentExit
    <3> QED
      BY <3>1 DEF PC!Child, PC!CloseBarrier, PC!PassBarrier, PC!ProdWait, PC!ConsTry, PC!ConsWait,
                  PC!Lock, PC!Unlock, PC!Post, PC!Exit, PC!msgVars
  <2>2. at[c] = "write"
    BY <2>1 DEF PC!PrintMsg, PC!Step
  <2>3. /\ N(Prods, {"lock", "write"}) \in Nat /\ N(Prods, {"unlock", "post"}) \in Nat
        /\ N(Conss, {"lock", "write"}) \in Nat /\ N(Conss, {"unlock", "post"}) \in Nat
        /\ Typed /\ MAX_MSG \in Nat /\ PC!AllMsgs \in Nat
    BY Numbers, PcTyped, PcSizes DEF PcInv
  <2>4. CASE c \in Prods
    <3>1. produced' = produced + 1 /\ consumed' = consumed
      BY <2>1, <2>4 DEF PC!PrintMsg
    <3>2. N(Prods, {"lock", "write"}) > 0
      BY <2>2, <2>4, Numbers, PcSizes
    <3>3. produced - consumed < MAX_MSG
      BY <2>3, <3>2 DEF PcInv, Spots, Ahead, Typed
    <3>4. produced < PC!AllMsgs
      <4>1. left[c] > 0
        BY <2>2, <2>4 DEF PcInv, Ends
      <4>2. left' = [left EXCEPT ![c] = @ - 1]
        BY <2>1, <2>4 DEF PC!PrintMsg
      <4>3. Cardinality(Todo) > 0 /\ Cardinality(Todo) \in Nat
        BY <2>4, <4>1, <4>2, TodoPrinted, TodoFinite DEF PcInv
      <4> QED
        BY <2>3, <4>3 DEF PcInv, AllCounted, Typed
    <3> QED
      BY <3>1, <3>3, <3>4 DEF PC!Buffer!Next, PC!Buffer!Produce
  <2>5. CASE c \notin Prods
    <3>1. consumed' = consumed + 1 /\ produced' = produced
      BY <2>1, <2>5 DEF PC!PrintMsg
    <3>2. N(Conss, {"lock", "write"}) > 0
      BY <2>2, <2>5, Numbers, PcSizes DEF Kin
    <3>3. consumed < produced
      BY <2>3, <3>2 DEF PcInv, Ahead, Typed
    <3> QED
      BY <3>1, <3>3 DEF PC!Buffer!Next, PC!Buffer!Consume
  <2> QED
    BY <2>4, <2>5
<1> QED
  BY <1>1, <1>2, PcAlways, PTL DEF PC!Spec, ImplementsBuffer, PC!ImplementsBuffer, PC!Buffer!Spec
=============================================================================
