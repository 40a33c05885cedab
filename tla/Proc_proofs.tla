---------------------------- MODULE Proc_proofs ----------------------------
(***************************************************************************)
(* Proofs about modules Proc and ProcQuery, for every number of slots and  *)
(* processors and every choice of the pids passed to kill: nobody is       *)
(* orphaned, pids are unique, no wakeup of wait() is lost, and the query   *)
(* calls answer rightly although they read the table without its lock.     *)
(***************************************************************************)
EXTENDS ProcQuery, TLAPS

\* init is alive, has no parent and is not on its way out.
InitLives ==
  /\ state[initproc] \in Live
  /\ parent[initproc] = 0
  /\ pc[initproc] # "exit"

\* Nobody is his own parent.
NotOwnParent == \A p \in Slots : parent[p] # p

\* An empty slot is nobody's child.
UnusedFree == \A p \in Slots : state[p] = "UNUSED" => parent[p] = 0

\* A live process in fork has an EMBRYO of its own.
ForkOK ==
  \A p \in Slots :
    state[p] \in Live /\ pc[p] \in {"copy", "publish"} =>
      /\ np[p] \in Slots
      /\ state[np[p]] = "EMBRYO"
      /\ parent[np[p]] = IF pc[p] = "publish" THEN p ELSE 0
      /\ \A q \in Slots :
           state[q] \in Live /\ pc[q] \in {"copy", "publish"} /\ np[q] = np[p] => p = q

\* Pids come from nextpid, and a slot keeps one to itself even after a fork
\* that failed.
PidsOK ==
  /\ nextpid > 0
  /\ \A p \in Slots :
       /\ pid[p] < nextpid
       /\ state[p] # "UNUSED" => pid[p] > 0
       /\ \A q \in Slots : pid[p] = pid[q] /\ pid[p] > 0 => p = q

\* The inductive invariant.
IInv ==
  /\ TypeOK /\ InitLives /\ NotOwnParent /\ UnusedFree /\ ForkOK /\ PidsOK
  /\ ParentAlive /\ NoLostWait

\* Slot 1 exists and 0 is no slot.
LEMMA SlotFacts ==
  initproc \in Slots /\ 0 \notin Slots /\ Slots \subseteq 0..NPROC /\ 0 \in 0..NPROC
  BY ProcAssumption DEF Slots, initproc

\* Sched(p) preserves the invariant.
LEMMA SchedInv ==
  ASSUME NEW p \in Slots, IInv, Sched(p)
  PROVE  IInv'
<1> USE SlotFacts DEF IInv, Sched, At, Goto, procVars, Live
<1>1. TypeOK'
  BY DEF TypeOK
<1>2. InitLives'
  BY DEF TypeOK, InitLives, ForkOK
<1>3. NotOwnParent'
  BY DEF TypeOK, InitLives, NotOwnParent, ForkOK
<1>4. UnusedFree'
  BY DEF TypeOK, UnusedFree, ForkOK
<1>5. ForkOK'
  BY DEF TypeOK, UnusedFree, ForkOK
<1>6. PidsOK'
  BY DEF TypeOK, PidsOK, ForkOK
<1>7. ParentAlive'
  BY DEF TypeOK, InitLives, ForkOK, ParentAlive
<1>8. NoLostWait'
  BY DEF TypeOK, InitLives, ForkOK, ParentAlive, NoLostWait, Zombies, Children
<1> QED BY <1>1, <1>2, <1>3, <1>4, <1>5, <1>6, <1>7, <1>8

\* Yield(p) preserves the invariant.
LEMMA YieldInv ==
  ASSUME NEW p \in Slots, IInv, Yield(p)
  PROVE  IInv'
<1> USE SlotFacts DEF IInv, Yield, At, Goto, procVars, Live
<1>1. TypeOK'
  BY DEF TypeOK
<1>2. InitLives'
  BY DEF TypeOK, InitLives, ForkOK
<1>3. NotOwnParent'
  BY DEF TypeOK, InitLives, NotOwnParent, ForkOK
<1>4. UnusedFree'
  BY DEF TypeOK, UnusedFree, ForkOK
<1>5. ForkOK'
  BY DEF TypeOK, UnusedFree, ForkOK
<1>6. PidsOK'
  BY DEF TypeOK, PidsOK, ForkOK
<1>7. ParentAlive'
  BY DEF TypeOK, InitLives, ForkOK, ParentAlive
<1>8. NoLostWait'
  BY DEF TypeOK, InitLives, ForkOK, ParentAlive, NoLostWait, Zombies, Children
<1> QED BY <1>1, <1>2, <1>3, <1>4, <1>5, <1>6, <1>7, <1>8

\* ForkAlloc(p) preserves the invariant.
LEMMA ForkAllocInv ==
  ASSUME NEW p \in Slots, IInv, ForkAlloc(p)
  PROVE  IInv'
<1> USE SlotFacts DEF IInv, ForkAlloc, At, Goto, procVars, Live
<1>1. TypeOK'
  BY DEF TypeOK
<1>2. InitLives'
  BY DEF TypeOK, InitLives, ForkOK
<1>3. NotOwnParent'
  BY DEF TypeOK, InitLives, NotOwnParent, ForkOK
<1>4. UnusedFree'
  BY DEF TypeOK, UnusedFree, ForkOK
<1>5. ForkOK'
  BY DEF TypeOK, UnusedFree, ForkOK
<1>6. PidsOK'
  BY DEF TypeOK, PidsOK, ForkOK
<1>7. ParentAlive'
  BY DEF TypeOK, InitLives, ForkOK, ParentAlive
<1>8. NoLostWait'
  BY DEF TypeOK, InitLives, ForkOK, ParentAlive, NoLostWait, Zombies, Children
<1> QED BY <1>1, <1>2, <1>3, <1>4, <1>5, <1>6, <1>7, <1>8

\* ForkFail(p) preserves the invariant.
LEMMA ForkFailInv ==
  ASSUME NEW p \in Slots, IInv, ForkFail(p)
  PROVE  IInv'
<1> USE SlotFacts DEF IInv, ForkFail, At, Goto, procVars, Live
<1>1. TypeOK'
  BY DEF TypeOK
<1>2. InitLives'
  BY DEF TypeOK, InitLives, ForkOK
<1>3. NotOwnParent'
  BY DEF TypeOK, InitLives, NotOwnParent, ForkOK
<1>4. UnusedFree'
  BY DEF TypeOK, UnusedFree, ForkOK
<1>5. ForkOK'
  BY DEF TypeOK, UnusedFree, ForkOK
<1>6. PidsOK'
  BY DEF TypeOK, PidsOK, ForkOK
<1>7. ParentAlive'
  BY DEF TypeOK, InitLives, ForkOK, ParentAlive
<1>8. NoLostWait'
  BY DEF TypeOK, InitLives, ForkOK, ParentAlive, NoLostWait, Zombies, Children
<1> QED BY <1>1, <1>2, <1>3, <1>4, <1>5, <1>6, <1>7, <1>8

\* ForkParent(p) preserves the invariant.
LEMMA ForkParentInv ==
  ASSUME NEW p \in Slots, IInv, ForkParent(p)
  PROVE  IInv'
<1> USE SlotFacts DEF IInv, ForkParent, At, Goto, procVars, Live
<1>1. TypeOK'
  BY DEF TypeOK
<1>2. InitLives'
  BY DEF TypeOK, InitLives, ForkOK
<1>3. NotOwnParent'
  BY DEF TypeOK, InitLives, NotOwnParent, ForkOK
<1>4. UnusedFree'
  BY DEF TypeOK, UnusedFree, ForkOK
<1>5. ForkOK'
  BY DEF TypeOK, UnusedFree, ForkOK
<1>6. PidsOK'
  BY DEF TypeOK, PidsOK, ForkOK
<1>7. ParentAlive'
  BY DEF TypeOK, InitLives, ForkOK, ParentAlive
<1>8. NoLostWait'
  BY DEF TypeOK, InitLives, ForkOK, ParentAlive, NoLostWait, Zombies, Children
<1> QED BY <1>1, <1>2, <1>3, <1>4, <1>5, <1>6, <1>7, <1>8

\* ForkRun(p) preserves the invariant.
LEMMA ForkRunInv ==
  ASSUME NEW p \in Slots, IInv, ForkRun(p)
  PROVE  IInv'
<1> USE SlotFacts DEF IInv, ForkRun, At, Goto, procVars, Live
<1>1. TypeOK'
  BY DEF TypeOK
<1>2. InitLives'
  BY DEF TypeOK, InitLives, ForkOK
<1>3. NotOwnParent'
  BY DEF TypeOK, InitLives, NotOwnParent, ForkOK
<1>4. UnusedFree'
  BY DEF TypeOK, UnusedFree, ForkOK
<1>5. ForkOK'
  BY DEF TypeOK, UnusedFree, ForkOK
<1>6. PidsOK'
  BY DEF TypeOK, PidsOK, ForkOK
<1>7. ParentAlive'
  BY DEF TypeOK, InitLives, ForkOK, ParentAlive
<1>8. NoLostWait'
  BY DEF TypeOK, InitLives, ForkOK, ParentAlive, NoLostWait, Zombies, Children
<1> QED BY <1>1, <1>2, <1>3, <1>4, <1>5, <1>6, <1>7, <1>8

\* ExitCall(p) preserves the invariant.
LEMMA ExitCallInv ==
  ASSUME NEW p \in Slots, IInv, ExitCall(p)
  PROVE  IInv'
<1> USE SlotFacts DEF IInv, ExitCall, At, Goto, procVars, Live
<1>1. TypeOK'
  BY DEF TypeOK
<1>2. InitLives'
  BY DEF TypeOK, InitLives, ForkOK
<1>3. NotOwnParent'
  BY DEF TypeOK, InitLives, NotOwnParent, ForkOK
<1>4. UnusedFree'
  BY DEF TypeOK, UnusedFree, ForkOK
<1>5. ForkOK'
  BY DEF TypeOK, UnusedFree, ForkOK
<1>6. PidsOK'
  BY DEF TypeOK, PidsOK, ForkOK
<1>7. ParentAlive'
  BY DEF TypeOK, InitLives, ForkOK, ParentAlive
<1>8. NoLostWait'
  BY DEF TypeOK, InitLives, ForkOK, ParentAlive, NoLostWait, Zombies, Children
<1> QED BY <1>1, <1>2, <1>3, <1>4, <1>5, <1>6, <1>7, <1>8

\* ExitZombie(p) preserves the invariant.
LEMMA ExitZombieInv ==
  ASSUME NEW p \in Slots, IInv, ExitZombie(p)
  PROVE  IInv'
<1> USE SlotFacts DEF IInv, ExitZombie, At, Goto, procVars, Live
<1>1. TypeOK'
  BY DEF TypeOK, Zombies, Children
<1>2. InitLives'
  BY DEF TypeOK, InitLives, ForkOK, Zombies, Children
<1>3. NotOwnParent'
  BY DEF TypeOK, InitLives, NotOwnParent, ForkOK, Zombies, Children
<1>4. UnusedFree'
  BY DEF TypeOK, UnusedFree, ForkOK, Zombies, Children
<1>5. ForkOK'
  BY DEF TypeOK, UnusedFree, ForkOK, Zombies, Children
<1>6. PidsOK'
  BY DEF TypeOK, PidsOK, ForkOK, Zombies, Children
<1>7. ParentAlive'
  BY DEF TypeOK, InitLives, ForkOK, ParentAlive, Zombies, Children
<1>8. NoLostWait'
  <2> SUFFICES ASSUME NEW q \in Slots, state'[q] = "SLEEPING"
               PROVE  Zombies(q)' = {} /\ Children(q)' # {} /\ ~killed'[q]
    BY DEF NoLostWait
  <2>1. /\ q # p /\ state[q] = "SLEEPING" /\ q # parent[p]
        /\ q = initproc => Zombies(p) = {}
    BY DEF TypeOK, Zombies, Children
  <2>2. Zombies(q) = {} /\ Children(q) # {} /\ ~killed[q]
    BY <2>1 DEF NoLostWait
  <2>3. Children(q)' # {}
    BY <2>1, <2>2 DEF TypeOK, Children
  <2>4. ASSUME NEW r \in Slots, parent'[r] = q, state'[r] = "ZOMBIE"
        PROVE  FALSE
    <3>1. CASE r = p
      BY <2>1, <2>4, <3>1 DEF TypeOK, NotOwnParent
    <3>2. CASE r # p /\ parent[r] = p
      BY <2>1, <2>4, <3>2 DEF TypeOK, Zombies, Children
    <3>3. CASE r # p /\ parent[r] # p
      BY <2>2, <2>4, <3>3 DEF TypeOK, Zombies, Children
    <3> QED BY <3>1, <3>2, <3>3
  <2> QED BY <2>2, <2>3, <2>4 DEF Zombies, Children
<1> QED BY <1>1, <1>2, <1>3, <1>4, <1>5, <1>6, <1>7, <1>8

\* WaitCall(p) preserves the invariant.
LEMMA WaitCallInv ==
  ASSUME NEW p \in Slots, IInv, WaitCall(p)
  PROVE  IInv'
<1> USE SlotFacts DEF IInv, WaitCall, At, Goto, procVars, Live
<1>1. TypeOK'
  BY DEF TypeOK
<1>2. InitLives'
  BY DEF TypeOK, InitLives, ForkOK
<1>3. NotOwnParent'
  BY DEF TypeOK, InitLives, NotOwnParent, ForkOK
<1>4. UnusedFree'
  BY DEF TypeOK, UnusedFree, ForkOK
<1>5. ForkOK'
  BY DEF TypeOK, UnusedFree, ForkOK
<1>6. PidsOK'
  BY DEF TypeOK, PidsOK, ForkOK
<1>7. ParentAlive'
  BY DEF TypeOK, InitLives, ForkOK, ParentAlive
<1>8. NoLostWait'
  BY DEF TypeOK, InitLives, ForkOK, ParentAlive, NoLostWait, Zombies, Children
<1> QED BY <1>1, <1>2, <1>3, <1>4, <1>5, <1>6, <1>7, <1>8

\* WaitReap(p) preserves the invariant.
LEMMA WaitReapInv ==
  ASSUME NEW p \in Slots, IInv, WaitReap(p)
  PROVE  IInv'
<1> USE SlotFacts DEF IInv, WaitReap, At, Goto, procVars, Live
<1>1. TypeOK'
  BY DEF TypeOK, Zombies, Children
<1>2. InitLives'
  BY DEF TypeOK, InitLives, ForkOK, Zombies, Children
<1>3. NotOwnParent'
  BY DEF TypeOK, InitLives, NotOwnParent, ForkOK, Zombies, Children
<1>4. UnusedFree'
  BY DEF TypeOK, UnusedFree, ForkOK, Zombies, Children
<1>5. ForkOK'
  BY DEF TypeOK, UnusedFree, ForkOK, Zombies, Children
<1>6. PidsOK'
  BY DEF TypeOK, PidsOK, ForkOK, Zombies, Children
<1>7. ParentAlive'
  BY DEF TypeOK, InitLives, ForkOK, ParentAlive, Zombies, Children
<1>8. NoLostWait'
  BY DEF TypeOK, InitLives, ForkOK, ParentAlive, NoLostWait, Zombies, Children
<1> QED BY <1>1, <1>2, <1>3, <1>4, <1>5, <1>6, <1>7, <1>8

\* WaitNone(p) preserves the invariant.
LEMMA WaitNoneInv ==
  ASSUME NEW p \in Slots, IInv, WaitNone(p)
  PROVE  IInv'
<1> USE SlotFacts DEF IInv, WaitNone, At, Goto, procVars, Live
<1>1. TypeOK'
  BY DEF TypeOK
<1>2. InitLives'
  BY DEF TypeOK, InitLives, ForkOK
<1>3. NotOwnParent'
  BY DEF TypeOK, InitLives, NotOwnParent, ForkOK
<1>4. UnusedFree'
  BY DEF TypeOK, UnusedFree, ForkOK
<1>5. ForkOK'
  BY DEF TypeOK, UnusedFree, ForkOK
<1>6. PidsOK'
  BY DEF TypeOK, PidsOK, ForkOK
<1>7. ParentAlive'
  BY DEF TypeOK, InitLives, ForkOK, ParentAlive
<1>8. NoLostWait'
  BY DEF TypeOK, InitLives, ForkOK, ParentAlive, NoLostWait, Zombies, Children
<1> QED BY <1>1, <1>2, <1>3, <1>4, <1>5, <1>6, <1>7, <1>8

\* WaitSleep(p) preserves the invariant.
LEMMA WaitSleepInv ==
  ASSUME NEW p \in Slots, IInv, WaitSleep(p)
  PROVE  IInv'
<1> USE SlotFacts DEF IInv, WaitSleep, At, Goto, procVars, Live
<1>1. TypeOK'
  BY DEF TypeOK
<1>2. InitLives'
  BY DEF TypeOK, InitLives, ForkOK
<1>3. NotOwnParent'
  BY DEF TypeOK, InitLives, NotOwnParent, ForkOK
<1>4. UnusedFree'
  BY DEF TypeOK, UnusedFree, ForkOK
<1>5. ForkOK'
  BY DEF TypeOK, UnusedFree, ForkOK
<1>6. PidsOK'
  BY DEF TypeOK, PidsOK, ForkOK
<1>7. ParentAlive'
  BY DEF TypeOK, InitLives, ForkOK, ParentAlive
<1>8. NoLostWait'
  BY DEF TypeOK, InitLives, ForkOK, ParentAlive, NoLostWait, Zombies, Children
<1> QED BY <1>1, <1>2, <1>3, <1>4, <1>5, <1>6, <1>7, <1>8

\* Kill(p) preserves the invariant.
LEMMA KillInv ==
  ASSUME NEW p \in Slots, IInv, Kill(p)
  PROVE  IInv'
<1> USE SlotFacts DEF IInv, Kill, At, Goto, procVars, Live
<1>1. TypeOK'
  BY DEF TypeOK
<1>2. InitLives'
  BY DEF TypeOK, InitLives, ForkOK
<1>3. NotOwnParent'
  BY DEF TypeOK, InitLives, NotOwnParent, ForkOK
<1>4. UnusedFree'
  BY DEF TypeOK, UnusedFree, ForkOK
<1>5. ForkOK'
  BY DEF TypeOK, UnusedFree, ForkOK
<1>6. PidsOK'
  BY DEF TypeOK, PidsOK, ForkOK
<1>7. ParentAlive'
  BY DEF TypeOK, InitLives, ForkOK, ParentAlive
<1>8. NoLostWait'
  BY DEF TypeOK, InitLives, ForkOK, ParentAlive, NoLostWait, Zombies, Children
<1> QED BY <1>1, <1>2, <1>3, <1>4, <1>5, <1>6, <1>7, <1>8

-----------------------------------------------------------------------------

\* The first state satisfies the invariant.
LEMMA InitInv == Init => IInv
<1> SUFFICES ASSUME Init PROVE IInv
  OBVIOUS
<1> USE SlotFacts, ProcAssumption DEF Init, Live
<1>1. TypeOK
  BY DEF TypeOK
<1>2. InitLives /\ NotOwnParent /\ UnusedFree /\ ForkOK
  BY DEF InitLives, NotOwnParent, UnusedFree, ForkOK
<1>3. PidsOK
  BY DEF PidsOK
<1>4. ParentAlive /\ NoLostWait
  BY DEF ParentAlive, NoLostWait
<1> QED BY <1>1, <1>2, <1>3, <1>4 DEF IInv

\* A step that changes nothing preserves it.
LEMMA StutterInv == IInv /\ UNCHANGED vars => IInv'
  BY DEF IInv, vars, procVars, TypeOK, InitLives, NotOwnParent, UnusedFree, ForkOK,
         PidsOK, ParentAlive, NoLostWait, Zombies, Children

\* Every step preserves it.
LEMMA NextInv == IInv /\ [Next]_vars => IInv'
<1> SUFFICES ASSUME IInv, [Next]_vars PROVE IInv'
  OBVIOUS
<1>1. CASE UNCHANGED vars
  BY <1>1, StutterInv
<1>2. ASSUME NEW p \in Slots, Sched(p) \/ Yield(p)
      PROVE  IInv'
  BY <1>2, SchedInv, YieldInv
<1>3. ASSUME NEW p \in Slots, Kernel(p)
      PROVE  IInv'
  BY <1>3, ForkFailInv, ForkParentInv, ForkRunInv, ExitZombieInv, WaitReapInv,
     WaitNoneInv, WaitSleepInv DEF Kernel
<1>4. ASSUME NEW p \in Slots, User(p)
      PROVE  IInv'
  BY <1>4, ForkAllocInv, ExitCallInv, WaitCallInv, KillInv DEF User
<1> QED BY <1>1, <1>2, <1>3, <1>4 DEF Next

\* The invariant of the process table holds in every state.
THEOREM Invariance == Spec => []IInv
<1> QED BY InitInv, NextInv, PTL DEF Spec

\* Every field of the process table keeps its type.
THEOREM TypeCorrect == Spec => []TypeOK
<1>1. IInv => TypeOK
  BY DEF IInv
<1> QED BY <1>1, Invariance, PTL

\* exit leaves no orphan: the parent of every process and of every zombie is
\* alive.
THEOREM NoOrphans == Spec => []ParentAlive
<1>1. IInv => ParentAlive
  BY DEF IInv
<1> QED BY <1>1, Invariance, PTL

\* allocproc's counter gives no two slots in use the same pid.
THEOREM PidsUnique == Spec => []UniquePids
<1>1. IInv => UniquePids
  BY DEF IInv, TypeOK, PidsOK, UniquePids
<1> QED BY <1>1, Invariance, PTL

\* exit and kill lose no wakeup of a process asleep in wait.
THEOREM WaitWakesUp == Spec => []NoLostWait
<1>1. IInv => NoLostWait
  BY DEF IInv
<1> QED BY <1>1, Invariance, PTL

-----------------------------------------------------------------------------
(* The queries of ProcQuery beside the table                                *)

\* Who is anybody's parent is alive, the parent of an EMBRYO too.
ParentsLive ==
  \A c \in Slots : parent[c] # 0 => parent[c] \in Slots /\ state[parent[c]] \in Live

\* The caller is alive and in no other call; init asks for no parent.
AskerOK ==
  /\ asker = 0 => phase = "none" /\ always = {}
  /\ asker # 0 =>
       /\ asker \in Slots /\ state[asker] \in Live /\ pc[asker] = "user"
       /\ call # "get_proc_data" => asker # initproc

\* The phases of each call.
DataPhases == {"find", "check", "again", "kids", "kid", "data", "error"}
PhaseOK ==
  /\ call \in {"none", "get_proc_data", "getppid", "getpppid"}
  /\ phase \in {"none", "parent", "pid", "answer"} \cup DataPhases
  /\ phase \in DataPhases => call = "get_proc_data" /\ arg > 0
  /\ phase = "parent" => call = "getpppid"
  /\ phase \in {"pid", "answer"} => call \in {"getppid", "getpppid"}
  /\ phase = "check" => idx = 1
  /\ phase = "kid" => idx <= NPROC
  /\ phase = "data" => idx > NPROC

\* The pointer that is followed is that of a process.
CurOK == phase \in {"parent", "pid"} => cur \in Slots

\* What has been true all through the call is true now.
AlwaysNow == always \subseteq Truth(asker, call, arg)

\* getprocbypid has not passed the process asked about ...
SearchOK ==
  phase \in {"find", "again"} /\ always # {} => \A q \in Slots : pid[q] = arg => q >= idx

\* ... and what it found is that process, if this has had a child all along.
FoundOK ==
  phase \in {"check", "kids", "kid"} /\ always # {} => cur \in Slots /\ pid[cur] = arg

\* getchildrenpid has stored each steady child that it has passed.
Stored(n) == \E k \in 1..Len(pids) : pids[k] = n
KidsOK ==
  phase \in {"kids", "kid", "data"} =>
    \A c \in Slots : pid[c] \in always => c >= idx \/ Stored(pid[c])

\* The pointers read lead to the right process, if the answer has been the same
\* all along.
PointerOK ==
  always # {} =>
    /\ phase = "parent" \/ (phase = "pid" /\ call = "getppid") => cur = parent[asker]
    /\ phase = "pid" /\ call = "getpppid" => cur = parent[parent[asker]]

\* get_proc_data says that there is no such process only if there was none, or
\* none with a child, at some time of the call.
ErrorRight == phase = "error" => always = {}

\* The inductive invariant of the table and a query.
QInv ==
  /\ IInv /\ ParentsLive
  /\ QTypeOK /\ AskerOK /\ PhaseOK /\ CurOK /\ AlwaysNow
  /\ SearchOK /\ FoundOK /\ KidsOK /\ PointerOK /\ ErrorRight /\ AncestorRight

\* The table's parts of the invariant, one by one.
LEMMA TableFacts ==
  ASSUME IInv
  PROVE  /\ state \in [Slots -> {"UNUSED", "EMBRYO", "ZOMBIE"} \cup Live]
         /\ pid \in [Slots -> Nat] /\ parent \in [Slots -> 0..NPROC]
         /\ pc \in [Slots -> {"user", "copy", "publish", "exit", "wait"}]
         /\ nextpid \in Nat
         /\ state[initproc] \in Live /\ parent[initproc] = 0
         /\ \A p \in Slots : pid[p] < nextpid
         /\ \A p, q \in Slots : pid[p] = pid[q] /\ pid[p] > 0 => p = q
         /\ \A p \in Slots : state[p] # "UNUSED" => pid[p] > 0
         /\ \A p \in Slots : parent[p] # 0 => state[p] # "UNUSED"
         /\ \A p \in Slots \ {initproc} : state[p] \in Live => parent[p] \in Slots
BY DEF IInv, TypeOK, InitLives, PidsOK, UnusedFree, ParentAlive

\* A step of the table gives no slot a pid that another has had, and a live
\* process keeps its pid and its parent, unless this leaves it to init.
TableMoves ==
  /\ \A q \in Slots : pid'[q] = pid[q] \/ pid'[q] = nextpid \/ pid'[q] = 0
  /\ \A q \in Slots : state[q] \in Live =>
       /\ pid'[q] = pid[q]
       /\ parent'[q] = parent[q] \/ parent'[q] = initproc

\* A caller in user mode stays there as long as it does nothing itself.
Stays(a) == state[a] \in Live /\ pc[a] = "user" => state'[a] \in Live /\ pc'[a] = "user"

\* Every step of the table moves it so.
LEMMA TableStepMoves ==
  ASSUME IInv, NEW p \in Slots, Sched(p) \/ Yield(p) \/ Kernel(p) \/ User(p)
  PROVE  TableMoves
<1> USE SlotFacts, TableFacts DEF TableMoves, procVars, At, Goto, Live
<1>1. CASE Sched(p) \/ Yield(p)
  BY <1>1 DEF Sched, Yield
<1>2. CASE ForkFail(p)
  BY <1>2 DEF ForkFail
<1>3. CASE ForkParent(p)
  BY <1>3 DEF ForkParent, IInv, ForkOK
<1>4. CASE ForkRun(p)
  BY <1>4 DEF ForkRun
<1>5. CASE ExitZombie(p)
  BY <1>5 DEF ExitZombie
<1>6. CASE WaitReap(p)
  BY <1>6 DEF WaitReap, Zombies, Children
<1>7. CASE WaitNone(p) \/ WaitSleep(p)
  BY <1>7 DEF WaitNone, WaitSleep
<1>8. CASE ForkAlloc(p)
  BY <1>8 DEF ForkAlloc
<1>9. CASE ExitCall(p) \/ WaitCall(p)
  BY <1>9 DEF ExitCall, WaitCall
<1>10. CASE Kill(p)
  BY <1>10 DEF Kill
<1> QED BY <1>1, <1>2, <1>3, <1>4, <1>5, <1>6, <1>7, <1>8, <1>9, <1>10 DEF Kernel, User

\* Other processes leave a caller in user mode there.
LEMMA TableStepStays ==
  ASSUME IInv, NEW p \in Slots, NEW a \in Slots,
         Sched(p) \/ Yield(p) \/ Kernel(p) \/ (p # a /\ User(p))
  PROVE  Stays(a)
<1> USE SlotFacts, TableFacts DEF Stays, procVars, At, Goto, Live
<1>1. CASE Sched(p) \/ Yield(p)
  BY <1>1 DEF Sched, Yield
<1>2. CASE ForkFail(p)
  BY <1>2 DEF ForkFail, IInv, ForkOK
<1>3. CASE ForkParent(p)
  BY <1>3 DEF ForkParent, IInv, ForkOK
<1>4. CASE ForkRun(p)
  BY <1>4 DEF ForkRun, IInv, ForkOK
<1>5. CASE ExitZombie(p)
  BY <1>5 DEF ExitZombie
<1>6. CASE WaitReap(p)
  BY <1>6 DEF WaitReap, Zombies, Children
<1>7. CASE WaitNone(p) \/ WaitSleep(p)
  BY <1>7 DEF WaitNone, WaitSleep
<1>8. CASE p # a /\ ForkAlloc(p)
  BY <1>8 DEF ForkAlloc
<1>9. CASE p # a /\ (ExitCall(p) \/ WaitCall(p))
  BY <1>9 DEF ExitCall, WaitCall
<1>10. CASE p # a /\ Kill(p)
  BY <1>10 DEF Kill
<1> QED BY <1>1, <1>2, <1>3, <1>4, <1>5, <1>6, <1>7, <1>8, <1>9, <1>10 DEF Kernel, User

\* Parents stay alive.
LEMMA ParentsLiveInv ==
  ASSUME IInv, ParentsLive, NEW p \in Slots, Sched(p) \/ Yield(p) \/ Kernel(p) \/ User(p)
  PROVE  ParentsLive'
<1> USE SlotFacts, TableFacts DEF ParentsLive, procVars, At, Goto, Live
<1>1. CASE Sched(p) \/ Yield(p)
  BY <1>1 DEF Sched, Yield
<1>2. CASE ForkFail(p)
  BY <1>2 DEF ForkFail, IInv, ForkOK
<1>3. CASE ForkParent(p)
  BY <1>3 DEF ForkParent, IInv, ForkOK
<1>4. CASE ForkRun(p)
  BY <1>4 DEF ForkRun, IInv, ForkOK
<1>5. CASE ExitZombie(p)
  BY <1>5 DEF ExitZombie, IInv, InitLives
<1>6. CASE WaitReap(p)
  BY <1>6 DEF WaitReap, Zombies, Children
<1>7. CASE WaitNone(p) \/ WaitSleep(p)
  BY <1>7 DEF WaitNone, WaitSleep
<1>8. CASE ForkAlloc(p)
  BY <1>8 DEF ForkAlloc
<1>9. CASE ExitCall(p) \/ WaitCall(p)
  BY <1>9 DEF ExitCall, WaitCall
<1>10. CASE Kill(p)
  BY <1>10 DEF Kill
<1> QED BY <1>1, <1>2, <1>3, <1>4, <1>5, <1>6, <1>7, <1>8, <1>9, <1>10 DEF Kernel, User

\* A pid in the answer of get_proc_data is that of a child of the process asked
\* about, which is alive.
LEMMA SteadyChild ==
  ASSUME QInv, phase \in DataPhases, NEW n \in always
  PROVE  \E c \in Slots : /\ pid[c] = n /\ n > 0 /\ n < nextpid
                          /\ parent[c] \in Slots /\ pid[parent[c]] = arg
                          /\ state[parent[c]] \in Live
<1>1. n \in Pids({c \in Slots : parent[c] # 0 /\ pid[parent[c]] = arg})
  <2>1. call = "get_proc_data"
    BY DEF QInv, PhaseOK
  <2>2. n \in Truth(asker, call, arg)
    BY DEF QInv, AlwaysNow
  <2> QED BY <2>1, <2>2 DEF Truth
<1>2. PICK c \in Slots : parent[c] # 0 /\ pid[parent[c]] = arg /\ pid[c] = n
  BY <1>1 DEF Pids
<1> QED BY <1>2, TableFacts DEF QInv, ParentsLive

\* The table goes on: the invariant is kept.
LEMMA TableStepInv ==
  ASSUME QInv, TableStep
  PROVE  QInv'
<1>1. PICK p \in Slots : Sched(p) \/ Yield(p) \/ Kernel(p) \/ (p # asker /\ User(p))
  BY DEF TableStep
<1>2. /\ UNCHANGED <<asker, call, phase, arg, idx, cur, pids, ans>>
      /\ always' \subseteq always /\ always' \subseteq Truth(asker, call, arg)'
  BY DEF TableStep
<1>3. IInv' /\ ParentsLive' /\ TableMoves
  <2>1. IInv'
    BY <1>1, NextInv DEF QInv, Next
  <2> QED BY <1>1, <2>1, ParentsLiveInv, TableStepMoves DEF QInv
<1>4. asker # 0 => Stays(asker)
  BY <1>1, TableStepStays DEF QInv, AskerOK
<1>5. QTypeOK' /\ PhaseOK' /\ AskerOK' /\ CurOK'
  BY <1>2, <1>4 DEF QInv, QTypeOK, PhaseOK, AskerOK, CurOK, Stays
<1>6. AlwaysNow'
  BY <1>2 DEF AlwaysNow
<1>7. ASSUME phase \in DataPhases, always' # {}
      PROVE  /\ arg > 0 /\ arg < nextpid
             /\ \A q \in Slots : pid'[q] = arg => pid[q] = arg
  <2>1. PICK n : n \in always
    BY <1>2, <1>7
  <2>2. arg > 0 /\ arg < nextpid
    BY <1>7, <2>1, SteadyChild, TableFacts DEF QInv, PhaseOK
  <2>3. nextpid \in Nat /\ arg \in Nat
    BY TableFacts DEF QInv, QTypeOK
  <2>4. ASSUME NEW q \in Slots, pid'[q] = arg PROVE pid[q] = arg
    <3>1. pid'[q] = pid[q] \/ pid'[q] = nextpid \/ pid'[q] = 0
      BY <1>3 DEF TableMoves
    <3> QED BY <2>2, <2>3, <2>4, <3>1
  <2> QED BY <2>2, <2>4
<1>8. SearchOK'
  BY <1>2, <1>7 DEF QInv, SearchOK, DataPhases
<1>9. FoundOK'
  <2> SUFFICES ASSUME phase \in {"check", "kids", "kid"}, always' # {}
               PROVE  cur \in Slots /\ pid'[cur] = arg
    BY <1>2 DEF FoundOK
  <2>1. PICK n : n \in always'
    OBVIOUS
  <2>2. phase \in DataPhases /\ call = "get_proc_data"
    BY DEF QInv, PhaseOK, DataPhases
  <2>3. PICK c \in Slots : parent'[c] # 0 /\ pid'[parent'[c]] = arg
    BY <1>2, <2>1, <2>2 DEF Truth, Pids
  <2>4. parent'[c] \in Slots
    BY <1>3, <2>3 DEF ParentsLive
  <2>5. pid[parent'[c]] = arg /\ cur \in Slots /\ pid[cur] = arg /\ arg > 0
    BY <1>2, <1>7, <2>2, <2>3, <2>4 DEF QInv, FoundOK
  <2> QED BY <2>3, <2>4, <2>5, TableFacts DEF QInv
<1>10. KidsOK'
  <2> SUFFICES ASSUME phase \in {"kids", "kid", "data"}, NEW c \in Slots, pid'[c] \in always'
               PROVE  c >= idx \/ Stored(pid'[c])
    BY <1>2 DEF KidsOK, Stored
  <2>1. pid'[c] \in always /\ phase \in DataPhases
    BY <1>2 DEF DataPhases
  <2>2. pid'[c] > 0 /\ pid'[c] < nextpid
    BY <2>1, SteadyChild
  <2>3. pid'[c] = pid[c]
    BY <1>3, <2>2, TableFacts DEF TableMoves, QInv
  <2> QED BY <2>1, <2>3 DEF QInv, KidsOK
<1>11. PointerOK'
  <2> SUFFICES ASSUME NEW n \in always', call \in {"getppid", "getpppid"},
                      phase \in {"parent", "pid"}
               PROVE  /\ phase = "parent" \/ (phase = "pid" /\ call = "getppid") => cur = parent'[asker]
                      /\ phase = "pid" /\ call = "getpppid" => cur = parent'[parent'[asker]]
    BY <1>2 DEF PointerOK, QInv, PhaseOK
  <2>1. asker \in Slots /\ asker # initproc /\ state[asker] \in Live
    BY DEF QInv, AskerOK
  <2>2. parent[asker] \in Slots /\ state[parent[asker]] \in Live /\ parent'[initproc] = 0
    <3>1. parent[asker] \in Slots
      BY <2>1, TableFacts DEF QInv
    <3>2. state[parent[asker]] \in Live
      BY <2>1, <3>1, SlotFacts DEF QInv, ParentsLive
    <3>3. parent'[initproc] = 0
      BY <1>3 DEF IInv, InitLives
    <3> QED BY <3>1, <3>2, <3>3
  <2>3. parent'[asker] \in {parent[asker], initproc}
    BY <1>3, <2>1 DEF TableMoves
  <2>4. parent'[parent[asker]] \in {parent[parent[asker]], initproc}
    BY <1>3, <2>2 DEF TableMoves
  <2>5. n \in Truth(asker, call, arg) /\ n \in Truth(asker, call, arg)' /\ n \in always
    BY <1>2 DEF QInv, AlwaysNow
  <2>6. initproc \in Slots /\ pid'[initproc] = pid[initproc] /\ pid[initproc] > 0
    BY <1>3, SlotFacts, TableFacts DEF TableMoves, QInv, Live
  <2>7. \A q \in Slots : pid[q] = pid[initproc] => q = initproc
    BY <2>6, TableFacts DEF QInv
  <2>8. CASE call = "getppid"
    <3>1. n = pid[parent[asker]] /\ n = pid'[parent'[asker]]
      <4>1. n \in Pids({parent[asker]})
        BY <2>5, <2>8 DEF Truth
      <4>2. n \in {pid'[q] : q \in {parent'[asker]}}
        BY <1>2, <2>5, <2>8 DEF Truth, Pids
      <4> QED BY <4>1, <4>2 DEF Pids
    <3>2. parent'[asker] = parent[asker]
      BY <2>2, <2>3, <2>6, <2>7, <3>1
    <3>3. phase = "pid" => cur = parent[asker]
      BY <2>5, <2>8 DEF QInv, PointerOK
    <3> QED BY <2>8, <3>2, <3>3 DEF QInv, PhaseOK
  <2>9. CASE call = "getpppid"
    <3>1. /\ parent[parent[asker]] # 0 /\ n = pid[parent[parent[asker]]]
          /\ parent'[parent'[asker]] # 0 /\ n = pid'[parent'[parent'[asker]]]
      <4>1. n \in Pids({parent[parent[asker]]} \ {0})
        BY <2>5, <2>9 DEF Truth
      <4>2. n \in {pid'[q] : q \in {parent'[parent'[asker]]} \ {0}}
        BY <1>2, <2>5, <2>9 DEF Truth, Pids
      <4> QED BY <4>1, <4>2 DEF Pids
    <3>2. parent'[asker] = parent[asker]
      BY <2>2, <2>3, <3>1
    <3>3. parent[parent[asker]] \in Slots
      BY <2>2, <3>1 DEF QInv, ParentsLive
    <3>4. parent'[parent'[asker]] = parent[parent[asker]]
      BY <2>4, <2>6, <2>7, <3>1, <3>2, <3>3
    <3> QED BY <2>5, <2>9, <3>2, <3>4 DEF QInv, PointerOK
  <2> QED BY <2>8, <2>9
<1>12. ErrorRight' /\ AncestorRight'
  BY <1>2 DEF QInv, ErrorRight, AncestorRight
<1> QED BY <1>3, <1>5, <1>6, <1>8, <1>9, <1>10, <1>11, <1>12 DEF QInv

\* The table does not move in a step of the query itself.
LEMMA QueryLeavesTable ==
  ASSUME QInv, UNCHANGED vars
  PROVE  IInv' /\ ParentsLive' /\ \A p, what, n : Truth(p, what, n)' = Truth(p, what, n)
<1>1. IInv'
  BY StutterInv DEF QInv
<1>2. ParentsLive'
  BY DEF QInv, ParentsLive, vars, procVars
<1>3. ASSUME NEW p, NEW what, NEW n PROVE Truth(p, what, n)' = Truth(p, what, n)
  BY DEF Truth, Pids, vars, procVars
<1> QED BY <1>1, <1>2, <1>3

\* The slot with the pid asked about is there as long as a child of it is.
LEMMA AskedIs ==
  ASSUME QInv, phase \in DataPhases, always # {}
  PROVE  \E q \in Slots : pid[q] = arg /\ state[q] \in Live
<1>1. PICK n : n \in always
  OBVIOUS
<1> QED BY <1>1, SteadyChild

\* One slot of getprocbypid's scan.
LEMMA ScanInv ==
  ASSUME QInv, NEW ph, NEW found, Scan(ph, found),
         (ph = "find" /\ found = "check") \/ (ph = "again" /\ found = "kids")
  PROVE  QInv'
<1>1. /\ UNCHANGED <<vars, asker, call, arg, always, pids, ans>>
      /\ asker # 0 /\ phase = ph /\ idx <= NPROC
      /\ IF pid[idx] = arg
         THEN phase' = found /\ cur' = idx /\ idx' = 1
         ELSE idx' = idx + 1 /\ UNCHANGED <<phase, cur>>
  BY DEF Scan, Query, Asking
<1>2. IInv' /\ ParentsLive'
  BY <1>1, QueryLeavesTable
<1>3. idx \in Slots /\ idx \in Nat /\ NPROC \in Nat
  BY <1>1, ProcAssumption DEF QInv, QTypeOK, Slots
<1>4. UNCHANGED <<state, pid, parent, pc>>
  BY <1>1 DEF vars, procVars
<1>5. QTypeOK' /\ AskerOK' /\ PhaseOK' /\ CurOK'
  BY <1>1, <1>3, <1>4 DEF QInv, QTypeOK, AskerOK, PhaseOK, CurOK, DataPhases, Slots
<1>6. AlwaysNow'
  BY <1>1, <1>4 DEF QInv, AlwaysNow, Truth, Pids
<1>7. SearchOK'
  <2> SUFFICES ASSUME phase' \in {"find", "again"}, always # {}, NEW q \in Slots, pid[q] = arg
               PROVE  q >= idx'
    BY <1>1, <1>4 DEF SearchOK
  <2>1. pid[idx] # arg /\ idx' = idx + 1
    BY <1>1
  <2>2. q >= idx
    BY <1>1 DEF QInv, SearchOK
  <2> QED BY <1>3, <2>1, <2>2 DEF Slots
<1>8. FoundOK'
  BY <1>1, <1>3, <1>4 DEF FoundOK
<1>9. KidsOK'
  BY <1>1, <1>3, <1>4 DEF KidsOK, Slots
<1>10. PointerOK' /\ ErrorRight' /\ AncestorRight'
  BY <1>1 DEF PointerOK, ErrorRight, AncestorRight
<1> QED BY <1>2, <1>5, <1>6, <1>7, <1>8, <1>9, <1>10 DEF QInv

\* The scans that find nobody, and the test of the state.
LEMMA FindInv ==
  ASSUME QInv, FindFails \/ CheckState \/ FindAgainFails
  PROVE  QInv'
<1>1. /\ UNCHANGED <<vars, asker, call, arg, always, pids, ans>>
      /\ asker # 0
      /\ \/ phase = "find" /\ idx > NPROC /\ phase' = "error" /\ UNCHANGED <<idx, cur>>
         \/ /\ phase = "check" /\ UNCHANGED <<idx, cur>>
            /\ phase' = IF state[cur] = "UNUSED" THEN "error" ELSE "again"
         \/ phase = "again" /\ idx > NPROC /\ phase' = "kids" /\ cur' = 0 /\ idx' = 1
  BY DEF FindFails, CheckState, FindAgainFails, Query, Asking
<1>2. IInv' /\ ParentsLive'
  BY <1>1, QueryLeavesTable
<1>3. idx \in 1..(NPROC + 1) /\ NPROC \in Nat \ {0}
  BY ProcAssumption DEF QInv, QTypeOK
<1>4. UNCHANGED <<state, pid, parent, pc>>
  BY <1>1 DEF vars, procVars
<1>5. QTypeOK' /\ AskerOK' /\ PhaseOK' /\ CurOK'
  BY <1>1, <1>3, <1>4 DEF QInv, QTypeOK, AskerOK, PhaseOK, CurOK, DataPhases
<1>6. AlwaysNow'
  BY <1>1, <1>4 DEF QInv, AlwaysNow, Truth, Pids
<1>7. phase \in DataPhases
  BY <1>1 DEF DataPhases
<1>8. phase \in {"find", "again"} /\ idx > NPROC => always = {}
  <2> SUFFICES ASSUME phase \in {"find", "again"}, idx > NPROC, always # {} PROVE FALSE
    OBVIOUS
  <2>1. PICK q \in Slots : pid[q] = arg
    BY <1>7, AskedIs
  <2>2. q >= idx
    BY <2>1 DEF QInv, SearchOK
  <2> QED BY <1>3, <2>2 DEF Slots
<1>9. phase = "check" /\ state[cur] = "UNUSED" => always = {}
  <2> SUFFICES ASSUME phase = "check", state[cur] = "UNUSED", always # {} PROVE FALSE
    OBVIOUS
  <2>1. PICK q \in Slots : pid[q] = arg /\ state[q] \in Live
    BY <1>7, AskedIs
  <2>2. cur = q
    BY <1>7, <2>1, TableFacts DEF QInv, FoundOK, PhaseOK
  <2> QED BY <2>1, <2>2 DEF Live
<1>10. SearchOK'
  BY <1>1, <1>3, <1>4 DEF QInv, SearchOK, PhaseOK, Slots
<1>11. FoundOK'
  BY <1>1, <1>4, <1>8 DEF FoundOK
<1>12. KidsOK'
  BY <1>1, <1>4 DEF KidsOK, Slots
<1>13. PointerOK' /\ ErrorRight' /\ AncestorRight'
  BY <1>1, <1>8, <1>9 DEF PointerOK, ErrorRight, AncestorRight
<1> QED BY <1>2, <1>5, <1>6, <1>10, <1>11, <1>12, <1>13 DEF QInv

\* getchildrenpid's loop.
LEMMA KidInv ==
  ASSUME QInv, KidTest \/ KidStore \/ KidsEnd
  PROVE  QInv'
<1>1. /\ UNCHANGED <<vars, asker, call, arg, always, ans, cur>>
      /\ asker # 0
      /\ \/ /\ phase = "kids" /\ idx <= NPROC /\ UNCHANGED pids
            /\ IF parent[idx] = cur
               THEN phase' = "kid" /\ UNCHANGED idx
               ELSE idx' = idx + 1 /\ UNCHANGED phase
         \/ phase = "kid" /\ pids' = Append(pids, pid[idx]) /\ idx' = idx + 1 /\ phase' = "kids"
         \/ phase = "kids" /\ idx > NPROC /\ phase' = "data" /\ UNCHANGED <<idx, pids>>
  BY DEF KidTest, KidStore, KidsEnd, Query, Asking
<1>2. IInv' /\ ParentsLive'
  BY <1>1, QueryLeavesTable
<1>3. /\ idx \in 1..(NPROC + 1) /\ NPROC \in Nat \ {0} /\ pids \in Seq(Nat)
      /\ phase = "kid" \/ (phase = "kids" /\ idx <= NPROC) => idx \in Slots /\ pid[idx] \in Nat
  BY ProcAssumption, TableFacts DEF QInv, QTypeOK, PhaseOK, Slots
<1>4. UNCHANGED <<state, pid, parent, pc>>
  BY <1>1 DEF vars, procVars
<1>5. pids' \in Seq(Nat) /\ Len(pids') \in Nat /\ Len(pids) \in Nat
  BY <1>1, <1>3
<1>6. QTypeOK' /\ AskerOK' /\ PhaseOK' /\ CurOK'
  <2>1. QTypeOK'
    BY <1>1, <1>3, <1>5 DEF QInv, QTypeOK, Slots
  <2> QED BY <1>1, <1>4, <2>1, <1>3 DEF QInv, AskerOK, PhaseOK, CurOK, DataPhases
<1>7. AlwaysNow'
  BY <1>1, <1>4 DEF QInv, AlwaysNow, Truth, Pids
<1> DEFINE StoredNext(n) == \E k \in 1..Len(pids') : pids'[k] = n
<1>8. \A n : Stored(n) => StoredNext(n)
  <2>1. CASE UNCHANGED pids
    BY <2>1 DEF Stored
  <2>2. CASE phase = "kid" /\ pids' = Append(pids, pid[idx])
    <3>1. Len(pids') = Len(pids) + 1 /\ \A k \in 1..Len(pids) : pids'[k] = pids[k]
      BY <1>3, <2>2
    <3> QED BY <1>5, <3>1 DEF Stored
  <2> QED BY <1>1, <2>1, <2>2
<1>9. phase = "kid" => StoredNext(pid[idx])
  <2> SUFFICES ASSUME phase = "kid" PROVE StoredNext(pid[idx])
    OBVIOUS
  <2>1. Len(pids') = Len(pids) + 1 /\ pids'[Len(pids) + 1] = pid[idx]
    BY <1>1, <1>3
  <2> QED BY <1>5, <2>1
<1> HIDE DEF StoredNext
<1>10. phase = "kids" /\ idx \in Slots /\ pid[idx] \in always => parent[idx] = cur
  <2> SUFFICES ASSUME phase = "kids", idx \in Slots, pid[idx] \in always
               PROVE  parent[idx] = cur
    OBVIOUS
  <2>1. PICK c \in Slots : pid[c] = pid[idx] /\ pid[idx] > 0 /\ parent[c] \in Slots /\ pid[parent[c]] = arg
    BY SteadyChild DEF DataPhases
  <2>2. c = idx
    BY <2>1, TableFacts DEF QInv
  <2>3. cur \in Slots /\ pid[cur] = arg /\ arg > 0
    BY DEF QInv, FoundOK, PhaseOK, DataPhases
  <2> QED BY <2>1, <2>2, <2>3, TableFacts DEF QInv
<1>11. KidsOK'
  <2> SUFFICES ASSUME NEW c \in Slots, pid[c] \in always
               PROVE  c >= idx' \/ StoredNext(pid[c])
    BY <1>1, <1>4 DEF KidsOK, Stored, StoredNext
  <2>1. c >= idx \/ Stored(pid[c])
    BY <1>1 DEF QInv, KidsOK
  <2>2. c = idx => idx' = idx \/ StoredNext(pid[c])
    BY <1>1, <1>9, <1>10
  <2>3. idx' = idx \/ idx' = idx + 1
    BY <1>1
  <2>4. CASE Stored(pid[c])
    BY <2>4, <1>8
  <2>5. CASE c > idx \/ c = idx
    BY <2>2, <2>3, <2>5, <1>3 DEF Slots
  <2> QED BY <2>1, <2>4, <2>5, <1>3 DEF Slots
<1>12. SearchOK' /\ FoundOK'
  BY <1>1, <1>4 DEF QInv, SearchOK, FoundOK
<1>13. PointerOK' /\ ErrorRight' /\ AncestorRight'
  BY <1>1 DEF PointerOK, ErrorRight, AncestorRight
<1> QED BY <1>2, <1>6, <1>7, <1>11, <1>12, <1>13 DEF QInv

\* getppid and getpppid follow their pointers.
LEMMA PointerInv ==
  ASSUME QInv, ReadGrandparent \/ ReadPid
  PROVE  QInv'
<1>1. /\ UNCHANGED <<vars, asker, call, arg, always, idx, pids>>
      /\ asker # 0
      /\ \/ /\ phase = "parent"
            /\ IF parent[cur] = 0
               THEN phase' = "answer" /\ ans' = -1 /\ UNCHANGED cur
               ELSE phase' = "pid" /\ cur' = parent[cur] /\ UNCHANGED ans
         \/ phase = "pid" /\ ans' = pid[cur] /\ phase' = "answer" /\ UNCHANGED cur
  BY DEF ReadGrandparent, ReadPid, Query, Asking
<1>2. IInv' /\ ParentsLive'
  BY <1>1, QueryLeavesTable
<1>3. UNCHANGED <<state, pid, parent, pc>>
  BY <1>1 DEF vars, procVars
<1>4. cur \in Slots
  BY <1>1 DEF QInv, PhaseOK, CurOK
<1>5. QTypeOK' /\ AskerOK' /\ PhaseOK' /\ CurOK'
  <2>1. pid[cur] \in Nat /\ parent[cur] \in 0..NPROC /\ (parent[cur] # 0 => parent[cur] \in Slots)
    BY <1>4, TableFacts DEF QInv, ParentsLive
  <2>2. ans' \in Nat \cup {-1} /\ cur' \in 0..NPROC
    BY <1>1, <2>1 DEF QInv, QTypeOK
  <2>3. QTypeOK'
    BY <1>1, <2>2 DEF QInv, QTypeOK
  <2>4. AskerOK'
    BY <1>1, <1>3 DEF QInv, AskerOK
  <2>5. PhaseOK'
    BY <1>1 DEF QInv, PhaseOK, DataPhases
  <2>6. CurOK'
    BY <1>1, <1>4, <2>1 DEF CurOK
  <2> QED BY <2>3, <2>4, <2>5, <2>6
<1>6. AlwaysNow'
  BY <1>1, <1>3 DEF QInv, AlwaysNow, Truth, Pids
<1>7. PointerOK'
  BY <1>1, <1>3 DEF QInv, PointerOK, PhaseOK
<1>8. AncestorRight'
  <2> SUFFICES ASSUME phase' = "answer", NEW n \in always PROVE ans' = n
    BY <1>1 DEF AncestorRight
  <2>1. n \in Truth(asker, call, arg)
    BY DEF QInv, AlwaysNow
  <2>2. CASE phase = "parent"
    <3>1. call = "getpppid" /\ cur = parent[asker] /\ parent[cur] = 0
      BY <1>1, <2>2 DEF QInv, PhaseOK, PointerOK
    <3> QED BY <2>1, <3>1 DEF Truth, Pids
  <2>3. CASE phase = "pid" /\ call = "getppid"
    <3>1. cur = parent[asker] /\ ans' = pid[cur]
      BY <1>1, <2>3 DEF QInv, PointerOK
    <3> QED BY <2>1, <2>3, <3>1 DEF Truth, Pids
  <2>4. CASE phase = "pid" /\ call = "getpppid"
    <3>1. cur = parent[parent[asker]] /\ ans' = pid[cur]
      BY <1>1, <2>4 DEF QInv, PointerOK
    <3> QED BY <2>1, <2>4, <3>1 DEF Truth, Pids
  <2> QED BY <1>1, <2>2, <2>3, <2>4 DEF QInv, PhaseOK
<1>9. SearchOK' /\ FoundOK' /\ KidsOK' /\ ErrorRight'
  BY <1>1 DEF SearchOK, FoundOK, KidsOK, ErrorRight
<1> QED BY <1>2, <1>5, <1>6, <1>7, <1>8, <1>9 DEF QInv

\* A call begins ...
LEMMA CallInv ==
  ASSUME QInv, NEW p \in Slots, GetProcData(p) \/ GetPpid(p) \/ GetPppid(p)
  PROVE  QInv'
<1>1. /\ UNCHANGED vars /\ UNCHANGED <<pids, ans>>
      /\ asker' = p /\ state[p] = "RUNNING" /\ pc[p] = "user"
      /\ \/ /\ call' = "get_proc_data" /\ phase' = "find" /\ idx' = 1 /\ arg' \in 1..MaxPid
            /\ UNCHANGED cur /\ always' = Truth(p, "get_proc_data", arg')
         \/ /\ call' = "getppid" /\ phase' = "pid" /\ cur' = parent[p] /\ p # initproc
            /\ UNCHANGED <<arg, idx>> /\ always' = Truth(p, "getppid", 0)
         \/ /\ call' = "getpppid" /\ phase' = "parent" /\ cur' = parent[p] /\ p # initproc
            /\ UNCHANGED <<arg, idx>> /\ always' = Truth(p, "getpppid", 0)
  BY DEF GetProcData, GetPpid, GetPppid, ReadParent, At
<1>2. IInv' /\ ParentsLive'
  BY <1>1, QueryLeavesTable
<1>3. UNCHANGED <<state, pid, parent, pc>>
  BY <1>1 DEF vars, procVars
<1>4. p \in 1..NPROC /\ p # 0 /\ parent[p] \in 0..NPROC /\ (p # initproc => parent[p] \in Slots)
  BY <1>1, TableFacts, ProcAssumption DEF QInv, Slots, Live
<1>5. always' = Truth(asker, call, arg)'
  BY <1>1, <1>3 DEF Truth, Pids
<1>6. always' \subseteq Nat
  <2>1. \A S \in SUBSET Slots : Pids(S) \subseteq Nat
    BY TableFacts DEF QInv, Pids
  <2>2. p # initproc => {parent[p]} \in SUBSET Slots /\ {parent[parent[p]]} \ {0} \in SUBSET Slots
    BY <1>4, TableFacts, SlotFacts DEF QInv, Slots
  <2>3. \A n : {c \in Slots : parent[c] # 0 /\ pid[parent[c]] = n} \in SUBSET Slots
    OBVIOUS
  <2> QED BY <1>1, <2>1, <2>2, <2>3 DEF Truth
<1>7. QTypeOK' /\ AskerOK' /\ PhaseOK' /\ CurOK'
  BY <1>1, <1>3, <1>4, <1>6, ProcAssumption DEF QInv, QTypeOK, AskerOK, PhaseOK, CurOK, DataPhases, Slots, Live
<1>8. AlwaysNow'
  BY <1>5 DEF AlwaysNow
<1>9. SearchOK'
  BY <1>1 DEF SearchOK, Slots
<1>10. PointerOK'
  BY <1>1, <1>3 DEF PointerOK
<1>11. FoundOK' /\ KidsOK' /\ ErrorRight' /\ AncestorRight'
  BY <1>1 DEF FoundOK, KidsOK, ErrorRight, AncestorRight
<1> QED BY <1>2, <1>7, <1>8, <1>9, <1>10, <1>11 DEF QInv

\* ... and returns.
LEMMA ReturnInv ==
  ASSUME QInv, Return
  PROVE  QInv'
<1>1. /\ UNCHANGED vars
      /\ asker' = 0 /\ call' = "none" /\ phase' = "none" /\ arg' = 0 /\ idx' = 1 /\ cur' = 0
      /\ pids' = <<>> /\ ans' = 0 /\ always' = {}
  BY DEF Return
<1>2. IInv' /\ ParentsLive'
  BY <1>1, QueryLeavesTable
<1>3. QTypeOK' /\ AskerOK' /\ PhaseOK' /\ CurOK'
  BY <1>1, ProcAssumption DEF QTypeOK, AskerOK, PhaseOK, CurOK, DataPhases
<1>4. AlwaysNow' /\ SearchOK' /\ FoundOK' /\ KidsOK' /\ PointerOK' /\ ErrorRight' /\ AncestorRight'
  BY <1>1 DEF AlwaysNow, SearchOK, FoundOK, KidsOK, PointerOK, ErrorRight, AncestorRight
<1> QED BY <1>2, <1>3, <1>4 DEF QInv

\* Before any call.
LEMMA QInitInv == QInit => QInv
<1> SUFFICES ASSUME QInit PROVE QInv
  OBVIOUS
<1>1. IInv
  BY InitInv DEF QInit
<1>2. ParentsLive
  BY DEF QInit, Init, ParentsLive
<1>3. QTypeOK /\ AskerOK /\ PhaseOK /\ CurOK
  BY ProcAssumption DEF QInit, QTypeOK, AskerOK, PhaseOK, CurOK, DataPhases
<1>4. AlwaysNow /\ SearchOK /\ FoundOK /\ KidsOK /\ PointerOK /\ ErrorRight /\ AncestorRight
  BY DEF QInit, AlwaysNow, SearchOK, FoundOK, KidsOK, PointerOK, ErrorRight, AncestorRight
<1> QED BY <1>1, <1>2, <1>3, <1>4 DEF QInv

\* A step of neither.
LEMMA QStutterInv == QInv /\ UNCHANGED allVars => QInv'
<1> SUFFICES ASSUME QInv, UNCHANGED allVars PROVE QInv'
  OBVIOUS
<1>1. UNCHANGED vars /\ UNCHANGED <<asker, call, phase, arg, idx, cur, pids, ans, always>>
  BY DEF allVars, qVars
<1>2. IInv' /\ ParentsLive'
  BY <1>1, QueryLeavesTable
<1>3. UNCHANGED <<state, pid, parent, pc>>
  BY <1>1 DEF vars, procVars
<1>4. QTypeOK' /\ AskerOK' /\ PhaseOK' /\ CurOK'
  BY <1>1, <1>3 DEF QInv, QTypeOK, AskerOK, PhaseOK, CurOK
<1>5. AlwaysNow'
  BY <1>1, <1>3 DEF QInv, AlwaysNow, Truth, Pids
<1>6. SearchOK' /\ FoundOK' /\ KidsOK' /\ PointerOK' /\ ErrorRight' /\ AncestorRight'
  BY <1>1, <1>3 DEF QInv, SearchOK, FoundOK, KidsOK, Stored, PointerOK, ErrorRight, AncestorRight
<1> QED BY <1>2, <1>4, <1>5, <1>6 DEF QInv

\* Every step of the table and of a query keeps the invariant.
LEMMA QNextInv == QInv /\ [QNext]_allVars => QInv'
<1> SUFFICES ASSUME QInv, [QNext]_allVars PROVE QInv'
  OBVIOUS
<1>1. CASE TableStep
  BY <1>1, TableStepInv
<1>2. CASE QueryStep
  <2>1. CASE FindProc \/ FindAgain
    BY <2>1, ScanInv DEF FindProc, FindAgain
  <2> QED BY <1>2, <2>1, FindInv, KidInv, PointerInv, ReturnInv DEF QueryStep
<1>3. ASSUME NEW p \in Slots, GetProcData(p) \/ GetPpid(p) \/ GetPppid(p)
      PROVE  QInv'
  BY <1>3, CallInv
<1>4. CASE UNCHANGED allVars
  BY <1>4, QStutterInv
<1> QED BY <1>1, <1>2, <1>3, <1>4 DEF QNext

\* The invariant of the table with one caller of the queries.
THEOREM QueryInvariance == QSpec => []QInv
<1> QED BY QInitInv, QNextInv, PTL DEF QSpec

\* get_proc_data leaves out no process that was a child of the one asked about
\* all through the call.
THEOREM ChildrenComplete == QSpec => []QueryComplete
<1>1. QInv => QueryComplete
  <2> SUFFICES ASSUME QInv, phase = "data", NEW n \in always
               PROVE  \E k \in 1..Len(pids) : pids[k] = n
    BY DEF QueryComplete
  <2>1. PICK c \in Slots : pid[c] = n
    BY SteadyChild DEF DataPhases
  <2>2. c >= idx \/ Stored(n)
    BY <2>1 DEF QInv, KidsOK
  <2>3. idx > NPROC /\ idx \in Nat /\ NPROC \in Nat
    BY ProcAssumption DEF QInv, PhaseOK, QTypeOK
  <2> QED BY <2>1, <2>2, <2>3 DEF Stored, Slots
<1> QED BY <1>1, QueryInvariance, PTL

\* getppid and getpppid name the right ancestor, unless it changed meanwhile.
THEOREM AncestorsRight == QSpec => []AncestorRight
<1>1. QInv => AncestorRight
  BY DEF QInv
<1> QED BY <1>1, QueryInvariance, PTL

\* get_proc_data returns -1 for no process that had a child all through the call.
THEOREM ErrorsRight == QSpec => []ErrorRight
<1>1. QInv => ErrorRight
  BY DEF QInv
<1> QED BY <1>1, QueryInvariance, PTL
=============================================================================
