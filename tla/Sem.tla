-------------------------------- MODULE Sem --------------------------------
(***************************************************************************)
(* The named kernel semaphores of ex3 (sem.c, syssem.c) with the parts of  *)
(* proc.c they stand on: sleep/wakeup, kill, and the descriptor table      *)
(* osem[] that fork copies and exit closes.                                *)
(*                                                                         *)
(* Grain.  A section between acquire and release is one step when nothing  *)
(* but the lock's own data decides it.  sem_wait and sem_unlink test       *)
(* p->killed, which kill() writes under ptable.lock only, and then sleep;  *)
(* there the lock is a variable, held across two steps.  Data private to   *)
(* the running process (its osem row, its locals) is read and written in   *)
(* the neighbouring step.  Calls that fail without changing any state (an  *)
(* illegal descriptor, sem_post at maxVal, a refused sem_reset) are not    *)
(* steps.                                                                  *)
(***************************************************************************)
EXTENDS Integers, FiniteSets

CONSTANTS
  Procs,        \* the pids that may come to exist
  Root,         \* the process that exists at the start
  Nobody,       \* "no process": a free lock, a slot never owned
  NSEM,         \* slots of the system-wide table stable.sem
  NOSEM,        \* semaphore descriptors of a process
  Names,        \* the names programs pass
  NoName,       \* the name of a slot never used
  Spelled,      \* what the name bytes of a slot read as, see OpenSet
  InitVals,     \* sem_open's init and
  MaxVals,      \*   maxVal arguments
  ResetVals,    \* sem_reset's newVal and
  ResetMaxes,   \*   newMaxVal arguments
  Discipline,   \* how programs use sem_open, see MayOpen
  RefCap,       \* bound: sem_open is not explored beyond this ref
  CountCap      \* bound: sem_post is not explored beyond this count

ASSUME ProcsAssumption ==
  /\ Root \in Procs
  /\ Nobody \notin Procs
  /\ IsFiniteSet(Procs)

ASSUME SizesAssumption ==
  /\ NSEM \in Nat \ {0}
  /\ NOSEM \in Nat \ {0}
  /\ RefCap \in Nat
  /\ CountCap \in Nat
  /\ Discipline \in {"pc", "late", "free"}

ASSUME NamesAssumption ==
  /\ NoName \notin Names
  /\ DOMAIN Spelled = Names
  /\ \A n \in Names : DOMAIN Spelled[n] = Procs
  /\ InitVals \subseteq Int
  /\ MaxVals \subseteq Int
  /\ ResetVals \subseteq Int
  /\ ResetMaxes \subseteq Int

Slots == 1..NSEM
Descs == 0..(NOSEM - 1)

NoSlot == 0     \* the null struct sem pointer
Table  == 0     \* the sleep channel &stable, which is also &stable.gslock

VARIABLES
  \* struct sem, one function per field
  name, owner_pid, count, ref, maxVal, linked, waitingForDeath,
  \* holders of stable.gslock and of each sslock
  gslock, sslock,
  \* struct proc: state ("RUNNABLE" stands for RUNNING too), killed, osem[]
  state, killed, osem,
  \* the kernel stack: where the process is, the slot it works on,
  \* the call's arguments, the child fork is building
  pc, cur, args, np,
  \* panic() was called
  panicked

semVars  == <<name, owner_pid, count, ref, maxVal, linked, waitingForDeath>>
lockVars == <<gslock, sslock>>
procVars == <<state, killed, osem>>
stackVars == <<pc, cur, args, np>>
vars == <<semVars, lockVars, procVars, stackVars, panicked>>

NoArgs == [name |-> NoName, val |-> 0, max |-> 0]

Init ==
  /\ name = [s \in Slots |-> NoName]
  /\ owner_pid = [s \in Slots |-> Nobody]
  /\ count = [s \in Slots |-> 0]
  /\ ref = [s \in Slots |-> 0]
  /\ maxVal = [s \in Slots |-> 0]
  /\ linked = [s \in Slots |-> FALSE]
  /\ waitingForDeath = [s \in Slots |-> FALSE]
  /\ gslock = Nobody
  /\ sslock = [s \in Slots |-> Nobody]
  /\ state = [p \in Procs |-> IF p = Root THEN "RUNNABLE" ELSE "UNUSED"]
  /\ killed = [p \in Procs |-> FALSE]
  /\ osem = [p \in Procs |-> [d \in Descs |-> NoSlot]]
  /\ pc = [p \in Procs |-> "user"]
  /\ cur = [p \in Procs |-> NoSlot]
  /\ args = [p \in Procs |-> NoArgs]
  /\ np = [p \in Procs |-> Nobody]
  /\ panicked = FALSE

-----------------------------------------------------------------------------
(* Helpers *)

\* The element a scan of a table in index order meets first.
IsFirst(x, S) == x \in S /\ \A y \in S : x <= y

\* A process can take steps; after a panic nobody does.
Running(p) == state[p] = "RUNNABLE" /\ ~panicked

\* p enters the kernel with a system call; trap() lets a killed process in
\* only to make it exit.
Syscall(p) == Running(p) /\ pc[p] = "user" /\ ~killed[p]

\* argsd: the semaphores p has a descriptor for.
OpenSlots(p) == {osem[p][d] : d \in Descs} \ {NoSlot}

At(p, label) == Running(p) /\ pc[p] = label

Goto(p, label) == pc' = [pc EXCEPT ![p] = label]

\* Back to user space, the locals of the call gone.
Return(p) ==
  /\ Goto(p, "user")
  /\ cur' = [cur EXCEPT ![p] = NoSlot]
  /\ args' = [args EXCEPT ![p] = NoArgs]
  /\ UNCHANGED np

\* The channel a sleeping process waits on: sem_wait sleeps on the
\* semaphore, sem_unlink on the table.
Chan(p) == IF pc[p] = "wait" THEN cur[p] ELSE Table

\* wakeup1: everybody sleeping on the channel.
Wakeup(chan) ==
  state' = [q \in Procs |->
              IF state[q] = "SLEEPING" /\ Chan(q) = chan
              THEN "RUNNABLE" ELSE state[q]]

\* How programs use sem_open.  "pc" is what pc.c does: one process opens all
\* the semaphores before it forks, never more than it has descriptors for.
\* "late" lets it open after forking too, "free" lets everybody open anytime.
MayOpen(p) ==
  /\ Discipline # "free" =>
       p = Root /\ \E d \in Descs : osem[p][d] = NoSlot
  /\ Discipline = "pc" =>
       \A q \in Procs \ {p} : state[q] = "UNUSED"

-----------------------------------------------------------------------------
(* sem_open *)

\* The tail of sys_sem_open: the first free descriptor, or none.
GiveDescriptor(p, s) ==
  \/ \E d \in Descs :
       /\ IsFirst(d, {e \in Descs : osem[p][e] = NoSlot})
       /\ osem' = [osem EXCEPT ![p][d] = s]
  \/ /\ \A e \in Descs : osem[p][e] # NoSlot
     /\ UNCHANGED osem

\* First section, the name is open already: one more reference to it.
OpenFound(p, n) ==
  /\ Syscall(p) /\ MayOpen(p) /\ gslock = Nobody
  /\ \E s \in Slots :
       /\ IsFirst(s, {t \in Slots : ref[t] > 0 /\ name[t] = n})
       /\ ref[s] < RefCap
       /\ ref' = [ref EXCEPT ![s] = @ + 1]
       /\ GiveDescriptor(p, s)
  /\ UNCHANGED <<name, owner_pid, count, maxVal, linked, waitingForDeath,
                 lockVars, state, killed, stackVars, panicked>>

\* Mutant: the name is not looked up.
OpenScan_NoMatch(p, n, init, max) ==
  /\ Syscall(p) /\ MayOpen(p) /\ gslock = Nobody
  /\ \E spot \in Slots :
       /\ IsFirst(spot, {t \in Slots : ~linked[t]})
       /\ cur' = [cur EXCEPT ![p] = spot]
  /\ args' = [args EXCEPT ![p] = [name |-> n, val |-> init, max |-> max]]
  /\ Goto(p, "open_initlock")
  /\ UNCHANGED <<semVars, lockVars, procVars, np, panicked>>

\* First section, the name is not open: remember the first slot not linked.
OpenScan(p, n, init, max) ==
  /\ Syscall(p) /\ MayOpen(p) /\ gslock = Nobody
  /\ \A t \in Slots : ~(ref[t] > 0 /\ name[t] = n)
  /\ \E spot \in Slots :
       /\ IsFirst(spot, {t \in Slots : ~linked[t]})
       /\ cur' = [cur EXCEPT ![p] = spot]
  /\ args' = [args EXCEPT ![p] = [name |-> n, val |-> init, max |-> max]]
  /\ Goto(p, "open_initlock")
  /\ UNCHANGED <<semVars, lockVars, procVars, np, panicked>>

\* initlock(&spot->sslock), with no lock held.
OpenInitlock(p) ==
  /\ At(p, "open_initlock")
  /\ sslock' = [sslock EXCEPT ![cur[p]] = Nobody]
  /\ Goto(p, "open_set")
  /\ UNCHANGED <<semVars, gslock, procVars, cur, args, np, panicked>>

\* Second section: the slot becomes the new semaphore.  safestrcpy writes up
\* to SEMNAME bytes into name[6] and owner_pid is stored after it, over the
\* bytes from the ninth on: Spelled[n][p] is the name the slot then matches
\* in strncmp, n itself when n has at most seven characters.
OpenSet(p) ==
  LET s == cur[p] IN
  /\ At(p, "open_set") /\ gslock = Nobody
  /\ name' = [name EXCEPT ![s] = Spelled[args[p].name][p]]
  /\ linked' = [linked EXCEPT ![s] = TRUE]
  /\ ref' = [ref EXCEPT ![s] = 1]
  /\ count' = [count EXCEPT ![s] = args[p].val]
  /\ maxVal' = [maxVal EXCEPT ![s] = args[p].max]
  /\ owner_pid' = [owner_pid EXCEPT ![s] = p]
  /\ waitingForDeath' = [waitingForDeath EXCEPT ![s] = FALSE]
  /\ GiveDescriptor(p, s)
  /\ Return(p)
  /\ UNCHANGED <<lockVars, state, killed, panicked>>

-----------------------------------------------------------------------------
(* sem_close, sem_wait, sem_try_wait, sem_post, sem_reset *)

\* Mutants: the descriptor is not cleared; the wakeup uses the wrong channel.
CloseDescriptor_Keeps(p, d) ==
  LET s == osem[p][d] IN
  /\ gslock = Nobody
  /\ ref' = [ref EXCEPT ![s] = @ - 1]
  /\ IF ref[s] = 1 /\ waitingForDeath[s] THEN Wakeup(Table) ELSE UNCHANGED state
  /\ UNCHANGED osem

CloseDescriptor_WrongChannel(p, d) ==
  LET s == osem[p][d] IN
  /\ gslock = Nobody
  /\ osem' = [osem EXCEPT ![p][d] = NoSlot]
  /\ ref' = [ref EXCEPT ![s] = @ - 1]
  /\ IF ref[s] = 1 /\ waitingForDeath[s] THEN Wakeup(s) ELSE UNCHANGED state

\* sem_close(s) for the descriptor d of p, which is cleared.
CloseDescriptor(p, d) ==
  LET s == osem[p][d] IN
  /\ gslock = Nobody
  /\ osem' = [osem EXCEPT ![p][d] = NoSlot]
  /\ ref' = [ref EXCEPT ![s] = @ - 1]
  /\ IF ref[s] = 1 /\ waitingForDeath[s] THEN Wakeup(Table) ELSE UNCHANGED state

Close(p, d) ==
  /\ Syscall(p) /\ osem[p][d] # NoSlot
  /\ CloseDescriptor(p, d)
  /\ UNCHANGED <<name, owner_pid, count, maxVal, linked, waitingForDeath,
                 lockVars, killed, stackVars, panicked>>

\* p calls sem_wait(s), or goes round its loop after a sleep.
InWait(p, s) ==
  \/ Syscall(p) /\ s \in OpenSlots(p)
  \/ At(p, "wait") /\ cur[p] = s

\* A unit is available: take it.
WaitTake(p, s) ==
  /\ InWait(p, s) /\ sslock[s] = Nobody /\ count[s] > 0
  /\ count' = [count EXCEPT ![s] = @ - 1]
  /\ Return(p)
  /\ UNCHANGED <<name, owner_pid, ref, maxVal, linked, waitingForDeath,
                 lockVars, procVars, panicked>>

\* None is, and the process has been killed meanwhile: give up.
WaitKilled(p, s) ==
  /\ InWait(p, s) /\ sslock[s] = Nobody /\ count[s] <= 0 /\ killed[p]
  /\ Return(p)
  /\ UNCHANGED <<semVars, lockVars, procVars, panicked>>

\* None is, not killed: decided to sleep, sslock still held.
WaitBlock(p, s) ==
  /\ InWait(p, s) /\ sslock[s] = Nobody /\ count[s] <= 0 /\ ~killed[p]
  /\ sslock' = [sslock EXCEPT ![s] = p]
  /\ cur' = [cur EXCEPT ![p] = s]
  /\ Goto(p, "wait_sleep")
  /\ UNCHANGED <<semVars, gslock, procVars, args, np, panicked>>

\* sleep(s, &s->sslock): marked SLEEPING and the lock released, both under
\* ptable.lock.  release() panics when the lock is no longer p's.
WaitSleep(p) ==
  LET s == cur[p] IN
  /\ At(p, "wait_sleep")
  /\ IF sslock[s] = p
     THEN /\ state' = [state EXCEPT ![p] = "SLEEPING"]
          /\ sslock' = [sslock EXCEPT ![s] = Nobody]
          /\ Goto(p, "wait")
          /\ UNCHANGED panicked
     ELSE panicked' = TRUE /\ UNCHANGED <<state, sslock, pc>>
  /\ UNCHANGED <<semVars, gslock, killed, osem, cur, args, np>>

TryWait(p, s) ==
  /\ Syscall(p) /\ s \in OpenSlots(p) /\ sslock[s] = Nobody /\ count[s] > 0
  /\ count' = [count EXCEPT ![s] = @ - 1]
  /\ UNCHANGED <<name, owner_pid, ref, maxVal, linked, waitingForDeath,
                 lockVars, procVars, stackVars, panicked>>

\* Mutant: the wake test is made before the increment.
Post_OffByOne(p, s) ==
  /\ Syscall(p) /\ s \in OpenSlots(p) /\ sslock[s] = Nobody
  /\ count[s] # maxVal[s] /\ count[s] < CountCap
  /\ count' = [count EXCEPT ![s] = @ + 1]
  /\ IF count[s] = 1 THEN Wakeup(s) ELSE UNCHANGED state
  /\ UNCHANGED <<name, owner_pid, ref, maxVal, linked, waitingForDeath,
                 lockVars, killed, osem, stackVars, panicked>>

Post(p, s) ==
  /\ Syscall(p) /\ s \in OpenSlots(p) /\ sslock[s] = Nobody
  /\ count[s] # maxVal[s] /\ count[s] < CountCap
  /\ count' = [count EXCEPT ![s] = @ + 1]
  /\ IF count[s] + 1 = 1 THEN Wakeup(s) ELSE UNCHANGED state
  /\ UNCHANGED <<name, owner_pid, ref, maxVal, linked, waitingForDeath,
                 lockVars, killed, osem, stackVars, panicked>>

\* The checks of sem_reset read owner_pid and maxVal with no lock held.
ResetCheck(p, s, newVal, newMaxVal) ==
  /\ Syscall(p) /\ s \in OpenSlots(p)
  /\ owner_pid[s] = p
  /\ ~(newMaxVal >= 0 /\ newMaxVal < maxVal[s])
  /\ ~(newMaxVal < 0 /\ newVal < 0)
  /\ cur' = [cur EXCEPT ![p] = s]
  /\ args' = [args EXCEPT ![p] =
                [name |-> NoName, val |-> newVal, max |-> newMaxVal]]
  /\ Goto(p, IF newVal >= 0 THEN "reset_val" ELSE "reset_max")
  /\ UNCHANGED <<semVars, lockVars, procVars, np, panicked>>

ResetVal(p) ==
  LET s == cur[p] IN
  /\ At(p, "reset_val") /\ sslock[s] = Nobody
  /\ count' = [count EXCEPT ![s] = args[p].val]
  /\ IF args[p].val > 0 /\ count[s] = 0 THEN Wakeup(s) ELSE UNCHANGED state
  /\ Goto(p, "reset_max")
  /\ UNCHANGED <<name, owner_pid, ref, maxVal, linked, waitingForDeath,
                 lockVars, killed, osem, cur, args, np, panicked>>

\* Mutant: the second test is missing.
ResetMaxTest_Always(p) ==
  /\ At(p, "reset_max")
  /\ Goto(p, "reset_set") /\ UNCHANGED <<cur, args, np>>
  /\ UNCHANGED <<semVars, lockVars, procVars, panicked>>

\* The second test is outside the lock as well; "reset_set" is past it.
ResetMaxTest(p) ==
  /\ At(p, "reset_max")
  /\ IF args[p].max > maxVal[cur[p]]
     THEN Goto(p, "reset_set") /\ UNCHANGED <<cur, args, np>>
     ELSE Return(p)
  /\ UNCHANGED <<semVars, lockVars, procVars, panicked>>

ResetMax(p) ==
  LET s == cur[p] IN
  /\ At(p, "reset_set") /\ sslock[s] = Nobody
  /\ maxVal' = [maxVal EXCEPT ![s] = args[p].max]
  /\ Return(p)
  /\ UNCHANGED <<name, owner_pid, count, ref, linked, waitingForDeath,
                 lockVars, procVars, panicked>>

-----------------------------------------------------------------------------
(* sem_unlink *)

\* First section: the first slot of that name, linked or not, open or not.
UnlinkFind(p, n) ==
  /\ Syscall(p) /\ gslock = Nobody
  /\ \E s \in Slots :
       /\ IsFirst(s, {t \in Slots : name[t] = n})
       /\ cur' = [cur EXCEPT ![p] = s]
  /\ Goto(p, "unlink")
  /\ UNCHANGED <<semVars, lockVars, procVars, args, np, panicked>>

\* Mutant: waitingForDeath is not set.
UnlinkEnter_NoMark(p) ==
  /\ At(p, "unlink") \/ At(p, "unlink_wait")
  /\ gslock = Nobody
  /\ UNCHANGED waitingForDeath

\* Second section, entered at "unlink" and again at "unlink_wait" after each
\* sleep.  Only the first entry sets waitingForDeath.
UnlinkEnter(p) ==
  /\ At(p, "unlink") \/ At(p, "unlink_wait")
  /\ gslock = Nobody
  /\ waitingForDeath' = IF pc[p] = "unlink"
                        THEN [waitingForDeath EXCEPT ![cur[p]] = TRUE]
                        ELSE waitingForDeath

\* Mutant: ref is not tested.
UnlinkDone_NoRefTest(p) ==
  /\ UnlinkEnter(p)
  /\ linked' = [linked EXCEPT ![cur[p]] = FALSE]
  /\ Return(p)
  /\ UNCHANGED <<name, owner_pid, count, ref, maxVal, lockVars, procVars,
                 panicked>>

UnlinkDone(p) ==
  /\ UnlinkEnter(p) /\ ref[cur[p]] = 0
  /\ linked' = [linked EXCEPT ![cur[p]] = FALSE]
  /\ Return(p)
  /\ UNCHANGED <<name, owner_pid, count, ref, maxVal, lockVars, procVars,
                 panicked>>

UnlinkKilled(p) ==
  /\ UnlinkEnter(p) /\ ref[cur[p]] # 0 /\ killed[p]
  /\ Return(p)
  /\ UNCHANGED <<name, owner_pid, count, ref, maxVal, linked, lockVars,
                 procVars, panicked>>

UnlinkBlock(p) ==
  /\ UnlinkEnter(p) /\ ref[cur[p]] # 0 /\ ~killed[p]
  /\ gslock' = p
  /\ Goto(p, "unlink_sleep")
  /\ UNCHANGED <<name, owner_pid, count, ref, maxVal, linked, sslock,
                 procVars, cur, args, np, panicked>>

\* sleep(&stable, &stable.gslock)
UnlinkSleep(p) ==
  /\ At(p, "unlink_sleep")
  /\ state' = [state EXCEPT ![p] = "SLEEPING"]
  /\ gslock' = Nobody
  /\ Goto(p, "unlink_wait")
  /\ UNCHANGED <<semVars, sslock, killed, osem, cur, args, np, panicked>>

-----------------------------------------------------------------------------
(* fork, exit, kill *)

ForkAlloc(p, c) ==
  /\ Syscall(p) /\ state[c] = "UNUSED"
  /\ state' = [state EXCEPT ![c] = "EMBRYO"]
  /\ np' = [np EXCEPT ![p] = c]
  /\ Goto(p, "fork")
  /\ UNCHANGED <<semVars, lockVars, killed, osem, cur, args, panicked>>

\* The descriptors fork still has to copy.
ToDup(p) ==
  {d \in Descs : osem[p][d] # NoSlot /\ osem[np[p]][d] = NoSlot}

\* Mutant: the copy is not counted.
ForkDup_NoRef(p) ==
  /\ At(p, "fork") /\ gslock = Nobody
  /\ \E d \in Descs :
       /\ IsFirst(d, ToDup(p))
       /\ osem' = [osem EXCEPT ![np[p]][d] = osem[p][d]]
  /\ UNCHANGED <<semVars, lockVars, state, killed, stackVars, panicked>>

\* semdup: one section of gslock per descriptor.
ForkDup(p) ==
  /\ At(p, "fork") /\ gslock = Nobody
  /\ \E d \in Descs :
       /\ IsFirst(d, ToDup(p))
       /\ ref' = [ref EXCEPT ![osem[p][d]] = @ + 1]
       /\ osem' = [osem EXCEPT ![np[p]][d] = osem[p][d]]
  /\ UNCHANGED <<name, owner_pid, count, maxVal, linked, waitingForDeath,
                 lockVars, state, killed, stackVars, panicked>>

ForkRun(p) ==
  /\ At(p, "fork") /\ ToDup(p) = {}
  /\ state' = [state EXCEPT ![np[p]] = "RUNNABLE"]
  /\ np' = [np EXCEPT ![p] = Nobody]
  /\ Goto(p, "user")
  /\ UNCHANGED <<semVars, lockVars, killed, osem, cur, args, panicked>>

\* Called by the program, or by trap() for a killed process.
Exit(p) ==
  /\ At(p, "user")
  /\ Goto(p, "exit")
  /\ UNCHANGED <<semVars, lockVars, procVars, cur, args, np, panicked>>

ExitClose(p) ==
  /\ At(p, "exit")
  /\ \E d \in Descs :
       /\ IsFirst(d, {e \in Descs : osem[p][e] # NoSlot})
       /\ CloseDescriptor(p, d)
  /\ UNCHANGED <<name, owner_pid, count, maxVal, linked, waitingForDeath,
                 lockVars, killed, stackVars, panicked>>

ExitZombie(p) ==
  /\ At(p, "exit") /\ OpenSlots(p) = {}
  /\ state' = [state EXCEPT ![p] = "ZOMBIE"]
  /\ Goto(p, "user")
  /\ UNCHANGED <<semVars, lockVars, killed, osem, cur, args, np, panicked>>

\* kill(q): marks the victim and gets it out of a sleep it is in.
Kill(p, q) ==
  /\ Syscall(p) /\ state[q] # "UNUSED" /\ ~killed[q]
  /\ killed' = [killed EXCEPT ![q] = TRUE]
  /\ state' = [state EXCEPT ![q] = IF @ = "SLEEPING" THEN "RUNNABLE" ELSE @]
  /\ UNCHANGED <<semVars, lockVars, osem, stackVars, panicked>>

-----------------------------------------------------------------------------

\* What a program may ask for.
UserCall(p) ==
  \/ \E n \in Names : OpenFound(p, n) \/ UnlinkFind(p, n)
  \/ \E n \in Names, init \in InitVals, max \in MaxVals :
       OpenScan(p, n, init, max)
  \/ \E d \in Descs : Close(p, d)
  \/ \E s \in Slots : TryWait(p, s) \/ Post(p, s)
  \/ \E s \in Slots, v \in ResetVals, m \in ResetMaxes : ResetCheck(p, s, v, m)
  \/ \E c \in Procs : ForkAlloc(p, c) \/ Kill(p, c)
  \/ Exit(p)

\* What the kernel does for a call under way.
KernelStep(p) ==
  \/ OpenInitlock(p) \/ OpenSet(p)
  \/ \E s \in Slots : WaitTake(p, s) \/ WaitKilled(p, s) \/ WaitBlock(p, s)
  \/ WaitSleep(p)
  \/ ResetVal(p) \/ ResetMaxTest(p) \/ ResetMax(p)
  \/ UnlinkDone(p) \/ UnlinkKilled(p) \/ UnlinkBlock(p) \/ UnlinkSleep(p)
  \/ ForkDup(p) \/ ForkRun(p)
  \/ ExitClose(p) \/ ExitZombie(p)

Next == \E p \in Procs : UserCall(p) \/ KernelStep(p)

Spec == Init /\ [][Next]_vars

-----------------------------------------------------------------------------
(* Properties *)

Labels == {"user", "open_initlock", "open_set", "wait", "wait_sleep",
           "reset_val", "reset_max", "reset_set", "unlink", "unlink_wait",
           "unlink_sleep", "fork", "exit"}

StoredNames == {Spelled[n][p] : n \in Names, p \in Procs} \cup {NoName}

\* The type invariant of the semaphore table and of the processes using it.
TypeOK ==
  /\ name \in [Slots -> StoredNames]
  /\ owner_pid \in [Slots -> Procs \cup {Nobody}]
  /\ count \in [Slots -> Int]
  /\ ref \in [Slots -> Nat]
  /\ maxVal \in [Slots -> Int]
  /\ linked \in [Slots -> BOOLEAN]
  /\ waitingForDeath \in [Slots -> BOOLEAN]
  /\ gslock \in Procs \cup {Nobody}
  /\ sslock \in [Slots -> Procs \cup {Nobody}]
  /\ state \in [Procs -> {"UNUSED", "EMBRYO", "RUNNABLE", "SLEEPING", "ZOMBIE"}]
  /\ killed \in [Procs -> BOOLEAN]
  /\ osem \in [Procs -> [Descs -> Slots \cup {NoSlot}]]
  /\ pc \in [Procs -> Labels]
  /\ cur \in [Procs -> Slots \cup {NoSlot}]
  /\ args \in [Procs -> [name : Names \cup {NoName}, val : Int, max : Int]]
  /\ np \in [Procs -> Procs \cup {Nobody}]
  /\ panicked \in BOOLEAN

\* sem_open, semdup, sem_close, fork and exit keep ref equal to the number of
\* descriptors, over all processes, that point at the slot: no leak that would
\* block sem_unlink for ever, no early drop that would let it succeed.
RefCount ==
  \A s \in Slots :
    ref[s] = Cardinality({pd \in Procs \X Descs : osem[pd[1]][pd[2]] = s})

\* sem_unlink gives a slot back to sem_open only when no process can still
\* reach it through a descriptor.
FreeSlotUnused ==
  \A p \in Procs, d \in Descs : osem[p][d] # NoSlot => linked[osem[p][d]]

\* sem_post and sem_reset wake only when the count leaves zero; still no
\* process sleeps in sem_wait while units of its semaphore are available.
NoLostWakeup ==
  \A p \in Procs :
    state[p] = "SLEEPING" /\ pc[p] = "wait" => count[cur[p]] <= 0

\* sem_close wakes only when it drops the last reference of a slot marked
\* waitingForDeath; still no process sleeps in sem_unlink on a dead slot.
NoLostUnlink ==
  \A p \in Procs :
    state[p] = "SLEEPING" /\ pc[p] = "unlink_wait" => ref[cur[p]] > 0

\* release() is never called on a lock the caller has lost, so the kernel
\* never panics: sem_open's unlocked initlock meets no holder.
NoPanic == ~panicked

\* "it should return error code -2 when trying to incerement past maxVal":
\* sem_post never increments a count that is at or above maxVal.
PostRespectsMax ==
  [][\A p \in Procs, s \in Slots : Post(p, s) => count[s] < maxVal[s]]_vars

\* Slot t is an open semaphore some process created under the name n.
OpenedAs(t, n) ==
  /\ ref[t] > 0 /\ owner_pid[t] # Nobody
  /\ name[t] = Spelled[n][owner_pid[t]]

\* "it shouldnt open a new sem when the given name exists": sem_open fills a
\* slot only while no open semaphore was created under the same name.
OpenReusesName ==
  [][\A p \in Procs : OpenSet(p) =>
       \A t \in Slots : ~OpenedAs(t, args[p].name)]_vars

\* sem_unlink "gets blocked until parent finally closes": it succeeds only
\* when no semaphore of that name is open.
UnlinkOnlyClosed ==
  [][\A p \in Procs : UnlinkDone(p) =>
       \A t \in Slots : name[t] = name[cur[p]] => ref[t] = 0]_vars

-----------------------------------------------------------------------------
(* Fairness: the scheduler runs every RUNNABLE process, so a call under way *)
(* is carried on and a killed process reaches the exit in trap(); what a    *)
(* program asks for is its own choice.                                      *)

Progress(p) ==
  \/ pc[p] # "user" /\ KernelStep(p)
  \/ killed[p] /\ Exit(p)

FairSpec == Spec /\ \A p \in Procs : WF_vars(Progress(p))

\* "it should continue after parent closes the sem": a sem_unlink on a slot
\* that no descriptor of any process points at any more returns.
UnlinkReturns ==
  \A p \in Procs :
    (/\ pc[p] \in {"unlink", "unlink_wait"}
     /\ \A q \in Procs, d \in Descs : osem[q][d] # cur[p]) ~> pc[p] = "user"

\* kill(): the victim gets to exit, whatever it was waiting for.
KilledExits ==
  \A p \in Procs : killed[p] ~> state[p] = "ZOMBIE"

=============================================================================
