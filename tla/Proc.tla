-------------------------------- MODULE Proc --------------------------------
(***************************************************************************)
(* The process table, proc.c: slots that fork fills, exit leaves as        *)
(* zombies and wait empties, the scheduler that hands them processors, and *)
(* kill.  Everything between acquire and release of ptable.lock is one     *)
(* step; fork and its failures also touch the table without the lock, a    *)
(* step at a time.                                                         *)
(*                                                                         *)
(* The only sleep here is the one of wait(), on the process's own slot;    *)
(* the files, memory and name of a process are left out.                   *)
(***************************************************************************)
EXTENDS Integers, FiniteSets

CONSTANTS
  NPROC,        \* the slots of the table
  NCPU,         \* the processors
  Targets,      \* the pids programs pass to kill
  MaxPid        \* bound on nextpid

ASSUME ProcAssumption ==
  /\ NPROC \in Nat \ {0} /\ NCPU \in Nat \ {0}
  /\ Targets \subseteq Nat
  /\ MaxPid \in Nat \ {0}

Slots    == 1..NPROC
initproc == 1

VARIABLES
  state, pid, parent, killed,   \* struct proc; parent is 0 for none
  pc,                           \* where the process is: "user" or a system call
  np,                           \* in fork: the child's slot, else 0
  nextpid,
  panicked                      \* init has tried to exit

procVars == <<state, pid, parent, killed>>
vars == <<procVars, pc, np, nextpid, panicked>>

\* After userinit and the boot of the first processor.
Init ==
  /\ state = [p \in Slots |-> IF p = initproc THEN "RUNNABLE" ELSE "UNUSED"]
  /\ pid = [p \in Slots |-> IF p = initproc THEN 1 ELSE 0]
  /\ parent = [p \in Slots |-> 0]
  /\ killed = [p \in Slots |-> FALSE]
  /\ pc = [p \in Slots |-> "user"]
  /\ np = [p \in Slots |-> 0]
  /\ nextpid = 2
  /\ panicked = FALSE

Live == {"SLEEPING", "RUNNABLE", "RUNNING"}

Children(p) == {q \in Slots : parent[q] = p}

At(p, label) == ~panicked /\ state[p] = "RUNNING" /\ pc[p] = label

Goto(p, label) == pc' = [pc EXCEPT ![p] = label]

-----------------------------------------------------------------------------
(* The processors *)

\* scheduler: a processor with nothing to run takes a runnable process.
Sched(p) ==
  /\ ~panicked
  /\ state[p] = "RUNNABLE"
  /\ Cardinality({q \in Slots : state[q] = "RUNNING"}) < NCPU
  /\ state' = [state EXCEPT ![p] = "RUNNING"]
  /\ UNCHANGED <<pid, parent, killed, pc, np, nextpid, panicked>>

\* yield: the timer interrupt gives the processor back.
Yield(p) ==
  /\ ~panicked
  /\ state[p] = "RUNNING"
  /\ state' = [state EXCEPT ![p] = "RUNNABLE"]
  /\ UNCHANGED <<pid, parent, killed, pc, np, nextpid, panicked>>

-----------------------------------------------------------------------------
(* fork *)

\* Mutant: nextpid is not counted up.
ForkAlloc_NoCount(p) ==
  /\ At(p, "user") /\ ~killed[p] /\ nextpid <= MaxPid
  /\ \E c \in Slots :
       /\ state[c] = "UNUSED" /\ \A d \in 1..(c - 1) : state[d] # "UNUSED"
       /\ state' = [state EXCEPT ![c] = "EMBRYO"]
       /\ pid' = [pid EXCEPT ![c] = nextpid]
       /\ np' = [np EXCEPT ![p] = c]
  /\ Goto(p, "copy")
  /\ UNCHANGED <<parent, killed, nextpid, panicked>>

\* allocproc: the first UNUSED slot.  Its killed and parent stay as they are.
ForkAlloc(p) ==
  /\ At(p, "user") /\ ~killed[p] /\ nextpid <= MaxPid
  /\ \E c \in Slots :
       /\ state[c] = "UNUSED" /\ \A d \in 1..(c - 1) : state[d] # "UNUSED"
       /\ state' = [state EXCEPT ![c] = "EMBRYO"]
       /\ pid' = [pid EXCEPT ![c] = nextpid]
       /\ np' = [np EXCEPT ![p] = c]
  /\ nextpid' = nextpid + 1
  /\ Goto(p, "copy")
  /\ UNCHANGED <<parent, killed, panicked>>

\* No memory for the stack or the copy: the slot is given back, its pid is not
\* cleared.
ForkFail(p) ==
  /\ At(p, "copy")
  /\ state' = [state EXCEPT ![np[p]] = "UNUSED"]
  /\ np' = [np EXCEPT ![p] = 0]
  /\ Goto(p, "user")
  /\ UNCHANGED <<pid, parent, killed, nextpid, panicked>>

\* np->parent = curproc, without the lock.
ForkParent(p) ==
  /\ At(p, "copy")
  /\ parent' = [parent EXCEPT ![np[p]] = p]
  /\ Goto(p, "publish")
  /\ UNCHANGED <<state, pid, killed, np, nextpid, panicked>>

\* The child may run; it begins by returning to user space.
ForkRun(p) ==
  /\ At(p, "publish")
  /\ state' = [state EXCEPT ![np[p]] = "RUNNABLE"]
  /\ pc' = [pc EXCEPT ![p] = "user", ![np[p]] = "user"]
  /\ np' = [np EXCEPT ![p] = 0]
  /\ UNCHANGED <<pid, parent, killed, nextpid, panicked>>

-----------------------------------------------------------------------------
(* exit and wait *)

\* exit, called by the program or by trap when the process was killed.
ExitCall(p) ==
  /\ At(p, "user")
  /\ IF p = initproc
     THEN killed[p] /\ panicked' = TRUE /\ UNCHANGED pc
     ELSE Goto(p, "exit") /\ UNCHANGED panicked
  /\ UNCHANGED <<procVars, np, nextpid>>

\* Mutants: nobody is woken; the children are not handed to init; init is not
\* woken for a child that is a zombie already.
ExitZombie_NoWakeup(p) ==
  /\ At(p, "exit")
  /\ state' = [state EXCEPT ![p] = "ZOMBIE"]
  /\ parent' = [q \in Slots |-> IF parent[q] = p THEN initproc ELSE parent[q]]
  /\ UNCHANGED <<pid, killed, pc, np, nextpid, panicked>>

ExitZombie_KeepsChildren(p) ==
  /\ At(p, "exit")
  /\ state' = [q \in Slots |->
                 IF q = p THEN "ZOMBIE"
                 ELSE IF state[q] = "SLEEPING" /\ q = parent[p] THEN "RUNNABLE"
                 ELSE state[q]]
  /\ UNCHANGED <<pid, parent, killed, pc, np, nextpid, panicked>>

ExitZombie_NoInit(p) ==
  /\ At(p, "exit")
  /\ state' = [q \in Slots |->
                 IF q = p THEN "ZOMBIE"
                 ELSE IF state[q] = "SLEEPING" /\ q = parent[p] THEN "RUNNABLE"
                 ELSE state[q]]
  /\ parent' = [q \in Slots |-> IF parent[q] = p THEN initproc ELSE parent[q]]
  /\ UNCHANGED <<pid, killed, pc, np, nextpid, panicked>>

\* The rest of exit, under the lock: wake the parent, hand the children to
\* init and wake it if one of them is a zombie.
ExitZombie(p) ==
  LET woken == {parent[p]} \cup
               (IF \E q \in Children(p) : state[q] = "ZOMBIE" THEN {initproc} ELSE {})
  IN
  /\ At(p, "exit")
  /\ state' = [q \in Slots |->
                 IF q = p THEN "ZOMBIE"
                 ELSE IF state[q] = "SLEEPING" /\ q \in woken THEN "RUNNABLE"
                 ELSE state[q]]
  /\ parent' = [q \in Slots |-> IF parent[q] = p THEN initproc ELSE parent[q]]
  /\ UNCHANGED <<pid, killed, pc, np, nextpid, panicked>>

WaitCall(p) ==
  /\ At(p, "user") /\ ~killed[p]
  /\ Goto(p, "wait")
  /\ UNCHANGED <<procVars, np, nextpid, panicked>>

Zombies(p) == {q \in Children(p) : state[q] = "ZOMBIE"}

\* Mutant: an empty slot gets pid -1.
WaitReap_MinusOne(p) ==
  /\ At(p, "wait")
  /\ \E q \in Zombies(p) :
       /\ \A r \in Zombies(p) : q <= r
       /\ state' = [state EXCEPT ![q] = "UNUSED"]
       /\ pid' = [pid EXCEPT ![q] = -1]
       /\ parent' = [parent EXCEPT ![q] = 0]
       /\ killed' = [killed EXCEPT ![q] = FALSE]
  /\ Goto(p, "user")
  /\ UNCHANGED <<np, nextpid, panicked>>

\* wait finds the first zombie child and empties its slot.
WaitReap(p) ==
  /\ At(p, "wait")
  /\ \E q \in Zombies(p) :
       /\ \A r \in Zombies(p) : q <= r
       /\ state' = [state EXCEPT ![q] = "UNUSED"]
       /\ pid' = [pid EXCEPT ![q] = 0]
       /\ parent' = [parent EXCEPT ![q] = 0]
       /\ killed' = [killed EXCEPT ![q] = FALSE]
  /\ Goto(p, "user")
  /\ UNCHANGED <<np, nextpid, panicked>>

\* wait has nobody to wait for, or was killed.
WaitNone(p) ==
  /\ At(p, "wait") /\ Zombies(p) = {}
  /\ Children(p) = {} \/ killed[p]
  /\ Goto(p, "user")
  /\ UNCHANGED <<procVars, np, nextpid, panicked>>

\* Mutant: killed is not looked at before sleeping.
WaitSleep_Deaf(p) ==
  /\ At(p, "wait") /\ Zombies(p) = {}
  /\ Children(p) # {}
  /\ state' = [state EXCEPT ![p] = "SLEEPING"]
  /\ UNCHANGED <<pid, parent, killed, pc, np, nextpid, panicked>>

\* sleep(curproc, &ptable.lock); a wakeup brings wait back to its scan.
WaitSleep(p) ==
  /\ At(p, "wait") /\ Zombies(p) = {}
  /\ Children(p) # {} /\ ~killed[p]
  /\ state' = [state EXCEPT ![p] = "SLEEPING"]
  /\ UNCHANGED <<pid, parent, killed, pc, np, nextpid, panicked>>

-----------------------------------------------------------------------------
(* kill *)

\* The first slot that bears the pid, whatever its state.
Kill(p) ==
  /\ At(p, "user") /\ ~killed[p]
  /\ \E n \in Targets, q \in Slots :
       /\ pid[q] = n /\ \A r \in 1..(q - 1) : pid[r] # n
       /\ killed' = [killed EXCEPT ![q] = TRUE]
       /\ state' = [state EXCEPT ![q] = IF @ = "SLEEPING" THEN "RUNNABLE" ELSE @]
  /\ UNCHANGED <<pid, parent, pc, np, nextpid, panicked>>

-----------------------------------------------------------------------------

\* What the kernel does for a process that has entered it.
Kernel(p) ==
  \/ ForkFail(p) \/ ForkParent(p) \/ ForkRun(p)
  \/ ExitZombie(p)
  \/ WaitReap(p) \/ WaitNone(p) \/ WaitSleep(p)

\* What a program asks for.
User(p) == ForkAlloc(p) \/ ExitCall(p) \/ WaitCall(p) \/ Kill(p)

Next == \E p \in Slots : Sched(p) \/ Yield(p) \/ Kernel(p) \/ User(p)

Spec == Init /\ [][Next]_vars

\* Steps that are taken: those in the kernel, the exit trap makes a killed
\* process take, and the wait that init.c comes back to.
Must(p) ==
  Kernel(p) \/ (killed[p] /\ ExitCall(p)) \/ (p = initproc /\ WaitCall(p))

\* The scheduler goes round the table, so a runnable process gets a processor
\* again and again, and a time slice is long enough for a step.
Fairness ==
  \A p \in Slots : WF_vars(Yield(p)) /\ SF_vars(Sched(p)) /\ SF_vars(Must(p))

FairSpec == Spec /\ Fairness

-----------------------------------------------------------------------------
(* Properties *)

\* The type invariant of the process table.
TypeOK ==
  /\ state \in [Slots -> {"UNUSED", "EMBRYO", "ZOMBIE"} \cup Live]
  /\ pid \in [Slots -> Nat]
  /\ parent \in [Slots -> 0..NPROC]
  /\ killed \in [Slots -> BOOLEAN]
  /\ pc \in [Slots -> {"user", "copy", "publish", "exit", "wait"}]
  /\ np \in [Slots -> 0..NPROC]
  /\ nextpid \in Nat
  /\ panicked \in BOOLEAN

\* "Pass abandoned children to init": every process, running or zombie, has a
\* parent that is itself alive and can still wait for it.
ParentAlive ==
  \A p \in Slots \ {initproc} :
    state[p] \in Live \cup {"ZOMBIE"} =>
      /\ parent[p] \in Slots
      /\ state[parent[p]] \in Live

\* kill and getprocbypid find a process by its pid: no two slots in use share
\* one, although fork gives back a slot without clearing its pid.
UniquePids ==
  \A p, q \in Slots :
    state[p] # "UNUSED" /\ pid[p] = pid[q] => p = q

\* "Parent might be sleeping in wait()": nobody sleeps in wait while a child
\* of his is a zombie, when he has no child, or after he was killed.
NoLostWait ==
  \A p \in Slots :
    state[p] = "SLEEPING" =>
      Zombies(p) = {} /\ Children(p) # {} /\ ~killed[p]

\* "Kill the process with the given pid": a slot is not marked killed when a
\* new process gets it, before anybody can have named that process's pid.
NotBornKilled ==
  [][\A c \in Slots :
       state[c] = "UNUSED" /\ state'[c] = "EMBRYO" => ~killed'[c]]_vars

\* A zombie handed to init is reaped, whatever its first parent did, as long
\* as the kernel does not panic.
ZombiesReaped ==
  \A p \in Slots :
    (state[p] = "ZOMBIE" /\ parent[p] = initproc) ~> (state[p] = "UNUSED" \/ panicked)

\* "Process won't exit until it returns to user space": but then it does.
KilledExits ==
  \A p \in Slots \ {initproc} :
    (state[p] \in Live /\ killed[p]) ~> (state[p] \notin Live \/ panicked)
=============================================================================
