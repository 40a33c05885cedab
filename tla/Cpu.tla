-------------------------------- MODULE Cpu --------------------------------
(* Processors that run processes: spinlock.c, the scheduler, yield, sleep,    *)
(* wakeup and forkret of proc.c, the timer interrupt of trap.c and sys_sleep. *)
(* Every thread of the kernel, a process or the scheduler of a processor, has *)
(* a stack of what it has still to do; an interrupt pushes the handler.  A    *)
(* step is one entry of that stack, and a spin lock is its own entry.         *)
EXTENDS Integers, Sequences, FiniteSets, FiniteSetsExt

CONSTANTS NCpu,     \* processors; cpu 1 is the one that counts ticks
          NProc,    \* processes
          SleepFor  \* the n of sys_sleep

ASSUME CpuAssumption == {NCpu, NProc, SleepFor} \subseteq Nat \ {0}

VARIABLES cpu,    \* struct cpu: ncli, intena, proc; IF; a timer interrupt is pending
          lock,   \* the processor that holds ptable.lock and tickslock, or 0
          state,  \* proc[].state; SLEEPING is on the channel &ticks
          todo,   \* what each thread has still to do
          slept,  \* ticks since sys_sleep read ticks0, SleepFor if as many or more
          panic
vars == <<cpu, lock, state, todo, slept, panic>>

Cpus  == 1..NCpu
Procs == 1..NProc
Sched(c) == -c                            \* the scheduler's thread
Threads == Procs \union {Sched(c) : c \in Cpus}
Thread(c) == IF cpu[c].proc = 0 THEN Sched(c) ELSE cpu[c].proc

\* The loop of scheduler(); forkret and trapret of a process that never ran.
SchedulerLoop == << <<"sti">>, <<"acquire", "ptable">>, <<"scan", 1>> >>
Forkret == << <<"release", "ptable">>, <<"trapret">> >>

Init ==
  /\ cpu = [c \in Cpus |-> [ncli |-> 0, intena |-> FALSE, proc |-> 0, iflag |-> FALSE, timer |-> FALSE]]
  /\ lock = [l \in {"ptable", "ticks"} |-> 0]
  /\ state = [p \in Procs |-> "RUNNABLE"]
  /\ todo = [t \in Threads |-> IF t \in Procs THEN Forkret ELSE SchedulerLoop]
  /\ slept = [p \in Procs |-> 0]
  /\ panic = FALSE

Interrupted(c) == cpu[c].iflag /\ cpu[c].timer

\* The next entry of processor c is op, and no interrupt comes first.
Does(c, op) ==
  /\ ~panic /\ ~Interrupted(c)
  /\ todo[Thread(c)] # <<>> /\ Head(todo[Thread(c)])[1] = op
Arg(c) == Head(todo[Thread(c)])[2]
Then(c, s) == todo' = [todo EXCEPT ![Thread(c)] = s \o Tail(@)]

Panics == panic' = TRUE /\ UNCHANGED <<cpu, lock, state, todo, slept>>

(* --- spinlock.c ----------------------------------------------------------- *)

Pushcli(k) == [k EXCEPT !.iflag = FALSE, !.ncli = @ + 1,
                        !.intena = IF k.ncli = 0 THEN k.iflag ELSE @]
PopcliPanics(k) == k.iflag \/ k.ncli = 0
Popcli(k) == [k EXCEPT !.ncli = @ - 1, !.iflag = k.ncli = 1 /\ k.intena]

\* acquire: pushcli and the test of holding, then the loop of xchg.
Acquire(c) ==
  /\ Does(c, "acquire")
  /\ IF lock[Arg(c)] = c THEN Panics
     ELSE /\ cpu' = [cpu EXCEPT ![c] = Pushcli(@)]
          /\ Then(c, << <<"xchg", Arg(c)>> >>)
          /\ UNCHANGED <<lock, state, slept, panic>>

Xchg(c) ==
  /\ Does(c, "xchg") /\ lock[Arg(c)] = 0
  /\ lock' = [lock EXCEPT ![Arg(c)] = c]
  /\ Then(c, <<>>)
  /\ UNCHANGED <<cpu, state, slept, panic>>

Release(c) ==
  /\ Does(c, "release")
  /\ IF lock[Arg(c)] # c \/ PopcliPanics(cpu[c]) THEN Panics
     ELSE /\ lock' = [lock EXCEPT ![Arg(c)] = 0]
          /\ cpu' = [cpu EXCEPT ![c] = Popcli(@)]
          /\ Then(c, <<>>)
          /\ UNCHANGED <<state, slept, panic>>

(* --- proc.c --------------------------------------------------------------- *)

Sti(c) ==
  /\ Does(c, "sti")
  /\ cpu' = [cpu EXCEPT ![c].iflag = TRUE]
  /\ Then(c, <<>>)
  /\ UNCHANGED <<lock, state, slept, panic>>

\* The scan of the process table: the next RUNNABLE process is run, and the
\* scan goes on after it when it comes back; at the end the lock is released.
\* Mutant: after a process has run, the scan starts again.
AfterRun_First(p) == 1
AfterRun(p) == p + 1
Scan(c) ==
  /\ Does(c, "scan")
  /\ LET ready == {p \in Procs : p >= Arg(c) /\ state[p] = "RUNNABLE"}
         p == Min(ready)
     IN  IF ready = {}
         THEN /\ Then(c, << <<"release", "ptable">> >> \o SchedulerLoop)
              /\ UNCHANGED <<cpu, state>>
         ELSE /\ cpu' = [cpu EXCEPT ![c].proc = p]
              /\ state' = [state EXCEPT ![p] = "RUNNING"]
              /\ Then(c, << <<"scan", AfterRun(p)>> >>)
  /\ UNCHANGED <<lock, slept, panic>>

\* sched: the checks, and the switch to the scheduler; intena is restored
\* when the process runs again.
\* Mutant: intena is not kept.
Kept_Not(c) == <<>>
Kept(c) == << <<"intena", cpu[c].intena>> >>
SchedPanics(c) == \/ lock["ptable"] # c \/ cpu[c].ncli # 1 \/ cpu[c].iflag
                  \/ state[Thread(c)] = "RUNNING"
Switch(c) ==
  /\ Does(c, "sched")
  /\ IF SchedPanics(c) THEN Panics
     ELSE /\ Then(c, Kept(c))
          /\ cpu' = [cpu EXCEPT ![c].proc = 0]
          /\ UNCHANGED <<lock, state, slept, panic>>

Intena(c) ==
  /\ Does(c, "intena")
  /\ cpu' = [cpu EXCEPT ![c].intena = Arg(c)]
  /\ Then(c, <<>>)
  /\ UNCHANGED <<lock, state, slept, panic>>

\* p->state = RUNNABLE in yield, SLEEPING in sleep.
SetState(c) ==
  /\ Does(c, "state")
  /\ state' = [state EXCEPT ![Thread(c)] = Arg(c)]
  /\ Then(c, <<>>)
  /\ UNCHANGED <<cpu, lock, slept, panic>>

\* Mutant: the state is set before the lock is held.
Yield_Unlocked == << <<"state", "RUNNABLE">>, <<"acquire", "ptable">>, <<"sched">>, <<"release", "ptable">> >>
Yield == << <<"acquire", "ptable">>, <<"state", "RUNNABLE">>, <<"sched">>, <<"release", "ptable">> >>

\* sleep(&ticks, &tickslock).
\* Mutant: the lock is kept while the process sleeps.
Sleep_Holding == << <<"acquire", "ptable">>, <<"state", "SLEEPING">>, <<"sched">>, <<"release", "ptable">> >>
Sleep == << <<"acquire", "ptable">>, <<"release", "ticks">>, <<"state", "SLEEPING">>, <<"sched">>,
            <<"release", "ptable">>, <<"acquire", "ticks">> >>

\* wakeup1(&ticks), under ptable.lock.
Wakeup(c) ==
  /\ Does(c, "wakeup")
  /\ state' = [p \in Procs |-> IF state[p] = "SLEEPING" THEN "RUNNABLE" ELSE state[p]]
  /\ Then(c, <<>>)
  /\ UNCHANGED <<cpu, lock, slept, panic>>

(* --- trap.c --------------------------------------------------------------- *)

InHandler(t) == \E i \in DOMAIN todo[t] : todo[t][i] = <<"iret">>

\* The timer of each processor; its interrupt is taken as soon as IF is set.
\* Its period is far longer than a handler and a switch: the next one comes in
\* user mode, in a later section of the process with interrupts off, to be taken
\* where that section ends, or when a whole scan found nothing to run.
Due(c) == LET t == Thread(c)
          IN  IF t \in Procs THEN ~InHandler(t) /\ (~cpu[c].iflag \/ todo[t] = <<>>)
              ELSE Head(todo[t]) = <<"release", "ptable">>
Timer(c) ==
  /\ ~panic /\ ~cpu[c].timer /\ Due(c)
  /\ cpu' = [cpu EXCEPT ![c].timer = TRUE]
  /\ UNCHANGED <<lock, state, todo, slept, panic>>

\* The interrupt gate clears IF; trap() counts the tick on the first processor
\* and makes the process that was running give up the processor.
Tick == << <<"acquire", "ticks">>, <<"tick">>, <<"acquire", "ptable">>, <<"wakeup">>,
           <<"release", "ptable">>, <<"release", "ticks">> >>
Handler(c) == (IF c = 1 THEN Tick ELSE <<>>) \o (IF cpu[c].proc # 0 THEN Yield ELSE <<>>) \o << <<"iret">> >>
Interrupt(c) ==
  /\ ~panic /\ Interrupted(c)
  /\ cpu' = [cpu EXCEPT ![c].iflag = FALSE, ![c].timer = FALSE]
  /\ todo' = [todo EXCEPT ![Thread(c)] = Handler(c) \o @]
  /\ UNCHANGED <<lock, state, slept, panic>>

CountTick(c) ==
  /\ Does(c, "tick")
  /\ slept' = [p \in Procs |-> IF slept[p] < SleepFor THEN slept[p] + 1 ELSE slept[p]]
  /\ Then(c, <<>>)
  /\ UNCHANGED <<cpu, lock, state, panic>>

\* iret from an interrupt, or of trapret to user space: IF is set again.
Iret(c) ==
  /\ Does(c, "iret") \/ Does(c, "trapret")
  /\ cpu' = [cpu EXCEPT ![c].iflag = TRUE]
  /\ Then(c, <<>>)
  /\ UNCHANGED <<lock, state, slept, panic>>

(* --- sysproc.c ------------------------------------------------------------ *)

\* A process in user mode; the trap gate of a system call leaves IF set.
SysSleep(c) ==
  /\ ~panic /\ ~Interrupted(c) /\ cpu[c].proc # 0 /\ todo[Thread(c)] = <<>>
  /\ todo' = [todo EXCEPT ![Thread(c)] = << <<"acquire", "ticks">>, <<"ticks0">>, <<"trapret">> >>]
  /\ UNCHANGED <<cpu, lock, state, slept, panic>>

\* ticks0 = ticks, and the test of the loop.
Ticks0(c) ==
  /\ Does(c, "ticks0")
  /\ slept' = [slept EXCEPT ![Thread(c)] = 0]
  /\ Then(c, << <<"loop">> >>)
  /\ UNCHANGED <<cpu, lock, state, panic>>

\* The processes of this module are not killed: kill and exit are Proc's, and the
\* test of killed in this loop is left out.
Loop(c) ==
  /\ Does(c, "loop")
  /\ Then(c, IF slept[Thread(c)] < SleepFor THEN Sleep \o << <<"loop">> >>
             ELSE << <<"release", "ticks">> >>)
  /\ UNCHANGED <<cpu, lock, state, slept, panic>>

Step(c) ==
  \/ Acquire(c) \/ Xchg(c) \/ Release(c)
  \/ Sti(c) \/ Scan(c) \/ Switch(c) \/ Intena(c) \/ SetState(c) \/ Wakeup(c)
  \/ Interrupt(c) \/ CountTick(c) \/ Iret(c) \/ Ticks0(c) \/ Loop(c)

Next == \E c \in Cpus : Step(c) \/ Timer(c) \/ SysSleep(c)

\* A processor goes on, and gets a lock that is free again and again; timers tick.
Fairness == \A c \in Cpus : SF_vars(Step(c)) /\ SF_vars(Timer(c))

Spec == Init /\ [][Next]_vars /\ Fairness

-----------------------------------------------------------------------------
\* No check of acquire, release, popcli or sched panics.
NoPanic == ~panic

\* Interrupts are off while a processor holds a lock or handles an interrupt,
\* and on again in the rest of a system call, whichever process ran meanwhile:
\* intena belongs to the thread, although it is kept in the processor.
InterruptsMatch ==
  \A c \in Cpus : LET t == Thread(c) IN
    /\ cpu[c].iflag => cpu[c].ncli = 0 /\ ~InHandler(t) /\ \A l \in DOMAIN lock : lock[l] # c
    /\ t \in Procs /\ cpu[c].ncli = 0 /\ ~InHandler(t) /\ todo[t] # <<>> /\ todo[t][1] # <<"trapret">>
         => cpu[c].iflag

\* A process runs on one processor at most, and one that is RUNNING has one: it is
\* never taken by a second processor between its change of state and its switch.
OneCpu ==
  /\ \A c, d \in Cpus : c # d /\ cpu[c].proc # 0 => cpu[c].proc # cpu[d].proc
  /\ \A p \in Procs : state[p] = "RUNNING" => \E c \in Cpus : cpu[c].proc = p

\* Every process runs again and again: the scan of each processor reaches every
\* entry of the table, a process gives up its processor when the timer says so,
\* and a tick wakes every process that sleeps for it.
EveryoneRuns == \A p \in Procs : []<>(state[p] = "RUNNING")
=============================================================================
