----------------------------- MODULE Cpu_proofs -----------------------------
(* The spin locks, the switch and the interrupt mask fit together for every   *)
(* number of processors and processes: no check of acquire, release, popcli   *)
(* or sched fails, interrupts are off exactly where they should be, and a     *)
(* process runs on one processor.  The stacks of the threads are suffixes of  *)
(* a few paths through the kernel; a point is a place on one of the paths.    *)
EXTENDS Cpu, SequenceTheorems, WellFoundedInduction, TLAPS

Locks == {"ptable", "ticks"}

On(e, s) == <<e>> \o s

\* The way through sys_sleep to user mode.
AtTrapret  == On(<<"trapret">>, <<>>)
AtForkret  == On(<<"release", "ptable">>, AtTrapret)
AtDone     == On(<<"release", "ticks">>, AtTrapret)
AtTicks0   == On(<<"ticks0">>, AtTrapret)
AtCallX    == On(<<"xchg", "ticks">>, AtTicks0)
AtCall     == On(<<"acquire", "ticks">>, AtTicks0)
AtLoop     == On(<<"loop">>, AtTrapret)
AtAgainX   == On(<<"xchg", "ticks">>, AtLoop)
AtAgain    == On(<<"acquire", "ticks">>, AtLoop)
AtWoken    == On(<<"release", "ptable">>, AtAgain)
AtAsleep   == On(<<"intena", TRUE>>, AtWoken)
AtSleepSw  == On(<<"sched">>, AtWoken)
AtSleepSt  == On(<<"state", "SLEEPING">>, AtSleepSw)
AtSleepR   == On(<<"release", "ticks">>, AtSleepSt)
AtSleepX   == On(<<"xchg", "ptable">>, AtSleepR)
AtSleep    == On(<<"acquire", "ptable">>, AtSleepR)

\* The loop of the scheduler; the scan is at process a.
AtScan(a)  == On(<<"scan", a>>, <<>>)
AtIdleX    == On(<<"xchg", "ptable">>, AtScan(1))
AtIdle     == On(<<"acquire", "ptable">>, AtScan(1))
AtSti      == On(<<"sti">>, AtIdle)
AtNone     == On(<<"release", "ptable">>, AtSti)

\* The points at which an interrupt may come, in a process and in the scheduler.
ProcRests  == {"user", "trapret", "call", "again"}
SchedRests == {"sti", "idle"}
Rests == ProcRests \union SchedRests
Rest(b) == CASE b = "user" -> <<>> [] b = "trapret" -> AtTrapret [] b = "call" -> AtCall
             [] b = "again" -> AtAgain [] b = "sti" -> AtSti [] b = "idle" -> AtIdle

\* The handler that has interrupted b.
AtIret(b)      == On(<<"iret">>, Rest(b))
AtYieldR(b)    == On(<<"release", "ptable">>, AtIret(b))
AtPreempted(b) == On(<<"intena", FALSE>>, AtYieldR(b))
AtYieldSw(b)   == On(<<"sched">>, AtYieldR(b))
AtYieldSt(b)   == On(<<"state", "RUNNABLE">>, AtYieldSw(b))
AtYieldX(b)    == On(<<"xchg", "ptable">>, AtYieldSt(b))
AtYield(b)     == On(<<"acquire", "ptable">>, AtYieldSt(b))
Ticked(b)      == IF b \in ProcRests THEN AtYield(b) ELSE AtIret(b)
AtTickRT(b)    == On(<<"release", "ticks">>, Ticked(b))
AtTickRP(b)    == On(<<"release", "ptable">>, AtTickRT(b))
AtWake(b)      == On(<<"wakeup">>, AtTickRP(b))
AtTickPX(b)    == On(<<"xchg", "ptable">>, AtWake(b))
AtTickP(b)     == On(<<"acquire", "ptable">>, AtWake(b))
AtCount(b)     == On(<<"tick">>, AtTickP(b))
AtTickX(b)     == On(<<"xchg", "ticks">>, AtCount(b))
AtTick(b)      == On(<<"acquire", "ticks">>, AtCount(b))

\* The stack of a thread at point k.
Stack(k, b, a) ==
  CASE k \in Rests -> Rest(k)
    [] k = "forkret" -> AtForkret [] k = "done" -> AtDone [] k = "ticks0" -> AtTicks0
    [] k = "callX" -> AtCallX [] k = "loop" -> AtLoop [] k = "againX" -> AtAgainX
    [] k = "woken" -> AtWoken [] k = "asleep" -> AtAsleep [] k = "sleepSw" -> AtSleepSw
    [] k = "sleepSt" -> AtSleepSt [] k = "sleepR" -> AtSleepR [] k = "sleepX" -> AtSleepX
    [] k = "sleep" -> AtSleep
    [] k = "scan" -> AtScan(a) [] k = "idleX" -> AtIdleX [] k = "none" -> AtNone
    [] k = "iret" -> AtIret(b) [] k = "yieldR" -> AtYieldR(b) [] k = "preempted" -> AtPreempted(b)
    [] k = "yieldSw" -> AtYieldSw(b) [] k = "yieldSt" -> AtYieldSt(b) [] k = "yieldX" -> AtYieldX(b)
    [] k = "yield" -> AtYield(b)
    [] k = "tickRT" -> AtTickRT(b) [] k = "tickRP" -> AtTickRP(b) [] k = "wake" -> AtWake(b)
    [] k = "tickPX" -> AtTickPX(b) [] k = "tickP" -> AtTickP(b) [] k = "count" -> AtCount(b)
    [] k = "tickX" -> AtTickX(b) [] k = "tick" -> AtTick(b)

Yielding   == {"yield", "yieldX", "yieldSt", "yieldSw", "preempted", "yieldR"}
Ticking    == {"tick", "tickX", "count", "tickP", "tickPX", "wake", "tickRP", "tickRT"}
Handling   == Yielding \union Ticking \union {"iret"}
Sleeping   == {"sleep", "sleepX", "sleepR", "sleepSt", "sleepSw", "asleep", "woken", "againX", "loop"}
ProcOnly   == ProcRests \union Sleeping \union {"forkret", "callX", "ticks0", "done"} \union Yielding
SchedOnly  == SchedRests \union {"idleX", "scan", "none"}
Points     == ProcOnly \union SchedOnly \union Handling
\* The points of a thread that is not on a processor.
Parked     == {"forkret", "asleep", "preempted"}

\* What the processor of a thread at point k has: the locks it holds, how many
\* pushcli it is in, and what IF, intena and the state of the process may be.
Held(k) ==
  IF k \in {"ticks0", "loop", "sleep", "sleepX", "done", "count", "tickP", "tickPX", "tickRT"} THEN {"ticks"}
  ELSE IF k \in {"sleepR", "wake", "tickRP"} THEN Locks
  ELSE IF k \in {"forkret", "sleepSt", "sleepSw", "asleep", "woken", "yieldSt", "yieldSw", "preempted",
                 "yieldR", "scan", "none"} THEN {"ptable"}
  ELSE {}
Depth(k) ==
  IF k \in Rests \union {"tick", "yield", "iret"} THEN 0
  ELSE IF k \in {"sleepX", "sleepR", "tickPX", "wake", "tickRP"} THEN 2
  ELSE 1
IflagOk(k, f)  == k \in {"trapret", "sti"} \/ (f <=> k \in Rests)
IntenaOk(k, f) == Depth(k) = 0 \/ k \in Parked \union {"scan", "none"} \/ (f <=> k \notin Handling)
StateAt(k) == IF k = "sleepSw" THEN "SLEEPING" ELSE IF k = "yieldSw" THEN "RUNNABLE" ELSE "RUNNING"

\* The points of the threads of a processor: in a process or in its scheduler.
PointOf(c, k, b) ==
  IF cpu[c].proc = 0 THEN k \in Points \ ProcOnly /\ b \in SchedRests
                     ELSE k \in Points \ SchedOnly /\ b \in ProcRests

\* What may be on a stack.
Entries ==
  {<<"sti">>, <<"sched">>, <<"wakeup">>, <<"tick">>, <<"iret">>, <<"trapret">>, <<"ticks0">>, <<"loop">>}
    \union ({"acquire", "xchg", "release"} \X Locks) \union ({"intena"} \X BOOLEAN)
    \union ({"state"} \X {"SLEEPING", "RUNNABLE"}) \union ({"scan"} \X Int)

TypeOK ==
  /\ cpu \in [Cpus -> [ncli : Int, intena : BOOLEAN, proc : 0..NProc, iflag : BOOLEAN, timer : BOOLEAN]]
  /\ lock \in [Locks -> 0..NCpu]
  /\ state \in [Procs -> {"RUNNABLE", "RUNNING", "SLEEPING"}]
  /\ todo \in [Threads -> Seq(Entries)]
  /\ panic = FALSE

\* The thread of processor c is at point k, and the processor is as it should be.
RunsAt(c, k, b, a) ==
  /\ PointOf(c, k, b) /\ todo[Thread(c)] = Stack(k, b, a)
  /\ cpu[c].ncli = Depth(k) /\ IflagOk(k, cpu[c].iflag) /\ IntenaOk(k, cpu[c].intena)
  /\ \A l \in Locks : lock[l] = c <=> l \in Held(k)
  /\ cpu[c].proc # 0 => state[cpu[c].proc] = StateAt(k)

\* A processor runs a thread, and its scheduler waits while that is a process.
CpuRuns ==
  \A c \in Cpus :
    /\ \E k \in Points, b \in Rests, a \in Int : RunsAt(c, k, b, a)
    /\ cpu[c].proc # 0 => \E a \in Int : todo[Sched(c)] = Stack("scan", "sti", a)

Alone == \A c, d \in Cpus : c # d /\ cpu[c].proc # 0 => cpu[c].proc # cpu[d].proc

\* A process that no processor runs waits where sched has left it.
OffCpu ==
  \A p \in Procs : (\A c \in Cpus : cpu[c].proc # p) =>
    /\ state[p] \in {"RUNNABLE", "SLEEPING"}
    /\ \E k \in Parked, b \in ProcRests : todo[p] = Stack(k, b, 1)

IInv == TypeOK /\ CpuRuns /\ Alone /\ OffCpu

-----------------------------------------------------------------------------
(* The paths. *)

\* The entry on top at point k, and the point below it.
Op(k, a) ==
  CASE k \in {"call", "again", "tick"} -> <<"acquire", "ticks">>
    [] k \in {"idle", "sleep", "yield", "tickP"} -> <<"acquire", "ptable">>
    [] k \in {"callX", "againX", "tickX"} -> <<"xchg", "ticks">>
    [] k \in {"idleX", "sleepX", "yieldX", "tickPX"} -> <<"xchg", "ptable">>
    [] k \in {"sleepR", "done", "tickRT"} -> <<"release", "ticks">>
    [] k \in {"forkret", "woken", "none", "yieldR", "tickRP"} -> <<"release", "ptable">>
    [] k \in {"sleepSw", "yieldSw"} -> <<"sched">>
    [] k = "sti" -> <<"sti">> [] k = "trapret" -> <<"trapret">> [] k = "iret" -> <<"iret">>
    [] k = "ticks0" -> <<"ticks0">> [] k = "loop" -> <<"loop">>
    [] k = "wake" -> <<"wakeup">> [] k = "count" -> <<"tick">>
    [] k = "asleep" -> <<"intena", TRUE>> [] k = "preempted" -> <<"intena", FALSE>>
    [] k = "sleepSt" -> <<"state", "SLEEPING">> [] k = "yieldSt" -> <<"state", "RUNNABLE">>
    [] k = "scan" -> <<"scan", a>>
Below(k, b) ==
  CASE k \in {"trapret", "scan"} -> "user"
    [] k \in {"forkret", "done", "ticks0", "loop"} -> "trapret"
    [] k \in {"call", "callX"} -> "ticks0" [] k \in {"again", "againX"} -> "loop"
    [] k = "woken" -> "again" [] k \in {"asleep", "sleepSw"} -> "woken" [] k = "sleepSt" -> "sleepSw"
    [] k = "sleepR" -> "sleepSt" [] k \in {"sleep", "sleepX"} -> "sleepR"
    [] k \in {"idle", "idleX"} -> "scan" [] k = "sti" -> "idle" [] k = "none" -> "sti"
    [] k = "iret" -> b [] k = "yieldR" -> "iret" [] k \in {"preempted", "yieldSw"} -> "yieldR"
    [] k = "yieldSt" -> "yieldSw" [] k \in {"yield", "yieldX"} -> "yieldSt"
    [] k = "tickRT" -> IF b \in ProcRests THEN "yield" ELSE "iret"
    [] k = "tickRP" -> "tickRT" [] k = "wake" -> "tickRP" [] k \in {"tickP", "tickPX"} -> "wake"
    [] k = "count" -> "tickP" [] k \in {"tick", "tickX"} -> "count"

Within(s, e) == \E i \in DOMAIN s : s[i] = e

\* An entry on a stack.
LEMMA Pushed ==
  ASSUME NEW S, NEW e \in S, NEW s \in Seq(S)
  PROVE  /\ On(e, s) \in Seq(S) /\ On(e, s) # <<>> /\ Head(On(e, s)) = e /\ Tail(On(e, s)) = s
         /\ \A x : Within(On(e, s), x) <=> e = x \/ Within(s, x)
<1> DEFINE n == <<e>> \o s
<1>1. <<e>> \in Seq(S) /\ Len(<<e>>) = 1 /\ <<e>>[1] = e
  OBVIOUS
<1>2. Len(s) \in Nat /\ DOMAIN s = 1..Len(s)
  BY LenProperties
<1>3. /\ n \in Seq(S) /\ Len(n) = 1 + Len(s)
      /\ \A i \in 1 .. 1 + Len(s) : n[i] = IF i <= 1 THEN e ELSE s[i - 1]
  BY <1>1, ConcatProperties
<1> HIDE DEF n
<1>4. DOMAIN n = 1 .. 1 + Len(s)
  BY <1>3, LenProperties
<1>5. n # <<>> /\ Head(n) = e
  BY <1>2, <1>3
<1>6. Tail(n) \in Seq(S) /\ Len(Tail(n)) = Len(s) /\ \A i \in 1 .. Len(s) : Tail(n)[i] = s[i]
  <2>1. Tail(n) \in Seq(S) /\ Len(Tail(n)) = Len(n) - 1 /\ \A i \in 1 .. Len(Tail(n)) : Tail(n)[i] = n[i + 1]
    BY <1>3, <1>5, HeadTailProperties
  <2> QED BY <1>2, <1>3, <2>1
<1>7. Tail(n) = s
  BY <1>6, SeqEqual
<1>8. ASSUME NEW x PROVE Within(n, x) <=> e = x \/ Within(s, x)
  <2>1. ASSUME Within(n, x) PROVE e = x \/ Within(s, x)
    <3>1. PICK i \in 1 .. 1 + Len(s) : n[i] = x
      BY <1>4, <2>1 DEF Within
    <3>2. CASE i = 1
      BY <1>3, <3>1, <3>2
    <3>3. CASE i # 1
      <4>1. i - 1 \in 1 .. Len(s) /\ s[i - 1] = x
        BY <1>2, <1>3, <3>1, <3>3
      <4> QED BY <1>2, <4>1 DEF Within
    <3> QED BY <3>2, <3>3
  <2>2. ASSUME e = x PROVE Within(n, x)
    BY <1>2, <1>3, <1>4, <2>2 DEF Within
  <2>3. ASSUME Within(s, x) PROVE Within(n, x)
    <3>1. PICK i \in 1 .. Len(s) : s[i] = x
      BY <1>2, <2>3 DEF Within
    <3>2. i + 1 \in 1 .. 1 + Len(s) /\ n[i + 1] = x
      BY <1>2, <1>3, <3>1
    <3> QED BY <1>4, <3>2 DEF Within
  <2> QED BY <2>1, <2>2, <2>3
<1> QED
  BY <1>3, <1>5, <1>7, <1>8 DEF On, n

\* What may be on a stack.
LEMMA InEntries ==
  /\ <<"sti">> \in Entries /\ <<"sched">> \in Entries /\ <<"wakeup">> \in Entries /\ <<"tick">> \in Entries
  /\ <<"iret">> \in Entries /\ <<"trapret">> \in Entries /\ <<"ticks0">> \in Entries /\ <<"loop">> \in Entries
  /\ <<"acquire", "ticks">> \in Entries /\ <<"acquire", "ptable">> \in Entries
  /\ <<"xchg", "ticks">> \in Entries /\ <<"xchg", "ptable">> \in Entries
  /\ <<"release", "ticks">> \in Entries /\ <<"release", "ptable">> \in Entries
  /\ <<"intena", TRUE>> \in Entries /\ <<"intena", FALSE>> \in Entries
  /\ <<"state", "SLEEPING">> \in Entries /\ <<"state", "RUNNABLE">> \in Entries
  /\ \A x \in Int : <<"scan", x>> \in Entries
<1>1. /\ <<"sti">> \in Entries /\ <<"sched">> \in Entries /\ <<"wakeup">> \in Entries /\ <<"tick">> \in Entries
      /\ <<"iret">> \in Entries /\ <<"trapret">> \in Entries /\ <<"ticks0">> \in Entries /\ <<"loop">> \in Entries
  BY DEF Entries
<1>2. /\ <<"acquire", "ticks">> \in Entries /\ <<"acquire", "ptable">> \in Entries
      /\ <<"xchg", "ticks">> \in Entries /\ <<"xchg", "ptable">> \in Entries
      /\ <<"release", "ticks">> \in Entries /\ <<"release", "ptable">> \in Entries
  BY DEF Entries, Locks
<1>3. /\ <<"intena", TRUE>> \in Entries /\ <<"intena", FALSE>> \in Entries
      /\ <<"state", "SLEEPING">> \in Entries /\ <<"state", "RUNNABLE">> \in Entries
  BY DEF Entries
<1>4. \A x \in Int : <<"scan", x>> \in Entries
  BY DEF Entries
<1> QED
  BY <1>1, <1>2, <1>3, <1>4

\* The sequences of the paths.
LEMMA PathsAreSeqs ==
  ASSUME NEW k \in Points, NEW b \in Rests, NEW a \in Int
  PROVE  Stack(k, b, a) \in Seq(Entries)
<1>1. ASSUME NEW e \in Entries, NEW s \in Seq(Entries) PROVE On(e, s) \in Seq(Entries)
  BY Pushed
<1>2. <<>> \in Seq(Entries)
  OBVIOUS
<1>3. /\ <<"sti">> \in Entries /\ <<"sched">> \in Entries /\ <<"wakeup">> \in Entries /\ <<"tick">> \in Entries
      /\ <<"iret">> \in Entries /\ <<"trapret">> \in Entries /\ <<"ticks0">> \in Entries /\ <<"loop">> \in Entries
  BY InEntries
<1>4. /\ <<"acquire", "ticks">> \in Entries /\ <<"acquire", "ptable">> \in Entries
      /\ <<"xchg", "ticks">> \in Entries /\ <<"xchg", "ptable">> \in Entries
      /\ <<"release", "ticks">> \in Entries /\ <<"release", "ptable">> \in Entries
      /\ <<"intena", TRUE>> \in Entries /\ <<"intena", FALSE>> \in Entries
      /\ <<"state", "SLEEPING">> \in Entries /\ <<"state", "RUNNABLE">> \in Entries
  BY InEntries
<1>5. \A x \in Int : <<"scan", x>> \in Entries
  BY InEntries
<1>6. /\ AtTrapret \in Seq(Entries)
      /\ \A x \in Int : AtScan(x) \in Seq(Entries)
  BY <1>1, <1>2, <1>3, <1>5 DEF AtTrapret, AtScan
<1>7. /\ AtForkret \in Seq(Entries) /\ AtDone \in Seq(Entries) /\ AtTicks0 \in Seq(Entries) /\ AtLoop \in Seq(Entries)
      /\ AtIdleX \in Seq(Entries) /\ AtIdle \in Seq(Entries)
  <2>1. AtScan(1) \in Seq(Entries)
    BY <1>6
  <2>2. AtForkret \in Seq(Entries) /\ AtDone \in Seq(Entries)
    BY <1>1, <1>4, <1>6 DEF AtForkret, AtDone
  <2>3. AtTicks0 \in Seq(Entries) /\ AtLoop \in Seq(Entries)
    BY <1>1, <1>3, <1>6 DEF AtTicks0, AtLoop
  <2>4. AtIdleX \in Seq(Entries) /\ AtIdle \in Seq(Entries)
    BY <1>1, <1>4, <2>1 DEF AtIdleX, AtIdle
  <2> QED BY <2>2, <2>3, <2>4
<1>8. /\ AtCallX \in Seq(Entries) /\ AtCall \in Seq(Entries) /\ AtAgainX \in Seq(Entries) /\ AtAgain \in Seq(Entries)
      /\ AtSti \in Seq(Entries)
  BY <1>1, <1>3, <1>4, <1>7 DEF AtCallX, AtCall, AtAgainX, AtAgain, AtSti
<1>9. AtWoken \in Seq(Entries) /\ AtNone \in Seq(Entries) /\ Rest(b) \in Seq(Entries)
  BY <1>1, <1>2, <1>4, <1>6, <1>7, <1>8 DEF AtWoken, AtNone, Rest, Rests, ProcRests, SchedRests
<1>10. AtAsleep \in Seq(Entries) /\ AtSleepSw \in Seq(Entries) /\ AtIret(b) \in Seq(Entries)
  BY <1>1, <1>3, <1>4, <1>9 DEF AtAsleep, AtSleepSw, AtIret
<1>11. AtSleepSt \in Seq(Entries) /\ AtYieldR(b) \in Seq(Entries)
  BY <1>1, <1>4, <1>10 DEF AtSleepSt, AtYieldR
<1>12. AtSleepR \in Seq(Entries) /\ AtPreempted(b) \in Seq(Entries) /\ AtYieldSw(b) \in Seq(Entries)
  BY <1>1, <1>3, <1>4, <1>11 DEF AtSleepR, AtPreempted, AtYieldSw
<1>13. AtSleepX \in Seq(Entries) /\ AtSleep \in Seq(Entries) /\ AtYieldSt(b) \in Seq(Entries)
  BY <1>1, <1>4, <1>12 DEF AtSleepX, AtSleep, AtYieldSt
<1>14. AtYieldX(b) \in Seq(Entries) /\ AtYield(b) \in Seq(Entries)
  BY <1>1, <1>4, <1>13 DEF AtYieldX, AtYield
<1>15. Ticked(b) \in Seq(Entries)
  BY <1>10, <1>14 DEF Ticked
<1>16. AtTickRT(b) \in Seq(Entries)
  BY <1>1, <1>4, <1>15 DEF AtTickRT
<1>17. AtTickRP(b) \in Seq(Entries)
  BY <1>1, <1>4, <1>16 DEF AtTickRP
<1>18. AtWake(b) \in Seq(Entries)
  BY <1>1, <1>3, <1>17 DEF AtWake
<1>19. AtTickPX(b) \in Seq(Entries) /\ AtTickP(b) \in Seq(Entries)
  BY <1>1, <1>4, <1>18 DEF AtTickPX, AtTickP
<1>20. AtCount(b) \in Seq(Entries)
  BY <1>1, <1>3, <1>19 DEF AtCount
<1>21. AtTickX(b) \in Seq(Entries) /\ AtTick(b) \in Seq(Entries)
  BY <1>1, <1>4, <1>20 DEF AtTickX, AtTick
<1>22. k \in Rests => Rest(k) \in Seq(Entries)
  BY <1>2, <1>6, <1>7, <1>8 DEF Rest, Rests, ProcRests, SchedRests
<1> QED
  BY <1>6, <1>7, <1>8, <1>9, <1>10, <1>11, <1>12, <1>13, <1>14, <1>16, <1>17, <1>18, <1>19, <1>20, <1>21, <1>22
     DEF Stack, Points, ProcOnly, SchedOnly, Handling, Ticking, Yielding, Sleeping, Rests, ProcRests, SchedRests

\* The stack at each point.
LEMMA Stacks ==
  ASSUME NEW b, NEW a
  PROVE  /\ Stack("user", b, a) = <<>>
         /\ Stack("sti", b, a) = AtSti
         /\ Stack("idle", b, a) = AtIdle
         /\ Stack("call", b, a) = AtCall
         /\ Stack("again", b, a) = AtAgain
         /\ Stack("trapret", b, a) = AtTrapret
         /\ Stack("forkret", b, a) = AtForkret
         /\ Stack("done", b, a) = AtDone
         /\ Stack("ticks0", b, a) = AtTicks0
         /\ Stack("callX", b, a) = AtCallX
         /\ Stack("loop", b, a) = AtLoop
         /\ Stack("againX", b, a) = AtAgainX
         /\ Stack("woken", b, a) = AtWoken
         /\ Stack("asleep", b, a) = AtAsleep
         /\ Stack("sleepSw", b, a) = AtSleepSw
         /\ Stack("sleepSt", b, a) = AtSleepSt
         /\ Stack("sleepR", b, a) = AtSleepR
         /\ Stack("sleepX", b, a) = AtSleepX
         /\ Stack("sleep", b, a) = AtSleep
         /\ Stack("scan", b, a) = AtScan(a)
         /\ Stack("idleX", b, a) = AtIdleX
         /\ Stack("none", b, a) = AtNone
         /\ Stack("iret", b, a) = AtIret(b)
         /\ Stack("yieldR", b, a) = AtYieldR(b)
         /\ Stack("preempted", b, a) = AtPreempted(b)
         /\ Stack("yieldSw", b, a) = AtYieldSw(b)
         /\ Stack("yieldSt", b, a) = AtYieldSt(b)
         /\ Stack("yieldX", b, a) = AtYieldX(b)
         /\ Stack("yield", b, a) = AtYield(b)
         /\ Stack("tickRT", b, a) = AtTickRT(b)
         /\ Stack("tickRP", b, a) = AtTickRP(b)
         /\ Stack("wake", b, a) = AtWake(b)
         /\ Stack("tickPX", b, a) = AtTickPX(b)
         /\ Stack("tickP", b, a) = AtTickP(b)
         /\ Stack("count", b, a) = AtCount(b)
         /\ Stack("tickX", b, a) = AtTickX(b)
         /\ Stack("tick", b, a) = AtTick(b)
         /\ \A k \in Rests : Stack(k, b, a) = Rest(k)
BY DEF Stack, Rest, Rests, ProcRests, SchedRests

\* A point's stack is its entry on the stack of the point below.
LEMMA Unfolds ==
  ASSUME NEW k \in Points \ {"user"}, NEW b \in Rests, NEW a \in Int
  PROVE  /\ Below(k, b) \in Points
         /\ Stack(k, b, a) = On(Op(k, a), Stack(Below(k, b), b, 1))
         /\ Op(k, a) \in Entries
<1> USE DEF Points, ProcOnly, SchedOnly, Handling, Ticking, Yielding, Sleeping, Rests, ProcRests, SchedRests
<1>1. CASE k = "sti"
  BY <1>1, Stacks, InEntries DEF Below, Op, AtSti
<1>2. CASE k = "idle"
  BY <1>2, Stacks, InEntries DEF Below, Op, AtIdle
<1>3. CASE k = "call"
  BY <1>3, Stacks, InEntries DEF Below, Op, AtCall
<1>4. CASE k = "again"
  BY <1>4, Stacks, InEntries DEF Below, Op, AtAgain
<1>5. CASE k = "trapret"
  BY <1>5, Stacks, InEntries DEF Below, Op, AtTrapret
<1>6. CASE k = "forkret"
  BY <1>6, Stacks, InEntries DEF Below, Op, AtForkret
<1>7. CASE k = "done"
  BY <1>7, Stacks, InEntries DEF Below, Op, AtDone
<1>8. CASE k = "ticks0"
  BY <1>8, Stacks, InEntries DEF Below, Op, AtTicks0
<1>9. CASE k = "callX"
  BY <1>9, Stacks, InEntries DEF Below, Op, AtCallX
<1>10. CASE k = "loop"
  BY <1>10, Stacks, InEntries DEF Below, Op, AtLoop
<1>11. CASE k = "againX"
  BY <1>11, Stacks, InEntries DEF Below, Op, AtAgainX
<1>12. CASE k = "woken"
  BY <1>12, Stacks, InEntries DEF Below, Op, AtWoken
<1>13. CASE k = "asleep"
  BY <1>13, Stacks, InEntries DEF Below, Op, AtAsleep
<1>14. CASE k = "sleepSw"
  BY <1>14, Stacks, InEntries DEF Below, Op, AtSleepSw
<1>15. CASE k = "sleepSt"
  BY <1>15, Stacks, InEntries DEF Below, Op, AtSleepSt
<1>16. CASE k = "sleepR"
  BY <1>16, Stacks, InEntries DEF Below, Op, AtSleepR
<1>17. CASE k = "sleepX"
  BY <1>17, Stacks, InEntries DEF Below, Op, AtSleepX
<1>18. CASE k = "sleep"
  BY <1>18, Stacks, InEntries DEF Below, Op, AtSleep
<1>19. CASE k = "scan"
  <2>1. Op(k, a) = <<"scan", a>> /\ Below(k, b) = "user"
    BY <1>19 DEF Op, Below
  <2>2. Stack(k, b, a) = On(<<"scan", a>>, <<>>) /\ Stack("user", b, 1) = <<>>
    BY <1>19, Stacks DEF AtScan
  <2> QED BY <2>1, <2>2, InEntries
<1>20. CASE k = "idleX"
  BY <1>20, Stacks, InEntries DEF Below, Op, AtIdleX
<1>21. CASE k = "none"
  BY <1>21, Stacks, InEntries DEF Below, Op, AtNone
<1>22. CASE k = "iret"
  BY <1>22, Stacks, InEntries DEF Below, Op, AtIret
<1>23. CASE k = "yieldR"
  BY <1>23, Stacks, InEntries DEF Below, Op, AtYieldR
<1>24. CASE k = "preempted"
  BY <1>24, Stacks, InEntries DEF Below, Op, AtPreempted
<1>25. CASE k = "yieldSw"
  BY <1>25, Stacks, InEntries DEF Below, Op, AtYieldSw
<1>26. CASE k = "yieldSt"
  BY <1>26, Stacks, InEntries DEF Below, Op, AtYieldSt
<1>27. CASE k = "yieldX"
  BY <1>27, Stacks, InEntries DEF Below, Op, AtYieldX
<1>28. CASE k = "yield"
  BY <1>28, Stacks, InEntries DEF Below, Op, AtYield
<1>29. CASE k = "tickRT"
  BY <1>29, Stacks, InEntries DEF Below, Op, AtTickRT, Ticked
<1>30. CASE k = "tickRP"
  BY <1>30, Stacks, InEntries DEF Below, Op, AtTickRP
<1>31. CASE k = "wake"
  BY <1>31, Stacks, InEntries DEF Below, Op, AtWake
<1>32. CASE k = "tickPX"
  BY <1>32, Stacks, InEntries DEF Below, Op, AtTickPX
<1>33. CASE k = "tickP"
  BY <1>33, Stacks, InEntries DEF Below, Op, AtTickP
<1>34. CASE k = "count"
  BY <1>34, Stacks, InEntries DEF Below, Op, AtCount
<1>35. CASE k = "tickX"
  BY <1>35, Stacks, InEntries DEF Below, Op, AtTickX
<1>36. CASE k = "tick"
  BY <1>36, Stacks, InEntries DEF Below, Op, AtTick
<1> QED
  BY <1>1, <1>2, <1>3, <1>4, <1>5, <1>6, <1>7, <1>8, <1>9, <1>10, <1>11, <1>12, <1>13, <1>14, <1>15, <1>16, <1>17, <1>18, <1>19, <1>20, <1>21, <1>22, <1>23, <1>24, <1>25, <1>26, <1>27, <1>28, <1>29, <1>30, <1>31, <1>32, <1>33, <1>34, <1>35, <1>36

\* The thread at a point does the entry of that point, and goes on below it.
LEMMA Pops ==
  ASSUME NEW k \in Points, NEW b \in Rests, NEW a \in Int, Stack(k, b, a) # <<>>
  PROVE  /\ k # "user" /\ Below(k, b) \in Points
         /\ Head(Stack(k, b, a)) = Op(k, a) /\ Tail(Stack(k, b, a)) = Stack(Below(k, b), b, 1)
         /\ Stack(Below(k, b), b, 1) \in Seq(Entries)
<1>1. k # "user"
  BY Stacks
<1>2. /\ Below(k, b) \in Points /\ Op(k, a) \in Entries
      /\ Stack(k, b, a) = On(Op(k, a), Stack(Below(k, b), b, 1))
  BY <1>1, Unfolds
<1>3. Stack(Below(k, b), b, 1) \in Seq(Entries)
  BY <1>2, PathsAreSeqs
<1> DEFINE s == Stack(Below(k, b), b, 1)
           e == Op(k, a)
<1>4. e \in Entries /\ s \in Seq(Entries)
  BY <1>2, <1>3
<1> HIDE DEF s, e
<1>5. Head(On(e, s)) = e /\ Tail(On(e, s)) = s
  BY ONLY <1>4, Pushed
<1> QED
  BY <1>1, <1>2, <1>3, <1>5 DEF s, e

\* The points at which an entry is on top.
LEMMA Tops ==
  ASSUME NEW k \in Points \ {"user"}, NEW a
  PROVE  /\ Op(k, a)[1] = "acquire" => k \in {"call", "again", "tick", "idle", "sleep", "yield", "tickP"}
         /\ Op(k, a)[1] = "xchg" => k \in {"callX", "againX", "tickX", "idleX", "sleepX", "yieldX", "tickPX"}
         /\ Op(k, a)[1] = "release" =>
              k \in {"sleepR", "done", "tickRT", "forkret", "woken", "none", "yieldR", "tickRP"}
         /\ Op(k, a)[1] = "sched" => k \in {"sleepSw", "yieldSw"}
         /\ Op(k, a)[1] = "intena" => k \in {"asleep", "preempted"}
         /\ Op(k, a)[1] = "state" => k \in {"sleepSt", "yieldSt"}
         /\ Op(k, a)[1] \in {"iret", "trapret"} => k \in {"iret", "trapret"}
         /\ Op(k, a)[1] = "sti" => k = "sti"
         /\ Op(k, a)[1] = "ticks0" => k = "ticks0"
         /\ Op(k, a)[1] = "loop" => k = "loop"
         /\ Op(k, a)[1] = "wakeup" => k = "wake"
         /\ Op(k, a)[1] = "tick" => k = "count"
         /\ Op(k, a)[1] = "scan" => k = "scan"
<1>0. \/ k \in {"call", "again", "tick"}
      \/ k \in {"idle", "sleep", "yield", "tickP"}
      \/ k \in {"callX", "againX", "tickX"}
      \/ k \in {"idleX", "sleepX", "yieldX", "tickPX"}
      \/ k \in {"sleepR", "done", "tickRT"}
      \/ k \in {"forkret", "woken", "none", "yieldR", "tickRP"}
      \/ k \in {"sleepSw", "yieldSw"}
      \/ k = "sti"
      \/ k = "trapret"
      \/ k = "iret"
      \/ k = "ticks0"
      \/ k = "loop"
      \/ k = "wake"
      \/ k = "count"
      \/ k = "asleep"
      \/ k = "preempted"
      \/ k = "sleepSt"
      \/ k = "yieldSt"
      \/ k = "scan"
  BY DEF Points, ProcOnly, SchedOnly, Handling, Ticking, Yielding, Sleeping, Rests, ProcRests, SchedRests
<1>1. CASE k \in {"call", "again", "tick"}
  <2>1. Op(k, a) = <<"acquire", "ticks">>
    BY <1>1 DEF Op
  <2>2. <<"acquire", "ticks">>[1] = "acquire"
    OBVIOUS
  <2>3. Op(k, a)[1] = "acquire"
    BY ONLY <2>1, <2>2
  <2> QED BY <1>1, <2>3
<1>2. CASE k \in {"idle", "sleep", "yield", "tickP"}
  <2>1. Op(k, a) = <<"acquire", "ptable">>
    BY <1>2 DEF Op
  <2>2. <<"acquire", "ptable">>[1] = "acquire"
    OBVIOUS
  <2>3. Op(k, a)[1] = "acquire"
    BY ONLY <2>1, <2>2
  <2> QED BY <1>2, <2>3
<1>3. CASE k \in {"callX", "againX", "tickX"}
  <2>1. Op(k, a) = <<"xchg", "ticks">>
    BY <1>3 DEF Op
  <2>2. <<"xchg", "ticks">>[1] = "xchg"
    OBVIOUS
  <2>3. Op(k, a)[1] = "xchg"
    BY ONLY <2>1, <2>2
  <2> QED BY <1>3, <2>3
<1>4. CASE k \in {"idleX", "sleepX", "yieldX", "tickPX"}
  <2>1. Op(k, a) = <<"xchg", "ptable">>
    BY <1>4 DEF Op
  <2>2. <<"xchg", "ptable">>[1] = "xchg"
    OBVIOUS
  <2>3. Op(k, a)[1] = "xchg"
    BY ONLY <2>1, <2>2
  <2> QED BY <1>4, <2>3
<1>5. CASE k \in {"sleepR", "done", "tickRT"}
  <2>1. Op(k, a) = <<"release", "ticks">>
    BY <1>5 DEF Op
  <2>2. <<"release", "ticks">>[1] = "release"
    OBVIOUS
  <2>3. Op(k, a)[1] = "release"
    BY ONLY <2>1, <2>2
  <2> QED BY <1>5, <2>3
<1>6. CASE k \in {"forkret", "woken", "none", "yieldR", "tickRP"}
  <2>1. Op(k, a) = <<"release", "ptable">>
    BY <1>6 DEF Op
  <2>2. <<"release", "ptable">>[1] = "release"
    OBVIOUS
  <2>3. Op(k, a)[1] = "release"
    BY ONLY <2>1, <2>2
  <2> QED BY <1>6, <2>3
<1>7. CASE k \in {"sleepSw", "yieldSw"}
  <2>1. Op(k, a) = <<"sched">>
    BY <1>7 DEF Op
  <2>2. <<"sched">>[1] = "sched"
    OBVIOUS
  <2>3. Op(k, a)[1] = "sched"
    BY ONLY <2>1, <2>2
  <2> QED BY <1>7, <2>3
<1>8. CASE k = "sti"
  <2>1. Op(k, a) = <<"sti">>
    BY <1>8 DEF Op
  <2>2. <<"sti">>[1] = "sti"
    OBVIOUS
  <2>3. Op(k, a)[1] = "sti"
    BY ONLY <2>1, <2>2
  <2> QED BY <1>8, <2>3
<1>9. CASE k = "trapret"
  <2>1. Op(k, a) = <<"trapret">>
    BY <1>9 DEF Op
  <2>2. <<"trapret">>[1] = "trapret"
    OBVIOUS
  <2>3. Op(k, a)[1] = "trapret"
    BY ONLY <2>1, <2>2
  <2> QED BY <1>9, <2>3
<1>10. CASE k = "iret"
  <2>1. Op(k, a) = <<"iret">>
    BY <1>10 DEF Op
  <2>2. <<"iret">>[1] = "iret"
    OBVIOUS
  <2>3. Op(k, a)[1] = "iret"
    BY ONLY <2>1, <2>2
  <2> QED BY <1>10, <2>3
<1>11. CASE k = "ticks0"
  <2>1. Op(k, a) = <<"ticks0">>
    BY <1>11 DEF Op
  <2>2. <<"ticks0">>[1] = "ticks0"
    OBVIOUS
  <2>3. Op(k, a)[1] = "ticks0"
    BY ONLY <2>1, <2>2
  <2> QED BY <1>11, <2>3
<1>12. CASE k = "loop"
  <2>1. Op(k, a) = <<"loop">>
    BY <1>12 DEF Op
  <2>2. <<"loop">>[1] = "loop"
    OBVIOUS
  <2>3. Op(k, a)[1] = "loop"
    BY ONLY <2>1, <2>2
  <2> QED BY <1>12, <2>3
<1>13. CASE k = "wake"
  <2>1. Op(k, a) = <<"wakeup">>
    BY <1>13 DEF Op
  <2>2. <<"wakeup">>[1] = "wakeup"
    OBVIOUS
  <2>3. Op(k, a)[1] = "wakeup"
    BY ONLY <2>1, <2>2
  <2> QED BY <1>13, <2>3
<1>14. CASE k = "count"
  <2>1. Op(k, a) = <<"tick">>
    BY <1>14 DEF Op
  <2>2. <<"tick">>[1] = "tick"
    OBVIOUS
  <2>3. Op(k, a)[1] = "tick"
    BY ONLY <2>1, <2>2
  <2> QED BY <1>14, <2>3
<1>15. CASE k = "asleep"
  <2>1. Op(k, a) = <<"intena", TRUE>>
    BY <1>15 DEF Op
  <2>2. <<"intena", TRUE>>[1] = "intena"
    OBVIOUS
  <2>3. Op(k, a)[1] = "intena"
    BY ONLY <2>1, <2>2
  <2> QED BY <1>15, <2>3
<1>16. CASE k = "preempted"
  <2>1. Op(k, a) = <<"intena", FALSE>>
    BY <1>16 DEF Op
  <2>2. <<"intena", FALSE>>[1] = "intena"
    OBVIOUS
  <2>3. Op(k, a)[1] = "intena"
    BY ONLY <2>1, <2>2
  <2> QED BY <1>16, <2>3
<1>17. CASE k = "sleepSt"
  <2>1. Op(k, a) = <<"state", "SLEEPING">>
    BY <1>17 DEF Op
  <2>2. <<"state", "SLEEPING">>[1] = "state"
    OBVIOUS
  <2>3. Op(k, a)[1] = "state"
    BY ONLY <2>1, <2>2
  <2> QED BY <1>17, <2>3
<1>18. CASE k = "yieldSt"
  <2>1. Op(k, a) = <<"state", "RUNNABLE">>
    BY <1>18 DEF Op
  <2>2. <<"state", "RUNNABLE">>[1] = "state"
    OBVIOUS
  <2>3. Op(k, a)[1] = "state"
    BY ONLY <2>1, <2>2
  <2> QED BY <1>18, <2>3
<1>19. CASE k = "scan"
  <2>1. Op(k, a) = <<"scan", a>>
    BY <1>19 DEF Op
  <2>2. <<"scan", a>>[1] = "scan"
    OBVIOUS
  <2>3. Op(k, a)[1] = "scan"
    BY ONLY <2>1, <2>2
  <2> QED BY <1>19, <2>3
<1> QED
  BY <1>0, <1>1, <1>2, <1>3, <1>4, <1>5, <1>6, <1>7, <1>8, <1>9, <1>10, <1>11, <1>12, <1>13, <1>14, <1>15, <1>16, <1>17, <1>18, <1>19

-----------------------------------------------------------------------------
(* Steps. *)

CpuType == [ncli : Int, intena : BOOLEAN, proc : 0..NProc, iflag : BOOLEAN, timer : BOOLEAN]
States  == {"RUNNABLE", "RUNNING", "SLEEPING"}

\* The threads of the processors are different.
LEMMA ThreadsDiffer ==
  ASSUME TypeOK, Alone, NEW c \in Cpus
  PROVE  /\ cpu[c] \in CpuType /\ Thread(c) \in Threads /\ Sched(c) \in Threads
         /\ cpu[c].proc # 0 => Thread(c) = cpu[c].proc /\ Thread(c) \in Procs /\ Thread(c) # Sched(c)
         /\ cpu[c].proc = 0 => Thread(c) = Sched(c) /\ Thread(c) \notin Procs
         /\ \A d \in Cpus \ {c} : Thread(d) # Thread(c) /\ Sched(d) # Thread(c)
         /\ \A p \in Procs : cpu[c].proc # p => Thread(c) # p
         /\ \A p \in Procs : p # 0 /\ p # Sched(c) /\ p \in Threads
<1>1. \A d \in Cpus : cpu[d] \in CpuType
  BY DEF TypeOK, CpuType
<1>2. \A d \in Cpus : cpu[d].proc \in 0..NProc
  BY <1>1 DEF CpuType
<1>3. NProc \in Nat /\ NCpu \in Nat
  BY CpuAssumption
<1>4. \A d \in Cpus : cpu[d].proc # 0 => Thread(d) = cpu[d].proc /\ Thread(d) \in Procs
  BY <1>2, <1>3 DEF Thread, Procs
<1>5. \A d \in Cpus : cpu[d].proc = 0 => Thread(d) = Sched(d)
  BY DEF Thread
<1>6. \A d \in Cpus : Sched(d) \in Threads /\ d \in Int /\ d > 0 /\ Sched(d) = -d
  BY <1>3 DEF Sched, Threads, Cpus
<1>7. \A p \in Procs : p \in Int /\ p > 0 /\ p \in Threads
  BY <1>3 DEF Procs, Threads
<1>8. \A d \in Cpus, p \in Procs : Sched(d) # p
  BY <1>6, <1>7
<1>9. \A d, e \in Cpus : d # e => Sched(d) # Sched(e)
  BY <1>6
<1>10. \A d \in Cpus \ {c} : Thread(d) # Thread(c) /\ Sched(d) # Thread(c)
  BY <1>4, <1>5, <1>8, <1>9 DEF Alone
<1> QED
  BY <1>1, <1>4, <1>5, <1>6, <1>7, <1>8, <1>10

\* What a step of processor c leaves to the others.
OthersKeep(c) ==
  /\ \A l \in Locks, d \in Cpus \ {c} : lock'[l] = d <=> lock[l] = d
  /\ \A d \in Cpus \ {c} : cpu[d].proc # 0 => state'[cpu[d].proc] = state[cpu[d].proc]
  /\ \A p \in Procs : (\A d \in Cpus : cpu[d].proc # p) => state'[p] \in {"RUNNABLE", "SLEEPING"}

\* A step by which the thread of processor c comes to point k, and leaves its
\* processor in state r.
ComesTo(c, k, b, a, r) ==
  /\ r.proc = cpu[c].proc /\ cpu' = [cpu EXCEPT ![c] = r]
  /\ todo' = [todo EXCEPT ![Thread(c)] = Stack(k, b, a)]
  /\ PointOf(c, k, b) /\ r.ncli = Depth(k) /\ IflagOk(k, r.iflag) /\ IntenaOk(k, r.intena)
  /\ lock' \in [Locks -> 0..NCpu] /\ \A l \in Locks : lock'[l] = c <=> l \in Held(k)
  /\ state' \in [Procs -> States] /\ (r.proc # 0 => state'[r.proc] = StateAt(k))
  /\ OthersKeep(c) /\ panic' = panic

\* A step to another point of the thread, with what it does to its processor,
\* the locks and the states, keeps the invariant.
LEMMA Goes ==
  ASSUME IInv, NEW c \in Cpus, NEW k \in Points, NEW b \in Rests, NEW a \in Int, NEW r \in CpuType,
         ComesTo(c, k, b, a, r)
  PROVE  IInv'
<1> USE DEF ComesTo
<1> DEFINE t == Thread(c)
<1>1. TypeOK /\ CpuRuns /\ Alone /\ OffCpu
  BY DEF IInv
<1>2. /\ cpu'[c] = r /\ \A d \in Cpus \ {c} : cpu'[d] = cpu[d]
      /\ \A d \in Cpus : cpu'[d].proc = cpu[d].proc
  BY <1>1 DEF TypeOK
<1>3. /\ t \in Threads /\ Sched(c) \in Threads /\ (r.proc # 0 => t # Sched(c))
      /\ \A d \in Cpus \ {c} : Thread(d) # t /\ Sched(d) # t
      /\ \A p \in Procs : r.proc # p => t # p
  BY <1>1, ThreadsDiffer
<1>4. todo'[t] = Stack(k, b, a) /\ \A u : u \in Threads /\ u # t => todo'[u] = todo[u]
  BY <1>1, <1>3 DEF TypeOK
<1>5. \A d \in Cpus : Thread(d)' = Thread(d) /\ Sched(d) \in Threads /\ Thread(d) \in Threads
  BY <1>1, <1>2, ThreadsDiffer DEF Thread
<1>6. TypeOK'
  <2>1. Stack(k, b, a) \in Seq(Entries)
    BY PathsAreSeqs
  <2> QED BY <1>1, <2>1 DEF TypeOK, CpuType, States
<1>7. Alone'
  BY <1>1, <1>2 DEF Alone
<1>8. RunsAt(c, k, b, a)'
  <2>1. PointOf(c, k, b)'
    BY <1>2 DEF PointOf
  <2>2. todo'[Thread(c)'] = Stack(k, b, a)
    BY <1>4, <1>5
  <2> QED BY <1>2, <2>1, <2>2 DEF RunsAt
<1>9. ASSUME NEW d \in Cpus \ {c}, NEW m \in Points, NEW e \in Rests, NEW n \in Int, RunsAt(d, m, e, n)
      PROVE  RunsAt(d, m, e, n)'
  <2>1. PointOf(d, m, e)'
    BY <1>2, <1>9 DEF PointOf, RunsAt
  <2>2. todo'[Thread(d)'] = Stack(m, e, n)
    BY <1>3, <1>4, <1>5, <1>9 DEF RunsAt
  <2>3. \A l \in Locks : lock'[l] = d <=> l \in Held(m)
    BY <1>9 DEF RunsAt, OthersKeep
  <2>4. cpu'[d].proc # 0 => state'[cpu'[d].proc] = StateAt(m)
    BY <1>2, <1>9 DEF RunsAt, OthersKeep
  <2> QED BY <1>2, <1>9, <2>1, <2>2, <2>3, <2>4 DEF RunsAt
<1>10. ASSUME NEW d \in Cpus
       PROVE  /\ \E m \in Points, e \in Rests, n \in Int : RunsAt(d, m, e, n)'
              /\ cpu'[d].proc # 0 => \E n \in Int : todo'[Sched(d)] = Stack("scan", "sti", n)
  <2>1. /\ \E m \in Points, e \in Rests, n \in Int : RunsAt(d, m, e, n)
        /\ cpu[d].proc # 0 => \E n \in Int : todo[Sched(d)] = Stack("scan", "sti", n)
    BY <1>1 DEF CpuRuns
  <2>2. \E m \in Points, e \in Rests, n \in Int : RunsAt(d, m, e, n)'
    BY <1>8, <1>9, <2>1
  <2>3. cpu'[d].proc # 0 => todo'[Sched(d)] = todo[Sched(d)]
    BY <1>2, <1>3, <1>4, <1>5
  <2> QED BY <1>2, <2>1, <2>2, <2>3
<1>11. CpuRuns'
  BY <1>10 DEF CpuRuns, Sched
<1>12. OffCpu'
  <2> SUFFICES ASSUME NEW p \in Procs, \A d \in Cpus : cpu'[d].proc # p
               PROVE  /\ state'[p] \in {"RUNNABLE", "SLEEPING"}
                      /\ \E m \in Parked, e \in ProcRests : todo'[p] = Stack(m, e, 1)
    BY DEF OffCpu
  <2>1. \A d \in Cpus : cpu[d].proc # p
    BY <1>2
  <2>2. todo'[p] = todo[p]
    BY <1>1, <1>3, <1>4, <2>1, ThreadsDiffer
  <2>3. \E m \in Parked, e \in ProcRests : todo[p] = Stack(m, e, 1)
    BY <1>1, <2>1 DEF OffCpu
  <2> QED BY <2>1, <2>2, <2>3 DEF OthersKeep
<1> QED
  BY <1>6, <1>7, <1>11, <1>12 DEF IInv

\* The entry that processor c does is that of the point of its thread.
LEMMA DoesIs ==
  ASSUME IInv, NEW c \in Cpus, NEW op, Does(c, op)
  PROVE  \E k \in Points \ {"user"}, b \in Rests, a \in Int :
            /\ RunsAt(c, k, b, a) /\ Op(k, a)[1] = op /\ Arg(c) = Op(k, a)[2]
            /\ Below(k, b) \in Points /\ Stack(Below(k, b), b, 1) \in Seq(Entries)
            /\ Tail(todo[Thread(c)]) = Stack(Below(k, b), b, 1)
<1>1. PICK k \in Points, b \in Rests, a \in Int : RunsAt(c, k, b, a)
  BY DEF IInv, CpuRuns
<1>2. todo[Thread(c)] = Stack(k, b, a)
  BY <1>1 DEF RunsAt
<1>3. Stack(k, b, a) # <<>>
  BY <1>2 DEF Does
<1>4. /\ k # "user" /\ Below(k, b) \in Points /\ Stack(Below(k, b), b, 1) \in Seq(Entries)
      /\ Head(Stack(k, b, a)) = Op(k, a) /\ Tail(Stack(k, b, a)) = Stack(Below(k, b), b, 1)
  BY <1>3, Pops
<1>5. Op(k, a)[1] = op /\ Arg(c) = Op(k, a)[2]
  BY <1>2, <1>4 DEF Does, Arg
<1> QED
  BY <1>1, <1>2, <1>4, <1>5

\* What the thread has to do after an entry that pushes nothing, or one entry.
LEMMA ThenIs ==
  ASSUME IInv, NEW c \in Cpus, NEW s \in Seq(Entries), Tail(todo[Thread(c)]) = s
  PROVE  /\ Then(c, <<>>) => todo' = [todo EXCEPT ![Thread(c)] = s]
         /\ \A e : Then(c, <<e>>) => todo' = [todo EXCEPT ![Thread(c)] = On(e, s)]
<1>1. <<>> \o s = s
  BY ConcatEmptySeq
<1>2. Thread(c) \in DOMAIN todo
  BY ThreadsDiffer DEF IInv, TypeOK
<1> QED
  BY <1>1, <1>2 DEF Then, On

\* The states of the processes as a step without effect on them leaves them.
LEMMA SameStates ==
  ASSUME IInv, NEW c \in Cpus, state' = state, \A l \in Locks, d \in Cpus \ {c} : lock'[l] = d <=> lock[l] = d
  PROVE  state' \in [Procs -> States] /\ OthersKeep(c)
BY DEF IInv, TypeOK, States, OthersKeep, OffCpu

\* acquire: pushcli, then the loop of xchg.
Spin(k) == CASE k = "call" -> "callX" [] k = "again" -> "againX" [] k = "tick" -> "tickX" [] k = "idle" -> "idleX"
             [] k = "sleep" -> "sleepX" [] k = "yield" -> "yieldX" [] k = "tickP" -> "tickPX"
Acquired(k) == IF k \in {"call", "again", "tick"} THEN "ticks" ELSE "ptable"
\* From the pushcli of acquire to its loop.
LEMMA AcquireTable ==
  ASSUME NEW k \in {"call", "again", "tick", "idle", "sleep", "yield", "tickP"}, NEW b \in Rests, NEW a, NEW c \in Cpus,
         PointOf(c, k, b)
  PROVE  /\ Spin(k) \in Points \ {"user"} /\ Acquired(k) \in Locks
         /\ Op(k, a) = <<"acquire", Acquired(k)>> /\ Op(Spin(k), 1) = <<"xchg", Acquired(k)>>
         /\ Below(Spin(k), b) = Below(k, b)
         /\ Acquired(k) \notin Held(k) /\ Held(Spin(k)) = Held(k) /\ StateAt(Spin(k)) = StateAt(k)
         /\ PointOf(c, Spin(k), b)
         /\ Depth(k) \in {0, 1} /\ Depth(Spin(k)) = Depth(k) + 1 /\ IflagOk(Spin(k), FALSE)
         /\ Depth(k) = 0 => \A f \in BOOLEAN : IflagOk(k, f) => IntenaOk(Spin(k), f)
         /\ Depth(k) = 1 => \A f \in BOOLEAN : IntenaOk(k, f) => IntenaOk(Spin(k), f)
<1> USE DEF Spin
<1>1. Spin(k) \in Points \ {"user"}
  BY DEF Points, ProcOnly, SchedOnly, Handling, Ticking, Yielding, Sleeping, Rests, ProcRests, SchedRests
<1>2. Acquired(k) \in Locks
  BY DEF Acquired, Locks
<1>3. Op(k, a) = <<"acquire", Acquired(k)>> /\ Op(Spin(k), 1) = <<"xchg", Acquired(k)>>
  BY DEF Op, Acquired
<1>4. Below(Spin(k), b) = Below(k, b)
  BY DEF Below
<1>5. Acquired(k) \notin Held(k) /\ Held(Spin(k)) = Held(k)
  BY DEF Held, Acquired
<1>6. StateAt(Spin(k)) = StateAt(k)
  BY DEF StateAt
<1>7. PointOf(c, Spin(k), b)
  BY DEF PointOf, Points, ProcOnly, SchedOnly, Handling, Ticking, Yielding, Sleeping, Rests, ProcRests, SchedRests
<1>8. Depth(k) \in {0, 1} /\ Depth(Spin(k)) = Depth(k) + 1 
  BY DEF Depth, Rests, ProcRests, SchedRests
<1>9. IflagOk(Spin(k), FALSE)
  BY DEF IflagOk, Rests, ProcRests, SchedRests
<1>10. Depth(k) = 0 => \A f \in BOOLEAN : IflagOk(k, f) => IntenaOk(Spin(k), f)
  <2>1. CASE k \in {"call", "again", "idle"}
    <3>1. Spin(k) \notin Handling
      BY <2>1 DEF Handling, Ticking, Yielding
    <3>2. \A f \in BOOLEAN : IflagOk(k, f) => f
      BY <2>1 DEF IflagOk, Rests, ProcRests, SchedRests
    <3> QED BY <3>1, <3>2 DEF IntenaOk
  <2>2. CASE k \in {"tick", "yield"}
    <3>1. Spin(k) \in Handling
      BY <2>2 DEF Handling, Ticking, Yielding
    <3>2. \A f \in BOOLEAN : IflagOk(k, f) => ~f
      BY <2>2 DEF IflagOk, Rests, ProcRests, SchedRests
    <3> QED BY <3>1, <3>2 DEF IntenaOk
  <2>3. CASE k \in {"sleep", "tickP"}
    BY <2>3 DEF Depth, Rests, ProcRests, SchedRests
  <2> QED BY <2>1, <2>2, <2>3
<1>11. Depth(k) = 1 => \A f \in BOOLEAN : IntenaOk(k, f) => IntenaOk(Spin(k), f)
  BY <1>8 DEF IntenaOk, Parked, Handling, Ticking, Yielding
<1> QED
  BY <1>1, <1>2, <1>3, <1>4, <1>5, <1>6, <1>7, <1>8, <1>9, <1>10, <1>11

\* pushcli.
LEMMA PushcliIs ==
  ASSUME NEW q \in CpuType
  PROVE  /\ Pushcli(q) \in CpuType /\ Pushcli(q).proc = q.proc /\ Pushcli(q).iflag = FALSE
         /\ Pushcli(q).ncli = q.ncli + 1
         /\ q.ncli = 0 => Pushcli(q).intena = q.iflag
         /\ q.ncli # 0 => Pushcli(q).intena = q.intena
<1> DEFINE i == IF q.ncli = 0 THEN q.iflag ELSE q.intena
           n == q.ncli + 1
<1>1. i \in BOOLEAN /\ n \in Int
  BY DEF CpuType
<1>2. Pushcli(q) = [q EXCEPT !.iflag = FALSE, !.ncli = n, !.intena = i]
  BY DEF Pushcli, CpuType
<1> HIDE DEF i, n
<1>3. /\ Pushcli(q) \in CpuType /\ Pushcli(q).proc = q.proc /\ Pushcli(q).iflag = FALSE
      /\ Pushcli(q).ncli = n /\ Pushcli(q).intena = i
  BY <1>1, <1>2 DEF CpuType
<1> QED
  BY <1>3, Zenon DEF i, n

\* acquire's step.
LEMMA AcquireStep ==
  ASSUME IInv, NEW c \in Cpus, Acquire(c)
  PROVE  IInv'
<1>1. PICK k \in Points \ {"user"}, b \in Rests, a \in Int :
         /\ RunsAt(c, k, b, a) /\ Op(k, a)[1] = "acquire" /\ Arg(c) = Op(k, a)[2]
         /\ Below(k, b) \in Points /\ Stack(Below(k, b), b, 1) \in Seq(Entries)
         /\ Tail(todo[Thread(c)]) = Stack(Below(k, b), b, 1)
  BY DoesIs DEF Acquire
<1>2. k \in {"call", "again", "tick", "idle", "sleep", "yield", "tickP"}
  BY <1>1, Tops
<1>3. PointOf(c, k, b)
  BY <1>1 DEF RunsAt
<1> DEFINE x == Spin(k)
           l == Acquired(k)
           r == Pushcli(cpu[c])
<1>4. /\ x \in Points \ {"user"} /\ l \in Locks
      /\ Op(k, a) = <<"acquire", l>> /\ Op(x, 1) = <<"xchg", l>>
      /\ Below(x, b) = Below(k, b)
      /\ l \notin Held(k) /\ Held(x) = Held(k) /\ StateAt(x) = StateAt(k) /\ PointOf(c, x, b)
      /\ Depth(k) \in {0, 1} /\ Depth(x) = Depth(k) + 1 /\ IflagOk(x, FALSE)
      /\ Depth(k) = 0 => \A f \in BOOLEAN : IflagOk(k, f) => IntenaOk(x, f)
      /\ Depth(k) = 1 => \A f \in BOOLEAN : IntenaOk(k, f) => IntenaOk(x, f)
  BY <1>2, <1>3, AcquireTable
<1> HIDE DEF x, l
<1>5. Arg(c) = l
  <2>1. <<"acquire", l>>[2] = l
    OBVIOUS
  <2> QED BY <1>1, <1>4, <2>1
<1>6. lock[l] # c
  BY <1>1, <1>4 DEF RunsAt
<1>7. /\ cpu' = [cpu EXCEPT ![c] = r] /\ Then(c, << <<"xchg", l>> >>)
      /\ lock' = lock /\ state' = state /\ panic' = panic
  BY <1>5, <1>6 DEF Acquire
<1>8. todo' = [todo EXCEPT ![Thread(c)] = Stack(x, b, 1)]
  <2>1. todo' = [todo EXCEPT ![Thread(c)] = On(<<"xchg", l>>, Stack(Below(k, b), b, 1))]
    BY <1>1, <1>7, ThenIs
  <2>2. Stack(x, b, 1) = On(Op(x, 1), Stack(Below(x, b), b, 1))
    BY <1>4, Unfolds
  <2> QED BY <1>4, <2>1, <2>2
<1>9. cpu[c] \in CpuType
  BY ThreadsDiffer DEF IInv
<1>10. /\ r \in CpuType /\ r.proc = cpu[c].proc /\ r.iflag = FALSE /\ r.ncli = cpu[c].ncli + 1
       /\ cpu[c].ncli = 0 => r.intena = cpu[c].iflag
       /\ cpu[c].ncli # 0 => r.intena = cpu[c].intena
  BY <1>9, PushcliIs
<1> HIDE DEF r
<1>11. r.ncli = Depth(x) /\ IflagOk(x, r.iflag) /\ IntenaOk(x, r.intena)
  BY <1>1, <1>4, <1>9, <1>10 DEF RunsAt, CpuType
<1>12. /\ \A m \in Locks : lock'[m] = c <=> m \in Held(x)
       /\ r.proc # 0 => state'[r.proc] = StateAt(x)
  BY <1>1, <1>4, <1>7, <1>10 DEF RunsAt
<1>13. lock' \in [Locks -> 0..NCpu] /\ state' \in [Procs -> States] /\ OthersKeep(c)
  BY <1>7, SameStates DEF IInv, TypeOK
<1>14. cpu' = [cpu EXCEPT ![c] = r] /\ panic' = panic /\ x \in Points /\ PointOf(c, x, b)
  BY <1>4, <1>7
<1> QED
  <2>1. ComesTo(c, x, b, 1, r)
    BY <1>8, <1>10, <1>11, <1>12, <1>13, <1>14 DEF ComesTo
  <2> QED BY <1>10, <1>14, <2>1, Goes

\* The loop of xchg ends: the lock is the processor's.
Spun(k) == IF k \in {"callX", "againX", "tickX"} THEN "ticks" ELSE "ptable"
\* From the loop of acquire to what is done with the lock.
LEMMA XchgTable ==
  ASSUME NEW k \in {"callX", "againX", "tickX", "idleX", "sleepX", "yieldX", "tickPX"}, NEW b \in Rests, NEW a,
         NEW c \in Cpus, PointOf(c, k, b)
  PROVE  /\ Spun(k) \in Locks /\ Op(k, a) = <<"xchg", Spun(k)>>
         /\ \A l \in Locks : l \in Held(Below(k, b)) <=> l = Spun(k) \/ l \in Held(k)
         /\ StateAt(Below(k, b)) = StateAt(k) /\ PointOf(c, Below(k, b), b)
         /\ Depth(Below(k, b)) = Depth(k)
         /\ \A f \in BOOLEAN : IflagOk(k, f) => IflagOk(Below(k, b), f)
         /\ \A f \in BOOLEAN : IntenaOk(k, f) => IntenaOk(Below(k, b), f)
<1> DEFINE n == Below(k, b)
<1>1. Spun(k) \in Locks
  BY DEF Spun, Locks
<1>2. Op(k, a) = <<"xchg", Spun(k)>>
  BY DEF Op, Spun
<1>3. n = CASE k = "callX" -> "ticks0" [] k = "againX" -> "loop" [] k = "tickX" -> "count" [] k = "idleX" -> "scan"
            [] k = "sleepX" -> "sleepR" [] k = "yieldX" -> "yieldSt" [] k = "tickPX" -> "wake"
  BY DEF Below
<1> HIDE DEF n
<1>4. \A l \in Locks : l \in Held(n) <=> l = Spun(k) \/ l \in Held(k)
  BY <1>3 DEF Held, Spun, Locks
<1>5. StateAt(n) = StateAt(k)
  BY <1>3 DEF StateAt
<1>6. PointOf(c, n, b)
  BY <1>3 DEF PointOf, Points, ProcOnly, SchedOnly, Handling, Ticking, Yielding, Sleeping, Rests, ProcRests, SchedRests
<1>7. Depth(n) = Depth(k) /\ Depth(k) # 0
  BY <1>3 DEF Depth, Rests, ProcRests, SchedRests
<1>8. k \notin Rests /\ n \notin Rests
  BY <1>3 DEF Rests, ProcRests, SchedRests
<1>9. \A f \in BOOLEAN : IflagOk(k, f) => IflagOk(n, f)
  BY <1>8 DEF IflagOk, Rests, ProcRests, SchedRests
<1>10. n \notin Handling <=> k \notin Handling
  BY <1>3 DEF Handling, Ticking, Yielding
<1>11. k \notin Parked \union {"scan", "none"}
  BY DEF Parked
<1>12. \A f \in BOOLEAN : IntenaOk(k, f) => IntenaOk(n, f)
  BY <1>7, <1>10, <1>11 DEF IntenaOk
<1> QED
  BY <1>1, <1>2, <1>4, <1>5, <1>6, <1>7, <1>9, <1>12 DEF n

\* The point's entry is done, and only the locks have changed.
LEMMA XchgStep ==
  ASSUME IInv, NEW c \in Cpus, Xchg(c)
  PROVE  IInv'
<1>1. PICK k \in Points \ {"user"}, b \in Rests, a \in Int :
         /\ RunsAt(c, k, b, a) /\ Op(k, a)[1] = "xchg" /\ Arg(c) = Op(k, a)[2]
         /\ Below(k, b) \in Points /\ Stack(Below(k, b), b, 1) \in Seq(Entries)
         /\ Tail(todo[Thread(c)]) = Stack(Below(k, b), b, 1)
  BY DoesIs DEF Xchg
<1>2. k \in {"callX", "againX", "tickX", "idleX", "sleepX", "yieldX", "tickPX"}
  BY <1>1, Tops
<1>3. PointOf(c, k, b)
  BY <1>1 DEF RunsAt
<1> DEFINE n == Below(k, b)
           l == Spun(k)
           r == cpu[c]
<1>4. /\ n \in Points /\ l \in Locks /\ Op(k, a) = <<"xchg", l>>
      /\ \A m \in Locks : m \in Held(n) <=> m = l \/ m \in Held(k)
      /\ StateAt(n) = StateAt(k) /\ PointOf(c, n, b) /\ Depth(n) = Depth(k)
      /\ \A f \in BOOLEAN : IflagOk(k, f) => IflagOk(n, f)
      /\ \A f \in BOOLEAN : IntenaOk(k, f) => IntenaOk(n, f)
  BY <1>1, <1>2, <1>3, XchgTable
<1> HIDE DEF n, l
<1>5. Arg(c) = l
  <2>1. <<"xchg", l>>[2] = l
    OBVIOUS
  <2> QED BY <1>1, <1>4, <2>1
<1>6. /\ lock[l] = 0 /\ lock' = [lock EXCEPT ![l] = c] /\ Then(c, <<>>)
      /\ cpu' = cpu /\ state' = state /\ panic' = panic
  BY <1>5 DEF Xchg
<1>7. lock \in [Locks -> 0..NCpu] /\ c \in 0..NCpu /\ 0 \notin Cpus
  BY CpuAssumption DEF IInv, TypeOK, Cpus
<1>8. \A m \in Locks : lock'[m] = IF m = l THEN c ELSE lock[m]
  BY <1>6, <1>7
<1>9. todo' = [todo EXCEPT ![Thread(c)] = Stack(n, b, 1)]
  BY <1>1, <1>6, ThenIs DEF n
<1>10. r \in CpuType /\ cpu' = [cpu EXCEPT ![c] = r]
  <2>1. cpu[c] \in CpuType
    BY ThreadsDiffer DEF IInv
  <2>2. cpu = [cpu EXCEPT ![c] = cpu[c]]
    BY DEF IInv, TypeOK
  <2> QED BY <1>6, <2>1, <2>2
<1>11. r.ncli = Depth(n) /\ IflagOk(n, r.iflag) /\ IntenaOk(n, r.intena)
  BY <1>1, <1>4, <1>10 DEF RunsAt, CpuType
<1>12. \A m \in Locks : lock'[m] = c <=> m \in Held(n)
  BY <1>1, <1>4, <1>8 DEF RunsAt
<1>13. r.proc # 0 => state'[r.proc] = StateAt(n)
  BY <1>1, <1>4, <1>6 DEF RunsAt
<1>14. lock' \in [Locks -> 0..NCpu]
  BY <1>4, <1>6, <1>7
<1>15. \A m \in Locks, d \in Cpus \ {c} : lock'[m] = d <=> lock[m] = d
  BY <1>6, <1>7, <1>8
<1>16. state' \in [Procs -> States] /\ OthersKeep(c)
  BY <1>6, <1>15, SameStates
<1>17. ComesTo(c, n, b, 1, r)
  BY <1>4, <1>6, <1>9, <1>10, <1>11, <1>12, <1>13, <1>14, <1>16 DEF ComesTo
<1> QED
  BY <1>4, <1>10, <1>17, Goes

\* release, and popcli: interrupts come on again where acquire found them on.
Released(k) == IF k \in {"sleepR", "done", "tickRT"} THEN "ticks" ELSE "ptable"
\* From a release to what is done without the lock.
LEMMA ReleaseTable ==
  ASSUME NEW k \in {"sleepR", "done", "tickRT", "forkret", "woken", "none", "yieldR", "tickRP"}, NEW b \in Rests, NEW a,
         NEW c \in Cpus, PointOf(c, k, b)
  PROVE  /\ Released(k) \in Locks /\ Op(k, a) = <<"release", Released(k)>> /\ Released(k) \in Held(k)
         /\ \A l \in Locks : l \in Held(Below(k, b)) <=> l # Released(k) /\ l \in Held(k)
         /\ StateAt(Below(k, b)) = StateAt(k) /\ PointOf(c, Below(k, b), b)
         /\ Depth(k) \in {1, 2} /\ Depth(Below(k, b)) = Depth(k) - 1
         /\ \A f \in BOOLEAN : IflagOk(k, f) => f = FALSE
         /\ Depth(k) = 1 => \A f \in BOOLEAN : IntenaOk(k, f) => IflagOk(Below(k, b), f) /\ IntenaOk(Below(k, b), f)
         /\ Depth(k) = 2 => IflagOk(Below(k, b), FALSE)
                            /\ \A f \in BOOLEAN : IntenaOk(k, f) => IntenaOk(Below(k, b), f)
<1> DEFINE n == Below(k, b)
<1>1. Released(k) \in Locks
  BY DEF Released, Locks
<1>2. Op(k, a) = <<"release", Released(k)>>
  BY DEF Op, Released
<1>3. /\ k = "sleepR" => n = "sleepSt"
      /\ k = "done" => n = "trapret"
      /\ k = "tickRT" => n = IF b \in ProcRests THEN "yield" ELSE "iret"
      /\ k = "forkret" => n = "trapret"
      /\ k = "woken" => n = "again"
      /\ k = "none" => n = "sti"
      /\ k = "yieldR" => n = "iret"
      /\ k = "tickRP" => n = "tickRT"
  BY DEF Below
<1> HIDE DEF n
<1>4. \A l \in Locks : l \in Held(n) <=> l # Released(k) /\ l \in Held(k)
  BY <1>3 DEF Held, Released, Locks
<1>5. StateAt(n) = StateAt(k) /\ Released(k) \in Held(k)
  BY <1>3 DEF StateAt, Held, Released, Locks
<1>6. PointOf(c, n, b)
  BY <1>3 DEF PointOf, Points, ProcOnly, SchedOnly, Handling, Ticking, Yielding, Sleeping, Rests, ProcRests, SchedRests
<1>7. Depth(k) = IF k \in {"sleepR", "tickRP"} THEN 2 ELSE 1
  BY DEF Depth, Rests, ProcRests, SchedRests
<1>8. Depth(n) = Depth(k) - 1
  BY <1>3, <1>7 DEF Depth, Rests, ProcRests, SchedRests
<1>9. k \notin Rests
  BY DEF Rests, ProcRests, SchedRests
<1>10. \A f \in BOOLEAN : IflagOk(k, f) => f = FALSE
  BY <1>9 DEF IflagOk, Rests, ProcRests, SchedRests
<1>11. ASSUME Depth(k) = 2 PROVE /\ IflagOk(n, FALSE)
                                /\ \A f \in BOOLEAN : IntenaOk(k, f) => IntenaOk(n, f)
  <2>1. k \in {"sleepR", "tickRP"} /\ n \in {"sleepSt", "tickRT"}
    BY <1>3, <1>7, <1>11
  <2>2. n \notin Rests
    BY <2>1 DEF Rests, ProcRests, SchedRests
  <2>3. k \in Handling <=> n \in Handling
    BY <1>3, <2>1 DEF Handling, Ticking, Yielding
  <2>4. Depth(k) # 0 /\ k \notin Parked \union {"scan", "none"}
    BY <1>11, <2>1 DEF Parked
  <2> QED BY <2>2, <2>3, <2>4 DEF IflagOk, IntenaOk
<1>12. ASSUME Depth(k) = 1, NEW f \in BOOLEAN, IntenaOk(k, f) PROVE IflagOk(n, f)
  <2>1. CASE k \in {"forkret", "none", "done"}
    BY <1>3, <2>1 DEF IflagOk
  <2>2. CASE k = "woken"
    <3>1. f
      BY <1>7, <1>12, <2>2 DEF IntenaOk, Parked, Handling, Ticking, Yielding
    <3> QED BY <1>3, <2>2, <3>1 DEF IflagOk, Rests, ProcRests
  <2>3. CASE k \in {"tickRT", "yieldR"}
    <3>1. ~f
      BY <1>7, <1>12, <2>3 DEF IntenaOk, Parked, Handling, Ticking, Yielding
    <3>2. n \in {"yield", "iret"}
      BY <1>3, <2>3
    <3> QED BY <3>1, <3>2 DEF IflagOk, Rests, ProcRests, SchedRests
  <2> QED BY <1>7, <1>12, <2>1, <2>2, <2>3
<1>13. ASSUME Depth(k) = 1 PROVE \A f \in BOOLEAN : IntenaOk(n, f)
  BY <1>8, <1>13 DEF IntenaOk
<1> QED
  BY <1>1, <1>2, <1>4, <1>5, <1>6, <1>7, <1>8, <1>10, <1>11, <1>12, <1>13 DEF n

\* popcli.
LEMMA PopcliIs ==
  ASSUME NEW q \in CpuType
  PROVE  /\ Popcli(q) \in CpuType /\ Popcli(q).proc = q.proc /\ Popcli(q).intena = q.intena
         /\ Popcli(q).ncli = q.ncli - 1
         /\ q.ncli = 1 => Popcli(q).iflag = q.intena
         /\ q.ncli # 1 => Popcli(q).iflag = FALSE
<1> DEFINE i == (q.ncli = 1 /\ q.intena)
           n == q.ncli - 1
<1>1. i \in BOOLEAN /\ n \in Int /\ q.intena \in BOOLEAN
  BY DEF CpuType
<1>2. Popcli(q) = [q EXCEPT !.ncli = n, !.iflag = i]
  BY DEF Popcli, CpuType
<1>3. (q.ncli = 1 => i = q.intena) /\ (q.ncli # 1 => i = FALSE)
  BY <1>1
<1> HIDE DEF i
<1>4. /\ Popcli(q) \in CpuType /\ Popcli(q).proc = q.proc /\ Popcli(q).intena = q.intena
      /\ Popcli(q).ncli = n /\ Popcli(q).iflag = i
  BY <1>1, <1>2 DEF CpuType
<1> QED
  BY <1>3, <1>4

\* release's step: none of its checks fails.
LEMMA ReleaseStep ==
  ASSUME IInv, NEW c \in Cpus, Release(c)
  PROVE  IInv'
<1>1. PICK k \in Points \ {"user"}, b \in Rests, a \in Int :
         /\ RunsAt(c, k, b, a) /\ Op(k, a)[1] = "release" /\ Arg(c) = Op(k, a)[2]
         /\ Below(k, b) \in Points /\ Stack(Below(k, b), b, 1) \in Seq(Entries)
         /\ Tail(todo[Thread(c)]) = Stack(Below(k, b), b, 1)
  BY DoesIs DEF Release
<1>2. k \in {"sleepR", "done", "tickRT", "forkret", "woken", "none", "yieldR", "tickRP"}
  BY <1>1, Tops
<1>3. PointOf(c, k, b)
  BY <1>1 DEF RunsAt
<1> DEFINE n == Below(k, b)
           l == Released(k)
           r == Popcli(cpu[c])
<1>4. /\ n \in Points /\ l \in Locks /\ Op(k, a) = <<"release", l>> /\ l \in Held(k)
      /\ \A m \in Locks : m \in Held(n) <=> m # l /\ m \in Held(k)
      /\ StateAt(n) = StateAt(k) /\ PointOf(c, n, b)
      /\ Depth(k) \in {1, 2} /\ Depth(n) = Depth(k) - 1
      /\ \A f \in BOOLEAN : IflagOk(k, f) => f = FALSE
      /\ Depth(k) = 1 => \A f \in BOOLEAN : IntenaOk(k, f) => IflagOk(n, f) /\ IntenaOk(n, f)
      /\ Depth(k) = 2 => IflagOk(n, FALSE) /\ \A f \in BOOLEAN : IntenaOk(k, f) => IntenaOk(n, f)
  BY <1>1, <1>2, <1>3, ReleaseTable
<1> HIDE DEF n, l
<1>5. Arg(c) = l
  <2>1. <<"release", l>>[2] = l
    OBVIOUS
  <2> QED BY <1>1, <1>4, <2>1
<1>6. cpu[c] \in CpuType /\ cpu[c].iflag \in BOOLEAN /\ cpu[c].intena \in BOOLEAN
  BY ThreadsDiffer DEF IInv, CpuType
<1>7. lock[l] = c /\ ~PopcliPanics(cpu[c])
  BY <1>1, <1>4, <1>6 DEF RunsAt, PopcliPanics
<1>8. /\ lock' = [lock EXCEPT ![l] = 0] /\ cpu' = [cpu EXCEPT ![c] = r] /\ Then(c, <<>>)
      /\ state' = state /\ panic' = panic
  BY <1>5, <1>7 DEF Release
<1>9. lock \in [Locks -> 0..NCpu] /\ 0 \in 0..NCpu /\ 0 \notin Cpus
  BY CpuAssumption DEF IInv, TypeOK, Cpus
<1>10. \A m \in Locks : lock'[m] = IF m = l THEN 0 ELSE lock[m]
  BY <1>8, <1>9
<1>11. todo' = [todo EXCEPT ![Thread(c)] = Stack(n, b, 1)]
  BY <1>1, <1>8, ThenIs DEF n
<1>12. /\ r \in CpuType /\ r.proc = cpu[c].proc /\ r.intena = cpu[c].intena /\ r.ncli = cpu[c].ncli - 1
       /\ cpu[c].ncli = 1 => r.iflag = cpu[c].intena
       /\ cpu[c].ncli # 1 => r.iflag = FALSE
  BY <1>6, PopcliIs
<1> HIDE DEF r
<1>13. cpu[c].ncli = Depth(k) /\ IntenaOk(k, cpu[c].intena)
  BY <1>1 DEF RunsAt
<1>14. r.ncli = Depth(n) /\ IflagOk(n, r.iflag) /\ IntenaOk(n, r.intena)
  BY <1>4, <1>6, <1>12, <1>13
<1>15. \A m \in Locks : lock'[m] = c <=> m \in Held(n)
  BY <1>1, <1>4, <1>9, <1>10 DEF RunsAt
<1>16. r.proc # 0 => state'[r.proc] = StateAt(n)
  BY <1>1, <1>4, <1>8, <1>12 DEF RunsAt
<1>17. lock' \in [Locks -> 0..NCpu]
  BY <1>4, <1>8, <1>9
<1>18. \A m \in Locks, d \in Cpus \ {c} : lock'[m] = d <=> lock[m] = d
  BY <1>7, <1>9, <1>10
<1>19. state' \in [Procs -> States] /\ OthersKeep(c)
  BY <1>8, <1>18, SameStates
<1>20. ComesTo(c, n, b, 1, r)
  BY <1>4, <1>8, <1>11, <1>12, <1>14, <1>15, <1>16, <1>17, <1>19 DEF ComesTo
<1> QED
  BY <1>4, <1>12, <1>20, Goes

\* Entries on top of a stack, one by one.
LEMMA Empty == ASSUME NEW s \in Seq(Entries) PROVE <<>> \o s = s /\ s \o <<>> = s /\ <<>> \in Seq(Entries)
BY ConcatEmptySeq

\* One entry on an empty stack.
LEMMA Alone1 == ASSUME NEW e \in Entries PROVE On(e, <<>>) = <<e>> /\ <<e>> \in Seq(Entries)
<1>1. <<e>> \in Seq(Entries)
  OBVIOUS
<1> QED BY <1>1, Empty DEF On

\* The sequence q is e and then p.
Extends(q, e, p) == Len(q) = 1 + Len(p) /\ q[1] = e /\ \A i \in 1 .. Len(p) : q[i + 1] = p[i]

\* A sequence of calls, on a stack: the first call on the others.
LEMMA OneMore ==
  ASSUME NEW e \in Entries, NEW p \in Seq(Entries), NEW q \in Seq(Entries), NEW s \in Seq(Entries),
         Extends(q, e, p)
  PROVE  q \o s = On(e, p \o s) /\ p \o s \in Seq(Entries)
<1> USE DEF Extends
<1> DEFINE n == <<e>> \o p
<1>1. <<e>> \in Seq(Entries) /\ Len(<<e>>) = 1 /\ <<e>>[1] = e
  OBVIOUS
<1>2. Len(p) \in Nat
  BY LenProperties
<1>3. /\ n \in Seq(Entries) /\ Len(n) = 1 + Len(p)
      /\ \A i \in 1 .. 1 + Len(p) : n[i] = IF i <= 1 THEN e ELSE p[i - 1]
  BY <1>1, ConcatProperties
<1> HIDE DEF n
<1>4. ASSUME NEW i \in 1 .. 1 + Len(p) PROVE n[i] = q[i]
  <2>1. CASE i = 1
    BY <1>3, <2>1
  <2>2. CASE i # 1
    <3>1. i - 1 \in 1 .. Len(p) /\ (i - 1) + 1 = i /\ ~(i <= 1)
      BY <1>2, <2>2
    <3>2. q[i] = p[i - 1]
      BY <3>1
    <3> QED BY <1>3, <3>1, <3>2
  <2> QED BY <2>1, <2>2
<1>5. n = q
  BY <1>3, <1>4, SeqEqual
<1>6. (<<e>> \o p) \o s = <<e>> \o (p \o s) /\ p \o s \in Seq(Entries)
  BY <1>1, ConcatAssociative, ConcatProperties
<1> QED
  BY <1>5, <1>6 DEF On, n

\* The calls of sleep, as points on the path.
LEMMA SleepPath ==
  ASSUME NEW s \in Seq(Entries)
  PROVE  Sleep \o s = On(<<"acquire", "ptable">>, On(<<"release", "ticks">>, On(<<"state", "SLEEPING">>, On(<<"sched">>, On(<<"release", "ptable">>, On(<<"acquire", "ticks">>, s))))))
<1> DEFINE e0 == <<"acquire", "ptable">>
           e1 == <<"release", "ticks">>
           e2 == <<"state", "SLEEPING">>
           e3 == <<"sched">>
           e4 == <<"release", "ptable">>
           e5 == <<"acquire", "ticks">>
           q0 == <<e0, e1, e2, e3, e4, e5>>
           q1 == <<e1, e2, e3, e4, e5>>
           q2 == <<e2, e3, e4, e5>>
           q3 == <<e3, e4, e5>>
           q4 == <<e4, e5>>
           q5 == <<e5>>
<1>1. e0 \in Entries /\ e1 \in Entries /\ e2 \in Entries /\ e3 \in Entries /\ e4 \in Entries /\ e5 \in Entries
  BY InEntries
<1>2. Sleep = q0
  BY DEF Sleep
<1>3. On(<<"acquire", "ptable">>, On(<<"release", "ticks">>, On(<<"state", "SLEEPING">>, On(<<"sched">>, On(<<"release", "ptable">>, On(<<"acquire", "ticks">>, s)))))) = On(e0, On(e1, On(e2, On(e3, On(e4, On(e5, s))))))
  OBVIOUS
<1> HIDE DEF e0, e1, e2, e3, e4, e5
<1>4. q0 \in Seq(Entries) /\ q1 \in Seq(Entries) /\ q2 \in Seq(Entries) /\ q3 \in Seq(Entries) /\ q4 \in Seq(Entries) /\ q5 \in Seq(Entries)
  BY <1>1
<1>5. Extends(q0, e0, q1)
  BY DEF Extends
<1>6. Extends(q1, e1, q2)
  BY DEF Extends
<1>7. Extends(q2, e2, q3)
  BY DEF Extends
<1>8. Extends(q3, e3, q4)
  BY DEF Extends
<1>9. Extends(q4, e4, q5)
  BY DEF Extends
<1>10. q5 \o s = On(e5, s)
  BY DEF On
<1> HIDE DEF q0, q1, q2, q3, q4, q5
<1>11. q0 \o s = On(e0, q1 \o s)
  <2>1. e0 \in Entries /\ q1 \in Seq(Entries) /\ q0 \in Seq(Entries)
    BY <1>1, <1>4
  <2> QED BY ONLY <2>1, <1>5, s \in Seq(Entries), OneMore
<1>12. q1 \o s = On(e1, q2 \o s)
  <2>1. e1 \in Entries /\ q2 \in Seq(Entries) /\ q1 \in Seq(Entries)
    BY <1>1, <1>4
  <2> QED BY ONLY <2>1, <1>6, s \in Seq(Entries), OneMore
<1>13. q2 \o s = On(e2, q3 \o s)
  <2>1. e2 \in Entries /\ q3 \in Seq(Entries) /\ q2 \in Seq(Entries)
    BY <1>1, <1>4
  <2> QED BY ONLY <2>1, <1>7, s \in Seq(Entries), OneMore
<1>14. q3 \o s = On(e3, q4 \o s)
  <2>1. e3 \in Entries /\ q4 \in Seq(Entries) /\ q3 \in Seq(Entries)
    BY <1>1, <1>4
  <2> QED BY ONLY <2>1, <1>8, s \in Seq(Entries), OneMore
<1>15. q4 \o s = On(e4, q5 \o s)
  <2>1. e4 \in Entries /\ q5 \in Seq(Entries) /\ q4 \in Seq(Entries)
    BY <1>1, <1>4
  <2> QED BY ONLY <2>1, <1>9, s \in Seq(Entries), OneMore
<1> QED
  BY <1>2, <1>3, <1>10, <1>11, <1>12, <1>13, <1>14, <1>15

\* The calls of the handler that counts the tick.
LEMMA TickPath ==
  ASSUME NEW s \in Seq(Entries)
  PROVE  Tick \o s = On(<<"acquire", "ticks">>, On(<<"tick">>, On(<<"acquire", "ptable">>, On(<<"wakeup">>, On(<<"release", "ptable">>, On(<<"release", "ticks">>, s))))))
<1> DEFINE e0 == <<"acquire", "ticks">>
           e1 == <<"tick">>
           e2 == <<"acquire", "ptable">>
           e3 == <<"wakeup">>
           e4 == <<"release", "ptable">>
           e5 == <<"release", "ticks">>
           q0 == <<e0, e1, e2, e3, e4, e5>>
           q1 == <<e1, e2, e3, e4, e5>>
           q2 == <<e2, e3, e4, e5>>
           q3 == <<e3, e4, e5>>
           q4 == <<e4, e5>>
           q5 == <<e5>>
<1>1. e0 \in Entries /\ e1 \in Entries /\ e2 \in Entries /\ e3 \in Entries /\ e4 \in Entries /\ e5 \in Entries
  BY InEntries
<1>2. Tick = q0
  BY DEF Tick
<1>3. On(<<"acquire", "ticks">>, On(<<"tick">>, On(<<"acquire", "ptable">>, On(<<"wakeup">>, On(<<"release", "ptable">>, On(<<"release", "ticks">>, s)))))) = On(e0, On(e1, On(e2, On(e3, On(e4, On(e5, s))))))
  OBVIOUS
<1> HIDE DEF e0, e1, e2, e3, e4, e5
<1>4. q0 \in Seq(Entries) /\ q1 \in Seq(Entries) /\ q2 \in Seq(Entries) /\ q3 \in Seq(Entries) /\ q4 \in Seq(Entries) /\ q5 \in Seq(Entries)
  BY <1>1
<1>5. Extends(q0, e0, q1)
  BY DEF Extends
<1>6. Extends(q1, e1, q2)
  BY DEF Extends
<1>7. Extends(q2, e2, q3)
  BY DEF Extends
<1>8. Extends(q3, e3, q4)
  BY DEF Extends
<1>9. Extends(q4, e4, q5)
  BY DEF Extends
<1>10. q5 \o s = On(e5, s)
  BY DEF On
<1> HIDE DEF q0, q1, q2, q3, q4, q5
<1>11. q0 \o s = On(e0, q1 \o s)
  <2>1. e0 \in Entries /\ q1 \in Seq(Entries) /\ q0 \in Seq(Entries)
    BY <1>1, <1>4
  <2> QED BY ONLY <2>1, <1>5, s \in Seq(Entries), OneMore
<1>12. q1 \o s = On(e1, q2 \o s)
  <2>1. e1 \in Entries /\ q2 \in Seq(Entries) /\ q1 \in Seq(Entries)
    BY <1>1, <1>4
  <2> QED BY ONLY <2>1, <1>6, s \in Seq(Entries), OneMore
<1>13. q2 \o s = On(e2, q3 \o s)
  <2>1. e2 \in Entries /\ q3 \in Seq(Entries) /\ q2 \in Seq(Entries)
    BY <1>1, <1>4
  <2> QED BY ONLY <2>1, <1>7, s \in Seq(Entries), OneMore
<1>14. q3 \o s = On(e3, q4 \o s)
  <2>1. e3 \in Entries /\ q4 \in Seq(Entries) /\ q3 \in Seq(Entries)
    BY <1>1, <1>4
  <2> QED BY ONLY <2>1, <1>8, s \in Seq(Entries), OneMore
<1>15. q4 \o s = On(e4, q5 \o s)
  <2>1. e4 \in Entries /\ q5 \in Seq(Entries) /\ q4 \in Seq(Entries)
    BY <1>1, <1>4
  <2> QED BY ONLY <2>1, <1>9, s \in Seq(Entries), OneMore
<1> QED
  BY <1>2, <1>3, <1>10, <1>11, <1>12, <1>13, <1>14, <1>15

\* The calls of yield.
LEMMA YieldPath ==
  ASSUME NEW s \in Seq(Entries)
  PROVE  Yield \o s = On(<<"acquire", "ptable">>, On(<<"state", "RUNNABLE">>, On(<<"sched">>, On(<<"release", "ptable">>, s))))
<1> DEFINE e0 == <<"acquire", "ptable">>
           e1 == <<"state", "RUNNABLE">>
           e2 == <<"sched">>
           e3 == <<"release", "ptable">>
           q0 == <<e0, e1, e2, e3>>
           q1 == <<e1, e2, e3>>
           q2 == <<e2, e3>>
           q3 == <<e3>>
<1>1. e0 \in Entries /\ e1 \in Entries /\ e2 \in Entries /\ e3 \in Entries
  BY InEntries
<1>2. Yield = q0
  BY DEF Yield
<1>3. On(<<"acquire", "ptable">>, On(<<"state", "RUNNABLE">>, On(<<"sched">>, On(<<"release", "ptable">>, s)))) = On(e0, On(e1, On(e2, On(e3, s))))
  OBVIOUS
<1> HIDE DEF e0, e1, e2, e3
<1>4. q0 \in Seq(Entries) /\ q1 \in Seq(Entries) /\ q2 \in Seq(Entries) /\ q3 \in Seq(Entries)
  BY <1>1
<1>5. Extends(q0, e0, q1)
  BY DEF Extends
<1>6. Extends(q1, e1, q2)
  BY DEF Extends
<1>7. Extends(q2, e2, q3)
  BY DEF Extends
<1>8. q3 \o s = On(e3, s)
  BY DEF On
<1> HIDE DEF q0, q1, q2, q3
<1>9. q0 \o s = On(e0, q1 \o s)
  <2>1. e0 \in Entries /\ q1 \in Seq(Entries) /\ q0 \in Seq(Entries)
    BY <1>1, <1>4
  <2> QED BY ONLY <2>1, <1>5, s \in Seq(Entries), OneMore
<1>10. q1 \o s = On(e1, q2 \o s)
  <2>1. e1 \in Entries /\ q2 \in Seq(Entries) /\ q1 \in Seq(Entries)
    BY <1>1, <1>4
  <2> QED BY ONLY <2>1, <1>6, s \in Seq(Entries), OneMore
<1>11. q2 \o s = On(e2, q3 \o s)
  <2>1. e2 \in Entries /\ q3 \in Seq(Entries) /\ q2 \in Seq(Entries)
    BY <1>1, <1>4
  <2> QED BY ONLY <2>1, <1>7, s \in Seq(Entries), OneMore
<1> QED
  BY <1>2, <1>3, <1>8, <1>9, <1>10, <1>11

\* The loop of the scheduler.
LEMMA SchedulerPath ==
  ASSUME NEW s \in Seq(Entries)
  PROVE  SchedulerLoop \o s = On(<<"sti">>, On(<<"acquire", "ptable">>, On(<<"scan", 1>>, s)))
<1> DEFINE e0 == <<"sti">>
           e1 == <<"acquire", "ptable">>
           e2 == <<"scan", 1>>
           q0 == <<e0, e1, e2>>
           q1 == <<e1, e2>>
           q2 == <<e2>>
<1>1. e0 \in Entries /\ e1 \in Entries /\ e2 \in Entries
  BY InEntries
<1>2. SchedulerLoop = q0
  BY DEF SchedulerLoop
<1>3. On(<<"sti">>, On(<<"acquire", "ptable">>, On(<<"scan", 1>>, s))) = On(e0, On(e1, On(e2, s)))
  OBVIOUS
<1> HIDE DEF e0, e1, e2
<1>4. q0 \in Seq(Entries) /\ q1 \in Seq(Entries) /\ q2 \in Seq(Entries)
  BY <1>1
<1>5. Extends(q0, e0, q1)
  BY DEF Extends
<1>6. Extends(q1, e1, q2)
  BY DEF Extends
<1>7. q2 \o s = On(e2, s)
  BY DEF On
<1> HIDE DEF q0, q1, q2
<1>8. q0 \o s = On(e0, q1 \o s)
  <2>1. e0 \in Entries /\ q1 \in Seq(Entries) /\ q0 \in Seq(Entries)
    BY <1>1, <1>4
  <2> QED BY ONLY <2>1, <1>5, s \in Seq(Entries), OneMore
<1>9. q1 \o s = On(e1, q2 \o s)
  <2>1. e1 \in Entries /\ q2 \in Seq(Entries) /\ q1 \in Seq(Entries)
    BY <1>1, <1>4
  <2> QED BY ONLY <2>1, <1>6, s \in Seq(Entries), OneMore
<1> QED
  BY <1>2, <1>3, <1>7, <1>8, <1>9

\* The body of sys_sleep.
LEMMA CallPath ==
  ASSUME NEW s \in Seq(Entries)
  PROVE  << <<"acquire", "ticks">>, <<"ticks0">>, <<"trapret">> >> \o s = On(<<"acquire", "ticks">>, On(<<"ticks0">>, On(<<"trapret">>, s)))
<1> DEFINE e0 == <<"acquire", "ticks">>
           e1 == <<"ticks0">>
           e2 == <<"trapret">>
           q0 == <<e0, e1, e2>>
           q1 == <<e1, e2>>
           q2 == <<e2>>
<1>1. e0 \in Entries /\ e1 \in Entries /\ e2 \in Entries
  BY InEntries
<1>2. << <<"acquire", "ticks">>, <<"ticks0">>, <<"trapret">> >> = q0
  OBVIOUS
<1>3. On(<<"acquire", "ticks">>, On(<<"ticks0">>, On(<<"trapret">>, s))) = On(e0, On(e1, On(e2, s)))
  OBVIOUS
<1> HIDE DEF e0, e1, e2
<1>4. q0 \in Seq(Entries) /\ q1 \in Seq(Entries) /\ q2 \in Seq(Entries)
  BY <1>1
<1>5. Extends(q0, e0, q1)
  BY DEF Extends
<1>6. Extends(q1, e1, q2)
  BY DEF Extends
<1>7. q2 \o s = On(e2, s)
  BY DEF On
<1> HIDE DEF q0, q1, q2
<1>8. q0 \o s = On(e0, q1 \o s)
  <2>1. e0 \in Entries /\ q1 \in Seq(Entries) /\ q0 \in Seq(Entries)
    BY <1>1, <1>4
  <2> QED BY ONLY <2>1, <1>5, s \in Seq(Entries), OneMore
<1>9. q1 \o s = On(e1, q2 \o s)
  <2>1. e1 \in Entries /\ q2 \in Seq(Entries) /\ q1 \in Seq(Entries)
    BY <1>1, <1>4
  <2> QED BY ONLY <2>1, <1>6, s \in Seq(Entries), OneMore
<1> QED
  BY <1>2, <1>3, <1>7, <1>8, <1>9

-----------------------------------------------------------------------------
\* A step of processor c from point k to point n, above e and with argument m,
\* that changes no lock and no state.
MovesTo(c, k, n, e, m, r) ==
  /\ r.proc = cpu[c].proc /\ cpu' = [cpu EXCEPT ![c] = r]
  /\ todo' = [todo EXCEPT ![Thread(c)] = Stack(n, e, m)]
  /\ PointOf(c, n, e) /\ Held(n) = Held(k) /\ StateAt(n) = StateAt(k)
  /\ r.ncli = Depth(n) /\ IflagOk(n, r.iflag) /\ IntenaOk(n, r.intena)
  /\ lock' = lock /\ state' = state /\ panic' = panic

\* Such a step keeps the invariant.
LEMMA Moves ==
  ASSUME IInv, NEW c \in Cpus, NEW k \in Points, NEW b \in Rests, NEW a \in Int, RunsAt(c, k, b, a),
         NEW n \in Points, NEW e \in Rests, NEW m \in Int, NEW r \in CpuType, MovesTo(c, k, n, e, m, r)
  PROVE  IInv'
<1>1. /\ r.proc = cpu[c].proc /\ Held(n) = Held(k) /\ StateAt(n) = StateAt(k)
      /\ lock' = lock /\ state' = state /\ panic' = panic
  BY DEF MovesTo
<1>2. lock' \in [Locks -> 0..NCpu] /\ \A l \in Locks : lock'[l] = c <=> l \in Held(n)
  BY <1>1 DEF RunsAt, IInv, TypeOK
<1>3. state' \in [Procs -> States] /\ OthersKeep(c)
  BY <1>1, SameStates
<1>4. r.proc # 0 => state'[r.proc] = StateAt(n)
  BY <1>1 DEF RunsAt
<1>5. ComesTo(c, n, e, m, r)
  BY <1>2, <1>3, <1>4 DEF ComesTo, MovesTo
<1> QED
  BY <1>5, Goes

\* What a processor may have changed of itself, but for its process.
LEMMA CpuIs ==
  ASSUME IInv, NEW c \in Cpus
  PROVE  /\ cpu[c] \in CpuType /\ cpu[c].ncli \in Int /\ cpu[c].iflag \in BOOLEAN /\ cpu[c].intena \in BOOLEAN
         /\ cpu = [cpu EXCEPT ![c] = cpu[c]]
         /\ \A f \in BOOLEAN : LET r == [cpu[c] EXCEPT !.iflag = f]
                               IN  /\ [cpu EXCEPT ![c].iflag = f] = [cpu EXCEPT ![c] = r] /\ r \in CpuType
                                   /\ r.proc = cpu[c].proc /\ r.ncli = cpu[c].ncli
                                   /\ r.intena = cpu[c].intena /\ r.iflag = f
         /\ \A f \in BOOLEAN : LET r == [cpu[c] EXCEPT !.intena = f]
                               IN  /\ [cpu EXCEPT ![c].intena = f] = [cpu EXCEPT ![c] = r] /\ r \in CpuType
                                   /\ r.proc = cpu[c].proc /\ r.ncli = cpu[c].ncli
                                   /\ r.intena = f /\ r.iflag = cpu[c].iflag
         /\ \A f \in BOOLEAN : LET r == [cpu[c] EXCEPT !.timer = f]
                               IN  /\ [cpu EXCEPT ![c].timer = f] = [cpu EXCEPT ![c] = r] /\ r \in CpuType
                                   /\ r.proc = cpu[c].proc /\ r.ncli = cpu[c].ncli
                                   /\ r.intena = cpu[c].intena /\ r.iflag = cpu[c].iflag
<1>1. cpu[c] \in CpuType /\ cpu \in [Cpus -> CpuType]
  BY ThreadsDiffer DEF IInv, TypeOK, CpuType
<1>2. cpu = [cpu EXCEPT ![c] = cpu[c]]
  BY <1>1
<1>3. cpu[c].ncli \in Int /\ cpu[c].iflag \in BOOLEAN /\ cpu[c].intena \in BOOLEAN
  BY <1>1 DEF CpuType
<1>4. \A f \in BOOLEAN : LET r == [cpu[c] EXCEPT !.iflag = f]
                         IN  /\ [cpu EXCEPT ![c].iflag = f] = [cpu EXCEPT ![c] = r] /\ r \in CpuType
                             /\ r.proc = cpu[c].proc /\ r.ncli = cpu[c].ncli
                             /\ r.intena = cpu[c].intena /\ r.iflag = f
  BY <1>1 DEF CpuType
<1>5. \A f \in BOOLEAN : LET r == [cpu[c] EXCEPT !.intena = f]
                         IN  /\ [cpu EXCEPT ![c].intena = f] = [cpu EXCEPT ![c] = r] /\ r \in CpuType
                             /\ r.proc = cpu[c].proc /\ r.ncli = cpu[c].ncli
                             /\ r.intena = f /\ r.iflag = cpu[c].iflag
  BY <1>1 DEF CpuType
<1>6. \A f \in BOOLEAN : LET r == [cpu[c] EXCEPT !.timer = f]
                         IN  /\ [cpu EXCEPT ![c].timer = f] = [cpu EXCEPT ![c] = r] /\ r \in CpuType
                             /\ r.proc = cpu[c].proc /\ r.ncli = cpu[c].ncli
                             /\ r.intena = cpu[c].intena /\ r.iflag = cpu[c].iflag
  BY <1>1 DEF CpuType
<1> QED
  BY <1>1, <1>2, <1>3, <1>4, <1>5, <1>6

\* The scheduler enables interrupts.
LEMMA StiStep ==
  ASSUME IInv, NEW c \in Cpus, Sti(c)
  PROVE  IInv'
<1>1. PICK k \in Points \ {"user"}, b \in Rests, a \in Int :
         /\ RunsAt(c, k, b, a) /\ Op(k, a)[1] = "sti"
         /\ Below(k, b) \in Points /\ Stack(Below(k, b), b, 1) \in Seq(Entries)
         /\ Tail(todo[Thread(c)]) = Stack(Below(k, b), b, 1)
  BY DoesIs DEF Sti
<1>2. k = "sti"
  BY <1>1, Tops
<1> DEFINE n == "idle"
           r == [cpu[c] EXCEPT !.iflag = TRUE]
<1>3. Below(k, b) = n
  BY <1>2 DEF Below
<1>4. PointOf(c, k, b) /\ cpu[c].ncli = Depth(k) /\ IntenaOk(k, cpu[c].intena)
  BY <1>1 DEF RunsAt
<1>5. PointOf(c, n, b)
  BY <1>2, <1>4 DEF PointOf, Points, ProcOnly, SchedOnly, Handling, Ticking, Yielding, Sleeping, Rests, ProcRests, SchedRests
<1>6. Held(n) = Held(k) /\ StateAt(n) = StateAt(k)
  BY <1>2 DEF Held, StateAt
<1>7. Depth(n) = Depth(k) /\ Depth(n) = 0
  BY <1>2 DEF Depth, Rests, SchedRests
<1>8. /\ cpu' = [cpu EXCEPT ![c] = r] /\ r \in CpuType /\ r.proc = cpu[c].proc /\ r.ncli = cpu[c].ncli
      /\ r.iflag = TRUE
  BY CpuIs DEF Sti
<1>9. todo' = [todo EXCEPT ![Thread(c)] = Stack(n, b, 1)]
  BY <1>1, <1>3, ThenIs DEF Sti
<1>10. IflagOk(n, TRUE) /\ IntenaOk(n, r.intena)
  BY <1>7 DEF IflagOk, IntenaOk, Rests, SchedRests
<1>11. MovesTo(c, k, n, b, 1, r)
  <2> HIDE DEF r, n
  <2> QED BY <1>4, <1>5, <1>6, <1>7, <1>8, <1>9, <1>10 DEF MovesTo, Sti
<1>12. n \in Points
  BY <1>1, <1>3
<1> QED
  <2> HIDE DEF r, n
  <2> QED BY <1>1, <1>8, <1>11, <1>12, Moves

\* After the switch back, the thread's own intena is restored.
LEMMA IntenaStep ==
  ASSUME IInv, NEW c \in Cpus, Intena(c)
  PROVE  IInv'
<1>1. PICK k \in Points \ {"user"}, b \in Rests, a \in Int :
         /\ RunsAt(c, k, b, a) /\ Op(k, a)[1] = "intena" /\ Arg(c) = Op(k, a)[2]
         /\ Below(k, b) \in Points /\ Stack(Below(k, b), b, 1) \in Seq(Entries)
         /\ Tail(todo[Thread(c)]) = Stack(Below(k, b), b, 1)
  BY DoesIs DEF Intena
<1>2. k \in {"asleep", "preempted"}
  BY <1>1, Tops
<1> DEFINE n == Below(k, b)
           f == (k = "asleep")
           r == [cpu[c] EXCEPT !.intena = f]
<1>3. n = IF k = "asleep" THEN "woken" ELSE "yieldR"
  BY <1>2 DEF Below
<1>4. Arg(c) = f
  <2>1. CASE k = "asleep"
    <3>1. Op(k, a) = <<"intena", TRUE>>
      BY <2>1 DEF Op
    <3>2. <<"intena", TRUE>>[2] = TRUE
      OBVIOUS
    <3>3. Arg(c) = TRUE
      BY <1>1, <3>1, <3>2
    <3>4. f = TRUE
      BY <2>1
    <3> QED BY ONLY <3>3, <3>4, Zenon
  <2>2. CASE k = "preempted"
    <3>1. Op(k, a) = <<"intena", FALSE>>
      BY <2>2 DEF Op
    <3>2. <<"intena", FALSE>>[2] = FALSE
      OBVIOUS
    <3>3. Arg(c) = FALSE
      BY <1>1, <3>1, <3>2
    <3>4. f = FALSE
      BY <2>2
    <3> QED BY ONLY <3>3, <3>4, Zenon
  <2> QED BY <1>2, <2>1, <2>2
<1>5. PointOf(c, k, b) /\ cpu[c].ncli = Depth(k) /\ IflagOk(k, cpu[c].iflag)
  BY <1>1 DEF RunsAt
<1> HIDE DEF n
<1>6. PointOf(c, n, b)
  BY <1>2, <1>3, <1>5 DEF PointOf, Points, ProcOnly, SchedOnly, Handling, Ticking, Yielding, Sleeping, Rests, ProcRests, SchedRests
<1>7. Held(n) = Held(k) /\ StateAt(n) = StateAt(k)
  BY <1>2, <1>3 DEF Held, StateAt
<1>8. Depth(n) = Depth(k)
  BY <1>2, <1>3 DEF Depth, Rests, ProcRests, SchedRests
<1>9. IflagOk(n, cpu[c].iflag)
  BY <1>2, <1>3, <1>5 DEF IflagOk, Rests, ProcRests, SchedRests
<1>10. IntenaOk(n, f)
  BY <1>2, <1>3 DEF IntenaOk, Handling, Ticking, Yielding
<1>11. f \in BOOLEAN
  OBVIOUS
<1> HIDE DEF f
<1>12. /\ cpu' = [cpu EXCEPT ![c] = r] /\ r \in CpuType /\ r.proc = cpu[c].proc /\ r.ncli = cpu[c].ncli
       /\ r.iflag = cpu[c].iflag /\ r.intena = f
  BY <1>4, <1>11, CpuIs DEF Intena
<1>13. todo' = [todo EXCEPT ![Thread(c)] = Stack(n, b, 1)]
  BY <1>1, ThenIs DEF Intena, n
<1> HIDE DEF r
<1>14. MovesTo(c, k, n, b, 1, r)
  BY <1>5, <1>6, <1>7, <1>8, <1>9, <1>10, <1>12, <1>13 DEF MovesTo, Intena
<1> QED
  BY <1>1, <1>12, <1>14, Moves DEF n

\* The tick is counted.
LEMMA CountTickStep ==
  ASSUME IInv, NEW c \in Cpus, CountTick(c)
  PROVE  IInv'
<1>1. PICK k \in Points \ {"user"}, b \in Rests, a \in Int :
         /\ RunsAt(c, k, b, a) /\ Op(k, a)[1] = "tick"
         /\ Below(k, b) \in Points /\ Stack(Below(k, b), b, 1) \in Seq(Entries)
         /\ Tail(todo[Thread(c)]) = Stack(Below(k, b), b, 1)
  BY DoesIs DEF CountTick
<1>2. k = "count"
  BY <1>1, Tops
<1> DEFINE n == "tickP"
           r == cpu[c]
<1>3. Below(k, b) = n
  BY <1>2 DEF Below
<1>4. PointOf(c, k, b) /\ r.ncli = Depth(k) /\ IflagOk(k, r.iflag) /\ IntenaOk(k, r.intena)
  BY <1>1 DEF RunsAt
<1>5. PointOf(c, n, b)
  BY <1>2, <1>4 DEF PointOf, Points, ProcOnly, SchedOnly, Handling, Ticking, Yielding, Sleeping, Rests, ProcRests, SchedRests
<1>6. Held(n) = Held(k) /\ StateAt(n) = StateAt(k)
  BY <1>2 DEF Held, StateAt
<1>7. Depth(n) = Depth(k) /\ Depth(n) # 0
  BY <1>2 DEF Depth, Rests, ProcRests, SchedRests
<1>8. IflagOk(n, r.iflag)
  BY <1>2, <1>4 DEF IflagOk, Rests, ProcRests, SchedRests
<1>9. IntenaOk(n, r.intena)
  BY <1>2, <1>4, <1>7 DEF IntenaOk, Handling, Ticking, Yielding, Parked
<1>10. cpu' = [cpu EXCEPT ![c] = r] /\ r \in CpuType
  BY CpuIs DEF CountTick
<1>11. todo' = [todo EXCEPT ![Thread(c)] = Stack(n, b, 1)]
  BY <1>1, <1>3, ThenIs DEF CountTick
<1>12. n \in Points
  BY <1>1, <1>3
<1> HIDE DEF n, r
<1>13. MovesTo(c, k, n, b, 1, r)
  BY <1>4, <1>5, <1>6, <1>7, <1>8, <1>9, <1>10, <1>11 DEF MovesTo, CountTick, r
<1> QED
  BY <1>1, <1>10, <1>12, <1>13, Moves

\* iret: interrupts are on again, in what was interrupted or in user mode.
LEMMA IretStep ==
  ASSUME IInv, NEW c \in Cpus, Iret(c)
  PROVE  IInv'
<1>1. PICK k \in Points \ {"user"}, b \in Rests, a \in Int :
         /\ RunsAt(c, k, b, a) /\ Op(k, a)[1] \in {"iret", "trapret"}
         /\ Below(k, b) \in Points /\ Stack(Below(k, b), b, 1) \in Seq(Entries)
         /\ Tail(todo[Thread(c)]) = Stack(Below(k, b), b, 1)
  <2>1. CASE Does(c, "iret")
    BY <2>1, DoesIs
  <2>2. CASE Does(c, "trapret")
    BY <2>2, DoesIs
  <2> QED BY <2>1, <2>2 DEF Iret
<1>2. k \in {"iret", "trapret"}
  BY <1>1, Tops
<1> DEFINE n == Below(k, b)
           r == [cpu[c] EXCEPT !.iflag = TRUE]
<1>3. n = IF k = "iret" THEN b ELSE "user"
  BY <1>2 DEF Below
<1>4. PointOf(c, k, b) /\ cpu[c].ncli = Depth(k)
  BY <1>1 DEF RunsAt
<1> HIDE DEF n
<1>5. PointOf(c, n, b)
  BY <1>2, <1>3, <1>4 DEF PointOf, Points, ProcOnly, SchedOnly, Handling, Ticking, Yielding, Sleeping, Rests, ProcRests, SchedRests
<1>6. n \in Rests
  BY <1>3 DEF Rests, ProcRests
<1>7. Held(n) = Held(k) /\ StateAt(n) = StateAt(k)
  BY <1>2, <1>6 DEF Held, StateAt, Rests, ProcRests, SchedRests
<1>8. Depth(n) = Depth(k) /\ Depth(n) = 0
  BY <1>2, <1>6 DEF Depth, Rests, ProcRests
<1>9. IflagOk(n, TRUE) /\ IntenaOk(n, r.intena)
  BY <1>6, <1>8 DEF IflagOk, IntenaOk
<1>10. /\ cpu' = [cpu EXCEPT ![c] = r] /\ r \in CpuType /\ r.proc = cpu[c].proc /\ r.ncli = cpu[c].ncli
       /\ r.iflag = TRUE
  BY CpuIs DEF Iret
<1>11. todo' = [todo EXCEPT ![Thread(c)] = Stack(n, b, 1)]
  BY <1>1, ThenIs DEF Iret, n
<1> HIDE DEF r
<1>12. MovesTo(c, k, n, b, 1, r)
  BY <1>4, <1>5, <1>7, <1>8, <1>9, <1>10, <1>11 DEF MovesTo, Iret
<1> QED
  BY <1>1, <1>10, <1>12, Moves DEF n

\* sys_sleep reads ticks.
LEMMA Ticks0Step ==
  ASSUME IInv, NEW c \in Cpus, Ticks0(c)
  PROVE  IInv'
<1>1. PICK k \in Points \ {"user"}, b \in Rests, a \in Int :
         /\ RunsAt(c, k, b, a) /\ Op(k, a)[1] = "ticks0"
         /\ Below(k, b) \in Points /\ Stack(Below(k, b), b, 1) \in Seq(Entries)
         /\ Tail(todo[Thread(c)]) = Stack(Below(k, b), b, 1)
  BY DoesIs DEF Ticks0
<1>2. k = "ticks0"
  BY <1>1, Tops
<1> DEFINE n == "loop"
           r == cpu[c]
<1>3. Below(k, b) = "trapret"
  BY <1>2 DEF Below
<1>4. PointOf(c, k, b) /\ r.ncli = Depth(k) /\ IflagOk(k, r.iflag) /\ IntenaOk(k, r.intena)
  BY <1>1 DEF RunsAt
<1>5. PointOf(c, n, b)
  BY <1>2, <1>4 DEF PointOf, Points, ProcOnly, SchedOnly, Handling, Ticking, Yielding, Sleeping, Rests, ProcRests, SchedRests
<1>6. Held(n) = Held(k) /\ StateAt(n) = StateAt(k)
  BY <1>2 DEF Held, StateAt
<1>7. Depth(n) = Depth(k) /\ Depth(n) # 0
  BY <1>2 DEF Depth, Rests, ProcRests, SchedRests
<1>8. IflagOk(n, r.iflag)
  BY <1>2, <1>4 DEF IflagOk, Rests, ProcRests, SchedRests
<1>9. IntenaOk(n, r.intena)
  BY <1>2, <1>4, <1>7 DEF IntenaOk, Handling, Ticking, Yielding, Parked
<1>10. cpu' = [cpu EXCEPT ![c] = r] /\ r \in CpuType
  BY CpuIs DEF Ticks0
<1>11. Stack(n, b, 1) = On(<<"loop">>, Stack("trapret", b, 1))
  BY Stacks DEF AtLoop
<1>12. todo' = [todo EXCEPT ![Thread(c)] = Stack(n, b, 1)]
  BY <1>1, <1>3, <1>11, ThenIs DEF Ticks0
<1>13. n \in Points
  BY DEF Points, ProcOnly, Sleeping
<1> HIDE DEF n, r
<1>14. MovesTo(c, k, n, b, 1, r)
  BY <1>4, <1>5, <1>6, <1>7, <1>8, <1>9, <1>10, <1>12 DEF MovesTo, Ticks0, r
<1> QED
  BY <1>1, <1>10, <1>13, <1>14, Moves

\* sys_sleep tests whether it has slept enough: it sleeps, or releases tickslock.
LEMMA LoopStep ==
  ASSUME IInv, NEW c \in Cpus, Loop(c)
  PROVE  IInv'
<1>1. PICK k \in Points \ {"user"}, b \in Rests, a \in Int :
         /\ RunsAt(c, k, b, a) /\ Op(k, a)[1] = "loop"
         /\ Below(k, b) \in Points /\ Stack(Below(k, b), b, 1) \in Seq(Entries)
         /\ Tail(todo[Thread(c)]) = Stack(Below(k, b), b, 1)
  BY DoesIs DEF Loop
<1>2. k = "loop"
  BY <1>1, Tops
<1> DEFINE r == cpu[c]
           s == Stack("trapret", b, 1)
<1>3. Below(k, b) = "trapret"
  BY <1>2 DEF Below
<1>4. s \in Seq(Entries) /\ Tail(todo[Thread(c)]) = s /\ s = AtTrapret
  BY <1>1, <1>3, Stacks
<1>5. PointOf(c, k, b) /\ r.ncli = Depth(k) /\ IflagOk(k, r.iflag) /\ IntenaOk(k, r.intena)
  BY <1>1 DEF RunsAt
<1>6. cpu' = [cpu EXCEPT ![c] = r] /\ r \in CpuType
  BY CpuIs DEF Loop
<1> HIDE DEF s
<1>7. PICK n \in {"sleep", "done"} : todo' = [todo EXCEPT ![Thread(c)] = Stack(n, b, 1)]
  <2>1. CASE slept[Thread(c)] < SleepFor
    <3>1. Then(c, Sleep \o << <<"loop">> >>)
      BY <2>1 DEF Loop
    <3> DEFINE u == On(<<"loop">>, s)
               l == << <<"loop">> >>
    <3>2. u = l \o s /\ u \in Seq(Entries)
      BY <1>4, InEntries, Pushed DEF On
    <3>3. Sleep \in Seq(Entries) /\ l \in Seq(Entries) /\ s \in Seq(Entries)
      BY <1>4, InEntries DEF Sleep
    <3>4. (Sleep \o l) \o s = Sleep \o u
      <4> HIDE DEF l, u
      <4>1. (Sleep \o l) \o s = Sleep \o (l \o s)
        BY ONLY <3>3, ConcatAssociative
      <4> QED BY <3>2, <4>1
    <3>5. Sleep \o u = Stack("sleep", b, 1)
      <4>1. u = AtLoop
        BY <1>4 DEF AtLoop
      <4> HIDE DEF u
      <4> QED BY <3>2, <4>1, SleepPath, Stacks DEF AtSleep, AtSleepR, AtSleepSt, AtSleepSw, AtWoken, AtAgain
    <3>6. todo' = [todo EXCEPT ![Thread(c)] = (Sleep \o << <<"loop">> >>) \o Tail(@)]
      BY <3>1 DEF Then
    <3> HIDE DEF u
    <3> QED BY <1>4, <3>4, <3>5, <3>6
  <2>2. CASE ~(slept[Thread(c)] < SleepFor)
    <3>1. Then(c, << <<"release", "ticks">> >>)
      BY <2>2 DEF Loop
    <3>2. todo' = [todo EXCEPT ![Thread(c)] = On(<<"release", "ticks">>, s)]
      BY <1>4, <3>1, ThenIs
    <3>3. On(<<"release", "ticks">>, s) = Stack("done", b, 1)
      BY <1>4, Stacks DEF AtDone
    <3> QED BY <3>2, <3>3
  <2> QED BY <2>1, <2>2
<1>8. PointOf(c, n, b) /\ n \in Points
  BY <1>2, <1>5 DEF PointOf, Points, ProcOnly, SchedOnly, Handling, Ticking, Yielding, Sleeping, Rests, ProcRests, SchedRests
<1>9. Held(n) = Held(k) /\ StateAt(n) = StateAt(k)
  BY <1>2 DEF Held, StateAt
<1>10. Depth(n) = Depth(k) /\ Depth(n) # 0
  BY <1>2 DEF Depth, Rests, ProcRests, SchedRests
<1>11. IflagOk(n, r.iflag)
  BY <1>2, <1>5 DEF IflagOk, Rests, ProcRests, SchedRests
<1>12. IntenaOk(n, r.intena)
  BY <1>2, <1>5, <1>10 DEF IntenaOk, Handling, Ticking, Yielding, Parked
<1>13. r.proc = cpu[c].proc /\ r.ncli = Depth(n)
  BY <1>5, <1>10
<1> HIDE DEF r
<1>14. MovesTo(c, k, n, b, 1, r)
  BY <1>6, <1>7, <1>8, <1>9, <1>11, <1>12, <1>13 DEF MovesTo, Loop
<1> QED
  BY <1>1, <1>6, <1>8, <1>14, Moves

\* A process in user mode calls sleep.
LEMMA SysSleepStep ==
  ASSUME IInv, NEW c \in Cpus, SysSleep(c)
  PROVE  IInv'
<1> DEFINE r == cpu[c]
           n == "call"
<1>1. PICK k \in Points, b \in Rests, a \in Int : RunsAt(c, k, b, a)
  BY DEF IInv, CpuRuns
<1>2. PointOf(c, k, b) /\ todo[Thread(c)] = Stack(k, b, a) /\ r.ncli = Depth(k)
      /\ IflagOk(k, r.iflag) /\ IntenaOk(k, r.intena)
  BY <1>1 DEF RunsAt
<1>3. k = "user"
  <2>1. ASSUME k # "user" PROVE FALSE
    <3>1. Stack(k, b, a) = On(Op(k, a), Stack(Below(k, b), b, 1)) /\ Op(k, a) \in Entries /\ Below(k, b) \in Points
      BY <2>1, Unfolds
    <3> DEFINE s == Stack(Below(k, b), b, 1)
    <3>2. s \in Seq(Entries)
      BY <3>1, PathsAreSeqs
    <3> HIDE DEF s
    <3>3. On(Op(k, a), s) # <<>>
      BY <3>1, <3>2, Pushed
    <3> QED BY <1>2, <3>1, <3>3 DEF SysSleep, s
  <2> QED BY <2>1
<1>4. << <<"acquire", "ticks">>, <<"ticks0">>, <<"trapret">> >> = Stack(n, b, 1)
  <2> DEFINE q == << <<"acquire", "ticks">>, <<"ticks0">>, <<"trapret">> >>
  <2>1. q \in Seq(Entries)
    BY InEntries
  <2>2. q \o <<>> = On(<<"acquire", "ticks">>, On(<<"ticks0">>, On(<<"trapret">>, <<>>)))
    <3> DEFINE z == <<>>
    <3>1. z \in Seq(Entries)
      OBVIOUS
    <3> HIDE DEF z
    <3>2. q \o z = On(<<"acquire", "ticks">>, On(<<"ticks0">>, On(<<"trapret">>, z)))
      BY <3>1, CallPath
    <3> QED BY <3>2 DEF z
  <2>3. q \o <<>> = q
    BY <2>1, Empty
  <2> HIDE DEF q
  <2>4. q = AtCall
    BY <2>2, <2>3 DEF AtCall, AtTicks0, AtTrapret
  <2>5. Stack(n, b, 1) = AtCall
    BY Stacks
  <2> QED BY <2>4, <2>5 DEF q
<1>5. todo' = [todo EXCEPT ![Thread(c)] = Stack(n, b, 1)]
  BY <1>4 DEF SysSleep
<1>6. PointOf(c, n, b) /\ n \in Points
  BY <1>2, <1>3 DEF PointOf, Points, ProcOnly, SchedOnly, Handling, Ticking, Yielding, Sleeping, Rests, ProcRests, SchedRests
<1>7. Held(n) = Held(k) /\ StateAt(n) = StateAt(k)
  BY <1>3 DEF Held, StateAt
<1>8. Depth(n) = Depth(k) /\ Depth(n) = 0
  BY <1>3 DEF Depth, Rests, ProcRests, SchedRests
<1>9. IflagOk(n, r.iflag) /\ IntenaOk(n, r.intena)
  BY <1>2, <1>3, <1>8 DEF IflagOk, IntenaOk, Rests, ProcRests, SchedRests
<1>10. cpu' = [cpu EXCEPT ![c] = r] /\ r \in CpuType /\ r.proc = cpu[c].proc /\ r.ncli = Depth(n)
  BY <1>2, <1>8, CpuIs DEF SysSleep
<1> HIDE DEF r, n
<1>11. MovesTo(c, k, n, b, 1, r)
  BY <1>5, <1>6, <1>7, <1>9, <1>10 DEF MovesTo, SysSleep
<1> QED
  BY <1>1, <1>6, <1>10, <1>11, Moves

\* The timer of a processor.
LEMMA TimerStep ==
  ASSUME IInv, NEW c \in Cpus, Timer(c)
  PROVE  IInv'
<1>1. PICK k \in Points, b \in Rests, a \in Int : RunsAt(c, k, b, a)
  BY DEF IInv, CpuRuns
<1> DEFINE r == [cpu[c] EXCEPT !.timer = TRUE]
<1>2. /\ cpu' = [cpu EXCEPT ![c] = r] /\ r \in CpuType /\ r.proc = cpu[c].proc /\ r.ncli = cpu[c].ncli
      /\ r.iflag = cpu[c].iflag /\ r.intena = cpu[c].intena
  BY CpuIs DEF Timer
<1> HIDE DEF r
<1>3. todo' = [todo EXCEPT ![Thread(c)] = Stack(k, b, a)]
  <2>1. todo = [todo EXCEPT ![Thread(c)] = todo[Thread(c)]]
    BY DEF IInv, TypeOK
  <2> QED BY <1>1, <2>1 DEF Timer, RunsAt
<1>4. MovesTo(c, k, k, b, a, r)
  BY <1>1, <1>2, <1>3 DEF MovesTo, Timer, RunsAt
<1> QED
  BY <1>1, <1>2, <1>4, Moves

\* The order in which calls are put on a stack.
LEMMA Associative ==
  ASSUME NEW s \in Seq(Entries), NEW p \in Seq(Entries), NEW q \in Seq(Entries)
  PROVE  (s \o p) \o q = s \o (p \o q)
BY ConcatAssociative

\* The handler on top of what it has interrupted: the tick on the first
\* processor, yield in a process, and iret.
LEMMA HandlerPath ==
  ASSUME NEW c \in Cpus, NEW k \in Rests, cpu[c].proc # 0 <=> k \in ProcRests
  PROVE  Handler(c) \o Rest(k) = Stack(IF c = 1 THEN "tick" ELSE IF k \in ProcRests THEN "yield" ELSE "iret", k, 1)
<1> DEFINE T == IF c = 1 THEN Tick ELSE <<>>
           Y == IF cpu[c].proc # 0 THEN Yield ELSE <<>>
           I == << <<"iret">> >>
           s == Rest(k)
           u == I \o s
           v == Y \o u
<1>1. T \in Seq(Entries) /\ Y \in Seq(Entries) /\ I \in Seq(Entries)
  BY InEntries DEF Tick, Yield
<1>2. s \in Seq(Entries)
  <2>1. k \in Points
    BY DEF Points, ProcOnly, SchedOnly, Rests
  <2>2. Stack(k, k, 1) = s
    BY Stacks
  <2> QED BY <2>1, <2>2, PathsAreSeqs
<1>3. Handler(c) = (T \o Y) \o I
  BY DEF Handler
<1>4. u = AtIret(k)
  BY DEF AtIret, On
<1> HIDE DEF T, Y, I, s
<1>5. u \in Seq(Entries) /\ T \o Y \in Seq(Entries)
  BY ONLY <1>1, <1>2, ConcatProperties
<1>6. ((T \o Y) \o I) \o s = (T \o Y) \o u
  <2> DEFINE w == T \o Y
  <2>1. w \in Seq(Entries)
    BY <1>5
  <2> HIDE DEF w
  <2>2. (w \o I) \o s = w \o (I \o s)
    BY ONLY <1>1, <1>2, <2>1, Associative
  <2> QED BY <2>2 DEF w
<1> HIDE DEF u
<1>7. v \in Seq(Entries)
  BY ONLY <1>1, <1>5, ConcatProperties DEF v
<1>8. (T \o Y) \o u = T \o v
  BY ONLY <1>1, <1>5, Associative
<1>9. v = Ticked(k)
  <2>1. CASE k \in ProcRests
    <3>1. Y = Yield
      BY <2>1 DEF Y
    <3>2. Yield \o u = On(<<"acquire", "ptable">>, On(<<"state", "RUNNABLE">>, On(<<"sched">>, On(<<"release", "ptable">>, u))))
      BY <1>5, YieldPath
    <3> QED BY <1>4, <2>1, <3>1, <3>2 DEF Ticked, AtYield, AtYieldSt, AtYieldSw, AtYieldR
  <2>2. CASE k \notin ProcRests
    <3>1. Y = <<>>
      BY <2>2 DEF Y
    <3>2. <<>> \o u = u
      BY <1>5, Empty
    <3> QED BY <1>4, <2>2, <3>1, <3>2 DEF Ticked
  <2> QED BY <2>1, <2>2
<1> HIDE DEF v
<1>10. CASE c = 1
  <2>1. T = Tick
    BY <1>10 DEF T
  <2>2. Tick \o v = On(<<"acquire", "ticks">>, On(<<"tick">>, On(<<"acquire", "ptable">>, On(<<"wakeup">>,
                      On(<<"release", "ptable">>, On(<<"release", "ticks">>, v))))))
    BY <1>7, TickPath
  <2>3. Tick \o v = AtTick(k)
    BY <1>9, <2>2 DEF AtTick, AtCount, AtTickP, AtWake, AtTickRP, AtTickRT
  <2>4. Stack("tick", k, 1) = AtTick(k)
    BY Stacks
  <2> QED BY <1>3, <1>6, <1>8, <1>10, <2>1, <2>3, <2>4 DEF s
<1>11. CASE c # 1
  <2>1. T = <<>>
    BY <1>11 DEF T
  <2>2. T \o v = Ticked(k)
    BY <1>7, <1>9, <2>1, Empty
  <2>3. Stack("yield", k, 1) = AtYield(k) /\ Stack("iret", k, 1) = AtIret(k)
    BY Stacks
  <2> QED BY <1>3, <1>6, <1>8, <1>11, <2>2, <2>3 DEF s, Ticked
<1> QED
  BY <1>10, <1>11

\* The timer interrupt.
LEMMA InterruptStep ==
  ASSUME IInv, NEW c \in Cpus, Interrupt(c)
  PROVE  IInv'
<1>1. PICK k \in Points, b \in Rests, a \in Int : RunsAt(c, k, b, a)
  BY DEF IInv, CpuRuns
<1> DEFINE n == IF c = 1 THEN "tick" ELSE IF k \in ProcRests THEN "yield" ELSE "iret"
           r == [cpu[c] EXCEPT !.iflag = FALSE, !.timer = FALSE]
<1>2. PointOf(c, k, b) /\ todo[Thread(c)] = Stack(k, b, a) /\ cpu[c].ncli = Depth(k) /\ IflagOk(k, cpu[c].iflag)
  BY <1>1 DEF RunsAt
<1>3. k \in Rests
  BY <1>2 DEF IflagOk, Interrupt, Interrupted, Rests, ProcRests, SchedRests
<1>4. cpu[c].proc # 0 <=> k \in ProcRests
  BY <1>2, <1>3 DEF PointOf, Rests, ProcOnly, SchedOnly, ProcRests, SchedRests
<1>5. todo' = [todo EXCEPT ![Thread(c)] = Stack(n, k, 1)]
  <2>1. todo' = [todo EXCEPT ![Thread(c)] = Handler(c) \o todo[Thread(c)]]
    BY DEF Interrupt, IInv, TypeOK
  <2>2. Stack(k, b, a) = Rest(k)
    BY <1>3, Stacks
  <2> QED BY <1>2, <1>3, <1>4, <2>1, <2>2, HandlerPath
<1>6. n \in {"tick", "yield", "iret"} /\ (n = "yield" => k \in ProcRests)
  OBVIOUS
<1> HIDE DEF n
<1>7. PointOf(c, n, k) /\ n \in Points
  BY <1>3, <1>4, <1>6 DEF PointOf, Points, ProcOnly, SchedOnly, Handling, Ticking, Yielding, Sleeping, Rests, ProcRests, SchedRests
<1>8. Held(n) = Held(k) /\ StateAt(n) = StateAt(k)
  BY <1>3, <1>6 DEF Held, StateAt, Rests, ProcRests, SchedRests
<1>9. Depth(n) = Depth(k) /\ Depth(n) = 0
  BY <1>3, <1>6 DEF Depth, Rests, ProcRests, SchedRests
<1>10. IflagOk(n, FALSE) /\ IntenaOk(n, r.intena)
  BY <1>6, <1>9 DEF IflagOk, IntenaOk, Rests, ProcRests, SchedRests
<1>11. /\ cpu' = [cpu EXCEPT ![c] = r] /\ r \in CpuType /\ r.proc = cpu[c].proc /\ r.ncli = cpu[c].ncli
       /\ r.iflag = FALSE
  <2>1. cpu \in [Cpus -> CpuType] /\ cpu[c] \in CpuType
    BY DEF IInv, TypeOK, CpuType
  <2> QED BY <2>1 DEF Interrupt, CpuType
<1> HIDE DEF r
<1>12. MovesTo(c, k, n, k, 1, r)
  BY <1>2, <1>5, <1>7, <1>8, <1>9, <1>10, <1>11 DEF MovesTo, Interrupt
<1> QED
  BY <1>1, <1>3, <1>7, <1>11, <1>12, Moves

\* A process on another processor than the one that holds ptable.lock is RUNNING.
LEMMA RunningElsewhere ==
  ASSUME IInv, NEW c \in Cpus, lock["ptable"] = c, NEW d \in Cpus \ {c}, cpu[d].proc # 0
  PROVE  state[cpu[d].proc] = "RUNNING"
<1>1. PICK k \in Points, b \in Rests, a \in Int : RunsAt(d, k, b, a)
  BY DEF IInv, CpuRuns
<1>2. "ptable" \notin Held(k)
  BY <1>1 DEF RunsAt, Locks
<1>3. k \notin {"sleepSw", "yieldSw"}
  BY <1>2 DEF Held
<1> QED
  BY <1>1, <1>3 DEF RunsAt, StateAt

\* sleep and yield set the state of the process.
LEMMA SetStateStep ==
  ASSUME IInv, NEW c \in Cpus, SetState(c)
  PROVE  IInv'
<1>1. PICK k \in Points \ {"user"}, b \in Rests, a \in Int :
         /\ RunsAt(c, k, b, a) /\ Op(k, a)[1] = "state" /\ Arg(c) = Op(k, a)[2]
         /\ Below(k, b) \in Points /\ Stack(Below(k, b), b, 1) \in Seq(Entries)
         /\ Tail(todo[Thread(c)]) = Stack(Below(k, b), b, 1)
  BY DoesIs DEF SetState
<1>2. k \in {"sleepSt", "yieldSt"}
  BY <1>1, Tops
<1> DEFINE n == Below(k, b)
           r == cpu[c]
           p == cpu[c].proc
<1>3. n = IF k = "sleepSt" THEN "sleepSw" ELSE "yieldSw"
  BY <1>2 DEF Below
<1>4. Arg(c) = StateAt(n) /\ StateAt(n) \in States
  <2>1. Op(k, a) = <<"state", StateAt(n)>>
    BY <1>2, <1>3 DEF Op, StateAt
  <2>2. <<"state", StateAt(n)>>[2] = StateAt(n)
    OBVIOUS
  <2> QED BY <1>1, <2>1, <2>2 DEF StateAt, States
<1>5. PointOf(c, k, b) /\ r.ncli = Depth(k) /\ IflagOk(k, r.iflag) /\ IntenaOk(k, r.intena)
  BY <1>1 DEF RunsAt
<1> HIDE DEF n
<1>6. p # 0
  BY <1>2, <1>5 DEF PointOf, ProcOnly, Sleeping, Yielding
<1>7. Thread(c) = p /\ p \in Procs
  BY <1>6, ThreadsDiffer DEF IInv
<1>8. PointOf(c, n, b)
  BY <1>2, <1>3, <1>5 DEF PointOf, Points, ProcOnly, SchedOnly, Handling, Ticking, Yielding, Sleeping, Rests, ProcRests, SchedRests
<1>9. Held(n) = Held(k)
  BY <1>2, <1>3 DEF Held
<1>10. Depth(n) = Depth(k) /\ Depth(n) # 0
  BY <1>2, <1>3 DEF Depth, Rests, ProcRests, SchedRests
<1>11. IflagOk(n, r.iflag)
  BY <1>2, <1>3, <1>5 DEF IflagOk, Rests, ProcRests, SchedRests
<1>12. IntenaOk(n, r.intena)
  BY <1>2, <1>3, <1>5, <1>10 DEF IntenaOk, Handling, Ticking, Yielding, Parked
<1>13. cpu' = [cpu EXCEPT ![c] = r] /\ r \in CpuType
  BY CpuIs DEF SetState
<1>14. todo' = [todo EXCEPT ![Thread(c)] = Stack(n, b, 1)]
  BY <1>1, ThenIs DEF SetState, n
<1>15. state' = [state EXCEPT ![p] = StateAt(n)] /\ lock' = lock /\ panic' = panic
  BY <1>4, <1>7 DEF SetState
<1>16. lock' \in [Locks -> 0..NCpu] /\ \A l \in Locks : lock'[l] = c <=> l \in Held(n)
  BY <1>1, <1>9, <1>15 DEF RunsAt, IInv, TypeOK
<1>17. state \in [Procs -> States]
  BY DEF IInv, TypeOK, States
<1>18. state' \in [Procs -> States] /\ state'[p] = StateAt(n) /\ \A q \in Procs \ {p} : state'[q] = state[q]
  BY <1>4, <1>7, <1>15, <1>17
<1>19. OthersKeep(c)
  <2>1. \A d \in Cpus \ {c} : cpu[d].proc # 0 => cpu[d].proc # p /\ cpu[d].proc \in Procs
    BY ThreadsDiffer DEF IInv, Alone
  <2>2. \A q \in Procs : (\A d \in Cpus : cpu[d].proc # q) => q # p /\ state[q] \in {"RUNNABLE", "SLEEPING"}
    BY DEF IInv, OffCpu
  <2> QED BY <1>15, <1>18, <2>1, <2>2 DEF OthersKeep
<1>20. r.proc = p /\ (p # 0 => state'[p] = StateAt(n)) /\ r.ncli = Depth(n)
  BY <1>5, <1>10, <1>18
<1> HIDE DEF r, p
<1>21. ComesTo(c, n, b, 1, r)
  BY <1>8, <1>11, <1>12, <1>13, <1>14, <1>15, <1>16, <1>18, <1>19, <1>20 DEF ComesTo, r, p
<1> QED
  BY <1>1, <1>13, <1>21, Goes DEF n

\* wakeup1 makes the sleeping processes RUNNABLE, none of which is on a processor.
LEMMA WakeupStep ==
  ASSUME IInv, NEW c \in Cpus, Wakeup(c)
  PROVE  IInv'
<1>1. PICK k \in Points \ {"user"}, b \in Rests, a \in Int :
         /\ RunsAt(c, k, b, a) /\ Op(k, a)[1] = "wakeup"
         /\ Below(k, b) \in Points /\ Stack(Below(k, b), b, 1) \in Seq(Entries)
         /\ Tail(todo[Thread(c)]) = Stack(Below(k, b), b, 1)
  BY DoesIs DEF Wakeup
<1>2. k = "wake"
  BY <1>1, Tops
<1> DEFINE n == "tickRP"
           r == cpu[c]
<1>3. Below(k, b) = n
  BY <1>2 DEF Below
<1>4. PointOf(c, k, b) /\ r.ncli = Depth(k) /\ IflagOk(k, r.iflag) /\ IntenaOk(k, r.intena)
  BY <1>1 DEF RunsAt
<1>5. PointOf(c, n, b) /\ n \in Points
  BY <1>1, <1>2, <1>3, <1>4 DEF PointOf, Points, ProcOnly, SchedOnly, Handling, Ticking, Yielding, Sleeping, Rests, ProcRests, SchedRests
<1>6. Held(n) = Held(k) /\ StateAt(n) = StateAt(k) /\ StateAt(n) = "RUNNING" /\ "ptable" \in Held(k)
  BY <1>2 DEF Held, StateAt, Locks
<1>7. Depth(n) = Depth(k) /\ Depth(n) # 0
  BY <1>2 DEF Depth, Rests, ProcRests, SchedRests
<1>8. IflagOk(n, r.iflag)
  BY <1>2, <1>4 DEF IflagOk, Rests, ProcRests, SchedRests
<1>9. IntenaOk(n, r.intena)
  BY <1>2, <1>4, <1>7 DEF IntenaOk, Handling, Ticking, Yielding, Parked
<1>10. cpu' = [cpu EXCEPT ![c] = r] /\ r \in CpuType
  BY CpuIs DEF Wakeup
<1>11. todo' = [todo EXCEPT ![Thread(c)] = Stack(n, b, 1)]
  BY <1>1, <1>3, ThenIs DEF Wakeup
<1>12. lock' = lock /\ panic' = panic /\ \A l \in Locks : lock[l] = c <=> l \in Held(n)
  BY <1>1, <1>6 DEF Wakeup, RunsAt
<1>13. lock["ptable"] = c
  BY <1>6, <1>12 DEF Locks
<1>14. /\ state' = [p \in Procs |-> IF state[p] = "SLEEPING" THEN "RUNNABLE" ELSE state[p]]
       /\ state \in [Procs -> States]
  BY DEF Wakeup, IInv, TypeOK, States
<1>15. state' \in [Procs -> States]
  BY <1>14 DEF States
<1>16. \A d \in Cpus : cpu[d].proc # 0 => cpu[d].proc \in Procs
  BY ThreadsDiffer DEF IInv
<1>17. \A d \in Cpus : cpu[d].proc # 0 => state[cpu[d].proc] = "RUNNING"
  <2>1. cpu[c].proc # 0 => state[cpu[c].proc] = "RUNNING"
    BY <1>1, <1>6 DEF RunsAt
  <2> QED BY <1>13, <2>1, RunningElsewhere
<1>18. \A d \in Cpus : cpu[d].proc # 0 => state'[cpu[d].proc] = state[cpu[d].proc]
  BY <1>14, <1>16, <1>17
<1>19. OthersKeep(c)
  <2>1. \A q \in Procs : (\A d \in Cpus : cpu[d].proc # q) => state[q] \in {"RUNNABLE", "SLEEPING"}
    BY DEF IInv, OffCpu
  <2> QED BY <1>12, <1>14, <1>18, <2>1 DEF OthersKeep
<1>20. r.proc = cpu[c].proc /\ (r.proc # 0 => state'[r.proc] = StateAt(n)) /\ r.ncli = Depth(n)
  BY <1>4, <1>6, <1>7, <1>17, <1>18
<1>21. lock' \in [Locks -> 0..NCpu]
  BY <1>12 DEF IInv, TypeOK
<1> HIDE DEF r, n
<1>22. ComesTo(c, n, b, 1, r)
  BY <1>5, <1>8, <1>9, <1>10, <1>11, <1>12, <1>15, <1>19, <1>20, <1>21 DEF ComesTo
<1> QED
  BY <1>5, <1>10, <1>22, Goes

\* The first RUNNABLE process that the scan finds.
LEMMA FirstReady ==
  ASSUME NEW S \in SUBSET Procs, S # {}
  PROVE  Min(S) \in S
<1>1. S \subseteq Nat
  BY CpuAssumption DEF Procs
<1> DEFINE L == OpToRel(<, Nat)
<1>2. PICK x \in S : \A y \in S : ~(<<y, x>> \in L)
  BY <1>1, NatLessThanWellFounded, WFMin
<1>3. ASSUME NEW y \in S PROVE ~(y < x)
  <2>1. <<y, x>> \in Nat \X Nat
    BY <1>1
  <2> QED BY <1>2, <2>1 DEF OpToRel
<1> HIDE DEF L
<1>4. \A y \in S : x =< y
  BY <1>1, <1>3
<1> QED
  BY <1>4 DEF Min

\* A step that gives processor c another thread: t has the stack s, and the new
\* thread is at point k.
Switches(c, k, b, a, r, t, s) ==
  /\ cpu' = [cpu EXCEPT ![c] = r] /\ lock' = lock /\ panic' = panic
  /\ todo' = [todo EXCEPT ![t] = s] /\ state' \in [Procs -> States]
  /\ RunsAt(c, k, b, a)'
  /\ r.proc # 0 => \E m \in Int : todo'[Sched(c)] = Stack("scan", "sti", m)
  /\ \A d \in Cpus \ {c} : /\ Thread(d) # t /\ Sched(d) # t /\ (r.proc # 0 => cpu[d].proc # r.proc)
                           /\ cpu[d].proc # 0 => state'[cpu[d].proc] = state[cpu[d].proc]

\* All but OffCpu holds after such a step.
LEMMA SwitchKeeps ==
  ASSUME IInv, NEW c \in Cpus, NEW k \in Points, NEW b \in Rests, NEW a \in Int, NEW r \in CpuType,
         NEW t \in Threads, NEW s \in Seq(Entries), Switches(c, k, b, a, r, t, s)
  PROVE  TypeOK' /\ CpuRuns' /\ Alone'
<1> USE DEF Switches
<1>1. TypeOK /\ CpuRuns /\ Alone /\ OffCpu
  BY DEF IInv
<1>2. cpu'[c] = r /\ \A d \in Cpus \ {c} : cpu'[d] = cpu[d]
  BY <1>1 DEF TypeOK
<1>3. \A u : u \in Threads /\ u # t => todo'[u] = todo[u]
  BY <1>1 DEF TypeOK
<1>4. \A d \in Cpus \ {c} : Thread(d)' = Thread(d) /\ Sched(d) \in Threads /\ Thread(d) \in Threads
  BY <1>1, <1>2, ThreadsDiffer DEF Thread
<1>5. TypeOK'
  BY <1>1 DEF TypeOK, CpuType, States
<1>6. Alone'
  <2> SUFFICES ASSUME NEW d \in Cpus, NEW e \in Cpus, d # e, cpu'[d].proc # 0 PROVE cpu'[d].proc # cpu'[e].proc
    BY DEF Alone
  <2>1. CASE d = c
    BY <1>2, <2>1
  <2>2. CASE e = c
    BY <1>2, <2>2
  <2>3. CASE d # c /\ e # c
    BY <1>1, <1>2, <2>3 DEF Alone
  <2> QED BY <2>1, <2>2, <2>3
<1>7. ASSUME NEW d \in Cpus \ {c}, NEW m \in Points, NEW e \in Rests, NEW n \in Int, RunsAt(d, m, e, n)
      PROVE  RunsAt(d, m, e, n)'
  <2>1. PointOf(d, m, e)'
    BY <1>2, <1>7 DEF PointOf, RunsAt
  <2>2. todo'[Thread(d)'] = Stack(m, e, n)
    BY <1>3, <1>4, <1>7 DEF RunsAt
  <2>3. \A l \in Locks : lock'[l] = d <=> l \in Held(m)
    BY <1>7 DEF RunsAt
  <2>4. cpu'[d].proc # 0 => state'[cpu'[d].proc] = StateAt(m)
    BY <1>2, <1>7 DEF RunsAt
  <2> QED BY <1>2, <1>7, <2>1, <2>2, <2>3, <2>4 DEF RunsAt
<1>8. ASSUME NEW d \in Cpus
      PROVE  /\ \E m \in Points, e \in Rests, n \in Int : RunsAt(d, m, e, n)'
             /\ cpu'[d].proc # 0 => \E n \in Int : todo'[Sched(d)] = Stack("scan", "sti", n)
  <2>1. CASE d = c
    BY <1>2, <2>1
  <2>2. CASE d # c
    <3>1. /\ \E m \in Points, e \in Rests, n \in Int : RunsAt(d, m, e, n)
          /\ cpu[d].proc # 0 => \E n \in Int : todo[Sched(d)] = Stack("scan", "sti", n)
      BY <1>1 DEF CpuRuns
    <3>2. \E m \in Points, e \in Rests, n \in Int : RunsAt(d, m, e, n)'
      BY <1>7, <2>2, <3>1
    <3>3. todo'[Sched(d)] = todo[Sched(d)]
      BY <1>3, <1>4, <2>2
    <3> QED BY <1>2, <2>2, <3>1, <3>2, <3>3
  <2> QED BY <2>1, <2>2
<1>9. CpuRuns'
  BY <1>8 DEF CpuRuns, Sched
<1> QED
  BY <1>5, <1>6, <1>9

\* sched: none of its checks fails, and the scheduler goes on with the scan.
LEMMA SwitchStep ==
  ASSUME IInv, NEW c \in Cpus, Switch(c)
  PROVE  IInv'
<1>1. PICK k \in Points \ {"user"}, b \in Rests, a \in Int :
         /\ RunsAt(c, k, b, a) /\ Op(k, a)[1] = "sched"
         /\ Below(k, b) \in Points /\ Stack(Below(k, b), b, 1) \in Seq(Entries)
         /\ Tail(todo[Thread(c)]) = Stack(Below(k, b), b, 1)
  BY DoesIs DEF Switch
<1>2. k \in {"sleepSw", "yieldSw"}
  BY <1>1, Tops
<1> DEFINE x == IF k = "sleepSw" THEN "asleep" ELSE "preempted"
           r == [cpu[c] EXCEPT !.proc = 0]
           p == cpu[c].proc
           s == Stack(x, b, 1)
<1>3. /\ PointOf(c, k, b) /\ cpu[c].ncli = Depth(k) /\ IflagOk(k, cpu[c].iflag) /\ IntenaOk(k, cpu[c].intena)
      /\ \A l \in Locks : lock[l] = c <=> l \in Held(k)
      /\ p # 0 => state[p] = StateAt(k)
  BY <1>1 DEF RunsAt
<1>4. p # 0 /\ b \in ProcRests
  BY <1>2, <1>3 DEF PointOf, ProcOnly, Sleeping, Yielding
<1>5. Thread(c) = p /\ p \in Procs /\ p \in Threads /\ Sched(c) \in Threads /\ p # Sched(c)
  BY <1>4, ThreadsDiffer DEF IInv
<1>6. Held(k) = {"ptable"} /\ Depth(k) = 1 /\ StateAt(k) \in {"RUNNABLE", "SLEEPING"}
  BY <1>2 DEF Held, Depth, StateAt, Rests, ProcRests, SchedRests
<1>7. cpu[c] \in CpuType /\ cpu \in [Cpus -> CpuType] /\ cpu[c].iflag \in BOOLEAN /\ cpu[c].intena \in BOOLEAN
  BY DEF IInv, TypeOK, CpuType
<1>8. cpu[c].iflag = FALSE
  BY <1>2, <1>3, <1>7 DEF IflagOk, Rests, ProcRests, SchedRests
<1>9. ~SchedPanics(c)
  BY <1>3, <1>4, <1>5, <1>6, <1>8 DEF SchedPanics, Locks
<1>10. /\ Then(c, Kept(c)) /\ lock' = lock /\ state' = state /\ panic' = panic
       /\ cpu' = [cpu EXCEPT ![c].proc = 0]
  BY <1>9 DEF Switch
<1>11. /\ cpu' = [cpu EXCEPT ![c] = r] /\ r \in CpuType /\ r.proc = 0 /\ r.ncli = cpu[c].ncli
       /\ r.iflag = cpu[c].iflag /\ r.intena = cpu[c].intena
  BY <1>7, <1>10, CpuAssumption DEF CpuType
<1> HIDE DEF r
<1>12. cpu[c].intena = (k = "sleepSw")
  <2>1. CASE k = "sleepSw"
    BY <1>3, <1>6, <1>7, <2>1 DEF IntenaOk, Parked, Handling, Ticking, Yielding
  <2>2. CASE k = "yieldSw"
    BY <1>3, <1>6, <1>7, <2>2 DEF IntenaOk, Parked, Handling, Ticking, Yielding
  <2> QED BY <1>2, <2>1, <2>2
<1>13. s = On(<<"intena", cpu[c].intena>>, Stack(Below(k, b), b, 1))
  <2>1. CASE k = "sleepSw"
    <3>1. cpu[c].intena = TRUE
      BY <1>12, <2>1
    <3>2. s = AtAsleep /\ Stack(Below(k, b), b, 1) = AtWoken
      BY <2>1, Stacks DEF Below
    <3> QED BY <3>1, <3>2 DEF AtAsleep
  <2>2. CASE k = "yieldSw"
    <3>1. cpu[c].intena = FALSE
      BY <1>12, <2>2
    <3>2. s = AtPreempted(b) /\ Stack(Below(k, b), b, 1) = AtYieldR(b)
      BY <2>2, Stacks DEF Below
    <3> QED BY <3>1, <3>2 DEF AtPreempted
  <2> QED BY <1>2, <2>1, <2>2
<1>14. x \in Parked /\ x \in Points
  BY DEF Parked, Points, ProcOnly, Sleeping, Yielding
<1>15. s \in Seq(Entries)
  BY <1>14, PathsAreSeqs
<1> HIDE DEF s
<1>16. todo' = [todo EXCEPT ![p] = s]
  <2> DEFINE i == <<"intena", cpu[c].intena>>
             z == Stack(Below(k, b), b, 1)
  <2>1. Then(c, <<i>>)
    BY <1>10 DEF Kept
  <2>2. z \in Seq(Entries) /\ Tail(todo[Thread(c)]) = z /\ s = On(i, z)
    BY <1>1, <1>13
  <2> HIDE DEF i, z
  <2>3. todo' = [todo EXCEPT ![Thread(c)] = On(i, z)]
    BY <2>1, <2>2, ThenIs
  <2> QED BY <1>5, <2>2, <2>3
<1>17. PICK m \in Int : todo[Sched(c)] = Stack("scan", "sti", m)
  BY <1>4 DEF IInv, CpuRuns
<1>18. todo'[Sched(c)] = Stack("scan", "sti", m) /\ todo'[p] = s /\ \A u \in Threads \ {p} : todo'[u] = todo[u]
  BY <1>5, <1>16, <1>17 DEF IInv, TypeOK
<1>19. cpu'[c] = r /\ \A d \in Cpus \ {c} : cpu'[d] = cpu[d]
  BY <1>7, <1>11
<1>20. RunsAt(c, "scan", "sti", m)'
  <2>1. Thread(c)' = Sched(c)
    BY <1>11, <1>19 DEF Thread
  <2>2. PointOf(c, "scan", "sti")'
    BY <1>11, <1>19 DEF PointOf, Points, ProcOnly, SchedOnly, Sleeping, Yielding, ProcRests, SchedRests
  <2>3. Held("scan") = {"ptable"} /\ Depth("scan") = 1
    BY DEF Held, Depth, Rests, ProcRests, SchedRests
  <2>4. IflagOk("scan", r.iflag) /\ IntenaOk("scan", r.intena)
    BY <1>8, <1>11 DEF IflagOk, IntenaOk, Rests, ProcRests, SchedRests
  <2>5. \A l \in Locks : lock'[l] = c <=> l \in Held("scan")
    BY <1>3, <1>6, <1>10, <2>3
  <2> QED BY <1>3, <1>6, <1>11, <1>18, <1>19, <2>1, <2>2, <2>3, <2>4, <2>5 DEF RunsAt
<1>21. "scan" \in Points /\ "sti" \in Rests
  BY DEF Points, SchedOnly, Rests, SchedRests
<1>22. \A d \in Cpus \ {c} : Thread(d) # p /\ Sched(d) # p
  BY <1>5, ThreadsDiffer DEF IInv
<1>23. Switches(c, "scan", "sti", m, r, p, s)
  <2>1. state' \in [Procs -> States]
    BY <1>10 DEF IInv, TypeOK, States
  <2> QED BY <1>10, <1>11, <1>16, <1>20, <1>22, <2>1 DEF Switches
<1>24. TypeOK' /\ CpuRuns' /\ Alone'
  BY <1>5, <1>11, <1>15, <1>21, <1>23, SwitchKeeps
<1>25. OffCpu'
  <2> SUFFICES ASSUME NEW q \in Procs, \A d \in Cpus : cpu'[d].proc # q
               PROVE  /\ state'[q] \in {"RUNNABLE", "SLEEPING"}
                      /\ \E y \in Parked, e \in ProcRests : todo'[q] = Stack(y, e, 1)
    BY DEF OffCpu
  <2>1. CASE q = p
    BY <1>3, <1>4, <1>6, <1>10, <1>14, <1>18, <2>1 DEF s
  <2>2. CASE q # p
    <3>1. \A d \in Cpus : cpu[d].proc # q
      BY <1>19, <2>2
    <3>2. q \in Threads \ {p}
      BY <2>2, ThreadsDiffer DEF IInv
    <3> QED BY <1>10, <1>18, <3>1, <3>2 DEF IInv, OffCpu
  <2> QED BY <2>1, <2>2
<1> QED
  BY <1>24, <1>25 DEF IInv

\* The scan finds nothing, and the scheduler releases ptable.lock.
LEMMA ScanNoneStep ==
  ASSUME IInv, NEW c \in Cpus, Does(c, "scan"),
         Then(c, << <<"release", "ptable">> >> \o SchedulerLoop), cpu' = cpu, state' = state, lock' = lock, panic' = panic
  PROVE  IInv'
<1>1. PICK k \in Points \ {"user"}, b \in Rests, a \in Int :
         /\ RunsAt(c, k, b, a) /\ Op(k, a)[1] = "scan"
         /\ Below(k, b) \in Points /\ Stack(Below(k, b), b, 1) \in Seq(Entries)
         /\ Tail(todo[Thread(c)]) = Stack(Below(k, b), b, 1)
  BY DoesIs
<1>2. k = "scan"
  BY <1>1, Tops
<1> DEFINE n == "none"
           r == cpu[c]
<1>3. Tail(todo[Thread(c)]) = <<>>
  BY <1>1, <1>2, Stacks DEF Below
<1>4. PointOf(c, k, b) /\ r.ncli = Depth(k) /\ IflagOk(k, r.iflag) /\ IntenaOk(k, r.intena)
  BY <1>1 DEF RunsAt
<1>5. PointOf(c, n, b) /\ n \in Points
  BY <1>2, <1>4 DEF PointOf, Points, ProcOnly, SchedOnly, Handling, Ticking, Yielding, Sleeping, Rests, ProcRests, SchedRests
<1>6. Held(n) = Held(k) /\ StateAt(n) = StateAt(k)
  BY <1>2 DEF Held, StateAt
<1>7. Depth(n) = Depth(k) /\ Depth(n) # 0
  BY <1>2 DEF Depth, Rests, ProcRests, SchedRests
<1>8. IflagOk(n, r.iflag)
  BY <1>2, <1>4 DEF IflagOk, Rests, ProcRests, SchedRests
<1>9. IntenaOk(n, r.intena)
  BY DEF IntenaOk
<1>10. cpu' = [cpu EXCEPT ![c] = r] /\ r \in CpuType
  BY CpuIs
<1>11. << <<"release", "ptable">> >> \o SchedulerLoop = AtNone
  <2>1. SchedulerLoop \in Seq(Entries)
    BY InEntries DEF SchedulerLoop
  <2> DEFINE z == <<>>
             q == SchedulerLoop
  <2>2. z \in Seq(Entries) /\ q \o z = q
    BY <2>1, Empty
  <2> HIDE DEF z, q
  <2>3. SchedulerLoop \o z = On(<<"sti">>, On(<<"acquire", "ptable">>, On(<<"scan", 1>>, z)))
    BY <2>2, SchedulerPath
  <2>4. SchedulerLoop = AtSti
    BY <2>2, <2>3 DEF AtSti, AtIdle, AtScan, z, q
  <2> QED BY <2>4 DEF AtNone, On
<1>12. AtNone \o <<>> = AtNone /\ AtNone = Stack(n, b, 1)
  <2>1. AtNone = Stack(n, b, 1)
    BY Stacks
  <2>2. AtNone \in Seq(Entries)
    BY <1>5, <2>1, PathsAreSeqs
  <2> QED BY <2>1, <2>2, Empty
<1>13. todo' = [todo EXCEPT ![Thread(c)] = Stack(n, b, 1)]
  <2>1. todo' = [todo EXCEPT ![Thread(c)] = AtNone \o Tail(@)]
    BY <1>11 DEF Then
  <2> QED BY <1>3, <1>12, <2>1
<1> HIDE DEF n, r
<1>14. MovesTo(c, k, n, b, 1, r)
  BY <1>4, <1>5, <1>6, <1>7, <1>8, <1>9, <1>10, <1>13 DEF MovesTo, r
<1> QED
  BY <1>1, <1>5, <1>10, <1>14, Moves

\* The scan finds a process, which no processor runs.
LEMMA ScanStep ==
  ASSUME IInv, NEW c \in Cpus, Scan(c)
  PROVE  IInv'
<1> DEFINE ready == {p \in Procs : p >= Arg(c) /\ state[p] = "RUNNABLE"}
           p == Min(ready)
           r == [cpu[c] EXCEPT !.proc = p]
           t == Thread(c)
<1>1. CASE ready = {}
  BY <1>1, ScanNoneStep DEF Scan
<1>2. CASE ready # {}
  <2>1. p \in Procs /\ state[p] = "RUNNABLE"
    <3>1. ready \in SUBSET Procs
      OBVIOUS
    <3>2. p \in ready
      BY <1>2, <3>1, FirstReady
    <3> QED BY <3>2
  <2>2. /\ Does(c, "scan") /\ cpu' = [cpu EXCEPT ![c].proc = p] /\ state' = [state EXCEPT ![p] = "RUNNING"]
        /\ Then(c, << <<"scan", AfterRun(p)>> >>) /\ lock' = lock /\ panic' = panic
    BY <1>2 DEF Scan
  <2> HIDE DEF p, ready
  <2>3. PICK k \in Points \ {"user"}, b \in Rests, a \in Int :
          /\ RunsAt(c, k, b, a) /\ Op(k, a)[1] = "scan"
          /\ Below(k, b) \in Points /\ Stack(Below(k, b), b, 1) \in Seq(Entries)
          /\ Tail(todo[Thread(c)]) = Stack(Below(k, b), b, 1)
    BY <2>2, DoesIs
  <2>4. k = "scan"
    BY <2>3, Tops
  <2>5. /\ PointOf(c, k, b) /\ cpu[c].ncli = Depth(k) /\ IflagOk(k, cpu[c].iflag)
        /\ \A l \in Locks : lock[l] = c <=> l \in Held(k)
    BY <2>3 DEF RunsAt
  <2>6. cpu[c].proc = 0
    BY <2>4, <2>5 DEF PointOf, SchedOnly
  <2>7. Held(k) = {"ptable"} /\ Depth(k) = 1
    BY <2>4 DEF Held, Depth, Rests, ProcRests, SchedRests
  <2>8. lock["ptable"] = c
    BY <2>5, <2>7 DEF Locks
  <2>9. p \in 0..NProc /\ p \in Int /\ p # 0 /\ p \in Threads /\ t = Sched(c) /\ t \in Threads /\ p # t
    <3>1. p \in 0..NProc /\ p \in Int
      BY <2>1, CpuAssumption DEF Procs
    <3> QED BY <2>1, <2>6, <3>1, ThreadsDiffer DEF IInv
  <2>10. cpu[c] \in CpuType /\ cpu \in [Cpus -> CpuType] /\ cpu[c].iflag \in BOOLEAN
    BY DEF IInv, TypeOK, CpuType
  <2>11. cpu[c].iflag = FALSE
    BY <2>4, <2>5, <2>10 DEF IflagOk, Rests, ProcRests, SchedRests
  <2>12. \A d \in Cpus : cpu[d].proc # p
    <3>1. \A d \in Cpus \ {c} : cpu[d].proc # 0 => state[cpu[d].proc] = "RUNNING"
      BY <2>8, RunningElsewhere
    <3> QED BY <2>1, <2>6, <2>9, <3>1
  <2>13. PICK m \in Parked, e \in ProcRests : todo[p] = Stack(m, e, 1)
    BY <2>1, <2>12 DEF IInv, OffCpu
  <2>14. m \in Points /\ e \in Rests
    BY DEF Parked, Points, ProcOnly, Sleeping, Yielding, Rests
  <2>15. /\ cpu' = [cpu EXCEPT ![c] = r] /\ r \in CpuType /\ r.proc = p /\ r.ncli = cpu[c].ncli
         /\ r.iflag = cpu[c].iflag /\ r.intena = cpu[c].intena
    BY <2>2, <2>9, <2>10 DEF CpuType
  <2> HIDE DEF r
  <2>16. cpu'[c] = r /\ \A d \in Cpus \ {c} : cpu'[d] = cpu[d]
    BY <2>10, <2>15
  <2> DEFINE s == Stack("scan", "sti", p + 1)
  <2>17. todo' = [todo EXCEPT ![t] = s]
    <3> DEFINE i == <<"scan", p + 1>>
               z == <<>>
    <3>1. Then(c, <<i>>)
      BY <2>2 DEF AfterRun
    <3>2. z \in Seq(Entries) /\ Tail(todo[Thread(c)]) = z /\ s = On(i, z)
      <4>1. Below(k, b) = "user"
        BY <2>4 DEF Below
      <4>2. Stack("user", b, 1) = <<>> /\ s = AtScan(p + 1)
        BY Stacks
      <4>3. <<>> \in Seq(Entries)
        OBVIOUS
      <4> QED BY <2>3, <4>1, <4>2, <4>3 DEF AtScan
    <3> HIDE DEF i, z, s
    <3>3. todo' = [todo EXCEPT ![Thread(c)] = On(i, z)]
      BY <3>1, <3>2, ThenIs
    <3> QED BY <3>2, <3>3
  <2>18. s \in Seq(Entries)
    <3>1. "scan" \in Points /\ "sti" \in Rests /\ p + 1 \in Int
      BY <2>9 DEF Points, SchedOnly, Rests, SchedRests
    <3> QED BY <3>1, PathsAreSeqs
  <2>19. todo'[t] = s /\ \A u \in Threads \ {t} : todo'[u] = todo[u]
    <3> HIDE DEF s
    <3> QED BY <2>9, <2>17 DEF IInv, TypeOK
  <2>20. /\ state' \in [Procs -> States] /\ state'[p] = "RUNNING"
         /\ \A q \in Procs \ {p} : state'[q] = state[q]
    BY <2>1, <2>2 DEF IInv, TypeOK, States
  <2>21. RunsAt(c, m, e, 1)'
    <3>1. Thread(c)' = p
      BY <2>9, <2>15, <2>16 DEF Thread
    <3>2. PointOf(c, m, e)'
      BY <2>9, <2>15, <2>16 DEF PointOf, Parked, Points, ProcOnly, SchedOnly, Sleeping, Yielding, ProcRests, SchedRests
    <3>3. Held(m) = {"ptable"} /\ Depth(m) = 1 /\ StateAt(m) = "RUNNING"
      BY DEF Parked, Held, Depth, StateAt, Rests, ProcRests, SchedRests
    <3>4. IflagOk(m, FALSE) /\ IntenaOk(m, r.intena)
      BY DEF IflagOk, IntenaOk, Parked, Rests, ProcRests, SchedRests
    <3>5. \A l \in Locks : lock'[l] = c <=> l \in Held(m)
      BY <2>2, <2>5, <2>7, <3>3
    <3>6. todo'[p] = Stack(m, e, 1)
      BY <2>9, <2>13, <2>19
    <3>7. cpu'[c].proc # 0 => state'[cpu'[c].proc] = StateAt(m)
      BY <2>15, <2>16, <2>20, <3>3
    <3>8. todo'[Thread(c)'] = Stack(m, e, 1)
      BY <3>1, <3>6
    <3>9. cpu'[c].ncli = Depth(m) /\ IflagOk(m, cpu'[c].iflag) /\ IntenaOk(m, cpu'[c].intena)
      BY <2>5, <2>7, <2>11, <2>15, <2>16, <3>3, <3>4
    <3> QED BY <3>2, <3>5, <3>7, <3>8, <3>9 DEF RunsAt
  <2>22. \A d \in Cpus \ {c} : /\ Thread(d) # t /\ Sched(d) # t /\ cpu[d].proc # p
                               /\ cpu[d].proc # 0 => state'[cpu[d].proc] = state[cpu[d].proc]
    <3>1. \A d \in Cpus : cpu[d].proc # 0 => cpu[d].proc \in Procs
      BY ThreadsDiffer DEF IInv
    <3> QED BY <2>12, <2>20, <3>1, ThreadsDiffer DEF IInv
  <2>23. Switches(c, m, e, 1, r, t, s)
    <3>1. \E n \in Int : todo'[Sched(c)] = Stack("scan", "sti", n)
      BY <2>9, <2>19
    <3> HIDE DEF s, t
    <3> QED BY <2>2, <2>15, <2>17, <2>20, <2>21, <2>22, <3>1 DEF Switches
  <2>24. TypeOK' /\ CpuRuns' /\ Alone'
    <3> HIDE DEF s, t
    <3> QED BY <2>9, <2>14, <2>15, <2>18, <2>23, SwitchKeeps
  <2>25. OffCpu'
    <3> SUFFICES ASSUME NEW q \in Procs, \A d \in Cpus : cpu'[d].proc # q
                 PROVE  /\ state'[q] \in {"RUNNABLE", "SLEEPING"}
                        /\ \E y \in Parked, f \in ProcRests : todo'[q] = Stack(y, f, 1)
      BY DEF OffCpu
    <3>1. q # p
      BY <2>15, <2>16
    <3>2. \A d \in Cpus : cpu[d].proc # q
      <4>1. q # 0
        BY ThreadsDiffer DEF IInv
      <4> QED BY <2>6, <2>16, <4>1
    <3>3. q \in Threads \ {t}
      BY <2>9, <3>2, ThreadsDiffer DEF IInv
    <3> QED BY <2>19, <2>20, <3>1, <3>2, <3>3 DEF IInv, OffCpu
  <2> QED BY <2>24, <2>25 DEF IInv
<1> QED
  BY <1>1, <1>2

\* The processes that wait to run for the first time, and the schedulers that
\* begin, are at points of their paths.
LEMMA Starts ==
  /\ Forkret = AtForkret /\ Forkret \in Seq(Entries)
  /\ SchedulerLoop = AtSti /\ SchedulerLoop \in Seq(Entries)
<1> DEFINE z == <<>>
<1>1. z \in Seq(Entries) /\ SchedulerLoop \in Seq(Entries) /\ Forkret \in Seq(Entries)
  BY InEntries DEF SchedulerLoop, Forkret
<1> HIDE DEF z
<1>2. SchedulerLoop = AtSti
  <2>1. SchedulerLoop \o z = On(<<"sti">>, On(<<"acquire", "ptable">>, On(<<"scan", 1>>, z)))
    BY <1>1, SchedulerPath
  <2>2. SchedulerLoop \o z = SchedulerLoop
    BY <1>1, Empty DEF z
  <2> QED BY <2>1, <2>2 DEF AtSti, AtIdle, AtScan, z
<1>3. Forkret = AtForkret
  <2> DEFINE e == <<"release", "ptable">>
             f == <<"trapret">>
             p == <<f>>
             q == <<e, f>>
  <2>1. e \in Entries /\ f \in Entries
    BY InEntries
  <2>2. Forkret = q
    BY DEF Forkret
  <2> HIDE DEF e, f
  <2>3. p \in Seq(Entries) /\ q \in Seq(Entries) /\ p = On(f, z)
    BY <2>1, Alone1 DEF z
  <2>4. Extends(q, e, p)
    BY DEF Extends
  <2> HIDE DEF p, q
  <2>5. q \o z = On(e, p \o z) /\ q \o z = q /\ p \o z = p
    <3>1. q \o z = On(e, p \o z)
      <4>1. e \in Entries /\ p \in Seq(Entries) /\ q \in Seq(Entries) /\ z \in Seq(Entries)
        BY <1>1, <2>1, <2>3
      <4> QED BY ONLY <4>1, <2>4, OneMore
    <3> QED BY <2>3, <3>1, Empty DEF z
  <2>6. q = On(e, On(f, z))
    BY <2>3, <2>5
  <2> QED BY <2>2, <2>6 DEF AtForkret, AtTrapret, e, f, z
<1> QED
  BY <1>1, <1>2, <1>3

\* The initial states.
LEMMA InitInv ==
  ASSUME Init
  PROVE  IInv
<1>1. NCpu \in Nat /\ NProc \in Nat
  BY CpuAssumption
<1>2. TypeOK
  <2>1. cpu \in [Cpus -> CpuType]
    BY <1>1 DEF Init, CpuType
  <2>2. lock \in [Locks -> 0..NCpu] /\ state \in [Procs -> States] /\ panic = FALSE
    BY <1>1 DEF Init, Locks, States
  <2>3. todo \in [Threads -> Seq(Entries)]
    <3> HIDE DEF Forkret, SchedulerLoop
    <3> QED BY Starts DEF Init
  <2> QED BY <2>1, <2>2, <2>3 DEF TypeOK, CpuType, States
<1>3. \A c \in Cpus : cpu[c].proc = 0 /\ cpu[c].ncli = 0 /\ Thread(c) = Sched(c) /\ Sched(c) \in Threads
  BY DEF Init, Thread, Threads
<1>4. Alone
  BY <1>3 DEF Alone
<1>5. \A c \in Cpus : Sched(c) \notin Procs /\ c # 0
  BY <1>1 DEF Cpus, Procs, Sched
<1>6. ASSUME NEW c \in Cpus PROVE RunsAt(c, "sti", "sti", 1)
  <2>1. PointOf(c, "sti", "sti")
    BY <1>3 DEF PointOf, Points, ProcOnly, SchedOnly, Sleeping, Yielding, ProcRests, SchedRests
  <2>2. todo[Thread(c)] = SchedulerLoop
    BY <1>3, <1>5 DEF Init
  <2>3. Stack("sti", "sti", 1) = SchedulerLoop
    BY Starts, Stacks
  <2>4. /\ Held("sti") = {} /\ Depth("sti") = 0
        /\ IflagOk("sti", cpu[c].iflag) /\ IntenaOk("sti", cpu[c].intena)
    BY DEF Held, Depth, IflagOk, IntenaOk, Rests, SchedRests
  <2>5. \A l \in Locks : lock[l] = 0
    BY DEF Init, Locks
  <2> QED BY <1>3, <1>5, <2>1, <2>2, <2>3, <2>4, <2>5 DEF RunsAt
<1>7. CpuRuns
  <2>1. "sti" \in Points /\ "sti" \in Rests
    BY DEF Points, SchedOnly, Rests, SchedRests
  <2> QED BY <1>3, <1>6, <2>1 DEF CpuRuns
<1>8. OffCpu
  <2> SUFFICES ASSUME NEW p \in Procs
               PROVE  state[p] = "RUNNABLE" /\ todo[p] = Stack("forkret", "user", 1)
    BY DEF OffCpu, Parked, ProcRests
  <2>1. state[p] = "RUNNABLE" /\ todo[p] = Forkret
    BY DEF Init, Threads
  <2> QED BY <2>1, Starts, Stacks
<1> QED
  BY <1>2, <1>4, <1>7, <1>8 DEF IInv

\* Every step.
LEMMA NextInv ==
  ASSUME IInv, [Next]_vars
  PROVE  IInv'
<1>1. CASE UNCHANGED vars
  BY <1>1 DEF vars, IInv, TypeOK, CpuRuns, Alone, OffCpu, RunsAt, PointOf, Thread
<1>2. ASSUME NEW c \in Cpus, Step(c) PROVE IInv'
  BY <1>2, AcquireStep, XchgStep, ReleaseStep, StiStep, ScanStep, SwitchStep, IntenaStep, SetStateStep,
     WakeupStep, InterruptStep, CountTickStep, IretStep, Ticks0Step, LoopStep DEF Step
<1> QED
  BY <1>1, <1>2, TimerStep, SysSleepStep DEF Next

\* Whatever the number of processors and processes, each thread is on one of
\* the paths of acquire, sched, the scheduler, trap and sys_sleep, and its
\* processor holds the locks, the pushcli depth and the interrupt mask of its
\* place there.
THEOREM Invariance == Spec => []IInv
<1>1. Init => IInv
  BY InitInv
<1>2. IInv /\ [Next]_vars => IInv'
  BY NextInv
<1> QED
  BY <1>1, <1>2, PTL DEF Spec

\* No check of acquire, release, popcli or sched fails: no processor acquires a
\* lock that it holds, releases one that it does not, pops more than it pushed,
\* or switches with another lock than ptable.lock.
THEOREM NeverPanics == Spec => []NoPanic
<1>1. IInv => NoPanic
  BY DEF IInv, TypeOK, NoPanic
<1> QED
  BY <1>1, Invariance, PTL

\* What is on the stack at a point is its entry and what is on that of the
\* point below.
LEMMA WithinPoint ==
  ASSUME NEW k \in Points \ {"user"}, NEW b \in Rests, NEW a \in Int, NEW x
  PROVE  /\ Within(Stack(k, b, a), x) <=> Op(k, a) = x \/ Within(Stack(Below(k, b), b, 1), x)
         /\ Stack(k, b, a) # <<>> /\ Stack(k, b, a)[1] = Op(k, a)
<1> DEFINE e == Op(k, a)
           s == Stack(Below(k, b), b, 1)
<1>1. e \in Entries /\ Stack(k, b, a) = On(e, s) /\ s \in Seq(Entries)
  BY Unfolds, PathsAreSeqs
<1> HIDE DEF e, s
<1>2. /\ On(e, s) \in Seq(Entries) /\ On(e, s) # <<>> /\ Head(On(e, s)) = e
      /\ Within(On(e, s), x) <=> e = x \/ Within(s, x)
  BY ONLY <1>1, Pushed
<1> QED
  BY <1>1, <1>2 DEF e, s

\* An interrupt handler has still to return.
LEMMA HandlersReturn ==
  ASSUME NEW k \in {"iret", "yield", "tick"}, NEW b \in Rests, NEW a \in Int
  PROVE  Within(Stack(k, b, a), <<"iret">>)
<1> DEFINE Has(n) == \A m \in Int : Within(Stack(n, b, m), <<"iret">>)
<1>1. ASSUME NEW n \in Handling, Has(Below(n, b)) PROVE Has(n)
  <2>1. n \in Points \ {"user"} /\ 1 \in Int
    BY DEF Points, Handling, Ticking, Yielding
  <2> QED BY <1>1, <2>1, WithinPoint
<1>2. Has("iret")
  <2>1. "iret" \in Points \ {"user"}
    BY DEF Points, Handling
  <2>2. \A m \in Int : Op("iret", m) = <<"iret">>
    BY DEF Op
  <2> QED BY <2>1, <2>2, WithinPoint
<1> HIDE DEF Has
<1>3. {"yieldR", "yieldSw", "yieldSt", "yield", "tickRT", "tickRP", "wake", "tickP", "count", "tick"} \subseteq Handling
  BY DEF Handling, Ticking, Yielding
<1>4. Has("yieldR")
  BY <1>1, <1>2, <1>3 DEF Below
<1>5. Has("yieldSw")
  BY <1>1, <1>3, <1>4 DEF Below
<1>6. Has("yieldSt")
  BY <1>1, <1>3, <1>5 DEF Below
<1>7. Has("yield")
  BY <1>1, <1>3, <1>6 DEF Below
<1>8. Has("tickRT")
  BY <1>1, <1>2, <1>3, <1>7 DEF Below
<1>9. Has("tickRP")
  BY <1>1, <1>3, <1>8 DEF Below
<1>10. Has("wake")
  BY <1>1, <1>3, <1>9 DEF Below
<1>11. Has("tickP")
  BY <1>1, <1>3, <1>10 DEF Below
<1>12. Has("count")
  BY <1>1, <1>3, <1>11 DEF Below
<1>13. Has("tick")
  BY <1>1, <1>3, <1>12 DEF Below
<1> QED
  BY <1>2, <1>7, <1>13 DEF Has

\* No handler is on the stack where an interrupt may come.
LEMMA RestsAreClear ==
  ASSUME NEW k \in Rests, NEW b \in Rests, NEW a \in Int
  PROVE  ~Within(Stack(k, b, a), <<"iret">>)
<1> DEFINE Not(n) == \A m \in Int : ~Within(Stack(n, b, m), <<"iret">>)
           Calm == {"trapret", "scan", "ticks0", "loop", "call", "again", "idle", "sti"}
<1>1. ASSUME NEW n \in Calm, Not(Below(n, b)) PROVE Not(n)
  <2>1. n \in Points \ {"user"}
    BY DEF Points, ProcOnly, SchedOnly, Sleeping, ProcRests, SchedRests
  <2>2. ASSUME NEW m \in Int PROVE Op(n, m) # <<"iret">>
    <3>1. Op(n, m)[1] # "iret"
      <4>1. CASE n \in {"call", "again"}
        BY <4>1 DEF Op
      <4>2. CASE n = "idle"
        BY <4>2 DEF Op
      <4>3. CASE n = "sti"
        BY <4>3 DEF Op
      <4>4. CASE n = "trapret"
        BY <4>4 DEF Op
      <4>5. CASE n = "ticks0"
        BY <4>5 DEF Op
      <4>6. CASE n = "loop"
        BY <4>6 DEF Op
      <4>7. CASE n = "scan"
        <5>1. Op(n, m) = <<"scan", m>>
          BY <4>7 DEF Op
        <5>2. <<"scan", m>>[1] = "scan"
          OBVIOUS
        <5>3. Op(n, m)[1] = "scan"
          BY ONLY <5>1, <5>2
        <5> QED BY <5>3
      <4> QED BY <4>1, <4>2, <4>3, <4>4, <4>5, <4>6, <4>7
    <3>2. <<"iret">>[1] = "iret"
      OBVIOUS
    <3> QED BY <3>1, <3>2
  <2>3. 1 \in Int
    OBVIOUS
  <2> QED BY <1>1, <2>1, <2>2, <2>3, WithinPoint
<1>2. Not("user")
  <2>1. \A m \in Int : Stack("user", b, m) = <<>>
    BY Stacks
  <2> QED BY <2>1 DEF Within
<1> HIDE DEF Not
<1>3. Not("trapret") /\ Not("scan")
  BY <1>1, <1>2 DEF Below
<1>4. Not("ticks0") /\ Not("loop") /\ Not("idle")
  BY <1>1, <1>3 DEF Below
<1>5. Not("call") /\ Not("again") /\ Not("sti")
  BY <1>1, <1>4 DEF Below
<1> QED
  BY <1>2, <1>3, <1>4, <1>5 DEF Not, Rests, ProcRests, SchedRests

\* Interrupts are off while a processor holds a lock or handles an interrupt,
\* and on in the rest of a system call, whichever process ran meanwhile.
THEOREM InterruptsFit == Spec => []InterruptsMatch
<1>1. ASSUME IInv, NEW c \in Cpus
      PROVE  LET t == Thread(c) IN
             /\ cpu[c].iflag => cpu[c].ncli = 0 /\ ~InHandler(t) /\ \A l \in DOMAIN lock : lock[l] # c
             /\ t \in Procs /\ cpu[c].ncli = 0 /\ ~InHandler(t) /\ todo[t] # <<>> /\ todo[t][1] # <<"trapret">>
                  => cpu[c].iflag
  <2> DEFINE t == Thread(c)
  <2>1. PICK k \in Points, b \in Rests, a \in Int : RunsAt(c, k, b, a)
    BY <1>1 DEF IInv, CpuRuns
  <2>2. /\ PointOf(c, k, b) /\ todo[t] = Stack(k, b, a) /\ cpu[c].ncli = Depth(k) /\ IflagOk(k, cpu[c].iflag)
        /\ \A l \in Locks : lock[l] = c <=> l \in Held(k)
    BY <2>1 DEF RunsAt
  <2>3. DOMAIN lock = Locks /\ cpu[c].iflag \in BOOLEAN
    BY <1>1, CpuIs DEF IInv, TypeOK
  <2>4. InHandler(t) <=> Within(Stack(k, b, a), <<"iret">>)
    BY <2>2 DEF InHandler, Within
  <2>5. ASSUME cpu[c].iflag PROVE cpu[c].ncli = 0 /\ ~InHandler(t) /\ \A l \in DOMAIN lock : lock[l] # c
    <3>1. k \in Rests
      BY <2>2, <2>5 DEF IflagOk, Rests, ProcRests, SchedRests
    <3>2. Depth(k) = 0 /\ Held(k) = {}
      BY <3>1 DEF Depth, Held, Rests, ProcRests, SchedRests
    <3> QED BY <2>2, <2>3, <2>4, <3>1, <3>2, RestsAreClear
  <2>6. ASSUME t \in Procs, cpu[c].ncli = 0, ~InHandler(t), todo[t] # <<>>, todo[t][1] # <<"trapret">>
        PROVE  cpu[c].iflag
    <3>1. cpu[c].proc # 0
      BY <1>1, <2>6, ThreadsDiffer DEF IInv
    <3>2. k \in Rests \union {"tick", "yield", "iret"}
      BY <2>2, <2>6 DEF Depth
    <3>3. k \notin {"iret", "yield", "tick"}
      BY <2>4, <2>6, HandlersReturn
    <3>4. k \in ProcRests
      BY <2>2, <3>1, <3>2, <3>3 DEF PointOf, Rests, SchedOnly
    <3>5. k # "user"
      BY <2>2, <2>6, Stacks
    <3>6. k # "trapret"
      <4>1. Op("trapret", a) = <<"trapret">>
        BY DEF Op
      <4> QED BY <2>2, <2>6, <3>5, <4>1, WithinPoint
    <3> QED BY <2>2, <3>4, <3>5, <3>6 DEF IflagOk, Rests, ProcRests
  <2> QED BY <2>5, <2>6
<1>2. IInv => InterruptsMatch
  BY <1>1 DEF InterruptsMatch
<1> QED
  BY <1>2, Invariance, PTL

\* A process runs on one processor, and is RUNNING only there.
THEOREM OneProcessor == Spec => []OneCpu
<1>1. ASSUME IInv PROVE OneCpu
  <2>1. \A p \in Procs : state[p] = "RUNNING" => \E c \in Cpus : cpu[c].proc = p
    BY <1>1 DEF IInv, OffCpu
  <2> QED BY <1>1, <2>1 DEF IInv, Alone, OneCpu
<1> QED
  BY <1>1, Invariance, PTL
=============================================================================
