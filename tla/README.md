# A verification project for the operating-systems exercises

This directory holds TLA+ models of the programs in this repository, the TLC
configurations that check them on small instances, and TLAPS proofs of the
central invariants for every size.  Paths below are relative to `src/`.

## 1. The system and its parts

The repository is a course's worth of exercises on top of three copies of xv6
(rev 10).  `xv6-rev10/` is the pristine kernel; `ex2/q2/xv6/` adds process
queries, `ex3/q1/xv6/` adds named semaphores; the rest of the kernel is the
same code in all three.  `ex1/q1` and `ex2/q1` are ordinary C programs.

| part | source | state it keeps | operations |
|---|---|---|---|
| named semaphores | `ex3/q1/xv6/sem.c`, `syssem.c`, `sem.h` | table `stable.sem[NSEM]` under `gslock`, one `sslock` per slot, per-process `osem[NOSEM]` | open, close, wait, try_wait, post, reset, unlink; fork duplicates, exit closes |
| producer/consumer program | `ex3/q1/xv6/pc.c`, `pc_def.c`, `readme.txt` | five semaphores, P producers and C consumers | create, start barrier, produce, consume, reap |
| file-system log | `ex3/q1/xv6/log.c` | header and log blocks on disk, in-memory header, `outstanding`, `committing` | begin_op, log_write, end_op, commit, recover |
| file layer | `xv6-rev10/sysfile.c`, `file.c` | open-file table, descriptors, offsets | open, create, mkdir, mknod, link, unlink, chdir, dup, read, write, fstat, close |
| pipes | `ex3/q1/xv6/pipe.c` | ring buffer, `nread`, `nwrite`, two open flags | write, read, close |
| processes | `ex3/q1/xv6/proc.c`, `trap.c` | process table | allocproc, fork, exit, wait, sleep, wakeup, kill, scheduler |
| inodes and directories | `xv6-rev10/fs.c`, `mkfs.c` | inode cache, inodes, bitmap, directories | iget, ilock, iput, ialloc, bmap, itrunc, readi, writei, dirlookup, dirlink, namex |
| buffer cache and disk driver | `xv6-rev10/bio.c`, `ide.c` | LRU list of buffers, request queue | bread, bwrite, brelse, iderw, ideintr |
| memory | `xv6-rev10/kalloc.c`, `vm.c`, `exec.c` | free list, page directories and tables | kalloc, kfree, setupkvm, allocuvm, deallocuvm, copyuvm, freevm |
| processors | `xv6-rev10/spinlock.c`, `proc.c`, `trap.c` | `ncli`, `intena`, IF, the locks, ticks | acquire, release, scheduler, sched, yield, sleep, wakeup, timer interrupt |
| console | `xv6-rev10/console.c` | circular input buffer with `r`, `w`, `e`; cursor | consoleintr, consoleread, consolewrite |
| shell | `xv6-rev10/sh.c`, `init.c` | a command tree; processes and their files | parsecmd, runcmd, the loops of sh and init |
| user programs and tests | `xv6-rev10/usertests.c`, `stressfs.c`, `ls.c`, ... | | the system calls above |
| boot and devices | `bootmain.c`, `main.c`, `mp.c`, `lapic.c`, `ioapic.c`, `uart.c`, `kbd.c` | | set-up, device registers |
| process queries | `ex2/q2/xv6/proc.c`, `sysproc.c`, `ps.c`, `pt.c` | reads the process table | getppid, getpppid, get_proc_data |
| polygon list | `ex1/q1/main.c` | linked list of polygons | decode a 64-bit word, add, print, totals |
| polygon pipeline | `ex2/q1/main.c`, `writer.c` | four processes joined by pipes | writer feeds, main dispatches by tag, readers print |

How they interact: semaphores are built on sleep/wakeup of the process table
and on fork/exit; the producer/consumer program on the semaphores; the file
layer on inodes and the log, the log on the buffer cache, the cache on the disk
driver and on sleep locks; pipes, the console and everything that blocks on
sleep/wakeup, and that on the spin locks and interrupt masking of the
processors.  The shell joins processes, pipes and open files.

## 2. What is hard in it, and what makes each part correct

*Semaphores.*  Two kinds of locks (`gslock` for the table, one `sslock` per
slot) and a third, `ptable.lock`, that `kill` uses alone.  `sem_open` gives its
lock back between the search and the filling of a slot; `sem_unlink` keeps a
pointer to a slot across a sleep; `sem_post` wakes only on the step from 0 to 1.
Correct means: `ref` counts the descriptors, a slot is reused only when nobody
can reach it, nobody sleeps while a unit is there, an unlinker whose slot is
unreferenced returns.

*Producer/consumer program.*  Four semaphores bound a buffer and a fifth, whose
unlinking blocks, is a start barrier.  Correct means: a bounded buffer, no
deadlock, no unit lost, everybody reaped.

*Log.*  A crash between any two block writes; calls that overlap with a commit;
a reservation that must cover what the calls write.  Correct means: the disk
after recovery is a prefix of the commits, and the log never overflows.

*Processes.*  A slot is claimed under the lock and filled without it; exit
hands children to init; wait sleeps on what exit wakes.  Correct means: every
process has a live parent, no pid twice, no zombie overlooked, a killed process
ends.

*Files and inodes.*  A call takes the locks of several inodes one after the
other, keeps references in between, and must undo what it did when a later step
fails.  Correct means: what the tests of `usertests.c` expect, a consistent disk
whenever the log may commit, no inode left behind, no circular wait.

*Buffer cache.*  A buffer is found, recycled, locked, read by the disk and
dropped in separate sections.  Correct means: a store of blocks with one holder
each, in which nothing dirty is forgotten, every request is answered, and no
buffer is leaked.

*Memory.*  Every allocation of a fork, an exec or an sbrk may be the one that
fails.  Correct means: each page in one place, and a process has the pages that
its size says.

*Processors.*  A lock turns interrupts off, a switch takes the lock and the
interrupt state along to another thread.  Correct means: interrupts off while a
lock is held and on again afterwards, one processor to a process, and a turn for
everyone.

*Console.*  The interrupt fills and edits what readers drain, with indices that
wrap.  Correct means: an editable line and a queue of ended ones, each character
read once and in order, calls of read that return when they should and not
before, and nothing left unread that somebody waits for.

*Shell.*  The ends of a pipe move through fork, close and dup.  Correct means:
every program has the files its line gives it and no other end of a pipe, what
is left of a `;` has ended for good before anything right of it starts, and the
prompt comes back.

*Process queries.*  The table is read without its lock.  Correct means: what
was true all through a call is in its answer, and the answer fits.

*Pipes.*  Counters that wrap, two ends closed in any order by processes that
share them, sleeping and killing.  Correct means: a queue, no use after free, no
lost wakeup, end of file.

*Polygon programs.*  Three processes scan one input and a fourth's pipe must
close in the end.  Correct means: the output of the sequential program, all of
it, and an end.

## 3. Modules

| module | models | is used by |
|---|---|---|
| `Sem` | `sem.c`, `syssem.c`, sleep/wakeup/kill/fork/exit as far as they touch semaphores | `MCSem`, `Sem_proofs` |
| `BoundedBuffer` | abstract: messages produced and consumed, at most a capacity apart | `ProdCons` |
| `ProdCons` | `pc.c` | `MCProdCons`, `Sem_proofs` |
| `AtomicDisk` | abstract: a disk that takes sets of writes at once | `Log` |
| `Log` | `log.c`, called by any system call with a plan of writes | `MCLog`, `Log_proofs` |
| `Proc` | `ex2/q2/xv6/proc.c` | `ProcQuery` |
| `ProcQuery` | `getppid`, `getpppid`, `get_proc_data`, beside `Proc` | `MCProcQuery`, `Proc_proofs` |
| `Fifo` | abstract: a bounded queue of bytes | `Pipe` |
| `Pipe` | `pipe.c`, the reference counts of `file.c` | `MCPipe`, `Pipe_proofs` |
| `Polygon` | what a word does to the list and the output, in both programs | `PolygonList`, `Pipeline` |
| `PolygonList` | `ex1/q1/main.c`, and abstract program of `Pipeline` | `Pipeline` |
| `Pipeline` | `ex2/q1/main.c`, `writer.c` | `MCPipeline`, `Numbers_proofs` |
| `PolygonArea` | `getXAndY`, `area`, `polygonArea` | `Numbers_proofs` |
| `Inode` | `fs.c` below path names, `mkfs.c`, as operators on one record | `Files` |
| `Files` | `sysfile.c`, `file.c`, `namex` and `iput` of `fs.c`, by concurrent processes | `MCFiles` |
| `UserTests` | programs of `usertests.c`, `stressfs.c`, `init.c`, the file utilities, as scripts of calls | `MCFiles` |
| `BlockStore` | abstract: blocks with one holder each | `Bcache` |
| `Bcache` | `bio.c`, `ide.c` | `MCBcache`, `Bcache_proofs` |
| `Memory` | `kalloc.c`, `vm.c`, and who calls them in `proc.c` and `exec.c` | run directly, `Memory_proofs` |
| `UserMemory` | `syscall.c`, the sizes that `sbrk` and `exec` compute | `Numbers_proofs` |
| `Cpu` | `spinlock.c`, the scheduler, `sleep`, `wakeup`, the timer | run directly, `Cpu_proofs` |
| `Terminal` | abstract: a line that is edited, lines that are read, when a read returns | `Console` |
| `Console` | `console.c` | `MCConsole`, `Pipe_proofs` |
| `ShellParse` | the parser of `sh.c`, and a reference definition of its grammar | `MCShell` |
| `Shell` | `runcmd` and `main` of `sh.c`, `init.c` | `MCShell`, `Numbers_proofs` |

`MCProdCons` and `MCConsole` give the variables of `ProdCons` and `Console` names of
their own and take these modules as named instances (`PC!`, `Con!`), because
`Sem_proofs` and `Pipe_proofs` extend them beside `Sem` and `Pipe`: what TLC runs and
what is proved is the same text.  They assume what the instances need of their constants.

A module's variables carry the names of the fields they stand for, and its
actions the names of the functions or of their parts; every action says in a
comment which code it is when its name does not.  An operator whose name has a
suffix after an underscore and whose comment begins with *Mutant* is the
definition of the same name with a plausible bug.  It is not used by the
specification: it shows that a property can fail.

### Sem

`ref`, `linked`, `name`, `count`, `maxVal`, `owner`, `death`
(`waitingForDeath`) are the fields of `struct sem`; `osem` the descriptor
tables; `sslock` the holder of each slot's lock; `state`, `chan`, `killed` those
of `struct proc`; `pc`, `cur`, `args`, `np` a process's place in the kernel, its
local pointer, its arguments and the child `fork` is making.

A section between `acquire` and `release` is one step when it reads only what
the lock protects.  `sem_wait` and `sem_unlink` test `killed`, which `kill`
writes under another lock, before they sleep; there the test and the sleep are
two steps with the lock held between.  `sem_open` is four: the scan
(`OpenFound` or `OpenScan`), `OpenInitlock` without a lock, `OpenSet`, and the
descriptor in the caller's row, which nobody else reads and which is therefore
written with the step before.  `fork` copies one descriptor a step
(`ForkDup`), `exit` closes one a step (`ExitClose`).  `Discipline` says which
programs use the kernel: `"pc"` opens everything in one process before its
first fork, `"late"` still opens in one process but at any time, `"free"` opens
anywhere.

### ProdCons

The parent's variables are `par` (where it is) and `i`; the children's are `pc`
and `left`.  The counts of the four semaphores and the references to `waitc` are
variables of their own.  A semaphore call is one step, blocked when it would
sleep: that is what `Sem` shows the kernel to give a program with one opener
(no lost wakeups, references counted, unlinking returns).  `ForkMayFail` lets
any `fork` return -1, as the code can meet it.

### Log

A call has a plan, the blocks it will write one after the other, as `mkdir` or
`unlink` have; `Plans` gives each process its possible plans.
`disk`, `dlog`, `dhead` survive a crash; `cache`, `lh`, `outstanding`,
`committing` and the calls do not.  A block holds the name of the call that
wrote it last.  A commit is its block writes, one a step, and a recovery too;
`Crash` may come between any two.  One block is written whole or not at all,
which is what the code assumes of the header.  `Size` is `log.size`.  In the
passing runs it is `LOGSIZE + 1`, so that the header has its own block:
`mkfs.c` makes `log.size` equal to `LOGSIZE`, one less than the sum in
`begin_op` presumes.  For the same reason no call of the passing runs rewrites a
block when it has used up its reservation: `log_write` tests for a full log
before it looks whether the block is there already.  Both would be noticed only
by calls that log every one of the 30 blocks they reserve, and the calls other
than `filewrite` do not.

### Proc and ProcQuery

Slots are numbers; `state`, `pid`, `parent` (0 is the null pointer) and `killed`
are fields, `pc` and `np` the place of the process in the kernel and the slot
`fork` is filling.  `fork` is four steps because only the first and the last are
under the lock: `ForkAlloc` (slot and pid), then the copy that may fail
(`ForkFail`), `ForkParent`, `ForkRun`.  `exit` is two: the files are closed
without the lock.  `wait`'s loop is `WaitReap`, `WaitNone` or `WaitSleep`, each
under the lock.  `Sched` and `Yield` give and take processors.  `init` waits
for ever, as `init.c` does, and the kernel panics if it exits.

`ProcQuery` adds one caller of the query calls, which reads one field of one
slot at a time while `Proc` goes on.  The calls change only the caller's memory,
so one at a time is enough.  `always` records, for the properties alone, what
has been true in every state since the call began.

### Pipe

`data`, `nread`, `nwrite`, `open`, `lock` are `struct pipe`; `freed` says `kfree`
got it; `ref` and `fds` are `file.c`'s reference counts and the processes'
descriptors.  The body of each loop is a step under the lock, because `kill`
can come anywhere.  `sys_pipe` makes a new pipe when the old one is freed, so
that the page's reuse is covered; it may also fail, for want of a file, of the page
or of a descriptor (`PipeAllocFails`), and undo what it did.

### Polygon, PolygonList, Pipeline, PolygonArea

A word is a record of what its bits say.  `PolygonList` is the loop of ex1.  In
`Pipeline` the input is a file of tokens that main and both readers take from,
unbuffered (`setvbuf`, `main.c:276`); `signals` counts the bytes in each
reader's pipe, `back` the words on the way back; `buf`, `pipe`, `wbuf`, `file`
are the output on its way.  `Garbage` says whether the byte behind
`polygonBuffer` may be a hexadecimal digit.  `PolygonArea` is the loop of
`polygonArea` with the coordinates as `getXAndY` decodes them.

### Inode, Files and UserTests

`fs` is one record: the disk inodes, the bitmap, what blocks hold, and the inode
cache with its locks.  `Inode` has an operator for each function of `fs.c` that
runs under one inode's lock, and such a function is one atomic change: the
buffers it reads and writes between two lock operations are the inode's own, or
the bitmap's, which the sleep lock of one buffer protects.  `Files` has one step
from one sleep lock a call may have to wait for to the next.  `iput` is two, the
test under the inode's lock and the decrement under `icache.lock`, because that
is where another process can come between.  `tx` says that a process is inside
`begin_op`/`end_op`; a change of the disk outside panics, as `log_write` does.
A process follows a script of calls, each with the results its program accepts
(`want`); `bad` remembers a result that was not.  Blocks are one cell, a
directory entry or a datum, so that `NDirect` and `NIndirect` are reached with
few writes.  Every program starts from the image `Mkfs` builds.

### BlockStore and Bcache

A step is a section under `bcache.lock` or `idelock`, or a sleep lock taken or
given back.  The callers are any processes that take buffers in increasing
order, as `fs.c` and `log.c` do, and that leave at most `MaxDirty` dirty for the
log.  `Ideintr` is the disk's answer with the handler it raises.  The panics of
`bget`, `bwrite`, `brelse` and `iderw` are modelled, and end the run; `holdingsleep` asks only
whether the lock is taken, not by whom, and so does the model.

### Memory

A step is one `kalloc` with what follows it until the next; a whole range is
freed in one step.  `lost` collects the pages nothing points at any more, which
only the model can see.  `new` and `mem` are the locals of a fork or exec under
way: the address space being built and the page not mapped yet.  An sbrk down to 0
(`SbrkToZero`) frees every page, but `growproc` takes the 0 of `deallocuvm` for a
failure and leaves `sz` as it was: the process is then at `"fault"`, as its next
instruction is gone, and all it may do is exit.  `growproc` returns before
`switchuvm` there, so a processor could for a while use translations it has kept;
translation caches are not modelled.

### UserMemory

One process, its size `sz`, the last block of its memory that the kernel accepted
as an argument, and exec's loop over the segments with the size it has reached.
Words are 32 bits and sums wrap (`Uint`); whether memory runs out is left open.

### Cpu

Every kernel thread, a process or the scheduler of a processor, has in `todo` the
stack of what it has still to do; `trap` pushes the handler on it.  A step is one
entry: `acquire` up to its loop, the `xchg` that succeeds, `release`, a scan of the
process table, the switch.  The timer of a processor becomes due where `Due`
says: its period is far longer than a handler and a switch, so there is one in
user mode, in a section with interrupts off, to be taken where that ends, or
after an idle round of the scheduler.  That is narrower than the hardware: no
interrupt becomes due in the few instructions of the kernel before a first
`acquire`, nor while a handler runs.  The two processes are not killed, so
`sys_sleep` has no other end than its ticks; `Proc` is about `kill`.

### Terminal and Console

`r`, `w`, `e` wrap at `Width`, a multiple of the buffer as 2^32 is.  A step is a
character under `cons.lock`.  `Terminal` has the calls of read too: how much each
asks for, what it has so far, and whether its process was killed, so that a read
may return only at the end of a line, with all it asked for, at ^D, or killed with
nothing ready.  `kill` takes another lock, so the test of `killed`
and the sleep of `consoleread` are two steps; a kill in between is noticed at the
next line only, as in `sem_wait`.

### ShellParse and Shell

`ShellParse` takes a line as a sequence of tokens and builds the tree by the
recursive descent of `sh.c`, one operator a function; `RefLine` splits the line at
its separators instead.  In `Shell` processes run the tree: a sequence of commands in
the order in which they are allocated, where a pointer is a place in it and 0 is null.
`lines` holds what was typed and its trees; `fds` are a process' open
files, and a pipe is named after its command and its line.  `Shell` takes what the parser
returns as a constant, `Parse`, of which it assumes what the constructors of `sh.c`
ensure (`IsTree`: a command holds ones allocated before it, each is held once).
`MCShell` gives `Parse` the trees of `ShellParse` and holds `ParserAgrees`.  A fork
that fails, for want of a free slot too, counts in `fails`.  A line that begins with
`cd` is run by the shell itself (`Cd`).  `ran` is a history variable: the programs
that have started, each with its line.  A program
reads to its end of file and writes more than a pipe holds, or ends early.  What
the parser does was checked against the shell's own grammar: `a & b` is a
syntax error (only `;` may follow `&`), `>>` does not append, and of two output
redirections the one written first wins, because it is opened last.

## 4. Runs

| run | instance | shows |
|---|---|---|
| `sem` | 2 processes with 2 descriptors, 2 slots, 1 name, `"pc"`, with fairness | `RefCount`, `NoLostWakeup`, `FreeSlotUnused`, `UnlinkReturns` |
| `pc` | 3 producers, 2 consumers, 2 messages each, buffer of 2, any fork may fail, with fairness | implements `BoundedBuffer`; ends when the forks succeed |
| `log` | 3 calls, 5 blocks, a log of 4, 2 crashes, with fairness | `LogHolds`, implements `AtomicDisk`, `CallsEnd` |
| `proc` | 3 slots, 2 processors, pids up to 3, kill of pid 2, one caller of the queries, with fairness | `ParentAlive`, `UniquePids`, `NoLostWait`, `ZombiesReaped`, `KilledExits`, `QueryComplete`, `AncestorRight` |
| `pipe` | 2 processes, 2 bytes of room, counters modulo 4, with fairness | `NoUseAfterFree`, `NoLostWakeup`, implements `Fifo`, `EndOfFile` |
| `pipeline` | 15 files of one to four words, both forms, with fairness | implements `PolygonList`, `Termination` |
| `files` | 30 programs, without `linkunlink` and `openiputtest` of section 5, on 12 inodes and 40 blocks, 3 processes | `TestsPass`, `Fsck`, `ReclaimedAlone`, `NoCircularWait`, and no deadlock |
| `bcache` | 2 processes, 4 blocks, 2 buffers, up to 2 of them dirty, with fairness | `OnlyNoBuffers`, implements `BlockStore`, `RequestsEnd` |
| `memory` | 3 processes, 13 pages, 4 pages of user addresses | `PagesOnce`, `SizeBacked` |
| `cpu` | 2 processors, 2 processes that sleep 2 ticks, with fairness | `InterruptsMatch`, `OneCpu`, `EveryoneRuns` |
| `console` | 2 processes, a buffer of 3, indices modulo 6, a screen of 2 by 1, with fairness | implements `Terminal`, `LineRead` |
| `shell` | every line of up to 3 tokens and 17 longer ones, 1 failure, with fairness | `ParserAgrees`, `Wired`, `InOrder`, `ShellReturns` |

*Bounds and why they are enough.*

*sem.*  Races between `sem_wait`, `sem_post`, `sem_reset` and `kill` need a
sleeper and one to interfere.  Two descriptors let one name be opened twice, two
slots let it move to another slot while somebody is asleep on the first.  The
invariants are proved for all sizes.  `RefCap` and `CountCap` stop counters that
only grow by repetition.

*pc.*  The buffer is smaller than what is produced, so both sides block.

*log.*  The reservations of two calls fill the log, so the third has to wait;
three calls without a reservation would log five blocks; the second crash can
fall into the recovery from the first.

*proc.*  Three slots hold init, a parent and a child, so that init inherits, and
any slot is used again, after a reaping and after a failed fork.  With three, an
exit that did not wake init for a zombie it inherits would go unnoticed: that
takes a grandchild, hence a fourth slot; `NoLostWait` is proved for any number of
slots.

*pipe.*  Two bytes are the fewest whose order can be wrong; the counters wrap
every four.  Programs write the one sequence `Sent` in a run: what a pipe does
does not depend on the bytes, so values that differ from their neighbours show
every change of order.

*pipeline.*  The words have both forms, every kind of target and, in one file, a
word behind the last.

*files.*  The programs are given, in what they call and in what they expect; the
bound is on loops, unrolled two or three times, and on writes, in cells.  The
disk is small enough for the indirect block, a full directory block and the
largest file (`writetest1`), the cache (6) for `iref` to go round it.

*bcache.*  Two buffers are fewer than the blocks, so that buffers are recycled;
a dirty and unlocked one must be passed over by `bget`.  All of them may be dirty at
once, as `NBUF` is `LOGSIZE` in `param.h`: the code relies on transactions that end
before all of the log is used, and `bget` panics otherwise.  `OnlyNoBuffers` says that
it does so for no other reason, and that no other check fails.

*memory.*  With 13 pages every allocation of a fork, an exec and an sbrk can be
the one that fails, and three processes can be in the middle of one at once;
a second page table is reached by two pages.

*cpu.*  Two processors are enough for every race for a lock, and for a timer on
one in the middle of a switch on the other; with two processes and a processor
each, the scheduler's round robin passes over a sleeper.

*console.*  Three places make a buffer full before a line ends, and the indices
wrap after two rounds.  The screen has one column and scrolls after two rows.
`LineRead` is about every place of a call that waits: for the lock, on the way to
sleep, asleep, or woken with the line perhaps gone to another reader.

*shell.*  The longer lines have two pipes, lists in blocks, `&` and redirections
before and behind the arguments; with eight processes no line runs out.  A shell that
ran the right of a `;` first, or that does not wait, violates `InOrder` in this
run.

Deadlock is not checked where a system may stop: a program that has ended, a
bound that is reached, a panic of the cache, processes that all sleep because the programs using the
calls are arbitrary.  Where the program is given, the liveness properties exclude
it (`TerminationIfForked`, `Termination`, `ShellReturns`), or the deadlock check
does (`files`).

*Fairness.*  `scheduler()` goes round the process table and the timer takes
the processor from whoever has it, so every process that can run does.  `Sem`,
`ProdCons`, `Log`, `Bcache`, `Console`, `Shell` and `Pipeline` assume weak fairness
of each process's own steps, and nothing of what user programs choose to call.
`Proc` has the processors itself: strong fairness of `Sched` (a runnable slot is
met on every round, though it may be scheduled and preempted in between) and of
what a process must go on with when it runs.  `acquire` is an `xchg` loop without
a queue, so that a processor could lose every race in principle: `Pipe` has strong
fairness of `Acquire` and `PipeClose`, and `Cpu` of each thread's steps, which is
an assumption about the bus.  `Cpu` has strong fairness of the timer as well, as
it comes again and again.  `Bcache` has weak fairness of the disk, which answers
what it was asked.  `Console` has strong fairness of a reader that was woken and
finds the line gone, and none of the keyboard.  The stdio `Flush` of `Pipeline` is
not fair, only the flush at exit is certain.  `ZombiesReaped` holds with finitely
many forks: `wait` reaps the lowest slot first, and endless forking could keep a
high slot waiting.

## 5. Where the code and its own words disagree

What follows is not part of the passing runs.  Each row is a counterexample that
TLC finds with the configuration named, its constants changed as said and the
property in place of the ones it lists.

| property and configuration | what happens |
|---|---|
| `OpenReusesName`, `MCSemOpenRace.cfg` | two processes that open the same new name at once create it twice (`sem.c:42`), where `test.c` says "it shouldnt open a new sem when the given name exists" |
| the same with `Procs = {p1}`, `NOSEM = 2`, `Names = {long}`, `"pc"` | a name of eight characters or more runs into `owner_pid`, which overwrites it, and is not found again (`sem.c:46`) |
| `UnlinkOnlyClosed`, `MCSemOpenRace.cfg` with `Procs = {p1}`, `NOSEM = 2`, `"pc"` | `sem_unlink` finds a closed slot of the same name and does not block (`sem.c:134`) |
| `UnlinkReturns`, `MCSem.cfg` with `NOSEM = 1`, `Names = {a, b}`, `InitVals = {0}`, `"late"` | a slot reused under a sleeping unlinker leaves it asleep (`sem.c:52`) |
| `UnlinkReturns`, `MCSem.cfg` with `Procs = {p1}`, `"free"` | `sem_open` with no descriptor left keeps a reference (`syssem.c:49`) |
| `PostRespectsMax`, `MCSem.cfg` with `ResetVals = {2}` | `sem_reset` puts the count above `maxVal`, where `sem_post` never stops (`sem.c:101`) |
| `KilledExits`, `MCSem.cfg` with `NOSEM = 1`, `InitVals = {0}` | a kill between the test and the sleep of `sem_wait` is lost (`sem.c:76`); `consoleread` and `piperead` have the same gap |
| `LogHolds`, `MCLogFileWrite.cfg` | two long writes overflow the log (`file.c:133`); sizes scaled from 30 and 10 to 12 and 4 |
| `NotBornKilled`, `MCProcBornKilled.cfg` (module `MCProcQuery`) | a free slot can be killed, and the next process there is (`ex2/q2/xv6/proc.c:111`, `509`) |
| `QueryFits`, `MCProcQuery.cfg` with `QSpec`, `NPROC = 4`, `MAX_CHILDREN = 1` | one child too many is stored behind the struct (`ex2/q2/xv6/proc.c:85`) |
| `Termination`, `MCProdCons.cfg` | when a producer's fork fails the program never ends (`pc.c:28`) |
| `ImplementsList`, `MCPipeline.cfg` with `Garbage = TRUE` | a short word is read on into an unset byte (`ex2/q1/main.c:228`) |
| `Reclaimed`, `MCFiles.cfg` with `Tests <- MCRaces` | `openiputtest`: two processes drop the last two references together, and neither frees the inode (`xv6-rev10/fs.c:340`) |
| `NoCircularWait`, `MCFiles.cfg` with `Tests <- MCDeadlocks` | `linkunlink`: `create` holds the file and puts the directory, whose lock `unlink` holds while it waits for the file (`xv6-rev10/fs.c:335`) |
| `NothingLost`, `MCMemory.cfg` with `NPages = 14`, `MaxPages = 5` | `copyuvm` forgets the page that it cannot map (`xv6-rev10/vm.c:335`) |

Smaller ones, read while modelling.  `polygonArea` computes the negative of the
formula in the comment of `area` (`ex1/q1/main.c:72`), as `AreaOfTriangles` says.
`pipewrite` returns -1 to a writer killed while it waits for room without the
wakeup that its last bytes are due (`pipe.c:86`); `NoLostWakeup` excepts it.
`bget` panics when every buffer is dirty or in use (`xv6-rev10/bio.c:92`), which
`param.h` does not exclude, as `NBUF` is `LOGSIZE`.
`growproc` cannot tell the size 0 from a failure of `deallocuvm`
(`xv6-rev10/proc.c:169`): it frees all pages and returns -1.  It takes an sbrk below 0, which wraps, as done though
nothing was freed.  When init's `fork` fails, init exits
(`init.c:25`), which panics the kernel.  A file can still be created in a directory that was removed while
somebody is in it, and `link(f, "d/.")` waits for a lock the process holds.

## 6. Proofs

`Sem_proofs`, for any number of processes, slots, descriptors and names, under
`OneOpener`: one process opens semaphores, has descriptors left when it does,
and passes non-negative initial values.  Without it the theorems are false, as
`MCSemOpenRace.cfg` shows.  Proved: `TypeOK`, `RefCount`, `NoLostWakeup`,
`FreeSlotUnused`, `NoPanic`.  None is inductive alone.  `RefCount` needs that a
slot being opened is unlinked and unreferenced until it is filled; that needs
`FreeSlotUnused`, which needs to know that a process in the middle of `sem_wait`
still has its descriptor (`CurOK`).  `NoLostWakeup` needs that the holder of a
slot's lock still sees no unit (`LockOK`), as it goes to sleep on what it saw, and
that the count is never negative (`CountOK`).  `NoPanic` needs all of them:
`initlock` meets no holder because a holder has a descriptor and an unlinked slot
has none.  `IInv` is their conjunction; there is one lemma for each action.

`Proc_proofs`, for any number of slots, processors and pids: `TypeOK`,
`ParentAlive`, `UniquePids`, `NoLostWait`.  The strengthening says that init
lives (`InitLives`), that nobody is his own parent (`NotOwnParent`, else an exit
would hand a process to itself), that free slots have no parent (`UnusedFree`,
else a slot's next user would begin as somebody's child), that the slot a `fork`
fills is its own and an embryo (`ForkOK`), and that every pid given so far is
below `nextpid` (`PidsOK`).

The same module goes on with `ProcQuery`, for any number of slots: `QueryComplete`,
`AncestorRight`, and `ErrorRight`, that `get_proc_data` answers -1 only if nobody was
a child of the process asked about all through the call.  What was true all through the
call (`always`) is still true (`AlwaysNow`), and the invariant follows the loops: the
search has not passed the process asked about (`SearchOK`) or has found it (`FoundOK`),
and a steady child is in a slot that the second loop has not reached or among the pids
stored (`KidsOK`).  That a slot is not another process by the time it is read needs
that a step of the table gives a pid out once and changes a live process' parent
only to init (`TableMoves`).

`Pipe_proofs`, for any number of processes, any ring and any counter width that is a
multiple of it, under `PipeAssumption`, which says so: `TypeOK`, `NoUseAfterFree`,
`NoLostWakeup`, and `RefinesFifo`, that a pipe is the bounded queue of `Fifo`.  The first
two rest on the reference counts (`RefOK`, one for each descriptor) and on `OpenOK`: an end
is open while a process has it, and then until the one process that dropped the last
reference has closed it.  `SleepOK` says that what a process saw when it decided to
sleep is still so when it does, and that a sleeper may have missed its condition only
while another process is still to wake it.  The refinement needs that the counters
are never more than the ring apart (`CountOK`), and what a lap of the counters
does to remainders, without which a full ring could pass for an empty one.

`Log_proofs`, for any number of calls, blocks and crashes and any log, under
`LogFits`: `LogHolds`, `CommitAlone`, and `CommitsAtomic`, that the log implements
`AtomicDisk`.  `LogFits` is the reservation of `begin_op`: a call logs at most `n` blocks of
the `MAXOPBLOCKS` it reserves, and what it leaves makes up for what `log.size` is
shorter than `LOGSIZE` would have it.  The code's log, with `log.size = LOGSIZE`, meets it for calls
of at most nine blocks, or of ten writes that repeat one; the run's for calls that use
all of their reservation.  A call of `filewrite` does not, and overflows the log (section
5).  The proof of `LogHolds` counts a pair for each block that a call under way may
still add (`Pending`): the pairs and the header together always fit (`RoomOK`).  For
the refinement, `UpOK`, `CommitOK` and `BootOK` say how the blocks in memory, in the log and in
place agree at each write of a commit, of an installation and of a recovery; a crash
anywhere leaves one of the two states that `AtomicDisk` allows.

`Bcache_proofs`, for any number of processes, blocks and buffers.  `RefinesStore`: the
cache over the driver is the store of blocks of `BlockStore`, step by step, however
few the buffers.  `OneBuffer`: a block has one buffer.  `OnlyNoBuffers`: the only panic in
reach is `bget`'s, and it comes only when each buffer is dirty or is held, being got or
being dropped by a process.  None of the three assumes anything of the sizes, so they hold
of those in `param.h`, where `NBUF` and `LOGSIZE` are both 30 and there are 64 processes:
there the panic is possible.  What is excluded is that it comes from a reference that
was never given back, and that needs `RefOK`, that `refcnt` is the number of a buffer's
users.  The invariant says who owns a buffer at each step of a
call, that the buffers in the driver's queue are locked by the processes asleep on
them, that a buffer that counts as read agrees with the disk unless it is dirty, and
that a dirty one is never recycled.

`Memory_proofs`, for any number of processes and pages, any page and table size, and
programs of any size below `KERNBASE`: `PagesOnce`, `SizeBacked`, `NoPanic` ("remap" and the
two panics of `copyuvm`).  `Parted` says that the free list, the lost pages and what the
processes hold are a partition of memory, `Apart` that within one process no page is
in two places, and `Shape` what a process holds at each place of its calls: in the
middle of `allocuvm` exactly the pages below the loop's address, in a fork or exec an old
space that is still whole beside the new one.  `ForkOK` says that an entry taken by a
fork belongs to one parent and has a kernel stack from the second step on, so that a failed
fork frees it once.  Every action is one of `Keeps`, `Takes` and `Gives`, or changes a
parent and its child (`TwoChange`).  The lemmas `RoundUp` to `RoundUpTop` are about `PGROUNDUP`.

`Cpu_proofs`, for any number of processors, processes and ticks: `InterruptsMatch`,
`OneCpu`, `NoPanic`.  The stacks of the threads are suffixes of a few paths: the
scheduler's loop, `sys_sleep` down to user mode, and the interrupt handler on top of
one of the six places where an interrupt may come (`Rests`).  A *point* names a suffix.
The invariant says that the thread of each processor is at a point (`RunsAt`), and what
its processor then has: the locks it holds (`Held`), the pushcli it is in (`Depth`), what
IF and `intena` may be, and the state of its process.  The scheduler of a processor
that runs a process waits in its scan; a process that no processor runs is where `sched`
left it, or has never run, and is not RUNNING (`OffCpu`); no two processors have one
process (`Alone`).  `NoPanic` and `InterruptsMatch` are read off the point.  The step
that needs the most is the scan's: a process found RUNNABLE is on no processor, though
`yield` says RUNNABLE while it still runs, because whoever is between that and the switch
has `ptable.lock`, and the scan has it (`RunningElsewhere`).  Each point is an entry on
the stack of the point below (`Unfolds`), so an action's lemma is a table of what that
entry does to `Held`, `Depth` and the rest, and one of three lemmas says that a step of
that form keeps the invariant: `Moves` (locks and states unchanged), `Goes` (one
processor, its locks, states), `SwitchKeeps` (another thread).

`Numbers_proofs` has the two sequential pieces of arithmetic (`UM!`, `PA!`, instances of
`UserMemory` and `PolygonArea`), the polygon pipeline and the shell.
For every address, every int and every program header, with the sizes of the code:
`BelowKernel`, `BlockInside`, `LoadInside`.  The comparisons
of `syscall.c` add words that may wrap; they are right because a process ends
below `KERNBASE` (`BelowKernel`), half of the range.

For all coordinates of a polygon: `TypeOK` and `AreaOfTriangles`, from the value of
the sum before each turn of the loop.  The coordinates are assumed
to be six-bit fields (`SixBits`), which the masks of `getXAndY` make them.

There is no run of `UserMemory` and of `PolygonArea`: the proofs cover all
inputs.  With a word of 32 values, pages of 4 and `KERNBASE` at 16, TLC finds the
invariants of `UserMemory` true as well.

*The producer/consumer program*, in `Sem_proofs`, for any numbers of producers,
consumers, messages and spots, whichever forks fail: `TypeOK`, `StartBarrier`, `OneWriter`,
`NoPostRefused`, `CleanFinish`, and `RefinesBuffer`, that the messages of `pc.c` pass through
`BoundedBuffer`.  A semaphore's count says how many children are at which places, and so
the invariant counts: `Spots`, that the counts of the two buffer semaphores and the children
between a wait and its post make up the buffer; `Ahead`, how far production
is ahead of consumption; `Right`, that the right to print is with the semaphore or with one
child; `AllCounted` and `TotalCounted`, that what is produced and what is left to produce are all
messages, and so are what `total` still counts, what consumers have taken and what is consumed;
`Refs` and `StartBarrier`, who has a reference to `waitc` and who may have passed it; `Ends` and
`Reaped`, what a child has done when it ends and how many the parent has reaped.
`CleanFinish` needs `Ends`, `Reaped` and the totals, the refinement `Spots` and `Ahead`.

*The console*, in `Pipe_proofs`, for any number of users, any buffer and any index width
that is a multiple of it, and any screen: `IndexOrder`, `NoPanic`, and `RefinesTerminal`,
that `console.c` implements `Terminal`.  `IndexOrder` says that `r`, `w` and `e` follow one
another within a buffer, though each wraps; the screen's cursor stays on the screen because an
editing key takes back no more than is in the line (`OnScreen`).  The refinement reads the
queue of lines and the line under edit off the ring, and each call's `got`, `want` and
`killed` off its process.  `GotOK` says that a read that is about to return has all it
will get: the end of a line, or as much as it asked for.  One that stops at ^D returns in
that step, the mark put back or taken as the terminal does it.

*The polygon pipeline*, in `Numbers_proofs`, for any words, forms and inputs, under `Clean`
(every word has its sixteen digits, or the byte behind main's buffer is no digit, see
section 5): `TypeOK`, `OneScanner`, `NothingLost`, and `RefinesList`, that the four processes
print what `PolygonList` prints.  The invariant follows one word through the processes
(`Stage`): its tag is to be read, the reader it asks for is to be signalled, has a
signal, scans its tokens one by one, has the word, or has answered; at each stage it says what
is left of the input and that everybody else rests.  It needs that a word
marked last is still to come (`ToCome`), which the inputs have and without which main would signal
a reader with nothing to read.  After the last word only the counts of `wait` matter (`PlEnd`).
The refinement maps the output to what is in the writer's buffer, the pipe and main's
buffer together: handing it on changes nothing (`WayKept`), and a step of `runOnPolygon` is one
turn of the loop of ex1.  The lemmas `Climb` to `FlattenFirst` are the induction that
`FlattenSeq`, a recursive function of the library, needs: over 0..n, from the well-foundedness
of the naturals.

*The shell*, in `Numbers_proofs`, for every line and every tree that satisfies `IsTree`,
any numbers of slots, files, lines and failing calls: `Wired`, and `InOrder`.

`Wired` follows from `ShellInv`: every process is `Fine` for its place in `runcmd`.  A process
that is about to run a command has the files `Fds(in, out)` of some input and output, and all
that the command gives to the programs inside it, with these files, is what the line gives
them (`Ready`, `Due`).  The process that runs a pipe has both ends besides (`Forking`), and
each child is in the middle of the closes and dups that make one of them its input or output
(`LeftSide`, `RightSide`).  What a command gives is `Wiring`, a function that is recursive over
the tree; that it exists and satisfies its equation (`WiresExist`, `WiringIs`) is an induction
along the tree, by `Climb`.

`InOrder` needs `OrderInv` as well.  Every process has a *zone* (`Zone`): the commands that it
has begun or has yet to begin, and the shell's own is the place above the root.  The zones
of a line's processes are disjoint (`ZonesApart`); a process at a given place has as many children
as the code there has forked and not reaped (`KidsOK`); one process is the shell (`OneShell`).
`Linked` is the heart, as long as no call has failed: while some process goes on to a command
from the left of a `;`, from a side of a `|`, or from the root, that `;`, that `|` or the place
above the root is in a zone too, of that process or of its parent, who waits.  So a program that runs and is waited for leads, up the tree
(`Busy`), to a process that still has the `;` and all that is right of it, or to the shell, which
then waits for the line.  The other half is `OnlyPrograms`: a command that has started is in no
zone, unless as the program that its process has become.  So while a program left of a `;` runs and
is waited for, what is right of the `;` is in the zone of the process that has the `;`, which is
not a program, and none of it has started.  What a command leads to is a least closed set (`Reach`: `Under` all
that is inside it, `Onto` what one process goes on to, `Fore` what is waited for), and `Foreground`
and `Leaves` are shown to be within these sets.  A step moves a process within its zone (`MoveOrder`), splits a
zone in two at a fork (`ForkOrder`, `Parts`), or reaps (`WaitOrder`); exit, exec, reading a line and init
are cases of their own.  The hypothesis that no call failed is needed: the child of a shell that
dies is left behind running.

Each theorem is `Spec => []P`: the initial state satisfies the invariant, each
action keeps it, it implies `P`, and PTL puts the three together.

The refinements need one more step, that each action is one of the abstract
specification's or a stutter.

Model-checked only: what needs fairness (`UnlinkReturns`, `TerminationIfForked`, `CallsEnd`,
`ZombiesReaped`, `KilledExits`, `EndOfFile`, `Termination`, `RequestsEnd`, `EveryoneRuns`,
`LineRead`, `ShellReturns`), since liveness and `ENABLED` are out of the prover's reach;
`ParserAgrees` of `MCShell`, about a recursive descent;
and `TestsPass`, `Fsck`, `ReclaimedAlone` and `NoCircularWait` of `Files`.  Those are about
the programs given: `TestsPass` compares with what these programs expect, and section 5 has others
for which `NoCircularWait` and `Reclaimed` fail.  `Fsck` for every program would need
an invariant for each call half done, over a disk that the operators of `Inode` write block
by block, and is left to TLC.

## 7. Not modelled, and why

Abstracted in what is modelled: the bytes of messages and names (a name is what
it compares equal to), user programs other than the given ones (any legal sequence
of calls), errors of the disk, the perimeter of a polygon (a sum of floating-point
roots), the interrupt handler of `writer.c`, the bits of a page table entry, the
layout of the arguments on a new stack.  Standard input of the polygon programs is
a file; on a terminal more could be typed later.

Not modelled: boot, the set-up of the processors and devices, and their registers
(`bootmain.c`, `mp.c`, `lapic.c`, `ioapic.c`, `uart.c`, the assembly): one pass over
hardware that only its manual describes.  The decoding of scan codes (`kbd.c`),
formatted output (`printf.c`, `cprintf`) and the string functions: input and output
without a state that another part depends on.  `grep.c`, `wc.c`, `umalloc.c`: library
algorithms in one process.  `ps.c`, `pt.c` and `test.c`: programs of a few calls whose
inside is in `ProcQuery` and `Sem`.  Of `usertests.c`, the tests of memory protection
(`validatetest`, `uio`, `bsstest`), of `sbrk` in a loop, and `fsfull`, which its own
comment says ends in a panic.

The repository has three copies of xv6, the same but for the exercises' changes.
A component is modelled once, from the copy that changes it if there is one, else
from `xv6-rev10/`; `cmp` finds `bio.c`, `console.c`, `fs.c`, `ide.c`, `log.c`,
`pipe.c`, `sh.c`, `spinlock.c`, `usertests.c`, `vm.c` and the others identical, so what
is shown of one holds of the three.  Their lines are counted once: more than half of
the repository's lines are a second or third copy.

## 8. Plan

1. An abstract semaphore which `Sem` implements under one opener and `ProdCons`
   uses, joining the two.
2. The allocator of `umalloc.c` over the sbrk of `Memory`, the programs of
   `usertests.c` that use memory, and the matcher of `grep.c` against a definition of
   its patterns.
