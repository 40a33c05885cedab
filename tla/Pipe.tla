-------------------------------- MODULE Pipe --------------------------------
(***************************************************************************)
(* One pipe, pipe.c, with the file table entries of its two ends, file.c:  *)
(* processes that inherit the ends by fork, write and read through them,   *)
(* close them, exit and are killed.  Bytes move one step at a time under   *)
(* the pipe's lock; kill does not take it.                                 *)
(*                                                                         *)
(* nread and nwrite are unsigned and wrap; UINT is 2^32 in the code.       *)
(***************************************************************************)
EXTENDS Integers, Sequences, FiniteSets

CONSTANTS
  Procs,        \* the processes
  Root,         \* the one that calls pipe()
  Nobody,       \* holds a lock that is free
  PIPESIZE,
  UINT,         \* an unsigned counter goes from 0 to UINT - 1
  Bytes,        \* what a byte can be
  Sent(_),      \* the bytes programs may write when nwrite is n
  MaxCount      \* bound on the n of read and write

ASSUME PipeAssumption ==
  /\ IsFiniteSet(Procs) /\ Root \in Procs /\ Nobody \notin Procs
  /\ PIPESIZE \in Nat \ {0}
  /\ UINT \in Nat /\ UINT > PIPESIZE /\ UINT % PIPESIZE = 0
  /\ \A n \in 0..(UINT - 1) : Sent(n) # {} /\ Sent(n) \subseteq Bytes
  /\ MaxCount \in Nat

Ends == {"r", "w"}

VARIABLES
  data, nread, nwrite, open, lock,  \* struct pipe; open: readopen and writeopen
  freed,                            \* kfree was called on it
  ref,                              \* file.c: references to each end's file
  fds,                              \* the ends each process holds
  pc, left,                         \* each process, and the bytes it still wants
  killed,
  last                              \* the byte read last

pipeVars == <<data, nread, nwrite, open, freed>>
vars == <<pipeVars, lock, ref, fds, pc, left, killed, last>>

Init ==
  /\ data \in [0..(PIPESIZE - 1) -> Bytes]
  /\ nread = 0 /\ nwrite = 0
  /\ open = Ends
  /\ lock = Nobody
  /\ freed = FALSE
  /\ ref = [e \in Ends |-> 1]
  /\ fds = [p \in Procs |-> IF p = Root THEN Ends ELSE {}]
  /\ pc = [p \in Procs |-> IF p = Root THEN "user" ELSE "unborn"]
  /\ left = [p \in Procs |-> 0]
  /\ killed = [p \in Procs |-> FALSE]
  /\ last \in Bytes

Full  == nwrite = (nread + PIPESIZE) % UINT
Empty == nread = nwrite

\* p holds the lock and is at a label.
Holds(p, label) == lock = p /\ pc[p] = label

Goto(p, label) == pc' = [pc EXCEPT ![p] = label]

\* wakeup: those asleep want the lock again; p goes on at label.
WakeupGoto(asleep, again, p, label) ==
  pc' = [q \in Procs |-> IF q = p THEN label
                         ELSE IF pc[q] = asleep THEN again ELSE pc[q]]
WakeReaders(p, label) == WakeupGoto("read_asleep", "read_lock", p, label)
WakeWriters(p, label) == WakeupGoto("write_asleep", "write_lock", p, label)

-----------------------------------------------------------------------------
(* pipewrite *)

WriteCall(p) ==
  /\ pc[p] = "user" /\ ~killed[p] /\ "w" \in fds[p]
  /\ \E n \in 0..MaxCount : left' = [left EXCEPT ![p] = n]
  /\ Goto(p, "write_lock")
  /\ UNCHANGED <<pipeVars, lock, ref, fds, killed, last>>

\* acquire(&p->lock), at the start of a call or in the end of sleep.
Acquire(p) ==
  /\ lock = Nobody
  /\ lock' = p
  /\ \/ pc[p] = "write_lock" /\ Goto(p, "write")
     \/ pc[p] = "read_lock" /\ Goto(p, "read")
  /\ UNCHANGED <<pipeVars, ref, fds, left, killed, last>>

\* Mutant: the writer looks for one slot too few.
WriteByte_Overrun(p) ==
  /\ Holds(p, "write") /\ left[p] > 0
  /\ nwrite # (nread + PIPESIZE + 1) % UINT
  /\ \E b \in Sent(nwrite) : data' = [data EXCEPT ![nwrite % PIPESIZE] = b]
  /\ nwrite' = (nwrite + 1) % UINT
  /\ left' = [left EXCEPT ![p] = @ - 1]
  /\ UNCHANGED <<nread, open, freed, lock, ref, fds, pc, killed, last>>

\* p->data[p->nwrite++ % PIPESIZE] = addr[i]
WriteByte(p) ==
  /\ Holds(p, "write") /\ left[p] > 0 /\ ~Full
  /\ \E b \in Sent(nwrite) : data' = [data EXCEPT ![nwrite % PIPESIZE] = b]
  /\ nwrite' = (nwrite + 1) % UINT
  /\ left' = [left EXCEPT ![p] = @ - 1]
  /\ UNCHANGED <<nread, open, freed, lock, ref, fds, pc, killed, last>>

\* The pipe is full and nobody will read, or the writer was killed: -1.
WriteFail(p) ==
  /\ Holds(p, "write") /\ left[p] > 0 /\ Full
  /\ "r" \notin open \/ killed[p]
  /\ lock' = Nobody
  /\ left' = [left EXCEPT ![p] = 0]
  /\ Goto(p, "user")
  /\ UNCHANGED <<pipeVars, ref, fds, killed, last>>

\* Mutant: the readers are not woken before the writer sleeps.
WriteBlock_NoWakeup(p) ==
  /\ Holds(p, "write") /\ left[p] > 0 /\ Full
  /\ "r" \in open /\ ~killed[p]
  /\ Goto(p, "write_sleep")
  /\ UNCHANGED <<pipeVars, lock, ref, fds, left, killed, last>>

\* The pipe is full: wake the readers, then sleep.
WriteBlock(p) ==
  /\ Holds(p, "write") /\ left[p] > 0 /\ Full
  /\ "r" \in open /\ ~killed[p]
  /\ WakeReaders(p, "write_sleep")
  /\ UNCHANGED <<pipeVars, lock, ref, fds, left, killed, last>>

\* sleep: the lock is released and the process asleep in one step, but the
\* killed test came before it.
Sleep(p) ==
  /\ lock = p
  /\ lock' = Nobody
  /\ \/ pc[p] = "write_sleep" /\ Goto(p, "write_asleep")
     \/ pc[p] = "read_sleep" /\ Goto(p, "read_asleep")
  /\ UNCHANGED <<pipeVars, ref, fds, left, killed, last>>

\* All bytes are written.
WriteEnd(p) ==
  /\ Holds(p, "write") /\ left[p] = 0
  /\ lock' = Nobody
  /\ WakeReaders(p, "user")
  /\ UNCHANGED <<pipeVars, ref, fds, left, killed, last>>

-----------------------------------------------------------------------------
(* piperead *)

ReadCall(p) ==
  /\ pc[p] = "user" /\ ~killed[p] /\ "r" \in fds[p]
  /\ \E n \in 0..MaxCount : left' = [left EXCEPT ![p] = n]
  /\ Goto(p, "read_lock")
  /\ UNCHANGED <<pipeVars, lock, ref, fds, killed, last>>

\* Nothing to read while the write end is open: killed, or sleep.
ReadFail(p) ==
  /\ Holds(p, "read") /\ Empty /\ "w" \in open /\ killed[p]
  /\ lock' = Nobody
  /\ left' = [left EXCEPT ![p] = 0]
  /\ Goto(p, "user")
  /\ UNCHANGED <<pipeVars, ref, fds, killed, last>>

ReadBlock(p) ==
  /\ Holds(p, "read") /\ Empty /\ "w" \in open /\ ~killed[p]
  /\ Goto(p, "read_sleep")
  /\ UNCHANGED <<pipeVars, lock, ref, fds, left, killed, last>>

\* There is something, or there never will be.
ReadGo(p) ==
  /\ Holds(p, "read") /\ ~(Empty /\ "w" \in open)
  /\ Goto(p, "read_copy")
  /\ UNCHANGED <<pipeVars, lock, ref, fds, left, killed, last>>

\* Mutant: the counter is not an unsigned one.
ReadByte_NoWrap(p) ==
  /\ Holds(p, "read_copy") /\ left[p] > 0 /\ ~Empty
  /\ last' = data[nread % PIPESIZE]
  /\ nread' = nread + 1
  /\ left' = [left EXCEPT ![p] = @ - 1]
  /\ UNCHANGED <<data, nwrite, open, freed, lock, ref, fds, pc, killed>>

\* addr[i] = p->data[p->nread++ % PIPESIZE]
ReadByte(p) ==
  /\ Holds(p, "read_copy") /\ left[p] > 0 /\ ~Empty
  /\ last' = data[nread % PIPESIZE]
  /\ nread' = (nread + 1) % UINT
  /\ left' = [left EXCEPT ![p] = @ - 1]
  /\ UNCHANGED <<data, nwrite, open, freed, lock, ref, fds, pc, killed>>

ReadEnd(p) ==
  /\ Holds(p, "read_copy") /\ (left[p] = 0 \/ Empty)
  /\ lock' = Nobody
  /\ left' = [left EXCEPT ![p] = 0]
  /\ WakeWriters(p, "user")
  /\ UNCHANGED <<pipeVars, ref, fds, killed, last>>

-----------------------------------------------------------------------------
(* fork, close, exit, kill *)

\* filedup of every descriptor.
Fork(p) ==
  /\ pc[p] = "user" /\ ~killed[p]
  /\ \E c \in Procs :
       /\ pc[c] = "unborn"
       /\ Goto(c, "user")
       /\ fds' = [fds EXCEPT ![c] = fds[p]]
  /\ ref' = [e \in Ends |-> IF e \in fds[p] THEN ref[e] + 1 ELSE ref[e]]
  /\ UNCHANGED <<pipeVars, lock, left, killed, last>>

CloseLabel(e) == IF e = "r" THEN "close_r" ELSE "close_w"

\* Mutant: the file is closed while somebody still holds it.
Close_Early(p) ==
  /\ pc[p] = "user"
  /\ \E e \in fds[p] :
       /\ fds' = [fds EXCEPT ![p] = @ \ {e}]
       /\ ref' = [ref EXCEPT ![e] = @ - 1]
       /\ IF ref[e] = 2 THEN Goto(p, CloseLabel(e)) ELSE UNCHANGED pc
  /\ UNCHANGED <<pipeVars, lock, left, killed, last>>

\* close, or exit, which closes everything: fileclose drops a reference, and
\* goes on to pipeclose when it was the last.
Close(p) ==
  /\ pc[p] = "user"
  /\ \E e \in fds[p] :
       /\ fds' = [fds EXCEPT ![p] = @ \ {e}]
       /\ ref' = [ref EXCEPT ![e] = @ - 1]
       /\ IF ref[e] = 1 THEN Goto(p, CloseLabel(e)) ELSE UNCHANGED pc
  /\ UNCHANGED <<pipeVars, lock, left, killed, last>>

\* Mutant: nobody is woken.
PipeClose_NoWakeup(p) ==
  /\ lock = Nobody
  /\ \E e \in Ends :
       /\ pc[p] = CloseLabel(e)
       /\ open' = open \ {e}
       /\ Goto(p, "user")
  /\ freed' = (freed \/ open' = {})
  /\ UNCHANGED <<data, nread, nwrite, lock, ref, fds, left, killed, last>>

\* pipeclose: wake the other side, and free the pipe with its second end.
PipeClose(p) ==
  /\ lock = Nobody
  /\ \E e \in Ends :
       /\ pc[p] = CloseLabel(e)
       /\ open' = open \ {e}
       /\ IF e = "w" THEN WakeReaders(p, "user") ELSE WakeWriters(p, "user")
  /\ freed' = (freed \/ open' = {})
  /\ UNCHANGED <<data, nread, nwrite, lock, ref, fds, left, killed, last>>

\* exit, by choice or in trap when killed, after the files are closed.
Exit(p) ==
  /\ pc[p] = "user" /\ fds[p] = {}
  /\ Goto(p, "gone")
  /\ UNCHANGED <<pipeVars, lock, ref, fds, left, killed, last>>

\* kill: wakes the process if it is asleep already.
Kill(p) ==
  /\ pc[p] \notin {"unborn", "gone"} /\ ~killed[p]
  /\ killed' = [killed EXCEPT ![p] = TRUE]
  /\ pc' = [pc EXCEPT ![p] = CASE @ = "read_asleep" -> "read_lock"
                               [] @ = "write_asleep" -> "write_lock"
                               [] OTHER -> @]
  /\ UNCHANGED <<pipeVars, lock, ref, fds, left, last>>

\* pipe(), once the last pipe is gone: pipealloc in the same page.
PipeAlloc(p) ==
  /\ pc[p] = "user" /\ ~killed[p] /\ freed
  /\ nread' = 0 /\ nwrite' = 0
  /\ open' = Ends
  /\ freed' = FALSE
  /\ ref' = [e \in Ends |-> 1]
  /\ fds' = [fds EXCEPT ![p] = Ends]
  /\ UNCHANGED <<data, lock, pc, left, killed, last>>

\* pipe() fails: for want of a file or of the page, which leaves the pipe alone,
\* or of a descriptor, when the new pipe's two files are closed and it is freed.
PipeAllocFails(p) ==
  /\ pc[p] = "user" /\ ~killed[p] /\ freed
  /\ \/ UNCHANGED <<nread, nwrite>>
     \/ nread' = 0 /\ nwrite' = 0
  /\ UNCHANGED <<data, open, freed, lock, ref, fds, pc, left, killed, last>>

-----------------------------------------------------------------------------

\* A system call that has begun, and the exit of a killed process.
Kernel(p) ==
  \/ Acquire(p) \/ Sleep(p)
  \/ WriteByte(p) \/ WriteFail(p) \/ WriteBlock(p) \/ WriteEnd(p)
  \/ ReadFail(p) \/ ReadBlock(p) \/ ReadGo(p) \/ ReadByte(p) \/ ReadEnd(p)
  \/ PipeClose(p)

User(p) ==
  WriteCall(p) \/ ReadCall(p) \/ Fork(p) \/ Close(p) \/ Exit(p) \/ Kill(p)
    \/ PipeAlloc(p) \/ PipeAllocFails(p)

Next == \E p \in Procs : Kernel(p) \/ User(p)

Spec == Init /\ [][Next]_vars

\* A process in the kernel goes on, and gets the lock in its turn.
FairSpec ==
  /\ Spec
  /\ \A p \in Procs : /\ WF_vars(Kernel(p))
                      /\ SF_vars(Acquire(p))
                      /\ SF_vars(PipeClose(p))

-----------------------------------------------------------------------------
(* Properties *)

Labels == {"unborn", "gone", "user", "write_lock", "write", "write_sleep",
           "write_asleep", "read_lock", "read", "read_sleep", "read_asleep",
           "read_copy", "close_r", "close_w"}

Writing == {"write_lock", "write", "write_sleep", "write_asleep"}
Reading == {"read_lock", "read", "read_sleep", "read_asleep", "read_copy"}

\* The type invariant of the pipe and its users.
TypeOK ==
  /\ data \in [0..(PIPESIZE - 1) -> Bytes]
  /\ nread \in 0..(UINT - 1)
  /\ nwrite \in 0..(UINT - 1)
  /\ open \subseteq Ends
  /\ lock \in Procs \cup {Nobody}
  /\ freed \in BOOLEAN
  /\ ref \in [Ends -> Nat]
  /\ fds \in [Procs -> SUBSET Ends]
  /\ pc \in [Procs -> Labels]
  /\ left \in [Procs -> 0..MaxCount]
  /\ killed \in [Procs -> BOOLEAN]
  /\ last \in Bytes

\* The page of a pipe is freed only when nobody holds an end of it, is in a
\* read or a write, or is still to close an end.
NoUseAfterFree ==
  freed => \A p \in Procs :
             fds[p] = {} /\ pc[p] \notin Writing \cup Reading \cup {"close_r", "close_w"}

\* When nobody is in the middle of a call, a writer sleeps only while the pipe
\* is full and can still be read, a reader only while it can still be written
\* and is empty.  A writer killed while it waits for room leaves without the
\* wakeup that the readers of its last bytes are due: once any process has been
\* killed, nothing is said of how much a sleeping reader finds.
NoLostWakeup ==
  lock = Nobody =>
    \A p \in Procs :
      /\ pc[p] = "write_asleep" => Full /\ "r" \in open
      /\ pc[p] = "read_asleep" =>
           "w" \in open /\ (Empty \/ \E q \in Procs : killed[q])

\* The bytes in the pipe, across the wrap of both counters.
Queue == [k \in 1..((nwrite - nread) % UINT) |-> data[(nread + k - 1) % PIPESIZE]]

\* The ring buffer is a queue of PIPESIZE bytes.
Abstract == INSTANCE Fifo WITH
  Capacity <- PIPESIZE, queue <- Queue, out <- last
ImplementsFifo == Abstract!Spec

\* A reader returns once the last write end is closed, and a writer once the
\* last read end is.
EndOfFile ==
  \A p \in Procs :
    (\/ pc[p] \in Reading /\ "w" \notin open
     \/ pc[p] \in Writing /\ "r" \notin open)
    ~> pc[p] \notin Reading \union Writing
=============================================================================
