---------------------------- MODULE Pipe_proofs ----------------------------
(***************************************************************************)
(* Proofs about Pipe for any number of processes, any ring size and any    *)
(* counter width that is a multiple of it; and about Console, whose buffer *)
(* is a ring of the same kind with three indices, for any number of        *)
(* processes, characters, buffer size, index width and screen.             *)
(***************************************************************************)
EXTENDS Pipe, MCConsole, FiniteSetTheorems, SequenceTheorems, TLAPS

-----------------------------------------------------------------------------
(* The inductive invariant *)

Holders(e) == {p \in Procs : e \in fds[p]}

\* The labels at which a process holds the pipe's lock.
Critical == {"write", "write_sleep", "read", "read_sleep", "read_copy"}

LockOK == \A p \in Procs : lock = p <=> pc[p] \in Critical

\* A process in a call holds the end it uses; one not there yet, or gone, holds
\* nothing.
HeldOK ==
  \A p \in Procs :
    /\ pc[p] \in Writing => "w" \in fds[p]
    /\ pc[p] \in Reading => "r" \in fds[p]
    /\ pc[p] \in {"unborn", "gone"} => fds[p] = {}

RefOK == \A e \in Ends : ref[e] = Cardinality(Holders(e))

\* An end is open while somebody holds it, and until the one process that
\* dropped the last reference has closed it; the page goes with the second.
OpenOK ==
  /\ freed <=> open = {}
  /\ \A p \in Procs : fds[p] \subseteq open
  /\ \A p \in Procs, e \in Ends : pc[p] = CloseLabel(e) =>
       /\ e \in open
       /\ \A q \in Procs : e \notin fds[q] /\ (pc[q] = CloseLabel(e) => q = p)

\* What a process saw when it decided to sleep is still so when it does; a
\* sleeper's condition may have passed only while another process is still to
\* wake it, or, for a reader, when somebody was killed.
SleepOK ==
  \A p \in Procs :
    /\ pc[p] = "write_sleep" => Full /\ "r" \in open
    /\ pc[p] = "read_sleep" => Empty /\ "w" \in open
    /\ pc[p] = "write_asleep" =>
         "r" \in open /\ (Full \/ \E q \in Procs : pc[q] = "read_copy")
    /\ pc[p] = "read_asleep" =>
         "w" \in open /\ (Empty \/ \E q \in Procs : killed[q] \/ pc[q] = "write")

\* The bytes between the two counters.
Count == (nwrite - nread) % UINT

CountOK == Count <= PIPESIZE

IInv ==
  /\ TypeOK
  /\ LockOK
  /\ HeldOK
  /\ RefOK
  /\ OpenOK
  /\ SleepOK
  /\ CountOK

-----------------------------------------------------------------------------
(* Lemmas about the counters *)

\* The remainder of a number that is negative, small or past one lap.
LEMMA Remainder ==
  ASSUME NEW n \in Nat \ {0}, NEW a \in Int
  PROVE  /\ a % n \in 0..(n - 1)
         /\ a \in 0..(n - 1) => a % n = a
         /\ -n <= a /\ a < 0 => a % n = a + n
         /\ n <= a /\ a < 2 * n => a % n = a - n
<1>1. /\ a % n \in 0..(n - 1)
      /\ a = n * (a \div n) + (a % n)
      /\ a \div n \in Int
  BY SMT
<1>2. \A q \in Int : q >= 1 => n * q >= n
  BY SMT
<1>3. \A q \in Int : q <= -1 => n * q <= -n
  BY SMT
<1>4. \A q \in Int : q >= 2 => n * q >= 2 * n
  BY SMT
<1>5. \A q \in Int : q <= -2 => n * q <= -(2 * n)
  BY SMT
<1> DEFINE d == a \div n
<1>6. d \in Int /\ (d = 0 \/ d = 1 \/ d = -1 \/ d >= 2 \/ d <= -2)
  BY <1>1
<1>7. d >= 1 => a >= n
  BY <1>1, <1>2
<1>8. d <= -1 => a < 0
  BY <1>1, <1>3
<1>9. d >= 2 => a >= 2 * n
  BY <1>1, <1>4
<1>10. d <= -2 => a < -n
  BY <1>1, <1>5
<1> QED
  BY <1>1, <1>6, <1>7, <1>8, <1>9, <1>10

\* The ring index of a counter does not change when the counter wraps.
LEMMA WrapKeepsIndex ==
  ASSUME NEW n \in Nat \ {0}, NEW m \in Nat, m % n = 0, NEW a \in Int
  PROVE  (a - m) % n = a % n
<1> DEFINE q == m \div n
           d == (a \div n) - ((a - m) \div n)
<1>1. m = n * q /\ q \in Int
  BY SMT
<1>2. /\ a = n * (a \div n) + (a % n)
      /\ a % n \in 0..(n - 1) /\ a \div n \in Int
  BY SMT
<1>3. /\ a - m = n * ((a - m) \div n) + ((a - m) % n)
      /\ (a - m) % n \in 0..(n - 1) /\ (a - m) \div n \in Int
  BY SMT
<1>4. n * (d - q) = ((a - m) % n) - (a % n) /\ d - q \in Int
  BY <1>1, <1>2, <1>3, SMT
<1>5. \A k \in Int : (k >= 1 => n * k >= n) /\ (k <= -1 => n * k <= -n)
  BY SMT
<1>6. d - q = 0
  BY <1>2, <1>3, <1>4, <1>5, SMT
<1> QED
  BY <1>2, <1>3, <1>4, <1>6, SMT

\* Counters less than a lap apart have different ring indices.
LEMMA IndicesDiffer ==
  ASSUME NEW n \in Nat \ {0}, NEW a \in Int, NEW b \in Int, a < b, b < a + n
  PROVE  a % n # b % n
<1>1. /\ a = n * (a \div n) + (a % n)
      /\ b = n * (b \div n) + (b % n)
      /\ a \div n \in Int /\ b \div n \in Int /\ a % n \in Int
  BY SMT
<1>2. SUFFICES ASSUME a % n = b % n PROVE FALSE
  OBVIOUS
<1> DEFINE d == (b \div n) - (a \div n)
<1>3. n * d = b - a /\ d \in Int
  BY <1>1, <1>2, SMT
<1>4. \A k \in Int : (k >= 1 => n * k >= n) /\ (k <= 0 => n * k <= 0)
  BY SMT
<1> HIDE DEF d
<1> QED
  BY <1>3, <1>4, SMT

-----------------------------------------------------------------------------
(* Lemmas about the counters of the pipe *)

\* How far one counter is ahead of another, across the wrap.
LEMMA Distance ==
  ASSUME NEW r \in 0..(UINT - 1), NEW w \in 0..(UINT - 1)
  PROVE  (w - r) % UINT = IF w >= r THEN w - r ELSE w - r + UINT
<1> DEFINE a == w - r
<1>1. a \in Int /\ UINT \in Nat \ {0}
  BY PipeAssumption
<1>2. /\ a \in 0..(UINT - 1) => a % UINT = a
      /\ -UINT <= a /\ a < 0 => a % UINT = a + UINT
  BY <1>1, Remainder, Zenon
<1> QED
  BY <1>1, <1>2

\* The number of bytes between the counters, the room left, and what a step of
\* either counter does to it.
LEMMA CountFacts ==
  ASSUME TypeOK, CountOK
  PROVE  /\ Count \in 0..PIPESIZE
         /\ Count = IF nwrite >= nread THEN nwrite - nread ELSE nwrite - nread + UINT
         /\ Full <=> Count = PIPESIZE
         /\ Empty <=> Count = 0
<1>1. /\ PIPESIZE \in Nat \ {0} /\ UINT \in Nat \ {0} /\ UINT > PIPESIZE
      /\ nread \in 0..(UINT - 1) /\ nwrite \in 0..(UINT - 1)
  BY PipeAssumption DEF TypeOK
<1>2. Count = IF nwrite >= nread THEN nwrite - nread ELSE nwrite - nread + UINT
  BY Distance DEF Count, TypeOK
<1>3. (nread + PIPESIZE) % UINT =
        IF nread + PIPESIZE < UINT THEN nread + PIPESIZE ELSE nread + PIPESIZE - UINT
  <2> DEFINE a == nread + PIPESIZE
  <2>1. a \in Int
    BY <1>1
  <2>2. /\ a \in 0..(UINT - 1) => a % UINT = a
        /\ UINT <= a /\ a < 2 * UINT => a % UINT = a - UINT
    BY <1>1, <2>1, Remainder, Zenon
  <2> QED
    BY <1>1, <2>2
<1> QED
  BY <1>1, <1>2, <1>3 DEF CountOK, Full, Empty

\* A counter one further, and the ring index of the byte k places on.
LEMMA NextCounter ==
  ASSUME NEW c \in 0..(UINT - 1), NEW k \in Int
  PROVE  /\ (c + 1) % UINT = IF c + 1 < UINT THEN c + 1 ELSE 0
         /\ (c + 1) % UINT \in 0..(UINT - 1)
         /\ (((c + 1) % UINT) + k) % PIPESIZE = (c + 1 + k) % PIPESIZE
<1>1. /\ PIPESIZE \in Nat \ {0} /\ UINT \in Nat \ {0} /\ UINT > PIPESIZE
      /\ UINT % PIPESIZE = 0
  BY PipeAssumption
<1>2. (c + 1) % UINT = IF c + 1 < UINT THEN c + 1 ELSE 0
  <2> DEFINE a == c + 1
  <2>1. a \in Int
    BY <1>1
  <2>2. /\ a \in 0..(UINT - 1) => a % UINT = a
        /\ UINT <= a /\ a < 2 * UINT => a % UINT = a - UINT
    BY <1>1, <2>1, Remainder, Zenon
  <2> QED
    BY <1>1, <2>2
<1>3. CASE c + 1 < UINT
  BY <1>1, <1>2, <1>3
<1>4. CASE c + 1 = UINT
  <2> DEFINE a == c + 1 + k
  <2>0. a \in Int /\ UINT \in Nat
    BY <1>1
  <2>1. (a - UINT) % PIPESIZE = a % PIPESIZE
    BY <1>1, <2>0, WrapKeepsIndex, Zenon
  <2>2. a - UINT = 0 + k
    BY <1>1, <1>4
  <2> QED
    BY <1>1, <1>2, <1>4, <2>1, <2>2
<1> QED
  BY <1>1, <1>3, <1>4

\* A new pipe is empty.
LEMMA CountEmpty ==
  ASSUME nread' = 0, nwrite' = 0 PROVE Count' = 0 /\ Count' <= PIPESIZE
<1>1. 0 \in 0..(UINT - 1) /\ PIPESIZE \in Nat
  BY PipeAssumption
<1>2. (0 - 0) % UINT = 0
  BY <1>1, Distance
<1> QED
  BY <1>1, <1>2 DEF Count

\* A byte written makes one more.
LEMMA CountAdds ==
  ASSUME TypeOK, CountOK, ~Full, nwrite' = (nwrite + 1) % UINT, nread' = nread
  PROVE  Count' = Count + 1 /\ Count' <= PIPESIZE
<1>1. nwrite \in 0..(UINT - 1) /\ nread \in 0..(UINT - 1)
  BY DEF TypeOK
<1>2. /\ nwrite' = IF nwrite + 1 < UINT THEN nwrite + 1 ELSE 0
      /\ nwrite' \in 0..(UINT - 1)
  BY <1>1, NextCounter
<1>3. Count' = IF nwrite' >= nread' THEN nwrite' - nread' ELSE nwrite' - nread' + UINT
  BY <1>1, <1>2, Distance DEF Count
<1>4. UINT \in Nat /\ PIPESIZE \in Nat /\ UINT > PIPESIZE
  BY PipeAssumption
<1> QED
  BY <1>1, <1>2, <1>3, <1>4, CountFacts

\* A byte read leaves one less.
LEMMA CountTakes ==
  ASSUME TypeOK, CountOK, ~Empty, nread' = (nread + 1) % UINT, nwrite' = nwrite
  PROVE  Count' = Count - 1 /\ Count' <= PIPESIZE
<1>1. nwrite \in 0..(UINT - 1) /\ nread \in 0..(UINT - 1)
  BY DEF TypeOK
<1>2. /\ nread' = IF nread + 1 < UINT THEN nread + 1 ELSE 0
      /\ nread' \in 0..(UINT - 1)
  BY <1>1, NextCounter
<1>3. Count' = IF nwrite' >= nread' THEN nwrite' - nread' ELSE nwrite' - nread' + UINT
  BY <1>1, <1>2, Distance DEF Count
<1>4. UINT \in Nat /\ PIPESIZE \in Nat /\ UINT > PIPESIZE
  BY PipeAssumption
<1> QED
  BY <1>1, <1>2, <1>3, <1>4, CountFacts

-----------------------------------------------------------------------------
(* Every step keeps the invariant *)

\* The lock is held by the process at a label of the critical section.
LEMMA LockStep ==
  ASSUME IInv, NEW q \in Procs, NEW p \in Procs, Kernel(p) \/ User(p)
  PROVE  (lock = q <=> pc[q] \in Critical)'
<1> USE PipeAssumption DEF IInv, TypeOK, LockOK, Labels, Critical
<1>1. CASE Acquire(p)
  BY <1>1 DEF Acquire, pipeVars, Goto
<1>2. CASE Sleep(p)
  BY <1>2 DEF Sleep, pipeVars, Goto
<1>3. CASE WriteByte(p)
  BY <1>3 DEF WriteByte, pipeVars, Holds
<1>4. CASE WriteFail(p)
  BY <1>4 DEF WriteFail, pipeVars, Holds, Goto
<1>5. CASE WriteBlock(p)
  BY <1>5 DEF WriteBlock, pipeVars, Holds, WakeReaders, WakeupGoto
<1>6. CASE WriteEnd(p)
  BY <1>6 DEF WriteEnd, pipeVars, Holds, WakeReaders, WakeupGoto
<1>7. CASE ReadFail(p)
  BY <1>7 DEF ReadFail, pipeVars, Holds, Goto
<1>8. CASE ReadBlock(p)
  BY <1>8 DEF ReadBlock, pipeVars, Holds, Goto
<1>9. CASE ReadGo(p)
  BY <1>9 DEF ReadGo, pipeVars, Holds, Goto
<1>10. CASE ReadByte(p)
  BY <1>10 DEF ReadByte, pipeVars, Holds
<1>11. CASE ReadEnd(p)
  BY <1>11 DEF ReadEnd, pipeVars, Holds, WakeWriters, WakeupGoto
<1>12. CASE PipeClose(p)
  BY <1>12 DEF PipeClose, pipeVars, CloseLabel, WakeReaders, WakeWriters, WakeupGoto
<1>13. CASE WriteCall(p)
  BY <1>13 DEF WriteCall, pipeVars, Goto
<1>14. CASE ReadCall(p)
  BY <1>14 DEF ReadCall, pipeVars, Goto
<1>15. CASE Fork(p)
  BY <1>15 DEF Fork, pipeVars, Goto
<1>16. CASE Close(p)
  BY <1>16 DEF Close, pipeVars, Goto, CloseLabel
<1>17. CASE Exit(p)
  BY <1>17 DEF Exit, pipeVars, Goto
<1>18. CASE Kill(p)
  BY <1>18 DEF Kill, pipeVars
<1>19. CASE PipeAlloc(p)
  BY <1>19 DEF PipeAlloc, pipeVars
<1>20. CASE PipeAllocFails(p)
  BY <1>20 DEF PipeAllocFails, pipeVars
<1> QED
  BY <1>1, <1>2, <1>3, <1>4, <1>5, <1>6, <1>7, <1>8, <1>9, <1>10, <1>11, <1>12, <1>13, <1>14, <1>15, <1>16, <1>17, <1>18, <1>19, <1>20 DEF Kernel, User


\* Calls are made through ends the process holds and keeps.
LEMMA HeldStep ==
  ASSUME IInv, NEW p \in Procs, Kernel(p) \/ User(p)
  PROVE  HeldOK'
<1> USE DEF IInv, TypeOK, HeldOK, Labels, Writing, Reading, Ends
<1>1. CASE Acquire(p)
  BY <1>1 DEF Acquire, pipeVars, Goto
<1>2. CASE Sleep(p)
  BY <1>2 DEF Sleep, pipeVars, Goto
<1>3. CASE WriteByte(p)
  BY <1>3 DEF WriteByte, pipeVars, Holds
<1>4. CASE WriteFail(p)
  BY <1>4 DEF WriteFail, pipeVars, Holds, Goto
<1>5. CASE WriteBlock(p)
  BY <1>5 DEF WriteBlock, pipeVars, Holds, WakeReaders, WakeupGoto
<1>6. CASE WriteEnd(p)
  BY <1>6 DEF WriteEnd, pipeVars, Holds, WakeReaders, WakeupGoto
<1>7. CASE ReadFail(p)
  BY <1>7 DEF ReadFail, pipeVars, Holds, Goto
<1>8. CASE ReadBlock(p)
  BY <1>8 DEF ReadBlock, pipeVars, Holds, Goto
<1>9. CASE ReadGo(p)
  BY <1>9 DEF ReadGo, pipeVars, Holds, Goto
<1>10. CASE ReadByte(p)
  BY <1>10 DEF ReadByte, pipeVars, Holds
<1>11. CASE ReadEnd(p)
  BY <1>11 DEF ReadEnd, pipeVars, Holds, WakeWriters, WakeupGoto
<1>12. CASE PipeClose(p)
  BY <1>12 DEF PipeClose, pipeVars, CloseLabel, WakeReaders, WakeWriters, WakeupGoto
<1>13. CASE WriteCall(p)
  BY <1>13 DEF WriteCall, pipeVars, Goto
<1>14. CASE ReadCall(p)
  BY <1>14 DEF ReadCall, pipeVars, Goto
<1>15. CASE Fork(p)
  BY <1>15 DEF Fork, pipeVars, Goto
<1>16. CASE Close(p)
  BY <1>16 DEF Close, pipeVars, Goto, CloseLabel
<1>17. CASE Exit(p)
  BY <1>17 DEF Exit, pipeVars, Goto
<1>18. CASE Kill(p)
  BY <1>18 DEF Kill, pipeVars
<1>19. CASE PipeAlloc(p)
  BY <1>19 DEF PipeAlloc, pipeVars
<1>20. CASE PipeAllocFails(p)
  BY <1>20 DEF PipeAllocFails, pipeVars
<1> QED
  BY <1>1, <1>2, <1>3, <1>4, <1>5, <1>6, <1>7, <1>8, <1>9, <1>10, <1>11, <1>12, <1>13, <1>14, <1>15, <1>16, <1>17, <1>18, <1>19, <1>20 DEF Kernel, User


\* A set of processes is finite.
LEMMA HoldersFinite ==
  ASSUME NEW e PROVE IsFiniteSet(Holders(e))
<1>1. Holders(e) \subseteq Procs
  BY DEF Holders
<1> QED
  BY <1>1, FS_Subset, PipeAssumption

\* Every reference is counted: fork adds one for each end the child inherits, and
\* close takes one away.
LEMMA RefStep ==
  ASSUME IInv, NEW e \in Ends, NEW p \in Procs, Kernel(p) \/ User(p)
  PROVE  (ref[e] = Cardinality(Holders(e)))'
<1> USE DEF IInv, TypeOK, RefOK
<1>1. CASE Acquire(p)
  BY <1>1 DEF Acquire, pipeVars, Goto, Holders
<1>2. CASE Sleep(p)
  BY <1>2 DEF Sleep, pipeVars, Goto, Holders
<1>3. CASE WriteByte(p)
  BY <1>3 DEF WriteByte, pipeVars, Holds, Holders
<1>4. CASE WriteFail(p)
  BY <1>4 DEF WriteFail, pipeVars, Holds, Goto, Holders
<1>5. CASE WriteBlock(p)
  BY <1>5 DEF WriteBlock, pipeVars, Holds, WakeReaders, WakeupGoto, Holders
<1>6. CASE WriteEnd(p)
  BY <1>6 DEF WriteEnd, pipeVars, Holds, WakeReaders, WakeupGoto, Holders
<1>7. CASE ReadFail(p)
  BY <1>7 DEF ReadFail, pipeVars, Holds, Goto, Holders
<1>8. CASE ReadBlock(p)
  BY <1>8 DEF ReadBlock, pipeVars, Holds, Goto, Holders
<1>9. CASE ReadGo(p)
  BY <1>9 DEF ReadGo, pipeVars, Holds, Goto, Holders
<1>10. CASE ReadByte(p)
  BY <1>10 DEF ReadByte, pipeVars, Holds, Holders
<1>11. CASE ReadEnd(p)
  BY <1>11 DEF ReadEnd, pipeVars, Holds, WakeWriters, WakeupGoto, Holders
<1>12. CASE PipeClose(p)
  BY <1>12 DEF PipeClose, pipeVars, CloseLabel, WakeReaders, WakeWriters, WakeupGoto, Holders
<1>13. CASE WriteCall(p)
  BY <1>13 DEF WriteCall, pipeVars, Goto, Holders
<1>14. CASE ReadCall(p)
  BY <1>14 DEF ReadCall, pipeVars, Goto, Holders
<1>15. CASE Fork(p)
  <2>1. PICK c \in Procs :
          /\ pc[c] = "unborn"
          /\ fds' = [fds EXCEPT ![c] = fds[p]]
          /\ ref' = [f \in Ends |-> IF f \in fds[p] THEN ref[f] + 1 ELSE ref[f]]
    BY <1>15 DEF Fork
  <2>2. fds[c] = {}
    BY <2>1 DEF HeldOK
  <2>3. CASE e \in fds[p]
    <3>1. Holders(e)' = Holders(e) \cup {c} /\ c \notin Holders(e)
      BY <2>1, <2>2, <2>3 DEF Holders
    <3>2. Cardinality(Holders(e)') = Cardinality(Holders(e)) + 1
      BY <3>1, HoldersFinite, FS_AddElement
    <3> QED
      BY <2>1, <2>3, <3>2
  <2>4. CASE e \notin fds[p]
    <3>1. Holders(e)' = Holders(e)
      BY <2>1, <2>2, <2>4 DEF Holders
    <3> QED
      BY <2>1, <2>4, <3>1
  <2> QED
    BY <2>3, <2>4
<1>16. CASE Close(p)
  <2>1. PICK f \in fds[p] :
          /\ fds' = [fds EXCEPT ![p] = @ \ {f}]
          /\ ref' = [ref EXCEPT ![f] = @ - 1]
    BY <1>16 DEF Close
  <2>2. CASE e = f
    <3>1. Holders(e)' = Holders(e) \ {p} /\ p \in Holders(e)
      BY <2>1, <2>2 DEF Holders
    <3>2. Cardinality(Holders(e)') = Cardinality(Holders(e)) - 1
      BY <3>1, HoldersFinite, FS_RemoveElement
    <3> QED
      BY <2>1, <2>2, <3>2
  <2>3. CASE e # f
    <3>1. Holders(e)' = Holders(e)
      BY <2>1, <2>3 DEF Holders
    <3> QED
      BY <2>1, <2>3, <3>1
  <2> QED
    BY <2>2, <2>3
<1>17. CASE Exit(p)
  BY <1>17 DEF Exit, pipeVars, Goto, Holders
<1>18. CASE Kill(p)
  BY <1>18 DEF Kill, pipeVars, Holders
<1>19. CASE PipeAlloc(p)
  <2>1. /\ freed
        /\ ref' = [x \in Ends |-> 1]
        /\ fds' = [fds EXCEPT ![p] = Ends]
    BY <1>19 DEF PipeAlloc
  <2>2. Holders(e)' = {p}
    BY <2>1 DEF Holders, OpenOK
  <2> QED
    BY <2>1, <2>2, FS_Singleton
<1>20. CASE PipeAllocFails(p)
  BY <1>20 DEF PipeAllocFails, pipeVars, Holders
<1> QED
  BY <1>1, <1>2, <1>3, <1>4, <1>5, <1>6, <1>7, <1>8, <1>9, <1>10, <1>11, <1>12, <1>13, <1>14, <1>15, <1>16, <1>17, <1>18, <1>19, <1>20 DEF Kernel, User


\* An end stays open until the last of its holders closes it, and is closed once.
LEMMA OpenStep ==
  ASSUME IInv, NEW p \in Procs, Kernel(p) \/ User(p)
  PROVE  OpenOK'
<1> USE DEF IInv, TypeOK, OpenOK, HeldOK, Labels, Ends
<1>1. CASE Acquire(p)
  BY <1>1 DEF Acquire, pipeVars, Goto, CloseLabel
<1>2. CASE Sleep(p)
  BY <1>2 DEF Sleep, pipeVars, Goto, CloseLabel
<1>3. CASE WriteByte(p)
  BY <1>3 DEF WriteByte, pipeVars, Holds, CloseLabel
<1>4. CASE WriteFail(p)
  BY <1>4 DEF WriteFail, pipeVars, Holds, Goto, CloseLabel
<1>5. CASE WriteBlock(p)
  BY <1>5 DEF WriteBlock, pipeVars, Holds, WakeReaders, WakeupGoto, CloseLabel
<1>6. CASE WriteEnd(p)
  BY <1>6 DEF WriteEnd, pipeVars, Holds, WakeReaders, WakeupGoto, CloseLabel
<1>7. CASE ReadFail(p)
  BY <1>7 DEF ReadFail, pipeVars, Holds, Goto, CloseLabel
<1>8. CASE ReadBlock(p)
  BY <1>8 DEF ReadBlock, pipeVars, Holds, Goto, CloseLabel
<1>9. CASE ReadGo(p)
  BY <1>9 DEF ReadGo, pipeVars, Holds, Goto, CloseLabel
<1>10. CASE ReadByte(p)
  BY <1>10 DEF ReadByte, pipeVars, Holds, CloseLabel
<1>11. CASE ReadEnd(p)
  BY <1>11 DEF ReadEnd, pipeVars, Holds, WakeWriters, WakeupGoto, CloseLabel
<1>12. CASE PipeClose(p)
  <2>1. PICK e \in Ends :
          /\ pc[p] = CloseLabel(e)
          /\ open' = open \ {e}
          /\ pc' = [q \in Procs |->
               IF q = p THEN "user"
               ELSE IF e = "w" THEN IF pc[q] = "read_asleep" THEN "read_lock" ELSE pc[q]
               ELSE IF pc[q] = "write_asleep" THEN "write_lock" ELSE pc[q]]
    BY <1>12 DEF PipeClose, WakeReaders, WakeWriters, WakeupGoto
  <2>2. /\ fds' = fds /\ freed' = (freed \/ open' = {})
    BY <1>12 DEF PipeClose
  <2>3. \A q \in Procs : e \notin fds[q] /\ (pc[q] = CloseLabel(e) => q = p)
    BY <2>1
  <2>4. \A q \in Procs, f \in Ends : pc'[q] = CloseLabel(f) =>
          q # p /\ pc[q] = CloseLabel(f) /\ f # e
    BY <2>1, <2>3 DEF CloseLabel
  <2>5. freed' <=> open' = {}
    BY <2>1, <2>2
  <2>6. \A q \in Procs : fds'[q] \subseteq open'
    BY <2>1, <2>2, <2>3
  <2>7. \A q \in Procs, f \in Ends : pc'[q] = CloseLabel(f) =>
          /\ f \in open'
          /\ \A r \in Procs : f \notin fds'[r] /\ (pc'[r] = CloseLabel(f) => r = q)
    BY <2>1, <2>2, <2>4
  <2> HIDE DEF IInv, TypeOK, HeldOK
  <2> QED
    BY <2>5, <2>6, <2>7
<1>13. CASE WriteCall(p)
  BY <1>13 DEF WriteCall, pipeVars, Goto, CloseLabel
<1>14. CASE ReadCall(p)
  BY <1>14 DEF ReadCall, pipeVars, Goto, CloseLabel
<1>15. CASE Fork(p)
  BY <1>15 DEF Fork, pipeVars, Goto, CloseLabel
<1>16. CASE Close(p)
  <2>1. PICK f \in fds[p] :
          /\ fds' = [fds EXCEPT ![p] = @ \ {f}]
          /\ pc' = IF ref[f] = 1 THEN [pc EXCEPT ![p] = CloseLabel(f)] ELSE pc
    BY <1>16 DEF Close, Goto
  <2>2. f \in Ends /\ f \in open /\ open' = open /\ freed' = freed
    BY <2>1, <1>16 DEF Close, pipeVars
  <2>3. ref[f] = 1 => \A q \in Procs : f \in fds[q] => q = p
    <3> SUFFICES ASSUME ref[f] = 1, NEW q \in Procs, f \in fds[q] PROVE q = p
      OBVIOUS
    <3>1. PICK x : Holders(f) = {x}
      BY <2>2, HoldersFinite, FS_Singleton DEF RefOK
    <3> QED
      BY <2>1, <3>1 DEF Holders
  <2>4. CASE ref[f] = 1
    BY <2>1, <2>2, <2>3, <2>4 DEF CloseLabel
  <2>5. CASE ref[f] # 1
    BY <2>1, <2>2, <2>5 DEF CloseLabel
  <2> QED
    BY <2>4, <2>5
<1>17. CASE Exit(p)
  BY <1>17 DEF Exit, pipeVars, Goto, CloseLabel
<1>18. CASE Kill(p)
  BY <1>18 DEF Kill, pipeVars, CloseLabel
<1>19. CASE PipeAlloc(p)
  BY <1>19 DEF PipeAlloc, pipeVars, CloseLabel
<1>20. CASE PipeAllocFails(p)
  BY <1>20 DEF PipeAllocFails, pipeVars, CloseLabel
<1> QED
  BY <1>1, <1>2, <1>3, <1>4, <1>5, <1>6, <1>7, <1>8, <1>9, <1>10, <1>11, <1>12, <1>13, <1>14, <1>15, <1>16, <1>17, <1>18, <1>19, <1>20 DEF Kernel, User


\* Whoever makes the condition of a sleeper true wakes it before it lets go of the
\* lock, or was killed.
LEMMA SleepStep ==
  ASSUME IInv, NEW p \in Procs, Kernel(p) \/ User(p)
  PROVE  SleepOK'
<1> USE DEF IInv, TypeOK, SleepOK, LockOK, HeldOK, OpenOK, Labels, Ends, Critical, Writing, Reading
<1>1. CASE Acquire(p)
  BY <1>1 DEF Acquire, pipeVars, Goto, Full, Empty, CloseLabel
<1>2. CASE Sleep(p)
  BY <1>2 DEF Sleep, pipeVars, Goto, Full, Empty, CloseLabel
<1>3. CASE WriteByte(p)
  BY <1>3 DEF WriteByte, pipeVars, Holds, Full, Empty, CloseLabel
<1>4. CASE WriteFail(p)
  BY <1>4 DEF WriteFail, pipeVars, Holds, Goto, Full, Empty, CloseLabel
<1>5. CASE WriteBlock(p)
  BY <1>5 DEF WriteBlock, pipeVars, Holds, WakeReaders, WakeupGoto, Full, Empty, CloseLabel
<1>6. CASE WriteEnd(p)
  BY <1>6 DEF WriteEnd, pipeVars, Holds, WakeReaders, WakeupGoto, Full, Empty, CloseLabel
<1>7. CASE ReadFail(p)
  BY <1>7 DEF ReadFail, pipeVars, Holds, Goto, Full, Empty, CloseLabel
<1>8. CASE ReadBlock(p)
  BY <1>8 DEF ReadBlock, pipeVars, Holds, Goto, Full, Empty, CloseLabel
<1>9. CASE ReadGo(p)
  BY <1>9 DEF ReadGo, pipeVars, Holds, Goto, Full, Empty, CloseLabel
<1>10. CASE ReadByte(p)
  BY <1>10 DEF ReadByte, pipeVars, Holds, Full, Empty, CloseLabel
<1>11. CASE ReadEnd(p)
  BY <1>11 DEF ReadEnd, pipeVars, Holds, WakeWriters, WakeupGoto, Full, Empty, CloseLabel
<1>12. CASE PipeClose(p)
  <2>1. PICK e \in Ends :
          /\ pc[p] = CloseLabel(e)
          /\ open' = open \ {e}
          /\ pc' = [q \in Procs |->
               IF q = p THEN "user"
               ELSE IF e = "w" THEN IF pc[q] = "read_asleep" THEN "read_lock" ELSE pc[q]
               ELSE IF pc[q] = "write_asleep" THEN "write_lock" ELSE pc[q]]
    BY <1>12 DEF PipeClose, WakeReaders, WakeWriters, WakeupGoto
  <2>2. UNCHANGED <<nread, nwrite, killed, lock>>
    BY <1>12 DEF PipeClose
  <2>3. ~\E q \in Procs : pc[q] \in Critical
    BY <1>12, PipeAssumption DEF PipeClose
  <2>4. SUFFICES ASSUME NEW q \in Procs, pc'[q] \in {"write_asleep", "read_asleep"}
                 PROVE  /\ pc'[q] = "write_asleep" => Full' /\ "r" \in open'
                        /\ pc'[q] = "read_asleep" =>
                             "w" \in open' /\ (Empty' \/ \E r \in Procs : killed'[r])
    BY <2>1, <2>3
  <2>5. pc[q] = pc'[q] /\ (e = "w" => pc[q] # "read_asleep")
                       /\ (e = "r" => pc[q] # "write_asleep")
    BY <2>1, <2>4
  <2> QED
    BY <2>1, <2>2, <2>3, <2>4, <2>5 DEF Full, Empty
<1>13. CASE WriteCall(p)
  BY <1>13 DEF WriteCall, pipeVars, Goto, Full, Empty, CloseLabel
<1>14. CASE ReadCall(p)
  BY <1>14 DEF ReadCall, pipeVars, Goto, Full, Empty, CloseLabel
<1>15. CASE Fork(p)
  BY <1>15 DEF Fork, pipeVars, Goto, Full, Empty, CloseLabel
<1>16. CASE Close(p)
  BY <1>16 DEF Close, pipeVars, Goto, CloseLabel, Full, Empty, CloseLabel
<1>17. CASE Exit(p)
  BY <1>17 DEF Exit, pipeVars, Goto, Full, Empty, CloseLabel
<1>18. CASE Kill(p)
  BY <1>18 DEF Kill, pipeVars, Full, Empty, CloseLabel
<1>19. CASE PipeAlloc(p)
  BY <1>19 DEF PipeAlloc, pipeVars, Full, Empty, CloseLabel
<1>20. CASE PipeAllocFails(p)
  BY <1>20 DEF PipeAllocFails, pipeVars, Full, Empty, CloseLabel
<1> QED
  BY <1>1, <1>2, <1>3, <1>4, <1>5, <1>6, <1>7, <1>8, <1>9, <1>10, <1>11, <1>12, <1>13, <1>14, <1>15, <1>16, <1>17, <1>18, <1>19, <1>20 DEF Kernel, User


\* A count to write is a number.
LEMMA MaxCountNat == MaxCount \in Nat /\ 0 \in 0..MaxCount
BY PipeAssumption

\* The counters wrap, and no reference is dropped that was not taken.
LEMMA TypeStep ==
  ASSUME IInv, NEW p \in Procs, Kernel(p) \/ User(p)
  PROVE  TypeOK'
<1> USE MaxCountNat DEF IInv, TypeOK, Labels, Ends
<1>1. CASE Acquire(p)
  BY <1>1 DEF Acquire, pipeVars, Goto
<1>2. CASE Sleep(p)
  BY <1>2 DEF Sleep, pipeVars, Goto
<1>3. CASE WriteByte(p)
  <2>1. (nwrite + 1) % UINT \in 0..(UINT - 1)
    BY NextCounter
  <2>2. PICK b \in Sent(nwrite) : data' = [data EXCEPT ![nwrite % PIPESIZE] = b]
    BY <1>3 DEF WriteByte
  <2>3. b \in Bytes
    BY PipeAssumption
  <2>4. data' \in [0..(PIPESIZE - 1) -> Bytes]
    BY <2>2, <2>3
  <2>5. left' \in [Procs -> 0..MaxCount]
    BY <1>3 DEF WriteByte
  <2> QED
    BY <1>3, <2>1, <2>4, <2>5 DEF WriteByte
<1>4. CASE WriteFail(p)
  BY <1>4 DEF WriteFail, pipeVars, Holds, Goto
<1>5. CASE WriteBlock(p)
  BY <1>5 DEF WriteBlock, pipeVars, Holds, WakeReaders, WakeupGoto
<1>6. CASE WriteEnd(p)
  BY <1>6 DEF WriteEnd, pipeVars, Holds, WakeReaders, WakeupGoto
<1>7. CASE ReadFail(p)
  BY <1>7 DEF ReadFail, pipeVars, Holds, Goto
<1>8. CASE ReadBlock(p)
  BY <1>8 DEF ReadBlock, pipeVars, Holds, Goto
<1>9. CASE ReadGo(p)
  BY <1>9 DEF ReadGo, pipeVars, Holds, Goto
<1>10. CASE ReadByte(p)
  <2>1. (nread + 1) % UINT \in 0..(UINT - 1)
    BY NextCounter
  <2>2. nread % PIPESIZE \in 0..(PIPESIZE - 1)
    BY Remainder, PipeAssumption
  <2> QED
    BY <1>10, <2>1, <2>2 DEF ReadByte, Holds
<1>11. CASE ReadEnd(p)
  BY <1>11 DEF ReadEnd, pipeVars, Holds, WakeWriters, WakeupGoto
<1>12. CASE PipeClose(p)
  BY <1>12 DEF PipeClose, pipeVars, CloseLabel, WakeReaders, WakeWriters, WakeupGoto
<1>13. CASE WriteCall(p)
  BY <1>13 DEF WriteCall, pipeVars, Goto
<1>14. CASE ReadCall(p)
  BY <1>14 DEF ReadCall, pipeVars, Goto
<1>15. CASE Fork(p)
  BY <1>15 DEF Fork, pipeVars, Goto
<1>16. CASE Close(p)
  <2>1. PICK f \in fds[p] : ref' = [ref EXCEPT ![f] = @ - 1]
    BY <1>16 DEF Close
  <2>2. ref[f] # 0
    <3>1. f \in Ends /\ p \in Holders(f)
      BY <2>1 DEF Holders
    <3> QED
      BY <3>1, HoldersFinite, FS_EmptySet DEF RefOK
  <2>3. ref' \in [Ends -> Nat]
    BY <2>1, <2>2
  <2> QED
    BY <1>16, <2>3 DEF Close, pipeVars, Goto, CloseLabel
<1>17. CASE Exit(p)
  BY <1>17 DEF Exit, pipeVars, Goto
<1>18. CASE Kill(p)
  BY <1>18 DEF Kill, pipeVars
<1>19. CASE PipeAlloc(p)
  <2>1. 0 \in 0..(UINT - 1)
    BY PipeAssumption
  <2> QED
    BY <1>19, <2>1 DEF PipeAlloc
<1>20. CASE PipeAllocFails(p)
  <2>1. 0 \in 0..(UINT - 1)
    BY PipeAssumption
  <2> QED
    BY <1>20, <2>1 DEF PipeAllocFails
<1> QED
  BY <1>1, <1>2, <1>3, <1>4, <1>5, <1>6, <1>7, <1>8, <1>9, <1>10, <1>11, <1>12, <1>13, <1>14, <1>15, <1>16, <1>17, <1>18, <1>19, <1>20 DEF Kernel, User


\* The ring never holds more than its size.
LEMMA CountStep ==
  ASSUME IInv, NEW p \in Procs, Kernel(p) \/ User(p)
  PROVE  CountOK'
<1> USE DEF IInv, CountOK, Count
<1>1. CASE Acquire(p)
  BY <1>1 DEF Acquire, pipeVars, Goto
<1>2. CASE Sleep(p)
  BY <1>2 DEF Sleep, pipeVars, Goto
<1>3. CASE WriteByte(p)
  <2>1. nwrite' = (nwrite + 1) % UINT /\ nread' = nread /\ ~Full
    BY <1>3 DEF WriteByte
  <2> QED
    BY <2>1, CountAdds DEF CountOK
<1>4. CASE WriteFail(p)
  BY <1>4 DEF WriteFail, pipeVars, Holds, Goto
<1>5. CASE WriteBlock(p)
  BY <1>5 DEF WriteBlock, pipeVars, Holds, WakeReaders, WakeupGoto
<1>6. CASE WriteEnd(p)
  BY <1>6 DEF WriteEnd, pipeVars, Holds, WakeReaders, WakeupGoto
<1>7. CASE ReadFail(p)
  BY <1>7 DEF ReadFail, pipeVars, Holds, Goto
<1>8. CASE ReadBlock(p)
  BY <1>8 DEF ReadBlock, pipeVars, Holds, Goto
<1>9. CASE ReadGo(p)
  BY <1>9 DEF ReadGo, pipeVars, Holds, Goto
<1>10. CASE ReadByte(p)
  <2>1. nread' = (nread + 1) % UINT /\ nwrite' = nwrite /\ ~Empty
    BY <1>10 DEF ReadByte
  <2> QED
    BY <2>1, CountTakes, CountFacts DEF CountOK
<1>11. CASE ReadEnd(p)
  BY <1>11 DEF ReadEnd, pipeVars, Holds, WakeWriters, WakeupGoto
<1>12. CASE PipeClose(p)
  BY <1>12 DEF PipeClose, pipeVars, CloseLabel, WakeReaders, WakeWriters, WakeupGoto
<1>13. CASE WriteCall(p)
  BY <1>13 DEF WriteCall, pipeVars, Goto
<1>14. CASE ReadCall(p)
  BY <1>14 DEF ReadCall, pipeVars, Goto
<1>15. CASE Fork(p)
  BY <1>15 DEF Fork, pipeVars, Goto
<1>16. CASE Close(p)
  BY <1>16 DEF Close, pipeVars, Goto, CloseLabel
<1>17. CASE Exit(p)
  BY <1>17 DEF Exit, pipeVars, Goto
<1>18. CASE Kill(p)
  BY <1>18 DEF Kill, pipeVars
<1>19. CASE PipeAlloc(p)
  <2>1. nread' = 0 /\ nwrite' = 0
    BY <1>19 DEF PipeAlloc
  <2> QED
    BY <2>1, CountEmpty DEF CountOK
<1>20. CASE PipeAllocFails(p)
  <2>1. CASE UNCHANGED <<nread, nwrite>>
    BY <1>20, <2>1 DEF PipeAllocFails
  <2>2. CASE nread' = 0 /\ nwrite' = 0
    BY <2>2, CountEmpty DEF CountOK
  <2> QED
    BY <1>20, <2>1, <2>2 DEF PipeAllocFails
<1> QED
  BY <1>1, <1>2, <1>3, <1>4, <1>5, <1>6, <1>7, <1>8, <1>9, <1>10, <1>11, <1>12, <1>13, <1>14, <1>15, <1>16, <1>17, <1>18, <1>19, <1>20 DEF Kernel, User


-----------------------------------------------------------------------------
(* The invariant and the two safety properties *)

\* Init satisfies the inductive invariant.
LEMMA InitInv == Init => IInv
<1> SUFFICES ASSUME Init PROVE IInv
  OBVIOUS
<1>1. /\ PIPESIZE \in Nat /\ 0 \in 0..(UINT - 1) /\ 0 \in 0..MaxCount
      /\ Root \in Procs /\ Nobody \notin Procs
  BY PipeAssumption
<1>2. TypeOK
  BY <1>1 DEF Init, TypeOK, Labels, Ends
<1>3. LockOK
  BY <1>1 DEF Init, LockOK, Critical
<1>4. HeldOK
  BY DEF Init, HeldOK, Writing, Reading
<1>5. RefOK
  <2>1. ASSUME NEW e \in Ends PROVE Holders(e) = {Root}
    BY <1>1 DEF Init, Holders, Ends
  <2> QED
    BY <2>1, FS_Singleton DEF Init, RefOK
<1>6. OpenOK
  BY DEF Init, OpenOK, CloseLabel, Ends
<1>7. SleepOK
  BY DEF Init, SleepOK
<1>8. CountOK
  <2>1. (0 - 0) % UINT = 0
    BY <1>1, Distance
  <2> QED
    BY <1>1, <2>1 DEF Init, CountOK, Count
<1> QED
  BY <1>2, <1>3, <1>4, <1>5, <1>6, <1>7, <1>8 DEF IInv

\* Every step keeps the inductive invariant.
LEMMA NextInv == IInv /\ [Next]_vars => IInv'
<1> SUFFICES ASSUME IInv, [Next]_vars PROVE IInv'
  OBVIOUS
<1>1. ASSUME NEW p \in Procs, Kernel(p) \/ User(p)
      PROVE  IInv'
  <2>1. TypeOK'
    BY <1>1, TypeStep
  <2>2. LockOK'
    BY <1>1, LockStep DEF LockOK
  <2>3. HeldOK'
    BY <1>1, HeldStep
  <2>4. RefOK'
    BY <1>1, RefStep DEF RefOK
  <2>5. OpenOK'
    BY <1>1, OpenStep
  <2>6. SleepOK'
    BY <1>1, SleepStep
  <2>7. CountOK'
    BY <1>1, CountStep
  <2> QED
    BY <2>1, <2>2, <2>3, <2>4, <2>5, <2>6, <2>7 DEF IInv
<1>2. CASE UNCHANGED vars
  BY <1>2 DEF IInv, TypeOK, LockOK, HeldOK, RefOK, Holders, OpenOK, SleepOK, Full,
              Empty, CountOK, Count, vars, pipeVars
<1> QED
  BY <1>1, <1>2 DEF Next

\* The inductive invariant holds in every reachable state.
THEOREM Invariance == Spec => []IInv
BY InitInv, NextInv, PTL DEF Spec

\* The pipe and its users keep their types: the counters stay inside their
\* width, and no reference count goes below zero.
THEOREM TypeCorrect == Spec => []TypeOK
<1>1. IInv => TypeOK
  BY DEF IInv
<1> QED
  BY <1>1, Invariance, PTL

\* pipeclose frees the page only when nobody has an end of the pipe, is in a
\* read or a write of it, or is still to close it.
THEOREM FreedUnused == Spec => []NoUseAfterFree
<1>1. IInv => NoUseAfterFree
  BY DEF IInv, TypeOK, OpenOK, HeldOK, NoUseAfterFree, CloseLabel, Ends
<1> QED
  BY <1>1, Invariance, PTL

\* Whoever sleeps in piperead or pipewrite with the lock free still has reason
\* to, but for readers after a kill.
THEOREM WakeupsNotLost == Spec => []NoLostWakeup
<1>1. IInv => NoLostWakeup
  <2> SUFFICES ASSUME IInv, lock = Nobody, NEW p \in Procs
               PROVE  /\ pc[p] = "write_asleep" => Full /\ "r" \in open
                      /\ pc[p] = "read_asleep" =>
                           "w" \in open /\ (Empty \/ \E q \in Procs : killed[q])
    BY DEF NoLostWakeup
  <2>1. \A q \in Procs : pc[q] \notin Critical
    BY PipeAssumption DEF IInv, LockOK
  <2> QED
    BY <2>1 DEF IInv, SleepOK, Critical
<1> QED
  BY <1>1, Invariance, PTL

-----------------------------------------------------------------------------
(* A circular buffer *)

\* d is a buffer of n elements of S.
IsRing(d, n, S) == n \in Nat \ {0} /\ d \in [0..(n - 1) -> S]

\* The element at the index x, and c of them from the index r on.
Cell(d, n, x) == d[x % n]
Ring(d, n, r, c) == [k \in 1..c |-> Cell(d, n, r + k - 1)]

\* An index is inside the buffer.
LEMMA CellInside ==
  ASSUME NEW S, NEW n, NEW d, IsRing(d, n, S), NEW x \in Int
  PROVE  x % n \in 0..(n - 1) /\ Cell(d, n, x) \in S
<1>1. n \in Nat \ {0} /\ d \in [0..(n - 1) -> S]
  BY DEF IsRing
<1>2. x % n \in 0..(n - 1)
  BY <1>1, Remainder, Zenon
<1> QED
  BY <1>1, <1>2 DEF Cell

\* Those elements are a sequence.
LEMMA RingSeq ==
  ASSUME NEW S, NEW n, NEW d, IsRing(d, n, S), NEW r \in Int, NEW c \in Nat
  PROVE  Ring(d, n, r, c) \in Seq(S) /\ Len(Ring(d, n, r, c)) = c
<1>1. ASSUME NEW k \in 1..c PROVE Cell(d, n, r + k - 1) \in S
  <2>1. r + k - 1 \in Int
    OBVIOUS
  <2> QED
    BY <2>1, CellInside, Zenon
<1>2. Ring(d, n, r, c) \in [1..c -> S]
  BY <1>1 DEF Ring
<1>3. Ring(d, n, r, c) \in Seq(S)
  BY <1>2, SeqDef
<1> QED
  BY <1>2, <1>3

\* The buffer with b written at the index y.
Written(d, n, y, b) == [d EXCEPT ![y % n] = b]

\* What the write does.
LEMMA CellWritten ==
  ASSUME NEW S, NEW n, NEW d, IsRing(d, n, S), NEW y \in Int, NEW b \in S
  PROVE  /\ IsRing(Written(d, n, y, b), n, S)
         /\ Cell(Written(d, n, y, b), n, y) = b
         /\ \A x \in Int : x < y /\ y < x + n =>
              Cell(Written(d, n, y, b), n, x) = Cell(d, n, x)
<1>1. n \in Nat \ {0} /\ d \in [0..(n - 1) -> S] /\ y % n \in 0..(n - 1)
  BY CellInside DEF IsRing
<1>2. ASSUME NEW x \in Int, x < y, y < x + n PROVE x % n # y % n
  BY <1>1, <1>2, IndicesDiffer, Zenon
<1>3. ASSUME NEW x \in Int PROVE x % n \in 0..(n - 1)
  BY CellInside
<1> QED
  BY <1>1, <1>2, <1>3 DEF Cell, IsRing, Written

\* A write behind the c elements, less than a lap on, does not touch them.
LEMMA RingKeeps ==
  ASSUME NEW S, NEW n, NEW d, IsRing(d, n, S), NEW r \in Int,
         NEW c \in Nat, NEW m \in Nat, c <= m, m < n, NEW b \in S, NEW i, i = (r + m) % n
  PROVE  Ring([d EXCEPT ![i] = b], n, r, c) = Ring(d, n, r, c)
<1> DEFINE e == [d EXCEPT ![i] = b]
<1>0. n \in Nat
  BY DEF IsRing
<1>2. PICK y \in Int : y = r + m
  OBVIOUS
<1>3. \A x \in Int : x < y /\ y < x + n => Cell(Written(d, n, y, b), n, x) = Cell(d, n, x)
  BY CellWritten
<1>1. ASSUME NEW k \in 1..c
      PROVE  Cell(e, n, r + k - 1) = Cell(d, n, r + k - 1)
  <2> DEFINE x == r + k - 1
  <2>1. x \in Int /\ x < y /\ y < x + n
    BY <1>0, <1>2
  <2> HIDE DEF x
  <2>2. Cell(e, n, x) = Cell(d, n, x)
    BY <1>2, <1>3, <2>1 DEF Written
  <2> QED
    BY <2>2 DEF x
<1> QED
  BY <1>1 DEF Ring

\* Writing at the end of them appends, when they do not fill the buffer.
RingGrows(d, n, S) ==
  \A r \in Int, c \in Nat, b \in S : \A i :
    c < n /\ i = (r + c) % n =>
      Ring([d EXCEPT ![i] = b], n, r, c + 1) = Append(Ring(d, n, r, c), b)

\* It does so in every buffer.
LEMMA RingAppend ==
  ASSUME NEW S, NEW n, NEW d, IsRing(d, n, S) PROVE RingGrows(d, n, S)
<1> USE DEF RingGrows
<1> SUFFICES ASSUME NEW r \in Int, NEW c \in Nat, NEW b \in S, NEW i, c < n, i = (r + c) % n
             PROVE  Ring([d EXCEPT ![i] = b], n, r, c + 1) = Append(Ring(d, n, r, c), b)
  OBVIOUS
<1> DEFINE e == [d EXCEPT ![i] = b]
           s == Ring(d, n, r, c)
           t == Ring(e, n, r, c + 1)
<1>1. IsRing(e, n, S) /\ Cell(e, n, r + c) = b
  <2>1. PICK y \in Int : y = r + c
    OBVIOUS
  <2>2. IsRing(Written(d, n, y, b), n, S) /\ Cell(Written(d, n, y, b), n, y) = b
    BY CellWritten
  <2> QED
    BY <2>1, <2>2 DEF Written
<1>2. s \in Seq(S) /\ Len(s) = c
  BY RingSeq
<1>3. t \in Seq(S) /\ Len(t) = c + 1
  <2>1. c + 1 \in Nat
    OBVIOUS
  <2> QED
    BY <1>1, <2>1, RingSeq
<1>4. /\ Append(s, b) \in Seq(S) /\ Len(Append(s, b)) = c + 1
      /\ \A k \in 1..c : Append(s, b)[k] = s[k]
      /\ Append(s, b)[c + 1] = b
  BY <1>2, AppendProperties
<1>5. ASSUME NEW k \in 1..c PROVE t[k] = s[k]
  <2>1. c \in Nat /\ c <= c
    OBVIOUS
  <2>2. Ring(e, n, r, c) = s
    BY <2>1, RingKeeps
  <2>3. Ring(e, n, r, c)[k] = t[k]
    BY DEF Ring
  <2> QED
    BY <2>2, <2>3
<1>6. t[c + 1] = b
  <2>1. t[c + 1] = Cell(e, n, r + (c + 1) - 1) /\ r + (c + 1) - 1 = r + c
    BY DEF Ring
  <2> QED
    BY <1>1, <2>1
<1> HIDE DEF s, t
<1>7. ASSUME NEW k \in 1..(c + 1) PROVE t[k] = Append(s, b)[k]
  <2>1. k \in 1..c \/ k = c + 1
    OBVIOUS
  <2> QED
    BY <1>4, <1>5, <1>6, <2>1
<1>8. t = Append(s, b)
  BY <1>3, <1>4, <1>7, SeqEqual
<1> QED
  BY <1>8 DEF s, t

\* The indices from q on and from p on mean the same elements.
Same(d, n, q, p) == \A k \in Int : Cell(d, n, q + k) = Cell(d, n, p + k)

\* When q stands for r + a, a + b elements are the first a and the next b.
LEMMA RingSplit ==
  ASSUME NEW S, NEW n, NEW d, IsRing(d, n, S), NEW r \in Int, NEW q \in Int,
         NEW a \in Nat, NEW b \in Nat, Same(d, n, q, r + a)
  PROVE  Ring(d, n, r, a + b) = Ring(d, n, r, a) \o Ring(d, n, q, b)
<1> DEFINE s == Ring(d, n, r, a)
           t == Ring(d, n, q, b)
           u == Ring(d, n, r, a + b)
<1>1. s \in Seq(S) /\ Len(s) = a
  BY RingSeq
<1>2. t \in Seq(S) /\ Len(t) = b
  BY RingSeq
<1>3. u \in Seq(S) /\ Len(u) = a + b
  <2>1. a + b \in Nat
    OBVIOUS
  <2> QED
    BY <2>1, RingSeq
<1>4. ASSUME NEW k \in 1..(a + b) PROVE u[k] = IF k <= a THEN s[k] ELSE t[k - a]
  <2>1. CASE k <= a
    BY <2>1 DEF Ring
  <2>2. CASE k > a
    <3>1. k - a \in 1..b /\ (k - a) - 1 \in Int
      BY <2>2
    <3>2. Cell(d, n, q + ((k - a) - 1)) = Cell(d, n, r + a + ((k - a) - 1))
      BY <3>1 DEF Same
    <3>3. q + ((k - a) - 1) = q + (k - a) - 1 /\ r + a + ((k - a) - 1) = r + k - 1
      OBVIOUS
    <3>4. t[k - a] = Cell(d, n, q + (k - a) - 1)
      BY <3>1 DEF Ring
    <3>5. u[k] = Cell(d, n, r + k - 1)
      BY DEF Ring
    <3>6. u[k] = t[k - a]
      BY <3>2, <3>3, <3>4, <3>5
    <3> HIDE DEF s, t, u
    <3> QED
      BY <2>2, <3>6
  <2> HIDE DEF s, t, u
  <2> QED
    BY <2>1, <2>2
<1> HIDE DEF s, t, u
<1>5. /\ s \o t \in Seq(S) /\ Len(s \o t) = a + b
      /\ \A k \in 1..(a + b) : (s \o t)[k] = IF k <= a THEN s[k] ELSE t[k - a]
  BY <1>1, <1>2, ConcatProperties
<1>6. u = s \o t
  BY <1>3, <1>4, <1>5, SeqEqual
<1> QED
  BY <1>6 DEF s, t, u

\* Reading at the head leaves the tail, from any index q that stands for r + 1.
LEMMA RingTail ==
  ASSUME NEW S, NEW n, NEW d, IsRing(d, n, S), NEW r \in Int, NEW q \in Int,
         NEW c \in Nat, c > 0, Same(d, n, q, r + 1)
  PROVE  /\ Ring(d, n, r, c) # <<>>
         /\ Head(Ring(d, n, r, c)) = Cell(d, n, r)
         /\ Tail(Ring(d, n, r, c)) = Ring(d, n, q, c - 1)
<1> DEFINE s == Ring(d, n, r, c)
           t == Ring(d, n, q, c - 1)
<1>1. s \in Seq(S) /\ Len(s) = c
  BY RingSeq
<1>2. t \in Seq(S) /\ Len(t) = c - 1
  <2>1. c - 1 \in Nat
    OBVIOUS
  <2> QED
    BY <2>1, RingSeq
<1>3. s[1] = Cell(d, n, r)
  <2>1. r + 1 - 1 = r /\ 1 \in 1..c
    OBVIOUS
  <2> QED
    BY <2>1 DEF Ring
<1>4. ASSUME NEW k \in 1..(c - 1) PROVE t[k] = s[k + 1]
  <2>1. k - 1 \in Int /\ k + 1 \in 1..c
    OBVIOUS
  <2>2. Cell(d, n, q + (k - 1)) = Cell(d, n, r + 1 + (k - 1))
    BY <2>1 DEF Same
  <2>3. q + (k - 1) = q + k - 1 /\ r + 1 + (k - 1) = r + (k + 1) - 1
    OBVIOUS
  <2>4. t[k] = Cell(d, n, q + k - 1)
    BY DEF Ring
  <2>5. s[k + 1] = Cell(d, n, r + (k + 1) - 1)
    BY <2>1 DEF Ring
  <2> QED
    BY <2>2, <2>3, <2>4, <2>5
<1> HIDE DEF t, s
<1>5. s # <<>> /\ Head(s) = Cell(d, n, r)
  BY <1>1, <1>3
<1>6. /\ Tail(s) \in Seq(S) /\ Len(Tail(s)) = c - 1
      /\ \A k \in 1..(c - 1) : Tail(s)[k] = s[k + 1]
  BY <1>1, <1>5, HeadTailProperties
<1>7. Tail(s) = t
  BY <1>2, <1>4, <1>6, SeqEqual
<1> QED
  BY <1>5, <1>7 DEF s, t

\* Without the last element.
LEMMA RingFront ==
  ASSUME NEW S, NEW n, NEW d, IsRing(d, n, S), NEW r \in Int, NEW c \in Nat, c > 0
  PROVE  /\ Ring(d, n, r, c) # <<>>
         /\ Ring(d, n, r, c - 1) = SubSeq(Ring(d, n, r, c), 1, Len(Ring(d, n, r, c)) - 1)
<1> DEFINE s == Ring(d, n, r, c)
           t == Ring(d, n, r, c - 1)
<1>1. s \in Seq(S) /\ Len(s) = c
  BY RingSeq
<1>2. t \in Seq(S) /\ Len(t) = c - 1
  <2>1. c - 1 \in Nat
    OBVIOUS
  <2> QED
    BY <2>1, RingSeq
<1>3. \A k \in 1..(c - 1) : t[k] = s[k]
  BY DEF Ring
<1> HIDE DEF s, t
<1>4. s # <<>>
  BY <1>1
<1>5. /\ SubSeq(s, 1, c - 1) \in Seq(S) /\ Len(SubSeq(s, 1, c - 1)) = c - 1
      /\ \A k \in 1..(c - 1) : SubSeq(s, 1, c - 1)[k] = s[k]
  BY <1>1, SubSeqProperties
<1>6. t = SubSeq(s, 1, c - 1)
  BY <1>2, <1>3, <1>5, SeqEqual
<1> QED
  BY <1>1, <1>4, <1>6 DEF s, t

-----------------------------------------------------------------------------
(* The ring of the pipe is a queue *)

\* The next write goes right behind the bytes in the ring.
LEMMA WriteIndex ==
  ASSUME TypeOK, CountOK
  PROVE  nwrite % PIPESIZE = (nread + Count) % PIPESIZE
<1>1. /\ nwrite \in 0..(UINT - 1) /\ nread \in 0..(UINT - 1)
      /\ PIPESIZE \in Nat \ {0} /\ UINT \in Nat /\ UINT % PIPESIZE = 0
  BY PipeAssumption DEF TypeOK
<1>2. Count = IF nwrite >= nread THEN nwrite - nread ELSE nwrite - nread + UINT
  BY CountFacts
<1> DEFINE a == nwrite + UINT
<1>3. a \in Int
  BY <1>1
<1>4. (a - UINT) % PIPESIZE = a % PIPESIZE
  BY <1>1, <1>3, WrapKeepsIndex, Zenon
<1>5. a - UINT = nwrite /\ (nread + Count = nwrite \/ nread + Count = a)
  BY <1>1, <1>2
<1> HIDE DEF a
<1> QED
  BY <1>4, <1>5

\* Every step of the pipe puts one byte into the queue, takes one out, makes a
\* new pipe, or leaves the queue alone.
LEMMA FifoStep == IInv /\ [Next]_vars => [Abstract!Next]_<<Queue, last>>
<1> SUFFICES ASSUME IInv, [Next]_vars
             PROVE  Abstract!Next \/ UNCHANGED <<Queue, last>>
  OBVIOUS
<1>1. /\ TypeOK /\ CountOK
      /\ Queue = Ring(data, PIPESIZE, nread, Count)
      /\ Queue' = Ring(data', PIPESIZE, nread', Count')
  BY DEF IInv, Queue, Ring, Cell, Count
<1>2. /\ data \in [0..(PIPESIZE - 1) -> Bytes] /\ nread \in Int
      /\ nread \in 0..(UINT - 1) /\ Count \in Nat
      /\ IsRing(data, PIPESIZE, Bytes)
      /\ Len(Queue) = Count
  <2>1. /\ data \in [0..(PIPESIZE - 1) -> Bytes] /\ nread \in Int
        /\ nread \in 0..(UINT - 1) /\ Count \in Nat
        /\ IsRing(data, PIPESIZE, Bytes)
    BY <1>1, CountFacts, PipeAssumption DEF TypeOK, IsRing
  <2> QED
    BY <1>1, <2>1, RingSeq
<1>3. ASSUME NEW p \in Procs, WriteByte(p)
      PROVE  Abstract!Put
  <2>1. PICK b \in Sent(nwrite) : data' = [data EXCEPT ![nwrite % PIPESIZE] = b]
    BY <1>3 DEF WriteByte
  <2>2. /\ b \in Bytes /\ ~Full
        /\ nwrite' = (nwrite + 1) % UINT /\ nread' = nread /\ last' = last
    BY <1>1, <1>3, PipeAssumption DEF WriteByte, TypeOK
  <2>3. Count' = Count + 1 /\ Count < PIPESIZE
    BY <1>1, <1>2, <2>2, CountAdds, PipeAssumption
  <2>4. Queue' = Append(Queue, b)
    <3>1. RingGrows(data, PIPESIZE, Bytes)
      BY <1>2, RingAppend
    <3>2. PICK c \in Nat : c = Count
      BY <1>2
    <3>3. nread \in Int /\ b \in Bytes /\ c < PIPESIZE /\ nwrite % PIPESIZE = (nread + c) % PIPESIZE
      BY <1>1, <1>2, <2>2, <2>3, <3>2, WriteIndex
    <3>4. Ring([data EXCEPT ![nwrite % PIPESIZE] = b], PIPESIZE, nread, c + 1)
            = Append(Ring(data, PIPESIZE, nread, c), b)
      BY <3>1, <3>3, Zenon DEF RingGrows
    <3> QED
      BY <1>1, <2>1, <2>2, <2>3, <3>2, <3>4
  <2> QED
    BY <1>2, <2>2, <2>3, <2>4 DEF Abstract!Put
<1>4. ASSUME NEW p \in Procs, ReadByte(p)
      PROVE  Abstract!Get
  <2>1. /\ ~Empty /\ last' = data[nread % PIPESIZE] /\ data' = data
        /\ nread' = (nread + 1) % UINT /\ nwrite' = nwrite
    BY <1>4 DEF ReadByte
  <2>2. Count' = Count - 1 /\ Count > 0
    BY <1>1, <1>2, <2>1, CountTakes, CountFacts
  <2> QED
    <3>1. PICK q \in Int : q = (nread + 1) % UINT
      BY <1>2, NextCounter
    <3>2. Same(data, PIPESIZE, q, nread + 1)
      BY <1>2, <3>1, NextCounter DEF Same, Cell
    <3>3. IsRing(data, PIPESIZE, Bytes) /\ nread \in Int /\ q \in Int /\ Count \in Nat /\ Count > 0
          /\ Same(data, PIPESIZE, q, nread + 1)
      BY <1>2, <2>2, <3>2
    <3>4. /\ Queue # <<>> /\ Head(Queue) = Cell(data, PIPESIZE, nread)
          /\ Tail(Queue) = Ring(data, PIPESIZE, q, Count - 1)
      BY <1>1, <3>3, RingTail
    <3>5. Queue' = Tail(Queue)
      BY <1>1, <2>1, <2>2, <3>1, <3>4
    <3> QED
      BY <2>1, <3>4, <3>5 DEF Abstract!Get, Cell
<1>5. ASSUME NEW p \in Procs, PipeAlloc(p)
      PROVE  Abstract!New
  <2>1. nread' = 0 /\ nwrite' = 0 /\ last' = last /\ data' = data
    BY <1>5 DEF PipeAlloc
  <2>2. Count' = 0
    BY <2>1, CountEmpty
  <2>3. Queue' = <<>>
    BY <1>1, <1>2, <2>1, <2>2, RingSeq
  <2> QED
    BY <2>1, <2>3 DEF Abstract!New
<1>6. ASSUME UNCHANGED <<data, nread, nwrite, last>>
      PROVE  UNCHANGED <<Queue, last>>
  BY <1>6 DEF Queue
<1>8. ASSUME NEW p \in Procs, PipeAllocFails(p)
      PROVE  Abstract!New \/ UNCHANGED <<Queue, last>>
  <2>1. last' = last /\ data' = data
    BY <1>8 DEF PipeAllocFails
  <2>2. CASE nread' = 0 /\ nwrite' = 0
    <3>1. Count' = 0
      BY <2>2, CountEmpty
    <3>2. Queue' = <<>>
      BY <1>1, <1>2, <2>1, <2>2, <3>1, RingSeq
    <3> QED
      BY <2>1, <3>2 DEF Abstract!New
  <2>3. CASE UNCHANGED <<nread, nwrite>>
    BY <1>6, <2>1, <2>3
  <2> QED
    BY <1>8, <2>2, <2>3 DEF PipeAllocFails
<1>7. ASSUME NEW p \in Procs, Kernel(p) \/ User(p)
      PROVE  \/ WriteByte(p) \/ ReadByte(p) \/ PipeAlloc(p) \/ PipeAllocFails(p)
             \/ UNCHANGED <<data, nread, nwrite, last>>
  BY <1>7 DEF Kernel, User, Acquire, Sleep, WriteFail, WriteBlock, WriteEnd, ReadFail,
              ReadBlock, ReadGo, ReadEnd, PipeClose, WriteCall, ReadCall, Fork, Close,
              Exit, Kill, pipeVars
<1> QED
  BY <1>3, <1>4, <1>5, <1>6, <1>7, <1>8 DEF Abstract!Next, Next, vars, pipeVars

\* The ring buffer, with its counters that wrap, implements a queue of PIPESIZE
\* bytes: pipewrite and piperead move them in order, none lost or repeated.
THEOREM RefinesFifo == Spec => ImplementsFifo
<1>1. Init => Abstract!Init
  <2> SUFFICES ASSUME Init PROVE Queue = <<>> /\ last \in Bytes
    BY DEF Abstract!Init
  <2>1. (0 - 0) % UINT = 0
    BY Distance, PipeAssumption
  <2>2. Queue = Ring(data, PIPESIZE, 0, 0)
    BY <2>1 DEF Init, Queue, Ring
  <2> QED
    BY <2>2 DEF Init, Ring
<1> QED
  BY <1>1, FifoStep, Invariance, PTL DEF Spec, ImplementsFifo, Abstract!Spec

-----------------------------------------------------------------------------
(* The console *)

\* What may be in the buffer, and the calls.
Vals == Con!Chars \cup {"nul"}
Places == {"user", "read", "sleep", "asleep", "woken", "done", "write"}
Calls == [pc : Places, n : Nat, got : Seq(Vals), killed : BOOLEAN]
Slots == 0..(Width - 1)

ConTyped ==
  /\ IsRing(inbuf, BufSize, Vals)
  /\ inr \in Slots /\ inw \in Slots /\ ine \in Slots
  /\ proc \in [Users -> Calls]

\* A call that is done has all it will get, one that goes on has not; a process
\* outside has nothing.
Filled(x) == x.got # <<>> /\ (x.got[Len(x.got)] = "nl" \/ Len(x.got) = x.n)
Going == {"read", "sleep", "asleep", "woken"}
CallOK(x) == /\ x.pc = "done" => Filled(x)
             /\ x.pc \in Going => ~Filled(x)
             /\ x.pc = "user" => x.got = <<>>
             /\ x.pc \in {"user", "write"} => ~x.killed
GotOK == \A p \in Users : CallOK(proc[p])

\* The cursor is above the last line, so that a character more stays inside.
OnScreen == pos \in 0..((Rows - 1) * Cols - 1)

ConInv == ConTyped /\ GotOK /\ OnScreen /\ Con!IndexOrder /\ Con!NoPanic

\* What the arithmetic needs of Console's assumption.
LEMMA ConSizes ==
  /\ BufSize \in Nat \ {0} /\ Width \in Nat \ {0} /\ Width > BufSize
  /\ Width % BufSize = 0
  /\ Rows \in Nat /\ Rows > 1 /\ Cols \in Nat \ {0} /\ MaxRead \in Nat \ {0}
BY ConConstants DEF Con!ConsoleAssumption

\* How far i is ahead of k, around the circle.
LEMMA Ahead ==
  ASSUME NEW i \in Slots, NEW k \in Slots
  PROVE  Con!Minus(i, k) = IF i >= k THEN i - k ELSE i - k + Width
<1> DEFINE a == i + Width - k
<1>1. a \in Int /\ Width \in Nat \ {0} /\ i \in Nat /\ k \in Nat /\ i < Width /\ k < Width
  BY ConSizes DEF Slots
<1>2. /\ a \in 0..(Width - 1) => a % Width = a
      /\ Width <= a /\ a < 2 * Width => a % Width = a - Width
  BY <1>1, Remainder, Zenon
<1> QED
  BY <1>1, <1>2 DEF Con!Minus

\* The index k places on.
LEMMA Further ==
  ASSUME NEW i \in Slots, NEW k \in Slots
  PROVE  Con!Plus(i, k) = IF i + k < Width THEN i + k ELSE i + k - Width
<1> DEFINE a == i + k
<1>1. a \in Int /\ Width \in Nat \ {0} /\ i \in Nat /\ k \in Nat /\ i < Width /\ k < Width
  BY ConSizes DEF Slots
<1>2. /\ a \in 0..(Width - 1) => a % Width = a
      /\ Width <= a /\ a < 2 * Width => a % Width = a - Width
  BY <1>1, Remainder, Zenon
<1> QED
  BY <1>1, <1>2 DEF Con!Plus

\* The three indices are in order.
InOrder(r, w, e) ==
  /\ r \in Slots /\ w \in Slots /\ e \in Slots
  /\ Con!Minus(e, r) <= BufSize
  /\ Con!Minus(w, r) <= Con!Minus(e, r)

\* Both parts of the buffer together are what is between the outer indices.
LEMMA Distances ==
  ASSUME NEW r, NEW w, NEW e, InOrder(r, w, e)
  PROVE  /\ Con!Minus(e, r) \in Nat /\ Con!Minus(w, r) \in Nat
         /\ Con!Minus(e, w) \in Nat
         /\ Con!Minus(e, r) = Con!Minus(w, r) + Con!Minus(e, w)
         /\ Con!Minus(w, w) = 0
         /\ InOrder(r, w, w)
<1>1. r \in Slots /\ w \in Slots /\ e \in Slots
  BY DEF InOrder
<1>2. /\ Con!Minus(e, r) = IF e >= r THEN e - r ELSE e - r + Width
      /\ Con!Minus(w, r) = IF w >= r THEN w - r ELSE w - r + Width
      /\ Con!Minus(e, w) = IF e >= w THEN e - w ELSE e - w + Width
      /\ Con!Minus(w, w) = IF w >= w THEN w - w ELSE w - w + Width
  BY <1>1, Ahead
<1>3. /\ Con!Minus(e, r) <= BufSize
      /\ Con!Minus(w, r) <= Con!Minus(e, r)
  BY DEF InOrder
<1> QED
  BY <1>1, <1>2, <1>3, ConSizes DEF Slots, InOrder

\* A character more.
LEMMA OneMore ==
  ASSUME NEW r, NEW w, NEW e, InOrder(r, w, e), Con!Minus(e, r) < BufSize
  PROVE  /\ InOrder(r, w, Con!Plus(e, 1)) /\ InOrder(r, Con!Plus(e, 1), Con!Plus(e, 1))
         /\ Con!Minus(Con!Plus(e, 1), r) = Con!Minus(e, r) + 1
         /\ Con!Minus(Con!Plus(e, 1), w) = Con!Minus(e, w) + 1
         /\ Con!Minus(Con!Plus(e, 1), Con!Plus(e, 1)) = 0
         /\ Con!Plus(e, 1) = Con!Plus(r, BufSize) <=> Con!Minus(e, r) + 1 = BufSize
<1>1. r \in Slots /\ w \in Slots /\ e \in Slots /\ 1 \in Slots /\ BufSize \in Slots
  BY ConSizes DEF InOrder, Slots
<1>2. Con!Plus(e, 1) = IF e + 1 < Width THEN e + 1 ELSE e + 1 - Width
  BY <1>1, Further
<1>3. Con!Plus(r, BufSize) = IF r + BufSize < Width THEN r + BufSize ELSE r + BufSize - Width
  BY <1>1, Further
<1> DEFINE f == Con!Plus(e, 1)
<1>4. f \in Slots
  BY <1>1, <1>2, ConSizes DEF Slots
<1> HIDE DEF f
<1>5. /\ Con!Minus(e, r) = IF e >= r THEN e - r ELSE e - r + Width
      /\ Con!Minus(w, r) = IF w >= r THEN w - r ELSE w - r + Width
      /\ Con!Minus(e, w) = IF e >= w THEN e - w ELSE e - w + Width
  BY <1>1, Ahead
<1>6. /\ Con!Minus(f, r) = IF f >= r THEN f - r ELSE f - r + Width
      /\ Con!Minus(f, w) = IF f >= w THEN f - w ELSE f - w + Width
      /\ Con!Minus(f, f) = IF f >= f THEN f - f ELSE f - f + Width
  BY <1>1, <1>4, Ahead
<1>7. f = IF e + 1 < Width THEN e + 1 ELSE e + 1 - Width
  BY <1>2 DEF f
<1>8. Con!Minus(w, r) <= Con!Minus(e, r)
  BY DEF InOrder
<1>9. Con!Minus(f, r) = Con!Minus(e, r) + 1 /\ Con!Minus(f, w) = Con!Minus(e, w) + 1 /\ Con!Minus(f, f) = 0
  BY <1>1, <1>4, <1>5, <1>6, <1>7, <1>8, ConSizes DEF Slots
<1>10. f = Con!Plus(r, BufSize) <=> Con!Minus(e, r) + 1 = BufSize
  BY <1>1, <1>3, <1>5, <1>7, ConSizes DEF Slots
<1>11. InOrder(r, w, f) /\ InOrder(r, f, f)
  BY <1>1, <1>4, <1>5, <1>8, <1>9, ConSizes DEF InOrder, Slots
<1> QED
  BY <1>9, <1>10, <1>11 DEF f

\* A character less at the end.
LEMMA OneErased ==
  ASSUME NEW r, NEW w, NEW e, InOrder(r, w, e), e # w
  PROVE  /\ InOrder(r, w, Con!Minus(e, 1))
         /\ Con!Minus(Con!Minus(e, 1), w) = Con!Minus(e, w) - 1
         /\ Con!Minus(e, w) > 0
<1>1. r \in Slots /\ w \in Slots /\ e \in Slots /\ 1 \in Slots
  BY ConSizes DEF InOrder, Slots
<1> DEFINE f == Con!Minus(e, 1)
<1>2. f = IF e >= 1 THEN e - 1 ELSE e - 1 + Width
  BY <1>1, Ahead
<1>3. f \in Slots
  BY <1>1, <1>2, ConSizes DEF Slots
<1> HIDE DEF f
<1>5. /\ Con!Minus(e, r) = IF e >= r THEN e - r ELSE e - r + Width
      /\ Con!Minus(w, r) = IF w >= r THEN w - r ELSE w - r + Width
      /\ Con!Minus(e, w) = IF e >= w THEN e - w ELSE e - w + Width
  BY <1>1, Ahead
<1>6. /\ Con!Minus(f, r) = IF f >= r THEN f - r ELSE f - r + Width
      /\ Con!Minus(f, w) = IF f >= w THEN f - w ELSE f - w + Width
  BY <1>1, <1>3, Ahead
<1>7. Con!Minus(w, r) <= Con!Minus(e, r) /\ Con!Minus(e, r) <= BufSize
  BY DEF InOrder
<1>8. Con!Minus(f, r) = Con!Minus(e, r) - 1 /\ Con!Minus(f, w) = Con!Minus(e, w) - 1
      /\ Con!Minus(e, w) > 0 /\ Con!Minus(w, r) < Con!Minus(e, r)
  BY <1>1, <1>2, <1>3, <1>5, <1>6, <1>7, ConSizes DEF Slots
<1>9. InOrder(r, w, f)
  BY <1>1, <1>3, <1>5, <1>7, <1>8, ConSizes DEF InOrder, Slots
<1> QED
  BY <1>8, <1>9 DEF f

\* A character less at the head.
LEMMA OneRead ==
  ASSUME NEW r, NEW w, NEW e, InOrder(r, w, e), r # w
  PROVE  /\ InOrder(Con!Plus(r, 1), w, e)
         /\ Con!Minus(w, Con!Plus(r, 1)) = Con!Minus(w, r) - 1
         /\ Con!Minus(w, r) > 0
         /\ Con!Plus(r, 1) = r + 1 \/ Con!Plus(r, 1) + Width = r + 1
<1>1. r \in Slots /\ w \in Slots /\ e \in Slots /\ 1 \in Slots
  BY ConSizes DEF InOrder, Slots
<1> DEFINE f == Con!Plus(r, 1)
<1>2. f = IF r + 1 < Width THEN r + 1 ELSE r + 1 - Width
  BY <1>1, Further
<1>3. f \in Slots
  BY <1>1, <1>2, ConSizes DEF Slots
<1> HIDE DEF f
<1>5. /\ Con!Minus(e, r) = IF e >= r THEN e - r ELSE e - r + Width
      /\ Con!Minus(w, r) = IF w >= r THEN w - r ELSE w - r + Width
  BY <1>1, Ahead
<1>6. /\ Con!Minus(e, f) = IF e >= f THEN e - f ELSE e - f + Width
      /\ Con!Minus(w, f) = IF w >= f THEN w - f ELSE w - f + Width
  BY <1>1, <1>3, Ahead
<1>7. Con!Minus(w, r) <= Con!Minus(e, r) /\ Con!Minus(e, r) <= BufSize
  BY DEF InOrder
<1>8. Con!Minus(w, f) = Con!Minus(w, r) - 1 /\ Con!Minus(e, f) = Con!Minus(e, r) - 1
      /\ Con!Minus(w, r) > 0
  BY <1>1, <1>2, <1>3, <1>5, <1>6, <1>7, ConSizes DEF Slots
<1>9. InOrder(f, w, e)
  BY <1>1, <1>3, <1>5, <1>7, <1>8, ConSizes DEF InOrder, Slots
<1> QED
  BY <1>1, <1>2, <1>8, <1>9, ConSizes DEF f, Slots

\* The cursor moves to below the end of the line at most, and the screen
\* scrolls when that is the last one (cgaputc).
LEMMA Cursor ==
  ASSUME OnScreen, Con!NoPanic, NEW c, Con!Consputc(c)
  PROVE  OnScreen' /\ Con!NoPanic'
<1> DEFINE q == pos \div Cols
           m == Con!Moved(c)
           g == m \div Cols
           end == (Rows - 1) * Cols
<1>0. Rows \in Nat /\ Rows > 1 /\ Cols \in Nat \ {0}
  BY ConSizes
<1>1. pos \in Nat /\ pos < end /\ end \in Nat /\ Rows * Cols = end + Cols /\ end >= Cols
  <2>1. end \in Int /\ Rows * Cols = end + Cols
    BY <1>0
  <2>2. \A k \in Int : k >= 1 => k * Cols >= Cols
    BY <1>0
  <2>3. end >= Cols
    BY <1>0, <2>2
  <2> QED
    BY <1>0, <2>1, <2>3 DEF OnScreen
<1>2. /\ pos = Cols * q + (pos % Cols) /\ q \in Int
      /\ pos % Cols \in 0..(Cols - 1)
  BY <1>0, <1>1, SMT
<1>3. pos - (pos % Cols) + Cols <= end
  <2>1. q < Rows - 1
    <3>1. \A k \in Int : k >= Rows - 1 => Cols * k >= end
      BY <1>0, SMT
    <3> QED
      BY <1>0, <1>1, <1>2, <3>1
  <2>2. \A k \in Int : k + 1 <= Rows - 1 => Cols * k + Cols <= end
    BY <1>0, SMT
  <2> HIDE DEF q, end
  <2> QED
    BY <1>0, <1>1, <1>2, <2>1, <2>2
<1> HIDE DEF q, end
<1>4. m \in 0..end
  BY <1>0, <1>1, <1>2, <1>3 DEF Con!Moved
<1>5. /\ m = Cols * g + (m % Cols) /\ g \in Int
      /\ m % Cols \in 0..(Cols - 1)
  <2> HIDE DEF m
  <2> QED
    BY <1>0, <1>1, <1>4, SMT
<1> HIDE DEF m, g
<1>6. g >= Rows - 1 => m - Cols \in 0..(end - 1)
  <2>1. \A k \in Int : k >= 1 => Cols * k >= Cols
    BY <1>0, SMT
  <2> QED
    BY <1>0, <1>1, <1>4, <1>5, <2>1
<1>7. g < Rows - 1 => m \in 0..(end - 1)
  <2>1. \A k \in Int : k + 1 <= Rows - 1 => Cols * k + Cols <= end
    BY <1>0, SMT DEF end
  <2> QED
    BY <1>0, <1>1, <1>4, <1>5, <2>1
<1>8. Con!Scrolled(m) \in 0..(end - 1)
  BY <1>0, <1>4, <1>5, <1>6, <1>7 DEF Con!Scrolled, g
<1>9. pos' = Con!Scrolled(m) /\ panic' = panic
  BY <1>0, <1>1, <1>4 DEF Con!Consputc, m
<1> QED
  BY <1>8, <1>9 DEF OnScreen, Con!NoPanic, end

\* The buffer keeps its type when a character is put in.
LEMMA Put ==
  ASSUME ConTyped, NEW c \in Con!Chars
  PROVE  IsRing([inbuf EXCEPT ![ine % BufSize] = c], BufSize, Vals)
<1>1. ine \in Int /\ c \in Vals
  BY ConSizes DEF ConTyped, Slots, Vals
<1>2. IsRing(Written(inbuf, BufSize, ine, c), BufSize, Vals)
  BY <1>1, CellWritten DEF ConTyped
<1> QED
  BY <1>2 DEF Written

\* An empty buffer and an empty screen.
LEMMA ConInit == Con!Init => ConInv
<1> SUFFICES ASSUME Con!Init PROVE ConInv
  OBVIOUS
<1>1. IsRing(inbuf, BufSize, Vals)
  BY ConSizes DEF Con!Init, IsRing, Vals
<1>2. 0 \in Slots
  BY ConSizes DEF Slots
<1>3. Con!Free \in Calls /\ CallOK(Con!Free)
  BY DEF Con!Free, Calls, Places, CallOK, Going
<1>4. ConTyped /\ GotOK
  BY <1>1, <1>2, <1>3 DEF Con!Init, ConTyped, GotOK
<1>5. OnScreen
  <2>1. \A a \in Int, b \in Int : a >= 1 /\ b >= 1 => a * b >= 1
    BY SMT
  <2>2. (Rows - 1) * Cols >= 1 /\ (Rows - 1) * Cols \in Int
    BY <2>1, ConSizes
  <2> QED
    BY <2>2 DEF Con!Init, OnScreen
<1>6. Con!Minus(0, 0) = 0
  BY <1>2, Ahead
<1> QED
  BY <1>2, <1>4, <1>5, <1>6, ConSizes DEF Con!Init, ConInv, Con!IndexOrder, Con!NoPanic, Slots

\* The order of the indices, as the lemmas have it.
LEMMA Ordered == ConTyped => (Con!IndexOrder <=> InOrder(inr, inw, ine))
BY DEF ConTyped, Con!IndexOrder, InOrder, Slots

\* A step of a call: one record of proc changes.
LEMMA CallStep ==
  ASSUME ConTyped, GotOK, NEW p \in Users, NEW x \in Calls,
         proc' = [proc EXCEPT ![p] = x],
         CallOK(x)
  PROVE  proc' \in [Users -> Calls] /\ GotOK'
BY DEF ConTyped, GotOK

\* A step of a call that leaves the buffer and the screen alone.
LEMMA ConStutter ==
  ASSUME ConInv, UNCHANGED <<inbuf, inr, inw, ine, pos, panic>>, proc' \in [Users -> Calls], GotOK'
  PROVE  ConInv'
BY DEF ConInv, ConTyped, OnScreen, Con!IndexOrder, Con!NoPanic

\* Every character typed, erased, read and written keeps the invariant.
LEMMA ConNext == ConInv /\ [Con!Next]_(Con!vars) => ConInv'
<1> SUFFICES ASSUME ConInv, [Con!Next]_(Con!vars) PROVE ConInv'
  OBVIOUS
<1>0. /\ ConTyped /\ GotOK /\ OnScreen /\ Con!NoPanic /\ InOrder(inr, inw, ine)
      /\ IsRing(inbuf, BufSize, Vals) /\ inr \in Slots /\ inw \in Slots /\ ine \in Slots
      /\ proc \in [Users -> Calls]
  BY Ordered DEF ConInv, ConTyped
<1>1. ASSUME NEW c \in Con!Chars, Con!TypeChar(c) PROVE ConInv'
  <2>1. /\ inbuf' = [inbuf EXCEPT ![ine % BufSize] = c]
        /\ ine' = Con!Plus(ine, 1) /\ inr' = inr
        /\ inw' = inw \/ inw' = Con!Plus(ine, 1)
        /\ proc' = proc \/ proc' = Con!Woken
        /\ Con!Consputc(c) /\ Con!Minus(ine, inr) < BufSize
    BY <1>1 DEF Con!TypeChar, Con!Room
  <2>2. InOrder(inr, inw, ine)' /\ OnScreen' /\ Con!NoPanic'
    <3>1. InOrder(inr, inw, Con!Plus(ine, 1)) /\ InOrder(inr, Con!Plus(ine, 1), Con!Plus(ine, 1))
      BY <1>0, <2>1, OneMore
    <3>2. InOrder(inr', inw', ine')
      BY <2>1, <3>1
    <3> QED
      BY <1>0, <2>1, <3>2, Cursor DEF InOrder
  <2>3. proc' \in [Users -> Calls] /\ GotOK'
    <3>1. CASE proc' = Con!Woken
      <4>1. ASSUME NEW p \in Users PROVE proc'[p] \in Calls /\ CallOK(proc'[p])
        BY <1>0, <3>1 DEF Con!Woken, Calls, Places, GotOK, CallOK, Going, Filled
      <4> QED
        BY <3>1, <4>1 DEF Con!Woken, GotOK
    <3> QED
      BY <1>0, <2>1, <3>1 DEF GotOK
  <2>4. IsRing(inbuf, BufSize, Vals)'
    <3>1. IsRing(inbuf', BufSize, Vals)
      BY <1>0, <2>1, Put
    <3> QED
      BY <3>1 DEF IsRing, Vals
  <2> QED
    BY <2>2, <2>3, <2>4 DEF ConInv, ConTyped, InOrder, Con!IndexOrder, Slots
<1>2. CASE Con!Backspace
  <2>1. /\ ine' = Con!Minus(ine, 1) /\ ine # inw /\ Con!Consputc("bs")
        /\ UNCHANGED <<inbuf, inr, inw, proc>>
    BY <1>2 DEF Con!Backspace, Con!Editable
  <2>2. InOrder(inr, inw, Con!Minus(ine, 1)) /\ OnScreen' /\ Con!NoPanic'
    BY <1>0, <2>1, OneErased, Cursor
  <2> QED
    BY <1>0, <2>1, <2>2 DEF ConInv, ConTyped, GotOK, InOrder, Con!IndexOrder, Slots
<1>3. CASE Con!KillLine
  <2>1. /\ ine' = inw /\ UNCHANGED <<inbuf, inr, inw, proc, panic>>
        /\ pos' = LET k == Con!Minus(ine, inw) IN IF k > pos THEN 0 ELSE pos - k
    BY <1>3 DEF Con!KillLine
  <2>2. Con!Minus(ine, inw) \in Nat /\ InOrder(inr, inw, inw)
    BY <1>0, Distances
  <2>3. OnScreen'
    <3> DEFINE end == (Rows - 1) * Cols
    <3>1. pos \in 0..(end - 1) /\ end \in Int
      BY <1>0, ConSizes DEF OnScreen
    <3> HIDE DEF end
    <3>2. pos' \in 0..(end - 1)
      BY <2>1, <2>2, <3>1
    <3> QED
      BY <3>2 DEF OnScreen, end
  <2> QED
    BY <1>0, <2>1, <2>2, <2>3 DEF ConInv, ConTyped, GotOK, InOrder, Con!IndexOrder, Slots, Con!NoPanic
<1>4. ASSUME NEW p \in Users, Con!Steps(p) \/ Con!Calls(p) PROVE ConInv'
  <2>0. proc[p] \in Calls /\ CallOK(proc[p])
    BY <1>0 DEF GotOK
  <2>1. ASSUME NEW x \in Calls, proc' = [proc EXCEPT ![p] = x], CallOK(x),
               UNCHANGED <<inbuf, inr, inw, ine, pos, panic>>
        PROVE  ConInv'
    <3>1. proc' \in [Users -> Calls] /\ GotOK'
      BY <1>0, <2>1, CallStep
    <3> QED
      BY <2>1, <3>1, ConStutter
  <2>2. ASSUME NEW k \in Going, proc[p].pc \in Going, Con!Goto(p, k),
               UNCHANGED <<inbuf, inr, inw, ine, pos, panic>>
        PROVE  ConInv'
    <3> DEFINE x == [proc[p] EXCEPT !.pc = k]
    <3>1. x \in Calls /\ CallOK(x) /\ proc' = [proc EXCEPT ![p] = x]
      BY <1>0, <2>0, <2>2 DEF Con!Goto, Calls, Places, Going, CallOK, Filled
    <3> HIDE DEF x
    <3> QED
      BY <2>1, <2>2, <3>1
  <2>3. ASSUME Con!Return(p), UNCHANGED <<inbuf, inr, inw, ine, pos, panic>>
        PROVE  ConInv'
    <3>1. Con!Free \in Calls /\ CallOK(Con!Free)
      BY DEF Con!Free, Calls, Places, CallOK, Going
    <3> QED
      BY <2>1, <2>3, <3>1 DEF Con!Return
  <2>4. ASSUME NEW k \in {"read", "write"}, NEW n \in 1..MaxRead, proc[p].pc = "user",
               proc' = [proc EXCEPT ![p] = [@ EXCEPT !.pc = k, !.n = n]],
               UNCHANGED <<inbuf, inr, inw, ine, pos, panic>>
        PROVE  ConInv'
    <3> DEFINE x == [proc[p] EXCEPT !.pc = k, !.n = n]
    <3>0. n \in Nat /\ k \in Places \ {"user", "done"}
      BY DEF Places
    <3>1. x \in Calls /\ x.pc = k /\ x.got = <<>> /\ ~x.killed
      BY <2>0, <2>4, <3>0 DEF Calls, CallOK
    <3>2. proc' = [proc EXCEPT ![p] = x]
      BY <2>4
    <3>3. CallOK(x)
      BY <3>1 DEF CallOK, Filled
    <3> HIDE DEF x
    <3> QED
      BY <2>1, <2>4, <3>1, <3>2, <3>3
  <2>5. CASE Con!ReadTest(p)
    BY <2>2, <2>3, <2>5 DEF Con!ReadTest, Going
  <2>6. CASE Con!ReadSleep(p)
    BY <2>2, <2>6 DEF Con!ReadSleep, Going
  <2>7. CASE Con!ReadAgain(p)
    BY <2>2, <2>7 DEF Con!ReadAgain, Going
  <2>8. CASE Con!ReadReturn(p)
    BY <2>3, <2>8 DEF Con!ReadReturn
  <2>9. CASE Con!WriteReturn(p)
    BY <2>3, <2>9 DEF Con!WriteReturn
  <2>10. ASSUME NEW n \in 1..MaxRead, Con!ReadStart(p, n) PROVE ConInv'
    BY <2>4, <2>10 DEF Con!ReadStart
  <2>11. ASSUME NEW n \in 1..MaxRead, Con!WriteStart(p, n) PROVE ConInv'
    BY <2>4, <2>11 DEF Con!WriteStart
  <2>12. CASE Con!Kill(p)
    <3> DEFINE x == [proc[p] EXCEPT !.killed = TRUE, !.pc = IF @ = "asleep" THEN "woken" ELSE @]
    <3>1. x \in Calls /\ CallOK(x) /\ proc' = [proc EXCEPT ![p] = x]
      BY <1>0, <2>0, <2>12 DEF Con!Kill, Calls, Places, CallOK, Going, Filled
    <3>2. UNCHANGED <<inbuf, inr, inw, ine, pos, panic>>
      BY <2>12 DEF Con!Kill
    <3> HIDE DEF x
    <3> QED
      BY <2>1, <3>1, <3>2
  <2>13. ASSUME NEW c \in Con!Chars, Con!WriteChar(p, c) PROVE ConInv'
    <3> DEFINE x == [proc[p] EXCEPT !.n = @ - 1]
    <3>0. /\ proc[p].n \in Nat /\ proc[p].n > 0 /\ proc[p].pc = "write"
          /\ proc' = [proc EXCEPT ![p].n = @ - 1]
      BY <2>0, <2>13 DEF Con!WriteChar, Calls
    <3>1. x \in Calls /\ x.pc = "write" /\ ~x.killed /\ proc' = [proc EXCEPT ![p] = x]
      <4>1. proc[p].n - 1 \in Nat
        BY <3>0
      <4>2. x \in Calls /\ x.pc = "write" /\ ~x.killed
        BY <2>0, <3>0, <4>1 DEF Calls, CallOK
      <4> QED
        BY <3>0, <4>2
    <3>4. CallOK(x)
      BY <3>1 DEF CallOK, Going
    <3> HIDE DEF x
    <3>2. proc' \in [Users -> Calls] /\ GotOK'
      BY <1>0, <3>1, <3>4, CallStep
    <3>3. OnScreen' /\ Con!NoPanic' /\ UNCHANGED <<inbuf, inr, inw, ine>>
      BY <1>0, <2>13, Cursor DEF Con!WriteChar
    <3> QED
      BY <3>2, <3>3 DEF ConInv, ConTyped, Con!IndexOrder
  <2>14. CASE Con!ReadChar(p)
    <3> DEFINE c == Con!At(inr)
               got == Append(proc[p].got, c)
    <3>1. c \in Vals
      BY <1>0, ConSizes, CellInside DEF Con!At, Cell, Slots
    <3>2. /\ UNCHANGED <<inbuf, inw, ine, pos, panic>> /\ inr # inw
          /\ inr' = inr \/ inr' = Con!Plus(inr, 1)
      BY <2>14 DEF Con!ReadChar
    <3>3. InOrder(inr', inw, ine)
      <4>1. InOrder(Con!Plus(inr, 1), inw, ine)
        BY <1>0, <3>2, OneRead
      <4> QED
        BY <1>0, <3>2, <4>1
    <3>4. proc' \in [Users -> Calls] /\ GotOK'
      <4>1. CASE c = "eof"
        <5>1. Con!Free \in Calls /\ CallOK(Con!Free)
          BY DEF Con!Free, Calls, Places, CallOK, Going
        <5>2. proc' = [proc EXCEPT ![p] = Con!Free]
          BY <2>14, <4>1 DEF Con!ReadChar, Con!Return
        <5> QED
          BY <1>0, <5>1, <5>2, CallStep
      <4>2. CASE c # "eof"
        <5> DEFINE k == IF c = "nl" \/ Len(got) = proc[p].n THEN "done" ELSE "read"
        <5>1. proc' = [proc EXCEPT ![p].got = got, ![p].pc = k]
          BY <2>14, <4>2 DEF Con!ReadChar
        <5> DEFINE x == [proc[p] EXCEPT !.got = got, !.pc = k]
        <5>2. got \in Seq(Vals) /\ got # <<>> /\ got[Len(got)] = c
          <6>1. proc[p].got \in Seq(Vals)
            BY <2>0 DEF Calls
          <6> QED
            BY <3>1, <6>1, AppendProperties
        <5> HIDE DEF got, c
        <5>3. /\ x \in Calls /\ x.pc = k /\ x.got = got /\ x.n = proc[p].n
              /\ proc' = [proc EXCEPT ![p] = x]
          BY <1>0, <2>0, <5>1, <5>2 DEF Calls, Places
        <5> HIDE DEF x
        <5>4. CallOK(x)
          BY <5>2, <5>3 DEF CallOK, Filled, Going
        <5> QED
          BY <1>0, <5>3, <5>4, CallStep
      <4> QED
        BY <4>1, <4>2
    <3> QED
      BY <1>0, <3>2, <3>3, <3>4 DEF ConInv, ConTyped, OnScreen, InOrder, Con!IndexOrder, Slots, Con!NoPanic
  <2> QED
    BY <1>4, <2>5, <2>6, <2>7, <2>8, <2>9, <2>10, <2>11, <2>12, <2>13, <2>14 DEF Con!Steps, Con!Calls
<1>5. CASE UNCHANGED Con!vars
  BY <1>0, <1>5, ConStutter DEF Con!vars, GotOK
<1> QED
  BY <1>1, <1>2, <1>3, <1>4, <1>5 DEF Con!Next, Con!Typing

\* The inductive invariant of the console.
LEMMA ConInvariance == Con!Spec => []ConInv
<1>1. Con!Init => ConInv
  BY ConInit
<1>2. ConInv /\ [Con!Next]_(Con!vars) => ConInv'
  BY ConNext
<1> QED
  BY <1>1, <1>2, PTL DEF Con!Spec

\* The indices of consoleintr and consoleread stay in order around the circle.
THEOREM IndicesOrdered == Con!Spec => []Con!IndexOrder
<1>1. ConInv => Con!IndexOrder
  BY DEF ConInv
<1> QED
  BY <1>1, ConInvariance, PTL

\* cgaputc never finds the cursor outside the screen.
THEOREM CursorInside == Con!Spec => []Con!NoPanic
<1>1. ConInv => Con!NoPanic
  BY DEF ConInv
<1> QED
  BY <1>1, ConInvariance, PTL

-----------------------------------------------------------------------------
(* The console is a terminal *)

\* Two indices that are equal or a lap of the counter apart mean the same.
LEMMA Lap ==
  ASSUME NEW d, NEW q \in Int, NEW p \in Int, p = q \/ p = q + Width
  PROVE  Same(d, BufSize, q, p) /\ q % BufSize = p % BufSize
<1>1. ASSUME NEW k \in Int PROVE (q + k) % BufSize = (p + k) % BufSize
  <2>1. CASE p = q
    BY <2>1
  <2>2. CASE p = q + Width
    <3> DEFINE a == p + k
    <3>1. a \in Int /\ a - Width = q + k
      BY <2>2, ConSizes
    <3>2. (a - Width) % BufSize = a % BufSize
      BY <3>1, ConSizes, WrapKeepsIndex, Zenon
    <3> QED
      BY <3>1, <3>2
  <2> QED
    BY <2>1, <2>2
<1>2. (q + 0) % BufSize = (p + 0) % BufSize
  BY <1>1
<1>3. q + 0 = q /\ p + 0 = p
  OBVIOUS
<1> QED
  BY <1>1, <1>2, <1>3 DEF Same, Cell

\* What the two parts of a buffer d hold.
Part(d, i, j) == Ring(d, BufSize, i, Con!Minus(j, i))

\* Content, as Console writes it, is such a part.
LEMMA ContentIsPart ==
  ASSUME NEW d, NEW i \in Slots, NEW j \in Slots
  PROVE  [k \in 1..Con!Minus(j, i) |-> d[Con!Plus(i, k - 1) % BufSize]] = Part(d, i, j)
<1>1. Con!Minus(j, i) \in 0..(Width - 1)
  <2>1. Con!Minus(j, i) = IF j >= i THEN j - i ELSE j - i + Width
    BY Ahead
  <2>2. Width \in Nat
    BY ConSizes
  <2> QED
    BY ONLY <2>1, <2>2, i \in Slots, j \in Slots DEF Slots
<1>2. ASSUME NEW k \in 1..Con!Minus(j, i)
      PROVE  d[Con!Plus(i, k - 1) % BufSize] = Cell(d, BufSize, i + k - 1)
  <2>1. k - 1 \in Slots /\ i \in Int /\ i + k - 1 \in Int
    BY <1>1, ConSizes DEF Slots
  <2>2. Con!Plus(i, k - 1) = IF i + (k - 1) < Width THEN i + (k - 1) ELSE i + (k - 1) - Width
    BY <2>1, Further
  <2> DEFINE q == Con!Plus(i, k - 1)
             p == i + k - 1
  <2>3. q \in Int /\ p \in Int /\ (p = q \/ p = q + Width)
    BY <2>1, <2>2, ConSizes
  <2> HIDE DEF q, p
  <2>4. q % BufSize = p % BufSize
    BY <2>3, Lap
  <2> QED
    BY <2>4 DEF q, p, Cell
<1> QED
  BY <1>2 DEF Part, Ring

\* Both parts, before and after a step.
LEMMA Parts ==
  ASSUME InOrder(inr, inw, ine), InOrder(inr', inw', ine')
  PROVE  /\ Con!Content(inw, ine) = Part(inbuf, inw, ine)
         /\ Con!Content(inr, inw) = Part(inbuf, inr, inw)
         /\ Con!Content(inw, ine)' = Part(inbuf', inw', ine')
         /\ Con!Content(inr, inw)' = Part(inbuf', inr', inw')
BY ContentIsPart DEF InOrder, Con!Content, Con!At

\* What the calls of read have so far and ask for, and whose process was killed.
Got == [p \in Users |-> IF Con!Call(p) THEN proc[p].got ELSE <<"bs">>]
Want == [p \in Users |-> IF Con!Call(p) THEN proc[p].n ELSE 0]
Hit == {p \in Users : proc[p].killed}
Inside(x) == x.pc \notin {"user", "write"}

\* No call of read has a backspace.
LEMMA NoBackspace == \A s \in Seq(Vals) : s # <<"bs">>
<1>1. "bs" \notin Vals
  BY ConConstants DEF Con!ConsoleAssumption, Vals, Con!Chars
<1> SUFFICES ASSUME <<"bs">> \in Seq(Vals) PROVE FALSE
  OBVIOUS
<1>2. <<"bs">>[1] = "bs" /\ Len(<<"bs">>) = 1
  OBVIOUS
<1> QED
  BY <1>1, <1>2

\* A step of one call.
LEMMA GotStep ==
  ASSUME ConTyped, NEW p \in Users, NEW x, proc' = [proc EXCEPT ![p] = x]
  PROVE  /\ Got' = [Got EXCEPT ![p] = IF Inside(x) THEN x.got ELSE <<"bs">>]
         /\ Want' = [Want EXCEPT ![p] = IF Inside(x) THEN x.n ELSE 0]
         /\ Hit' = IF x.killed THEN Hit \union {p} ELSE Hit \ {p}
<1>1. Got' = [Got EXCEPT ![p] = IF Inside(x) THEN x.got ELSE <<"bs">>]
  BY DEF ConTyped, Got, Con!Call, Inside
<1>2. Want' = [Want EXCEPT ![p] = IF Inside(x) THEN x.n ELSE 0]
  BY DEF ConTyped, Want, Con!Call, Inside
<1>3. Hit' = IF x.killed THEN Hit \union {p} ELSE Hit \ {p}
  BY DEF ConTyped, Hit
<1> QED
  BY <1>1, <1>2, <1>3

\* What a call has in the terminal, and when that is all it will get.
LEMMA Inner ==
  ASSUME ConInv, NEW p \in Users, Con!Call(p)
  PROVE  /\ Got[p] = proc[p].got /\ Want[p] = proc[p].n /\ Got[p] # <<"bs">>
         /\ Con!T!Served(p) <=> Filled(proc[p])
<1>1. proc[p] \in Calls
  BY DEF ConInv, ConTyped
<1>2. Got[p] = proc[p].got /\ Want[p] = proc[p].n /\ Got[p] # <<"bs">>
  BY <1>1, NoBackspace DEF Got, Want, Calls
<1>3. Con!T!Served(p) <=> Filled(proc[p])
  BY <1>2 DEF Con!T!Served, Con!T!Last, Filled, Got, Want
<1> QED
  BY <1>2, <1>3

\* Appending to the second of two sequences.
Appends(S) == \A s \in Seq(S), t \in Seq(S), c \in S : Append(s \o t, c) = s \o Append(t, c)

\* It is appending to both.
LEMMA AppendLast == ASSUME NEW S PROVE Appends(S)
<1> USE DEF Appends
<1> SUFFICES ASSUME NEW s \in Seq(S), NEW t \in Seq(S), NEW c \in S
             PROVE  Append(s \o t, c) = s \o Append(t, c)
  OBVIOUS
<1> DEFINE u == Append(s \o t, c)
           v == s \o Append(t, c)
<1>1. s \o t \in Seq(S) /\ Append(t, c) \in Seq(S)
  BY ConcatProperties, AppendProperties
<1>2. u \in Seq(S) /\ v \in Seq(S) /\ Len(u) = Len(s) + Len(t) + 1 /\ Len(v) = Len(u)
  BY <1>1, ConcatProperties, AppendProperties
<1>3. ASSUME NEW k \in 1..Len(u) PROVE u[k] = v[k]
  BY <1>1, <1>2
<1> HIDE DEF u, v
<1>4. u = v
  BY <1>2, <1>3, SeqEqual
<1> QED
  BY <1>4 DEF u, v

\* consoleintr puts a character behind the line, and ends the line at '\n', at
\* ^D and when the buffer is full.
LEMMA TypeMaps ==
  ASSUME ConInv, ConInv', NEW c \in Con!Chars, Con!TypeChar(c)
  PROVE  Con!T!Type(c)
<1> DEFINE line == Con!Content(inw, ine)
           ready == Con!Content(inr, inw)
           a == Con!Minus(inw, inr)
           b == Con!Minus(ine, inw)
           f == Con!Plus(ine, 1)
           d == [inbuf EXCEPT ![ine % BufSize] = c]
<1>1. /\ InOrder(inr, inw, ine) /\ InOrder(inr', inw', ine')
      /\ IsRing(inbuf, BufSize, Vals) /\ c \in Vals
      /\ inr \in Int /\ inw \in Int /\ ine \in Int
  <2>1. (ConTyped /\ Con!IndexOrder) /\ (ConTyped /\ Con!IndexOrder)'
    BY DEF ConInv
  <2>2. InOrder(inr', inw', ine')
    BY <2>1 DEF ConTyped, Con!IndexOrder, InOrder, Slots
  <2> QED
    BY <2>1, <2>2, Ordered, ConSizes DEF ConTyped, Slots, Vals
<1>2. /\ inbuf' = d /\ ine' = f /\ inr' = inr /\ Con!Minus(ine, inr) < BufSize
      /\ inw' = IF Con!EndsLine(c) THEN f ELSE inw
      /\ proc' = IF Con!EndsLine(c) THEN Con!Woken ELSE proc
  BY DEF Con!TypeChar, Con!Room
<1>3. /\ a \in Nat /\ b \in Nat /\ Con!Minus(ine, inr) = a + b /\ a + b < BufSize
  BY <1>1, <1>2, Distances
<1>4. /\ Con!Minus(f, inr) = a + b + 1 /\ Con!Minus(f, inw) = b + 1
      /\ Con!Minus(f, f) = 0
      /\ f = Con!Plus(inr, BufSize) <=> a + b + 1 = BufSize
  BY <1>1, <1>2, <1>3, OneMore
<1>5. /\ line = Ring(inbuf, BufSize, inw, b) /\ ready = Ring(inbuf, BufSize, inr, a)
      /\ line' = Ring(d, BufSize, inw', Con!Minus(f, inw'))
      /\ ready' = Ring(d, BufSize, inr, Con!Minus(inw', inr))
  BY <1>1, <1>2, Parts DEF Part
<1>6. /\ ine % BufSize = (inw + b) % BufSize /\ ine % BufSize = (inr + (a + b)) % BufSize
      /\ Same(inbuf, BufSize, inw, inr + a)
  <2>1. /\ Con!Minus(ine, inr) = IF ine >= inr THEN ine - inr ELSE ine - inr + Width
        /\ Con!Minus(inw, inr) = IF inw >= inr THEN inw - inr ELSE inw - inr + Width
        /\ Con!Minus(ine, inw) = IF ine >= inw THEN ine - inw ELSE ine - inw + Width
    BY <1>1, Ahead DEF InOrder
  <2>2. PICK p1 \in Int, p2 \in Int, p3 \in Int : p1 = inw + b /\ p2 = inr + (a + b) /\ p3 = inr + a
    BY <1>1, <1>3
  <2>3. /\ p1 = ine \/ p1 = ine + Width
        /\ p2 = ine \/ p2 = ine + Width
        /\ p3 = inw \/ p3 = inw + Width
    BY <1>1, <1>3, <2>1, <2>2, ConSizes
  <2>4. ine % BufSize = p1 % BufSize /\ ine % BufSize = p2 % BufSize /\ Same(inbuf, BufSize, inw, p3)
    BY <1>1, <2>3, Lap
  <2> QED
    BY <2>2, <2>4
<1>7. line \in Seq(Vals) /\ ready \in Seq(Vals) /\ Len(line) = b /\ Len(ready) = a
  BY <1>1, <1>3, <1>5, RingSeq
<1>8. Got' = Got /\ Want' = Want /\ Hit' = Hit
  <2>1. proc \in [Users -> Calls]
    BY DEF ConInv, ConTyped
  <2>2. \A p \in Users : /\ proc'[p].got = proc[p].got /\ proc'[p].n = proc[p].n
                        /\ proc'[p].killed = proc[p].killed /\ (Con!Call(p)' <=> Con!Call(p))
    BY <1>2, <2>1 DEF Con!Woken, Calls, Con!Call
  <2>3. Got' = Got
    BY ONLY <2>2 DEF Got
  <2>4. Want' = Want
    BY ONLY <2>2 DEF Want
  <2>5. Hit' = Hit
    BY ONLY <2>2, Zenon DEF Hit
  <2> QED
    BY <2>3, <2>4, <2>5
<1>9. Con!EndsLine(c) <=> c \in {"nl", "eof"} \/ Len(ready) + Len(line) + 1 = BufSize
  BY <1>3, <1>4, <1>7 DEF Con!EndsLine
<1> HIDE DEF line, ready, a, b, f, d
<1>10. CASE Con!EndsLine(c)
  <2>1. inw' = f /\ line' = Ring(d, BufSize, f, 0) /\ ready' = Ring(d, BufSize, inr, a + b + 1)
    BY <1>2, <1>4, <1>5, <1>10
  <2>2. line' = <<>>
    BY <2>1 DEF Ring
  <2>3. ready' = Append(Ring(inbuf, BufSize, inr, a + b), c)
    <3>1. PICK m \in Nat : m = a + b
      BY <1>3
    <3>2. /\ IsRing(inbuf, BufSize, Vals) /\ inr \in Int /\ m < BufSize /\ c \in Vals
          /\ ine % BufSize = (inr + m) % BufSize /\ m \in Nat
      BY <1>1, <1>3, <1>6, <3>1
    <3>3. RingGrows(inbuf, BufSize, Vals)
      BY <3>2, RingAppend
    <3>4. Ring([inbuf EXCEPT ![ine % BufSize] = c], BufSize, inr, m + 1)
            = Append(Ring(inbuf, BufSize, inr, m), c)
      BY ONLY <3>2, <3>3, Zenon DEF RingGrows
    <3> QED
      BY <2>1, <3>1, <3>4 DEF d
  <2>4. Ring(inbuf, BufSize, inr, a + b) = ready \o line
    <3>1. /\ IsRing(inbuf, BufSize, Vals) /\ inr \in Int /\ inw \in Int /\ a \in Nat /\ b \in Nat
          /\ Same(inbuf, BufSize, inw, inr + a)
      BY <1>1, <1>3, <1>6
    <3>2. Ring(inbuf, BufSize, inr, a + b) = Ring(inbuf, BufSize, inr, a) \o Ring(inbuf, BufSize, inw, b)
      BY ONLY <3>1, RingSplit
    <3> QED
      BY <1>5, <3>2
  <2>5. ready' = ready \o Append(line, c)
    <3>1. ready \in Seq(Vals) /\ line \in Seq(Vals) /\ c \in Vals
      BY <1>1, <1>7
    <3>2. Appends(Vals)
      BY AppendLast
    <3>3. Append(ready \o line, c) = ready \o Append(line, c)
      BY ONLY <3>1, <3>2, Zenon DEF Appends
    <3> QED
      BY <2>3, <2>4, <3>3
  <2> QED
    BY <1>3, <1>7, <1>8, <1>9, <1>10, <2>2, <2>5 DEF Con!T!Type, Con!T!calls, line, ready, Got, Want, Hit
<1>11. CASE ~Con!EndsLine(c)
  <2>1. inw' = inw /\ line' = Ring(d, BufSize, inw, b + 1) /\ ready' = Ring(d, BufSize, inr, a)
    BY <1>2, <1>4, <1>5, <1>11 DEF a
  <2>2. line' = Append(line, c)
    <3>1. /\ IsRing(inbuf, BufSize, Vals) /\ inw \in Int /\ b < BufSize /\ c \in Vals
          /\ ine % BufSize = (inw + b) % BufSize /\ b \in Nat
      BY <1>1, <1>3, <1>6, ConSizes
    <3>2. RingGrows(inbuf, BufSize, Vals)
      BY <3>1, RingAppend
    <3>3. Ring([inbuf EXCEPT ![ine % BufSize] = c], BufSize, inw, b + 1)
            = Append(Ring(inbuf, BufSize, inw, b), c)
      BY ONLY <3>1, <3>2, Zenon DEF RingGrows
    <3> QED
      BY <1>5, <2>1, <3>3 DEF d
  <2>3. ready' = ready
    <3>1. a + b \in Nat /\ a <= a + b
      BY <1>3
    <3> QED
      BY <1>1, <1>3, <1>5, <1>6, <2>1, <3>1, RingKeeps DEF d
  <2> QED
    BY <1>3, <1>7, <1>8, <1>9, <1>11, <2>2, <2>3 DEF Con!T!Type, Con!T!calls, line, ready, Got, Want, Hit
<1> QED
  BY <1>10, <1>11

\* Backspace takes the last character of the line.
LEMMA EraseMaps ==
  ASSUME ConInv, ConInv', Con!Backspace PROVE Con!T!Erase
<1> DEFINE line == Con!Content(inw, ine)
           ready == Con!Content(inr, inw)
           b == Con!Minus(ine, inw)
<1>1. /\ InOrder(inr, inw, ine) /\ InOrder(inr', inw', ine')
      /\ IsRing(inbuf, BufSize, Vals) /\ inw \in Int
  <2>1. (ConTyped /\ Con!IndexOrder) /\ (ConTyped /\ Con!IndexOrder)'
    BY DEF ConInv
  <2>2. InOrder(inr', inw', ine')
    BY <2>1 DEF ConTyped, Con!IndexOrder, InOrder, Slots
  <2> QED
    BY <2>1, <2>2, Ordered, ConSizes DEF ConTyped, Slots
<1>2. /\ ine' = Con!Minus(ine, 1) /\ ine # inw /\ inbuf' = inbuf /\ inr' = inr /\ inw' = inw
      /\ proc' = proc
  BY DEF Con!Backspace, Con!Editable
<1>3. b \in Nat /\ b > 0 /\ Con!Minus(Con!Minus(ine, 1), inw) = b - 1
  BY <1>1, <1>2, Distances, OneErased
<1>4. line = Ring(inbuf, BufSize, inw, b) /\ line' = Ring(inbuf, BufSize, inw, b - 1) /\ ready' = ready
  BY <1>1, <1>2, <1>3, Parts DEF Part
<1>5. Got' = Got /\ Want' = Want /\ Hit' = Hit
  BY <1>2 DEF Got, Want, Hit, Con!Call
<1> HIDE DEF b
<1>6. /\ Ring(inbuf, BufSize, inw, b) # <<>>
      /\ Ring(inbuf, BufSize, inw, b - 1)
           = SubSeq(Ring(inbuf, BufSize, inw, b), 1, Len(Ring(inbuf, BufSize, inw, b)) - 1)
  BY <1>1, <1>3, RingFront
<1>7. line # <<>> /\ line' = SubSeq(line, 1, Len(line) - 1)
  BY <1>4, <1>6
<1> QED
  BY <1>4, <1>5, <1>7 DEF Con!T!Erase, Con!T!Front, Con!T!calls, Got, Want, Hit

\* ^U empties the line.
LEMMA KillMaps ==
  ASSUME ConInv, ConInv', Con!KillLine PROVE Con!T!Kill
<1> DEFINE line == Con!Content(inw, ine)
           ready == Con!Content(inr, inw)
<1>1. InOrder(inr, inw, ine) /\ InOrder(inr', inw', ine')
  <2>1. (ConTyped /\ Con!IndexOrder) /\ (ConTyped /\ Con!IndexOrder)'
    BY DEF ConInv
  <2>2. InOrder(inr', inw', ine')
    BY <2>1 DEF ConTyped, Con!IndexOrder, InOrder, Slots
  <2> QED
    BY <2>1, <2>2, Ordered
<1>2. ine' = inw /\ inbuf' = inbuf /\ inr' = inr /\ inw' = inw /\ proc' = proc
  BY DEF Con!KillLine
<1>3. line' = Ring(inbuf, BufSize, inw, 0) /\ ready' = ready
  BY <1>1, <1>2, Parts, Distances DEF Part
<1>4. line' = <<>>
  BY <1>3 DEF Ring
<1>5. Got' = Got /\ Want' = Want /\ Hit' = Hit
  BY <1>2 DEF Got, Want, Hit, Con!Call
<1> QED
  BY <1>3, <1>4, <1>5 DEF Con!T!Kill, Con!T!calls, Got, Want, Hit

\* A step that leaves the buffer alone leaves both its parts alone.
LEMMA SameParts ==
  ASSUME UNCHANGED <<inbuf, inr, inw, ine>>
  PROVE  UNCHANGED <<Con!Content(inw, ine), Con!Content(inr, inw)>>
BY DEF Con!Content, Con!At

\* consoleread takes the next character, or ends the call.
LEMMA ReadMaps ==
  ASSUME ConInv, ConInv', NEW p \in Users, Con!ReadChar(p)
  PROVE  Con!T!Take(p) \/ Con!T!AtMark(p)
<1> DEFINE line == Con!Content(inw, ine)
           ready == Con!Content(inr, inw)
           a == Con!Minus(inw, inr)
           c == Con!At(inr)
           got == Append(proc[p].got, c)
<1>1. /\ InOrder(inr, inw, ine) /\ InOrder(inr', inw', ine')
      /\ IsRing(inbuf, BufSize, Vals) /\ inr \in Slots /\ inr \in Int
      /\ ConTyped /\ proc[p] \in Calls /\ CallOK(proc[p])
  <2>1. (ConTyped /\ GotOK /\ Con!IndexOrder) /\ (ConTyped /\ Con!IndexOrder)'
    BY DEF ConInv
  <2>2. InOrder(inr', inw', ine')
    BY <2>1 DEF ConTyped, Con!IndexOrder, InOrder, Slots
  <2> QED
    BY <2>1, <2>2, Ordered, ConSizes DEF ConTyped, Slots, GotOK
<1>2. /\ inbuf' = inbuf /\ inw' = inw /\ ine' = ine /\ inr # inw /\ proc[p].pc = "read"
      /\ inr' = IF c = "eof" /\ proc[p].got # <<>> THEN inr ELSE Con!Plus(inr, 1)
  BY DEF Con!ReadChar, Con!KeepsEof
<1>3. /\ a \in Nat /\ a > 0 /\ Con!Minus(inw, Con!Plus(inr, 1)) = a - 1
      /\ Con!Plus(inr, 1) = inr + 1 \/ Con!Plus(inr, 1) + Width = inr + 1
  BY <1>1, <1>2, Distances, OneRead
<1>4. /\ ready = Ring(inbuf, BufSize, inr, a)
      /\ ready' = Ring(inbuf, BufSize, inr', Con!Minus(inw, inr'))
      /\ line' = line
  BY <1>1, <1>2, Parts DEF Part
<1>5. /\ ready # <<>> /\ Head(ready) = c
      /\ Tail(ready) = Ring(inbuf, BufSize, Con!Plus(inr, 1), a - 1)
  <2>1. PICK q \in Int, m \in Int : q = Con!Plus(inr, 1) /\ m = inr + 1
    <3>1. Con!Plus(inr, 1) \in Slots
      <4>1. 1 \in Slots
        BY ConSizes DEF Slots
      <4>2. Con!Plus(inr, 1) = IF inr + 1 < Width THEN inr + 1 ELSE inr + 1 - Width
        BY <1>1, <4>1, Further
      <4> QED
        BY <1>1, <4>2, ConSizes DEF Slots
    <3> QED
      BY <1>1, <3>1, ConSizes DEF Slots
  <2>2. Same(inbuf, BufSize, q, m)
    BY <1>1, <1>3, <2>1, ConSizes, Lap
  <2> HIDE DEF a
  <2>3. IsRing(inbuf, BufSize, Vals) /\ inr \in Int /\ q \in Int /\ a \in Nat /\ a > 0
        /\ Same(inbuf, BufSize, q, inr + 1)
    BY <1>1, <1>3, <2>1, <2>2
  <2>4. /\ Ring(inbuf, BufSize, inr, a) # <<>>
        /\ Head(Ring(inbuf, BufSize, inr, a)) = Cell(inbuf, BufSize, inr)
        /\ Tail(Ring(inbuf, BufSize, inr, a)) = Ring(inbuf, BufSize, q, a - 1)
    BY <2>3, RingTail
  <2> QED
    BY <1>4, <2>1, <2>4 DEF Con!At, Cell
<1>6. /\ Got[p] = proc[p].got /\ Want[p] = proc[p].n /\ Got[p] # <<"bs">> /\ ~Con!T!Served(p)
  BY <1>1, <1>2, Inner DEF Con!Call, CallOK, Going
<1>7. CASE c = "eof"
  <2>1. proc' = [proc EXCEPT ![p] = Con!Free]
    BY <1>7 DEF Con!ReadChar, Con!Return
  <2>2. Got' = [Got EXCEPT ![p] = <<"bs">>] /\ Want' = [Want EXCEPT ![p] = 0] /\ Hit' = Hit \ {p}
    <3>1. ~Inside(Con!Free) /\ Con!Free.killed = FALSE
      BY DEF Con!Free, Inside
    <3> QED
      BY <1>1, <2>1, <3>1, GotStep
  <2>3. ready' = IF Got[p] = <<>> THEN Tail(ready) ELSE ready
    BY <1>2, <1>3, <1>4, <1>5, <1>6, <1>7
  <2> HIDE DEF line, ready, c
  <2>4. Con!T!AtMark(p)
    BY <1>4, <1>5, <1>6, <1>7, <2>2, <2>3 DEF Con!T!AtMark, Con!T!Over, Got, Want, Hit, line, ready
  <2> QED
    BY <2>4
<1>8. CASE c # "eof"
  <2>1. PICK k \in {"done", "read"} :
          proc' = [proc EXCEPT ![p].got = got, ![p].pc = k]
    BY <1>8 DEF Con!ReadChar
  <2> DEFINE x == [proc[p] EXCEPT !.got = got, !.pc = k]
  <2> HIDE DEF got
  <2>2. /\ Inside(x) /\ x.got = got /\ x.n = proc[p].n /\ x.killed = proc[p].killed
        /\ proc' = [proc EXCEPT ![p] = x]
    BY <1>1, <2>1 DEF ConTyped, Calls, Inside
  <2> HIDE DEF x
  <2>3. /\ Got' = [Got EXCEPT ![p] = got]
        /\ Want' = [Want EXCEPT ![p] = proc[p].n]
        /\ Hit' = IF proc[p].killed THEN Hit \union {p} ELSE Hit \ {p}
    BY <1>1, <2>2, GotStep
  <2>4. Got' = [Got EXCEPT ![p] = Append(@, Head(ready))] /\ Want' = Want /\ Hit' = Hit
    <3>1. Want' = Want
      BY <1>6, <2>3 DEF Want
    <3>2. Hit' = Hit
      BY <2>3 DEF Hit
    <3> QED
      BY <1>5, <1>6, <2>3, <3>1, <3>2 DEF got, Got
  <2>5. ready' = Tail(ready)
    BY <1>2, <1>3, <1>4, <1>5, <1>8
  <2> HIDE DEF line, ready, c
  <2>6. Con!T!Take(p)
    BY <1>4, <1>5, <1>6, <1>8, <2>4, <2>5 DEF Con!T!Take, Got, Want, Hit, line, ready
  <2> QED
    BY <2>6
<1> QED
  BY <1>7, <1>8

\* The other steps of a call: nothing the terminal sees, a call that begins, a
\* kill, and a call that ends.
Quiet(x, y) == /\ Inside(x) <=> Inside(y)
               /\ Inside(x) => x.got = y.got /\ x.n = y.n
               /\ x.killed = y.killed
Begins(x, y) == /\ x.pc = "user" /\ ~x.killed
                /\ Inside(y) /\ y.got = <<>> /\ y.n \in 1..MaxRead /\ ~y.killed
Hits(x, y) == Inside(x) /\ Inside(y) /\ x.got = y.got /\ x.n = y.n /\ y.killed
CallEnds(x, y) == /\ ~Inside(y) /\ ~y.killed
                  /\ x.pc = "done" \/ (x.pc = "read" /\ x.killed /\ inr = inw)

LEMMA CallMaps ==
  ASSUME ConInv, NEW p \in Users, UNCHANGED <<inbuf, inr, inw, ine>>,
         NEW x, proc' = [proc EXCEPT ![p] = x],
         Quiet(proc[p], x) \/ Begins(proc[p], x) \/ Hits(proc[p], x) \/ CallEnds(proc[p], x)
  PROVE  Con!T!Next \/ UNCHANGED Con!T!tvars
<1> DEFINE line == Con!Content(inw, ine)
           ready == Con!Content(inr, inw)
<1>1. UNCHANGED <<line, ready>>
  BY SameParts
<1>2. ConTyped /\ proc[p] \in Calls /\ CallOK(proc[p]) /\ InOrder(inr, inw, ine)
  BY Ordered DEF ConInv, ConTyped, GotOK
<1>3. /\ Got' = [Got EXCEPT ![p] = IF Inside(x) THEN x.got ELSE <<"bs">>]
      /\ Want' = [Want EXCEPT ![p] = IF Inside(x) THEN x.n ELSE 0]
      /\ Hit' = IF x.killed THEN Hit \union {p} ELSE Hit \ {p}
  BY <1>2, GotStep
<1>4. /\ Got[p] = IF Inside(proc[p]) THEN proc[p].got ELSE <<"bs">>
      /\ Want[p] = IF Inside(proc[p]) THEN proc[p].n ELSE 0
      /\ p \in Hit <=> proc[p].killed
  BY DEF Got, Want, Hit, Inside, Con!Call
<1> HIDE DEF line, ready
<1>5. CASE Quiet(proc[p], x)
  <2>1. Got' = Got
    BY <1>3, <1>4, <1>5 DEF Got, Quiet
  <2>2. Want' = Want
    BY <1>3, <1>4, <1>5 DEF Want, Quiet
  <2>3. Hit' = Hit
    BY <1>3, <1>4, <1>5 DEF Quiet
  <2> QED
    BY <1>1, <2>1, <2>2, <2>3 DEF Con!T!tvars, Got, Want, Hit, line, ready
<1>6. CASE Begins(proc[p], x)
  <2>1. /\ Got[p] = <<"bs">> /\ Got' = [Got EXCEPT ![p] = <<>>]
        /\ Want' = [Want EXCEPT ![p] = x.n] /\ Hit' = Hit /\ x.n \in 1..MaxRead
    BY <1>3, <1>4, <1>6 DEF Begins, Inside
  <2>2. Con!T!Begin(p, x.n)
    BY <1>1, <2>1 DEF Con!T!Begin, Got, Want, Hit, line, ready
  <2> QED
    BY <2>1, <2>2 DEF Con!T!Next
<1>7. CASE Hits(proc[p], x)
  <2>1. Con!Call(p)
    BY <1>7 DEF Hits, Inside, Con!Call
  <2>2. Got[p] # <<"bs">>
    BY <2>1, Inner
  <2>3. Got' = Got
    BY <1>3, <1>4, <1>7 DEF Got, Hits
  <2>4. Want' = Want
    BY <1>3, <1>4, <1>7 DEF Want, Hits
  <2>5. Hit' = Hit \union {p}
    BY <1>3, <1>7 DEF Hits
  <2>6. Con!T!Interrupt(p)
    BY <1>1, <2>2, <2>3, <2>4, <2>5 DEF Con!T!Interrupt, Got, Want, Hit, line, ready
  <2> QED
    BY <2>6 DEF Con!T!Next
<1>8. CASE CallEnds(proc[p], x)
  <2>1. Con!Call(p)
    BY <1>8 DEF CallEnds, Con!Call
  <2>2. Got[p] # <<"bs">> /\ (Con!T!Served(p) <=> Filled(proc[p]))
    BY <2>1, Inner
  <2>3. Got' = [Got EXCEPT ![p] = <<"bs">>] /\ Want' = [Want EXCEPT ![p] = 0] /\ Hit' = Hit \ {p}
    BY <1>3, <1>8 DEF CallEnds
  <2>4. Con!T!Over(p)
    BY <1>1, <2>3 DEF Con!T!Over, Got, Want, Hit, line
  <2>5. CASE proc[p].pc = "done"
    <3>1. Con!T!Served(p)
      BY <1>2, <2>2, <2>5 DEF CallOK
    <3>2. Con!T!Return(p)
      BY <1>1, <2>2, <2>4, <3>1 DEF Con!T!Return, Got, ready
    <3> QED
      BY <3>2 DEF Con!T!Next
  <2>6. CASE proc[p].pc = "read" /\ proc[p].killed /\ inr = inw
    <3>1. ~Con!T!Served(p)
      BY <1>2, <2>2, <2>6 DEF CallOK, Going
    <3>2. ready = <<>>
      <4>1. Con!Minus(inw, inr) = 0
        BY <1>2, <2>6, Distances
      <4> QED
        BY <4>1 DEF ready, Con!Content
    <3>3. p \in Hit
      BY <1>4, <2>6
    <3>4. Con!T!Abort(p)
      BY <1>1, <2>2, <2>4, <3>1, <3>2, <3>3 DEF Con!T!Abort, Got, Hit, ready
    <3> QED
      BY <3>4 DEF Con!T!Next
  <2> QED
    BY <1>8, <2>5, <2>6 DEF CallEnds
<1> QED
  BY <1>5, <1>6, <1>7, <1>8

\* Every step of the console is one of the terminal, or none.
LEMMA ConMaps == ConInv /\ ConInv' /\ [Con!Next]_(Con!vars) => [Con!T!Next]_(Con!T!tvars)
<1> SUFFICES ASSUME ConInv, ConInv', [Con!Next]_(Con!vars)
             PROVE  Con!T!Next \/ UNCHANGED Con!T!tvars
  OBVIOUS
<1>0. proc \in [Users -> Calls] /\ GotOK
  BY DEF ConInv, ConTyped
<1>1. ASSUME NEW c \in Con!Chars, Con!TypeChar(c) PROVE Con!T!Next
  BY <1>1, TypeMaps DEF Con!T!Next
<1>2. CASE Con!Backspace
  BY <1>2, EraseMaps DEF Con!T!Next
<1>3. CASE Con!KillLine
  BY <1>3, KillMaps DEF Con!T!Next
<1>4. ASSUME NEW p \in Users, Con!Steps(p) \/ Con!Calls(p)
      PROVE  Con!T!Next \/ UNCHANGED Con!T!tvars
  <2> DEFINE Fits(x) == Quiet(proc[p], x) \/ Begins(proc[p], x) \/ Hits(proc[p], x) \/ CallEnds(proc[p], x)
  <2>0. proc[p] \in Calls /\ CallOK(proc[p])
    BY <1>0 DEF GotOK
  <2>1. ASSUME NEW x, UNCHANGED <<inbuf, inr, inw, ine>>,
               proc' = [proc EXCEPT ![p] = x], Fits(x)
        PROVE  Con!T!Next \/ UNCHANGED Con!T!tvars
    BY <2>1, CallMaps
  <2> HIDE DEF Fits
  <2>2. ASSUME NEW k, Con!Goto(p, k), UNCHANGED <<inbuf, inr, inw, ine>>,
               k \notin {"user", "write"}, proc[p].pc \notin {"user", "write"}
        PROVE  Con!T!Next \/ UNCHANGED Con!T!tvars
    <3> DEFINE x == [proc[p] EXCEPT !.pc = k]
    <3>1. /\ x.pc = k /\ x.got = proc[p].got /\ x.n = proc[p].n /\ x.killed = proc[p].killed
          /\ proc' = [proc EXCEPT ![p] = x]
      BY <1>0, <2>0, <2>2 DEF Con!Goto, Calls
    <3> HIDE DEF x
    <3>2. Fits(x)
      BY <2>2, <3>1 DEF Fits, Quiet, Inside
    <3> QED
      BY <2>1, <2>2, <3>1, <3>2
  <2>3. ASSUME Con!Return(p), UNCHANGED <<inbuf, inr, inw, ine>>,
               \/ proc[p].pc = "write" \/ proc[p].pc = "done"
               \/ proc[p].pc = "read" /\ proc[p].killed /\ inr = inw
        PROVE  Con!T!Next \/ UNCHANGED Con!T!tvars
    <3>1. /\ Con!Free.pc = "user" /\ Con!Free.killed = FALSE
          /\ proc' = [proc EXCEPT ![p] = Con!Free]
      BY <2>3 DEF Con!Free, Con!Return
    <3>2. Fits(Con!Free)
      <4>1. CASE proc[p].pc = "write"
        <5>1. proc[p].killed = FALSE
          BY <2>0, <4>1 DEF CallOK, Calls
        <5> QED
          BY <3>1, <4>1, <5>1 DEF Fits, Quiet, Inside
      <4>2. CASE proc[p].pc # "write"
        BY <2>3, <3>1, <4>2 DEF Fits, CallEnds, Inside
      <4> QED
        BY <4>1, <4>2
    <3> QED
      BY <2>1, <2>3, <3>1, <3>2
  <2>4. ASSUME NEW k \in {"read", "write"}, NEW n \in 1..MaxRead, proc[p].pc = "user",
               proc' = [proc EXCEPT ![p] = [@ EXCEPT !.pc = k, !.n = n]],
               UNCHANGED <<inbuf, inr, inw, ine>>
        PROVE  Con!T!Next \/ UNCHANGED Con!T!tvars
    <3> DEFINE x == [proc[p] EXCEPT !.pc = k, !.n = n]
    <3>1. /\ x.pc = k /\ x.got = <<>> /\ x.n = n /\ x.killed = FALSE /\ proc[p].killed = FALSE
          /\ proc' = [proc EXCEPT ![p] = x]
      BY <2>0, <2>4 DEF Calls, CallOK
    <3> HIDE DEF x
    <3>2. Fits(x)
      <4>1. CASE k = "write"
        BY <2>4, <3>1, <4>1 DEF Fits, Quiet, Inside
      <4>2. CASE k = "read"
        BY <2>4, <3>1, <4>2 DEF Fits, Begins, Inside
      <4> QED
        BY <4>1, <4>2
    <3> QED
      BY <2>1, <2>4, <3>1, <3>2
  <2>5. CASE Con!ReadTest(p)
    BY <2>2, <2>3, <2>5 DEF Con!ReadTest
  <2>6. CASE Con!ReadSleep(p)
    BY <2>2, <2>6 DEF Con!ReadSleep
  <2>7. CASE Con!ReadAgain(p)
    BY <2>2, <2>7 DEF Con!ReadAgain
  <2>8. CASE Con!ReadReturn(p)
    <3>1. Con!Return(p) /\ UNCHANGED <<inbuf, inr, inw, ine>> /\ proc[p].pc = "done"
      BY <2>8 DEF Con!ReadReturn
    <3> QED
      BY <2>3, <3>1
  <2>9. CASE Con!WriteReturn(p)
    <3>1. Con!Return(p) /\ UNCHANGED <<inbuf, inr, inw, ine>> /\ proc[p].pc = "write"
      BY <2>9 DEF Con!WriteReturn
    <3> QED
      BY <2>3, <3>1
  <2>10. ASSUME NEW n \in 1..MaxRead, Con!ReadStart(p, n) PROVE Con!T!Next \/ UNCHANGED Con!T!tvars
    BY <2>4, <2>10 DEF Con!ReadStart
  <2>11. ASSUME NEW n \in 1..MaxRead, Con!WriteStart(p, n) PROVE Con!T!Next \/ UNCHANGED Con!T!tvars
    BY <2>4, <2>11 DEF Con!WriteStart
  <2>12. CASE Con!Kill(p)
    <3> DEFINE x == [proc[p] EXCEPT !.killed = TRUE, !.pc = IF @ = "asleep" THEN "woken" ELSE @]
    <3>1. /\ Inside(x) /\ x.got = proc[p].got /\ x.n = proc[p].n /\ Inside(proc[p])
          /\ x.killed = TRUE /\ proc' = [proc EXCEPT ![p] = x]
      BY <1>0, <2>0, <2>12 DEF Con!Kill, Calls, Inside
    <3>2. UNCHANGED <<inbuf, inr, inw, ine>>
      BY <2>12 DEF Con!Kill
    <3> HIDE DEF x
    <3>3. Fits(x)
      BY <3>1 DEF Fits, Hits
    <3> QED
      BY <2>1, <3>1, <3>2, <3>3
  <2>13. ASSUME NEW c \in Con!Chars, Con!WriteChar(p, c) PROVE Con!T!Next \/ UNCHANGED Con!T!tvars
    <3> DEFINE x == [proc[p] EXCEPT !.n = @ - 1]
    <3>1. /\ x.pc = "write" /\ proc[p].pc = "write" /\ x.killed = proc[p].killed
          /\ proc' = [proc EXCEPT ![p] = x]
      BY <1>0, <2>0, <2>13 DEF Con!WriteChar, Calls
    <3>2. UNCHANGED <<inbuf, inr, inw, ine>>
      BY <2>13 DEF Con!WriteChar
    <3> HIDE DEF x
    <3>3. Fits(x)
      BY <3>1 DEF Fits, Quiet, Inside
    <3> QED
      BY <2>1, <3>1, <3>2, <3>3
  <2>14. CASE Con!ReadChar(p)
    BY <2>14, ReadMaps DEF Con!T!Next
  <2> QED
    BY <1>4, <2>5, <2>6, <2>7, <2>8, <2>9, <2>10, <2>11, <2>12, <2>13, <2>14 DEF Con!Steps, Con!Calls
<1>5. CASE UNCHANGED Con!vars
  BY <1>5, SameParts DEF Con!vars, Con!T!tvars, Con!Call
<1> QED
  BY <1>1, <1>2, <1>3, <1>4, <1>5 DEF Con!Next, Con!Typing

\* Typing, editing and reading through the circular buffer is what the terminal
\* promises: nothing is lost, doubled or reordered, ended lines stay, and a read
\* returns at the end of a line, with n characters, at ^D or when killed.
THEOREM RefinesTerminal == Con!Spec => ImplementsTerminal
<1>1. Con!Init => Con!T!Init
  <2> SUFFICES ASSUME Con!Init PROVE Con!T!Init
    OBVIOUS
  <2>1. 0 \in Slots
    BY ConSizes DEF Slots
  <2>2. Con!Minus(0, 0) = 0
    BY <2>1, Ahead
  <2>3. Con!Content(inw, ine) = <<>> /\ Con!Content(inr, inw) = <<>>
    BY <2>2 DEF Con!Init, Con!Content
  <2>4. Got = [p \in Users |-> <<"bs">>] /\ Want = [p \in Users |-> 0] /\ Hit = {}
    BY DEF Con!Init, Con!Free, Got, Want, Hit, Con!Call
  <2> QED
    BY <2>3, <2>4 DEF Con!T!Init, Got, Want, Hit
<1>2. ConInv /\ ConInv' /\ [Con!Next]_(Con!vars) => [Con!T!Next]_(Con!T!tvars)
  BY ConMaps
<1> QED
  BY <1>1, <1>2, ConInvariance, PTL DEF Con!Spec, ImplementsTerminal, Con!ImplementsTerminal, Con!T!Spec
=============================================================================
