----------------------------- MODULE ProcQuery -----------------------------
(***************************************************************************)
(* The system calls that ex2 adds to the kernel: getppid, getpppid and     *)
(* get_proc_data.  They read the process table without its lock, one field *)
(* at a time, while fork, exit, wait and kill of module Proc change it.    *)
(*                                                                         *)
(* The calls change nothing but the caller's own memory, so one caller at  *)
(* a time is enough: two do not notice each other.                         *)
(***************************************************************************)
EXTENDS Proc, Sequences

CONSTANTS MAX_CHILDREN    \* the length of proc_data's array of pids

ASSUME QueryAssumption == MAX_CHILDREN \in Nat

VARIABLES
  asker,      \* the slot of the caller, 0 when there is none
  call,       \* what it called
  phase,      \* where the call is
  arg,        \* the pid get_proc_data is asked about
  idx,        \* the slot a scan looks at
  cur,        \* the slot found: a process, a parent
  pids,       \* what getchildrenpid has stored
  ans,        \* what getppid or getpppid returns
  always      \* for the properties: what has been true all through the call

qVars == <<asker, call, phase, arg, idx, cur, pids, ans, always>>
allVars == <<vars, qVars>>

QInit ==
  /\ Init
  /\ asker = 0 /\ call = "none" /\ phase = "none" /\ arg = 0 /\ idx = 1 /\ cur = 0
  /\ pids = <<>> /\ ans = 0
  /\ always = {}

Pids(S) == {pid[p] : p \in S}

\* For the properties, the true answer to a call by p about n: the pids of
\* the children of n, of p's parent or of p's grandparent.
Truth(p, what, n) ==
  CASE what = "get_proc_data" ->
         Pids({c \in Slots : parent[c] # 0 /\ pid[parent[c]] = n})
    [] what = "getppid"  -> Pids({parent[p]})
    [] what = "getpppid" -> Pids({parent[parent[p]]} \ {0})
    [] OTHER -> {}

Asking(ph) == asker # 0 /\ At(asker, "user") /\ phase = ph

\* A step of the call that is under way; it leaves the table alone.
Query(ph) == Asking(ph) /\ UNCHANGED <<vars, asker, call, arg, always>>

-----------------------------------------------------------------------------
(* get_proc_data *)

GetProcData(p) ==
  /\ asker = 0 /\ At(p, "user") /\ ~killed[p]
  /\ asker' = p /\ call' = "get_proc_data"
  /\ arg' \in 1..MaxPid
  /\ phase' = "find" /\ idx' = 1
  /\ always' = Truth(p, call', arg')
  /\ UNCHANGED <<vars, cur, pids, ans>>

\* One slot of getprocbypid's scan, in sys_get_proc_data and again in
\* getchildrenpid: found goes on at the next phase, else the scan goes on.
Scan(ph, found) ==
  /\ Query(ph) /\ idx <= NPROC
  /\ IF pid[idx] = arg
     THEN phase' = found /\ cur' = idx /\ idx' = 1
     ELSE idx' = idx + 1 /\ UNCHANGED <<phase, cur>>
  /\ UNCHANGED <<pids, ans>>

FindProc == Scan("find", "check")

\* Not found: -1.
FindFails ==
  /\ Query("find") /\ idx > NPROC
  /\ phase' = "error"
  /\ UNCHANGED <<idx, cur, pids, ans>>

\* p->state == UNUSED: -1.
CheckState ==
  /\ Query("check")
  /\ phase' = IF state[cur] = "UNUSED" THEN "error" ELSE "again"
  /\ UNCHANGED <<idx, cur, pids, ans>>

FindAgain == Scan("again", "kids")

\* The process is gone: getchildrenpid looks for the children of nobody.
FindAgainFails ==
  /\ Query("again") /\ idx > NPROC
  /\ phase' = "kids" /\ cur' = 0 /\ idx' = 1
  /\ UNCHANGED <<pids, ans>>

\* Mutant: the last slot is not looked at.
KidTest_OneShort ==
  /\ Query("kids") /\ idx <= NPROC
  /\ IF parent[idx] = cur /\ idx < NPROC
     THEN phase' = "kid" /\ UNCHANGED idx
     ELSE idx' = idx + 1 /\ UNCHANGED phase
  /\ UNCHANGED <<cur, pids, ans>>

\* p->parent == curproc
KidTest ==
  /\ Query("kids") /\ idx <= NPROC
  /\ IF parent[idx] = cur
     THEN phase' = "kid" /\ UNCHANGED idx
     ELSE idx' = idx + 1 /\ UNCHANGED phase
  /\ UNCHANGED <<cur, pids, ans>>

\* Mutant: the slot after a child is passed over.
KidStore_Skips ==
  /\ Query("kid")
  /\ pids' = Append(pids, pid[idx])
  /\ idx' = idx + 2
  /\ phase' = "kids"
  /\ UNCHANGED <<cur, ans>>

\* children[numchildren++] = p->pid, wherever that is.
KidStore ==
  /\ Query("kid")
  /\ pids' = Append(pids, pid[idx])
  /\ idx' = idx + 1
  /\ phase' = "kids"
  /\ UNCHANGED <<cur, ans>>

KidsEnd ==
  /\ Query("kids") /\ idx > NPROC
  /\ phase' = "data"
  /\ UNCHANGED <<idx, cur, pids, ans>>

-----------------------------------------------------------------------------
(* getppid, getpppid *)

\* myproc()->parent.  Init, which has none, does not ask.
ReadParent(p, what) ==
  /\ asker = 0 /\ At(p, "user") /\ ~killed[p] /\ p # initproc
  /\ asker' = p /\ call' = what
  /\ cur' = parent[p]
  /\ phase' = IF what = "getppid" THEN "pid" ELSE "parent"
  /\ always' = Truth(p, what, 0)
  /\ UNCHANGED <<vars, arg, idx, pids, ans>>

GetPpid(p)  == ReadParent(p, "getppid")
GetPppid(p) == ReadParent(p, "getpppid")

\* Mutant: the grandparent is not read.
ReadGrandparent_Parent ==
  /\ Query("parent")
  /\ phase' = "pid"
  /\ UNCHANGED <<idx, cur, pids, ans>>

\* myproc()->parent->parent, which is 0 when the parent is init, or is no
\* longer a process: -1.
ReadGrandparent ==
  /\ Query("parent")
  /\ IF parent[cur] = 0
     THEN phase' = "answer" /\ ans' = -1 /\ UNCHANGED cur
     ELSE phase' = "pid" /\ cur' = parent[cur] /\ UNCHANGED ans
  /\ UNCHANGED <<idx, pids>>

\* The pid of the process found.
ReadPid ==
  /\ Query("pid")
  /\ ans' = pid[cur]
  /\ phase' = "answer"
  /\ UNCHANGED <<idx, cur, pids>>

-----------------------------------------------------------------------------

\* The call returns to the caller.
Return ==
  /\ phase \in {"error", "data", "answer"}
  /\ Asking(phase)
  /\ asker' = 0 /\ call' = "none" /\ phase' = "none" /\ arg' = 0 /\ idx' = 1 /\ cur' = 0
  /\ pids' = <<>> /\ ans' = 0 /\ always' = {}
  /\ UNCHANGED vars

QueryStep ==
  \/ FindProc \/ FindFails \/ CheckState \/ FindAgain \/ FindAgainFails
  \/ KidTest \/ KidStore \/ KidsEnd
  \/ ReadGrandparent \/ ReadPid \/ Return

\* The rest of the kernel goes on; only the caller itself is busy.
TableStep ==
  /\ \E p \in Slots : Sched(p) \/ Yield(p) \/ Kernel(p) \/ (p # asker /\ User(p))
  /\ UNCHANGED <<asker, call, phase, arg, idx, cur, pids, ans>>
  /\ always' = always \cap Truth(asker, call, arg)'

QNext ==
  \/ TableStep
  \/ QueryStep
  \/ \E p \in Slots : GetProcData(p) \/ GetPpid(p) \/ GetPppid(p)

QSpec == QInit /\ [][QNext]_allVars

\* A query does not hold the table up: the fairness is that of Proc.
QFairSpec == QSpec /\ Fairness

-----------------------------------------------------------------------------
(* Properties *)

\* The type invariant of a call under way.
QTypeOK ==
  /\ asker \in 0..NPROC
  /\ arg \in Nat
  /\ idx \in 1..(NPROC + 1)
  /\ cur \in 0..NPROC
  /\ pids \in Seq(Nat)
  /\ ans \in Nat \cup {-1}
  /\ always \subseteq Nat

\* get_proc_data leaves nobody out: a process that was a child of the one
\* asked about all through the call is in the answer, whatever other
\* processes do to the table between two of its unlocked reads.
QueryComplete ==
  phase = "data" => \A n \in always : \E k \in 1..Len(pids) : pids[k] = n

\* getppid and getpppid name the right ancestor unless an exit changed the
\* answer while they followed the pointers without the lock.
AncestorRight == phase = "answer" => \A n \in always : ans = n

\* "uint pids[MAX_CHILDREN]": what getchildrenpid stores fits the array.
QueryFits == Len(pids) <= MAX_CHILDREN
=============================================================================
