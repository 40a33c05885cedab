------------------------------- MODULE Memory -------------------------------
(* Physical pages and address spaces: kalloc.c, vm.c, exec.c and the part of  *)
(* proc.c that takes and gives back memory.  A step is one section under      *)
(* kmem.lock, so processes race for the last pages in the middle of a fork,   *)
(* an exec or an sbrk; the pages of a whole range are freed in one step.      *)
(* Sizes are counted in units, Unit to a page, so that a size may end inside  *)
(* one.                                                                       *)
EXTENDS Integers, FiniteSets, FiniteSetsExt

CONSTANTS NProc,     \* NPROC; process 1 is init
          NPages,    \* pages between end and PHYSTOP
          Unit,      \* units of size in a page
          PerTable,  \* NPTENTRIES: pages a page table maps
          KTables,   \* page tables that setupkvm needs for the kernel's mappings
          MaxPages,  \* KERNBASE, in pages
          ExecSizes  \* sizes of the programs exec can load

ASSUME MemoryAssumption ==
  /\ {NProc, NPages, Unit, PerTable, MaxPages} \subseteq Nat \ {0} /\ KTables \in Nat
  /\ NPages >= KTables + 4
  /\ ExecSizes \subseteq 1 .. Unit * MaxPages

VARIABLES free,   \* kmem.freelist
          lost,   \* pages that nothing points at any more
          proc,   \* ptable.proc[]: parent, kstack, pgdir, sz and where it is
          panic
vars == <<free, lost, proc, panic>>

Procs  == 1..NProc
Pages  == 1..NPages
VPages == 0..MaxPages-1               \* pages of the user's addresses
Tables == {v \div PerTable : v \in VPages}
PageRoundUp(s) == (s + Unit - 1) \div Unit    \* PGROUNDUP, as a page number
Below(s) == {v \in VPages : v * Unit < s}     \* the pages that start below s

\* An address space: its directory, the page tables of the kernel and of the
\* user, and the user's pages; 0 is an entry that is not present.
NoSpace == [dir |-> 0, ktab |-> {}, utab |-> [t \in Tables |-> 0], map |-> [v \in VPages |-> 0]]
Mapped(s) == {v \in VPages : s.map[v] # 0}
PagesOf(s) == ({s.dir} \union s.ktab \union {s.utab[t] : t \in Tables}
                       \union {s.map[v] : v \in VPages}) \ {0}

\* A process is at a user instruction, at one that faults, at a call's next step,
\* a zombie, or UNUSED; EMBRYO is an entry that a fork has taken.  new is the address space
\* that a fork or an exec builds, mem a page taken and not mapped yet.
Unused == [pc |-> "unused", op |-> "", parent |-> 0, kstack |-> 0, as |-> NoSpace, sz |-> 0,
           new |-> NoSpace, mem |-> 0, va |-> 0, end |-> 0, child |-> 0]

\* userinit: initcode fills a page of process 1.
Init ==
  /\ proc = [p \in Procs |-> IF p # 1 THEN Unused ELSE
       [Unused EXCEPT !.pc = "user", !.kstack = 1, !.sz = Unit,
          !.as = [dir |-> 2, ktab |-> 5 .. KTables + 4, utab |-> [t \in Tables |-> IF t = 0 THEN 3 ELSE 0],
                  map |-> [v \in VPages |-> IF v = 0 THEN 4 ELSE 0]]]]
  /\ free = Pages \ (1 .. KTables + 4) /\ lost = {} /\ panic = FALSE

At(p, pc) == ~panic /\ proc[p].pc = pc

(* --- kalloc.c and vm.c ---------------------------------------------------- *)

\* kalloc: which free page it is does not matter, so the first one.
Page == Min(free)
Take(f) == f \ {Page}

\* deallocuvm on the pages of space s from size old down to new.
\* Mutant: PGROUNDDOWN, the page that new ends in is freed too.
Dropped_RoundDown(s, old, new) == Mapped(s) \cap (Below(old) \ Below(new - Unit + 1))
Dropped(s, old, new) == Mapped(s) \cap (Below(old) \ Below(new))
Dealloc(s, old, new) == [s EXCEPT !.map = [v \in VPages |-> IF v \in Dropped(s, old, new) THEN 0 ELSE @[v]]]
DeallocPages(s, old, new) == {s.map[v] : v \in Dropped(s, old, new)}

\* mappages of page m at va: a page table may have to be allocated first.
HasTable(s, va) == s.utab[va \div PerTable] # 0
CanMap(s, va) == HasTable(s, va) \/ free # {}
MapPage(s, va, m) ==
  [s EXCEPT !.map[va] = m,
            !.utab[va \div PerTable] = IF HasTable(s, va) THEN @ ELSE Page]
FreeAfterMap(s, va) == IF HasTable(s, va) THEN free ELSE Take(free)

(* --- allocuvm ------------------------------------------------------------- *)

\* allocuvm works on the process' own space in sbrk, on the new one in exec.
Target(p) == IF proc[p].op = "sbrk" THEN proc[p].as ELSE proc[p].new
WithTarget(r, s) == IF r.op = "sbrk" THEN [r EXCEPT !.as = s] ELSE [r EXCEPT !.new = s]

\* allocuvm returned 0: growproc returns -1, exec goes to bad, which frees all.
Returned(r) == [r EXCEPT !.pc = "user", !.op = "", !.new = NoSpace, !.mem = 0, !.va = 0, !.end = 0, !.child = 0]
FailedAlloc(p) ==
  LET r == proc[p]
      t == Target(p)
      back == IF r.op = "sbrk" THEN DeallocPages(t, r.end, r.sz) ELSE PagesOf(t)
      kept == IF r.op = "sbrk" THEN [r EXCEPT !.as = Dealloc(t, r.end, r.sz)] ELSE r
  IN  /\ free' = free \union back \union ({r.mem} \ {0})
      /\ proc' = [proc EXCEPT ![p] = Returned(kept)]
      /\ UNCHANGED <<lost, panic>>

\* The loop: the next page, until the new size is reached.
AllocPage(p) ==
  /\ At(p, "alloc") /\ proc[p].va * Unit < proc[p].end
  /\ IF free = {} THEN FailedAlloc(p)
     ELSE /\ proc' = [proc EXCEPT ![p].mem = Page, ![p].pc = "map"]
          /\ free' = Take(free)
          /\ UNCHANGED <<lost, panic>>

AllocMap(p) ==
  /\ At(p, "map")
  /\ LET r == proc[p]
         t == Target(p)
     IN  IF ~CanMap(t, r.va) THEN FailedAlloc(p)
         ELSE IF t.map[r.va] # 0 THEN panic' = TRUE /\ UNCHANGED <<free, lost, proc>>
         ELSE /\ proc' = [proc EXCEPT ![p] = WithTarget([r EXCEPT !.pc = "alloc", !.mem = 0, !.va = @ + 1],
                                                        MapPage(t, r.va, r.mem))]
              /\ free' = FreeAfterMap(t, r.va)
              /\ UNCHANGED <<lost, panic>>

(* --- growproc ------------------------------------------------------------- *)

\* Mutant: PGROUNDDOWN, the page the old size ends in is mapped again.
SbrkGrow_RoundDown(p, n) ==
  /\ At(p, "user") /\ proc[p].sz + n < MaxPages * Unit
  /\ LET r == proc[p]
     IN  proc' = [proc EXCEPT ![p] = [r EXCEPT !.pc = "alloc", !.op = "sbrk",
                                               !.va = r.sz \div Unit, !.end = r.sz + n]]
  /\ UNCHANGED <<free, lost, panic>>
SbrkGrow(p, n) ==
  /\ At(p, "user") /\ proc[p].sz + n < MaxPages * Unit
  /\ LET r == proc[p]
     IN  proc' = [proc EXCEPT ![p] = [r EXCEPT !.pc = "alloc", !.op = "sbrk",
                                               !.va = PageRoundUp(r.sz), !.end = r.sz + n]]
  /\ UNCHANGED <<free, lost, panic>>

SbrkGrown(p) ==
  /\ At(p, "alloc") /\ proc[p].op = "sbrk" /\ proc[p].va * Unit >= proc[p].end
  /\ proc' = [proc EXCEPT ![p] = [Returned(@) EXCEPT !.sz = proc[p].end]]
  /\ UNCHANGED <<free, lost, panic>>

\* A size below 0 wraps, and nothing happens.
SbrkShrink(p, n) ==
  /\ At(p, "user") /\ n < proc[p].sz
  /\ LET r == proc[p]
     IN  /\ free' = free \union DeallocPages(r.as, r.sz, r.sz - n)
         /\ proc' = [proc EXCEPT ![p].as = Dealloc(r.as, r.sz, r.sz - n), ![p].sz = r.sz - n]
  /\ UNCHANGED <<lost, panic>>

\* A size of 0: all pages are freed, but deallocuvm's 0 means failure, and the
\* size stays.  The process has no code to go on with: it faults and is killed.
\* Init, whose exit is a panic, does not ask for it.
SbrkToZero(p, n) ==
  /\ At(p, "user") /\ n = proc[p].sz /\ p # 1
  /\ LET r == proc[p]
     IN  /\ free' = free \union DeallocPages(r.as, r.sz, r.sz - n)
         /\ proc' = [proc EXCEPT ![p].as = Dealloc(r.as, r.sz, r.sz - n), ![p].pc = "fault"]
  /\ UNCHANGED <<lost, panic>>

(* --- setupkvm ------------------------------------------------------------- *)

FreeSlots == {c \in Procs : proc[c].pc = "unused"}

\* fork failed: the child's kernel stack and entry are given back, with what
\* setupkvm or copyuvm freed; a page that copyuvm could not map is lost.
\* Mutant: the kernel stack is not freed.
FailedFork_KeepsStack(p) ==
  LET r == proc[p]
  IN  /\ free' = free \union PagesOf(r.new)
      /\ lost' = lost \union ({r.mem} \ {0})
      /\ proc' = [proc EXCEPT ![p] = Returned(r), ![r.child] = Unused]
      /\ UNCHANGED panic
FailedFork(p) ==
  LET r == proc[p]
  IN  /\ free' = free \union PagesOf(r.new) \union ({proc[r.child].kstack} \ {0})
      /\ lost' = lost \union ({r.mem} \ {0})
      /\ proc' = [proc EXCEPT ![p] = Returned(r), ![r.child] = Unused]
      /\ UNCHANGED panic

Failed(p) == IF proc[p].op = "fork" THEN FailedFork(p) ELSE FailedAlloc(p)

SetupDir(p) ==
  /\ At(p, "setup") /\ proc[p].new.dir = 0
  /\ IF free = {} THEN Failed(p)
     ELSE /\ proc' = [proc EXCEPT ![p].new.dir = Page]
          /\ free' = Take(free)
          /\ UNCHANGED <<lost, panic>>

\* Mutant: without a free page it tries again.
SetupTable_Waits(p) ==
  /\ At(p, "setup") /\ proc[p].new.dir # 0 /\ Cardinality(proc[p].new.ktab) < KTables
  /\ IF free = {} THEN UNCHANGED vars
     ELSE /\ proc' = [proc EXCEPT ![p].new.ktab = @ \union {Page}]
          /\ free' = Take(free)
          /\ UNCHANGED <<lost, panic>>
SetupTable(p) ==
  /\ At(p, "setup") /\ proc[p].new.dir # 0 /\ Cardinality(proc[p].new.ktab) < KTables
  /\ IF free = {} THEN Failed(p)
     ELSE /\ proc' = [proc EXCEPT ![p].new.ktab = @ \union {Page}]
          /\ free' = Take(free)
          /\ UNCHANGED <<lost, panic>>

\* The kernel's part is done: copyuvm or exec's first allocuvm goes on.
SetupDone(p) ==
  /\ At(p, "setup") /\ proc[p].new.dir # 0 /\ Cardinality(proc[p].new.ktab) = KTables
  /\ proc' = [proc EXCEPT ![p].pc = IF proc[p].op = "fork" THEN "copy" ELSE "alloc"]
  /\ UNCHANGED <<free, lost, panic>>

(* --- fork ----------------------------------------------------------------- *)

\* allocproc takes an entry, or fork fails at once.
Fork(p) ==
  /\ At(p, "user") /\ FreeSlots # {}
  /\ LET c == Min(FreeSlots)
         r == proc[p]
     IN  proc' = [proc EXCEPT ![p] = [r EXCEPT !.pc = "kstack", !.op = "fork", !.child = c, !.va = 0,
                                               !.end = r.sz],
                              ![c].pc = "embryo"]
  /\ UNCHANGED <<free, lost, panic>>

ForkStack(p) ==
  /\ At(p, "kstack")
  /\ IF free = {} THEN FailedFork(p)
     ELSE /\ proc' = [proc EXCEPT ![proc[p].child].kstack = Page, ![p].pc = "setup"]
          /\ free' = Take(free)
          /\ UNCHANGED <<lost, panic>>

\* copyuvm: the next page of the parent.
CopyPage(p) ==
  /\ At(p, "copy") /\ proc[p].va * Unit < proc[p].end
  /\ IF proc[p].as.map[proc[p].va] = 0 THEN panic' = TRUE /\ UNCHANGED <<free, lost, proc>>
     ELSE IF free = {} THEN FailedFork(p)
     ELSE /\ proc' = [proc EXCEPT ![p].mem = Page, ![p].pc = "copymap"]
          /\ free' = Take(free)
          /\ UNCHANGED <<lost, panic>>

CopyMap(p) ==
  /\ At(p, "copymap")
  /\ LET r == proc[p]
     IN  IF ~CanMap(r.new, r.va) THEN FailedFork(p)
         ELSE /\ proc' = [proc EXCEPT ![p] = [r EXCEPT !.pc = "copy", !.mem = 0, !.va = @ + 1,
                                                       !.new = MapPage(r.new, r.va, r.mem)]]
              /\ free' = FreeAfterMap(r.new, r.va)
              /\ UNCHANGED <<lost, panic>>

\* The child gets the copy, the size and the parent, and may run.
Forked(p) ==
  /\ At(p, "copy") /\ proc[p].va * Unit >= proc[p].end
  /\ LET r == proc[p]
     IN  proc' = [proc EXCEPT ![p] = Returned(r),
                              ![r.child] = [@ EXCEPT !.pc = "user", !.as = r.new, !.sz = r.sz, !.parent = p]]
  /\ UNCHANGED <<free, lost, panic>>

(* --- exec ----------------------------------------------------------------- *)

Exec(p, s) ==
  /\ At(p, "user")
  /\ proc' = [proc EXCEPT ![p] = [@ EXCEPT !.pc = "setup", !.op = "exec", !.va = 0, !.end = s]]
  /\ UNCHANGED <<free, lost, panic>>

\* The segment is there; two more pages, a guard and the stack, at the next
\* page boundary, if they stay below KERNBASE.
ExecStack(p) ==
  /\ At(p, "alloc") /\ proc[p].op = "exec" /\ proc[p].va * Unit >= proc[p].end
  /\ LET r == proc[p]
         s == PageRoundUp(r.end) + 2
     IN  IF s >= MaxPages THEN FailedAlloc(p)
         ELSE /\ proc' = [proc EXCEPT ![p] = [r EXCEPT !.op = "execstack", !.va = PageRoundUp(r.end),
                                                       !.end = s * Unit]]
              /\ UNCHANGED <<free, lost, panic>>

\* A segment that cannot be read, or arguments that do not fit in the stack.
ExecBad(p) ==
  /\ At(p, "alloc") /\ proc[p].op \in {"exec", "execstack"} /\ proc[p].va * Unit >= proc[p].end
  /\ FailedAlloc(p)

\* Commit: the new space replaces the old one, whose pages are freed.
ExecCommit(p) ==
  /\ At(p, "alloc") /\ proc[p].op = "execstack" /\ proc[p].va * Unit >= proc[p].end
  /\ LET r == proc[p]
     IN  /\ proc' = [proc EXCEPT ![p] = [Returned(r) EXCEPT !.as = r.new, !.sz = r.end]]
         /\ free' = free \union PagesOf(r.as)
  /\ UNCHANGED <<lost, panic>>

(* --- exit and wait -------------------------------------------------------- *)

\* exit, called by the program or by trap after a fault.
Exit(p) ==
  /\ At(p, "user") \/ At(p, "fault")
  /\ p # 1
  /\ proc' = [q \in Procs |-> IF q = p THEN [proc[q] EXCEPT !.pc = "zombie"]
                              ELSE IF proc[q].parent = p THEN [proc[q] EXCEPT !.parent = 1] ELSE proc[q]]
  /\ UNCHANGED <<free, lost, panic>>

\* The parent frees the kernel stack and the space of a child that exited.
Wait(p, c) ==
  /\ At(p, "user") /\ proc[c].pc = "zombie" /\ proc[c].parent = p
  /\ free' = free \union {proc[c].kstack} \union PagesOf(proc[c].as)
  /\ proc' = [proc EXCEPT ![c] = Unused]
  /\ UNCHANGED <<lost, panic>>

\* sbrk of less than a page, and of more than one.
Calls(p) ==
  \/ \E n \in {1, Unit + 1} : SbrkGrow(p, n) \/ SbrkShrink(p, n) \/ SbrkToZero(p, n)
  \/ Fork(p) \/ (\E s \in ExecSizes : Exec(p, s))
  \/ Exit(p) \/ (\E c \in Procs : Wait(p, c))

Steps(p) ==
  \/ AllocPage(p) \/ AllocMap(p) \/ SbrkGrown(p)
  \/ SetupDir(p) \/ SetupTable(p) \/ SetupDone(p)
  \/ ForkStack(p) \/ CopyPage(p) \/ CopyMap(p) \/ Forked(p)
  \/ ExecStack(p) \/ ExecBad(p) \/ ExecCommit(p)

Next == \E p \in Procs : Calls(p) \/ Steps(p)

Fairness == \A p \in Procs : WF_vars(Steps(p))

Spec == Init /\ [][Next]_vars /\ Fairness

-----------------------------------------------------------------------------
(* What process p holds, with what it is building and has not handed over.    *)
Held(p) == ({proc[p].kstack, proc[p].mem} \ {0}) \union PagesOf(proc[p].as) \union PagesOf(proc[p].new)

\* Every page of memory is in one place only, and no page is forgotten but the
\* one that copyuvm's bad path drops: the free list, a kernel stack, a directory,
\* a table or a mapping of one process.
PagesOnce ==
  /\ free \union lost \union UNION {Held(p) : p \in Procs} = Pages
  /\ free \cap lost = {}
  /\ \A p \in Procs : Held(p) \cap (free \union lost) = {}
  /\ \A p, q \in Procs : p # q => Held(p) \cap Held(q) = {}
  /\ \A p \in Procs : PagesOf(proc[p].as) \cap PagesOf(proc[p].new) = {}
  /\ \A p \in Procs : \A v, w \in Mapped(proc[p].as) : v # w => proc[p].as.map[v] # proc[p].as.map[w]

\* A process at a user instruction has exactly the pages that p->sz says it has,
\* whatever calls failed half way for want of memory; one that asked for size 0
\* is at "fault" and runs no further.
SizeBacked ==
  \A p \in Procs : proc[p].pc = "user" => Mapped(proc[p].as) = Below(proc[p].sz)

\* "remap", "copyuvm: pte should exist" and "copyuvm: page not present" are
\* never reached.
NoPanic == ~panic

\* Every fork, exec and sbrk ends, with or without memory.
CallsEnd == \A p \in Procs : proc[p].op # "" ~> proc[p].op = ""

\* fork that fails for want of memory gives back every page it took.
NothingLost == lost = {}
=============================================================================
