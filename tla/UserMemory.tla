----------------------------- MODULE UserMemory -----------------------------
(* Addresses that the kernel takes from a process: the argument functions of  *)
(* syscall.c and sys_exec, checked against p->sz, and what sbrk and exec make *)
(* of p->sz.  One process; words are 32 bits wide and their sums wrap.        *)
EXTENDS Integers

UINT     == 4294967296       \* one more than the largest word
INTMAX   == 2147483647
KERNBASE == 2147483648
PGSIZE   == 4096
MAXARG   == 32

Words == 0 .. UINT - 1
Ints  == -INTMAX - 1 .. INTMAX

\* The sum of a word and a word or int, as a word.
Uint(a) == IF a < 0 THEN a + UINT ELSE IF a >= UINT THEN a - UINT ELSE a

PGROUNDUP(a) == PGSIZE * ((a + PGSIZE - 1) \div PGSIZE)

VARIABLES
  sz,      \* p->sz
  pc,      \* "user", in a call, in exec's loop over the segments, or behind it
  block,   \* the last block of user memory that an argument function accepted
  newsz,   \* exec's sz, the size of the address space being built
  loaded   \* the range that exec's last loaduvm filled
vars == <<sz, pc, block, newsz, loaded>>

Bytes(at, len) == [at |-> at, len |-> len]
Empty == Bytes(0, 0)

\* userinit: one page.
Init == sz = PGSIZE /\ pc = "user" /\ block = Empty /\ newsz = 0 /\ loaded = Empty

(* --- syscall.c: what is not accepted makes the call return -1 ------------- *)

\* fetchint: an int at addr.
fetchint(addr) ==
  /\ addr < sz /\ Uint(addr + 4) <= sz
  /\ block' = Bytes(addr, 4)

\* argint: the n-th argument on the user's stack, whose pointer is esp.
argint(esp, n) ==
  /\ pc \in {"user", "call"} /\ fetchint(Uint(esp + 4 + 4 * n))
  /\ pc' = "call" /\ UNCHANGED <<sz, newsz, loaded>>

\* argptr: the argument i is a pointer to size bytes.
argptr(i, size) ==
  /\ pc = "call" /\ size >= 0 /\ i < sz /\ Uint(i + size) <= sz
  /\ block' = Bytes(i, size)
  /\ UNCHANGED <<sz, pc, newsz, loaded>>

\* fetchstr, and argstr after its argint: the first nul at or after addr is at
\* nul.
fetchstr(addr, nul) ==
  /\ pc = "call" /\ addr < sz /\ nul >= addr /\ nul < sz
  /\ block' = Bytes(addr, nul - addr + 1)
  /\ UNCHANGED <<sz, pc, newsz, loaded>>

\* sys_exec: entry i of the array of arguments at uargv.
sys_exec(uargv, i) ==
  /\ pc = "call" /\ i < MAXARG /\ fetchint(Uint(uargv + 4 * i))
  /\ UNCHANGED <<sz, pc, newsz, loaded>>

Return ==
  /\ pc # "user" /\ pc' = "user" /\ block' = Empty /\ newsz' = 0 /\ loaded' = Empty
  /\ UNCHANGED sz

(* --- sizes ---------------------------------------------------------------- *)

\* allocuvm returns 0 when it would reach the kernel, and when memory runs out
\* in the loop over the pages.
allocuvm(oldsz, newsize) ==
  IF newsize >= KERNBASE THEN {0}
  ELSE IF newsize < oldsz THEN {oldsz}
  ELSE IF PGROUNDUP(oldsz) >= newsize THEN {newsize} ELSE {0, newsize}

deallocuvm(oldsz, newsize) == IF newsize >= oldsz THEN oldsz ELSE newsize

\* growproc for sbrk(n): on 0 the size stays as it is.
growproc(n) ==
  /\ pc = "call" /\ pc' = "user" /\ block' = Empty /\ UNCHANGED <<newsz, loaded>>
  /\ \E r \in IF n > 0 THEN allocuvm(sz, Uint(sz + n))
              ELSE IF n < 0 THEN {deallocuvm(sz, Uint(sz + n))} ELSE {sz} :
       sz' = IF r = 0 THEN sz ELSE r

(* --- exec ----------------------------------------------------------------- *)

\* An ELF header and a page directory: the first segment.
ExecStart ==
  /\ pc = "call" /\ pc' = "segments" /\ block' = Empty /\ newsz' = 0 /\ loaded' = Empty
  /\ UNCHANGED sz

\* A program header and its segment, loaded; what fails goes to bad (Return).
ExecSegment(vaddr, memsz, filesz) ==
  /\ pc = "segments" /\ memsz >= filesz /\ Uint(vaddr + memsz) >= vaddr
  /\ \E r \in allocuvm(newsz, Uint(vaddr + memsz)) \ {0} : newsz' = r
  /\ vaddr % PGSIZE = 0
  /\ loaded' = Bytes(vaddr, filesz)
  /\ UNCHANGED <<sz, pc, block>>

\* A guard page and the stack above the program.
ExecStack ==
  /\ pc = "segments" /\ pc' = "stack" /\ loaded' = Empty
  /\ \E r \in allocuvm(PGROUNDUP(newsz), Uint(PGROUNDUP(newsz) + 2 * PGSIZE)) \ {0} : newsz' = r
  /\ UNCHANGED <<sz, block>>

\* The arguments are on the stack: the new space is the process' own.
ExecCommit ==
  /\ pc = "stack" /\ pc' = "user" /\ sz' = newsz /\ newsz' = 0
  /\ UNCHANGED <<block, loaded>>

Next ==
  \/ \E esp \in Words, n \in 0..2 : argint(esp, n)
  \/ \E i \in Words, size \in Ints : argptr(i, size)
  \/ \E addr, nul \in Words : fetchstr(addr, nul)
  \/ \E uargv \in Words, i \in 0 .. MAXARG - 1 : sys_exec(uargv, i)
  \/ \E n \in Ints : growproc(n)
  \/ \E vaddr, memsz, filesz \in Words : ExecSegment(vaddr, memsz, filesz)
  \/ ExecStart \/ ExecStack \/ ExecCommit \/ Return

Spec == Init /\ [][Next]_vars

-----------------------------------------------------------------------------
\* The variables keep their types: sizes and addresses are words.
TypeOK ==
  /\ sz \in Words /\ newsz \in Words
  /\ pc \in {"user", "call", "segments", "stack"}
  /\ block \in [at : Words, len : Words] /\ loaded \in [at : Words, len : Words]

\* Whatever sbrk is asked for and whatever a program file says, p->sz stays
\* below the kernel's addresses, and no sum on the way there wraps past them.
BelowKernel == sz < KERNBASE /\ newsz < KERNBASE

\* A block that fetchint, fetchstr or argptr accepts lies inside the process'
\* memory: the sums they compare may wrap, but then the block is refused.
BlockInside == block.at + block.len <= sz

\* loaduvm's "address should exist": the range a segment is loaded to is below
\* the size that allocuvm has mapped, in whatever order the segments come.
LoadInside == loaded.at + loaded.len <= newsz
=============================================================================
