--------------------------- MODULE Numbers_proofs ---------------------------
(* The sequential arithmetic: what the argument functions accept and what     *)
(* exec loads lies in the process' memory, for every address, size and        *)
(* program file; the coordinates and the area of a polygon are right, for all *)
(* Fields; the processes that read polygons and print them print what one     *)
(* program would, for all words and all their interleavings; and a program    *)
(* that the shell runs has the files that its line gives it, for all lines.   *)
EXTENDS Pipeline, Shell, SequenceTheorems, WellFoundedInduction, TLAPS

CONSTANTS Fields
VARIABLES sz, pc, block, newsz, loaded, num, xs, ys, at, last, area

UM == INSTANCE UserMemory

PA == INSTANCE PolygonArea WITH X <- xs, Y <- ys, i <- at, j <- last

(* --- The memory of a process ---------------------------------------------- *)

\* A process in user mode has no call's block or segment left.
AtRest == /\ pc \in {"segments", "stack"} => block = UM!Empty
          /\ pc \in {"user", "call"} => loaded = UM!Empty
          /\ pc = "stack" => loaded = UM!Empty

\* The sums that the code compares wrap only past the kernel's addresses, so
\* BelowKernel is what makes the comparisons of BlockInside mean what they say.
IInv == UM!TypeOK /\ UM!BelowKernel /\ UM!BlockInside /\ UM!LoadInside /\ AtRest

\* All that the proof needs of the sizes.
LEMMA Sizes ==
  /\ {UM!UINT, UM!INTMAX, UM!KERNBASE, UM!PGSIZE} \subseteq Nat /\ UM!MAXARG = 32
  /\ UM!UINT = 2 * UM!KERNBASE /\ UM!KERNBASE = UM!INTMAX + 1
  /\ UM!PGSIZE > 0 /\ UM!KERNBASE > 4 * UM!PGSIZE /\ UM!KERNBASE > 1000
BY SMT DEF UM!UINT, UM!INTMAX, UM!KERNBASE, UM!PGSIZE, UM!MAXARG

\* PGROUNDUP goes up by less than a page.
LEMMA RoundUp ==
  ASSUME NEW a \in Nat
  PROVE  UM!PGROUNDUP(a) \in Nat /\ a <= UM!PGROUNDUP(a) /\ UM!PGROUNDUP(a) < a + UM!PGSIZE
BY SMT DEF UM!PGROUNDUP, UM!PGSIZE

\* allocuvm answers with a size below the kernel, at least what was asked for
\* unless it answers 0.
LEMMA Allocuvm ==
  ASSUME NEW old \in UM!Words, NEW new \in UM!Words, old <= UM!KERNBASE,
         NEW r \in UM!allocuvm(old, new) \ {0}
  PROVE  r \in UM!Words /\ (old < UM!KERNBASE => r < UM!KERNBASE) /\ new <= r /\ new < UM!KERNBASE
BY Sizes DEF UM!allocuvm, UM!Words

\* An int at an address that fetchint accepts is inside.
LEMMA Fetchint ==
  ASSUME UM!TypeOK, UM!BelowKernel, NEW addr \in UM!Words, UM!fetchint(addr)
  PROVE  block' \in [at : UM!Words, len : UM!Words] /\ block'.at + block'.len <= sz
BY Sizes DEF UM!TypeOK, UM!BelowKernel, UM!fetchint, UM!Bytes, UM!Uint, UM!Words

\* A process starts with one page.
LEMMA InitInv == UM!Init => IInv
BY Sizes DEF UM!Init, IInv, UM!TypeOK, UM!BelowKernel, UM!BlockInside, UM!LoadInside, AtRest,
             UM!Empty, UM!Bytes, UM!Words

\* Every call, and every step of exec.
LEMMA NextInv == IInv /\ [UM!Next]_UM!vars => IInv'
<1> SUFFICES ASSUME IInv, [UM!Next]_UM!vars PROVE IInv'
  OBVIOUS
<1> USE DEF IInv
<1>1. ASSUME NEW esp \in UM!Words, NEW n \in 0..2, UM!argint(esp, n) PROVE IInv'
  <2>1. UM!Uint(esp + 4 + 4 * n) \in UM!Words
    BY Sizes DEF UM!Uint, UM!Words
  <2>2. UM!fetchint(UM!Uint(esp + 4 + 4 * n))
    BY <1>1 DEF UM!argint
  <2>3. block' \in [at : UM!Words, len : UM!Words] /\ block'.at + block'.len <= sz
    BY <2>1, <2>2, Fetchint
  <2> QED
    BY <1>1, <2>3 DEF UM!argint, UM!TypeOK, UM!BelowKernel, UM!BlockInside, UM!LoadInside, AtRest
<1>2. ASSUME NEW i \in UM!Words, NEW size \in UM!Ints, UM!argptr(i, size) PROVE IInv'
  <2>1. block' = [at |-> i, len |-> size] /\ size \in UM!Words /\ i + size <= sz
    BY <1>2, Sizes DEF UM!argptr, UM!Bytes, UM!Uint, UM!Words, UM!Ints, UM!TypeOK, UM!BelowKernel
  <2> QED
    BY <1>2, <2>1 DEF UM!argptr, UM!TypeOK, UM!BelowKernel, UM!BlockInside, UM!LoadInside, AtRest
<1>3. ASSUME NEW addr \in UM!Words, NEW nul \in UM!Words, UM!fetchstr(addr, nul) PROVE IInv'
  <2>1. /\ block' = [at |-> addr, len |-> nul - addr + 1]
        /\ nul - addr + 1 \in UM!Words /\ addr + (nul - addr + 1) <= sz
    BY <1>3, Sizes DEF UM!fetchstr, UM!Bytes, UM!Words, UM!TypeOK, UM!BelowKernel
  <2> QED
    BY <1>3, <2>1 DEF UM!fetchstr, UM!TypeOK, UM!BelowKernel, UM!BlockInside, UM!LoadInside, AtRest
<1>4. ASSUME NEW uargv \in UM!Words, NEW i \in 0 .. UM!MAXARG - 1, UM!sys_exec(uargv, i) PROVE IInv'
  <2>1. UM!Uint(uargv + 4 * i) \in UM!Words
    BY Sizes DEF UM!Uint, UM!Words
  <2>2. UM!fetchint(UM!Uint(uargv + 4 * i))
    BY <1>4 DEF UM!sys_exec
  <2>3. block' \in [at : UM!Words, len : UM!Words] /\ block'.at + block'.len <= sz
    BY <2>1, <2>2, Fetchint
  <2> QED
    BY <1>4, <2>3 DEF UM!sys_exec, UM!TypeOK, UM!BelowKernel, UM!BlockInside, UM!LoadInside, AtRest
<1>5. ASSUME NEW n \in UM!Ints, UM!growproc(n) PROVE IInv'
  <2>1. UM!Uint(sz + n) \in UM!Words
    BY Sizes DEF UM!Uint, UM!Words, UM!Ints, UM!TypeOK
  <2>2. sz' \in UM!Words /\ sz' < UM!KERNBASE
    <3>1. CASE n > 0
      <4>1. PICK r \in UM!allocuvm(sz, UM!Uint(sz + n)) : sz' = IF r = 0 THEN sz ELSE r
        BY <1>5, <3>1 DEF UM!growproc
      <4>2. ASSUME r # 0 PROVE r \in UM!Words /\ r < UM!KERNBASE
        BY <2>1, <4>1, <4>2, Allocuvm, Sizes DEF UM!TypeOK, UM!BelowKernel, UM!Words
      <4> QED
        BY <4>1, <4>2 DEF UM!TypeOK, UM!BelowKernel
    <3>2. CASE n < 0
      <4>1. sz' = sz \/ sz' = UM!deallocuvm(sz, UM!Uint(sz + n))
        BY <1>5, <3>2 DEF UM!growproc, UM!Ints
      <4> QED
        BY <4>1, <2>1, Sizes DEF UM!deallocuvm, UM!TypeOK, UM!BelowKernel, UM!Words
    <3>3. CASE n = 0
      BY <1>5, <3>3 DEF UM!growproc, UM!TypeOK, UM!BelowKernel
    <3> QED
      BY <3>1, <3>2, <3>3 DEF UM!Ints
  <2>3. block' = UM!Empty /\ UM!Empty \in [at : UM!Words, len : UM!Words] /\ UM!Empty.at + UM!Empty.len = 0
    BY <1>5, Sizes DEF UM!growproc, UM!Empty, UM!Bytes, UM!Words
  <2> QED
    BY <1>5, <2>2, <2>3, Sizes DEF UM!growproc, UM!TypeOK, UM!BelowKernel, UM!BlockInside,
                                   UM!LoadInside, AtRest, UM!Words
<1>6. ASSUME NEW vaddr \in UM!Words, NEW memsz \in UM!Words, NEW filesz \in UM!Words,
             UM!ExecSegment(vaddr, memsz, filesz)
      PROVE  IInv'
  <2>1. UM!Uint(vaddr + memsz) \in UM!Words /\ UM!Uint(vaddr + memsz) = vaddr + memsz
    BY <1>6, Sizes DEF UM!ExecSegment, UM!Uint, UM!Words
  <2>2. newsz' \in UM!allocuvm(newsz, vaddr + memsz) \ {0}
    BY <1>6, <2>1 DEF UM!ExecSegment
  <2>3. newsz' \in UM!Words /\ newsz' < UM!KERNBASE /\ vaddr + memsz <= newsz'
    BY <2>1, <2>2, Allocuvm, Sizes DEF UM!TypeOK, UM!BelowKernel, UM!Words
  <2>4. loaded' = [at |-> vaddr, len |-> filesz] /\ vaddr + filesz <= newsz'
    BY <1>6, <2>3 DEF UM!ExecSegment, UM!Bytes, UM!Words
  <2> QED
    BY <1>6, <2>3, <2>4 DEF UM!ExecSegment, UM!TypeOK, UM!BelowKernel, UM!BlockInside,
                            UM!LoadInside, AtRest
<1>7. CASE UM!ExecStart
  BY <1>7, Sizes DEF UM!ExecStart, UM!TypeOK, UM!BelowKernel, UM!BlockInside, UM!LoadInside,
                     AtRest, UM!Empty, UM!Bytes, UM!Words
<1>8. CASE UM!ExecStack
  <2> DEFINE up == UM!PGROUNDUP(newsz)
  <2>1. up \in UM!Words /\ up <= UM!KERNBASE + UM!PGSIZE /\ UM!Uint(up + 2 * UM!PGSIZE) = up + 2 * UM!PGSIZE
        /\ up + 2 * UM!PGSIZE \in UM!Words
    <3>1. newsz \in Nat
      BY DEF UM!TypeOK, UM!Words
    <3> QED
      BY <3>1, RoundUp, Sizes DEF UM!BelowKernel, UM!Uint, UM!Words
  <2>2. newsz' \in UM!allocuvm(up, up + 2 * UM!PGSIZE) \ {0}
    BY <1>8, <2>1 DEF UM!ExecStack
  <2>3. newsz' \in UM!Words /\ newsz' < UM!KERNBASE
    BY <2>1, <2>2, Sizes DEF UM!allocuvm, UM!Words
  <2> HIDE DEF up
  <2> QED
    BY <1>8, <2>3, Sizes DEF UM!ExecStack, UM!TypeOK, UM!BelowKernel, UM!BlockInside,
                             UM!LoadInside, AtRest, UM!Empty, UM!Bytes, UM!Words
<1>9. CASE UM!ExecCommit
  BY <1>9, Sizes DEF UM!ExecCommit, UM!TypeOK, UM!BelowKernel, UM!BlockInside, UM!LoadInside,
                     AtRest, UM!Empty, UM!Bytes, UM!Words
<1>10. CASE UM!Return
  BY <1>10, Sizes DEF UM!Return, UM!TypeOK, UM!BelowKernel, UM!BlockInside, UM!LoadInside, AtRest,
                      UM!Empty, UM!Bytes, UM!Words
<1>11. CASE UNCHANGED UM!vars
  BY <1>11 DEF UM!vars, UM!TypeOK, UM!BelowKernel, UM!BlockInside, UM!LoadInside, AtRest
<1> QED
  BY <1>1, <1>2, <1>3, <1>4, <1>5, <1>6, <1>7, <1>8, <1>9, <1>10, <1>11 DEF UM!Next

\* p->sz and the size of a space being built stay below the kernel's addresses,
\* through any sbrk and any program file.
THEOREM SizesBelowKernel == UM!Spec => []UM!BelowKernel
<1>1. IInv => UM!BelowKernel
  BY DEF IInv
<1> QED
  BY <1>1, InitInv, NextInv, PTL DEF UM!Spec

\* What fetchint, fetchstr and argptr accept lies inside the process' memory.
THEOREM ArgumentsInside == UM!Spec => []UM!BlockInside
<1>1. IInv => UM!BlockInside
  BY DEF IInv
<1> QED
  BY <1>1, InitInv, NextInv, PTL DEF UM!Spec

\* loaduvm only meets pages that allocuvm has mapped: it does not panic.
THEOREM SegmentsMapped == UM!Spec => []UM!LoadInside
<1>1. IInv => UM!LoadInside
  BY DEF IInv
<1> QED
  BY <1>1, InitInv, NextInv, PTL DEF UM!Spec

(* --- The area of a polygon ------------------------------------------------ *)

\* What getXAndY masks out of the word: six bits.
SixBits == Fields \subseteq 0..63

\* What one edge adds.
Edge(a, b) == (xs[a] + xs[b]) * (ys[a] - ys[b])

\* The value of area before each turn of the loop.
SoFar ==
  /\ at = 0 => last = num - 1 /\ area = 0
  /\ at > 0 => last = at - 1
  /\ at = 1 => area = Edge(num - 1, 0)
  /\ at = 2 => area = Edge(num - 1, 0) + Edge(0, 1)
  /\ at = 3 => area = Edge(num - 1, 0) + Edge(0, 1) + Edge(1, 2)
  /\ at = 4 => area = Edge(num - 1, 0) + Edge(0, 1) + Edge(1, 2) + Edge(2, 3)

AInv == PA!TypeOK /\ SoFar

\* Six bits become a number in two's complement (getXAndY).
LEMMA CoordinateRange ==
  ASSUME NEW b \in 0..63
  PROVE  PA!Coordinate(b) \in (-32)..31
<1>1. CASE b < 32
  BY <1>1 DEF PA!Coordinate
<1>2. CASE b >= 32
  <2>1. (b + 192) % 256 = b + 192
    BY <1>2
  <2> QED
    BY <1>2, <2>1 DEF PA!Coordinate, PA!Char
<1> QED
  BY <1>1, <1>2

\* The sum over the edges is the area of the triangles (polygonArea).
LEMMA OneTriangle ==
  ASSUME NEW a \in Int, NEW b \in Int, NEW c \in Int,
         NEW p \in Int, NEW q \in Int, NEW r \in Int
  PROVE  (c + a) * (r - p) + (a + b) * (p - q) + (b + c) * (q - r)
           = -(a * (q - r) + b * (r - p) + c * (p - q))
BY SMT

\* The same for four vertices.
LEMMA Quadrilateral ==
  ASSUME NEW a \in Int, NEW b \in Int, NEW c \in Int, NEW d \in Int,
         NEW p \in Int, NEW q \in Int, NEW r \in Int, NEW s \in Int
  PROVE  (d + a) * (s - p) + (a + b) * (p - q) + (b + c) * (q - r) + (c + d) * (r - s)
           = -((a * (q - r) + b * (r - p) + c * (p - q))
               + (a * (r - s) + c * (s - p) + d * (p - r)))
BY SMT

\* area starts with decoded coordinates and a zero sum.
LEMMA AreaInit == SixBits /\ PA!Init => AInv
<1> SUFFICES ASSUME SixBits, PA!Init PROVE AInv
  OBVIOUS
<1>1. \A b \in Fields : PA!Coordinate(b) \in (-32)..31
  BY CoordinateRange DEF SixBits
<1>2. PICK f, g \in [0..num - 1 -> Fields] :
        /\ xs = [k \in 0..num - 1 |-> PA!Coordinate(f[k])]
        /\ ys = [k \in 0..num - 1 |-> PA!Coordinate(g[k])]
  BY Zenon DEF PA!Init
<1>3. xs \in [0..num - 1 -> (-32)..31] /\ ys \in [0..num - 1 -> (-32)..31]
  BY <1>1, <1>2, Zenon
<1> QED
  BY <1>3 DEF PA!Init, AInv, PA!TypeOK, SoFar

\* Each turn of the loop adds its edge.
LEMMA AreaNext == AInv /\ [PA!Next]_(PA!vars) => AInv'
<1> SUFFICES ASSUME AInv, [PA!Next]_(PA!vars) PROVE AInv'
  OBVIOUS
<1>1. CASE PA!Vertex
  <2>0. /\ xs' = xs /\ ys' = ys /\ num' = num
        /\ at < num /\ last' = at /\ at' = at + 1 /\ area' = area + Edge(last, at)
    BY <1>1 DEF PA!Vertex, Edge
  <2>1. \A a, b : Edge(a, b)' = Edge(a, b)
    BY <2>0 DEF Edge
  <2>2. Edge(last, at) \in Int
    <3>0. at \in 0..num - 1 /\ last \in 0..num - 1
      BY <2>0 DEF AInv, PA!TypeOK
    <3>1. \A k \in 0..num - 1 : xs[k] \in Int /\ ys[k] \in Int
      <4>1. xs \in [0..num - 1 -> (-32)..31] /\ ys \in [0..num - 1 -> (-32)..31]
        BY Zenon DEF AInv, PA!TypeOK
      <4>2. \A k \in 0..num - 1 : xs[k] \in (-32)..31 /\ ys[k] \in (-32)..31
        BY <4>1, Zenon
      <4> QED
        BY <4>2
    <3> QED
      BY <3>0, <3>1 DEF Edge
  <2>3. PA!TypeOK'
    BY <2>0, <2>2 DEF AInv, PA!TypeOK
  <2>4. at \in {0, 1, 2, 3}
    BY <2>0 DEF AInv, PA!TypeOK
  <2>5. SoFar'
    <3>1. CASE at = 0
      BY <3>1, <2>0, <2>2 DEF AInv, SoFar, Edge, PA!TypeOK
    <3>2. CASE at = 1
      BY <3>2, <2>0 DEF AInv, SoFar, Edge, PA!TypeOK
    <3>3. CASE at = 2
      BY <3>3, <2>0 DEF AInv, SoFar, Edge, PA!TypeOK
    <3>4. CASE at = 3
      BY <3>4, <2>0 DEF AInv, SoFar, Edge, PA!TypeOK
    <3> QED
      BY <2>4, <3>1, <3>2, <3>3, <3>4
  <2> QED
    BY <2>3, <2>5 DEF AInv
<1>2. CASE UNCHANGED PA!vars
  BY <1>2, Zenon DEF PA!vars, AInv, PA!TypeOK, SoFar, Edge
<1> QED
  BY <1>1, <1>2 DEF PA!Next

\* After the last turn the sum is complete.
LEMMA AreaEnd == AInv => PA!AreaOfTriangles
<1> SUFFICES ASSUME AInv, at = num PROVE PA!AreaOfTriangles
  BY DEF PA!AreaOfTriangles
<1>1. CASE num = 3
  <2>1. xs[0] \in Int /\ xs[1] \in Int /\ xs[2] \in Int
        /\ ys[0] \in Int /\ ys[1] \in Int /\ ys[2] \in Int
    BY <1>1 DEF AInv, PA!TypeOK
  <2>2. area = Edge(2, 0) + Edge(0, 1) + Edge(1, 2)
    BY <1>1 DEF AInv, SoFar
  <2> QED
    BY <1>1, <2>1, <2>2, OneTriangle DEF Edge, PA!Formula, PA!AreaOfTriangles
<1>2. CASE num = 4
  <2>1. xs[0] \in Int /\ xs[1] \in Int /\ xs[2] \in Int /\ xs[3] \in Int
        /\ ys[0] \in Int /\ ys[1] \in Int /\ ys[2] \in Int /\ ys[3] \in Int
    BY <1>2 DEF AInv, PA!TypeOK
  <2>2. area = Edge(3, 0) + Edge(0, 1) + Edge(1, 2) + Edge(2, 3)
    BY <1>2 DEF AInv, SoFar
  <2> QED
    BY <1>2, <2>1, <2>2, Quadrilateral DEF Edge, PA!Formula, PA!AreaOfTriangles
<1> QED
  BY <1>1, <1>2 DEF AInv, PA!TypeOK

\* The inductive invariant of the loop.
LEMMA AreaInvariance ==
  ASSUME SixBits
  PROVE  PA!Spec => []AInv
<1>1. PA!Init => AInv
  BY AreaInit
<1> QED
  BY <1>1, AreaNext, PTL DEF PA!Spec

\* Every coordinate is decoded to a number in two's complement.
THEOREM CoordinatesTyped ==
  ASSUME SixBits
  PROVE  PA!Spec => []PA!TypeOK
<1>1. AInv => PA!TypeOK
  BY DEF AInv
<1> QED
  BY <1>1, AreaInvariance, PTL

\* polygonArea computes the area of the triangles, clockwise positive.
THEOREM AreaCorrect ==
  ASSUME SixBits
  PROVE  PA!Spec => []PA!AreaOfTriangles
BY AreaEnd, AreaInvariance, PTL

(* --- The parts of a sequence one after the other -------------------------- *)

\* A set of numbers up to n with 0 and the next of each is all of them.
LEMMA Climb ==
  ASSUME NEW n \in Nat, NEW B \in SUBSET (0..n), 0 \in B,
         \A k \in 0..(n - 1) : k \in B => k + 1 \in B
  PROVE  n \in B
<1> SUFFICES ASSUME n \notin B PROVE FALSE
  OBVIOUS
<1> DEFINE F == {k \in 0..n : k \notin B}
           L == OpToRel(<, Nat)
<1>1. F \subseteq Nat /\ F # {}
  OBVIOUS
<1>2. PICK x \in F : \A y \in F : ~(<<y, x>> \in L)
  BY <1>1, NatLessThanWellFounded, WFMin, Zenon
<1>3. x \in 1..n /\ x - 1 \in 0..(n - 1)
  OBVIOUS
<1>4. CASE x - 1 \in F
  <2>1. <<x - 1, x>> \in Nat \X Nat /\ x - 1 < x
    BY <1>3
  <2> QED
    BY <1>2, <1>4, <2>1 DEF OpToRel
<1>5. CASE x - 1 \in B
  <2>1. (x - 1) + 1 \in B
    BY <1>3, <1>5
  <2> QED
    BY <1>3, <2>1
<1> QED
  BY <1>3, <1>4, <1>5

\* f puts the first m parts of s one after the other.
Gathers(f, m, s) == f = [i \in 1..m |-> IF i = 1 THEN s[i] ELSE f[i-1] \o s[i]]

LEMMA GatherExists ==
  ASSUME NEW S, NEW n \in Nat, NEW s \in [1..n -> Seq(S)]
  PROVE  \E f \in [1..n -> Seq(S)] : Gathers(f, n, s)
<1> DEFINE B == {m \in 0..n : \E f \in [1..m -> Seq(S)] : Gathers(f, m, s)}
<1>1. 0 \in B
  <2> DEFINE f == [i \in 1..0 |-> <<>>]
  <2>1. f \in [1..0 -> Seq(S)]
    OBVIOUS
  <2>2. Gathers(f, 0, s)
    BY DEF Gathers
  <2>3. 0 \in 0..n
    OBVIOUS
  <2> HIDE DEF f
  <2> QED
    BY <2>1, <2>2, <2>3, Zenon
<1>2. ASSUME NEW m \in 0..(n - 1), m \in B PROVE m + 1 \in B
  <2>1. PICK g \in [1..m -> Seq(S)] : Gathers(g, m, s)
    BY <1>2
  <2> DEFINE next == IF m = 0 THEN s[m+1] ELSE g[m] \o s[m+1]
             f == [i \in 1..(m + 1) |-> IF i = m + 1 THEN next ELSE g[i]]
  <2>2. next \in Seq(S)
    <3>1. s[m+1] \in Seq(S)
      OBVIOUS
    <3>2. CASE m # 0
      <4>1. g[m] \in Seq(S)
        BY <2>1, <3>2
      <4> QED
        BY <3>1, <3>2, <4>1, ConcatProperties
    <3> QED
      BY <3>1, <3>2
  <2> HIDE DEF next
  <2>3. f \in [1..(m + 1) -> Seq(S)]
    BY <2>1, <2>2
  <2>4. ASSUME NEW i \in 1..(m + 1)
        PROVE  f[i] = IF i = 1 THEN s[i] ELSE f[i-1] \o s[i]
    <3>1. CASE i = m + 1
      <4>1. f[i] = next /\ (m # 0 => f[i-1] = g[m])
        BY <3>1
      <4> QED
        BY <3>1, <4>1 DEF next
    <3>2. CASE i # m + 1
      <4>1. i \in 1..m /\ f[i] = g[i] /\ (i # 1 => f[i-1] = g[i-1])
        BY <3>2
      <4>2. g[i] = IF i = 1 THEN s[i] ELSE g[i-1] \o s[i]
        BY <2>1, <4>1, Zenon DEF Gathers
      <4> QED
        BY <4>1, <4>2
    <3> QED
      BY <3>1, <3>2
  <2>5. Gathers(f, m + 1, s)
    <3> DEFINE h == [i \in 1..(m + 1) |-> IF i = 1 THEN s[i] ELSE f[i-1] \o s[i]]
    <3>1. \A i \in 1..(m + 1) : f[i] = h[i]
      BY <2>4, Zenon
    <3>2. f = h
      <4> HIDE DEF f
      <4> QED
        BY <2>3, <3>1, Zenon
    <3> QED
      BY <3>2, Zenon DEF Gathers
  <2> HIDE DEF f
  <2> QED
    BY <2>3, <2>5
<1> HIDE DEF B
<1>3. B \in SUBSET (0..n)
  BY DEF B
<1>4. n \in B
  BY <1>1, <1>2, <1>3, Climb
<1> QED
  BY <1>4 DEF B

\* FlattenSeq is such a function's last value.
LEMMA FlattenGathers ==
  ASSUME NEW S, NEW s \in Seq(Seq(S)), s # <<>>
  PROVE  \E f \in [1..Len(s) -> Seq(S)] : Gathers(f, Len(s), s) /\ FlattenSeq(s) = f[Len(s)]
<1>1. Len(s) \in Nat /\ Len(s) # 0 /\ s \in [1..Len(s) -> Seq(S)]
  BY LenProperties, EmptySeq
<1> DEFINE c == CHOOSE f : f = [i \in 1..Len(s) |-> IF i = 1 THEN s[i] ELSE f[i-1] \o s[i]]
<1>2. FlattenSeq(s) = c[Len(s)]
  BY <1>1, Zenon DEF FlattenSeq
<1>3. \E f \in [1..Len(s) -> Seq(S)] : Gathers(f, Len(s), s)
  BY <1>1, GatherExists, Zenon
<1>4. c = [i \in 1..Len(s) |-> IF i = 1 THEN s[i] ELSE c[i-1] \o s[i]]
  BY <1>3, Zenon DEF Gathers
<1> HIDE DEF c
<1>5. \A i \in 1..Len(s) : c[i] = IF i = 1 THEN s[i] ELSE c[i-1] \o s[i]
  BY <1>4, Zenon
<1> DEFINE B == {k \in 0..Len(s) : \A i \in 1..k : c[i] \in Seq(S)}
<1>6. Len(s) \in B
  <2>1. 0 \in B
    BY <1>1
  <2>2. ASSUME NEW k \in 0..(Len(s) - 1), k \in B PROVE k + 1 \in B
    <3>1. k + 1 \in 1..Len(s) /\ s[k+1] \in Seq(S)
      BY <1>1
    <3>2. c[k+1] \in Seq(S)
      <4>1. CASE k = 0
        BY <1>5, <3>1, <4>1
      <4>2. CASE k # 0
        <5>1. k \in 1..k /\ k + 1 # 1 /\ (k + 1) - 1 = k
          BY <4>2
        <5>2. c[k] \in Seq(S) /\ c[k+1] = c[k] \o s[k+1]
          BY <1>5, <2>2, <3>1, <5>1, Zenon
        <5> QED
          BY <3>1, <5>2, ConcatProperties
      <4> QED
        BY <4>1, <4>2
    <3>3. \A i \in 1..(k + 1) : i \in 1..k \/ i = k + 1
      OBVIOUS
    <3> QED
      BY <2>2, <3>1, <3>2, <3>3
  <2>3. B \in SUBSET (0..Len(s))
    OBVIOUS
  <2> HIDE DEF B
  <2> QED
    BY <1>1, <2>1, <2>2, <2>3, Climb, Zenon
<1>7. c \in [1..Len(s) -> Seq(S)]
  BY <1>4, <1>6, Zenon
<1>8. Gathers(c, Len(s), s)
  BY <1>4, Zenon DEF Gathers
<1> QED
  BY <1>2, <1>7, <1>8, Zenon

\* FlattenSeq of sequences is a sequence.
LEMMA FlattenTyped ==
  ASSUME NEW S, NEW s \in Seq(Seq(S))
  PROVE  FlattenSeq(s) \in Seq(S)
<1>1. CASE s = <<>>
  BY <1>1, EmptySeq, Zenon DEF FlattenSeq
<1>2. CASE s # <<>>
  <2>1. Len(s) \in 1..Len(s)
    BY <1>2, EmptySeq
  <2>2. PICK f \in [1..Len(s) -> Seq(S)] : Gathers(f, Len(s), s) /\ FlattenSeq(s) = f[Len(s)]
    BY <1>2, FlattenGathers
  <2> QED
    BY ONLY <2>1, <2>2, Zenon
<1> QED
  BY <1>1, <1>2

\* The library's associativity, for all sequences at once.
Associates(S) == \A a, b, c \in Seq(S) : (a \o b) \o c = a \o (b \o c)

LEMMA Regroup ==
  ASSUME NEW S
  PROVE  Associates(S)
<1> SUFFICES ASSUME NEW a \in Seq(S), NEW b \in Seq(S), NEW c \in Seq(S)
             PROVE  (a \o b) \o c = a \o (b \o c)
  BY Zenon DEF Associates
<1> QED
  BY ConcatAssociative

\* The parts up to m + 1 are the first, and the others up to m.
Firsts(f, g, m, s) == f[m+1] = IF m = 0 THEN s[1] ELSE s[1] \o g[m]

\* The induction: the parts up to k + 1 are the first and the others up to k.
LEMMA GatherFirst ==
  ASSUME NEW S, NEW m \in Nat, NEW s \in [1..(m + 1) -> Seq(S)], NEW t \in [1..m -> Seq(S)],
         \A i \in 1..m : t[i] = s[i+1],
         NEW f \in [1..(m + 1) -> Seq(S)], NEW g \in [1..m -> Seq(S)],
         Gathers(f, m + 1, s), Gathers(g, m, t), Associates(S)
  PROVE  Firsts(f, g, m, s)
<1> DEFINE p == s[1]
           Same(k) == f[k+1] = IF k = 0 THEN p ELSE p \o g[k]
           B == {k \in 0..m : Same(k)}
<1>1. \A i \in 1..(m + 1) : f[i] = IF i = 1 THEN s[i] ELSE f[i-1] \o s[i]
  BY Zenon DEF Gathers
<1>2. \A i \in 1..m : g[i] = IF i = 1 THEN t[i] ELSE g[i-1] \o t[i]
  BY Zenon DEF Gathers
<1>3. p \in Seq(S) /\ 1 \in 1..(m + 1)
  OBVIOUS
<1>4. f[1] = p
  BY <1>1, <1>3
<1>5. Same(0)
  BY <1>4
<1> HIDE DEF p
<1>6. ASSUME NEW k \in 0..(m - 1), Same(k) PROVE Same(k + 1)
  <2>1. k + 1 \in 1..m /\ k + 2 \in 1..(m + 1) /\ (k + 2) - 1 = k + 1 /\ (k + 1) + 1 = k + 2
        /\ k + 2 # 1 /\ k + 1 # 0
    OBVIOUS
  <2>2. f[k+2] = f[k+1] \o s[k+2]
    BY ONLY <1>1, <2>1, Zenon
  <2>3. t[k+1] = s[k+2] /\ t[k+1] \in Seq(S)
    BY <2>1, Zenon
  <2>4. CASE k = 0
    <3>1. g[k+1] = t[k+1]
      BY <1>2, <2>1, <2>4
    <3>2. f[k+1] = p
      BY <1>4, <2>4
    <3> QED
      BY ONLY <2>1, <2>2, <2>3, <3>1, <3>2, Zenon
  <2>5. CASE k # 0
    <3>1. k \in 1..m /\ (k + 1) - 1 = k /\ k + 1 # 1
      BY <2>1, <2>5
    <3>2. g[k+1] = g[k] \o t[k+1]
      BY ONLY <1>2, <2>1, <3>1, Zenon
    <3>3. g[k] \in Seq(S)
      BY <3>1
    <3>4. f[k+1] = p \o g[k]
      BY ONLY <1>6, <2>5, Zenon
    <3>5. (p \o g[k]) \o t[k+1] = p \o (g[k] \o t[k+1])
      <4>1. \A a, b, c \in Seq(S) : (a \o b) \o c = a \o (b \o c)
        BY ONLY Associates(S), Zenon DEF Associates
      <4>2. p \in Seq(S) /\ g[k] \in Seq(S) /\ t[k+1] \in Seq(S)
        BY <1>3, <2>3, <3>3
      <4> QED
        BY ONLY <4>1, <4>2, Zenon
    <3> QED
      BY ONLY <2>1, <2>2, <2>3, <3>2, <3>4, <3>5, Zenon
  <2> QED
    BY <2>4, <2>5
<1> HIDE DEF Same
<1>7. 0 \in B /\ B \in SUBSET (0..m) /\ \A k \in 0..(m - 1) : k \in B => k + 1 \in B
  BY <1>5, <1>6
<1> HIDE DEF B
<1>8. m \in B
  BY ONLY <1>7, m \in Nat, Climb, Zenon
<1> QED
  BY <1>8 DEF B, Same, p, Firsts

\* FlattenSeq is the first part and then the others.
LEMMA FlattenFirst ==
  ASSUME NEW S, NEW s \in Seq(Seq(S)), s # <<>>
  PROVE  FlattenSeq(s) = Head(s) \o FlattenSeq(Tail(s))
<1> DEFINE m == Len(s) - 1
           t == Tail(s)
<1>1. m \in Nat /\ Len(s) = m + 1 /\ s \in [1..(m + 1) -> Seq(S)]
  BY LenProperties, EmptySeq
<1>2. t \in Seq(Seq(S)) /\ Len(t) = m /\ (\A i \in 1..m : t[i] = s[i+1])
  BY HeadTailProperties
<1>3. t \in [1..m -> Seq(S)]
  BY <1>2, LenProperties, Zenon
<1>4. Head(s) = s[1] /\ s[1] \in Seq(S)
  <2>1. 1 \in 1..(m + 1)
    BY <1>1
  <2> QED
    BY <1>1, <2>1
<1>5. PICK f \in [1..(m + 1) -> Seq(S)] : Gathers(f, m + 1, s) /\ FlattenSeq(s) = f[m+1]
  BY <1>1, FlattenGathers
<1> HIDE DEF m, t
<1>6. CASE t = <<>>
  <2>1. m = 0
    BY <1>2, <1>6, EmptySeq
  <2>2. FlattenSeq(t) = <<>>
    BY <1>6, EmptySeq, Zenon DEF FlattenSeq
  <2>3. f[m+1] = s[1]
    <3>1. f[1] = s[1]
      BY <1>1, <1>5, <2>1 DEF Gathers
    <3> QED
      BY <2>1, <3>1
  <2> QED
    BY ONLY <1>4, <1>5, <2>2, <2>3, ConcatEmptySeq, Zenon DEF t
<1>7. CASE t # <<>>
  <2>1. PICK g \in [1..m -> Seq(S)] : Gathers(g, m, t) /\ FlattenSeq(t) = g[m]
    BY <1>2, <1>7, FlattenGathers, Zenon
  <2>2. m # 0
    BY <1>2, <1>7, EmptySeq
  <2>3. f[m+1] = s[1] \o g[m]
    <3>1. /\ m \in Nat /\ s \in [1..(m + 1) -> Seq(S)] /\ t \in [1..m -> Seq(S)]
          /\ (\A i \in 1..m : t[i] = s[i+1])
          /\ f \in [1..(m + 1) -> Seq(S)] /\ g \in [1..m -> Seq(S)]
          /\ Gathers(f, m + 1, s) /\ Gathers(g, m, t) /\ Associates(S)
      BY <1>1, <1>2, <1>3, <1>5, <2>1, Regroup, Zenon
    <3>2. Firsts(f, g, m, s)
      BY ONLY <3>1, GatherFirst, Zenon
    <3> QED
      BY <2>2, <3>2, Zenon DEF Firsts
  <2> QED
    BY ONLY <1>4, <1>5, <2>1, <2>3, Zenon DEF t
<1> QED
  BY <1>6, <1>7

(* --- The pipeline of polygon words ----------------------------------------- *)

Tags    == {"reader32", "reader64"}
Token   == {"tag", "low", "high", "whole"} \X (Tags \cup Words)
Printed == {"vertices", "perimeter", "area"} \X Words

\* What Pipeline assumes of its constants.
LEMMA PlSizes ==
  /\ Forms \in [Words -> Tags] /\ Readers = Tags /\ Children = Tags \cup {"writer"}
  /\ \A w \in Words : w.last \in BOOLEAN
  /\ \A s \in Inputs : s \in Seq(Words) /\ \E k \in 1..Len(s) : s[k].last
BY PipelineAssumption DEF PipelineAssumption, Readers, Children, Tags

\* What a word prints is a sequence.
LEMMA RunTyped ==
  ASSUME NEW actions, NEW w \in Words
  PROVE  RunAction(actions, w) \in Seq(Printed)
<1>1. \A a \in {"vertices", "perimeter", "area"} : Run(a, actions, w) \in Seq(Printed)
  <2> SUFFICES ASSUME NEW a \in {"vertices", "perimeter", "area"}
               PROVE  Run(a, actions, w) \in Seq(Printed)
    OBVIOUS
  <2>1. <<a, w>> \in Printed
    BY DEF Printed
  <2> QED
    BY <2>1 DEF Run
<1> DEFINE v == Run("vertices", actions, w)
           q == Run("perimeter", actions, w)
           r == Run("area", actions, w)
<1>2. v \in Seq(Printed) /\ q \in Seq(Printed) /\ r \in Seq(Printed)
  BY <1>1
<1> HIDE DEF v, q, r
<1>3. v \o q \in Seq(Printed)
  BY <1>2, ConcatProperties
<1>4. (v \o q) \o r \in Seq(Printed)
  BY <1>2, <1>3, ConcatProperties
<1> QED
  BY <1>4 DEF RunAction, v, q, r

\* The list stays one of words, and what is printed about it is a sequence.
LEMMA ListTyped ==
  ASSUME NEW w \in Words, NEW l \in Seq(Words)
  PROVE  NewList(w, l) \in Seq(Words) /\ Output(w, l) \in Seq(Printed)
<1>1. NewList(w, l) \in Seq(Words)
  BY AppendProperties DEF NewList
<1>2. ASSUME NEW m \in Seq(Words) PROVE DoAll(w, m) \in Seq(Printed)
  <2> DEFINE parts == [k \in 1..Len(m) |->
                         IF ShouldRun(w, m[k]) THEN RunAction(w.actions, m[k]) ELSE <<>>]
  <2>1. Len(m) \in Nat /\ \A k \in 1..Len(m) : m[k] \in Words
    BY LenProperties, ElementOfSeq
  <2>2. \A k \in 1..Len(m) : RunAction(w.actions, m[k]) \in Seq(Printed)
    BY <2>1, RunTyped
  <2>3. <<>> \in Seq(Printed)
    OBVIOUS
  <2>4. parts \in [1..Len(m) -> Seq(Printed)]
    BY <2>2, <2>3
  <2> HIDE DEF parts
  <2>5. parts \in Seq(Seq(Printed))
    BY <2>1, <2>4
  <2>6. FlattenSeq(parts) \in Seq(Printed)
    BY <2>5, FlattenTyped
  <2> QED
    BY <2>6 DEF DoAll, parts
<1>3. RunAction(w.actions, w) \in Seq(Printed)
  BY RunTyped
<1> QED
  BY <1>1, <1>2, <1>3 DEF Output

\* The tokens of a word: its tag and its body.
Body(w) == IF Forms[w] = "reader64" THEN <<<<"whole", w>>>> ELSE <<<<"low", w>>, <<"high", w>>>>

\* A word is its tag and its body.
LEMMA WordTokens ==
  ASSUME NEW w \in Words
  PROVE  /\ Tokens(w) = <<<<"tag", Forms[w]>>>> \o Body(w)
         /\ Tokens(w) \in Seq(Token) /\ Body(w) \in Seq(Token)
         /\ Forms[w] \in Tags /\ <<"tag", Forms[w]>> \in Token
         /\ <<"low", w>> \in Token /\ <<"high", w>> \in Token /\ <<"whole", w>> \in Token
<1>1. Forms[w] \in Tags
  BY PlSizes
<1>2. /\ <<"tag", Forms[w]>> \in Token /\ <<"low", w>> \in Token
      /\ <<"high", w>> \in Token /\ <<"whole", w>> \in Token
  BY <1>1 DEF Token
<1> DEFINE a == <<"tag", Forms[w]>>
           b == <<"low", w>>
           c == <<"high", w>>
           d == <<"whole", w>>
<1>3. a \in Token /\ b \in Token /\ c \in Token /\ d \in Token
  BY <1>2
<1>4. /\ Body(w) = IF Forms[w] = "reader64" THEN <<d>> ELSE <<b, c>>
      /\ Tokens(w) = IF Forms[w] = "reader64" THEN <<a, d>> ELSE <<a, b, c>>
  BY <1>1 DEF Body, Tokens, Tags
<1> HIDE DEF a, b, c, d
<1>5. <<a, d>> = <<a>> \o <<d>> /\ <<a, b, c>> = <<a>> \o <<b, c>>
  OBVIOUS
<1>6. Body(w) \in Seq(Token) /\ Tokens(w) \in Seq(Token) /\ Tokens(w) = <<a>> \o Body(w)
  <2>1. /\ <<a, d>> \in Seq(Token) /\ <<a, b, c>> \in Seq(Token)
        /\ <<d>> \in Seq(Token) /\ <<b, c>> \in Seq(Token)
    BY <1>3
  <2>2. CASE Forms[w] = "reader64"
    BY <1>4, <1>5, <2>1, <2>2, Zenon
  <2>3. CASE Forms[w] # "reader64"
    BY <1>4, <1>5, <2>1, <2>3, Zenon
  <2> QED
    BY <2>2, <2>3
<1> QED
  BY <1>1, <1>2, <1>6 DEF a

\* The tokens of the words are those of the first and then the others'.
LEMMA AllTyped ==
  ASSUME NEW s \in Seq(Words)
  PROVE  /\ AllTokens(s) \in Seq(Token)
         /\ s # <<>> => AllTokens(s) = Tokens(Head(s)) \o AllTokens(Tail(s))
<1> DEFINE Parts(u) == [k \in 1..Len(u) |-> Tokens(u[k])]
<1>1. ASSUME NEW u \in Seq(Words) PROVE Parts(u) \in Seq(Seq(Token)) /\ Len(Parts(u)) = Len(u)
  <2>1. Len(u) \in Nat /\ \A k \in 1..Len(u) : u[k] \in Words
    BY LenProperties, ElementOfSeq
  <2>2. \A k \in 1..Len(u) : Tokens(u[k]) \in Seq(Token)
    BY <2>1, WordTokens, Zenon
  <2>3. Parts(u) \in [1..Len(u) -> Seq(Token)]
    BY <2>2
  <2> QED
    BY <2>1, <2>3
<1>2. FlattenSeq(Parts(s)) \in Seq(Token)
  <2> HIDE DEF Parts
  <2> QED
    BY <1>1, FlattenTyped
<1>3. ASSUME s # <<>>
      PROVE  FlattenSeq(Parts(s)) = Tokens(Head(s)) \o FlattenSeq(Parts(Tail(s)))
  <2>1. Len(s) \in Nat \ {0} /\ Head(s) = s[1]
    BY <1>3, EmptySeq
  <2>2. Tail(s) \in Seq(Words) /\ Len(Tail(s)) = Len(s) - 1
        /\ \A i \in 1..Len(Tail(s)) : Tail(s)[i] = s[i+1]
    BY <1>3, HeadTailProperties
  <2>3. Parts(s) # <<>> /\ Head(Parts(s)) = Tokens(Head(s))
    BY <1>1, <2>1
  <2>4. Tail(Parts(s)) = Parts(Tail(s))
    <3> DEFINE p == Parts(s)
               q == Parts(Tail(s))
    <3>1. p \in Seq(Seq(Token)) /\ q \in Seq(Seq(Token)) /\ Len(p) = Len(s) /\ Len(q) = Len(s) - 1
      BY <1>1, <2>2, Zenon
    <3>2. \A i \in 1..(Len(s) - 1) : q[i] = p[i+1]
      BY <2>1, <2>2
    <3> HIDE DEF p, q
    <3>3. Tail(p) \in Seq(Seq(Token)) /\ Len(Tail(p)) = Len(p) - 1
          /\ \A i \in 1..Len(Tail(p)) : Tail(p)[i] = p[i+1]
      BY <2>3, <3>1, HeadTailProperties, Zenon DEF p
    <3>4. Tail(p) = q
      BY <3>1, <3>2, <3>3, SeqEqual, Zenon
    <3> QED
      BY <3>4 DEF p, q
  <2> HIDE DEF Parts
  <2>5. FlattenSeq(Parts(s)) = Head(Parts(s)) \o FlattenSeq(Tail(Parts(s)))
    BY <1>1, <2>3, FlattenFirst
  <2> QED
    BY <2>3, <2>4, <2>5, Zenon
<1> QED
  BY <1>2, <1>3, Zenon DEF AllTokens

\* The first token and the rest.
LEMMA FirstToken ==
  ASSUME NEW x \in Token, NEW s \in Seq(Token)
  PROVE  /\ <<x>> \o s \in Seq(Token) /\ <<x>> \o s # <<>>
         /\ Head(<<x>> \o s) = x /\ Tail(<<x>> \o s) = s
<1> DEFINE u == <<x>> \o s
<1>1. u \in Seq(Token) /\ Len(u) = 1 + Len(s) /\ Len(s) \in Nat
      /\ \A i \in 1..(1 + Len(s)) : u[i] = IF i <= 1 THEN x ELSE s[i - 1]
  BY ConcatProperties
<1> HIDE DEF u
<1>2. u # <<>> /\ Head(u) = x
  BY <1>1
<1>3. Tail(u) \in Seq(Token) /\ Len(Tail(u)) = Len(s) /\ \A i \in 1..Len(s) : Tail(u)[i] = u[i+1]
  BY <1>1, <1>2, HeadTailProperties
<1>4. Tail(u) = s
  BY <1>1, <1>3, SeqEqual
<1> QED
  BY <1>1, <1>2, <1>4 DEF u

(* Where main and the readers are in a word: W is the word at hand, Asked the
   reader that it is for, and Ahead the tokens of the words after it. *)
W     == Head(typed)
Asked == Forms[W]
Ahead == AllTokens(Tail(typed))

Resting(Q) == \A r \in Q : cpc[r] = "signal" /\ signals[r] = 0

AtTag == mpc = "tag" /\ Resting(Tags) /\ back = <<>> /\ stdin = AllTokens(typed)
AtSignal ==
  mpc = "signal" /\ Resting(Tags) /\ back = <<>> /\ tag = Asked /\ stdin = Body(W) \o Ahead

\* main has asked, and the reader is at this place with this many signals.
AtRead(place, bytes) ==
  mpc = "read" /\ Resting(Tags \ {Asked}) /\ cpc[Asked] = place /\ signals[Asked] = bytes
Told     == AtRead("signal", 1) /\ back = <<>> /\ stdin = Body(W) \o Ahead
AtLow    == AtRead("low", 0) /\ back = <<>> /\ Asked = "reader32" /\ stdin = Body(W) \o Ahead
AtScan32 == /\ AtRead("scan", 0) /\ back = <<>> /\ Asked = "reader32" /\ part = W
            /\ stdin = <<<<"high", W>>>> \o Ahead
AtScan64 == AtRead("scan", 0) /\ back = <<>> /\ Asked = "reader64" /\ stdin = Body(W) \o Ahead
HasWord  == /\ AtRead("write", 0) /\ back = <<>> /\ got[Asked] = W
            /\ Asked = "reader32" => part = W
            /\ stdin = Ahead
Answered == AtRead("signal", 0) /\ back = <<W>> /\ stdin = Ahead

Stage == AtTag \/ AtSignal \/ Told \/ AtLow \/ AtScan32 \/ AtScan64 \/ HasWord \/ Answered

\* A word marked last is still to come.
ToCome == \E k \in 1..Len(typed) : typed[k].last

Places == {"signal", "low", "scan", "write", "copy", "exited", "reaped"}

PlTyped ==
  /\ typed \in Seq(Words) /\ list \in Seq(Words)
  /\ buf \in Seq(Printed) /\ pipe \in Seq(Printed) /\ wbuf \in Seq(Printed)
  /\ mpc \in {"tag", "signal", "read", "stop", "close", "wait", "exited"}
  /\ tag \in {NoWord} \cup Tags
  /\ cpc \in [Tags \cup {"writer"} -> Places]
  /\ cpc["writer"] \in {"copy", "exited"}
  /\ signals \in [Tags -> 0..2] /\ DOMAIN got = Tags
  /\ closed \subseteq Tags /\ (mpc \notin {"wait", "exited"} => closed = {})
  /\ waits \in 0..2

\* main still waits for the readers it has not reaped, and the writer ends
\* after main with everything written.
PlEnd ==
  /\ waits = (IF cpc["reader32"] = "reaped" THEN 0 ELSE 1)
               + (IF cpc["reader64"] = "reaped" THEN 0 ELSE 1)
  /\ mpc # "exited" => cpc["writer"] = "copy"
  /\ mpc = "exited" => waits = 0 /\ buf = <<>>
  /\ cpc["writer"] = "exited" => pipe = <<>> /\ file = wbuf

PlInv ==
  /\ PlTyped /\ PlEnd
  /\ mpc \in {"tag", "signal", "read"} => ToCome /\ Stage
  /\ mpc = "stop" => Resting(Tags)

\* With a word to come there is one.
LEMMA WordAtHand ==
  ASSUME typed \in Seq(Words), ToCome
  PROVE  /\ typed # <<>> /\ W \in Words /\ Tail(typed) \in Seq(Words) /\ Asked \in Tags
         /\ Ahead \in Seq(Token) /\ W.last \in BOOLEAN
         /\ ~W.last => ToCome'  \/ typed' # Tail(typed)
<1>1. Len(typed) \in Nat /\ typed # <<>>
  <2>1. Len(typed) \in Nat
    BY LenProperties
  <2> QED
    BY <2>1, EmptySeq DEF ToCome
<1>2. W \in Words /\ Tail(typed) \in Seq(Words) /\ Len(Tail(typed)) = Len(typed) - 1
      /\ \A i \in 1..Len(Tail(typed)) : Tail(typed)[i] = typed[i+1]
  BY <1>1, HeadTailProperties DEF W
<1>3. Asked \in Tags /\ Ahead \in Seq(Token) /\ W.last \in BOOLEAN
  BY <1>2, WordTokens, AllTyped, PlSizes, Zenon DEF Asked, Ahead
<1>4. ASSUME ~W.last, typed' = Tail(typed) PROVE ToCome'
  <2>1. PICK k \in 1..Len(typed) : typed[k].last
    BY DEF ToCome
  <2>2. W = typed[1]
    BY <1>1, <2>1 DEF W
  <2>3. k # 1
    BY <1>4, <2>1, <2>2
  <2>4. k - 1 \in 1..Len(Tail(typed)) /\ Tail(typed)[k - 1] = typed[k]
    BY <1>1, <1>2, <2>3
  <2> QED
    BY <1>4, <2>1, <2>4, Zenon DEF ToCome
<1> QED
  BY <1>1, <1>2, <1>3, <1>4

\* Two tokens, one after the other.
LEMMA Two ==
  ASSUME NEW a \in Token, NEW b \in Token
  PROVE  <<a, b>> = <<a>> \o <<b>>
<1> DEFINE u == <<a>> \o <<b>>
           v == <<a, b>>
<1>1. u \in Seq(Token) /\ Len(u) = 2 /\ \A i \in 1..2 : u[i] = IF i = 1 THEN a ELSE b
  <2>1. <<a>> \in Seq(Token) /\ <<b>> \in Seq(Token) /\ Len(<<a>>) = 1 /\ Len(<<b>>) = 1
    OBVIOUS
  <2>2. u \in Seq(Token) /\ Len(u) = 2
        /\ \A i \in 1..2 : u[i] = IF i <= 1 THEN <<a>>[i] ELSE <<b>>[i - 1]
    BY <2>1, ConcatProperties
  <2>3. <<a>>[1] = a /\ <<b>>[1] = b
    OBVIOUS
  <2> QED
    BY <2>2, <2>3
<1>2. v \in Seq(Token) /\ Len(v) = 2 /\ v[1] = a /\ v[2] = b
  OBVIOUS
<1> HIDE DEF u, v
<1>3. \A i \in 1..2 : v[i] = u[i]
  BY <1>1, <1>2
<1>4. v = u
  BY <1>1, <1>2, <1>3, SeqEqual
<1> QED
  BY <1>4 DEF u, v

\* The tokens of the word at hand.
LEMMA TokensAtHand ==
  ASSUME typed \in Seq(Words), ToCome
  PROVE  /\ AllTokens(typed) # <<>> /\ Head(AllTokens(typed)) = <<"tag", Asked>>
         /\ Tail(AllTokens(typed)) = Body(W) \o Ahead
         /\ Asked = "reader64" => /\ Body(W) \o Ahead # <<>>
                                  /\ Head(Body(W) \o Ahead) = <<"whole", W>>
                                  /\ Tail(Body(W) \o Ahead) = Ahead
         /\ Asked = "reader32" => /\ Body(W) \o Ahead # <<>>
                                  /\ Head(Body(W) \o Ahead) = <<"low", W>>
                                  /\ Tail(Body(W) \o Ahead) = <<<<"high", W>>>> \o Ahead
         /\ <<<<"high", W>>>> \o Ahead # <<>>
         /\ Head(<<<<"high", W>>>> \o Ahead) = <<"high", W>>
         /\ Tail(<<<<"high", W>>>> \o Ahead) = Ahead
<1>1. typed # <<>> /\ W \in Words /\ Ahead \in Seq(Token)
  BY WordAtHand
<1>2. /\ Tokens(W) = <<<<"tag", Asked>>>> \o Body(W) /\ Body(W) \in Seq(Token)
      /\ <<"tag", Asked>> \in Token /\ <<"low", W>> \in Token
      /\ <<"high", W>> \in Token /\ <<"whole", W>> \in Token
  BY <1>1, WordTokens, Zenon DEF Asked
<1> DEFINE x == <<"tag", Asked>>
           lo == <<"low", W>>
           hi == <<"high", W>>
           wh == <<"whole", W>>
<1>3. x \in Token /\ lo \in Token /\ hi \in Token /\ wh \in Token
  BY <1>2
<1>4. AllTokens(typed) = (<<x>> \o Body(W)) \o Ahead
  BY <1>1, <1>2, AllTyped, Zenon DEF W, Ahead
<1>5. Body(W) = IF Asked = "reader64" THEN <<wh>> ELSE <<lo, hi>>
  BY DEF Body, Asked
<1> HIDE DEF x, lo, hi, wh
<1>6. <<x>> \in Seq(Token) /\ <<lo>> \in Seq(Token) /\ <<hi>> \in Seq(Token)
  BY <1>3
<1>7. \A a, b, c \in Seq(Token) : (a \o b) \o c = a \o (b \o c)
  BY Regroup DEF Associates
<1>8. AllTokens(typed) = <<x>> \o (Body(W) \o Ahead)
  BY ONLY <1>1, <1>2, <1>4, <1>6, <1>7, Zenon
<1>9. Body(W) \o Ahead \in Seq(Token)
  BY ONLY <1>1, <1>2, ConcatProperties
<1>10. /\ AllTokens(typed) # <<>> /\ Head(AllTokens(typed)) = x
       /\ Tail(AllTokens(typed)) = Body(W) \o Ahead
  BY ONLY <1>3, <1>8, <1>9, FirstToken
<1>11. /\ <<hi>> \o Ahead # <<>> /\ Head(<<hi>> \o Ahead) = hi /\ Tail(<<hi>> \o Ahead) = Ahead
       /\ <<hi>> \o Ahead \in Seq(Token)
  BY ONLY <1>1, <1>3, FirstToken
<1>12. ASSUME Asked = "reader64"
       PROVE  Body(W) \o Ahead # <<>> /\ Head(Body(W) \o Ahead) = wh /\ Tail(Body(W) \o Ahead) = Ahead
  <2>1. Body(W) = <<wh>>
    BY <1>5, <1>12
  <2> QED
    BY ONLY <1>1, <1>3, <2>1, FirstToken
<1>13. ASSUME Asked = "reader32"
       PROVE  /\ Body(W) \o Ahead # <<>> /\ Head(Body(W) \o Ahead) = lo
              /\ Tail(Body(W) \o Ahead) = <<hi>> \o Ahead
  <2>1. Body(W) = <<lo, hi>>
    BY <1>5, <1>13
  <2>2. <<lo, hi>> = <<lo>> \o <<hi>>
    BY ONLY <1>3, Two
  <2>3. (<<lo>> \o <<hi>>) \o Ahead = <<lo>> \o (<<hi>> \o Ahead)
    BY ONLY <1>1, <1>6, <1>7, Zenon
  <2>4. Body(W) \o Ahead = <<lo>> \o (<<hi>> \o Ahead)
    BY ONLY <2>1, <2>2, <2>3, Zenon
  <2> QED
    BY ONLY <1>3, <1>11, <2>4, FirstToken
<1> QED
  BY <1>10, <1>11, <1>12, <1>13, Zenon DEF x, lo, hi, wh

\* Every word has sixteen digits, or the byte behind main's buffer is no digit.
Clean == ~Garbage \/ \A w \in Words : ~w.short

\* Then sscanf makes of a word what was typed.
LEMMA ParsedAlone ==
  ASSUME Clean, NEW w \in Words
  PROVE  Parsed(w) = {w}
BY DEF Clean, Parsed

\* While no word is taken from the input, the word at hand is the same.
LEMMA SameWord ==
  ASSUME typed' = typed
  PROVE  W' = W /\ Asked' = Asked /\ Ahead' = Ahead /\ (ToCome' <=> ToCome)
BY DEF W, Asked, Ahead, ToCome

\* Main and the readers start with the first word's tag to be read.
LEMMA PlStart ==
  ASSUME Init
  PROVE  PlInv
<1>1. typed \in Seq(Words) /\ ToCome
  BY PlSizes DEF Init, ToCome
<1>2. cpc = [c \in Tags \cup {"writer"} |-> IF c = "writer" THEN "copy" ELSE "signal"]
      /\ signals = [r \in Tags |-> 0] /\ DOMAIN got = Tags
  BY PlSizes DEF Init
<1>3. Resting(Tags) /\ cpc["writer"] = "copy" /\ cpc["reader32"] = "signal" /\ cpc["reader64"] = "signal"
      /\ cpc \in [Tags \cup {"writer"} -> Places] /\ signals \in [Tags -> 0..2]
  BY <1>2 DEF Resting, Tags, Places
<1>4. AtTag
  BY <1>3 DEF Init, AtTag
<1>5. PlTyped
  BY <1>1, <1>2, <1>3 DEF Init, PlTyped
<1>6. PlEnd
  BY <1>3 DEF Init, PlEnd
<1> QED
  BY <1>1, <1>4, <1>5, <1>6 DEF PlInv, Stage, Init

\* main scans the tag of the word at hand.
LEMMA TagTaken ==
  ASSUME PlInv, MainTag
  PROVE  PlInv'
<1>1. PlTyped /\ PlEnd /\ ToCome /\ AtTag
  BY DEF MainTag, PlInv, Stage, AtSignal, AtRead, Told, AtLow, AtScan32, AtScan64, HasWord, Answered
<1>2. tag' = Asked /\ stdin' = Body(W) \o Ahead /\ Asked \in Tags
  <2>1. stdin # <<>> /\ Head(stdin) = <<"tag", Asked>> /\ Tail(stdin) = Body(W) \o Ahead
    BY <1>1, TokensAtHand, Zenon DEF AtTag, PlTyped
  <2>2. Asked \in Tags
    BY <1>1, WordAtHand DEF PlTyped
  <2> QED
    BY <2>1, <2>2 DEF MainTag, Scanned, ScanRest
<1>3. mpc = "tag" /\ mpc' = "signal"
      /\ UNCHANGED <<typed, list, waits, cpc, got, signals, closed, back, buf, pipe, wbuf, file>>
  BY DEF MainTag, readVars, outVars
<1>4. W' = W /\ Asked' = Asked /\ Ahead' = Ahead /\ ToCome'
  BY <1>1, <1>3, SameWord
<1>5. AtSignal'
  BY <1>1, <1>2, <1>3, <1>4 DEF AtTag, AtSignal, Resting, Body
<1>6. PlTyped'
  BY <1>1, <1>2, <1>3 DEF PlTyped
<1>7. PlEnd'
  BY <1>1, <1>3 DEF PlEnd
<1> QED
  BY <1>3, <1>4, <1>5, <1>6, <1>7 DEF PlInv, Stage

\* main signals the reader that the word is for.
LEMMA SignalSent ==
  ASSUME PlInv, MainSignal
  PROVE  PlInv'
<1>1. PlTyped /\ PlEnd /\ ToCome /\ AtSignal
  BY DEF MainSignal, PlInv, Stage, AtTag, AtRead, Told, AtLow, AtScan32, AtScan64, HasWord, Answered
<1>2. Asked \in Tags /\ tag = Asked
  BY <1>1, WordAtHand DEF PlTyped, AtSignal
<1>3. /\ mpc = "signal" /\ mpc' = "read" /\ signals' = [signals EXCEPT ![Asked] = @ + 1]
      /\ UNCHANGED <<stdin, typed, list, tag, waits, cpc, got, closed, back, buf, pipe, wbuf, file>>
  BY <1>2, Zenon DEF MainSignal, inVars, readVars, outVars, Tags
<1>4. W' = W /\ Asked' = Asked /\ Ahead' = Ahead /\ ToCome'
  BY <1>1, <1>3, SameWord
<1>5. signals \in [Tags -> 0..2] /\ \A r \in Tags : cpc[r] = "signal" /\ signals[r] = 0
  BY <1>1 DEF PlTyped, AtSignal, Resting
<1>6. /\ signals' \in [Tags -> 0..2] /\ signals'[Asked] = 1
      /\ \A r \in Tags \ {Asked} : signals'[r] = 0
  BY <1>2, <1>3, <1>5
<1>7. Told'
  BY <1>1, <1>2, <1>3, <1>4, <1>5, <1>6 DEF AtSignal, Told, AtRead, Resting, Body
<1>8. PlTyped'
  BY <1>1, <1>3, <1>6 DEF PlTyped
<1>9. PlEnd'
  BY <1>1, <1>3 DEF PlEnd
<1> QED
  BY <1>3, <1>4, <1>7, <1>8, <1>9 DEF PlInv, Stage

\* The step of main that runs a word: the word at hand, as it was typed.
LEMMA WordRun ==
  ASSUME Clean, PlInv, MainRun
  PROVE  /\ ToCome /\ Answered /\ typed # <<>> /\ W \in Words /\ typed' = Tail(typed)
         /\ list' = NewList(W, list) /\ buf' = buf \o Output(W, list)
         /\ mpc = "read" /\ mpc' = (IF W.last THEN "stop" ELSE "tag") /\ back' = <<>>
         /\ UNCHANGED <<stdin, tag, waits, cpc, got, signals, closed, pipe, wbuf, file>>
<1>1. PlTyped /\ ToCome /\ Answered
  BY DEF MainRun, PlInv, Stage, AtTag, AtSignal, Told, AtLow, AtScan32, AtScan64, HasWord
<1>2. typed # <<>> /\ W \in Words
  BY <1>1, WordAtHand DEF PlTyped
<1>3. back = <<W>>
  BY <1>1 DEF Answered
<1>4. Head(back) = W /\ Tail(back) = <<>>
  BY <1>3
<1>5. Parsed(Head(back)) = {W}
  BY <1>2, <1>4, ParsedAlone
<1> QED
  BY <1>1, <1>2, <1>4, <1>5, Zenon DEF MainRun, readVars

\* Then the next word is at hand, or the last has been run.
LEMMA RunDone ==
  ASSUME Clean, PlInv, MainRun
  PROVE  PlInv'
<1> DEFINE o == Output(W, list)
<1>1. /\ ToCome /\ Answered /\ typed # <<>> /\ W \in Words /\ typed' = Tail(typed)
      /\ list' = NewList(W, list) /\ buf' = buf \o o
      /\ mpc = "read" /\ mpc' = (IF W.last THEN "stop" ELSE "tag") /\ back' = <<>>
      /\ UNCHANGED <<stdin, tag, waits, cpc, got, signals, closed, pipe, wbuf, file>>
  BY WordRun
<1>2. PlTyped /\ PlEnd
  BY DEF PlInv
<1>3. Tail(typed) \in Seq(Words) /\ Asked \in Tags /\ W.last \in BOOLEAN
      /\ (~W.last => ToCome')
  BY <1>1, <1>2, WordAtHand DEF PlTyped
<1>4. NewList(W, list) \in Seq(Words) /\ o \in Seq(Printed)
  BY <1>1, <1>2, ListTyped DEF PlTyped
<1> HIDE DEF o
<1>5. buf' \in Seq(Printed)
  <2>1. buf \in Seq(Printed)
    BY <1>2 DEF PlTyped
  <2> QED
    BY <1>1, <1>4, <2>1, ConcatProperties
<1>6. Resting(Tags)'
  <2>1. \A r \in Tags : cpc[r] = "signal" /\ signals[r] = 0
    BY <1>1 DEF Answered, AtRead, Resting
  <2> QED
    BY <1>1, <2>1 DEF Resting
<1>7. PlTyped'
  BY <1>1, <1>2, <1>3, <1>4, <1>5 DEF PlTyped
<1>8. PlEnd'
  BY <1>1, <1>2 DEF PlEnd
<1>9. ASSUME ~W.last PROVE AtTag'
  <2>1. stdin' = AllTokens(typed')
    BY <1>1 DEF Answered, Ahead
  <2> QED
    BY <1>1, <1>6, <1>9, <2>1 DEF AtTag
<1> QED
  BY <1>1, <1>3, <1>6, <1>7, <1>8, <1>9 DEF PlInv, Stage

\* What main does after the last word.
LEMMA MainEnds ==
  ASSUME PlInv, MainStop \/ MainClose \/ MainWait \/ MainExit
  PROVE  PlInv'
<1>1. PlTyped /\ PlEnd
  BY DEF PlInv
<1>2. CASE MainStop
  <2>1. signals \in [Tags -> 0..2] /\ signals["reader64"] = 0
    BY <1>1, <1>2 DEF MainStop, PlInv, PlTyped, Resting, Tags
  <2>2. signals' \in [Tags -> 0..2]
    BY <1>2, <2>1 DEF MainStop, Tags
  <2>3. mpc = "stop" /\ mpc' = "close"
        /\ UNCHANGED <<typed, list, tag, waits, cpc, got, closed, buf, pipe, wbuf, file>>
    BY <1>2 DEF MainStop, inVars, readVars, outVars
  <2>4. PlTyped'
    BY <1>1, <2>2, <2>3 DEF PlTyped
  <2>5. PlEnd'
    BY <1>1, <2>3 DEF PlEnd
  <2> QED
    BY <2>3, <2>4, <2>5 DEF PlInv
<1>3. CASE MainClose
  <2>1. mpc = "close" /\ mpc' = "wait" /\ closed' = Tags
        /\ UNCHANGED <<typed, list, tag, waits, cpc, got, signals, buf, pipe, wbuf, file>>
    BY <1>3, PlSizes DEF MainClose, inVars, readVars, outVars
  <2>2. PlTyped'
    BY <1>1, <2>1 DEF PlTyped
  <2>3. PlEnd'
    BY <1>1, <2>1 DEF PlEnd
  <2> QED
    BY <2>1, <2>2, <2>3 DEF PlInv
<1>4. CASE MainWait
  <2>1. mpc = "wait" /\ waits > 0 /\ waits' = waits - 1
        /\ UNCHANGED <<typed, list, mpc, tag, got, signals, closed, buf, pipe, wbuf, file>>
    BY <1>4 DEF MainWait, inVars, outVars
  <2>2. PICK c \in Tags \cup {"writer"} :
          cpc[c] = "exited" /\ cpc' = [cpc EXCEPT ![c] = "reaped"]
    BY <1>4, PlSizes, Zenon DEF MainWait
  <2>3. cpc \in [Tags \cup {"writer"} -> Places] /\ waits \in 0..2
    BY <1>1 DEF PlTyped
  <2>4. c # "writer"
    BY <1>1, <2>1, <2>2 DEF PlEnd
  <2>5. /\ cpc' \in [Tags \cup {"writer"} -> Places] /\ cpc'["writer"] = cpc["writer"]
        /\ waits' \in 0..2
    BY <2>1, <2>2, <2>3, <2>4 DEF Places
  <2>6. PlTyped'
    BY <1>1, <2>1, <2>5 DEF PlTyped
  <2>7. waits' = (IF cpc'["reader32"] = "reaped" THEN 0 ELSE 1)
                   + (IF cpc'["reader64"] = "reaped" THEN 0 ELSE 1)
    <3>1. waits = (IF cpc["reader32"] = "reaped" THEN 0 ELSE 1)
                    + (IF cpc["reader64"] = "reaped" THEN 0 ELSE 1)
      BY <1>1 DEF PlEnd
    <3> QED
      BY <2>1, <2>2, <2>3, <2>4, <3>1 DEF Tags
  <2>8. PlEnd'
    BY <1>1, <2>1, <2>5, <2>7 DEF PlEnd
  <2> QED
    BY <2>1, <2>6, <2>8 DEF PlInv
<1>5. CASE MainExit
  <2>1. mpc = "wait" /\ waits = 0 /\ mpc' = "exited" /\ pipe' = pipe \o buf /\ buf' = <<>>
        /\ UNCHANGED <<typed, list, tag, waits, cpc, got, signals, closed, wbuf, file>>
    BY <1>5 DEF MainExit, inVars, readVars
  <2>2. pipe' \in Seq(Printed) /\ buf' \in Seq(Printed)
    <3>1. pipe \in Seq(Printed) /\ buf \in Seq(Printed)
      BY <1>1 DEF PlTyped
    <3> QED
      BY <2>1, <3>1, ConcatProperties
  <2>3. PlTyped'
    BY <1>1, <2>1, <2>2 DEF PlTyped
  <2>4. PlEnd'
    BY <1>1, <2>1 DEF PlEnd
  <2> QED
    BY <2>1, <2>3, <2>4 DEF PlInv
<1> QED
  BY <1>2, <1>3, <1>4, <1>5

\* main's output goes on to the pipe.
LEMMA Flushed ==
  ASSUME PlInv, Flush
  PROVE  PlInv'
<1>1. PlTyped /\ PlEnd
  BY DEF PlInv
<1>2. mpc # "exited" /\ pipe' = pipe \o buf /\ buf' = <<>>
      /\ UNCHANGED <<stdin, typed, list, mpc, tag, word, waits, cpc, part, got, signals, closed, back,
                     wbuf, file>>
  BY DEF Flush, inVars, mainVars, readVars
<1>3. pipe' \in Seq(Printed) /\ buf' \in Seq(Printed)
  <2>1. pipe \in Seq(Printed) /\ buf \in Seq(Printed)
    BY <1>1 DEF PlTyped
  <2> QED
    BY <1>2, <2>1, ConcatProperties
<1>4. PlTyped'
  BY <1>1, <1>2, <1>3 DEF PlTyped
<1>5. PlEnd'
  BY <1>1, <1>2 DEF PlEnd
<1>6. (Stage => Stage') /\ (ToCome => ToCome') /\ (Resting(Tags) => Resting(Tags)')
  BY <1>2, Zenon DEF Stage, AtTag, AtSignal, AtRead, Told, AtLow, AtScan32, AtScan64, HasWord, Answered,
              W, Asked, Ahead, Resting, ToCome, Body
<1> QED
  BY <1>2, <1>4, <1>5, <1>6 DEF PlInv

\* A step of a reader leaves main, the output and the writer alone.
Apart(r, place) ==
  /\ cpc[r] \notin {"exited", "reaped"} /\ cpc' = [cpc EXCEPT ![r] = place]
  /\ DOMAIN got' = Tags /\ signals' \in [Tags -> 0..2]
  /\ UNCHANGED <<typed, list, mpc, tag, waits, closed, buf, pipe, wbuf, file>>

\* It keeps the invariant if it is one of the word's stages.
LEMMA ReaderApart ==
  ASSUME PlInv, NEW r \in Tags, NEW place \in {"signal", "low", "scan", "write", "exited"},
         Apart(r, place), mpc \in {"tag", "signal", "read"} => Stage', mpc # "stop"
  PROVE  PlInv'
<1>1. PlTyped /\ PlEnd /\ cpc \in [Tags \cup {"writer"} -> Places] /\ r # "writer"
  BY DEF PlInv, PlTyped, Tags
<1>2. /\ cpc' \in [Tags \cup {"writer"} -> Places] /\ cpc'["writer"] = cpc["writer"]
      /\ \A q \in Tags : cpc'[q] = "reaped" <=> cpc[q] = "reaped"
  BY <1>1 DEF Places, Apart
<1>3. PlTyped'
  BY <1>1, <1>2 DEF PlTyped, Apart
<1>4. PlEnd'
  BY <1>1, <1>2 DEF PlEnd, Tags, Apart
<1>5. ToCome => ToCome'
  BY SameWord DEF Apart
<1> QED
  BY <1>3, <1>4, <1>5 DEF PlInv, Apart

\* A reader takes a signal: while words come, only the one that was asked.
LEMMA SignalTaken ==
  ASSUME PlInv, NEW r \in Tags, ReaderSignal(r)
  PROVE  PlInv'
<1>1. PlTyped /\ cpc[r] = "signal" /\ (signals[r] > 0 \/ r \in closed)
      /\ UNCHANGED <<stdin, typed, list, mpc, tag, word, waits, part, got, closed, back, buf, pipe,
                     wbuf, file>>
  BY DEF PlInv, ReaderSignal, inVars, mainVars, outVars
<1> DEFINE first == IF r = "reader32" THEN "low" ELSE "scan"
<1>2. \/ signals[r] > 0 /\ signals' = [signals EXCEPT ![r] = @ - 1] /\ cpc' = [cpc EXCEPT ![r] = first]
      \/ r \in closed /\ signals' = signals /\ cpc' = [cpc EXCEPT ![r] = "exited"]
  BY DEF ReaderSignal
<1>3. signals \in [Tags -> 0..2] /\ cpc \in [Tags \cup {"writer"} -> Places] /\ DOMAIN got = Tags
      /\ (mpc \notin {"wait", "exited"} => closed = {})
  BY <1>1 DEF PlTyped
<1>4. ASSUME mpc \in {"tag", "signal", "read"}
      PROVE  Told /\ ToCome /\ r = Asked /\ signals[r] = 1
  <2>1. signals[r] > 0 /\ Stage /\ ToCome
    BY <1>1, <1>3, <1>4 DEF PlInv
  <2>2. Told /\ r = Asked
    BY <1>1, <2>1 DEF Stage, AtTag, AtSignal, AtRead, Told, AtLow, AtScan32, AtScan64, HasWord,
                      Answered,
                      Resting
  <2> QED
    BY <2>1, <2>2 DEF Told, AtRead
<1>5. mpc # "stop"
  BY <1>1, <1>3 DEF PlInv, Resting
<1>6. CASE signals[r] > 0 /\ signals' = [signals EXCEPT ![r] = @ - 1] /\ cpc' = [cpc EXCEPT ![r] = first]
  <2>1. first \in {"signal", "low", "scan", "write", "exited"} /\ signals' \in [Tags -> 0..2]
    BY <1>3, <1>6
  <2>2. ASSUME mpc \in {"tag", "signal", "read"} PROVE Stage'
    <3>1. Told /\ ToCome /\ r = Asked /\ signals[r] = 1
      BY <1>4, <2>2
    <3>2. Asked \in Tags /\ W' = W /\ Asked' = Asked /\ Ahead' = Ahead
      BY <1>1, <3>1, SameWord
    <3>3. mpc = "read" /\ back = <<>> /\ stdin = Body(W) \o Ahead
          /\ \A q \in Tags \ {Asked} : cpc[q] = "signal" /\ signals[q] = 0
      BY <3>1 DEF Told, AtRead, Resting
    <3>4. /\ cpc'[Asked] = first /\ signals'[Asked] = 0
          /\ \A q \in Tags \ {Asked} : cpc'[q] = "signal" /\ signals'[q] = 0
      BY <1>3, <1>6, <3>1, <3>2, <3>3
    <3>5. AtRead(first, 0)'
      BY <1>1, <3>2, <3>3, <3>4 DEF AtRead, Resting
    <3>6. (back = <<>>)' /\ (stdin = Body(W) \o Ahead)'
      BY <1>1, <3>2, <3>3 DEF Body
    <3>7. CASE r = "reader32"
      BY <3>1, <3>2, <3>5, <3>6, <3>7 DEF AtLow, Stage
    <3>8. CASE r = "reader64"
      BY <3>1, <3>2, <3>5, <3>6, <3>8 DEF AtScan64, Stage
    <3> QED
      BY <3>7, <3>8 DEF Tags
  <2>3. Apart(r, first)
    BY <1>1, <1>3, <1>6, <2>1 DEF Apart
  <2> HIDE DEF first
  <2> QED
    BY <1>5, <2>1, <2>2, <2>3, ReaderApart
<1>7. CASE r \in closed /\ signals' = signals /\ cpc' = [cpc EXCEPT ![r] = "exited"]
  <2>1. mpc \notin {"tag", "signal", "read"}
    BY <1>3, <1>7
  <2>2. Apart(r, "exited")
    BY <1>1, <1>3, <1>7 DEF Apart
  <2> QED
    BY <1>5, <2>1, <2>2, ReaderApart
<1> QED
  BY <1>2, <1>6, <1>7

\* reader32 scans the first token of the word at hand.
LEMMA LowTaken ==
  ASSUME PlInv, ReaderLow
  PROVE  PlInv'
<1> DEFINE r == "reader32"
<1>1. PlTyped /\ cpc[r] = "low" /\ r \in Tags /\ cpc' = [cpc EXCEPT ![r] = "scan"]
      /\ UNCHANGED <<typed, list, mpc, tag, waits, got, signals, closed, back, buf, pipe, wbuf, file>>
  BY DEF PlInv, ReaderLow, mainVars, outVars, Tags
<1>2. signals \in [Tags -> 0..2] /\ cpc \in [Tags \cup {"writer"} -> Places] /\ DOMAIN got = Tags
  BY <1>1 DEF PlTyped
<1>3. mpc # "stop"
  BY <1>1 DEF PlInv, Resting
<1>4. ASSUME mpc \in {"tag", "signal", "read"} PROVE Stage'
  <2>1. Stage /\ ToCome
    BY <1>4 DEF PlInv
  <2>2. AtLow
    BY <1>1, <2>1 DEF Stage, AtTag, AtSignal, AtRead, Told, AtLow, AtScan32, AtScan64, HasWord,
                      Answered,
                      Resting, Tags
  <2>3. Asked = r /\ stdin = Body(W) \o Ahead /\ mpc = "read" /\ back = <<>> /\ signals[r] = 0
        /\ \A q \in Tags \ {r} : cpc[q] = "signal" /\ signals[q] = 0
    BY <2>2 DEF AtLow, AtRead, Resting
  <2>4. stdin # <<>> /\ Head(stdin) = <<"low", W>> /\ Tail(stdin) = <<<<"high", W>>>> \o Ahead
    BY <1>1, <2>1, <2>3, TokensAtHand, Zenon DEF PlTyped
  <2>5. part' = W /\ stdin' = <<<<"high", W>>>> \o Ahead
    <3> DEFINE rest == <<<<"high", W>>>> \o Ahead
    <3>1. stdin # <<>> /\ Head(stdin) = <<"low", W>> /\ Tail(stdin) = rest
      BY <2>4
    <3> HIDE DEF rest
    <3>2. part' = W /\ stdin' = rest
      BY <3>1 DEF ReaderLow, Scanned, ScanRest
    <3> QED
      BY <3>2 DEF rest
  <2>6. W' = W /\ Asked' = Asked /\ Ahead' = Ahead
    BY <1>1, SameWord
  <2>7. cpc'[r] = "scan" /\ \A q \in Tags \ {r} : cpc'[q] = "signal"
    BY <1>1, <1>2, <2>3
  <2>8. AtRead("scan", 0)'
    BY <1>1, <2>3, <2>6, <2>7 DEF AtRead, Resting
  <2> QED
    BY <1>1, <2>3, <2>5, <2>6, <2>8 DEF AtScan32, Stage
<1>5. Apart(r, "scan")
  BY <1>1, <1>2 DEF Apart
<1> QED
  BY <1>1, <1>3, <1>4, <1>5, ReaderApart

\* The reader scans the word's last token.
LEMMA ScanTaken ==
  ASSUME PlInv, NEW r \in Tags, ReaderScan(r)
  PROVE  PlInv'
<1> DEFINE kind == IF r = "reader32" THEN "high" ELSE "whole"
<1>1. PlTyped /\ cpc[r] = "scan" /\ cpc' = [cpc EXCEPT ![r] = "write"]
      /\ got' = [got EXCEPT ![r] = Scanned(kind, got[r])] /\ stdin' = ScanRest
      /\ UNCHANGED <<typed, list, mpc, tag, waits, part, signals, closed, back, buf, pipe, wbuf, file>>
  BY DEF PlInv, ReaderScan, mainVars, outVars
<1>2. signals \in [Tags -> 0..2] /\ cpc \in [Tags \cup {"writer"} -> Places] /\ DOMAIN got = Tags
      /\ DOMAIN got' = Tags
  BY <1>1 DEF PlTyped
<1>3. mpc # "stop"
  BY <1>1 DEF PlInv, Resting
<1>4. ASSUME mpc \in {"tag", "signal", "read"} PROVE Stage'
  <2>1. Stage /\ ToCome
    BY <1>4 DEF PlInv
  <2>2. (AtScan32 \/ AtScan64) /\ r = Asked
    BY <1>1, <2>1 DEF Stage, AtTag, AtSignal, AtRead, Told, AtLow, AtScan32, AtScan64, HasWord,
                      Answered,
                      Resting
  <2>3. mpc = "read" /\ back = <<>> /\ signals[r] = 0
        /\ (r = "reader32" => part = W)
        /\ \A q \in Tags \ {r} : cpc[q] = "signal" /\ signals[q] = 0
    BY <2>2 DEF AtScan32, AtScan64, AtRead, Resting
  <2>4. stdin # <<>> /\ Head(stdin) = <<kind, W>> /\ Tail(stdin) = Ahead
    BY <1>1, <2>1, <2>2, TokensAtHand, Zenon DEF PlTyped, AtScan32, AtScan64
  <2>5. got'[r] = W /\ stdin' = Ahead
    <3> HIDE DEF kind
    <3> QED
      BY <1>1, <1>2, <2>4 DEF Scanned, ScanRest
  <2>6. W' = W /\ Asked' = Asked /\ Ahead' = Ahead
    BY <1>1, SameWord
  <2>7. cpc'[r] = "write" /\ \A q \in Tags \ {r} : cpc'[q] = "signal"
    BY <1>1, <1>2, <2>3
  <2>8. AtRead("write", 0)'
    BY <1>1, <2>2, <2>3, <2>6, <2>7 DEF AtRead, Resting
  <2> QED
    BY <1>1, <2>2, <2>3, <2>5, <2>6, <2>8 DEF HasWord, Stage
<1>5. Apart(r, "write")
  BY <1>1, <1>2 DEF Apart
<1> QED
  BY <1>3, <1>4, <1>5, ReaderApart

\* The reader hands the word at hand to main.
LEMMA WordWritten ==
  ASSUME PlInv, NEW r \in Tags, ReaderWrite(r)
  PROVE  PlInv'
<1>1. PlTyped /\ cpc[r] = "write" /\ cpc' = [cpc EXCEPT ![r] = "signal"]
      /\ back' = Append(back, IF r = "reader32" /\ part # got[r] THEN NoWord ELSE got[r])
      /\ UNCHANGED <<stdin, typed, list, mpc, tag, waits, part, got, signals, closed, buf, pipe, wbuf, file>>
  BY DEF PlInv, ReaderWrite, inVars, mainVars, outVars
<1>2. signals \in [Tags -> 0..2] /\ cpc \in [Tags \cup {"writer"} -> Places] /\ DOMAIN got = Tags
  BY <1>1 DEF PlTyped
<1>3. mpc # "stop"
  BY <1>1 DEF PlInv, Resting
<1>4. ASSUME mpc \in {"tag", "signal", "read"} PROVE Stage'
  <2>1. Stage /\ ToCome
    BY <1>4 DEF PlInv
  <2>2. HasWord /\ r = Asked
    BY <1>1, <2>1 DEF Stage, AtTag, AtSignal, AtRead, Told, AtLow, AtScan32, AtScan64, HasWord,
                      Answered,
                      Resting
  <2>3. mpc = "read" /\ back = <<>> /\ signals[r] = 0 /\ got[r] = W /\ stdin = Ahead
        /\ (r = "reader32" => part = W)
        /\ \A q \in Tags \ {r} : cpc[q] = "signal" /\ signals[q] = 0
    BY <2>2 DEF HasWord, AtRead, Resting
  <2>4. back' = <<W>>
    <3>1. (IF r = "reader32" /\ part # got[r] THEN NoWord ELSE got[r]) = W
      BY <2>3
    <3>2. back' = Append(<<>>, W)
      BY ONLY <1>1, <2>3, <3>1, Zenon
    <3>3. Append(<<>>, W) = <<W>>
      OBVIOUS
    <3> QED
      BY <3>2, <3>3
  <2>5. W' = W /\ Asked' = Asked /\ Ahead' = Ahead
    BY <1>1, SameWord
  <2>6. cpc'[r] = "signal" /\ \A q \in Tags \ {r} : cpc'[q] = "signal"
    BY <1>1, <1>2, <2>3
  <2>7. AtRead("signal", 0)'
    BY <1>1, <2>2, <2>3, <2>5, <2>6 DEF AtRead, Resting
  <2> QED
    BY <1>1, <2>3, <2>4, <2>5, <2>7 DEF Answered, Stage
<1>5. Apart(r, "signal")
  BY <1>1, <1>2 DEF Apart
<1> QED
  BY <1>3, <1>4, <1>5, ReaderApart

\* The writer copies, and ends after main.
LEMMA WriterStep ==
  ASSUME PlInv, Writer
  PROVE  PlInv'
<1>1. PlTyped /\ PlEnd
  BY DEF PlInv
<1>2. CASE WriterCopy
  <2>1. cpc["writer"] = "copy" /\ pipe # <<>> /\ wbuf' = Append(wbuf, Head(pipe)) /\ pipe' = Tail(pipe)
        /\ UNCHANGED <<stdin, typed, list, mpc, tag, word, waits, cpc, part, got, signals, closed, back,
                       buf, file>>
    BY <1>2 DEF WriterCopy, inVars, mainVars, readVars
  <2>2. pipe' \in Seq(Printed) /\ wbuf' \in Seq(Printed)
    <3>1. pipe \in Seq(Printed) /\ wbuf \in Seq(Printed)
      BY <1>1 DEF PlTyped
    <3>2. Head(pipe) \in Printed /\ Tail(pipe) \in Seq(Printed)
      BY ONLY <2>1, <3>1, HeadTailProperties
    <3>3. Append(wbuf, Head(pipe)) \in Seq(Printed)
      BY ONLY <3>1, <3>2, AppendProperties
    <3> QED
      BY <2>1, <3>2, <3>3
  <2>3. PlTyped'
    BY <1>1, <2>1, <2>2 DEF PlTyped
  <2>4. PlEnd'
    BY <1>1, <2>1 DEF PlEnd
  <2>5. (Stage => Stage') /\ (ToCome => ToCome') /\ (Resting(Tags) => Resting(Tags)')
    BY <2>1, Zenon DEF Stage, AtTag, AtSignal, AtRead, Told, AtLow, AtScan32, AtScan64, HasWord, Answered,
                W, Asked, Ahead, Resting, ToCome, Body
  <2> QED
    BY <2>1, <2>3, <2>4, <2>5 DEF PlInv
<1>3. CASE WriterEnd
  <2>1. cpc["writer"] = "copy" /\ pipe = <<>> /\ mpc = "exited" /\ file' = wbuf
        /\ cpc' = [cpc EXCEPT !["writer"] = "exited"]
        /\ UNCHANGED <<typed, list, mpc, tag, waits, got, signals, closed, buf, pipe, wbuf>>
    BY <1>3 DEF WriterEnd, inVars, mainVars
  <2>2. /\ cpc' \in [Tags \cup {"writer"} -> Places] /\ cpc'["writer"] = "exited"
        /\ cpc'["reader32"] = cpc["reader32"] /\ cpc'["reader64"] = cpc["reader64"]
    <3>1. cpc \in [Tags \cup {"writer"} -> Places]
      BY <1>1 DEF PlTyped
    <3> QED
      BY <2>1, <3>1 DEF Places, Tags
  <2>3. PlTyped'
    BY <1>1, <2>1, <2>2 DEF PlTyped
  <2>4. PlEnd'
    BY <1>1, <2>1, <2>2 DEF PlEnd
  <2> QED
    BY <2>1, <2>3, <2>4 DEF PlInv
<1> QED
  BY <1>2, <1>3 DEF Writer

\* Nothing changes.
LEMMA PlStutters ==
  ASSUME PlInv, UNCHANGED vars
  PROVE  PlInv'
<1>1. UNCHANGED <<stdin, typed, list, mpc, tag, word, waits, cpc, part, got, signals, closed, back,
                  buf, pipe, wbuf, file>>
  BY DEF vars, inVars, mainVars, readVars, outVars
<1>2. PlTyped' /\ PlEnd'
  BY <1>1 DEF PlInv, PlTyped, PlEnd
<1>3. (Stage => Stage') /\ (ToCome => ToCome') /\ (Resting(Tags) => Resting(Tags)')
  BY <1>1, Zenon DEF Stage, AtTag, AtSignal, AtRead, Told, AtLow, AtScan32, AtScan64, HasWord, Answered,
              W, Asked, Ahead, Resting, ToCome, Body
<1> QED
  BY <1>1, <1>2, <1>3 DEF PlInv

\* Every step keeps the invariant.
LEMMA PlKept ==
  ASSUME Clean, PlInv, [Next]_vars
  PROVE  PlInv'
<1>1. CASE Main
  BY <1>1, TagTaken, SignalSent, RunDone, MainEnds DEF Main
<1>2. CASE Flush
  BY <1>2, Flushed
<1>3. CASE \E r \in Readers : Reader(r)
  <2>1. PICK r \in Tags : Reader(r)
    BY <1>3, PlSizes
  <2> QED
    BY <2>1, SignalTaken, LowTaken, ScanTaken, WordWritten DEF Reader
<1>4. CASE Writer
  BY <1>4, WriterStep
<1>5. CASE UNCHANGED vars
  BY <1>5, PlStutters
<1> QED
  BY <1>1, <1>2, <1>3, <1>4, <1>5 DEF Next

\* So the invariant always holds.
LEMMA PlAlways ==
  ASSUME Clean
  PROVE  Spec => []PlInv
<1>1. Init => PlInv
  BY PlStart
<1>2. PlInv /\ [Next]_vars => PlInv'
  BY PlKept
<1> QED
  BY <1>1, <1>2, PTL DEF Spec

\* main, the readers and the writer are always in a state of their types.
THEOREM PipelineTypeCorrect ==
  ASSUME Clean
  PROVE  Spec => []TypeOK
<1>1. PlInv => TypeOK
  <2> SUFFICES ASSUME PlInv PROVE TypeOK
    OBVIOUS
  <2>1. PlTyped
    BY DEF PlInv
  <2> QED
    BY <2>1, PlSizes DEF PlTyped, Places, TypeOK
<1>2. Spec => []PlInv
  BY PlAlways
<1> QED
  BY <1>1, <1>2, PTL

\* Of the processes that share the standard input at most one is about to read
\* it or told to, at any time up to the last word: the tokens of a word are
\* never split over two readers that run at once.
THEOREM OneScannerAtATime ==
  ASSUME Clean
  PROVE  Spec => []OneScanner
<1>1. PlInv => OneScanner
  <2> SUFFICES ASSUME PlInv PROVE OneScanner
    OBVIOUS
  <2> DEFINE busy == {r \in Tags : cpc[r] \in {"low", "scan", "write"}}
             told == {r \in Tags : signals[r] > 0}
  <2>1. ASSUME mpc \in {"tag", "signal"} PROVE busy = {} /\ told = {} /\ back = <<>>
    <3>1. Resting(Tags) /\ back = <<>>
      BY <2>1 DEF PlInv, Stage, AtTag, AtSignal, AtRead, Told, AtLow, AtScan32, AtScan64, HasWord,
                  Answered
    <3> QED
      BY <3>1 DEF Resting
  <2>2. ASSUME mpc = "read", NEW r \in busy PROVE busy = {r} /\ told = {} /\ back = <<>>
    <3>1. Stage
      BY <2>2 DEF PlInv
    <3>2. r = Asked /\ Resting(Tags \ {Asked}) /\ signals[Asked] = 0 /\ back = <<>>
      BY <2>2, <3>1 DEF Stage, AtTag, AtSignal, AtRead, Told, AtLow, AtScan32, AtScan64, HasWord,
                        Answered,
                        Resting
    <3> QED
      BY <3>2 DEF Resting
  <2> QED
    BY <2>1, <2>2, PlSizes DEF OneScanner
<1>2. Spec => []PlInv
  BY PlAlways
<1> QED
  BY <1>1, <1>2, PTL

\* The writer ends after main has reaped both readers, with everything that was
\* printed in the file.
THEOREM PipelineLosesNothing ==
  ASSUME Clean
  PROVE  Spec => []NothingLost
<1>1. PlInv => NothingLost
  <2> SUFFICES ASSUME PlInv, cpc["writer"] = "exited"
               PROVE  (\A r \in Tags : cpc[r] = "reaped") /\ file = wbuf /\ buf = <<>> /\ pipe = <<>>
    BY PlSizes DEF NothingLost
  <2>1. PlEnd /\ mpc = "exited" /\ waits = 0
    BY DEF PlInv, PlEnd
  <2>2. cpc["reader32"] = "reaped" /\ cpc["reader64"] = "reaped"
    BY <2>1 DEF PlEnd
  <2> QED
    BY <2>1, <2>2 DEF PlEnd, Tags
<1>2. Spec => []PlInv
  BY PlAlways
<1> QED
  BY <1>1, <1>2, PTL

\* What ex1 does with a word is what main does with it.
LEMMA SameProgram ==
  ASSUME NEW w, NEW l
  PROVE  Sequential!NewList(w, l) = NewList(w, l) /\ Sequential!Output(w, l) = Output(w, l)
<1>1. \A a, p : Sequential!RunAction(a, p) = RunAction(a, p)
  BY Zenon DEF Sequential!RunAction, Sequential!Run, RunAction, Run
<1>2. \A v, p : Sequential!ShouldRun(v, p) <=> ShouldRun(v, p)
  BY DEF Sequential!ShouldRun, ShouldRun
<1>3. \A s : Sequential!FlattenSeq(s) = FlattenSeq(s)
  BY Zenon DEF Sequential!FlattenSeq, FlattenSeq
<1>4. Sequential!NewList(w, l) = NewList(w, l)
  BY DEF Sequential!NewList, NewList
<1>5. \A m : Sequential!DoAll(w, m) = DoAll(w, m)
  BY <1>1, <1>2, <1>3 DEF Sequential!DoAll, DoAll
<1> QED
  BY <1>1, <1>4, <1>5 DEF Sequential!Output, Output

\* The output on its way, and whether main has run the last word.
OnItsWay == (wbuf \o pipe) \o buf
Over     == mpc \in {"stop", "close", "wait", "exited"}

\* Handing the output on neither loses, adds nor reorders any of it.
LEMMA WayKept ==
  ASSUME PlInv, Flush \/ MainExit \/ WriterCopy
  PROVE  OnItsWay' = OnItsWay
<1>1. wbuf \in Seq(Printed) /\ pipe \in Seq(Printed) /\ buf \in Seq(Printed)
  BY DEF PlInv, PlTyped
<1>2. \A a, b, c \in Seq(Printed) : (a \o b) \o c = a \o (b \o c)
  BY Regroup DEF Associates
<1>3. CASE Flush \/ MainExit
  <2>1. wbuf' = wbuf /\ pipe' = pipe \o buf /\ buf' = <<>>
    BY <1>3 DEF Flush, MainExit
  <2>2. wbuf \o (pipe \o buf) \in Seq(Printed)
    BY ONLY <1>1, ConcatProperties
  <2>3. (wbuf \o (pipe \o buf)) \o <<>> = wbuf \o (pipe \o buf)
    BY ONLY <2>2, ConcatEmptySeq
  <2>4. wbuf \o (pipe \o buf) = (wbuf \o pipe) \o buf
    BY ONLY <1>1, <1>2, Zenon
  <2> QED
    BY <2>1, <2>3, <2>4, Zenon DEF OnItsWay
<1>4. CASE WriterCopy
  <2> DEFINE x == Head(pipe)
             t == Tail(pipe)
  <2>1. pipe # <<>> /\ wbuf' = Append(wbuf, x) /\ pipe' = t /\ buf' = buf
    BY <1>4 DEF WriterCopy
  <2>2. x \in Printed /\ t \in Seq(Printed)
    BY ONLY <1>1, <2>1, HeadTailProperties
  <2>3. pipe = <<x>> \o t
    <3>1. Len(t) = Len(pipe) - 1 /\ (\A i \in 1..Len(t) : t[i] = pipe[i+1]) /\ pipe[1] = x
      BY ONLY <1>1, <2>1, HeadTailProperties
    <3>2. <<x>> \in Seq(Printed) /\ Len(<<x>>) = 1 /\ <<x>>[1] = x
      BY <2>2
    <3>3. <<x>> \o t \in Seq(Printed) /\ Len(<<x>> \o t) = 1 + Len(t)
          /\ \A i \in 1..(1 + Len(t)) : (<<x>> \o t)[i] = IF i <= 1 THEN <<x>>[i] ELSE t[i - 1]
      BY ONLY <2>2, <3>2, ConcatProperties
    <3>4. Len(t) \in Nat /\ Len(pipe) \in Nat
      BY ONLY <1>1, <2>2, LenProperties
    <3> DEFINE u == <<x>> \o t
               a == <<x>>
    <3>5. /\ u \in Seq(Printed) /\ Len(u) = 1 + Len(t)
          /\ \A i \in 1..(1 + Len(t)) : u[i] = IF i <= 1 THEN a[i] ELSE t[i - 1]
      BY <3>3
    <3>6. a[1] = x
      BY <3>2
    <3> HIDE DEF u, a, x, t
    <3>7. \A i \in 1..Len(pipe) : u[i] = pipe[i]
      BY ONLY <3>1, <3>4, <3>5, <3>6
    <3>8. u = pipe
      BY ONLY <1>1, <3>1, <3>4, <3>5, <3>7, SeqEqual
    <3> QED
      BY <3>8 DEF u
  <2>4. wbuf \o <<x>> = Append(wbuf, x)
    BY ONLY <1>1, <2>2, AppendIsConcat
  <2>5. <<x>> \in Seq(Printed)
    BY <2>2
  <2> HIDE DEF x, t
  <2>6. (wbuf \o <<x>>) \o t = wbuf \o (<<x>> \o t)
    BY ONLY <1>1, <1>2, <2>2, <2>5, Zenon
  <2>7. wbuf' \o pipe' = wbuf \o pipe
    BY ONLY <2>1, <2>3, <2>4, <2>6, Zenon
  <2> QED
    BY <2>1, <2>7, Zenon DEF OnItsWay
<1> QED
  BY <1>3, <1>4

\* The program of ex2, with its main, two readers and writer, prints what the
\* program of ex1 prints about the same words, in the same order: each word
\* main runs is one turn of that program's loop, and no other step shows.
THEOREM RefinesList ==
  ASSUME Clean
  PROVE  Spec => ImplementsList
<1>1. Init => Sequential!Init
  <2> SUFFICES ASSUME Init PROVE Sequential!Init
    OBVIOUS
  <2>1. typed \in Inputs /\ list = <<>> /\ mpc = "tag" /\ wbuf = <<>> /\ pipe = <<>> /\ buf = <<>>
    BY DEF Init
  <2>2. (wbuf \o pipe) \o buf = <<>>
    <3>1. <<>> \o <<>> = <<>>
      OBVIOUS
    <3> QED
      BY <2>1, <3>1
  <2> QED
    BY <2>1, <2>2 DEF Sequential!Init
<1>2. PlInv /\ [Next]_vars => [Sequential!Next]_Sequential!listVars
  <2> SUFFICES ASSUME PlInv, [Next]_vars PROVE [Sequential!Next]_Sequential!listVars
    OBVIOUS
  <2>1. PlTyped
    BY DEF PlInv
  <2>2. ASSUME typed' = typed, list' = list, OnItsWay' = OnItsWay, Over' = Over
        PROVE  UNCHANGED Sequential!listVars
    BY <2>2, Zenon DEF Sequential!listVars, OnItsWay, Over
  <2>3. CASE MainRun
    <3> DEFINE o == Output(W, list)
    <3>1. /\ typed # <<>> /\ W \in Words /\ typed' = Tail(typed) /\ ToCome
          /\ list' = NewList(W, list) /\ buf' = buf \o o
          /\ mpc = "read" /\ mpc' = (IF W.last THEN "stop" ELSE "tag") /\ pipe' = pipe /\ wbuf' = wbuf
      BY <2>3, WordRun
    <3>2. o \in Seq(Printed) /\ W.last \in BOOLEAN
      BY <2>1, <3>1, ListTyped, PlSizes DEF PlTyped
    <3> HIDE DEF o
    <3>3. OnItsWay' = OnItsWay \o o
      <4>1. wbuf \o pipe \in Seq(Printed) /\ buf \in Seq(Printed)
        <5>1. wbuf \in Seq(Printed) /\ pipe \in Seq(Printed) /\ buf \in Seq(Printed)
          BY <2>1 DEF PlTyped
        <5> QED
          BY ONLY <5>1, ConcatProperties
      <4>2. \A a, b, c \in Seq(Printed) : (a \o b) \o c = a \o (b \o c)
        BY Regroup DEF Associates
      <4>3. ((wbuf \o pipe) \o buf) \o o = (wbuf \o pipe) \o (buf \o o)
        BY ONLY <3>2, <4>1, <4>2, Zenon
      <4> QED
        BY <3>1, <4>3, Zenon DEF OnItsWay
    <3>4. ~Over /\ Over' = W.last
      BY <3>1, <3>2 DEF Over
    <3>5. list' = Sequential!NewList(W, list) /\ OnItsWay' = OnItsWay \o Sequential!Output(W, list)
      <4>1. Sequential!NewList(W, list) = NewList(W, list)
            /\ Sequential!Output(W, list) = Output(W, list)
        BY SameProgram
      <4> QED
        BY <3>1, <3>3, <4>1, Zenon DEF o
    <3>6. Sequential!RunWord
      BY <3>1, <3>4, <3>5, Zenon DEF Sequential!RunWord, W, OnItsWay, Over
    <3> QED
      BY <3>6 DEF Sequential!Next
  <2>4. CASE Flush
    <3>1. OnItsWay' = OnItsWay
      BY <2>4, WayKept
    <3>2. typed' = typed /\ list' = list /\ Over' = Over
      BY <2>4 DEF Flush, inVars, mainVars, Over
    <3> QED
      BY <2>2, <3>1, <3>2
  <2>5. CASE MainExit
    <3>1. OnItsWay' = OnItsWay
      BY <2>5, WayKept
    <3>2. typed' = typed /\ list' = list /\ Over' = Over
      BY <2>5 DEF MainExit, inVars, Over
    <3> QED
      BY <2>2, <3>1, <3>2
  <2>6. CASE WriterCopy
    <3>1. OnItsWay' = OnItsWay
      BY <2>6, WayKept
    <3>2. typed' = typed /\ list' = list /\ Over' = Over
      BY <2>6 DEF WriterCopy, inVars, mainVars, Over
    <3> QED
      BY <2>2, <3>1, <3>2
  <2>7. CASE MainTag \/ MainSignal \/ MainStop \/ MainClose \/ MainWait
    <3>1. typed' = typed /\ list' = list /\ wbuf' = wbuf /\ pipe' = pipe /\ buf' = buf /\ Over' = Over
      BY <2>7 DEF MainTag, MainSignal, MainStop, MainClose, MainWait,
                  inVars, outVars, Over
    <3>2. OnItsWay' = OnItsWay
      BY <3>1, Zenon DEF OnItsWay
    <3> QED
      BY <2>2, <3>1, <3>2
  <2>8. CASE (\E r \in Readers : Reader(r)) \/ WriterEnd \/ UNCHANGED vars
    <3>1. typed' = typed /\ list' = list /\ wbuf' = wbuf /\ pipe' = pipe /\ buf' = buf /\ mpc' = mpc
      BY <2>8 DEF Reader, ReaderSignal, ReaderLow, ReaderScan, ReaderWrite, WriterEnd,
                  vars, inVars, mainVars, readVars, outVars
    <3>2. OnItsWay' = OnItsWay /\ Over' = Over
      BY <3>1, Zenon DEF OnItsWay, Over
    <3> QED
      BY <2>2, <3>1, <3>2
  <2> QED
    BY <2>3, <2>4, <2>5, <2>6, <2>7, <2>8 DEF Next, Main, Writer
<1>3. Spec => []PlInv
  BY PlAlways
<1> QED
  BY <1>1, <1>2, <1>3, PTL DEF Spec, ImplementsList, ImplementsList, Sequential!Spec

(* --- What a tree gives its commands --------------------------------------- *)

\* A sequence of nodes as the parser allocates them.
Built(tree) == tree \in Seq(Range(tree)) /\ IsTree(tree)

\* G wires the first m nodes.
Wires(G, tree, m) == G = [k \in 1..m |-> Gets(G, tree, k)]

\* What a node gets depends on the nodes that it holds only.
LEMMA GetsInside ==
  ASSUME NEW tree, NEW k, NEW V, NEW G,
         tree[k].type \in {"EXEC", "REDIR", "LIST", "PIPE", "BACK"},
         \A j \in Inside(tree[k]) : V[j] = G[j]
  PROVE  Gets(V, tree, k) = Gets(G, tree, k)
<1>1. tree[k].type \in {"REDIR", "BACK"} => V[tree[k].cmd] = G[tree[k].cmd]
  BY DEF Inside
<1>2. tree[k].type \in {"LIST", "PIPE"} => V[tree[k].left] = G[tree[k].left] /\ V[tree[k].right] = G[tree[k].right]
  BY DEF Inside
<1> QED
  BY <1>1, <1>2 DEF Gets

LEMMA WiresExist ==
  ASSUME NEW tree, Built(tree)
  PROVE  \E G : Wires(G, tree, Len(tree))
<1> DEFINE n == Len(tree)
           B == {m \in 0..n : \E G : Wires(G, tree, m)}
<1>0. n \in Nat /\ DOMAIN tree = 1..n
  BY DEF Built
<1>1. 0 \in B
  <2> DEFINE G == [k \in 1..0 |-> {}]
  <2>1. G = [k \in 1..0 |-> Gets(G, tree, k)]
    OBVIOUS
  <2> HIDE DEF G
  <2>2. Wires(G, tree, 0)
    BY <2>1 DEF Wires
  <2> QED
    BY <1>0, <2>2
<1>2. ASSUME NEW m \in 0..(n - 1), m \in B PROVE m + 1 \in B
  <2>1. PICK V : Wires(V, tree, m)
    BY <1>2
  <2> DEFINE G == [k \in 1..(m + 1) |-> IF k = m + 1 THEN Gets(V, tree, k) ELSE V[k]]
             X == [k \in 1..(m + 1) |-> Gets(G, tree, k)]
  <2>2. ASSUME NEW k \in 1..(m + 1) PROVE G[k] = Gets(G, tree, k)
    <3>1. k \in DOMAIN tree
      BY <1>0
    <3>2. tree[k].type \in {"EXEC", "REDIR", "LIST", "PIPE", "BACK"} /\ Inside(tree[k]) \subseteq 1..(k - 1)
      BY <3>1 DEF Built, IsTree
    <3>3. \A j \in 1..(k - 1) : j \in 1..(m + 1) /\ j # m + 1
      BY <1>0
    <3>4. \A j \in Inside(tree[k]) : V[j] = G[j]
      BY <3>2, <3>3
    <3>5. Gets(V, tree, k) = Gets(G, tree, k)
      <4> HIDE DEF G
      <4> QED
        BY <3>2, <3>4, GetsInside
    <3>6. CASE k = m + 1
      BY <3>5, <3>6
    <3>7. CASE k # m + 1
      <4>1. k \in 1..m
        BY <3>7, <1>0
      <4>2. V[k] = Gets(V, tree, k)
        <5> DEFINE Y == [x \in 1..m |-> Gets(V, tree, x)]
        <5>1. V = Y
          BY <2>1 DEF Wires
        <5>2. Y[k] = Gets(V, tree, k)
          BY <4>1
        <5> HIDE DEF Y
        <5> QED
          BY <5>1, <5>2
      <4> QED
        BY <3>5, <3>7, <4>2
    <3> QED
      BY <3>6, <3>7
  <2>3. G = X
    <3>1. \A k \in 1..(m + 1) : G[k] = X[k]
      BY <2>2
    <3> QED
      BY <3>1
  <2>4. Wires(G, tree, m + 1)
    <3> HIDE DEF G
    <3> QED
      BY <2>3 DEF Wires
  <2> HIDE DEF G
  <2> QED
    BY <1>0, <2>4
<1> HIDE DEF B
<1>3. B \in SUBSET (0..n)
  BY DEF B
<1>4. n \in B
  BY <1>0, <1>1, <1>2, <1>3, Climb
<1> QED
  BY <1>4 DEF B

\* The wiring is what its definition says.
LEMMA WiringIs ==
  ASSUME NEW tree, Built(tree), NEW k \in DOMAIN tree
  PROVE  Wiring(tree)[k] = Gets(Wiring(tree), tree, k)
<1>1. Wiring(tree) = CHOOSE G : G = [j \in DOMAIN tree |-> Gets(G, tree, j)]
  BY Zenon DEF Wiring
<1>2. DOMAIN tree = 1..Len(tree)
  BY DEF Built
<1>3. \E G : G = [j \in DOMAIN tree |-> Gets(G, tree, j)]
  BY <1>2, WiresExist DEF Wires
<1> DEFINE G == Wiring(tree)
<1>4. G = [j \in DOMAIN tree |-> Gets(G, tree, j)]
  BY <1>1, <1>3, Zenon
<1> HIDE DEF G
<1>5. G[k] = Gets(G, tree, k)
  <2> DEFINE X == [j \in DOMAIN tree |-> Gets(G, tree, j)]
  <2>1. X[k] = Gets(G, tree, k)
    OBVIOUS
  <2> HIDE DEF X
  <2> QED
    BY <1>4, <2>1 DEF X
<1> QED
  BY <1>5 DEF G

(* --- Files through redirections and pipes --------------------------------- *)

\* The open files of a command, and of the sides of a pipe before they move its ends.
Fds(in, out) == [fd \in 0..NFd-1 |-> IF fd = 0 THEN in ELSE IF fd = 1 THEN out ELSE IF fd = 2 THEN Console ELSE None]
PipeFds(in, out, rd, wr) == [fd \in 0..NFd-1 |-> CASE fd = 0 -> in [] fd = 1 -> out [] fd = 2 -> Console
                                                  [] fd = 3 -> rd [] fd = 4 -> wr [] OTHER -> None]

LEMMA Files ==
  /\ NFd \in Nat /\ NFd >= 5
  /\ Console # None
  /\ Std = Fds(Console, Console)
  /\ \A f : <<"file", f>> # None
  /\ \A k : ReadEnd(k) # None /\ WriteEnd(k) # None
<1>1. NFd \in Nat /\ NFd >= 5
  BY ShellAssumption
<1>2. Console # None
  BY DEF Console, None
<1>3. Std = Fds(Console, Console)
  <2>1. \A fd \in 0..NFd-1 : fd < 3 <=> fd \in {0, 1, 2}
    BY <1>1
  <2> QED
    BY <2>1 DEF Std, Fds
<1>4. \A f : <<"file", f>> # None
  BY DEF None
<1>5. \A k : ReadEnd(k) # None /\ WriteEnd(k) # None
  BY DEF None, ReadEnd, WriteEnd
<1> QED
  BY <1>1, <1>2, <1>3, <1>4, <1>5

\* The lowest free descriptor.
LEMMA LowestIs ==
  ASSUME NEW fds, DOMAIN fds = 0..NFd-1, NEW m \in 0..NFd-1, fds[m] = None,
         \A fd \in 0..NFd-1 : fd < m => fds[fd] # None
  PROVE  Lowest(fds) = m
<1> DEFINE S == {fd \in DOMAIN fds : fds[fd] = None}
<1>0. NFd \in Nat
  BY Files
<1>1. m \in S /\ \A y \in S : m <= y
  BY <1>0
<1>2. \A x \in S : (\A y \in S : x <= y) => x = m
  BY <1>0, <1>1
<1>3. Min(S) = m
  <2> HIDE DEF S
  <2>1. (CHOOSE x \in S : \A y \in S : x <= y) = m
    BY <1>1, <1>2, Zenon
  <2> QED
    BY <2>1 DEF Min
<1> QED
  BY <1>3 DEF Lowest

\* What close and the calls that open leave in the other descriptors.
LEMMA CloseAt ==
  ASSUME NEW fds, DOMAIN fds = 0..NFd-1, NEW m \in 0..NFd-1
  PROVE  /\ DOMAIN Close(fds, m) = 0..NFd-1
         /\ \A fd \in 0..NFd-1 : Close(fds, m)[fd] = IF fd = m THEN None ELSE fds[fd]
BY DEF Close

LEMMA OpenAt ==
  ASSUME NEW fds, DOMAIN fds = 0..NFd-1, NEW m \in 0..NFd-1, fds[m] = None,
         \A fd \in 0..NFd-1 : fd < m => fds[fd] # None, NEW f
  PROVE  /\ DOMAIN Open(fds, f) = 0..NFd-1
         /\ \A fd \in 0..NFd-1 : Open(fds, f)[fd] = IF fd = m THEN f ELSE fds[fd]
BY LowestIs, Zenon DEF Open

LEMMA FdsAt ==
  ASSUME NEW in, NEW out
  PROVE  /\ DOMAIN Fds(in, out) = 0..NFd-1
         /\ Fds(in, out)[0] = in /\ Fds(in, out)[1] = out /\ Fds(in, out)[2] = Console
         /\ \A fd \in 0..NFd-1 : fd > 2 => Fds(in, out)[fd] = None
<1>1. NFd \in Nat /\ NFd >= 5
  BY Files
<1> QED
  BY <1>1 DEF Fds

LEMMA PipeFdsAt ==
  ASSUME NEW in, NEW out, NEW rd, NEW wr
  PROVE  LET fds == PipeFds(in, out, rd, wr)
         IN  /\ DOMAIN fds = 0..NFd-1
             /\ fds[0] = in /\ fds[1] = out /\ fds[2] = Console /\ fds[3] = rd /\ fds[4] = wr
             /\ \A fd \in 0..NFd-1 : fd > 4 => fds[fd] = None
<1>1. NFd \in Nat /\ NFd >= 5
  BY Files
<1> QED
  BY <1>1 DEF PipeFds

\* A table of open files.
IsFds(fds) == fds = [fd \in 0..NFd-1 |-> fds[fd]]

LEMMA FdsAre ==
  ASSUME NEW in, NEW out, NEW fds, IsFds(fds),
         fds[0] = in, fds[1] = out, fds[2] = Console, \A fd \in 0..NFd-1 : fd > 2 => fds[fd] = None
  PROVE  fds = Fds(in, out)
<1>1. NFd \in Nat
  BY Files
<1>2. ASSUME NEW fd \in 0..NFd-1
      PROVE  fds[fd] = IF fd = 0 THEN in ELSE IF fd = 1 THEN out ELSE IF fd = 2 THEN Console ELSE None
  <2>1. fd \in {0, 1, 2} \/ fd > 2
    BY <1>1
  <2> QED
    BY <2>1
<1> QED
  BY <1>2 DEF Fds, IsFds

LEMMA PipeFdsAre ==
  ASSUME NEW in, NEW out, NEW rd, NEW wr, NEW fds, IsFds(fds),
         fds[0] = in, fds[1] = out, fds[2] = Console, fds[3] = rd, fds[4] = wr,
         \A fd \in 0..NFd-1 : fd > 4 => fds[fd] = None
  PROVE  fds = PipeFds(in, out, rd, wr)
<1>1. NFd \in Nat
  BY Files
<1>2. ASSUME NEW fd \in 0..NFd-1
      PROVE  fds[fd] = PipeFds(in, out, rd, wr)[fd]
  <2>1. fd \in {0, 1, 2, 3, 4} \/ fd > 4
    BY <1>1
  <2> QED
    BY <2>1 DEF PipeFds
<1> QED
  BY <1>2 DEF PipeFds, IsFds

\* Close and Open give functions.
LEMMA AreFunctions ==
  ASSUME NEW fds, DOMAIN fds = 0..NFd-1, NEW m, NEW f
  PROVE  IsFds(Close(fds, m)) /\ IsFds(Open(fds, f))
BY Zenon DEF Close, Open, IsFds

LEMMA RedirFiles ==
  ASSUME NEW in, NEW out, NEW f, in # None
  PROVE  /\ Open(Close(Fds(in, out), 0), f) = Fds(f, out)
         /\ Open(Close(Fds(in, out), 1), f) = Fds(in, f)
<1> DEFINE fds == Fds(in, out)
           low == Close(fds, 0)
           high == Close(fds, 1)
           newlow == Open(low, f)
           newhigh == Open(high, f)
<1>0. {0, 1, 2} \subseteq 0..NFd-1 /\ NFd \in Nat /\ NFd >= 5
  BY Files
<1>1. DOMAIN fds = 0..NFd-1 /\ fds[0] = in /\ fds[1] = out /\ fds[2] = Console
      /\ \A fd \in 0..NFd-1 : fd > 2 => fds[fd] = None
  BY FdsAt
<1> HIDE DEF fds
<1>2. DOMAIN low = 0..NFd-1 /\ \A fd \in 0..NFd-1 : low[fd] = IF fd = 0 THEN None ELSE fds[fd]
  BY <1>0, <1>1, CloseAt, Zenon
<1>3. DOMAIN high = 0..NFd-1 /\ \A fd \in 0..NFd-1 : high[fd] = IF fd = 1 THEN None ELSE fds[fd]
  BY <1>0, <1>1, CloseAt, Zenon
<1> HIDE DEF low, high
<1>4. IsFds(newlow) /\ IsFds(newhigh)
  BY <1>2, <1>3, AreFunctions
<1>5. \A fd \in 0..NFd-1 : newlow[fd] = IF fd = 0 THEN f ELSE low[fd]
  <2>1. low[0] = None /\ \A fd \in 0..NFd-1 : fd < 0 => low[fd] # None
    BY <1>0, <1>2
  <2> QED
    BY <1>0, <1>2, <2>1, OpenAt
<1>6. \A fd \in 0..NFd-1 : newhigh[fd] = IF fd = 1 THEN f ELSE high[fd]
  <2>1. high[1] = None /\ \A fd \in 0..NFd-1 : fd < 1 => fd = 0
    BY <1>0, <1>3
  <2>2. high[0] # None
    BY <1>0, <1>1, <1>3
  <2> QED
    BY <1>0, <1>3, <2>1, <2>2, OpenAt
<1> HIDE DEF newlow, newhigh
<1>7. newlow = Fds(f, out)
  <2>1. newlow[0] = f /\ newlow[1] = out /\ newlow[2] = Console
    BY <1>0, <1>1, <1>2, <1>5
  <2>2. \A fd \in 0..NFd-1 : fd > 2 => newlow[fd] = None
    BY <1>0, <1>1, <1>2, <1>5
  <2> QED
    BY <1>4, <2>1, <2>2, FdsAre
<1>8. newhigh = Fds(in, f)
  <2>1. newhigh[0] = in /\ newhigh[1] = f /\ newhigh[2] = Console
    BY <1>0, <1>1, <1>3, <1>6
  <2>2. \A fd \in 0..NFd-1 : fd > 2 => newhigh[fd] = None
    BY <1>0, <1>1, <1>3, <1>6
  <2> QED
    BY <1>4, <2>1, <2>2, FdsAre
<1> QED
  BY <1>7, <1>8 DEF newlow, newhigh, low, high, fds

LEMMA PipeFiles ==
  ASSUME NEW in, NEW out, NEW rd, NEW wr, in # None, out # None, rd # None
  PROVE  LET opened == Open(Fds(in, out), rd)
         IN  /\ Lowest(Fds(in, out)) = 3
             /\ Lowest(opened) = 4
             /\ Open(opened, wr) = PipeFds(in, out, rd, wr)
<1> DEFINE fds == Fds(in, out)
           opened == Open(fds, rd)
           both == Open(opened, wr)
<1>0. {0, 1, 2, 3, 4} \subseteq 0..NFd-1 /\ NFd \in Nat /\ Console # None
  BY Files
<1>1. DOMAIN fds = 0..NFd-1 /\ fds[0] = in /\ fds[1] = out /\ fds[2] = Console
      /\ \A fd \in 0..NFd-1 : fd > 2 => fds[fd] = None
  BY FdsAt
<1> HIDE DEF fds
<1>2. fds[3] = None /\ \A fd \in 0..NFd-1 : fd < 3 => fds[fd] # None
  <2>1. \A fd \in 0..NFd-1 : fd < 3 => fd \in {0, 1, 2}
    BY <1>0
  <2> QED
    BY <1>0, <1>1, <2>1
<1>3. DOMAIN opened = 0..NFd-1 /\ \A fd \in 0..NFd-1 : opened[fd] = IF fd = 3 THEN rd ELSE fds[fd]
  BY <1>0, <1>1, <1>2, OpenAt
<1> HIDE DEF opened
<1>4. opened[4] = None /\ \A fd \in 0..NFd-1 : fd < 4 => opened[fd] # None
  <2>1. \A fd \in 0..NFd-1 : fd < 4 => fd \in {0, 1, 2, 3}
    BY <1>0
  <2> QED
    BY <1>0, <1>1, <1>3, <2>1
<1>5. \A fd \in 0..NFd-1 : both[fd] = IF fd = 4 THEN wr ELSE opened[fd]
  BY <1>0, <1>3, <1>4, OpenAt
<1>6. IsFds(both)
  BY <1>3, AreFunctions
<1> HIDE DEF both
<1>7. both[0] = in /\ both[1] = out /\ both[2] = Console /\ both[3] = rd /\ both[4] = wr
  BY <1>0, <1>1, <1>3, <1>5
<1>8. \A fd \in 0..NFd-1 : fd > 4 => both[fd] = None
  BY <1>0, <1>1, <1>3, <1>5
<1>9. both = PipeFds(in, out, rd, wr)
  BY <1>6, <1>7, <1>8, PipeFdsAre
<1>10. Lowest(fds) = 3 /\ Lowest(opened) = 4
  BY <1>0, <1>1, <1>2, <1>3, <1>4, LowestIs
<1> QED
  BY <1>9, <1>10, Zenon DEF both, opened, fds

\* dup takes the place of what was closed, descriptor m.
LEMMA Moved ==
  ASSUME NEW in, NEW out, NEW rd, NEW wr, NEW m \in {0, 1}, m = 1 => in # None, NEW f
  PROVE  Close(Close(Open(Close(PipeFds(in, out, rd, wr), m), f), 3), 4)
           = IF m = 0 THEN Fds(f, out) ELSE Fds(in, f)
<1> DEFINE fds == PipeFds(in, out, rd, wr)
           shut == Close(fds, m)
           duped == Open(shut, f)
           one == Close(duped, 3)
           two == Close(one, 4)
<1>0. {0, 1, 2, 3, 4} \subseteq 0..NFd-1 /\ NFd \in Nat
  BY Files
<1>1. DOMAIN fds = 0..NFd-1 /\ fds[0] = in /\ fds[1] = out /\ fds[2] = Console
      /\ \A fd \in 0..NFd-1 : fd > 4 => fds[fd] = None
  BY PipeFdsAt
<1> HIDE DEF fds
<1>2. DOMAIN shut = 0..NFd-1 /\ \A fd \in 0..NFd-1 : shut[fd] = IF fd = m THEN None ELSE fds[fd]
  <2>1. m \in 0..NFd-1
    BY <1>0
  <2> QED
    BY <1>1, <2>1, CloseAt, Zenon
<1> HIDE DEF shut
<1>3. shut[m] = None /\ \A fd \in 0..NFd-1 : fd < m => shut[fd] # None
  <2>1. \A fd \in 0..NFd-1 : fd < m => fd = 0 /\ m = 1
    BY <1>0
  <2> QED
    BY <1>0, <1>1, <1>2, <2>1
<1>4. DOMAIN duped = 0..NFd-1 /\ \A fd \in 0..NFd-1 : duped[fd] = IF fd = m THEN f ELSE shut[fd]
  BY <1>0, <1>2, <1>3, OpenAt
<1> HIDE DEF duped
<1>5. DOMAIN one = 0..NFd-1 /\ \A fd \in 0..NFd-1 : one[fd] = IF fd = 3 THEN None ELSE duped[fd]
  BY <1>0, <1>4, CloseAt, Zenon
<1> HIDE DEF one
<1>6. \A fd \in 0..NFd-1 : two[fd] = IF fd = 4 THEN None ELSE one[fd]
  BY <1>0, <1>5, CloseAt
<1>7. IsFds(two)
  BY <1>5, AreFunctions
<1> HIDE DEF two
<1>8. \A fd \in 0..NFd-1 : fd > 2 => two[fd] = None
  <2>1. \A fd \in 0..NFd-1 : fd > 2 => fd \in {3, 4} \/ fd > 4
    BY <1>0
  <2>2. two[3] = None /\ two[4] = None
    BY <1>0, <1>5, <1>6
  <2>3. \A fd \in 0..NFd-1 : fd > 4 => two[fd] = fds[fd]
    BY <1>0, <1>2, <1>4, <1>5, <1>6
  <2> QED
    BY <1>1, <2>1, <2>2, <2>3
<1>9. two[2] = Console /\ two[0] = (IF m = 0 THEN f ELSE in) /\ two[1] = (IF m = 0 THEN out ELSE f)
  BY <1>0, <1>1, <1>2, <1>4, <1>5, <1>6
<1>10. two = IF m = 0 THEN Fds(f, out) ELSE Fds(in, f)
  BY <1>7, <1>8, <1>9, FdsAre
<1> QED
  BY <1>10 DEF two, one, duped, shut, fds

LEMMA SideFiles ==
  ASSUME NEW in, NEW out, NEW rd, NEW wr
  PROVE  /\ in # None => LeftEnds(PipeFds(in, out, rd, wr), <<3, 4>>) = Fds(in, wr)
         /\ RightEnds(PipeFds(in, out, rd, wr), <<3, 4>>) = Fds(rd, out)
<1> DEFINE fds == PipeFds(in, out, rd, wr)
<1>1. fds[3] = rd /\ fds[4] = wr
  BY PipeFdsAt
<1>2. in # None => Close(Close(Open(Close(fds, 1), wr), 3), 4) = Fds(in, wr)
  BY Moved
<1>3. Close(Close(Open(Close(fds, 0), rd), 3), 4) = Fds(rd, out)
  BY Moved
<1>4. <<3, 4>>[1] = 3 /\ <<3, 4>>[2] = 4
  OBVIOUS
<1> HIDE DEF fds
<1>5. in # None => LeftEnds(fds, <<3, 4>>) = Fds(in, wr)
  BY <1>1, <1>2, <1>4, Zenon DEF LeftEnds
<1>6. RightEnds(fds, <<3, 4>>) = Fds(rd, out)
  BY <1>1, <1>3, <1>4, Zenon DEF RightEnds
<1> QED
  BY <1>5, <1>6 DEF fds

(* --- What a command is to be given ---------------------------------------- *)

\* All that the commands under node k get of the files in and out, the line gives them.
Due(tree, k, in, out) == /\ in # None /\ out # None
                         /\ Given(Wiring(tree)[k], in, out) \subseteq Commands(tree)

LEMMA GivenTwice ==
  ASSUME NEW S, NEW name, NEW in, NEW out, name # None
  PROVE  /\ Given(Given(S, name, None), in, out) = Given(S, name, out)
         /\ Given(Given(S, None, name), in, out) = Given(S, in, name)
<1>1. ASSUME NEW w
      PROVE  /\ Through(Through(w, name, None), in, out) = Through(w, name, out)
             /\ Through(Through(w, None, name), in, out) = Through(w, in, name)
  BY DEF Through
<1>2. Given(Given(S, name, None), in, out) = {Through(Through(w, name, None), in, out) : w \in S}
  BY Zenon DEF Given
<1>3. Given(Given(S, None, name), in, out) = {Through(Through(w, None, name), in, out) : w \in S}
  BY Zenon DEF Given
<1>4. {Through(Through(w, name, None), in, out) : w \in S} = Given(S, name, out)
  BY ONLY <1>1, Zenon DEF Given
<1>5. {Through(Through(w, None, name), in, out) : w \in S} = Given(S, in, name)
  BY ONLY <1>1, Zenon DEF Given
<1> QED
  BY <1>2, <1>3, <1>4, <1>5

LEMMA GivenUnion ==
  ASSUME NEW S, NEW R, NEW in, NEW out
  PROVE  Given(S \union R, in, out) = Given(S, in, out) \union Given(R, in, out)
BY DEF Given

LEMMA DueRoot ==
  ASSUME NEW tree, Built(tree), Len(tree) # 0
  PROVE  Len(tree) \in DOMAIN tree /\ Due(tree, Len(tree), Console, Console)
<1>1. Len(tree) \in DOMAIN tree /\ tree # <<>>
  BY DEF Built
<1>2. Console # None
  BY Files
<1> QED
  BY <1>1, <1>2 DEF Due, Commands

LEMMA DueExec ==
  ASSUME NEW tree, Built(tree), NEW k \in DOMAIN tree, NEW in, NEW out, Due(tree, k, in, out), tree[k].type = "EXEC"
  PROVE  [at |-> tree[k].at, in |-> in, out |-> out] \in Commands(tree)
<1> DEFINE w == [at |-> tree[k].at, in |-> None, out |-> None]
<1>1. Wiring(tree)[k] = {w}
  <2>1. Wiring(tree)[k] = Gets(Wiring(tree), tree, k)
    BY WiringIs
  <2> QED
    BY <2>1 DEF Gets
<1>2. Through(w, in, out) = [at |-> tree[k].at, in |-> in, out |-> out]
  BY DEF Through
<1>3. Through(w, in, out) \in Given(Wiring(tree)[k], in, out)
  <2> HIDE DEF w
  <2> QED
    BY <1>1 DEF Given
<1> QED
  BY <1>2, <1>3 DEF Due

LEMMA DueRedir ==
  ASSUME NEW tree, Built(tree), NEW k \in DOMAIN tree, NEW in, NEW out, Due(tree, k, in, out), tree[k].type = "REDIR"
  PROVE  LET name == <<"file", tree[k].file>>
         IN  /\ tree[k].cmd \in DOMAIN tree
             /\ \/ tree[k].fd = 0 /\ Due(tree, tree[k].cmd, name, out)
                \/ tree[k].fd = 1 /\ Due(tree, tree[k].cmd, in, name)
<1> DEFINE name == <<"file", tree[k].file>>
           G == Wiring(tree)
<1>0. name # None
  BY Files
<1>1. tree[k].fd \in {0, 1} /\ tree[k].cmd \in DOMAIN tree
  <2>1. tree[k].type = "REDIR" => tree[k].fd \in {0, 1}
    BY DEF Built, IsTree
  <2>2. Inside(tree[k]) \subseteq 1..k-1
    BY DEF Built, IsTree
  <2>3. tree[k].cmd \in 1..k-1
    BY <2>2 DEF Inside
  <2> QED
    BY <2>1, <2>3 DEF Built
<1>2. G[k] = IF tree[k].fd = 0 THEN Given(G[tree[k].cmd], name, None) ELSE Given(G[tree[k].cmd], None, name)
  <2>1. G[k] = Gets(G, tree, k)
    BY WiringIs
  <2> HIDE DEF G
  <2> QED
    BY <2>1 DEF Gets
<1> HIDE DEF G, name
<1>3. CASE tree[k].fd = 0
  <2>1. Given(G[k], in, out) = Given(G[tree[k].cmd], name, out)
    BY <1>0, <1>2, <1>3, GivenTwice
  <2> QED
    BY <1>0, <1>1, <1>3, <2>1 DEF Due, G, name
<1>4. CASE tree[k].fd = 1
  <2>1. Given(G[k], in, out) = Given(G[tree[k].cmd], in, name)
    BY <1>0, <1>2, <1>4, GivenTwice
  <2> QED
    BY <1>0, <1>1, <1>4, <2>1 DEF Due, G, name
<1> QED
  BY <1>1, <1>3, <1>4

LEMMA DueList ==
  ASSUME NEW tree, Built(tree), NEW k \in DOMAIN tree, NEW in, NEW out, Due(tree, k, in, out), tree[k].type = "LIST"
  PROVE  /\ {tree[k].left, tree[k].right} \subseteq DOMAIN tree
         /\ Due(tree, tree[k].left, in, out)
         /\ Due(tree, tree[k].right, in, out)
<1> DEFINE G == Wiring(tree)
<1>1. {tree[k].left, tree[k].right} \subseteq DOMAIN tree
  <2>1. Inside(tree[k]) \subseteq 1..k-1
    BY DEF Built, IsTree
  <2> QED
    BY <2>1 DEF Built, Inside
<1>2. G[k] = G[tree[k].left] \union G[tree[k].right]
  <2>1. G[k] = Gets(G, tree, k)
    BY WiringIs
  <2> HIDE DEF G
  <2> QED
    BY <2>1 DEF Gets
<1> HIDE DEF G
<1>3. Given(G[k], in, out) = Given(G[tree[k].left], in, out) \union Given(G[tree[k].right], in, out)
  BY <1>2, GivenUnion
<1> QED
  BY <1>1, <1>3 DEF Due, G

LEMMA DueBack ==
  ASSUME NEW tree, Built(tree), NEW k \in DOMAIN tree, NEW in, NEW out, Due(tree, k, in, out), tree[k].type = "BACK"
  PROVE  tree[k].cmd \in DOMAIN tree /\ Due(tree, tree[k].cmd, in, out)
<1> DEFINE G == Wiring(tree)
<1>1. tree[k].cmd \in DOMAIN tree
  <2>1. Inside(tree[k]) \subseteq 1..k-1
    BY DEF Built, IsTree
  <2> QED
    BY <2>1 DEF Built, Inside
<1>2. G[k] = G[tree[k].cmd]
  <2>1. G[k] = Gets(G, tree, k)
    BY WiringIs
  <2> HIDE DEF G
  <2> QED
    BY <2>1 DEF Gets
<1> QED
  BY <1>1, <1>2 DEF Due

LEMMA DuePipe ==
  ASSUME NEW tree, Built(tree), NEW k \in DOMAIN tree, NEW in, NEW out, Due(tree, k, in, out), tree[k].type = "PIPE"
  PROVE  /\ {tree[k].left, tree[k].right} \subseteq DOMAIN tree
         /\ Due(tree, tree[k].left, in, WriteEnd(k))
         /\ Due(tree, tree[k].right, ReadEnd(k), out)
<1> DEFINE G == Wiring(tree)
<1>0. WriteEnd(k) # None /\ ReadEnd(k) # None
  BY Files
<1>1. {tree[k].left, tree[k].right} \subseteq DOMAIN tree
  <2>1. Inside(tree[k]) \subseteq 1..k-1
    BY DEF Built, IsTree
  <2> QED
    BY <2>1 DEF Built, Inside
<1>2. G[k] = Given(G[tree[k].left], None, WriteEnd(k)) \union Given(G[tree[k].right], ReadEnd(k), None)
  <2>1. G[k] = Gets(G, tree, k)
    BY WiringIs
  <2> HIDE DEF G
  <2> QED
    BY <2>1 DEF Gets
<1> HIDE DEF G
<1>3. Given(G[k], in, out) = Given(Given(G[tree[k].left], None, WriteEnd(k)), in, out)
                               \union Given(Given(G[tree[k].right], ReadEnd(k), None), in, out)
  BY <1>2, GivenUnion
<1>4. Given(Given(G[tree[k].left], None, WriteEnd(k)), in, out) = Given(G[tree[k].left], in, WriteEnd(k))
  BY <1>0, GivenTwice
<1>5. Given(Given(G[tree[k].right], ReadEnd(k), None), in, out) = Given(G[tree[k].right], ReadEnd(k), out)
  BY <1>0, GivenTwice
<1> QED
  BY <1>0, <1>1, <1>3, <1>4, <1>5 DEF Due, G

(* --- The processes of the shell ------------------------------------------- *)

\* Where a process is in the tree of its line, ls[line], and what it has open:
\* a command that can be run, ...
Ready(ls, line, cmd, fds) ==
  /\ line \in DOMAIN ls
  /\ cmd \in DOMAIN ls[line].tree
  /\ \E in, out : fds = Fds(in, out) /\ Due(ls[line].tree, cmd, in, out)

\* ... a pipe that is open and has yet to fork, ...
Forking(ls, line, cmd, fds, p) ==
  /\ line \in DOMAIN ls
  /\ cmd \in DOMAIN ls[line].tree
  /\ ls[line].tree[cmd].type = "PIPE"
  /\ p = <<3, 4>>
  /\ \E in, out : /\ fds = PipeFds(in, out, ReadEnd(cmd), WriteEnd(cmd))
                  /\ Due(ls[line].tree, cmd, in, out)

\* ... and its two sides.
LeftSide(ls, line, cmd, fds, p) ==
  /\ line \in DOMAIN ls
  /\ cmd \in DOMAIN ls[line].tree
  /\ p = <<3, 4>>
  /\ \E in, out, rd, wr : fds = PipeFds(in, out, rd, wr) /\ Due(ls[line].tree, cmd, in, wr)
RightSide(ls, line, cmd, fds, p) ==
  /\ line \in DOMAIN ls
  /\ cmd \in DOMAIN ls[line].tree
  /\ p = <<3, 4>>
  /\ \E in, out, rd, wr : fds = PipeFds(in, out, rd, wr) /\ Due(ls[line].tree, cmd, rd, out)

\* The struct proc and the variables of a program.
IsProc(r) == r = [pc |-> r.pc, cmd |-> r.cmd, line |-> r.line, fds |-> r.fds, p |-> r.p, parent |-> r.parent]

Fine(r, ls) ==
  /\ IsProc(r)
  /\ r.pc \in {"prompt", "typed", "shwait"} => r.fds = Std
  /\ r.pc = "typed" => r.line \in DOMAIN ls
  /\ r.pc = "run" => r.cmd = 0 \/ Ready(ls, r.line, r.cmd, r.fds)
  /\ r.pc = "prog" => Ready(ls, r.line, r.cmd, r.fds) /\ ls[r.line].tree[r.cmd].type = "EXEC"
  /\ r.pc = "listwait" => Ready(ls, r.line, r.cmd, r.fds) /\ ls[r.line].tree[r.cmd].type = "LIST"
  /\ r.pc \in {"left", "right"} => Forking(ls, r.line, r.cmd, r.fds, r.p)
  /\ r.pc = "leftends" => LeftSide(ls, r.line, r.cmd, r.fds, r.p)
  /\ r.pc = "rightends" => RightSide(ls, r.line, r.cmd, r.fds, r.p)

TypedLines == [text : Lines \union {<<"cd">>}, tree : {Parse[l] : l \in Lines} \union {<<>>}]

ShellInv ==
  /\ lines \in Seq(TypedLines)
  /\ proc = [q \in Procs |-> proc[q]]
  /\ \A q \in Procs : Fine(proc[q], lines)

LEMMA TreesBuilt ==
  ASSUME NEW ls \in Seq(TypedLines), NEW n \in DOMAIN ls
  PROVE  Built(ls[n].tree)
<1>1. ls[n].tree \in {Parse[l] : l \in Lines} \union {<<>>}
  <2>1. ls[n] \in TypedLines
    OBVIOUS
  <2> QED
    BY <2>1 DEF TypedLines
<1>2. Built(<<>>)
  BY DEF Built, IsTree
<1>3. \A l \in Lines : Built(Parse[l])
  BY ParseAssumption DEF Built
<1> QED
  BY <1>1, <1>2, <1>3

\* A new line leaves the others as they are.
LEMMA FineLater ==
  ASSUME NEW ls \in Seq(TypedLines), NEW l \in TypedLines, NEW r, Fine(r, ls)
  PROVE  Fine(r, Append(ls, l))
<1> DEFINE new == Append(ls, l)
<1>1. \A n \in DOMAIN ls : n \in DOMAIN new /\ new[n] = ls[n]
  OBVIOUS
<1> HIDE DEF new
<1>2. \A line, cmd, fds : Ready(ls, line, cmd, fds) => Ready(new, line, cmd, fds)
  BY <1>1 DEF Ready
<1>3. \A line, cmd, fds, p : Forking(ls, line, cmd, fds, p) => Forking(new, line, cmd, fds, p)
  BY <1>1 DEF Forking
<1>4. \A line, cmd, fds, p : LeftSide(ls, line, cmd, fds, p) => LeftSide(new, line, cmd, fds, p)
  BY <1>1 DEF LeftSide
<1>5. \A line, cmd, fds, p : RightSide(ls, line, cmd, fds, p) => RightSide(new, line, cmd, fds, p)
  BY <1>1 DEF RightSide
<1>6. r.pc = "typed" => r.line \in DOMAIN new
  BY <1>1 DEF Fine
<1>7. r.pc \in {"prog", "listwait"} => new[r.line] = ls[r.line]
  BY <1>1 DEF Fine, Ready
<1>8. Fine(r, new)
  BY <1>2, <1>3, <1>4, <1>5, <1>6, <1>7 DEF Fine
<1> QED
  BY <1>8 DEF new

LEMMA RootReady ==
  ASSUME NEW ls \in Seq(TypedLines), NEW n \in DOMAIN ls, Len(ls[n].tree) # 0
  PROVE  Ready(ls, n, Len(ls[n].tree), Std)
<1>1. Built(ls[n].tree)
  BY TreesBuilt
<1> QED
  BY <1>1, DueRoot, Files DEF Ready

LEMMA RedirReady ==
  ASSUME NEW ls \in Seq(TypedLines), NEW n, NEW k, NEW fds, Ready(ls, n, k, fds), ls[n].tree[k].type = "REDIR"
  PROVE  LET node == ls[n].tree[k]
         IN  Ready(ls, n, node.cmd, Open(Close(fds, node.fd), <<"file", node.file>>))
<1> DEFINE tree == ls[n].tree
           name == <<"file", tree[k].file>>
           new == Open(Close(fds, tree[k].fd), name)
<1>1. n \in DOMAIN ls /\ k \in DOMAIN tree /\ Built(tree)
  BY TreesBuilt DEF Ready
<1>2. PICK in, out : fds = Fds(in, out) /\ Due(tree, k, in, out)
  BY DEF Ready
<1>3. in # None
  BY <1>2 DEF Due
<1> HIDE DEF tree
<1>4. /\ tree[k].cmd \in DOMAIN tree
      /\ \/ tree[k].fd = 0 /\ Due(tree, tree[k].cmd, name, out)
         \/ tree[k].fd = 1 /\ Due(tree, tree[k].cmd, in, name)
  BY <1>1, <1>2, DueRedir DEF tree
<1>5. CASE tree[k].fd = 0 /\ Due(tree, tree[k].cmd, name, out)
  <2>1. new = Fds(name, out)
    BY <1>2, <1>3, <1>5, RedirFiles
  <2> QED
    BY <1>1, <1>4, <1>5, <2>1 DEF Ready, tree
<1>6. CASE tree[k].fd = 1 /\ Due(tree, tree[k].cmd, in, name)
  <2>1. new = Fds(in, name)
    BY <1>2, <1>3, <1>6, RedirFiles
  <2> QED
    BY <1>1, <1>4, <1>6, <2>1 DEF Ready, tree
<1> QED
  BY <1>4, <1>5, <1>6 DEF tree

LEMMA ListReady ==
  ASSUME NEW ls \in Seq(TypedLines), NEW n, NEW k, NEW fds, Ready(ls, n, k, fds), ls[n].tree[k].type = "LIST"
  PROVE  Ready(ls, n, ls[n].tree[k].left, fds) /\ Ready(ls, n, ls[n].tree[k].right, fds)
<1>1. n \in DOMAIN ls /\ k \in DOMAIN ls[n].tree /\ Built(ls[n].tree)
  BY TreesBuilt DEF Ready
<1>2. PICK in, out : fds = Fds(in, out) /\ Due(ls[n].tree, k, in, out)
  BY DEF Ready
<1> QED
  BY <1>1, <1>2, DueList DEF Ready

LEMMA BackReady ==
  ASSUME NEW ls \in Seq(TypedLines), NEW n, NEW k, NEW fds, Ready(ls, n, k, fds), ls[n].tree[k].type = "BACK"
  PROVE  Ready(ls, n, ls[n].tree[k].cmd, fds)
<1>1. n \in DOMAIN ls /\ k \in DOMAIN ls[n].tree /\ Built(ls[n].tree)
  BY TreesBuilt DEF Ready
<1>2. PICK in, out : fds = Fds(in, out) /\ Due(ls[n].tree, k, in, out)
  BY DEF Ready
<1> QED
  BY <1>1, <1>2, DueBack DEF Ready

LEMMA PipeReady ==
  ASSUME NEW ls \in Seq(TypedLines), NEW n, NEW k, NEW fds, Ready(ls, n, k, fds), ls[n].tree[k].type = "PIPE"
  PROVE  LET rd == Lowest(fds)
             opened == Open(fds, ReadEnd(k))
             wr == Lowest(opened)
         IN  Forking(ls, n, k, Open(opened, WriteEnd(k)), <<rd, wr>>)
<1>1. PICK in, out : fds = Fds(in, out) /\ Due(ls[n].tree, k, in, out)
  BY DEF Ready
<1>2. in # None /\ out # None /\ ReadEnd(k) # None
  BY <1>1, Files DEF Due
<1>3. /\ Lowest(fds) = 3
      /\ Lowest(Open(fds, ReadEnd(k))) = 4
      /\ Open(Open(fds, ReadEnd(k)), WriteEnd(k)) = PipeFds(in, out, ReadEnd(k), WriteEnd(k))
  BY <1>1, <1>2, PipeFiles
<1> QED
  BY <1>1, <1>3 DEF Ready, Forking

LEMMA SidesForked ==
  ASSUME NEW ls \in Seq(TypedLines), NEW n, NEW k, NEW fds, NEW p, Forking(ls, n, k, fds, p)
  PROVE  /\ LeftSide(ls, n, ls[n].tree[k].left, fds, p)
         /\ RightSide(ls, n, ls[n].tree[k].right, fds, p)
<1>1. n \in DOMAIN ls /\ k \in DOMAIN ls[n].tree /\ Built(ls[n].tree)
  BY TreesBuilt DEF Forking
<1>2. PICK in, out : /\ fds = PipeFds(in, out, ReadEnd(k), WriteEnd(k))
                     /\ Due(ls[n].tree, k, in, out)
  BY DEF Forking
<1>3. /\ {ls[n].tree[k].left, ls[n].tree[k].right} \subseteq DOMAIN ls[n].tree
      /\ Due(ls[n].tree, ls[n].tree[k].left, in, WriteEnd(k))
      /\ Due(ls[n].tree, ls[n].tree[k].right, ReadEnd(k), out)
  BY <1>1, <1>2, DuePipe DEF Forking
<1>4. LeftSide(ls, n, ls[n].tree[k].left, fds, p)
  BY <1>1, <1>2, <1>3 DEF LeftSide, Forking
<1>5. RightSide(ls, n, ls[n].tree[k].right, fds, p)
  BY <1>1, <1>2, <1>3 DEF RightSide, Forking
<1> QED
  BY <1>4, <1>5

LEMMA SidesReady ==
  ASSUME NEW ls, NEW n, NEW k, NEW fds, NEW p
  PROVE  /\ LeftSide(ls, n, k, fds, p) => Ready(ls, n, k, LeftEnds(fds, p))
         /\ RightSide(ls, n, k, fds, p) => Ready(ls, n, k, RightEnds(fds, p))
<1>1. ASSUME LeftSide(ls, n, k, fds, p) PROVE Ready(ls, n, k, LeftEnds(fds, p))
  <2>1. PICK in, out, rd, wr : fds = PipeFds(in, out, rd, wr) /\ Due(ls[n].tree, k, in, wr)
    BY <1>1 DEF LeftSide
  <2>2. in # None /\ p = <<3, 4>>
    BY <1>1, <2>1 DEF LeftSide, Due
  <2>3. LeftEnds(fds, p) = Fds(in, wr)
    BY <2>1, <2>2, SideFiles
  <2> QED
    BY <1>1, <2>1, <2>3 DEF LeftSide, Ready
<1>2. ASSUME RightSide(ls, n, k, fds, p) PROVE Ready(ls, n, k, RightEnds(fds, p))
  <2>1. PICK in, out, rd, wr : fds = PipeFds(in, out, rd, wr) /\ Due(ls[n].tree, k, rd, out)
    BY <1>2 DEF RightSide
  <2>2. rd # None /\ p = <<3, 4>>
    BY <1>2, <2>1 DEF RightSide, Due
  <2>3. RightEnds(fds, p) = Fds(rd, out)
    BY <2>1, <2>2, SideFiles
  <2> QED
    BY <1>2, <2>1, <2>3 DEF RightSide, Ready
<1> QED
  BY <1>1, <1>2

(* --- What the steps make of them ------------------------------------------ *)

\* A process at a place that asks nothing of it.
Elsewhere == {"unused", "zombie", "init", "initwait", "close", "wait1", "wait2", "exit"}

LEMMA FineAnywhere ==
  ASSUME NEW r, NEW ls, IsProc(r), r.pc \in Elsewhere
  PROVE  Fine(r, ls)
BY DEF Fine, Elsewhere

LEMMA Concluded ==
  ASSUME lines \in Seq(TypedLines), UNCHANGED lines,
         proc' = [q \in Procs |-> proc'[q]], \A q \in Procs : Fine(proc'[q], lines)
  PROVE  ShellInv'
BY DEF ShellInv, Procs

\* What EXCEPT makes of a process.
Process(to, cmd, line, fds, p, parent) ==
  [pc |-> to, cmd |-> cmd, line |-> line, fds |-> fds, p |-> p, parent |-> parent]

Copied(r, to, cmd, parent)   == [r EXCEPT !.pc = to, !.cmd = cmd, !.parent = parent]
Started(r, to, fds, parent)  == [r EXCEPT !.pc = to, !.fds = fds, !.parent = parent]
Switched(r, fds, to, p)      == [r EXCEPT !.fds = fds, !.pc = to, !.p = p]

LEMMA ProcessFields ==
  ASSUME NEW to, NEW cmd, NEW line, NEW fds, NEW p, NEW parent
  PROVE  LET r == Process(to, cmd, line, fds, p, parent)
         IN  /\ IsProc(r)
             /\ r.pc = to /\ r.cmd = cmd /\ r.line = line /\ r.fds = fds /\ r.p = p /\ r.parent = parent
BY DEF Process, IsProc

\* The fields that a step assigns together, one after the other.
LEMMA AssignPc ==
  ASSUME NEW r, IsProc(r), NEW x
  PROVE  [r EXCEPT !.pc = x] = Process(x, r.cmd, r.line, r.fds, r.p, r.parent)
BY DEF IsProc, Process

LEMMA AssignParent ==
  ASSUME NEW r, IsProc(r), NEW x
  PROVE  [r EXCEPT !.parent = x] = Process(r.pc, r.cmd, r.line, r.fds, r.p, x)
BY DEF IsProc, Process

LEMMA AssignPcCmd ==
  ASSUME NEW r, IsProc(r), NEW x, NEW y
  PROVE  [r EXCEPT !.pc = x, !.cmd = y] = Process(x, y, r.line, r.fds, r.p, r.parent)
<1>1. PICK a, b, c, d, e, f : r = Process(a, b, c, d, e, f)
  BY Zenon DEF IsProc, Process
<1>2. r.pc = a /\ r.cmd = b /\ r.line = c /\ r.fds = d /\ r.p = e /\ r.parent = f
  BY <1>1, ProcessFields
<1>3. [Process(a, b, c, d, e, f) EXCEPT !.pc = x] = Process(x, b, c, d, e, f)
  BY DEF Process
<1>4. [Process(x, b, c, d, e, f) EXCEPT !.cmd = y] = Process(x, y, c, d, e, f)
  BY DEF Process
<1> QED
  BY <1>1, <1>2, <1>3, <1>4, Zenon

LEMMA AssignPcLine ==
  ASSUME NEW r, IsProc(r), NEW x, NEW y
  PROVE  [r EXCEPT !.pc = x, !.line = y] = Process(x, r.cmd, y, r.fds, r.p, r.parent)
<1>1. PICK a, b, c, d, e, f : r = Process(a, b, c, d, e, f)
  BY Zenon DEF IsProc, Process
<1>2. r.pc = a /\ r.cmd = b /\ r.line = c /\ r.fds = d /\ r.p = e /\ r.parent = f
  BY <1>1, ProcessFields
<1>3. [Process(a, b, c, d, e, f) EXCEPT !.pc = x] = Process(x, b, c, d, e, f)
  BY DEF Process
<1>4. [Process(x, b, c, d, e, f) EXCEPT !.line = y] = Process(x, b, y, d, e, f)
  BY DEF Process
<1> QED
  BY <1>1, <1>2, <1>3, <1>4, Zenon

LEMMA AssignCmdFds ==
  ASSUME NEW r, IsProc(r), NEW x, NEW y
  PROVE  [r EXCEPT !.cmd = x, !.fds = y] = Process(r.pc, x, r.line, y, r.p, r.parent)
<1>1. PICK a, b, c, d, e, f : r = Process(a, b, c, d, e, f)
  BY Zenon DEF IsProc, Process
<1>2. r.pc = a /\ r.cmd = b /\ r.line = c /\ r.fds = d /\ r.p = e /\ r.parent = f
  BY <1>1, ProcessFields
<1>3. [Process(a, b, c, d, e, f) EXCEPT !.cmd = x] = Process(a, x, c, d, e, f)
  BY DEF Process
<1>4. [Process(a, x, c, d, e, f) EXCEPT !.fds = y] = Process(a, x, c, y, e, f)
  BY DEF Process
<1> QED
  BY <1>1, <1>2, <1>3, <1>4, Zenon

LEMMA AssignPcFds ==
  ASSUME NEW r, IsProc(r), NEW x, NEW y
  PROVE  [r EXCEPT !.pc = x, !.fds = y] = Process(x, r.cmd, r.line, y, r.p, r.parent)
<1>1. PICK a, b, c, d, e, f : r = Process(a, b, c, d, e, f)
  BY Zenon DEF IsProc, Process
<1>2. r.pc = a /\ r.cmd = b /\ r.line = c /\ r.fds = d /\ r.p = e /\ r.parent = f
  BY <1>1, ProcessFields
<1>3. [Process(a, b, c, d, e, f) EXCEPT !.pc = x] = Process(x, b, c, d, e, f)
  BY DEF Process
<1>4. [Process(x, b, c, d, e, f) EXCEPT !.fds = y] = Process(x, b, c, y, e, f)
  BY DEF Process
<1> QED
  BY <1>1, <1>2, <1>3, <1>4, Zenon

LEMMA AssignPcP ==
  ASSUME NEW r, IsProc(r), NEW x, NEW y
  PROVE  [r EXCEPT !.pc = x, !.p = y] = Process(x, r.cmd, r.line, r.fds, y, r.parent)
<1>1. PICK a, b, c, d, e, f : r = Process(a, b, c, d, e, f)
  BY Zenon DEF IsProc, Process
<1>2. r.pc = a /\ r.cmd = b /\ r.line = c /\ r.fds = d /\ r.p = e /\ r.parent = f
  BY <1>1, ProcessFields
<1>3. [Process(a, b, c, d, e, f) EXCEPT !.pc = x] = Process(x, b, c, d, e, f)
  BY DEF Process
<1>4. [Process(x, b, c, d, e, f) EXCEPT !.p = y] = Process(x, b, c, d, y, f)
  BY DEF Process
<1> QED
  BY <1>1, <1>2, <1>3, <1>4, Zenon

LEMMA AssignPcParent ==
  ASSUME NEW r, IsProc(r), NEW x, NEW y
  PROVE  [r EXCEPT !.pc = x, !.parent = y] = Process(x, r.cmd, r.line, r.fds, r.p, y)
<1>1. PICK a, b, c, d, e, f : r = Process(a, b, c, d, e, f)
  BY Zenon DEF IsProc, Process
<1>2. r.pc = a /\ r.cmd = b /\ r.line = c /\ r.fds = d /\ r.p = e /\ r.parent = f
  BY <1>1, ProcessFields
<1>3. [Process(a, b, c, d, e, f) EXCEPT !.pc = x] = Process(x, b, c, d, e, f)
  BY DEF Process
<1>4. [Process(x, b, c, d, e, f) EXCEPT !.parent = y] = Process(x, b, c, d, e, y)
  BY DEF Process
<1> QED
  BY <1>1, <1>2, <1>3, <1>4, Zenon

LEMMA AssignPcCmdParent ==
  ASSUME NEW r, IsProc(r), NEW x, NEW y, NEW z
  PROVE  Copied(r, x, y, z) = Process(x, y, r.line, r.fds, r.p, z)
<1>1. PICK a, b, c, d, e, f : r = Process(a, b, c, d, e, f)
  BY Zenon DEF IsProc, Process
<1>2. r.pc = a /\ r.cmd = b /\ r.line = c /\ r.fds = d /\ r.p = e /\ r.parent = f
  BY <1>1, ProcessFields
<1>3. [Process(a, b, c, d, e, f) EXCEPT !.pc = x] = Process(x, b, c, d, e, f)
  BY DEF Process
<1>4. [Process(x, b, c, d, e, f) EXCEPT !.cmd = y] = Process(x, y, c, d, e, f)
  BY DEF Process
<1>5. [Process(x, y, c, d, e, f) EXCEPT !.parent = z] = Process(x, y, c, d, e, z)
  BY DEF Process
<1> QED
  BY <1>1, <1>2, <1>3, <1>4, <1>5, Zenon DEF Copied

LEMMA AssignFdsPcP ==
  ASSUME NEW r, IsProc(r), NEW x, NEW y, NEW z
  PROVE  Switched(r, x, y, z) = Process(y, r.cmd, r.line, x, z, r.parent)
<1>1. PICK a, b, c, d, e, f : r = Process(a, b, c, d, e, f)
  BY Zenon DEF IsProc, Process
<1>2. r.pc = a /\ r.cmd = b /\ r.line = c /\ r.fds = d /\ r.p = e /\ r.parent = f
  BY <1>1, ProcessFields
<1>3. [Process(a, b, c, d, e, f) EXCEPT !.fds = x] = Process(a, b, c, x, e, f)
  BY DEF Process
<1>4. [Process(a, b, c, x, e, f) EXCEPT !.pc = y] = Process(y, b, c, x, e, f)
  BY DEF Process
<1>5. [Process(y, b, c, x, e, f) EXCEPT !.p = z] = Process(y, b, c, x, z, f)
  BY DEF Process
<1> QED
  BY <1>1, <1>2, <1>3, <1>4, <1>5, Zenon DEF Switched

LEMMA AssignPcFdsParent ==
  ASSUME NEW r, IsProc(r), NEW x, NEW y, NEW z
  PROVE  Started(r, x, y, z) = Process(x, r.cmd, r.line, y, r.p, z)
<1>1. PICK a, b, c, d, e, f : r = Process(a, b, c, d, e, f)
  BY Zenon DEF IsProc, Process
<1>2. r.pc = a /\ r.cmd = b /\ r.line = c /\ r.fds = d /\ r.p = e /\ r.parent = f
  BY <1>1, ProcessFields
<1>3. [Process(a, b, c, d, e, f) EXCEPT !.pc = x] = Process(x, b, c, d, e, f)
  BY DEF Process
<1>4. [Process(x, b, c, d, e, f) EXCEPT !.fds = y] = Process(x, b, c, y, e, f)
  BY DEF Process
<1>5. [Process(x, b, c, y, e, f) EXCEPT !.parent = z] = Process(x, b, c, y, e, z)
  BY DEF Process
<1> QED
  BY <1>1, <1>2, <1>3, <1>4, <1>5, Zenon DEF Started

\* One process goes on as r.
LEMMA OneGoesOn ==
  ASSUME ShellInv, NEW p \in Procs, NEW r, Fine(r, lines), proc' = [proc EXCEPT ![p] = r], UNCHANGED lines
  PROVE  ShellInv'
<1>1. \A q \in Procs : proc'[q] = IF q = p THEN r ELSE proc[q]
  BY DEF ShellInv
<1>2. proc' = [q \in Procs |-> proc'[q]]
  BY DEF ShellInv
<1>3. \A q \in Procs : Fine(proc'[q], lines)
  BY <1>1 DEF ShellInv
<1>4. lines \in Seq(TypedLines)
  BY DEF ShellInv
<1> QED
  BY <1>2, <1>3, <1>4, Concluded

\* Where a process goes on elsewhere.
LEMMA GoesElsewhere ==
  ASSUME ShellInv, NEW p \in Procs, NEW to \in Elsewhere, proc' = [proc EXCEPT ![p].pc = to], UNCHANGED lines
  PROVE  ShellInv'
<1> DEFINE r == [proc[p] EXCEPT !.pc = to]
<1>1. IsProc(proc[p])
  BY DEF ShellInv, Fine
<1>2. r = Process(to, proc[p].cmd, proc[p].line, proc[p].fds, proc[p].p, proc[p].parent)
  BY <1>1, AssignPc
<1>3. proc' = [proc EXCEPT ![p] = r]
  OBVIOUS
<1> HIDE DEF r
<1>4. Fine(r, lines)
  BY <1>2, ProcessFields, FineAnywhere
<1> QED
  BY <1>3, <1>4, OneGoesOn, Zenon

LEMMA ForkKeeps ==
  ASSUME ShellInv, NEW p \in Procs, NEW to, NEW childPc, NEW cmd, Fork1(p, to, childPc, cmd),
         Fine([proc[p] EXCEPT !.pc = to], lines),
         Fine(Copied(proc[p], childPc, cmd, p), lines)
  PROVE  ShellInv'
<1> DEFINE r == [proc[p] EXCEPT !.pc = to]
           child == Copied(proc[p], childPc, cmd, p)
           c == Min(Free)
<1>0. UNCHANGED lines /\ lines \in Seq(TypedLines)
  BY DEF Fork1, ShellInv
<1>1. CASE Forked(p, to, childPc, cmd)
  <2>1. proc' = [proc EXCEPT ![p] = r, ![c] = child]
    BY <1>1 DEF Forked, Copied
  <2> HIDE DEF r, child, c
  <2>2. proc' = [q \in Procs |-> proc'[q]]
    BY <2>1, Zenon DEF ShellInv
  <2>3. \A q \in Procs : proc'[q] = IF q = c THEN child ELSE IF q = p THEN r ELSE proc[q]
    BY <2>1 DEF ShellInv
  <2>4. Fine(r, lines) /\ Fine(child, lines)
    BY DEF r, child
  <2>5. \A q \in Procs : Fine(proc'[q], lines)
    BY <2>3, <2>4 DEF ShellInv
  <2> QED
    BY <1>0, <2>2, <2>5, Concluded
<1>2. CASE proc' = [proc EXCEPT ![p].pc = "exit"]
  <2>1. "exit" \in Elsewhere
    BY DEF Elsewhere
  <2> QED
    BY <1>0, <1>2, <2>1, GoesElsewhere, Zenon
<1> QED
  BY <1>1, <1>2 DEF Fork1

LEMMA WaitKeeps ==
  ASSUME ShellInv, NEW p \in Procs, NEW c, NEW r, Wait(p, c, r), Fine(r, lines)
  PROVE  ShellInv'
<1>1. proc' = [q \in Procs |-> IF q = p THEN r ELSE IF q = c THEN Unused ELSE proc[q]]
  BY DEF Wait
<1>2. Fine(Unused, lines)
  BY FineAnywhere DEF Unused, Elsewhere, IsProc
<1>3. \A q \in Procs : Fine(proc'[q], lines)
  BY <1>1, <1>2 DEF ShellInv
<1>4. UNCHANGED lines /\ lines \in Seq(TypedLines)
  BY DEF Wait, ShellInv
<1>5. proc' = [q \in Procs |-> proc'[q]]
  BY <1>1
<1> QED
  BY <1>3, <1>4, <1>5, Concluded

\* What a step that waits or forks makes of the process is fine where it goes.
LEMMA AtShell ==
  ASSUME NEW r, NEW ls, Fine(r, ls), r.pc \in {"prompt", "typed", "shwait"}, NEW to \in {"prompt", "shwait"}
  PROVE  Fine([r EXCEPT !.pc = to], ls)
<1> DEFINE s == [r EXCEPT !.pc = to]
<1>1. IsProc(r)
  BY DEF Fine
<1>2. s = Process(to, r.cmd, r.line, r.fds, r.p, r.parent)
  BY <1>1, AssignPc
<1> HIDE DEF s
<1>3. IsProc(s) /\ s.pc = to /\ s.fds = r.fds
  BY <1>2, ProcessFields
<1>4. Fine(s, ls)
  BY <1>3 DEF Fine
<1> QED
  BY <1>4 DEF s

LEMMA InitForkKeeps ==
  ASSUME ShellInv, InitFork
  PROVE  ShellInv'
<1> DEFINE c == Min(Free)
           r == [proc[1] EXCEPT !.pc = "initwait", !.p = <<c>>]
           sh == Started(Unused, "prompt", Std, 1)
<1>0. 1 \in Procs /\ UNCHANGED lines /\ lines \in Seq(TypedLines)
  BY ShellAssumption DEF InitFork, Procs, ShellInv
<1>1. IsProc(proc[1]) /\ IsProc(Unused)
  BY <1>0 DEF ShellInv, Fine, IsProc, Unused
<1>2. Fine(r, lines)
  <2>1. r = Process("initwait", proc[1].cmd, proc[1].line, proc[1].fds, <<c>>, proc[1].parent)
    BY <1>1, AssignPcP, Zenon
  <2> HIDE DEF r
  <2>2. IsProc(r) /\ r.pc = "initwait"
    BY <2>1, ProcessFields
  <2> QED
    BY <2>2, FineAnywhere DEF Elsewhere
<1>3. Fine(sh, lines)
  <2>1. sh = Process("prompt", Unused.cmd, Unused.line, Std, Unused.p, 1)
    BY <1>1, AssignPcFdsParent
  <2> HIDE DEF sh
  <2>2. IsProc(sh) /\ sh.pc = "prompt" /\ sh.fds = Std
    BY <2>1, ProcessFields
  <2> QED
    BY <2>2 DEF Fine
<1>4. proc' = [proc EXCEPT ![1] = r, ![c] = sh]
  BY DEF InitFork, Started
<1> HIDE DEF c, r, sh
<1>5. proc' = [q \in Procs |-> proc'[q]]
  BY <1>4, Zenon DEF ShellInv
<1>6. \A q \in Procs : proc'[q] = IF q = c THEN sh ELSE IF q = 1 THEN r ELSE proc[q]
  BY <1>0, <1>4 DEF ShellInv
<1>7. \A q \in Procs : Fine(proc'[q], lines)
  BY <1>2, <1>3, <1>6 DEF ShellInv
<1> QED
  BY <1>0, <1>5, <1>7, Concluded

LEMMA InitWaitKeeps ==
  ASSUME ShellInv, InitWait
  PROVE  ShellInv'
<1>0. 1 \in Procs
  BY ShellAssumption DEF Procs
<1>1. PICK c : Wait(1, c, [proc[1] EXCEPT !.pc = IF c \in {0, proc[1].p[1]} THEN "init" ELSE @])
  BY DEF InitWait
<1> DEFINE to == IF c \in {0, proc[1].p[1]} THEN "init" ELSE proc[1].pc
           r == [proc[1] EXCEPT !.pc = to]
<1>2. Wait(1, c, r)
  BY <1>1
<1>3. to \in Elsewhere
  BY DEF InitWait, At, Elsewhere
<1> HIDE DEF to
<1>4. IsProc(proc[1])
  BY <1>0 DEF ShellInv, Fine
<1>5. r = Process(to, proc[1].cmd, proc[1].line, proc[1].fds, proc[1].p, proc[1].parent)
  BY <1>4, AssignPc
<1> HIDE DEF r
<1>6. IsProc(r) /\ r.pc = to
  BY <1>5, ProcessFields
<1>7. Fine(r, lines)
  BY <1>3, <1>6, FineAnywhere
<1> QED
  BY <1>0, <1>2, <1>7, WaitKeeps

LEMMA ReadsWhat ==
  ASSUME NEW p, Type(p) \/ Cd(p)
  PROVE  \E text, tree : \E to \in {"typed", "prompt"} : [text |-> text, tree |-> tree] \in TypedLines /\ Reads(p, text, tree, to)
<1>1. ASSUME NEW l \in Lines PROVE [text |-> l, tree |-> Parse[l]] \in TypedLines
  BY DEF TypedLines
<1>2. [text |-> <<"cd">>, tree |-> <<>>] \in TypedLines
  BY DEF TypedLines
<1> QED
  BY <1>1, <1>2, Zenon DEF Type, Cd

LEMMA ReadsKeeps ==
  ASSUME ShellInv, NEW p \in Procs, NEW text, NEW tree, [text |-> text, tree |-> tree] \in TypedLines,
         NEW to \in {"typed", "prompt"}, Reads(p, text, tree, to)
  PROVE  ShellInv'
<1>1. lines' = Append(lines, [text |-> text, tree |-> tree])
  BY DEF Reads
<1> DEFINE t == [text |-> text, tree |-> tree]
           r == [proc[p] EXCEPT !.pc = to, !.line = Len(lines) + 1]
<1>2. lines \in Seq(TypedLines) /\ t \in TypedLines
  BY DEF ShellInv
<1>3. lines' = Append(lines, t)
  BY <1>1
<1> HIDE DEF t
<1>4. lines' \in Seq(TypedLines) /\ Len(lines) + 1 \in DOMAIN lines'
  BY <1>2, <1>3
<1>5. IsProc(proc[p]) /\ proc[p].fds = Std
  BY DEF ShellInv, Fine, Reads, At
<1>6. proc' = [proc EXCEPT ![p] = r]
  BY DEF Reads
<1>7. r = Process(to, proc[p].cmd, Len(lines) + 1, proc[p].fds, proc[p].p, proc[p].parent)
  BY <1>5, AssignPcLine, Zenon
<1> HIDE DEF r
<1>8. IsProc(r) /\ r.pc = to /\ r.line = Len(lines) + 1 /\ r.fds = Std
  BY <1>5, <1>7, ProcessFields
<1>9. Fine(r, lines')
  BY <1>4, <1>8 DEF Fine
<1>10. \A q \in Procs : proc'[q] = IF q = p THEN r ELSE proc[q]
  BY <1>6 DEF ShellInv
<1>11. proc' = [q \in Procs |-> proc'[q]]
  BY <1>6 DEF ShellInv
<1>12. ASSUME NEW q \in Procs PROVE Fine(proc'[q], lines')
  <2>1. CASE q = p
    BY <1>9, <1>10, <2>1
  <2>2. CASE q # p
    <3>1. Fine(proc[q], lines) /\ proc'[q] = proc[q]
      BY <1>10, <2>2 DEF ShellInv
    <3>2. Fine(proc[q], Append(lines, t))
      BY <1>2, <3>1, FineLater
    <3> QED
      BY <1>3, <3>1, <3>2
  <2> QED
    BY <2>1, <2>2
<1> QED
  BY <1>4, <1>11, <1>12 DEF ShellInv, Procs

LEMMA ExitKeeps ==
  ASSUME ShellInv, NEW p \in Procs, Exit(p)
  PROVE  ShellInv'
<1> DEFINE z == [Unused EXCEPT !.pc = "zombie", !.parent = proc[p].parent]
<1>1. proc' = [q \in Procs |-> IF q = p THEN z ELSE IF q \in Kids(p) THEN [proc[q] EXCEPT !.parent = 1] ELSE proc[q]]
  BY DEF Exit
<1>2. Fine(z, lines)
  <2>1. IsProc(Unused)
    BY DEF IsProc, Unused
  <2>2. z = Process("zombie", Unused.cmd, Unused.line, Unused.fds, Unused.p, proc[p].parent)
    BY <2>1, AssignPcParent, Zenon
  <2> HIDE DEF z
  <2>3. IsProc(z) /\ z.pc = "zombie"
    BY <2>2, ProcessFields
  <2> QED
    BY <2>3, FineAnywhere DEF Elsewhere
<1> HIDE DEF z
<1>3. ASSUME NEW q \in Procs PROVE Fine([proc[q] EXCEPT !.parent = 1], lines)
  <2> DEFINE r == proc[q]
             s == [r EXCEPT !.parent = 1]
  <2>1. Fine(r, lines)
    BY DEF ShellInv
  <2> HIDE DEF r
  <2>2. IsProc(r)
    BY <2>1 DEF Fine
  <2>3. s = Process(r.pc, r.cmd, r.line, r.fds, r.p, 1)
    BY <2>2, AssignParent
  <2> HIDE DEF s
  <2>4. IsProc(s) /\ s.pc = r.pc /\ s.cmd = r.cmd /\ s.line = r.line /\ s.fds = r.fds /\ s.p = r.p
    BY <2>3, ProcessFields
  <2>5. Fine(s, lines)
    BY <2>1, <2>4 DEF Fine
  <2> QED
    BY <2>5 DEF s, r
<1>4. ASSUME NEW q \in Procs PROVE Fine(proc'[q], lines)
  <2>1. Fine(proc[q], lines)
    BY DEF ShellInv
  <2>2. proc'[q] \in {z, [proc[q] EXCEPT !.parent = 1], proc[q]}
    BY <1>1
  <2> QED
    BY <1>2, <1>3, <2>1, <2>2
<1>5. UNCHANGED lines /\ lines \in Seq(TypedLines)
  BY DEF Exit, ShellInv
<1>6. proc' = [q \in Procs |-> proc'[q]]
  BY <1>1
<1> QED
  BY <1>4, <1>5, <1>6, Concluded

\* A process that only moves on, and the child that is a copy of it.
LEMMA MovesElsewhere ==
  ASSUME NEW r, NEW ls, IsProc(r), NEW to \in Elsewhere
  PROVE  Fine([r EXCEPT !.pc = to], ls)
<1> DEFINE s == [r EXCEPT !.pc = to]
<1>1. s = Process(to, r.cmd, r.line, r.fds, r.p, r.parent)
  BY AssignPc
<1> HIDE DEF s
<1>2. IsProc(s) /\ s.pc = to
  BY <1>1, ProcessFields
<1>3. Fine(s, ls)
  BY <1>2, FineAnywhere
<1> QED
  BY <1>3 DEF s

LEMMA MovesInTree ==
  ASSUME NEW r, NEW ls, IsProc(r), NEW to \in {"prog", "listwait", "right"},
         to = "right" => Forking(ls, r.line, r.cmd, r.fds, r.p),
         to \in {"prog", "listwait"} => Ready(ls, r.line, r.cmd, r.fds),
         to = "prog" => ls[r.line].tree[r.cmd].type = "EXEC",
         to = "listwait" => ls[r.line].tree[r.cmd].type = "LIST"
  PROVE  Fine([r EXCEPT !.pc = to], ls)
<1> DEFINE s == [r EXCEPT !.pc = to]
<1>1. s = Process(to, r.cmd, r.line, r.fds, r.p, r.parent)
  BY AssignPc
<1> HIDE DEF s
<1>2. IsProc(s) /\ s.pc = to /\ s.cmd = r.cmd /\ s.line = r.line /\ s.fds = r.fds /\ s.p = r.p
  BY <1>1, ProcessFields
<1>3. Fine(s, ls)
  BY <1>2 DEF Fine
<1> QED
  BY <1>3 DEF s

LEMMA ChildFine ==
  ASSUME NEW r, NEW ls, IsProc(r), NEW to \in {"run", "leftends", "rightends"}, NEW cmd, NEW parent,
         to = "run" => cmd = 0 \/ Ready(ls, r.line, cmd, r.fds),
         to = "leftends" => LeftSide(ls, r.line, cmd, r.fds, r.p),
         to = "rightends" => RightSide(ls, r.line, cmd, r.fds, r.p)
  PROVE  Fine(Copied(r, to, cmd, parent), ls)
<1> DEFINE s == Copied(r, to, cmd, parent)
<1>1. s = Process(to, cmd, r.line, r.fds, r.p, parent)
  BY AssignPcCmdParent
<1> HIDE DEF s
<1>2. IsProc(s) /\ s.pc = to /\ s.cmd = cmd /\ s.line = r.line /\ s.fds = r.fds /\ s.p = r.p
  BY <1>1, ProcessFields
<1>3. Fine(s, ls)
  BY <1>2 DEF Fine
<1> QED
  BY <1>3 DEF s

LEMMA RunsOn ==
  ASSUME NEW r, NEW ls, IsProc(r), NEW cmd, Ready(ls, r.line, cmd, r.fds)
  PROVE  Fine([r EXCEPT !.pc = "run", !.cmd = cmd], ls)
<1> DEFINE s == [r EXCEPT !.pc = "run", !.cmd = cmd]
<1>1. s = Process("run", cmd, r.line, r.fds, r.p, r.parent)
  BY AssignPcCmd, Zenon
<1> HIDE DEF s
<1>2. IsProc(s) /\ s.pc = "run" /\ s.cmd = cmd /\ s.line = r.line /\ s.fds = r.fds
  BY <1>1, ProcessFields
<1>3. Fine(s, ls)
  BY <1>2 DEF Fine
<1> QED
  BY <1>3 DEF s

\* What is known of a process that runs a command.
LEMMA Runs ==
  ASSUME ShellInv, NEW p \in Procs, NEW type, Running(p, type)
  PROVE  /\ IsProc(proc[p])
         /\ Ready(lines, proc[p].line, proc[p].cmd, proc[p].fds)
         /\ lines[proc[p].line].tree[proc[p].cmd].type = type
         /\ Node(p) = lines[proc[p].line].tree[proc[p].cmd]
<1>1. Fine(proc[p], lines)
  BY DEF ShellInv
<1> QED
  BY <1>1 DEF Fine, Running, At, Node, Tree

LEMMA ShForkKeeps ==
  ASSUME ShellInv, NEW p \in Procs, ShFork(p)
  PROVE  ShellInv'
<1> DEFINE k == Len(Tree(proc[p].line))
<1>1. Fine(proc[p], lines) /\ proc[p].pc = "typed"
  BY DEF ShellInv, ShFork, At
<1>2. IsProc(proc[p]) /\ proc[p].line \in DOMAIN lines /\ proc[p].fds = Std
  BY <1>1 DEF Fine
<1>3. k = 0 \/ Ready(lines, proc[p].line, k, proc[p].fds)
  BY <1>2, RootReady DEF ShellInv, Tree
<1>4. Fork1(p, "shwait", "run", k)
  BY DEF ShFork
<1> HIDE DEF k
<1>5. Fine([proc[p] EXCEPT !.pc = "shwait"], lines)
  BY <1>1, AtShell, Zenon
<1>6. Fine(Copied(proc[p], "run", k, p), lines)
  BY <1>2, <1>3, ChildFine
<1> QED
  BY <1>4, <1>5, <1>6, ForkKeeps

LEMMA ShWaitKeeps ==
  ASSUME ShellInv, NEW p \in Procs, ShWait(p)
  PROVE  ShellInv'
<1>1. Fine(proc[p], lines) /\ proc[p].pc = "shwait"
  BY DEF ShellInv, ShWait, At
<1>2. Fine([proc[p] EXCEPT !.pc = "prompt"], lines)
  BY <1>1, AtShell, Zenon
<1>3. PICK c : Wait(p, c, [proc[p] EXCEPT !.pc = "prompt"])
  BY DEF ShWait
<1> QED
  BY <1>2, <1>3, WaitKeeps

LEMMA ExecKeeps ==
  ASSUME ShellInv, NEW p \in Procs, ExecProg(p)
  PROVE  ShellInv'
<1> DEFINE r == [proc[p] EXCEPT !.pc = "prog"]
<1>1. Running(p, "EXEC") /\ UNCHANGED lines
  BY DEF ExecProg
<1>2. CASE proc' = [proc EXCEPT ![p].pc = "prog"]
  <2>1. Fine(r, lines)
    BY <1>1, Runs, MovesInTree, Zenon
  <2>2. proc' = [proc EXCEPT ![p] = r]
    BY <1>2
  <2> HIDE DEF r
  <2> QED
    BY <1>1, <2>1, <2>2, OneGoesOn, Zenon
<1>3. CASE proc' = [proc EXCEPT ![p].pc = "exit"]
  <2>1. "exit" \in Elsewhere
    BY DEF Elsewhere
  <2> QED
    BY <1>1, <1>3, <2>1, GoesElsewhere, Zenon
<1> QED
  BY <1>2, <1>3, Zenon DEF ExecProg

LEMMA RedirKeeps ==
  ASSUME ShellInv, NEW p \in Procs, RunRedir(p)
  PROVE  ShellInv'
<1> DEFINE node == Node(p)
           fds == Close(proc[p].fds, node.fd)
           new == Open(fds, <<"file", node.file>>)
           r == [proc[p] EXCEPT !.cmd = node.cmd, !.fds = new]
           s == [proc[p] EXCEPT !.pc = "exit", !.fds = fds]
<1>1. Running(p, "REDIR") /\ UNCHANGED lines
  BY DEF RunRedir
<1>2. /\ IsProc(proc[p])
      /\ Ready(lines, proc[p].line, proc[p].cmd, proc[p].fds)
      /\ lines[proc[p].line].tree[proc[p].cmd].type = "REDIR"
      /\ node = lines[proc[p].line].tree[proc[p].cmd]
  BY <1>1, Runs
<1>3. lines \in Seq(TypedLines) /\ proc[p].pc = "run"
  BY <1>1 DEF ShellInv, Running, At
<1>4. Ready(lines, proc[p].line, node.cmd, new)
  BY <1>2, <1>3, RedirReady, Zenon
<1>5. proc' = [proc EXCEPT ![p] = r] \/ proc' = [proc EXCEPT ![p] = s]
  BY DEF RunRedir
<1> HIDE DEF new, fds, node
<1>6. Fine(r, lines)
  <2>1. r = Process(proc[p].pc, node.cmd, proc[p].line, new, proc[p].p, proc[p].parent)
    BY <1>2, AssignCmdFds, Zenon
  <2> HIDE DEF r
  <2>2. IsProc(r) /\ r.pc = "run" /\ r.cmd = node.cmd /\ r.line = proc[p].line /\ r.fds = new
    BY <1>3, <2>1, ProcessFields
  <2> QED
    BY <1>4, <2>2 DEF Fine
<1>7. Fine(s, lines)
  <2>1. s = Process("exit", proc[p].cmd, proc[p].line, fds, proc[p].p, proc[p].parent)
    BY <1>2, AssignPcFds, Zenon
  <2> HIDE DEF s
  <2>2. IsProc(s) /\ s.pc = "exit"
    BY <2>1, ProcessFields
  <2> QED
    BY <2>2, FineAnywhere DEF Elsewhere
<1> HIDE DEF r, s
<1> QED
  BY <1>1, <1>5, <1>6, <1>7, OneGoesOn

LEMMA ListKeeps ==
  ASSUME ShellInv, NEW p \in Procs, RunList(p)
  PROVE  ShellInv'
<1>1. Running(p, "LIST") /\ Fork1(p, "listwait", "run", Node(p).left) /\ lines \in Seq(TypedLines)
  BY DEF RunList, ShellInv
<1>2. Ready(lines, proc[p].line, Node(p).left, proc[p].fds)
  BY <1>1, Runs, ListReady
<1>3. Fine([proc[p] EXCEPT !.pc = "listwait"], lines)
  BY <1>1, Runs, MovesInTree, Zenon
<1>4. Fine(Copied(proc[p], "run", Node(p).left, p), lines)
  BY <1>1, <1>2, Runs, ChildFine, Zenon
<1> QED
  BY <1>1, <1>3, <1>4, ForkKeeps

LEMMA ListWaitKeeps ==
  ASSUME ShellInv, NEW p \in Procs, ListWait(p)
  PROVE  ShellInv'
<1>1. Fine(proc[p], lines) /\ proc[p].pc = "listwait" /\ lines \in Seq(TypedLines)
  BY DEF ShellInv, ListWait, At
<1>2. /\ IsProc(proc[p])
      /\ Ready(lines, proc[p].line, proc[p].cmd, proc[p].fds)
      /\ lines[proc[p].line].tree[proc[p].cmd].type = "LIST"
      /\ Node(p) = lines[proc[p].line].tree[proc[p].cmd]
  BY <1>1 DEF Fine, Node, Tree
<1>3. Ready(lines, proc[p].line, Node(p).right, proc[p].fds)
  BY <1>1, <1>2, ListReady
<1>4. Fine([proc[p] EXCEPT !.pc = "run", !.cmd = Node(p).right], lines)
  BY <1>2, <1>3, RunsOn, Zenon
<1>5. PICK c : Wait(p, c, [proc[p] EXCEPT !.pc = "run", !.cmd = Node(p).right])
  BY DEF ListWait
<1> QED
  BY <1>4, <1>5, WaitKeeps

LEMMA PipeKeeps ==
  ASSUME ShellInv, NEW p \in Procs, RunPipe(p)
  PROVE  ShellInv'
<1> DEFINE rd == Lowest(proc[p].fds)
           opened == Open(proc[p].fds, ReadEnd(proc[p].cmd))
           ends == <<rd, Lowest(opened)>>
           new == Open(opened, WriteEnd(proc[p].cmd))
           r == Switched(proc[p], new, "left", ends)
<1>1. Running(p, "PIPE") /\ UNCHANGED lines /\ lines \in Seq(TypedLines)
  BY DEF RunPipe, ShellInv
<1>2. /\ IsProc(proc[p])
      /\ Ready(lines, proc[p].line, proc[p].cmd, proc[p].fds)
      /\ lines[proc[p].line].tree[proc[p].cmd].type = "PIPE"
  BY <1>1, Runs
<1>3. Forking(lines, proc[p].line, proc[p].cmd, new, ends)
  BY <1>1, <1>2, PipeReady
<1>4. proc' = [proc EXCEPT ![p] = r] \/ proc' = [proc EXCEPT ![p].pc = "exit"]
  BY DEF RunPipe, Switched
<1> HIDE DEF new, ends
<1>5. Fine(r, lines)
  <2>1. r = Process("left", proc[p].cmd, proc[p].line, new, ends, proc[p].parent)
    BY <1>2, AssignFdsPcP
  <2> HIDE DEF r
  <2>2. IsProc(r) /\ r.pc = "left" /\ r.cmd = proc[p].cmd /\ r.line = proc[p].line /\ r.fds = new /\ r.p = ends
    BY <2>1, ProcessFields
  <2> QED
    BY <1>3, <2>2 DEF Fine
<1> HIDE DEF r
<1>6. "exit" \in Elsewhere
  BY DEF Elsewhere
<1> QED
  BY <1>1, <1>4, <1>5, <1>6, OneGoesOn, GoesElsewhere

LEMMA ForkSidesKeeps ==
  ASSUME ShellInv, NEW p \in Procs, ForkLeft(p) \/ ForkRight(p)
  PROVE  ShellInv'
<1>1. Fine(proc[p], lines) /\ proc[p].pc \in {"left", "right"} /\ lines \in Seq(TypedLines)
  BY DEF ShellInv, ForkLeft, ForkRight, At
<1>2. /\ IsProc(proc[p])
      /\ Forking(lines, proc[p].line, proc[p].cmd, proc[p].fds, proc[p].p)
      /\ Node(p) = lines[proc[p].line].tree[proc[p].cmd]
  BY <1>1 DEF Fine, Node, Tree
<1>3. /\ LeftSide(lines, proc[p].line, Node(p).left, proc[p].fds, proc[p].p)
      /\ RightSide(lines, proc[p].line, Node(p).right, proc[p].fds, proc[p].p)
  BY <1>1, <1>2, SidesForked
<1>4. CASE ForkLeft(p)
  <2>1. Fork1(p, "right", "leftends", Node(p).left)
    BY <1>4 DEF ForkLeft
  <2>2. Fine([proc[p] EXCEPT !.pc = "right"], lines)
    BY <1>2, MovesInTree, Zenon
  <2>3. Fine(Copied(proc[p], "leftends", Node(p).left, p), lines)
    BY <1>2, <1>3, ChildFine
  <2> QED
    BY <2>1, <2>2, <2>3, ForkKeeps
<1>5. CASE ForkRight(p)
  <2>1. Fork1(p, "close", "rightends", Node(p).right)
    BY <1>5 DEF ForkRight
  <2>2. Fine([proc[p] EXCEPT !.pc = "close"], lines)
    BY <1>2, MovesElsewhere, Zenon DEF Elsewhere
  <2>3. Fine(Copied(proc[p], "rightends", Node(p).right, p), lines)
    BY <1>2, <1>3, ChildFine
  <2> QED
    BY <2>1, <2>2, <2>3, ForkKeeps
<1> QED
  BY <1>4, <1>5

LEMMA EndsKeep ==
  ASSUME ShellInv, NEW p \in Procs, PipeEnds(p)
  PROVE  ShellInv'
<1>1. Fine(proc[p], lines) /\ IsProc(proc[p])
  BY DEF ShellInv, Fine
<1>2. ASSUME NEW next, NEW fds, UNCHANGED lines,
             proc' = [proc EXCEPT ![p] = Switched(proc[p], fds, next, <<>>)],
             \/ next \in Elsewhere
             \/ next = "run" /\ Ready(lines, proc[p].line, proc[p].cmd, fds)
      PROVE  ShellInv'
  <2> DEFINE r == Switched(proc[p], fds, next, <<>>)
  <2>1. r = Process(next, proc[p].cmd, proc[p].line, fds, <<>>, proc[p].parent)
    BY <1>1, AssignFdsPcP
  <2>2. proc' = [proc EXCEPT ![p] = r]
    BY <1>2
  <2> HIDE DEF r
  <2>3. IsProc(r) /\ r.pc = next /\ r.cmd = proc[p].cmd /\ r.line = proc[p].line /\ r.fds = fds
    BY <2>1, ProcessFields
  <2>4. Fine(r, lines)
    BY <1>2, <2>3 DEF Fine, Elsewhere
  <2> QED
    BY <1>2, <2>2, <2>4, OneGoesOn, Zenon
<1>3. CASE Ends(p, "leftends", "run", LeftEnds)
  <2>1. LeftSide(lines, proc[p].line, proc[p].cmd, proc[p].fds, proc[p].p)
    BY <1>1, <1>3 DEF Fine, Ends, At
  <2>2. Ready(lines, proc[p].line, proc[p].cmd, LeftEnds(proc[p].fds, proc[p].p))
    BY <2>1, SidesReady
  <2>3. proc' = [proc EXCEPT ![p] = Switched(proc[p], LeftEnds(proc[p].fds, proc[p].p), "run", <<>>)]
    BY <1>3 DEF Ends, Switched
  <2> QED
    BY <1>2, <1>3, <2>2, <2>3, Zenon DEF Ends
<1>4. CASE Ends(p, "rightends", "run", RightEnds)
  <2>1. RightSide(lines, proc[p].line, proc[p].cmd, proc[p].fds, proc[p].p)
    BY <1>1, <1>4 DEF Fine, Ends, At
  <2>2. Ready(lines, proc[p].line, proc[p].cmd, RightEnds(proc[p].fds, proc[p].p))
    BY <2>1, SidesReady
  <2>3. proc' = [proc EXCEPT ![p] = Switched(proc[p], RightEnds(proc[p].fds, proc[p].p), "run", <<>>)]
    BY <1>4 DEF Ends, Switched
  <2> QED
    BY <1>2, <1>4, <2>2, <2>3, Zenon DEF Ends
<1>5. CASE Ends(p, "close", "wait1", ParentEnds)
  <2>1. proc' = [proc EXCEPT ![p] = Switched(proc[p], ParentEnds(proc[p].fds, proc[p].p), "wait1", <<>>)]
    BY <1>5 DEF Ends, Switched
  <2>2. "wait1" \in Elsewhere
    BY DEF Elsewhere
  <2> QED
    BY <1>2, <1>5, <2>1, <2>2, Zenon DEF Ends
<1> QED
  BY <1>3, <1>4, <1>5 DEF PipeEnds

LEMMA PipeWaitKeeps ==
  ASSUME ShellInv, NEW p \in Procs, PipeWait(p)
  PROVE  ShellInv'
<1>1. IsProc(proc[p]) /\ {"wait2", "exit"} \subseteq Elsewhere
  BY DEF ShellInv, Fine, Elsewhere
<1>2. \/ \E c : Wait(p, c, [proc[p] EXCEPT !.pc = "wait2"])
      \/ \E c : Wait(p, c, [proc[p] EXCEPT !.pc = "exit"])
  BY Zenon DEF PipeWait
<1>3. Fine([proc[p] EXCEPT !.pc = "wait2"], lines) /\ Fine([proc[p] EXCEPT !.pc = "exit"], lines)
  BY <1>1, MovesElsewhere
<1> QED
  BY <1>2, <1>3, WaitKeeps

LEMMA BackKeeps ==
  ASSUME ShellInv, NEW p \in Procs, RunBack(p)
  PROVE  ShellInv'
<1>1. Running(p, "BACK") /\ Fork1(p, "exit", "run", Node(p).cmd) /\ lines \in Seq(TypedLines)
  BY DEF RunBack, ShellInv
<1>2. Ready(lines, proc[p].line, Node(p).cmd, proc[p].fds)
  BY <1>1, Runs, BackReady
<1>3. Fine([proc[p] EXCEPT !.pc = "exit"], lines)
  BY <1>1, Runs, MovesElsewhere, Zenon DEF Elsewhere
<1>4. Fine(Copied(proc[p], "run", Node(p).cmd, p), lines)
  BY <1>1, <1>2, Runs, ChildFine, Zenon
<1> QED
  BY <1>1, <1>3, <1>4, ForkKeeps

(* --- All the steps of the shell ---------------------------------------------- *)

LEMMA ShellInitInv ==
  ASSUME ShellInit
  PROVE  ShellInv
<1> DEFINE first == [Unused EXCEPT !.pc = "init", !.fds = Std]
<1>1. ASSUME NEW u, IsProc(u) PROVE [u EXCEPT !.pc = "init", !.fds = Std] = Process("init", u.cmd, u.line, Std, u.p, u.parent)
  BY ONLY <1>1, AssignPcFds, Zenon
<1>2. IsProc(Unused) /\ Unused.pc = "unused"
  BY DEF Unused, IsProc
<1>3. first = Process("init", Unused.cmd, Unused.line, Std, Unused.p, Unused.parent)
  BY <1>1, <1>2, Zenon
<1>4. proc = [q \in Procs |-> IF q = 1 THEN first ELSE Unused]
  BY DEF ShellInit
<1> HIDE DEF first
<1>5. IsProc(first) /\ first.pc = "init"
  BY <1>3, ProcessFields
<1>6. Fine(first, lines) /\ Fine(Unused, lines)
  BY <1>2, <1>5, FineAnywhere DEF Elsewhere
<1>7. lines \in Seq(TypedLines)
  BY DEF ShellInit
<1> QED
  BY <1>4, <1>6, <1>7 DEF ShellInv

LEMMA ShellStep ==
  ASSUME ShellInv, [ShellNext]_shellVars
  PROVE  ShellInv'
<1>0. "exit" \in Elsewhere
  BY DEF Elsewhere
<1>1. CASE UNCHANGED shellVars
  BY <1>1 DEF shellVars, ShellInv
<1>2. CASE InitFork
  BY <1>2, InitForkKeeps
<1>3. CASE InitWait
  BY <1>3, InitWaitKeeps
<1>4. ASSUME NEW p \in Procs, Type(p) \/ Cd(p) \/ Eof(p) \/ Step(p) \/ Ended(p) PROVE ShellInv'
  <2>1. CASE Type(p) \/ Cd(p)
    BY <2>1, ReadsWhat, ReadsKeeps
  <2>2. CASE Eof(p)
    BY <1>0, <2>2, GoesElsewhere, Zenon DEF Eof
  <2>3. CASE Ended(p)
    BY <1>0, <2>3, GoesElsewhere, Zenon DEF Ended
  <2>4. CASE ShFork(p)
    BY <2>4, ShForkKeeps
  <2>5. CASE ShWait(p)
    BY <2>5, ShWaitKeeps
  <2>6. CASE Exit(p)
    BY <2>6, ExitKeeps
  <2>7. CASE RunCmd(p)
    BY <2>7, ExecKeeps, RedirKeeps, ListKeeps, ListWaitKeeps, PipeKeeps, ForkSidesKeeps, EndsKeep, PipeWaitKeeps,
       BackKeeps DEF RunCmd
  <2>8. Step(p) => ShFork(p) \/ ShWait(p) \/ RunCmd(p) \/ Exit(p) \/ Ended(p)
    BY Zenon DEF Step, EndProg
  <2> QED
    BY <1>4, <2>1, <2>2, <2>3, <2>4, <2>5, <2>6, <2>7, <2>8
<1> QED
  BY <1>1, <1>2, <1>3, <1>4 DEF ShellNext

LEMMA ShellInvWired ==
  ASSUME ShellInv
  PROVE  Wired
<1> SUFFICES ASSUME NEW p \in Programs
             PROVE  /\ [at |-> Node(p).at, in |-> proc[p].fds[0], out |-> proc[p].fds[1]] \in Commands(Tree(proc[p].line))
                    /\ proc[p].fds[2] = Console
                    /\ \A fd \in 3..NFd-1 : proc[p].fds[fd] = None
  BY DEF Wired
<1>1. Fine(proc[p], lines) /\ proc[p].pc = "prog" /\ lines \in Seq(TypedLines)
  BY DEF ShellInv, Programs, At
<1> DEFINE tree == Tree(proc[p].line)
           k == proc[p].cmd
<1>2. /\ proc[p].line \in DOMAIN lines /\ k \in DOMAIN tree /\ tree[k].type = "EXEC" /\ Node(p) = tree[k]
      /\ \E in, out : proc[p].fds = Fds(in, out) /\ Due(tree, k, in, out)
  BY <1>1 DEF Fine, Ready, Node, Tree
<1>3. Built(tree)
  BY <1>1, <1>2, TreesBuilt DEF Tree
<1> HIDE DEF tree, k
<1>4. PICK in, out : proc[p].fds = Fds(in, out) /\ Due(tree, k, in, out)
  BY <1>2
<1>5. [at |-> tree[k].at, in |-> in, out |-> out] \in Commands(tree)
  BY <1>2, <1>3, <1>4, DueExec
<1>6. /\ proc[p].fds[0] = in /\ proc[p].fds[1] = out /\ proc[p].fds[2] = Console
      /\ \A fd \in 0..NFd-1 : fd > 2 => proc[p].fds[fd] = None
  BY <1>4, FdsAt
<1>7. \A fd \in 3..NFd-1 : proc[p].fds[fd] = None
  BY <1>6, Files
<1>8. [at |-> Node(p).at, in |-> proc[p].fds[0], out |-> proc[p].fds[1]] \in Commands(tree)
  BY <1>2, <1>5, <1>6, Zenon
<1> QED
  BY <1>6, <1>7, <1>8 DEF tree

\* Whatever the line, its tree and the order in which its processes run, and
\* whichever calls fail, runcmd's closes and dups leave a program with the input
\* and the output that the line gives it and with no end of any other pipe.
THEOREM ProgramsWired == ShellSpec => []Wired
<1>1. ShellInit => ShellInv
  BY ShellInitInv
<1>2. ShellInv /\ [ShellNext]_shellVars => ShellInv'
  BY ShellStep
<1>3. ShellInv => Wired
  BY ShellInvWired
<1> QED
  BY <1>1, <1>2, <1>3, PTL DEF ShellSpec

(* --- The order of a line's commands: its tree ------------------------------ *)

\* What k leads to along the edges of E: the least set that has k and is closed.
Reach(E, k) == {j \in DOMAIN E : /\ k \in DOMAIN E
                                 /\ \A S \in SUBSET DOMAIN E : k \in S /\ (\A i \in S : E[i] \subseteq S) => j \in S}
IsGraph(E) == \A i \in DOMAIN E : E[i] \subseteq DOMAIN E

LEMMA ReachLeast ==
  ASSUME NEW E, NEW k, NEW S \in SUBSET DOMAIN E, k \in S, \A i \in S : E[i] \subseteq S
  PROVE  Reach(E, k) \subseteq S
BY DEF Reach

LEMMA ReachSelf ==
  ASSUME NEW E, NEW k \in DOMAIN E
  PROVE  k \in Reach(E, k)
BY DEF Reach

LEMMA ReachStep ==
  ASSUME NEW E, IsGraph(E), NEW k, NEW j \in Reach(E, k)
  PROVE  j \in DOMAIN E /\ k \in DOMAIN E /\ E[j] \subseteq Reach(E, k)
BY DEF Reach, IsGraph

LEMMA ReachOn ==
  ASSUME NEW E, IsGraph(E), NEW k, NEW j \in Reach(E, k)
  PROVE  Reach(E, j) \subseteq Reach(E, k)
<1>1. Reach(E, k) \in SUBSET DOMAIN E
  BY DEF Reach
<1>2. \A i \in Reach(E, k) : E[i] \subseteq Reach(E, k)
  BY ReachStep
<1> QED
  BY <1>1, <1>2, ReachLeast

\* All but k is reached from something that is.
LEMMA ReachLast ==
  ASSUME NEW E, IsGraph(E), NEW k, NEW j \in Reach(E, k), j # k
  PROVE  \E i \in Reach(E, k) : j \in E[i]
<1> DEFINE S == {h \in Reach(E, k) : h = k \/ \E i \in Reach(E, k) : h \in E[i]}
<1>1. S \in SUBSET DOMAIN E
  BY DEF Reach
<1>2. k \in S
  BY ReachStep, ReachSelf
<1>3. \A i \in S : E[i] \subseteq S
  BY ReachStep
<1> HIDE DEF S
<1>4. j \in S
  BY <1>1, <1>2, <1>3, ReachLeast
<1> QED
  BY <1>4 DEF S

\* All but k is reached through what k leads to at once.
LEMMA ReachFirst ==
  ASSUME NEW E, IsGraph(E), NEW k, NEW j \in Reach(E, k), j # k
  PROVE  \E i \in E[k] : j \in Reach(E, i)
<1> DEFINE S == {h \in DOMAIN E : h = k \/ \E i \in E[k] : h \in Reach(E, i)}
<1>1. k \in DOMAIN E /\ k \in S
  BY ReachStep
<1>2. ASSUME NEW h \in S, NEW g \in E[h] PROVE g \in S
  <2>1. g \in DOMAIN E
    BY <1>2 DEF IsGraph
  <2>2. CASE h = k
    <3>1. g \in Reach(E, g)
      BY <2>1, ReachSelf
    <3> QED
      BY <1>2, <2>1, <2>2, <3>1
  <2>3. CASE h # k
    <3>1. PICK i \in E[k] : h \in Reach(E, i)
      BY <1>2, <2>3
    <3>2. g \in Reach(E, i)
      BY <1>2, <3>1, ReachStep
    <3> QED
      BY <2>1, <3>2
  <2> QED
    BY <2>2, <2>3
<1>3. S \in SUBSET DOMAIN E /\ \A i \in S : E[i] \subseteq S
  BY <1>2
<1> HIDE DEF S
<1>4. j \in S
  BY <1>1, <1>3, ReachLeast
<1> QED
  BY <1>4 DEF S

LEMMA ReachWithin ==
  ASSUME NEW E, NEW D, DOMAIN D = DOMAIN E, IsGraph(E), \A i \in DOMAIN E : D[i] \subseteq E[i], NEW k
  PROVE  Reach(D, k) \subseteq Reach(E, k)
<1>1. CASE k \notin DOMAIN E
  BY <1>1 DEF Reach
<1>2. CASE k \in DOMAIN E
  <2>1. k \in Reach(E, k) /\ Reach(E, k) \in SUBSET DOMAIN D
    BY <1>2, ReachSelf DEF Reach
  <2>2. \A i \in Reach(E, k) : D[i] \subseteq Reach(E, k)
    BY ReachStep
  <2> QED
    BY <2>1, <2>2, ReachLeast
<1> QED
  BY <1>1, <1>2

\* The nodes under one, those that its process goes on to itself, and those that
\* are waited for.
Holding(tree) == [i \in DOMAIN tree |-> Inside(tree[i])]
Onward(node) == CASE node.type = "REDIR" -> {node.cmd} [] node.type = "LIST" -> {node.right} [] OTHER -> {}
Going(tree) == [i \in DOMAIN tree |-> Onward(tree[i])]
Waiting(tree) == [i \in DOMAIN tree |-> IF tree[i].type = "BACK" THEN {} ELSE Inside(tree[i])]

Under(tree, k) == Reach(Holding(tree), k)
Onto(tree, k)  == Reach(Going(tree), k)
Fore(tree, k)  == Reach(Waiting(tree), k)

LEMMA TreeIs ==
  ASSUME NEW tree, Built(tree)
  PROVE  /\ Len(tree) \in Nat /\ DOMAIN tree = 1..Len(tree)
         /\ DOMAIN Holding(tree) = DOMAIN tree /\ DOMAIN Going(tree) = DOMAIN tree /\ DOMAIN Waiting(tree) = DOMAIN tree
         /\ IsGraph(Holding(tree)) /\ IsGraph(Going(tree)) /\ IsGraph(Waiting(tree))
         /\ \A k \in DOMAIN tree : Inside(tree[k]) \subseteq 1..k-1
         /\ \A k \in DOMAIN tree : Onward(tree[k]) \subseteq Inside(tree[k])
         /\ \A k, j \in DOMAIN tree : k # j => Inside(tree[k]) \intersect Inside(tree[j]) = {}
<1>1. Len(tree) \in Nat /\ DOMAIN tree = 1..Len(tree)
  BY DEF Built
<1>2. /\ \A k \in DOMAIN tree : Inside(tree[k]) \subseteq 1..k-1
      /\ \A k, j \in DOMAIN tree : k # j => Inside(tree[k]) \intersect Inside(tree[j]) = {}
      /\ \A k \in DOMAIN tree : tree[k].type \in {"EXEC", "REDIR", "LIST", "PIPE", "BACK"}
  BY DEF Built, IsTree
<1>3. \A k \in DOMAIN tree : Onward(tree[k]) \subseteq Inside(tree[k])
  BY <1>2 DEF Onward, Inside
<1>4. \A k \in DOMAIN tree : Inside(tree[k]) \subseteq DOMAIN tree
  BY <1>1, <1>2
<1>5. DOMAIN Holding(tree) = DOMAIN tree /\ DOMAIN Going(tree) = DOMAIN tree /\ DOMAIN Waiting(tree) = DOMAIN tree
  BY DEF Holding, Going, Waiting
<1>6. IsGraph(Holding(tree))
  BY <1>4 DEF IsGraph, Holding
<1>7. IsGraph(Going(tree))
  BY <1>3, <1>4 DEF IsGraph, Going
<1>8. IsGraph(Waiting(tree))
  BY <1>4 DEF IsGraph, Waiting
<1> QED
  BY <1>1, <1>2, <1>3, <1>5, <1>6, <1>7, <1>8

LEMMA UnderIs ==
  ASSUME NEW tree, Built(tree), NEW k
  PROVE  /\ k \in DOMAIN tree => k \in Under(tree, k)
         /\ k \notin DOMAIN tree => Under(tree, k) = {}
         /\ \A j \in Under(tree, k) : /\ j \in DOMAIN tree /\ k \in DOMAIN tree /\ j <= k
                                      /\ Inside(tree[j]) \subseteq Under(tree, k)
                                      /\ Under(tree, j) \subseteq Under(tree, k)
         /\ \A j \in Under(tree, k) : j = k \/ \E i \in Under(tree, k) : j \in Inside(tree[i])
         /\ \A j \in Under(tree, k) : j = k \/ \E i \in Inside(tree[k]) : j \in Under(tree, i)
<1> DEFINE E == Holding(tree)
<1>1. IsGraph(E) /\ DOMAIN E = DOMAIN tree /\ \A i \in DOMAIN tree : E[i] = Inside(tree[i])
  BY TreeIs DEF Holding
<1> HIDE DEF E
<1>2. k \in DOMAIN tree => k \in Reach(E, k)
  BY <1>1, ReachSelf
<1>3. k \notin DOMAIN tree => Reach(E, k) = {}
  BY <1>1 DEF Reach
<1>4. ASSUME NEW j \in Reach(E, k)
      PROVE  /\ j \in DOMAIN tree /\ k \in DOMAIN tree /\ Inside(tree[j]) \subseteq Reach(E, k) /\ Reach(E, j) \subseteq Reach(E, k)
             /\ j = k \/ \E i \in Reach(E, k) : j \in Inside(tree[i])
             /\ j = k \/ \E i \in Inside(tree[k]) : j \in Reach(E, i)
  <2>1. j \in DOMAIN tree /\ k \in DOMAIN tree /\ E[j] \subseteq Reach(E, k)
    BY <1>1, ReachStep
  <2>2. Reach(E, j) \subseteq Reach(E, k)
    BY <1>1, ReachOn
  <2>3. \A i \in Reach(E, k) : i \in DOMAIN tree
    BY <1>1 DEF Reach
  <2>4. j # k => \E i \in Reach(E, k) : j \in E[i]
    BY <1>1, ReachLast
  <2>5. j # k => \E i \in E[k] : j \in Reach(E, i)
    BY <1>1, ReachFirst
  <2> QED
    BY <1>1, <2>1, <2>2, <2>3, <2>4, <2>5
<1>5. ASSUME NEW j \in Reach(E, k) PROVE j <= k
  <2>1. k \in 1..Len(tree) /\ Len(tree) \in Nat /\ DOMAIN tree = 1..Len(tree)
    BY <1>4, TreeIs
  <2>2. 1..k \in SUBSET DOMAIN E /\ k \in 1..k
    BY <1>1, <2>1
  <2>3. \A i \in 1..k : E[i] \subseteq 1..k
    BY <1>1, <2>1, TreeIs
  <2>4. Reach(E, k) \subseteq 1..k
    BY <2>2, <2>3, ReachLeast
  <2> QED
    BY <2>1, <2>4
<1> QED
  BY <1>2, <1>3, <1>4, <1>5 DEF Under, E

\* What is under the two sides of a node has nothing in common.
LEMMA SidesApart ==
  ASSUME NEW tree, Built(tree), NEW k \in DOMAIN tree, NEW l \in Inside(tree[k]), NEW m \in Inside(tree[k]), l # m
  PROVE  Under(tree, l) \intersect Under(tree, m) = {}
<1>0. /\ l \in DOMAIN tree /\ m \in DOMAIN tree /\ k \in Nat /\ l \in Nat /\ m \in Nat /\ l < k /\ m < k
      /\ DOMAIN tree \subseteq Nat
  BY TreeIs
<1> DEFINE E == Holding(tree)
           S == {j \in Under(tree, l) : j \notin Under(tree, m)}
<1>1. DOMAIN E = DOMAIN tree /\ \A i \in DOMAIN tree : E[i] = Inside(tree[i])
  BY TreeIs DEF Holding
<1>2. \A i \in DOMAIN tree : \A j \in Inside(tree[i]) : \A h \in DOMAIN tree : j \in Inside(tree[h]) => h = i
  BY TreeIs
<1>3. l \notin Under(tree, m)
  <2> SUFFICES ASSUME l \in Under(tree, m) PROVE FALSE
    OBVIOUS
  <2>1. PICK i \in Under(tree, m) : l \in Inside(tree[i])
    BY UnderIs
  <2>2. i \in DOMAIN tree /\ i <= m
    BY <2>1, UnderIs
  <2>3. i = k
    BY <1>2, <2>1, <2>2
  <2> QED
    BY <1>0, <2>2, <2>3
<1>4. ASSUME NEW j \in S, NEW i \in Inside(tree[j]) PROVE i \in S
  <2>1. j \in DOMAIN tree /\ j <= l /\ i \in Under(tree, l)
    BY <1>4, UnderIs
  <2>2. ASSUME i \in Under(tree, m) PROVE FALSE
    <3>1. CASE i = m
      <4>1. j = k
        BY <1>2, <1>4, <2>1, <3>1
      <4> QED
        BY <1>0, <2>1, <4>1
    <3>2. CASE i # m
      <4>1. PICK h \in Under(tree, m) : i \in Inside(tree[h])
        BY <2>2, <3>2, UnderIs
      <4>2. h \in DOMAIN tree
        BY <4>1, UnderIs
      <4>3. h = j
        BY <1>2, <1>4, <2>1, <4>1, <4>2
      <4> QED
        BY <1>4, <4>1, <4>3
    <3> QED
      BY <3>1, <3>2
  <2> QED
    BY <2>1, <2>2
<1>5. S \in SUBSET DOMAIN E
  BY <1>0, <1>1, UnderIs
<1>6. l \in S
  BY <1>0, <1>3, UnderIs
<1>7. \A j \in S : E[j] \subseteq S
  BY <1>1, <1>4, <1>5
<1> HIDE DEF S, E
<1>8. Reach(E, l) \subseteq S
  BY <1>5, <1>6, <1>7, ReachLeast
<1> QED
  BY <1>8 DEF S, E, Under

LEMMA OntoIs ==
  ASSUME NEW tree, Built(tree), NEW c \in DOMAIN tree
  PROVE  c \in Onto(tree, c) /\ Onto(tree, c) \subseteq Under(tree, c)
<1>1. c \in Onto(tree, c)
  BY TreeIs, ReachSelf DEF Onto
<1>2. \A i \in DOMAIN tree : Going(tree)[i] \subseteq Holding(tree)[i]
  BY TreeIs DEF Going, Holding
<1>3. Onto(tree, c) \subseteq Under(tree, c)
  BY <1>2, TreeIs, ReachWithin DEF Onto, Under
<1> QED
  BY <1>1, <1>3

\* A process gets under d by starting there, if no process goes on to d.
LEMMA OntoInto ==
  ASSUME NEW tree, Built(tree), NEW d \in DOMAIN tree, \A i \in DOMAIN tree : d \notin Onward(tree[i]),
         NEW c \in DOMAIN tree, Onto(tree, c) \intersect Under(tree, d) # {}
  PROVE  c \in Under(tree, d)
<1> SUFFICES ASSUME c \notin Under(tree, d) PROVE FALSE
  OBVIOUS
<1> DEFINE E == Going(tree)
           S == {j \in DOMAIN tree : j \notin Under(tree, d)}
<1>1. DOMAIN E = DOMAIN tree /\ \A i \in DOMAIN tree : E[i] = Onward(tree[i])
  BY TreeIs DEF Going
<1>2. ASSUME NEW j \in S, NEW i \in Onward(tree[j]) PROVE i \in S
  <2>1. i \in Inside(tree[j]) /\ i \in DOMAIN tree /\ i # d
    BY <1>2, TreeIs
  <2>2. ASSUME i \in Under(tree, d) PROVE FALSE
    <3>1. PICK h \in Under(tree, d) : i \in Inside(tree[h])
      BY <2>1, <2>2, UnderIs
    <3>2. h \in DOMAIN tree
      BY <3>1, UnderIs
    <3>3. h = j
      BY <1>2, <2>1, <3>1, <3>2, TreeIs
    <3> QED
      BY <1>2, <3>1, <3>3
  <2> QED
    BY <2>1, <2>2
<1>3. S \in SUBSET DOMAIN E /\ c \in S /\ \A j \in S : E[j] \subseteq S
  BY <1>1, <1>2
<1> HIDE DEF S, E
<1>4. Reach(E, c) \subseteq S
  BY <1>3, ReachLeast
<1> QED
  BY <1>4 DEF S, E, Onto

\* A process that has k waits for the child that starts at c; the shell has the
\* place above the root.
Link(tree, k, c) ==
  \/ k \in DOMAIN tree /\ tree[k].type = "LIST" /\ c = tree[k].left
  \/ k \in DOMAIN tree /\ tree[k].type = "PIPE" /\ c \in {tree[k].left, tree[k].right}
  \/ k = Len(tree) + 1 /\ c = Len(tree) /\ c \in DOMAIN tree

\* Nobody goes on to c, and only k leads to it.
LEMMA LinkIs ==
  ASSUME NEW tree, Built(tree), NEW k, NEW c, Link(tree, k, c)
  PROVE  /\ c \in DOMAIN tree /\ k \in Nat /\ c < k
         /\ k \in DOMAIN tree => c \in Inside(tree[k])
         /\ \A i \in DOMAIN tree : c \in Inside(tree[i]) => i = k
         /\ \A i \in DOMAIN tree : c \notin Onward(tree[i])
<1>1. CASE k = Len(tree) + 1 /\ c = Len(tree) /\ c \in DOMAIN tree
  <2>1. \A i \in DOMAIN tree : c \notin Inside(tree[i])
    BY <1>1, TreeIs
  <2> QED
    BY <1>1, <2>1, TreeIs
<1>2. CASE /\ k \in DOMAIN tree
           /\ \/ tree[k].type = "LIST" /\ c = tree[k].left
              \/ tree[k].type = "PIPE" /\ c \in {tree[k].left, tree[k].right}
  <2>1. c \in Inside(tree[k])
    BY <1>2 DEF Inside
  <2>2. tree[k].type \in {"LIST", "PIPE"} => tree[k].left # tree[k].right
    BY <1>2 DEF Built, IsTree
  <2>3. c \notin Onward(tree[k])
    BY <1>2, <2>2 DEF Onward
  <2>4. \A i \in DOMAIN tree : c \in Inside(tree[i]) => i = k
    BY <1>2, <2>1, TreeIs
  <2>5. \A i \in DOMAIN tree : c \notin Onward(tree[i])
    BY <2>3, <2>4, TreeIs
  <2> QED
    BY <1>2, <2>1, <2>4, <2>5, TreeIs
<1> QED
  BY <1>1, <1>2 DEF Link

\* Where a child that starts at d may be waited for.
LEMMA LinkInto ==
  ASSUME NEW tree, Built(tree), NEW d \in DOMAIN tree, \A i \in DOMAIN tree : d \notin Onward(tree[i]),
         NEW k, NEW c, Link(tree, k, c), Under(tree, d) \intersect Onto(tree, c) # {}, c # d
  PROVE  k \in Under(tree, d)
<1>1. c \in Under(tree, d)
  BY OntoInto, LinkIs
<1>2. PICK i \in Under(tree, d) : c \in Inside(tree[i])
  BY <1>1, UnderIs
<1>3. i \in DOMAIN tree
  BY <1>2, UnderIs
<1> QED
  BY <1>2, <1>3, LinkIs

\* When a process keeps S of its nodes A and gives its child those under d, both
\* keep what they are waited for.
Parts(tree, A, S, B) ==
  /\ S \subseteq A /\ B \subseteq A /\ S \intersect B = {}
  /\ \A k, c : Link(tree, k, c) /\ k \in A /\ k \notin S => S \intersect Onto(tree, c) = {} /\ Onto(tree, c) \subseteq A
  /\ \A k, c : Link(tree, k, c) /\ B \intersect Onto(tree, c) # {} => k \in B \union S

LEMMA PartsUnder ==
  ASSUME NEW tree, Built(tree), NEW d \in DOMAIN tree, \A i \in DOMAIN tree : d \notin Onward(tree[i]),
         NEW A, NEW S, S \subseteq A, Under(tree, d) \subseteq A, S \intersect Under(tree, d) = {},
         \A k \in A : k \in S \/ k \in Under(tree, d) \/ \A c : ~Link(tree, k, c),
         \A k : Link(tree, k, d) => k \in S
  PROVE  Parts(tree, A, S, Under(tree, d))
<1> DEFINE B == Under(tree, d)
<1>1. ASSUME NEW k, NEW c, Link(tree, k, c), k \in A, k \notin S
      PROVE  S \intersect Onto(tree, c) = {} /\ Onto(tree, c) \subseteq A
  <2>1. k \in B
    BY <1>1
  <2>2. k \in DOMAIN tree /\ Inside(tree[k]) \subseteq B
    BY <2>1, UnderIs
  <2>3. c \in B /\ c \in DOMAIN tree
    BY <1>1, <2>2, LinkIs
  <2>4. Onto(tree, c) \subseteq Under(tree, c) /\ Under(tree, c) \subseteq B
    BY <2>3, OntoIs, UnderIs
  <2> QED
    BY <2>4
<1>2. ASSUME NEW k, NEW c, Link(tree, k, c), B \intersect Onto(tree, c) # {}
      PROVE  k \in B \union S
  BY <1>2, LinkInto
<1> HIDE DEF B
<1>3. Parts(tree, A, S, B)
  BY <1>1, <1>2 DEF Parts, B
<1> QED
  BY <1>3 DEF B

\* A list waits for its left side, and goes on to the right.
LEMMA ListParts ==
  ASSUME NEW tree, Built(tree), NEW k \in DOMAIN tree, tree[k].type = "LIST"
  PROVE  /\ Parts(tree, Under(tree, k), {k} \union Under(tree, tree[k].right), Under(tree, tree[k].left))
         /\ \A j, c : Link(tree, j, c) /\ j \in {k} \union Under(tree, tree[k].right) /\ j \notin Under(tree, tree[k].right) =>
              Under(tree, tree[k].right) \intersect Onto(tree, c) = {}
<1> DEFINE l == tree[k].left
           m == tree[k].right
           S == {k} \union Under(tree, m)
<1>1. l \in Inside(tree[k]) /\ m \in Inside(tree[k]) /\ l # m /\ Inside(tree[k]) = {l, m}
  BY DEF Inside, Built, IsTree
<1>2. Link(tree, k, l)
  BY DEF Link
<1> HIDE DEF l, m
<1>3. l \in DOMAIN tree /\ m \in DOMAIN tree /\ k \in Nat /\ l < k /\ m < k
  <2>1. DOMAIN tree \subseteq Nat /\ Inside(tree[k]) \subseteq 1..k-1 /\ DOMAIN tree = 1..Len(tree) /\ Len(tree) \in Nat
    BY TreeIs
  <2> QED
    BY <1>1, <2>1
<1>4. Under(tree, l) \intersect Under(tree, m) = {}
  BY <1>1, SidesApart
<1>5. k \notin Under(tree, l) /\ k \notin Under(tree, m) /\ l \in Nat /\ m \in Nat
  BY <1>3, UnderIs, TreeIs
<1>6. Under(tree, l) \subseteq Under(tree, k) /\ Under(tree, m) \subseteq Under(tree, k) /\ k \in Under(tree, k)
  BY <1>1, UnderIs
<1>7. \A j \in Under(tree, k) : j \in S \/ j \in Under(tree, l)
  BY <1>1, UnderIs
<1>8. \A j : Link(tree, j, l) => j = k
  BY <1>1, LinkIs
<1>9. \A i \in DOMAIN tree : l \notin Onward(tree[i])
  BY <1>2, LinkIs
<1>10. Parts(tree, Under(tree, k), S, Under(tree, l))
  BY <1>3, <1>4, <1>5, <1>6, <1>7, <1>8, <1>9, PartsUnder
<1>11. ASSUME NEW j, NEW c, Link(tree, j, c), j = k PROVE Under(tree, m) \intersect Onto(tree, c) = {}
  <2>1. c = l
    BY <1>11, TreeIs DEF Link, l
  <2> QED
    BY <1>3, <1>4, <2>1, OntoIs
<1> QED
  BY <1>10, <1>11 DEF l, m

\* A pipe forks its left side, then its right.
LEMMA PipeParts ==
  ASSUME NEW tree, Built(tree), NEW k \in DOMAIN tree, tree[k].type = "PIPE"
  PROVE  /\ Parts(tree, Under(tree, k), {k} \union Under(tree, tree[k].right), Under(tree, tree[k].left))
         /\ Parts(tree, {k} \union Under(tree, tree[k].right), {k}, Under(tree, tree[k].right))
<1> DEFINE l == tree[k].left
           m == tree[k].right
           S == {k} \union Under(tree, m)
<1>1. l \in Inside(tree[k]) /\ m \in Inside(tree[k]) /\ l # m /\ Inside(tree[k]) = {l, m}
  BY DEF Inside, Built, IsTree
<1>2. Link(tree, k, l) /\ Link(tree, k, m)
  BY DEF Link
<1> HIDE DEF l, m
<1>3. l \in DOMAIN tree /\ m \in DOMAIN tree /\ k \in Nat /\ l < k /\ m < k
  <2>1. DOMAIN tree \subseteq Nat /\ Inside(tree[k]) \subseteq 1..k-1 /\ DOMAIN tree = 1..Len(tree) /\ Len(tree) \in Nat
    BY TreeIs
  <2> QED
    BY <1>1, <2>1
<1>4. Under(tree, l) \intersect Under(tree, m) = {}
  BY <1>1, SidesApart
<1>5. k \notin Under(tree, l) /\ k \notin Under(tree, m) /\ l \in Nat /\ m \in Nat
  BY <1>3, UnderIs, TreeIs
<1>6. Under(tree, l) \subseteq Under(tree, k) /\ Under(tree, m) \subseteq Under(tree, k) /\ k \in Under(tree, k)
  BY <1>1, UnderIs
<1>7. \A j \in Under(tree, k) : j \in S \/ j \in Under(tree, l)
  BY <1>1, UnderIs
<1>8. \A j : Link(tree, j, l) \/ Link(tree, j, m) => j = k
  BY <1>1, LinkIs
<1>9. \A i \in DOMAIN tree : l \notin Onward(tree[i]) /\ m \notin Onward(tree[i])
  BY <1>2, LinkIs
<1>10. Parts(tree, Under(tree, k), S, Under(tree, l))
  BY <1>3, <1>4, <1>5, <1>6, <1>7, <1>8, <1>9, PartsUnder
<1>11. Parts(tree, S, {k}, Under(tree, m))
  BY <1>3, <1>5, <1>8, <1>9, PartsUnder
<1> QED
  BY <1>10, <1>11 DEF l, m

\* Nobody waits for what is in the background.
LEMMA BackParts ==
  ASSUME NEW tree, Built(tree), NEW k \in DOMAIN tree, tree[k].type = "BACK"
  PROVE  Parts(tree, Under(tree, k), {}, Under(tree, tree[k].cmd))
<1> DEFINE d == tree[k].cmd
<1>1. Inside(tree[k]) = {d}
  BY DEF Inside
<1>2. d \in DOMAIN tree /\ d \in Under(tree, k)
  BY <1>1, TreeIs, UnderIs
<1>3. \A c : ~Link(tree, k, c)
  BY TreeIs DEF Link
<1>4. \A j : ~Link(tree, j, d)
  BY <1>1, <1>3, LinkIs
<1>5. \A i \in DOMAIN tree : d \notin Onward(tree[i])
  <2>1. d \notin Onward(tree[k])
    BY DEF Onward
  <2>2. \A i \in DOMAIN tree : d \in Inside(tree[i]) => i = k
    BY <1>1, TreeIs
  <2> QED
    BY <2>1, <2>2, TreeIs
<1> HIDE DEF d
<1>6. Under(tree, d) \subseteq Under(tree, k)
  BY <1>2, UnderIs
<1>7. \A j \in Under(tree, k) : j \in {} \/ j \in Under(tree, d) \/ \A c : ~Link(tree, j, c)
  BY <1>1, <1>3, UnderIs
<1>8. Parts(tree, Under(tree, k), {}, Under(tree, d))
  BY <1>2, <1>4, <1>5, <1>6, <1>7, PartsUnder
<1> QED
  BY <1>8 DEF d

\* The shell waits for the root.
LEMMA RootParts ==
  ASSUME NEW tree, Built(tree), Len(tree) # 0
  PROVE  Parts(tree, {Len(tree) + 1} \union Under(tree, Len(tree)), {Len(tree) + 1}, Under(tree, Len(tree)))
<1> DEFINE d == Len(tree)
<1>1. d \in DOMAIN tree /\ d \in Nat
  BY TreeIs
<1>2. \A i \in DOMAIN tree : d \notin Inside(tree[i])
  BY TreeIs
<1>3. \A i \in DOMAIN tree : d \notin Onward(tree[i])
  BY <1>2, TreeIs
<1>4. \A k : Link(tree, k, d) => k = d + 1
  BY <1>2, LinkIs DEF Link
<1>5. d + 1 \notin Under(tree, d)
  BY <1>1, UnderIs, TreeIs
<1> QED
  BY <1>1, <1>3, <1>4, <1>5, PartsUnder

\* What is left when a redirection is done, and of a command.
LEMMA RedirParts ==
  ASSUME NEW tree, Built(tree), NEW k \in DOMAIN tree, tree[k].type = "REDIR"
  PROVE  /\ Under(tree, tree[k].cmd) \subseteq Under(tree, k)
         /\ \A j, c : Link(tree, j, c) /\ j \in Under(tree, k) => j \in Under(tree, tree[k].cmd)
<1>1. Inside(tree[k]) = {tree[k].cmd}
  BY DEF Inside
<1>2. \A c : ~Link(tree, k, c)
  BY TreeIs DEF Link
<1> QED
  BY <1>1, <1>2, UnderIs

LEMMA ExecParts ==
  ASSUME NEW tree, Built(tree), NEW k \in DOMAIN tree, tree[k].type = "EXEC"
  PROVE  Under(tree, k) = {k} /\ \A c : ~Link(tree, k, c)
<1>1. Inside(tree[k]) = {}
  BY DEF Inside
<1>2. \A c : ~Link(tree, k, c)
  BY TreeIs DEF Link
<1> QED
  BY <1>1, <1>2, UnderIs

(* --- The order of a line's commands: its processes ------------------------- *)

\* The nodes that a process at pc with cmd has begun or has yet to begin.
Zone(tree, to, cmd) ==
  CASE to = "typed" -> {Len(tree) + 1} \union Under(tree, Len(tree))
    [] to = "shwait" -> {Len(tree) + 1}
    [] to \in {"run", "leftends", "rightends", "left"} -> IF cmd = 0 THEN {} ELSE Under(tree, cmd)
    [] to \in {"prog", "close", "wait1", "wait2"} -> {cmd}
    [] to \in {"listwait", "right"} -> {cmd} \union Under(tree, tree[cmd].right)
    [] OTHER -> {}

Trees == [n \in DOMAIN lines |-> lines[n].tree]
Zones == [q \in Procs |-> Zone(Trees[proc[q].line], proc[q].pc, proc[q].cmd)]
LineOf == [q \in Procs |-> proc[q].line]
ParentOf == [q \in Procs |-> proc[q].parent]
PlaceOf == [q \in Procs |-> proc[q].pc]

\* No node is two processes' own: R are the zones, L the lines.
ZonesApart(R, L) == \A p, q \in Procs : p # q /\ L[p] = L[q] => R[p] \intersect R[q] = {}

\* While a process goes on from c, the one that has k waits for it, or has yet to start it.
Linked(R, L, P, T) ==
  \A r \in Procs : \A k, c :
    Link(T[L[r]], k, c) /\ R[r] \intersect Onto(T[L[r]], c) # {} =>
      \E p \in Procs : L[p] = L[r] /\ k \in R[p] /\ (p = r \/ P[r] = p)

LEMMA ApartKept ==
  ASSUME NEW R, NEW RR, NEW L, NEW LL, NEW x \in Procs, NEW m, ZonesApart(R, L),
         \A q \in Procs \ {m} : RR[q] \subseteq R[q] /\ (RR[q] = {} \/ LL[q] = L[q]),
         m \in Procs => /\ RR[m] \subseteq R[x] /\ RR[m] \intersect RR[x] = {} /\ m # x
                        /\ LL[m] = L[x]
  PROVE  ZonesApart(RR, LL)
<1> SUFFICES ASSUME NEW p \in Procs, NEW q \in Procs, p # q, LL[p] = LL[q], NEW k, k \in RR[p], k \in RR[q]
             PROVE  FALSE
  BY DEF ZonesApart
<1>1. CASE p # m /\ q # m
  BY <1>1 DEF ZonesApart
<1>2. CASE p = m
  <2>1. q # x /\ k \in R[x] /\ k \in R[q] /\ L[q] = L[x]
    BY <1>2
  <2> QED
    BY <2>1 DEF ZonesApart
<1>3. CASE q = m
  <2>1. p # x /\ k \in R[x] /\ k \in R[p] /\ L[p] = L[x]
    BY <1>3
  <2> QED
    BY <2>1 DEF ZonesApart
<1> QED
  BY <1>1, <1>2, <1>3

\* A step of x, which may have m for a new child, keeps what is waited for if x
\* keeps what its children are waited for, and the child is.
Keeps(R, RR, L, LL, P, PP, T, x, m) ==
  \A q \in Procs \ {m} : \A k, c :
    Link(T[L[x]], k, c) /\ k \in R[x] /\ RR[q] \intersect Onto(T[L[x]], c) # {} /\ L[q] = L[x] /\ (q = x \/ P[q] = x) =>
      k \in RR[x] /\ LL[x] = L[x] /\ (q = x \/ PP[q] = x)
Adds(R, RR, L, LL, P, PP, T, x, m) ==
  m \in Procs => /\ R[m] = {} /\ LL[m] = L[x] /\ LL[x] = L[x] /\ PP[m] = x
                 /\ \A k, c : Link(T[L[x]], k, c) /\ RR[m] \intersect Onto(T[L[x]], c) # {} => k \in RR[m] \union RR[x]

LEMMA LinkedKept ==
  ASSUME NEW R, NEW RR, NEW L, NEW LL, NEW P, NEW PP, NEW T, NEW x \in Procs, NEW m,
         Linked(R, L, P, T), Keeps(R, RR, L, LL, P, PP, T, x, m), Adds(R, RR, L, LL, P, PP, T, x, m),
         \A q \in Procs \ {m} : RR[q] \subseteq R[q],
         \A q \in Procs \ {m} : RR[q] = {} \/ (LL[q] = L[q] /\ (P[q] = x \/ PP[q] = P[q])),
         \A q \in Procs \ {x, m} : RR[q] = R[q]
  PROVE  Linked(RR, LL, PP, T)
<1> SUFFICES ASSUME NEW r \in Procs, NEW k, NEW c, Link(T[LL[r]], k, c), RR[r] \intersect Onto(T[LL[r]], c) # {}
             PROVE  \E p \in Procs : LL[p] = LL[r] /\ k \in RR[p] /\ (p = r \/ PP[r] = p)
  BY DEF Linked
<1>1. CASE r = m
  <2>1. LL[m] = L[x] /\ LL[x] = L[x] /\ PP[m] = x /\ k \in RR[m] \union RR[x]
    BY <1>1 DEF Adds
  <2> QED
    BY <1>1, <2>1
<1>2. CASE r # m
  <2>1. LL[r] = L[r] /\ (P[r] = x \/ PP[r] = P[r]) /\ R[r] \intersect Onto(T[L[r]], c) # {}
    BY <1>2
  <2>2. PICK p \in Procs : L[p] = L[r] /\ k \in R[p] /\ (p = r \/ P[r] = p)
    BY <2>1 DEF Linked
  <2>3. CASE p = x
    <3>1. k \in RR[x] /\ LL[x] = L[x] /\ (r = x \/ PP[r] = x)
      BY <1>2, <2>1, <2>2, <2>3 DEF Keeps
    <3> QED
      BY <2>1, <2>2, <2>3, <3>1
  <2>4. CASE p # x
    <3>1. p # m
      BY <2>2 DEF Adds
    <3>2. RR[p] = R[p] /\ LL[p] = L[p]
      BY <2>2, <2>4, <3>1
    <3> QED
      BY <2>1, <2>2, <2>4, <3>2
  <2> QED
    BY <2>3, <2>4
<1> QED
  BY <1>1, <1>2

\* A command that has started is nobody's to start: S are the programs that have.
Begun(T, S, n, k) == k \in DOMAIN T[n] /\ T[n][k].type = "EXEC" /\ <<n, T[n][k].at>> \in S
OnlyPrograms(R, L, C, T, S) == \A q \in Procs : \A k \in R[q] : Begun(T, S, L[q], k) => C[q] = "prog"

LEMMA BegunKept ==
  ASSUME NEW R, NEW RR, NEW L, NEW LL, NEW C, NEW CC, NEW T, NEW S, OnlyPrograms(R, L, C, T, S),
         \A q \in Procs : RR[q] = {} \/ \E p \in Procs :
            RR[q] \subseteq R[p] /\ LL[q] = L[p] /\ (C[p] = "prog" => CC[q] = "prog")
  PROVE  OnlyPrograms(RR, LL, CC, T, S)
<1> SUFFICES ASSUME NEW q \in Procs, NEW k \in RR[q], Begun(T, S, LL[q], k) PROVE CC[q] = "prog"
  BY DEF OnlyPrograms
<1>1. RR[q] # {}
  OBVIOUS
<1>2. PICK p \in Procs : RR[q] \subseteq R[p] /\ LL[q] = L[p] /\ (C[p] = "prog" => CC[q] = "prog")
  BY <1>1
<1>3. k \in R[p] /\ Begun(T, S, L[p], k)
  BY <1>2
<1> QED
  BY <1>2, <1>3 DEF OnlyPrograms

\* How many children a process has at a place; P are the parents.
KidsIn(P, p) == {q \in Procs : P[q] = p}
Childless == {"unused", "zombie", "run", "prog", "typed", "prompt", "left", "leftends", "rightends"}
KidsFit(to, K) ==
  /\ to \in Childless => K = {}
  /\ to \in {"listwait", "shwait", "right", "wait2"} => \A a, b \in K : a = b
  /\ to \in {"close", "wait1"} => \E a, b : K \subseteq {a, b}
KidsOK(C, P) == \A p \in Procs \ {1} : /\ KidsFit(C[p], KidsIn(P, p))
                                       /\ P[p] # p
                                       /\ C[p] = "unused" => P[p] = 0

\* There is one shell, and it is init's child.
ShellPlaces == {"prompt", "typed", "shwait"}
OneShell == /\ proc[1].pc \in {"init", "initwait"}
            /\ \A q \in Procs : proc[q].pc \in ShellPlaces =>
                 proc[q].parent = 1 /\ proc[1].pc = "initwait" /\ proc[1].p = <<q>>

\* What waits is in a tree too.
Seated(r, ls) ==
  /\ r.pc = "shwait" => r.line \in DOMAIN ls
  /\ r.pc \in {"close", "wait1", "wait2"} =>
       r.line \in DOMAIN ls /\ r.cmd \in DOMAIN ls[r.line].tree /\ ls[r.line].tree[r.cmd].type = "PIPE"

OrderInv ==
  /\ fails \in Nat
  /\ OneShell
  /\ \A q \in Procs : Seated(proc[q], lines)
  /\ KidsOK(PlaceOf, ParentOf)
  /\ ZonesApart(Zones, LineOf)
  /\ OnlyPrograms(Zones, LineOf, PlaceOf, Trees, ran)
  /\ \A n, a : <<n, a>> \in ran => n \in DOMAIN lines
  /\ fails = 0 => Linked(Zones, LineOf, ParentOf, Trees)

LEMMA MinIn ==
  ASSUME NEW S \in SUBSET Nat, S # {}
  PROVE  Min(S) \in S
<1> DEFINE L == OpToRel(<, Nat)
<1>1. PICK x \in S : \A y \in S : ~(<<y, x>> \in L)
  BY NatLessThanWellFounded, WFMin
<1>2. \A y \in S : x <= y
  <2> SUFFICES ASSUME NEW y \in S, ~(x <= y) PROVE FALSE
    OBVIOUS
  <2>1. y < x /\ <<y, x>> \in Nat \X Nat
    OBVIOUS
  <2> QED
    BY <1>1, <2>1 DEF OpToRel
<1> QED
  BY <1>2 DEF Min

\* Where in a tree a process is.
LEMMA InTree ==
  ASSUME NEW r, NEW ls, Fine(r, ls), Seated(r, ls)
  PROVE  /\ r.pc \in {"typed", "shwait"} => r.line \in DOMAIN ls
         /\ r.pc \in {"prog", "listwait", "left", "right", "leftends", "rightends", "close", "wait1", "wait2"}
              \/ (r.pc = "run" /\ r.cmd # 0) => r.line \in DOMAIN ls /\ r.cmd \in DOMAIN ls[r.line].tree
         /\ r.pc = "prog" => ls[r.line].tree[r.cmd].type = "EXEC"
         /\ r.pc = "listwait" => ls[r.line].tree[r.cmd].type = "LIST"
         /\ r.pc \in {"left", "right", "close", "wait1", "wait2"} => ls[r.line].tree[r.cmd].type = "PIPE"
BY DEF Fine, Seated, Ready, Forking, LeftSide, RightSide

LEMMA ZoneIn ==
  ASSUME NEW r, NEW ls, Fine(r, ls), Seated(r, ls), NEW tree, Zone(tree, r.pc, r.cmd) # {}
  PROVE  r.line \in DOMAIN ls
BY InTree DEF Zone

ZoneOf(r, T) == Zone(T[r.line], r.pc, r.cmd)

LEMMA TreesAt ==
  ASSUME ShellInv, NEW n \in DOMAIN lines
  PROVE  Trees[n] = lines[n].tree /\ Built(Trees[n])
BY TreesBuilt DEF Trees, ShellInv

LEMMA Views ==
  ASSUME UNCHANGED lines, NEW q \in Procs
  PROVE  /\ Zones[q] = ZoneOf(proc[q], Trees) /\ Zones'[q] = ZoneOf(proc'[q], Trees)
         /\ LineOf[q] = proc[q].line /\ LineOf'[q] = proc'[q].line
         /\ ParentOf[q] = proc[q].parent /\ ParentOf'[q] = proc'[q].parent
         /\ PlaceOf[q] = proc[q].pc /\ PlaceOf'[q] = proc'[q].pc
         /\ Trees' = Trees
<1>1. Trees' = Trees
  BY DEF Trees
<1> QED
  BY <1>1 DEF Zones, LineOf, ParentOf, PlaceOf, ZoneOf, Procs

LEMMA OneShellKept ==
  ASSUME OneShell, \A p \in Procs : proc'[p].pc \in ShellPlaces =>
           proc[p].pc \in ShellPlaces /\ proc'[p].parent \in {proc[p].parent, 1},
         proc'[1].pc = proc[1].pc, proc'[1].p = proc[1].p
  PROVE  OneShell'
BY DEF OneShell, Procs, ShellPlaces

\* A process x moves on to be s; its children, if any, are what it waits for.
Moves(x, s) ==
  /\ s.pc # "unused"
  /\ s.parent = proc[x].parent
  /\ s.line = proc[x].line
  /\ s.pc \in ShellPlaces => proc[x].pc \in ShellPlaces
  /\ \A K : KidsFit(proc[x].pc, K) => KidsFit(s.pc, K)
  /\ ZoneOf(s, Trees) \subseteq ZoneOf(proc[x], Trees)
  /\ proc[x].pc = "prog" => ZoneOf(s, Trees) = {}
Starts(x, s) == /\ s.pc = "prog" /\ proc[x].cmd \in ZoneOf(proc[x], Trees) /\ Node(x) = Trees[proc[x].line][proc[x].cmd]
                /\ Built(Trees[proc[x].line]) /\ proc[x].cmd \in DOMAIN Trees[proc[x].line] /\ Node(x).type = "EXEC"
                /\ proc[x].line \in DOMAIN lines
                /\ ran' = ran \union {<<proc[x].line, Node(x).at>>}
StillLinked(x, s) ==
  \/ ZoneOf(s, Trees) = ZoneOf(proc[x], Trees)
  \/ /\ proc[x].pc \in Childless
     /\ \A k, c : Link(Trees[proc[x].line], k, c) /\ k \in ZoneOf(proc[x], Trees) /\ k \notin ZoneOf(s, Trees) =>
          ZoneOf(s, Trees) \intersect Onto(Trees[proc[x].line], c) = {}

LEMMA MoveOrder ==
  ASSUME ShellInv, OrderInv, NEW x \in Procs \ {1}, NEW s, Moves(x, s), Seated(s, lines),
         proc' = [proc EXCEPT ![x] = s], UNCHANGED lines, ran' = ran \/ Starts(x, s),
         fails' \in Nat, fails' = 0 => fails = 0 /\ StillLinked(x, s)
  PROVE  OrderInv'
<1> DEFINE R == Zones  RR == Zones'  L == LineOf  LL == LineOf'
           P == ParentOf  PP == ParentOf'  C == PlaceOf  CC == PlaceOf'
<1>1. \A q \in Procs : proc'[q] = IF q = x THEN s ELSE proc[q]
  BY DEF ShellInv
<1>2. \A q \in Procs : R[q] = ZoneOf(proc[q], Trees) /\ L[q] = proc[q].line /\ P[q] = proc[q].parent /\ C[q] = proc[q].pc
  BY Views
<1>3. \A q \in Procs \ {x} : RR[q] = R[q] /\ LL[q] = L[q] /\ PP[q] = P[q] /\ CC[q] = C[q]
  BY <1>1, Views
<1>4. RR[x] = ZoneOf(s, Trees) /\ LL[x] = L[x] /\ PP[x] = P[x] /\ CC[x] = s.pc /\ RR[x] \subseteq R[x]
  BY <1>1, Views DEF Moves
<1>5. KidsOK(C, P) /\ ZonesApart(R, L) /\ OnlyPrograms(R, L, C, Trees, ran) /\ (fails = 0 => Linked(R, L, P, Trees))
  BY DEF OrderInv
<1>6. Trees' = Trees /\ 0 \notin Procs
  BY Views DEF Procs
<1>7. C[x] = proc[x].pc /\ R[x] = ZoneOf(proc[x], Trees) /\ L[x] = proc[x].line
  BY <1>2
<1> HIDE DEF R, RR, L, LL, P, PP, C, CC
<1>8. KidsOK(CC, PP)
  <2>1. \A p : KidsIn(PP, p) = KidsIn(P, p)
    BY <1>3, <1>4 DEF KidsIn
  <2> SUFFICES ASSUME NEW p \in Procs \ {1} PROVE KidsFit(CC[p], KidsIn(P, p)) /\ PP[p] # p /\ (CC[p] = "unused" => PP[p] = 0)
    BY <2>1 DEF KidsOK
  <2>2. KidsFit(C[p], KidsIn(P, p)) /\ P[p] # p /\ (C[p] = "unused" => P[p] = 0)
    BY <1>5 DEF KidsOK
  <2>3. CASE p = x
    BY <1>4, <1>7, <2>2, <2>3 DEF Moves
  <2>4. CASE p # x
    BY <1>3, <2>2, <2>4
  <2> QED
    BY <2>3, <2>4
<1>9. ZonesApart(RR, LL)
  <2>1. \A q \in Procs : RR[q] \subseteq R[q] /\ LL[q] = L[q]
    BY <1>3, <1>4
  <2> QED
    BY <1>5, <2>1 DEF ZonesApart
<1>10. ASSUME fails' = 0 PROVE Linked(RR, LL, PP, Trees)
  <2>1. ASSUME NEW q \in Procs, NEW k, NEW c, Link(Trees[L[x]], k, c), k \in R[x], RR[q] \intersect Onto(Trees[L[x]], c) # {},
               q = x \/ P[q] = x
        PROVE  k \in RR[x] /\ (q = x \/ PP[q] = x)
    <3>1. CASE ZoneOf(s, Trees) = ZoneOf(proc[x], Trees)
      BY <1>3, <1>4, <1>7, <2>1, <3>1
    <3>2. CASE /\ proc[x].pc \in Childless
               /\ \A i, d : Link(Trees[proc[x].line], i, d) /\ i \in ZoneOf(proc[x], Trees) /\ i \notin ZoneOf(s, Trees) =>
                    ZoneOf(s, Trees) \intersect Onto(Trees[proc[x].line], d) = {}
      <4>1. KidsIn(P, x) = {}
        BY <1>5, <1>7, <3>2 DEF KidsOK, KidsFit
      <4>2. q = x
        BY <2>1, <4>1 DEF KidsIn
      <4> QED
        BY <1>4, <1>7, <2>1, <3>2, <4>2
    <3> QED
      BY <1>10, <3>1, <3>2 DEF StillLinked
  <2>2. Keeps(R, RR, L, LL, P, PP, Trees, x, 0)
    BY <1>4, <2>1 DEF Keeps
  <2>3. Adds(R, RR, L, LL, P, PP, Trees, x, 0)
    BY <1>6 DEF Adds
  <2>4. Linked(R, L, P, Trees)
    BY <1>5, <1>10
  <2> QED
    BY <1>3, <1>4, <2>2, <2>3, <2>4, LinkedKept
<1>11. \A q \in Procs : Seated(proc'[q], lines')
  BY <1>1 DEF OrderInv
<1>12. OneShell'
  <2>1. \A q \in Procs : proc'[q].pc \in ShellPlaces => proc[q].pc \in ShellPlaces /\ proc'[q].parent = proc[q].parent
    BY <1>1 DEF Moves
  <2>2. proc'[1] = proc[1]
    BY <1>1, ShellAssumption DEF Procs
  <2> QED
    BY <2>1, <2>2, OneShellKept DEF OrderInv
<1>13. OnlyPrograms(RR, LL, CC, Trees, ran)
  <2>1. \A q \in Procs : RR[q] = {} \/ \E p \in Procs :
            RR[q] \subseteq R[p] /\ LL[q] = L[p] /\ (C[p] = "prog" => CC[q] = "prog")
    BY <1>3, <1>4, <1>7 DEF Moves
  <2> QED
    BY <1>5, <2>1, BegunKept
<1>14. /\ OnlyPrograms(RR, LL, CC, Trees, ran')
       /\ \A n, a : <<n, a>> \in ran' => n \in DOMAIN lines
  <2>1. \A n, a : <<n, a>> \in ran => n \in DOMAIN lines
    BY DEF OrderInv
  <2>2. CASE Starts(x, s)
    <3> DEFINE n == proc[x].line
               i == proc[x].cmd
               tree == Trees[n]
    <3>1. /\ CC[x] = "prog" /\ i \in R[x] /\ L[x] = n /\ Built(tree) /\ i \in DOMAIN tree /\ tree[i].type = "EXEC"
          /\ n \in DOMAIN lines /\ ran' = ran \union {<<n, tree[i].at>>}
      BY <1>4, <1>7, <2>2 DEF Starts
    <3> SUFFICES ASSUME NEW q \in Procs, NEW k \in RR[q], Begun(Trees, ran', LL[q], k) PROVE CC[q] = "prog"
      BY <2>1, <3>1 DEF OnlyPrograms
    <3> HIDE DEF n, i, tree
    <3>2. CASE Begun(Trees, ran, LL[q], k)
      BY <1>13, <3>2 DEF OnlyPrograms
    <3>3. CASE ~Begun(Trees, ran, LL[q], k)
      <4>1. LL[q] = n /\ k \in DOMAIN tree /\ tree[k].type = "EXEC" /\ tree[k].at = tree[i].at
        BY <3>1, <3>3 DEF Begun, tree
      <4>2. k = i
        BY <3>1, <4>1 DEF Built, IsTree
      <4>3. k \in R[q] /\ LL[q] = L[q]
        BY <1>3, <1>4
      <4>4. q = x
        BY <1>5, <3>1, <4>1, <4>2, <4>3 DEF ZonesApart
      <4> QED
        BY <3>1, <4>4
    <3> QED
      BY <3>2, <3>3
  <2> QED
    BY <1>13, <2>1, <2>2
<1> QED
  BY <1>6, <1>8, <1>9, <1>10, <1>11, <1>12, <1>14 DEF OrderInv, R, RR, L, LL, P, PP, C, CC, Procs

\* A process x goes on as s, and its new child as ch.
Splits(x, s, ch) ==
  /\ proc[x].pc # "prog"
  /\ s.pc # "unused" /\ s.parent = proc[x].parent /\ s.line = proc[x].line
  /\ ch.pc \in Childless \ {"unused"} /\ ch.parent = x /\ ch.line = proc[x].line
  /\ s.pc \in ShellPlaces => proc[x].pc \in ShellPlaces
  /\ ch.pc \notin ShellPlaces
  /\ \A K, n : KidsFit(proc[x].pc, K) => KidsFit(s.pc, K \union {n})
  /\ Parts(Trees[proc[x].line], ZoneOf(proc[x], Trees), ZoneOf(s, Trees), ZoneOf(ch, Trees))

LEMMA FreeProc ==
  ASSUME Free # {}
  PROVE  Min(Free) \in Procs /\ proc[Min(Free)].pc = "unused"
<1>1. Free \in SUBSET Nat
  BY ShellAssumption DEF Free, Procs
<1>2. Min(Free) \in Free
  BY <1>1, MinIn
<1> QED
  BY <1>2 DEF Free, At

LEMMA ForkOrder ==
  ASSUME ShellInv, OrderInv, NEW x \in Procs \ {1}, proc[x].pc # "unused", Free # {}, NEW s, NEW ch,
         Splits(x, s, ch), Seated(s, lines), Seated(ch, lines),
         proc' = [proc EXCEPT ![x] = s, ![Min(Free)] = ch], UNCHANGED <<lines, ran, fails>>
  PROVE  OrderInv'
<1> DEFINE R == Zones  RR == Zones'  L == LineOf  LL == LineOf'
           P == ParentOf  PP == ParentOf'  C == PlaceOf  CC == PlaceOf'
           m == Min(Free)
<1>1. m \in Procs /\ proc[m].pc = "unused"
  BY FreeProc
<1>2. proc' = [proc EXCEPT ![x] = s, ![m] = ch]
  OBVIOUS
<1> HIDE DEF m
<1>3. m # x /\ m # 1 /\ 1 \in Procs
  BY <1>1, ShellAssumption DEF OrderInv, OneShell, Procs
<1>4. \A q \in Procs : proc'[q] = IF q = m THEN ch ELSE IF q = x THEN s ELSE proc[q]
  BY <1>2 DEF ShellInv
<1>5. \A q \in Procs : R[q] = ZoneOf(proc[q], Trees) /\ L[q] = proc[q].line /\ P[q] = proc[q].parent /\ C[q] = proc[q].pc
  BY Views
<1>6. \A q \in Procs : /\ RR[q] = ZoneOf(proc'[q], Trees) /\ LL[q] = proc'[q].line
                       /\ PP[q] = proc'[q].parent /\ CC[q] = proc'[q].pc
  BY Views
<1>7. KidsOK(C, P) /\ ZonesApart(R, L) /\ OnlyPrograms(R, L, C, Trees, ran) /\ (fails = 0 => Linked(R, L, P, Trees))
  BY DEF OrderInv
<1>8. Trees' = Trees
  BY Views
<1> HIDE DEF R, RR, L, LL, P, PP, C, CC
<1>9. \A q \in Procs \ {x, m} : RR[q] = R[q] /\ LL[q] = L[q] /\ PP[q] = P[q] /\ CC[q] = C[q]
  <2> SUFFICES ASSUME NEW q \in Procs \ {x, m} PROVE RR[q] = R[q] /\ LL[q] = L[q] /\ PP[q] = P[q] /\ CC[q] = C[q]
    OBVIOUS
  <2>1. q \in Procs /\ proc'[q] = proc[q]
    BY <1>4
  <2> QED
    BY ONLY <1>6, <1>5, <2>1
<1>10. RR[x] = ZoneOf(s, Trees) /\ LL[x] = L[x] /\ PP[x] = P[x] /\ CC[x] = s.pc
  <2>1. proc'[x] = s
    BY <1>3, <1>4
  <2>2. s.line = proc[x].line /\ s.parent = proc[x].parent
    BY DEF Splits
  <2> QED
    BY <1>6, <1>5, <2>1, <2>2
<1>11. RR[m] = ZoneOf(ch, Trees) /\ LL[m] = L[x] /\ PP[m] = x /\ CC[m] = ch.pc
  <2>1. proc'[m] = ch
    BY <1>1, <1>4
  <2>2. ch.line = proc[x].line /\ ch.parent = x
    BY DEF Splits
  <2> QED
    BY <1>6, <1>1, <1>5, <2>1, <2>2
<1>12. C[x] = proc[x].pc /\ C[m] = "unused" /\ R[m] = {} /\ Parts(Trees[L[x]], R[x], RR[x], RR[m])
  BY <1>1, <1>5, <1>10, <1>11 DEF Splits, ZoneOf, Zone
<1>13. KidsOK(CC, PP)
  <2>1. P[m] = 0 /\ 0 \notin Procs
    BY <1>1, <1>3, <1>7, <1>12 DEF KidsOK, Procs
  <2>2. KidsIn(PP, x) = KidsIn(P, x) \union {m}
    BY <1>1, <1>9, <1>10, <1>11, <2>1 DEF KidsIn
  <2>3. \A p \in Procs \ {x} : KidsIn(PP, p) = KidsIn(P, p)
    BY <1>1, <1>9, <1>10, <1>11, <2>1 DEF KidsIn
  <2> SUFFICES ASSUME NEW p \in Procs \ {1} PROVE KidsFit(CC[p], KidsIn(PP, p)) /\ PP[p] # p /\ (CC[p] = "unused" => PP[p] = 0)
    BY DEF KidsOK
  <2>4. KidsFit(C[p], KidsIn(P, p)) /\ P[p] # p /\ (C[p] = "unused" => P[p] = 0)
    BY <1>7 DEF KidsOK
  <2>5. CASE p = x
    <3>1. \A K, n : KidsFit(proc[x].pc, K) => KidsFit(s.pc, K \union {n})
      BY DEF Splits
    <3>2. KidsFit(s.pc, KidsIn(P, x) \union {m})
      BY <1>12, <2>4, <2>5, <3>1
    <3>3. s.pc # "unused"
      BY DEF Splits
    <3> QED
      BY <1>10, <2>2, <2>4, <2>5, <3>2, <3>3
  <2>6. CASE p = m
    <3>1. KidsIn(PP, m) = {}
      BY <1>3, <1>12, <2>3, <2>4, <2>6 DEF KidsFit, Childless
    <3> QED
      BY <1>3, <1>11, <2>6, <3>1 DEF KidsFit, Splits
  <2>7. CASE p # x /\ p # m
    BY <1>9, <2>3, <2>4, <2>7
  <2> QED
    BY <2>5, <2>6, <2>7
<1>14. RR[x] \subseteq R[x] /\ RR[m] \subseteq R[x] /\ RR[m] \intersect RR[x] = {}
  BY <1>12 DEF Parts
<1>15. \A q \in Procs \ {m} : RR[q] \subseteq R[q] /\ LL[q] = L[q]
  BY <1>9, <1>10, <1>14
<1>16. ZonesApart(RR, LL)
  <2>1. ZonesApart(R, L)
    BY <1>7
  <2>2. \A q \in Procs \ {m} : RR[q] \subseteq R[q] /\ (RR[q] = {} \/ LL[q] = L[q])
    BY <1>15
  <2>3. RR[m] \subseteq R[x] /\ RR[m] \intersect RR[x] = {} /\ m # x /\ LL[m] = L[x] /\ x \in Procs
    BY <1>3, <1>11, <1>14
  <2> QED
    BY ONLY <2>1, <2>2, <2>3, ApartKept
<1>17. ASSUME fails = 0 PROVE Linked(RR, LL, PP, Trees)
  <2>1. ASSUME NEW q \in Procs \ {m}, NEW k, NEW c, Link(Trees[L[x]], k, c), k \in R[x], RR[q] \intersect Onto(Trees[L[x]], c) # {},
               L[q] = L[x], k \notin RR[x]
        PROVE  FALSE
    <3>1. RR[x] \intersect Onto(Trees[L[x]], c) = {} /\ Onto(Trees[L[x]], c) \subseteq R[x]
      BY <1>12, <2>1 DEF Parts
    <3>2. q # x /\ RR[q] = R[q]
      BY <1>9, <2>1, <3>1
    <3>3. R[q] \intersect R[x] = {}
      BY <1>7, <2>1, <3>2 DEF ZonesApart
    <3> QED
      BY <2>1, <3>1, <3>2, <3>3
  <2>2. \A q \in Procs \ {m} : PP[q] = P[q]
    BY <1>9, <1>10
  <2>3. Keeps(R, RR, L, LL, P, PP, Trees, x, m)
    BY <1>10, <2>1, <2>2 DEF Keeps
  <2>4. Adds(R, RR, L, LL, P, PP, Trees, x, m)
    BY <1>10, <1>11, <1>12 DEF Adds, Parts
  <2>5. Linked(R, L, P, Trees)
    BY <1>7, <1>17
  <2> QED
    BY <1>9, <1>15, <2>2, <2>3, <2>4, <2>5, LinkedKept
<1>18. \A q \in Procs : Seated(proc'[q], lines')
  BY <1>4 DEF OrderInv
<1>19. OneShell'
  <2>1. \A q \in Procs : proc'[q].pc \in ShellPlaces => proc[q].pc \in ShellPlaces /\ proc'[q].parent = proc[q].parent
    BY <1>4 DEF Splits
  <2>2. proc'[1] = proc[1]
    BY <1>3, <1>4
  <2> QED
    BY <2>1, <2>2, OneShellKept DEF OrderInv
<1>20. OnlyPrograms(RR, LL, CC, Trees, ran)
  <2>1. ASSUME NEW q \in Procs
        PROVE  RR[q] = {} \/ \E p \in Procs :
            RR[q] \subseteq R[p] /\ LL[q] = L[p] /\ (C[p] = "prog" => CC[q] = "prog")
    <3>1. C[x] # "prog"
      BY <1>12 DEF Splits
    <3> QED
      BY <1>9, <1>10, <1>11, <1>14, <3>1
  <2> QED
    BY <1>7, <2>1, BegunKept
<1> QED
  BY <1>8, <1>13, <1>16, <1>17, <1>18, <1>19, <1>20 DEF OrderInv, R, RR, L, LL, P, PP, C, CC, Procs

\* A process x goes on as s when wait has returned c.
Waits(x, c, s) ==
  /\ proc[x].pc # "prog"
  /\ proc[x].pc # "zombie" /\ c \in Waited(x) /\ Wait(x, c, s)
  /\ s.pc # "unused" /\ s.parent = proc[x].parent /\ s.line = proc[x].line
  /\ x = 1 \/ \A K : KidsFit(proc[x].pc, K) /\ (K = {} \/ c \in K) => KidsFit(s.pc, K \ {c})
  /\ ZoneOf(s, Trees) \subseteq ZoneOf(proc[x], Trees)
WaitedFor(x, s) ==
  \/ ZoneOf(s, Trees) = ZoneOf(proc[x], Trees)
  \/ /\ x # 1 /\ proc[x].pc \in {"listwait", "shwait", "wait2"}
     /\ \A k, c : Link(Trees[proc[x].line], k, c) /\ k \in ZoneOf(proc[x], Trees) /\ k \notin ZoneOf(s, Trees) =>
          ZoneOf(s, Trees) \intersect Onto(Trees[proc[x].line], c) = {}

LEMMA WaitOrder ==
  ASSUME ShellInv, OrderInv, NEW x \in Procs, NEW c, NEW s, Waits(x, c, s), WaitedFor(x, s), Seated(s, lines), OneShell'
  PROVE  OrderInv'
<1> DEFINE R == Zones  RR == Zones'  L == LineOf  LL == LineOf'
           P == ParentOf  PP == ParentOf'  C == PlaceOf  CC == PlaceOf'
<1>1. UNCHANGED <<lines, ran, fails>> /\ 1 \in Procs /\ 0 \notin Procs
  BY ShellAssumption DEF Waits, Wait, Procs
<1>2. \A q \in Procs : proc'[q] = IF q = x THEN s ELSE IF q = c THEN Unused ELSE proc[q]
  BY DEF Waits, Wait
<1>3. \/ c = 0 /\ \A q \in Procs : proc[q].parent # x
      \/ c \in Procs /\ c # x /\ c # 1 /\ proc[c].pc = "zombie" /\ proc[c].parent = x
  BY DEF Waits, Waited, Zombies, Kids, At, OrderInv, OneShell
<1>4. \A q \in Procs : R[q] = ZoneOf(proc[q], Trees) /\ L[q] = proc[q].line /\ P[q] = proc[q].parent /\ C[q] = proc[q].pc
  BY <1>1, Views
<1>5. \A q \in Procs : /\ RR[q] = ZoneOf(proc'[q], Trees) /\ LL[q] = proc'[q].line
                       /\ PP[q] = proc'[q].parent /\ CC[q] = proc'[q].pc
  BY <1>1, Views
<1>6. KidsOK(C, P) /\ ZonesApart(R, L) /\ OnlyPrograms(R, L, C, Trees, ran) /\ (fails = 0 => Linked(R, L, P, Trees))
  BY DEF OrderInv
<1>7. Trees' = Trees
  BY <1>1, Views
<1> HIDE DEF R, RR, L, LL, P, PP, C, CC
<1>8. \A q \in Procs \ {x, c} : RR[q] = R[q] /\ LL[q] = L[q] /\ PP[q] = P[q] /\ CC[q] = C[q]
  <2>1. \A q \in Procs \ {x, c} : proc'[q] = proc[q]
    BY <1>2
  <2> QED
    BY <1>4, <1>5, <2>1
<1>9. RR[x] = ZoneOf(s, Trees) /\ LL[x] = L[x] /\ PP[x] = P[x] /\ CC[x] = s.pc /\ RR[x] \subseteq R[x] /\ CC[x] # "unused"
  <2>1. proc'[x] = s
    BY <1>2
  <2>2. s.line = proc[x].line /\ s.parent = proc[x].parent /\ ZoneOf(s, Trees) \subseteq ZoneOf(proc[x], Trees) /\ s.pc # "unused"
    BY DEF Waits
  <2> QED
    BY <1>4, <1>5, <2>1, <2>2
<1>10. c \in Procs => /\ R[c] = {} /\ RR[c] = {} /\ C[c] = "zombie" /\ P[c] = x /\ CC[c] = "unused" /\ PP[c] = 0 /\ c # x /\ c # 1
  <2> SUFFICES ASSUME c \in Procs PROVE R[c] = {} /\ RR[c] = {} /\ C[c] = "zombie" /\ P[c] = x /\ CC[c] = "unused" /\ PP[c] = 0 /\ c # x /\ c # 1
    OBVIOUS
  <2>1. c # x /\ c # 1 /\ proc[c].pc = "zombie" /\ proc[c].parent = x
    BY <1>1, <1>3
  <2>2. proc'[c] = Unused
    BY <1>2, <2>1
  <2>3. Unused.pc = "unused" /\ Unused.parent = 0
    BY DEF Unused
  <2>4. ZoneOf(proc[c], Trees) = {} /\ ZoneOf(Unused, Trees) = {}
    BY <2>1, <2>3 DEF ZoneOf, Zone
  <2> QED
    BY <1>4, <1>5, <2>1, <2>2, <2>3, <2>4
<1>11. c \notin Procs => c = 0 /\ KidsIn(P, x) = {}
  BY <1>3, <1>4 DEF KidsIn
<1>12. KidsOK(CC, PP)
  <2>1. \A p \in Procs : KidsIn(PP, p) = KidsIn(P, p) \ {c}
    BY <1>1, <1>8, <1>9, <1>10, <1>11 DEF KidsIn
  <2> SUFFICES ASSUME NEW p \in Procs \ {1} PROVE KidsFit(CC[p], KidsIn(PP, p)) /\ PP[p] # p /\ (CC[p] = "unused" => PP[p] = 0)
    BY DEF KidsOK
  <2>2. KidsFit(C[p], KidsIn(P, p)) /\ P[p] # p /\ (C[p] = "unused" => P[p] = 0)
    BY <1>6 DEF KidsOK
  <2>3. CASE p = x
    <3>1. KidsIn(P, x) = {} \/ c \in KidsIn(P, x)
      BY <1>10, <1>11 DEF KidsIn
    <3>2. C[x] = proc[x].pc /\ CC[x] = s.pc
      BY <1>4, <1>9
    <3>3. KidsFit(s.pc, KidsIn(P, x) \ {c})
      BY <2>2, <2>3, <3>1, <3>2 DEF Waits
    <3> QED
      BY <1>9, <2>1, <2>2, <2>3, <3>2, <3>3
  <2>4. CASE p = c
    <3>1. KidsIn(P, c) = {}
      BY <1>10, <2>2, <2>4 DEF KidsFit, Childless
    <3>2. KidsIn(PP, p) = {} /\ CC[p] = "unused"
      BY <1>10, <2>1, <2>4, <3>1
    <3> QED
      BY <1>1, <1>10, <2>4, <3>2 DEF KidsFit
  <2>5. CASE p # x /\ p # c
    <3>1. KidsIn(PP, p) = KidsIn(P, p)
      BY <1>10, <2>1, <2>5 DEF KidsIn
    <3> QED
      BY <1>8, <2>2, <2>5, <3>1
  <2> QED
    BY <2>3, <2>4, <2>5
<1>13. \A q \in Procs : RR[q] \subseteq R[q] /\ (RR[q] = {} \/ LL[q] = L[q])
  BY <1>8, <1>9, <1>10
<1>14. ZonesApart(RR, LL)
  BY <1>6, <1>13 DEF ZonesApart
<1>15. ASSUME fails = 0 PROVE Linked(RR, LL, PP, Trees)
  <2>1. ASSUME NEW q \in Procs, NEW k, NEW d, Link(Trees[L[x]], k, d), k \in R[x], RR[q] \intersect Onto(Trees[L[x]], d) # {},
               q = x \/ P[q] = x
        PROVE  k \in RR[x] /\ (q = x \/ PP[q] = x)
    <3>0. q # c
      BY <1>10, <2>1
    <3>1. q = x \/ PP[q] = x
      BY <1>8, <2>1, <3>0
    <3>2. CASE ZoneOf(s, Trees) = ZoneOf(proc[x], Trees)
      BY <1>4, <1>9, <2>1, <3>1, <3>2
    <3>3. CASE /\ x # 1 /\ proc[x].pc \in {"listwait", "shwait", "wait2"}
               /\ \A i, j : Link(Trees[proc[x].line], i, j) /\ i \in ZoneOf(proc[x], Trees) /\ i \notin ZoneOf(s, Trees) =>
                    ZoneOf(s, Trees) \intersect Onto(Trees[proc[x].line], j) = {}
      <4>1. \A a, b \in KidsIn(P, x) : a = b
        <5>1. KidsFit(C[x], KidsIn(P, x)) /\ C[x] = proc[x].pc
          BY <1>4, <1>6, <3>3 DEF KidsOK
        <5> QED
          BY <3>3, <5>1 DEF KidsFit
      <4>2. q = x
        <5> SUFFICES ASSUME q # x PROVE FALSE
          OBVIOUS
        <5>1. q \in KidsIn(P, x)
          BY <2>1 DEF KidsIn
        <5>2. c \in KidsIn(P, x)
          BY <1>10, <1>11, <5>1 DEF KidsIn
        <5> QED
          BY <3>0, <4>1, <5>1, <5>2
      <4>3. k \in RR[x]
        BY <1>4, <1>9, <2>1, <3>3, <4>2
      <4> QED
        BY <3>1, <4>3
    <3> QED
      BY <3>2, <3>3 DEF WaitedFor
  <2>2. Keeps(R, RR, L, LL, P, PP, Trees, x, 0)
    BY <1>9, <2>1 DEF Keeps
  <2>3. Adds(R, RR, L, LL, P, PP, Trees, x, 0)
    BY <1>1 DEF Adds
  <2>4. Linked(R, L, P, Trees)
    BY <1>6, <1>15
  <2>5. \A q \in Procs \ {0} : RR[q] \subseteq R[q]
    BY <1>13
  <2>6. \A q \in Procs \ {0} : RR[q] = {} \/ (LL[q] = L[q] /\ (P[q] = x \/ PP[q] = P[q]))
    BY <1>8, <1>9, <1>10
  <2>7. \A q \in Procs \ {x, 0} : RR[q] = R[q]
    BY <1>8, <1>10
  <2> QED
    BY <2>2, <2>3, <2>4, <2>5, <2>6, <2>7, LinkedKept
<1>16. \A q \in Procs : Seated(proc'[q], lines')
  <2>1. Seated(Unused, lines)
    BY DEF Seated, Unused
  <2> QED
    BY <1>1, <1>2, <2>1 DEF OrderInv
<1>17. OnlyPrograms(RR, LL, CC, Trees, ran)
  <2>1. C[x] # "prog"
    BY <1>4 DEF Waits
  <2>2. \A q \in Procs : RR[q] = {} \/ (RR[q] \subseteq R[q] /\ LL[q] = L[q] /\ (C[q] = "prog" => CC[q] = "prog"))
    BY <1>8, <1>9, <1>10, <2>1
  <2> QED
    BY <1>6, <2>2, BegunKept
<1> QED
  BY <1>1, <1>7, <1>12, <1>14, <1>15, <1>16, <1>17 DEF OrderInv, R, RR, L, LL, P, PP, C, CC, Procs

LEMMA WaitOneShell ==
  ASSUME OrderInv, NEW x \in Procs \ {1}, NEW c, NEW s, Waits(x, c, s), s.pc \in ShellPlaces => proc[x].pc \in ShellPlaces
  PROVE  OneShell'
<1>1. \A q \in Procs : proc'[q] = IF q = x THEN s ELSE IF q = c THEN Unused ELSE proc[q]
  BY DEF Waits, Wait
<1>2. 1 \in Procs /\ c # 1
  BY ShellAssumption DEF Procs, Waits, Waited, Zombies, Kids, At, OrderInv, OneShell
<1>3. s.parent = proc[x].parent /\ Unused.pc \notin ShellPlaces
  BY DEF Waits, Unused, ShellPlaces
<1>4. \A q \in Procs : proc'[q].pc \in ShellPlaces => proc[q].pc \in ShellPlaces /\ proc'[q].parent = proc[q].parent
  BY <1>1, <1>3
<1>5. proc'[1] = proc[1]
  BY <1>1, <1>2
<1> QED
  BY <1>4, <1>5, OneShellKept DEF OrderInv

LEMMA InitWaitOrder ==
  ASSUME ShellInv, OrderInv, InitWait
  PROVE  OrderInv'
<1>1. 1 \in Procs /\ 0 \notin Procs /\ proc[1].pc = "initwait" /\ IsProc(proc[1])
  BY ShellAssumption DEF Procs, InitWait, At, ShellInv, Fine
<1>2. PICK c \in Waited(1) : Wait(1, c, [proc[1] EXCEPT !.pc = IF c \in {0, proc[1].p[1]} THEN "init" ELSE @])
  BY DEF InitWait
<1> DEFINE to == IF c \in {0, proc[1].p[1]} THEN "init" ELSE proc[1].pc
           s == [proc[1] EXCEPT !.pc = to]
<1>3. Wait(1, c, s) /\ to \in {"init", "initwait"} /\ (to = "initwait" => c \notin {0, proc[1].p[1]})
  BY <1>1, <1>2
<1> HIDE DEF to
<1>4. s = Process(to, proc[1].cmd, proc[1].line, proc[1].fds, proc[1].p, proc[1].parent)
  BY <1>1, AssignPc
<1> HIDE DEF s
<1>5. s.pc = to /\ s.line = proc[1].line /\ s.parent = proc[1].parent /\ s.p = proc[1].p
  BY <1>4, ProcessFields
<1>6. ZoneOf(s, Trees) = {} /\ ZoneOf(proc[1], Trees) = {}
  BY <1>1, <1>3, <1>5 DEF ZoneOf, Zone
<1>7. Waits(1, c, s) /\ WaitedFor(1, s) /\ Seated(s, lines)
  BY <1>1, <1>2, <1>3, <1>5, <1>6 DEF Waits, WaitedFor, Seated
<1>8. \A q \in Procs : proc'[q] = IF q = 1 THEN s ELSE IF q = c THEN Unused ELSE proc[q]
  BY <1>3 DEF Wait
<1>9. \A q \in Procs : proc'[q].pc \in ShellPlaces => proc'[q] = proc[q] /\ q # 1 /\ q # c
  BY <1>3, <1>5, <1>8 DEF ShellPlaces, Unused
<1>10. ASSUME NEW q \in Procs, proc'[q].pc \in ShellPlaces
       PROVE  proc'[q].parent = 1 /\ to = "initwait" /\ s.p = <<q>>
  <2>1. proc[q].pc \in ShellPlaces /\ proc[q].parent = 1 /\ proc[1].p = <<q>> /\ q # c /\ proc'[q] = proc[q]
    BY <1>9, <1>10 DEF OrderInv, OneShell
  <2>2. c # 0
    BY <1>2, <2>1 DEF Waited, Kids, Zombies, Procs
  <2>3. proc[1].p[1] = q
    BY <2>1
  <2> QED
    BY <1>1, <1>5, <2>1, <2>2, <2>3 DEF to
<1>11. OneShell'
  BY <1>1, <1>3, <1>5, <1>8, <1>10 DEF OneShell, Procs
<1> QED
  BY <1>1, <1>7, <1>11, WaitOrder

LEMMA InitForkOrder ==
  ASSUME ShellInv, OrderInv, InitFork
  PROVE  OrderInv'
<1> DEFINE R == Zones  RR == Zones'  L == LineOf  LL == LineOf'
           P == ParentOf  PP == ParentOf'  C == PlaceOf  CC == PlaceOf'
           m == Min(Free)
           s == [proc[1] EXCEPT !.pc = "initwait", !.p = <<m>>]
           sh == Started(Unused, "prompt", Std, 1)
<1>1. m \in Procs /\ proc[m].pc = "unused"
  BY FreeProc DEF InitFork
<1>2. proc' = [proc EXCEPT ![1] = s, ![m] = sh] /\ UNCHANGED <<lines, ran, fails>>
  BY DEF InitFork, Started
<1> HIDE DEF m
<1>3. 1 \in Procs /\ 0 \notin Procs /\ m # 1 /\ proc[1].pc = "init" /\ IsProc(proc[1]) /\ IsProc(Unused)
  <2>1. 1 \in Procs /\ 0 \notin Procs
    BY ShellAssumption DEF Procs
  <2>2. IsProc(proc[1])
    BY <2>1 DEF ShellInv, Fine
  <2>3. IsProc(Unused)
    BY DEF IsProc, Unused
  <2>4. proc[1].pc = "init"
    BY DEF InitFork, At
  <2> QED
    BY <1>1, <2>1, <2>2, <2>3, <2>4
<1>4. s = Process("initwait", proc[1].cmd, proc[1].line, proc[1].fds, <<m>>, proc[1].parent)
  BY <1>3, AssignPcP, Zenon
<1>5. sh = Process("prompt", Unused.cmd, Unused.line, Std, Unused.p, 1)
  BY <1>3, AssignPcFdsParent
<1> HIDE DEF s, sh
<1>6. s.pc = "initwait" /\ s.p = <<m>> /\ s.parent = proc[1].parent /\ s.line = proc[1].line
  BY <1>4, ProcessFields
<1>7. sh.pc = "prompt" /\ sh.parent = 1
  BY <1>5, ProcessFields
<1>8. \A q \in Procs : proc'[q] = IF q = m THEN sh ELSE IF q = 1 THEN s ELSE proc[q]
  BY <1>2 DEF ShellInv
<1>9. \A q \in Procs : R[q] = ZoneOf(proc[q], Trees) /\ L[q] = proc[q].line /\ P[q] = proc[q].parent /\ C[q] = proc[q].pc
  BY <1>2, Views
<1>10. \A q \in Procs : /\ RR[q] = ZoneOf(proc'[q], Trees) /\ LL[q] = proc'[q].line
                        /\ PP[q] = proc'[q].parent /\ CC[q] = proc'[q].pc
  BY <1>2, Views
<1>11. KidsOK(C, P) /\ ZonesApart(R, L) /\ OnlyPrograms(R, L, C, Trees, ran) /\ (fails = 0 => Linked(R, L, P, Trees))
  BY DEF OrderInv
<1>12. Trees' = Trees
  BY <1>1, <1>2, Views
<1> HIDE DEF R, RR, L, LL, P, PP, C, CC
<1>13. \A q \in Procs \ {1, m} : RR[q] = R[q] /\ LL[q] = L[q] /\ PP[q] = P[q] /\ CC[q] = C[q]
  <2> SUFFICES ASSUME NEW q \in Procs \ {1, m} PROVE RR[q] = R[q] /\ LL[q] = L[q] /\ PP[q] = P[q] /\ CC[q] = C[q]
    OBVIOUS
  <2>1. q \in Procs /\ proc'[q] = proc[q]
    BY <1>8
  <2> QED
    BY ONLY <1>9, <1>10, <2>1
<1>14. RR[1] = {} /\ R[1] = {} /\ LL[1] = L[1] /\ PP[1] = P[1]
  <2>1. proc'[1] = s /\ proc[1].pc = "init"
    BY <1>3, <1>8
  <2>2. ZoneOf(s, Trees) = {} /\ ZoneOf(proc[1], Trees) = {}
    BY <1>6, <2>1 DEF ZoneOf, Zone
  <2> QED
    BY <1>3, <1>6, <1>9, <1>10, <2>1, <2>2
<1>15. RR[m] = {} /\ R[m] = {} /\ C[m] = "unused" /\ CC[m] = "prompt" /\ PP[m] = 1
  <2>1. proc'[m] = sh
    BY <1>1, <1>8
  <2>2. ZoneOf(sh, Trees) = {} /\ ZoneOf(proc[m], Trees) = {}
    BY <1>1, <1>7 DEF ZoneOf, Zone
  <2> QED
    BY <1>1, <1>7, <1>9, <1>10, <2>1, <2>2
<1>16. KidsOK(CC, PP)
  <2>1. P[m] = 0
    BY <1>1, <1>3, <1>11, <1>15 DEF KidsOK
  <2>2. \A p \in Procs \ {1} : KidsIn(PP, p) = KidsIn(P, p)
    BY <1>1, <1>3, <1>13, <1>14, <1>15, <2>1 DEF KidsIn
  <2> SUFFICES ASSUME NEW p \in Procs \ {1} PROVE KidsFit(CC[p], KidsIn(P, p)) /\ PP[p] # p /\ (CC[p] = "unused" => PP[p] = 0)
    BY <2>2 DEF KidsOK
  <2>3. KidsFit(C[p], KidsIn(P, p)) /\ P[p] # p /\ (C[p] = "unused" => P[p] = 0)
    BY <1>11 DEF KidsOK
  <2>4. CASE p = m
    BY <1>15, <2>3, <2>4 DEF KidsFit, Childless
  <2>5. CASE p # m
    BY <1>13, <2>3, <2>5
  <2> QED
    BY <2>4, <2>5
<1>17. \A q \in Procs : RR[q] = R[q] /\ (RR[q] = {} \/ (LL[q] = L[q] /\ PP[q] = P[q]))
  BY <1>13, <1>14, <1>15
<1>18. ZonesApart(RR, LL)
  BY <1>11, <1>17 DEF ZonesApart
<1>19. ASSUME fails = 0 PROVE Linked(RR, LL, PP, Trees)
  <2> SUFFICES ASSUME NEW r \in Procs, NEW k, NEW c, Link(Trees[LL[r]], k, c), RR[r] \intersect Onto(Trees[LL[r]], c) # {}
               PROVE  \E p \in Procs : LL[p] = LL[r] /\ k \in RR[p] /\ (p = r \/ PP[r] = p)
    BY DEF Linked
  <2>1. RR[r] = R[r] /\ LL[r] = L[r] /\ PP[r] = P[r]
    BY <1>17
  <2>2. PICK p \in Procs : L[p] = L[r] /\ k \in R[p] /\ (p = r \/ P[r] = p)
    BY <1>11, <1>19, <2>1 DEF Linked
  <2>3. RR[p] = R[p] /\ LL[p] = L[p]
    BY <1>17, <2>2
  <2> QED
    BY <2>1, <2>2, <2>3
<1>20. \A q \in Procs : Seated(proc'[q], lines')
  <2>1. Seated(sh, lines) /\ Seated(s, lines)
    BY <1>6, <1>7 DEF Seated
  <2>2. \A q \in Procs : Seated(proc[q], lines)
    BY DEF OrderInv
  <2> QED
    BY <1>2, <1>8, <2>1, <2>2
<1>21. OneShell'
  <2>1. \A q \in Procs : proc[q].pc \notin ShellPlaces
    BY <1>3 DEF OrderInv, OneShell
  <2>2. proc'[1] = s /\ proc'[m] = sh
    BY <1>1, <1>3, <1>8
  <2>3. \A q \in Procs : proc'[q].pc \in ShellPlaces => q = m
    BY <1>6, <1>8, <2>1 DEF ShellPlaces
  <2> QED
    BY <1>6, <1>7, <2>2, <2>3 DEF OneShell, Procs
<1>22. OnlyPrograms(RR, LL, CC, Trees, ran)
  <2>1. \A q \in Procs : RR[q] = {} \/ (RR[q] \subseteq R[q] /\ LL[q] = L[q] /\ (C[q] = "prog" => CC[q] = "prog"))
    BY <1>13, <1>14, <1>15
  <2> QED
    BY <1>11, <2>1, BegunKept
<1> QED
  BY <1>2, <1>12, <1>16, <1>18, <1>19, <1>20, <1>21, <1>22 DEF OrderInv, R, RR, L, LL, P, PP, C, CC, Procs

LEMMA ExitOrder ==
  ASSUME ShellInv, OrderInv, NEW x \in Procs, Exit(x)
  PROVE  OrderInv'
<1> DEFINE R == Zones  RR == Zones'  L == LineOf  LL == LineOf'
           P == ParentOf  PP == ParentOf'  C == PlaceOf  CC == PlaceOf'
           s == [Unused EXCEPT !.pc = "zombie", !.parent = proc[x].parent]
<1>1. UNCHANGED <<lines, ran, fails>> /\ 1 \in Procs /\ 0 \notin Procs
  BY ShellAssumption DEF Exit, Procs
<1>2. proc[x].pc \in {"exit", "run"} /\ x # 1
  BY DEF Exit, At, Running, OrderInv, OneShell
<1>3. \A q \in Procs : proc'[q] = IF q = x THEN s ELSE IF q \in Kids(x) THEN [proc[q] EXCEPT !.parent = 1] ELSE proc[q]
  BY DEF Exit
<1>4. s.pc = "zombie" /\ s.parent = proc[x].parent /\ ZoneOf(s, Trees) = {}
  <2>1. IsProc(Unused)
    BY DEF IsProc, Unused
  <2>2. s = Process("zombie", Unused.cmd, Unused.line, Unused.fds, Unused.p, proc[x].parent)
    BY <2>1, AssignPcParent, Zenon
  <2> HIDE DEF s
  <2>3. s.pc = "zombie" /\ s.parent = proc[x].parent
    BY <2>2, ProcessFields
  <2> QED
    BY <2>3 DEF ZoneOf, Zone
<1> HIDE DEF s
<1>5. \A k, c : k \in ZoneOf(proc[x], Trees) => ~Link(Trees[proc[x].line], k, c)
  <2> SUFFICES ASSUME NEW k, NEW c, k \in ZoneOf(proc[x], Trees) PROVE ~Link(Trees[proc[x].line], k, c)
    OBVIOUS
  <2>1. Running(x, "EXEC")
    <3>1. proc[x].pc = "run" /\ proc[x].cmd # 0
      BY <1>2 DEF ZoneOf, Zone
    <3> QED
      BY <3>1 DEF Exit, At
  <2>2. /\ Ready(lines, proc[x].line, proc[x].cmd, proc[x].fds)
        /\ lines[proc[x].line].tree[proc[x].cmd].type = "EXEC"
    BY <2>1, Runs
  <2>3. proc[x].line \in DOMAIN lines /\ proc[x].cmd \in DOMAIN lines[proc[x].line].tree
    BY <2>2 DEF Ready
  <2>4. Trees[proc[x].line] = lines[proc[x].line].tree /\ Built(Trees[proc[x].line])
    BY <2>3, TreesAt
  <2>5. Under(Trees[proc[x].line], proc[x].cmd) = {proc[x].cmd} /\ ~Link(Trees[proc[x].line], proc[x].cmd, c)
    BY <2>2, <2>3, <2>4, ExecParts
  <2>6. k = proc[x].cmd
    BY <2>1, <2>5 DEF ZoneOf, Zone, Running, At
  <2> QED
    BY <2>5, <2>6
<1>6. \A q \in Procs : R[q] = ZoneOf(proc[q], Trees) /\ L[q] = proc[q].line /\ P[q] = proc[q].parent /\ C[q] = proc[q].pc
  BY <1>1, Views
<1>7. \A q \in Procs : /\ RR[q] = ZoneOf(proc'[q], Trees) /\ LL[q] = proc'[q].line
                       /\ PP[q] = proc'[q].parent /\ CC[q] = proc'[q].pc
  BY <1>1, Views
<1>8. KidsOK(C, P) /\ ZonesApart(R, L) /\ OnlyPrograms(R, L, C, Trees, ran) /\ (fails = 0 => Linked(R, L, P, Trees))
  BY DEF OrderInv
<1>9. Trees' = Trees
  BY <1>1, Views
<1> HIDE DEF R, RR, L, LL, P, PP, C, CC
<1>10. ASSUME NEW q \in Procs \ {x}
       PROVE  /\ proc'[q].parent = (IF proc[q].parent = x THEN 1 ELSE proc[q].parent)
              /\ proc'[q].pc = proc[q].pc /\ proc'[q].cmd = proc[q].cmd /\ proc'[q].line = proc[q].line /\ proc'[q].p = proc[q].p
  <2>1. CASE q \in Kids(x)
    <3>1. IsProc(proc[q])
      BY DEF ShellInv, Fine
    <3>2. proc'[q] = [proc[q] EXCEPT !.parent = 1]
      BY <1>3, <2>1
    <3>3. proc'[q] = Process(proc[q].pc, proc[q].cmd, proc[q].line, proc[q].fds, proc[q].p, 1)
      BY <3>1, <3>2, AssignParent
    <3>4. proc[q].parent = x
      BY <2>1 DEF Kids
    <3> QED
      BY <3>3, <3>4, ProcessFields
  <2>2. CASE q \notin Kids(x)
    BY <1>3, <2>2 DEF Kids
  <2> QED
    BY <2>1, <2>2
<1>11. ASSUME NEW q \in Procs \ {x}
       PROVE  RR[q] = R[q] /\ LL[q] = L[q] /\ CC[q] = C[q] /\ PP[q] = IF P[q] = x THEN 1 ELSE P[q]
  <2>1. ZoneOf(proc'[q], Trees) = ZoneOf(proc[q], Trees)
    BY <1>10 DEF ZoneOf
  <2>2. q \in Procs
    OBVIOUS
  <2> QED
    BY <1>6, <1>7, <1>10, <2>1, <2>2
<1>12. RR[x] = {} /\ PP[x] = P[x] /\ CC[x] = "zombie" /\ C[x] = proc[x].pc
  <2>1. proc'[x] = s
    BY <1>3
  <2> QED
    BY <1>4, <1>6, <1>7, <2>1
<1>13. KidsOK(CC, PP)
  <2>1. P[x] # x
    BY <1>2, <1>8 DEF KidsOK
  <2>2. KidsIn(PP, x) = {}
    BY <1>2, <1>11, <1>12, <2>1 DEF KidsIn
  <2>3. \A p \in Procs \ {1, x} : KidsIn(PP, p) = KidsIn(P, p)
    BY <1>11, <1>12 DEF KidsIn
  <2> SUFFICES ASSUME NEW p \in Procs \ {1} PROVE KidsFit(CC[p], KidsIn(PP, p)) /\ PP[p] # p /\ (CC[p] = "unused" => PP[p] = 0)
    BY DEF KidsOK
  <2>4. KidsFit(C[p], KidsIn(P, p)) /\ P[p] # p /\ (C[p] = "unused" => P[p] = 0)
    BY <1>8 DEF KidsOK
  <2>5. CASE p = x
    BY <1>12, <2>1, <2>2, <2>5 DEF KidsFit
  <2>6. CASE p # x
    <3>1. CC[p] = C[p] /\ PP[p] = (IF P[p] = x THEN 1 ELSE P[p]) /\ KidsIn(PP, p) = KidsIn(P, p)
      BY <1>11, <2>3, <2>6
    <3> QED
      BY <1>1, <2>4, <3>1
  <2> QED
    BY <2>5, <2>6
<1>14. \A q \in Procs : RR[q] \subseteq R[q] /\ (RR[q] = {} \/ LL[q] = L[q])
  BY <1>11, <1>12
<1>15. ZonesApart(RR, LL)
  BY <1>8, <1>14 DEF ZonesApart
<1>16. ASSUME fails = 0 PROVE Linked(RR, LL, PP, Trees)
  <2>1. \A k, c : k \in R[x] => ~Link(Trees[L[x]], k, c)
    BY <1>5, <1>6
  <2>2. Keeps(R, RR, L, LL, P, PP, Trees, x, 0)
    BY <2>1 DEF Keeps
  <2>3. Adds(R, RR, L, LL, P, PP, Trees, x, 0)
    BY <1>1 DEF Adds
  <2>4. Linked(R, L, P, Trees)
    BY <1>8, <1>16
  <2>5. \A q \in Procs \ {0} : RR[q] \subseteq R[q]
    BY <1>14
  <2>6. \A q \in Procs \ {0} : RR[q] = {} \/ (LL[q] = L[q] /\ (P[q] = x \/ PP[q] = P[q]))
    BY <1>11, <1>12
  <2>7. \A q \in Procs \ {x, 0} : RR[q] = R[q]
    BY <1>11
  <2> QED
    BY <2>2, <2>3, <2>4, <2>5, <2>6, <2>7, LinkedKept
<1>17. ASSUME NEW q \in Procs PROVE Seated(proc'[q], lines')
  <2>1. Seated(proc[q], lines)
    BY DEF OrderInv
  <2>2. CASE q = x
    BY <1>3, <1>4, <2>2 DEF Seated
  <2>3. CASE q # x
    BY <1>1, <1>10, <2>1, <2>3 DEF Seated
  <2> QED
    BY <2>2, <2>3
<1>18. OneShell'
  <2>1. \A q \in Procs : proc'[q].pc \in ShellPlaces => proc[q].pc \in ShellPlaces /\ proc'[q].parent \in {proc[q].parent, 1}
    <3> SUFFICES ASSUME NEW q \in Procs, proc'[q].pc \in ShellPlaces
                 PROVE  proc[q].pc \in ShellPlaces /\ proc'[q].parent \in {proc[q].parent, 1}
      OBVIOUS
    <3>1. q # x
      BY <1>3, <1>4 DEF ShellPlaces
    <3> QED
      BY <1>10, <3>1
  <2>2. proc'[1].pc = proc[1].pc /\ proc'[1].p = proc[1].p
    BY <1>1, <1>2, <1>10
  <2> QED
    BY <2>1, <2>2, OneShellKept DEF OrderInv
<1>19. OnlyPrograms(RR, LL, CC, Trees, ran)
  <2>1. \A q \in Procs : RR[q] = {} \/ (RR[q] \subseteq R[q] /\ LL[q] = L[q] /\ (C[q] = "prog" => CC[q] = "prog"))
    BY <1>11, <1>12
  <2> QED
    BY <1>8, <2>1, BegunKept
<1> QED
  BY <1>1, <1>9, <1>13, <1>15, <1>16, <1>17, <1>18, <1>19 DEF OrderInv, R, RR, L, LL, P, PP, C, CC, Procs

\* The shell of a new line has its tree, and the place above it.
LEMMA WholeTree ==
  ASSUME NEW tree, Built(tree), NEW k, NEW c, Link(tree, k, c),
         ({Len(tree) + 1} \union Under(tree, Len(tree))) \intersect Onto(tree, c) # {}
  PROVE  k \in {Len(tree) + 1} \union Under(tree, Len(tree))
<1>1. c \in DOMAIN tree /\ Len(tree) \in Nat /\ DOMAIN tree = 1..Len(tree)
  BY LinkIs, TreeIs
<1>2. Onto(tree, c) \subseteq DOMAIN tree
  BY <1>1, OntoIs, UnderIs
<1>3. Under(tree, Len(tree)) \intersect Onto(tree, c) # {} /\ Len(tree) # 0
  BY <1>1, <1>2
<1>4. Parts(tree, {Len(tree) + 1} \union Under(tree, Len(tree)), {Len(tree) + 1}, Under(tree, Len(tree)))
  BY <1>3, RootParts
<1> QED
  BY <1>3, <1>4 DEF Parts

LEMMA ReadsOrder ==
  ASSUME ShellInv, OrderInv, NEW x \in Procs, NEW text, NEW new, [text |-> text, tree |-> new] \in TypedLines,
         NEW to \in {"typed", "prompt"}, Reads(x, text, new, to)
  PROVE  OrderInv'
<1> DEFINE R == Zones  RR == Zones'  L == LineOf  LL == LineOf'
           P == ParentOf  PP == ParentOf'  C == PlaceOf  CC == PlaceOf'
           T == Trees  TT == Trees'
           n == Len(lines) + 1
           s == [proc[x] EXCEPT !.pc = to, !.line = n]
           t == [text |-> text, tree |-> new]
<1>1. lines' = Append(lines, t)
  BY DEF Reads
<1>2. /\ UNCHANGED <<ran, fails>> /\ proc[x].pc = "prompt" /\ IsProc(proc[x]) /\ proc' = [proc EXCEPT ![x] = s]
      /\ lines \in Seq(TypedLines)
  BY DEF Reads, At, ShellInv, Fine
<1>3. t \in TypedLines
  OBVIOUS
<1> HIDE DEF t
<1>5. /\ lines' \in Seq(TypedLines) /\ DOMAIN lines' = DOMAIN lines \union {n} /\ n \notin DOMAIN lines
      /\ lines'[n] = t /\ \A j \in DOMAIN lines : lines'[j] = lines[j]
  BY <1>1, <1>2, <1>3
<1>6. Built(lines'[n].tree)
  BY <1>5, TreesBuilt
<1>7. s = Process(to, proc[x].cmd, n, proc[x].fds, proc[x].p, proc[x].parent)
  BY <1>2, AssignPcLine, Zenon
<1> HIDE DEF s, n
<1>8. s.pc = to /\ s.line = n /\ s.parent = proc[x].parent /\ s.p = proc[x].p
  BY <1>7, ProcessFields
<1>9. \A q \in Procs : proc'[q] = IF q = x THEN s ELSE proc[q]
  BY <1>2 DEF ShellInv
<1>10. (\A j \in DOMAIN lines : TT[j] = T[j]) /\ TT[n] = lines'[n].tree
  BY <1>5 DEF Trees
<1>11. \A q \in Procs : R[q] = ZoneOf(proc[q], T) /\ L[q] = proc[q].line /\ P[q] = proc[q].parent /\ C[q] = proc[q].pc
  BY DEF Zones, LineOf, ParentOf, PlaceOf, ZoneOf
<1>12. \A q \in Procs : /\ RR[q] = ZoneOf(proc'[q], TT) /\ LL[q] = proc'[q].line
                        /\ PP[q] = proc'[q].parent /\ CC[q] = proc'[q].pc
  BY DEF Zones, LineOf, ParentOf, PlaceOf, ZoneOf, Procs
<1>13. KidsOK(C, P) /\ ZonesApart(R, L) /\ OnlyPrograms(R, L, C, T, ran) /\ (fails = 0 => Linked(R, L, P, T))
  BY DEF OrderInv
<1>14. x # 1 /\ 1 \in Procs
  BY <1>2, ShellAssumption DEF OrderInv, OneShell, Procs
<1>15. ASSUME NEW q \in Procs
       PROVE  /\ R[q] # {} => L[q] \in DOMAIN lines
              /\ ZoneOf(proc[q], TT) = ZoneOf(proc[q], T)
  <2>1. Fine(proc[q], lines) /\ Seated(proc[q], lines)
    BY DEF ShellInv, OrderInv
  <2>2. \A tree : Zone(tree, proc[q].pc, proc[q].cmd) # {} => proc[q].line \in DOMAIN lines
    BY <2>1, ZoneIn
  <2>3. R[q] # {} => L[q] \in DOMAIN lines
    BY <1>11, <2>2 DEF ZoneOf
  <2>4. CASE proc[q].line \in DOMAIN lines
    BY <1>10, <2>3, <2>4 DEF ZoneOf
  <2>5. CASE proc[q].line \notin DOMAIN lines
    BY <2>2, <2>3, <2>5 DEF ZoneOf
  <2> QED
    BY <2>4, <2>5
<1> HIDE DEF R, RR, L, LL, P, PP, C, CC, T, TT
<1>16. \A q \in Procs \ {x} : RR[q] = R[q] /\ LL[q] = L[q] /\ PP[q] = P[q] /\ CC[q] = C[q]
  <2> SUFFICES ASSUME NEW q \in Procs \ {x} PROVE RR[q] = R[q] /\ LL[q] = L[q] /\ PP[q] = P[q] /\ CC[q] = C[q]
    OBVIOUS
  <2>1. q \in Procs /\ proc'[q] = proc[q]
    BY <1>9
  <2> QED
    BY ONLY <1>11, <1>12, <1>15, <2>1
<1>17. /\ RR[x] = (IF to = "typed" THEN {Len(TT[n]) + 1} \union Under(TT[n], Len(TT[n])) ELSE {}) /\ LL[x] = n
       /\ R[x] = {} /\ PP[x] = P[x] /\ CC[x] = to /\ C[x] = "prompt"
  <2>1. proc'[x] = s
    BY <1>9
  <2>2. ZoneOf(s, TT) = IF to = "typed" THEN {Len(TT[n]) + 1} \union Under(TT[n], Len(TT[n])) ELSE {}
    BY <1>8 DEF ZoneOf, Zone
  <2>3. ZoneOf(proc[x], T) = {}
    BY <1>2 DEF ZoneOf, Zone
  <2> QED
    BY <1>2, <1>8, <1>11, <1>12, <2>1, <2>2, <2>3
<1>18. KidsOK(CC, PP)
  <2>1. \A p : KidsIn(PP, p) = KidsIn(P, p)
    BY <1>16, <1>17 DEF KidsIn
  <2> SUFFICES ASSUME NEW p \in Procs \ {1} PROVE KidsFit(CC[p], KidsIn(P, p)) /\ PP[p] # p /\ (CC[p] = "unused" => PP[p] = 0)
    BY <2>1 DEF KidsOK
  <2>2. KidsFit(C[p], KidsIn(P, p)) /\ P[p] # p /\ (C[p] = "unused" => P[p] = 0)
    BY <1>13 DEF KidsOK
  <2>3. CASE p = x
    BY <1>17, <2>2, <2>3 DEF KidsFit, Childless
  <2>4. CASE p # x
    BY <1>16, <2>2, <2>4
  <2> QED
    BY <2>3, <2>4
<1>19. ASSUME NEW q \in Procs \ {x}, RR[q] # {} PROVE LL[q] \in DOMAIN lines /\ LL[q] # n
  BY <1>5, <1>15, <1>16, <1>19
<1>20. ZonesApart(RR, LL)
  <2> SUFFICES ASSUME NEW p \in Procs, NEW q \in Procs, p # q, LL[p] = LL[q], NEW k, k \in RR[p], k \in RR[q]
               PROVE  FALSE
    BY DEF ZonesApart
  <2>1. CASE p = x \/ q = x
    BY <1>17, <1>19, <2>1
  <2>2. CASE p # x /\ q # x
    <3>1. R[p] = RR[p] /\ R[q] = RR[q] /\ L[p] = L[q]
      BY <1>16, <2>2
    <3> QED
      BY <1>13, <3>1 DEF ZonesApart
  <2> QED
    BY <2>1, <2>2
<1>21. ASSUME fails = 0 PROVE Linked(RR, LL, PP, TT)
  <2> SUFFICES ASSUME NEW r \in Procs, NEW k, NEW c, Link(TT[LL[r]], k, c), RR[r] \intersect Onto(TT[LL[r]], c) # {}
               PROVE  \E p \in Procs : LL[p] = LL[r] /\ k \in RR[p] /\ (p = r \/ PP[r] = p)
    BY DEF Linked
  <2>1. CASE r = x
    <3>1. Built(TT[n])
      BY <1>6, <1>10
    <3>2. k \in RR[x]
      BY <1>17, <2>1, <3>1, WholeTree
    <3> QED
      BY <2>1, <3>2
  <2>2. CASE r # x
    <3>1. RR[r] = R[r] /\ LL[r] = L[r] /\ PP[r] = P[r] /\ TT[L[r]] = T[L[r]]
      BY <1>10, <1>16, <1>19, <2>2
    <3>2. PICK p \in Procs : L[p] = L[r] /\ k \in R[p] /\ (p = r \/ P[r] = p)
      BY <1>13, <1>21, <3>1 DEF Linked
    <3>3. p # x
      BY <1>17, <3>2
    <3> QED
      BY <1>16, <3>1, <3>2, <3>3
  <2> QED
    BY <2>1, <2>2
<1>22. ASSUME NEW q \in Procs PROVE Seated(proc'[q], lines')
  <2>1. Seated(proc[q], lines)
    BY DEF OrderInv
  <2>2. CASE q = x
    BY <1>8, <1>9, <2>2 DEF Seated
  <2>3. CASE q # x
    BY <1>5, <1>9, <2>1, <2>3 DEF Seated
  <2> QED
    BY <2>2, <2>3
<1>23. OneShell'
  <2>1. \A q \in Procs : proc'[q].pc \in ShellPlaces => proc[q].pc \in ShellPlaces /\ proc'[q].parent = proc[q].parent
    BY <1>2, <1>8, <1>9 DEF ShellPlaces
  <2>2. proc'[1] = proc[1]
    BY <1>9, <1>14
  <2> QED
    BY <2>1, <2>2, OneShellKept DEF OrderInv
<1>24. \A m, a : <<m, a>> \in ran => m \in DOMAIN lines
  BY DEF OrderInv
<1>25. OnlyPrograms(RR, LL, CC, TT, ran)
  <2> SUFFICES ASSUME NEW q \in Procs, NEW k \in RR[q], Begun(TT, ran, LL[q], k) PROVE CC[q] = "prog"
    BY DEF OnlyPrograms
  <2>1. LL[q] \in DOMAIN lines
    BY <1>24 DEF Begun
  <2>2. q # x
    BY <1>5, <1>17, <2>1
  <2>3. k \in R[q] /\ LL[q] = L[q] /\ CC[q] = C[q] /\ TT[LL[q]] = T[L[q]]
    BY <1>10, <1>16, <2>1, <2>2
  <2>4. Begun(T, ran, L[q], k)
    BY <2>3 DEF Begun
  <2> QED
    BY <1>13, <2>3, <2>4 DEF OnlyPrograms
<1> QED
  BY <1>2, <1>5, <1>18, <1>20, <1>21, <1>22, <1>23, <1>24, <1>25 DEF OrderInv, R, RR, L, LL, P, PP, C, CC, T, TT, Procs

LEMMA ShellInitOrder ==
  ASSUME ShellInit
  PROVE  OrderInv
<1> DEFINE first == [Unused EXCEPT !.pc = "init", !.fds = Std]
           R == Zones  P == ParentOf  C == PlaceOf
<1>1. ASSUME NEW u, IsProc(u) PROVE [u EXCEPT !.pc = "init", !.fds = Std] = Process("init", u.cmd, u.line, Std, u.p, u.parent)
  BY ONLY <1>1, AssignPcFds, Zenon
<1>2. IsProc(Unused) /\ Unused.pc = "unused" /\ Unused.parent = 0
  BY DEF Unused, IsProc
<1>3. first = Process("init", Unused.cmd, Unused.line, Std, Unused.p, Unused.parent)
  BY <1>1, <1>2, Zenon
<1>4. proc = [q \in Procs |-> IF q = 1 THEN first ELSE Unused] /\ lines = <<>> /\ ran = {} /\ fails = 0
  BY DEF ShellInit
<1> HIDE DEF first
<1>5. first.pc = "init" /\ first.parent = 0
  BY <1>2, <1>3, ProcessFields
<1>6. 1 \in Procs /\ 0 \notin Procs
  BY ShellAssumption DEF Procs
<1>7. \A q \in Procs : proc[q].parent = 0 /\ proc[q].pc = IF q = 1 THEN "init" ELSE "unused"
  BY <1>2, <1>4, <1>5
<1>8. \A q \in Procs : R[q] = {} /\ P[q] = 0 /\ C[q] = proc[q].pc
  BY <1>7 DEF Zones, Zone, ParentOf, PlaceOf
<1> HIDE DEF R, P, C
<1>9. \A p \in Procs : KidsIn(P, p) = {}
  BY <1>6, <1>8 DEF KidsIn
<1>10. KidsOK(C, P)
  BY <1>6, <1>8, <1>9 DEF KidsOK, KidsFit
<1>11. ZonesApart(R, LineOf) /\ Linked(R, LineOf, P, Trees) /\ OnlyPrograms(R, LineOf, C, Trees, ran)
  BY <1>8 DEF ZonesApart, Linked, OnlyPrograms
<1>12. OneShell
  BY <1>6, <1>7 DEF OneShell, ShellPlaces
<1>13. \A q \in Procs : Seated(proc[q], lines)
  BY <1>7 DEF Seated
<1> QED
  BY <1>4, <1>10, <1>11, <1>12, <1>13 DEF OrderInv, R, P, C

(* --- The order of a line's commands: the steps ------------------------------ *)

\* The tree of a process and the node that it is at.
LEMMA Where ==
  ASSUME ShellInv, OrderInv, NEW x \in Procs,
         \/ proc[x].pc \in {"prog", "listwait", "left", "right", "leftends", "rightends", "close", "wait1", "wait2"}
         \/ proc[x].pc = "run" /\ proc[x].cmd # 0
  PROVE  /\ proc[x].line \in DOMAIN lines /\ Built(Trees[proc[x].line])
         /\ Trees[proc[x].line] = lines[proc[x].line].tree /\ Trees[proc[x].line] = Tree(proc[x].line)
         /\ proc[x].cmd \in DOMAIN Trees[proc[x].line] /\ proc[x].cmd # 0
         /\ Node(x) = Trees[proc[x].line][proc[x].cmd]
         /\ proc[x].pc = "prog" => Node(x).type = "EXEC"
         /\ proc[x].pc = "listwait" => Node(x).type = "LIST"
         /\ proc[x].pc \in {"left", "right", "close", "wait1", "wait2"} => Node(x).type = "PIPE"
         /\ Inside(Node(x)) \subseteq DOMAIN Trees[proc[x].line] /\ 0 \notin Inside(Node(x))
<1>1. Fine(proc[x], lines) /\ Seated(proc[x], lines)
  BY DEF ShellInv, OrderInv
<1>2. /\ proc[x].line \in DOMAIN lines /\ proc[x].cmd \in DOMAIN lines[proc[x].line].tree
      /\ proc[x].pc = "prog" => lines[proc[x].line].tree[proc[x].cmd].type = "EXEC"
      /\ proc[x].pc = "listwait" => lines[proc[x].line].tree[proc[x].cmd].type = "LIST"
      /\ proc[x].pc \in {"left", "right", "close", "wait1", "wait2"} => lines[proc[x].line].tree[proc[x].cmd].type = "PIPE"
  BY <1>1, InTree
<1>3. Trees[proc[x].line] = lines[proc[x].line].tree /\ Built(Trees[proc[x].line])
  BY <1>2, TreesAt
<1>4. Node(x) = Trees[proc[x].line][proc[x].cmd] /\ Trees[proc[x].line] = Tree(proc[x].line)
  BY <1>3 DEF Node, Tree
<1> DEFINE tree == Trees[proc[x].line]
<1>5. Built(tree) /\ proc[x].cmd \in DOMAIN tree /\ Node(x) = tree[proc[x].cmd]
  BY <1>2, <1>3, <1>4
<1> HIDE DEF tree
<1>6. /\ Len(tree) \in Nat /\ DOMAIN tree = 1..Len(tree)
      /\ Inside(tree[proc[x].cmd]) \subseteq 1..proc[x].cmd-1
  BY <1>5, TreeIs
<1>7. proc[x].cmd # 0 /\ Inside(Node(x)) \subseteq DOMAIN tree /\ 0 \notin Inside(Node(x))
  BY <1>5, <1>6
<1> QED
  BY <1>2, <1>3, <1>4, <1>7 DEF tree

LEMMA NotInit ==
  ASSUME OrderInv, NEW x \in Procs, proc[x].pc \notin {"init", "initwait"}
  PROVE  x \in Procs \ {1}
BY DEF OrderInv, OneShell

LEMMA PcFields ==
  ASSUME NEW r, IsProc(r), NEW to
  PROVE  LET s == [r EXCEPT !.pc = to]
         IN  s.pc = to /\ s.cmd = r.cmd /\ s.line = r.line /\ s.parent = r.parent
BY AssignPc, ProcessFields

\* A process ends, and nothing of the line is its any more.
LEMMA ToExitOrder ==
  ASSUME ShellInv, OrderInv, NEW x \in Procs \ {1}, NEW s, s.pc = "exit", s.line = proc[x].line, s.parent = proc[x].parent,
         proc' = [proc EXCEPT ![x] = s], UNCHANGED <<lines, ran>>, fails' \in Nat,
         fails' = 0 => fails = 0 /\ proc[x].pc \in Childless
  PROVE  OrderInv'
<1>1. ZoneOf(s, Trees) = {}
  BY DEF ZoneOf, Zone
<1>2. \A K : KidsFit("exit", K)
  BY DEF KidsFit, Childless
<1>3. Moves(x, s) /\ Seated(s, lines)
  BY <1>1, <1>2 DEF Moves, ShellPlaces, Seated
<1>4. \A A : ZoneOf(s, Trees) \intersect A = {}
  BY <1>1
<1>5. proc[x].pc \in Childless => StillLinked(x, s)
  BY <1>4, Zenon DEF StillLinked
<1> QED
  BY <1>3, <1>5, MoveOrder

LEMMA PcExitOrder ==
  ASSUME ShellInv, OrderInv, NEW x \in Procs \ {1},
         proc' = [proc EXCEPT ![x].pc = "exit"], UNCHANGED <<lines, ran>>, fails' \in Nat,
         fails' = 0 => fails = 0 /\ proc[x].pc \in Childless
  PROVE  OrderInv'
<1> DEFINE s == [proc[x] EXCEPT !.pc = "exit"]
<1>1. IsProc(proc[x])
  BY DEF ShellInv, Fine
<1>2. proc' = [proc EXCEPT ![x] = s]
  OBVIOUS
<1>3. s.pc = "exit" /\ s.line = proc[x].line /\ s.parent = proc[x].parent
  BY <1>1, PcFields
<1> HIDE DEF s
<1> QED
  BY <1>2, <1>3, ToExitOrder

\* A process keeps what it has.
LEMMA SameZoneOrder ==
  ASSUME ShellInv, OrderInv, NEW x \in Procs \ {1}, NEW s, s.pc \notin ShellPlaces \union {"unused"},
         proc[x].pc # "prog", s.line = proc[x].line, s.parent = proc[x].parent, ZoneOf(s, Trees) = ZoneOf(proc[x], Trees),
         \A K : KidsFit(proc[x].pc, K) => KidsFit(s.pc, K), Seated(s, lines),
         proc' = [proc EXCEPT ![x] = s], UNCHANGED lines, ran' = ran \/ Starts(x, s), UNCHANGED fails
  PROVE  OrderInv'
<1>1. Moves(x, s) /\ StillLinked(x, s)
  BY DEF Moves, StillLinked
<1>2. fails' \in Nat /\ (fails' = 0 => fails = 0)
  BY DEF OrderInv
<1> QED
  BY <1>1, <1>2, MoveOrder

LEMMA ExecOrder ==
  ASSUME ShellInv, OrderInv, NEW x \in Procs, ExecProg(x)
  PROVE  OrderInv'
<1>1. proc[x].pc = "run" /\ proc[x].cmd # 0 /\ Node(x).type = "EXEC" /\ UNCHANGED <<lines, fails>>
  BY DEF ExecProg, Running, At
<1>2. x \in Procs \ {1} /\ fails \in Nat
  BY <1>1, NotInit DEF OrderInv
<1>3. CASE proc' = [proc EXCEPT ![x].pc = "exit"] /\ UNCHANGED ran
  BY <1>1, <1>2, <1>3, PcExitOrder DEF Childless
<1>4. CASE /\ proc' = [proc EXCEPT ![x].pc = "prog"]
           /\ ran' = ran \union {<<proc[x].line, Node(x).at>>}
  <2> DEFINE s == [proc[x] EXCEPT !.pc = "prog"]
             tree == Trees[proc[x].line]
  <2>1. IsProc(proc[x])
    BY DEF ShellInv, Fine
  <2>2. s.pc = "prog" /\ s.cmd = proc[x].cmd /\ s.line = proc[x].line /\ s.parent = proc[x].parent
    BY <2>1, PcFields
  <2>3. proc' = [proc EXCEPT ![x] = s]
    BY <1>4
  <2>4. Built(tree) /\ proc[x].cmd \in DOMAIN tree /\ tree[proc[x].cmd].type = "EXEC"
    BY <1>1, Where
  <2> HIDE DEF s, tree
  <2>5. Under(tree, proc[x].cmd) = {proc[x].cmd}
    BY <2>4, ExecParts
  <2>6. ZoneOf(s, Trees) = ZoneOf(proc[x], Trees)
    BY <1>1, <2>2, <2>5 DEF ZoneOf, Zone, tree
  <2>7. (\A K : KidsFit("run", K) => KidsFit("prog", K)) /\ Seated(s, lines) /\ s.pc \notin ShellPlaces \union {"unused"}
    BY <2>2 DEF KidsFit, Childless, Seated, ShellPlaces
  <2>8. Starts(x, s)
    <3>1. proc[x].line \in DOMAIN lines /\ Node(x) = tree[proc[x].cmd]
      BY <1>1, Where DEF tree
    <3>2. proc[x].cmd \in ZoneOf(proc[x], Trees)
      BY <1>1, <2>5 DEF ZoneOf, Zone, tree
    <3> QED
      BY <1>1, <1>4, <2>2, <2>4, <3>1, <3>2 DEF Starts, tree
  <2> QED
    BY <1>1, <1>2, <2>2, <2>3, <2>6, <2>7, <2>8, SameZoneOrder
<1> QED
  BY <1>3, <1>4, Zenon DEF ExecProg

LEMMA RedirOrder ==
  ASSUME ShellInv, OrderInv, NEW x \in Procs, RunRedir(x)
  PROVE  OrderInv'
<1> DEFINE node == Node(x)
           fds == Close(proc[x].fds, node.fd)
           new == Open(fds, <<"file", node.file>>)
           r == [proc[x] EXCEPT !.cmd = node.cmd, !.fds = new]
           s == [proc[x] EXCEPT !.pc = "exit", !.fds = fds]
           tree == Trees[proc[x].line]
<1>1. proc[x].pc = "run" /\ proc[x].cmd # 0 /\ node.type = "REDIR" /\ UNCHANGED <<lines, ran, fails>>
  BY DEF RunRedir, Running, At
<1>2. x \in Procs \ {1} /\ fails' \in Nat /\ proc[x].pc \in Childless /\ IsProc(proc[x])
  BY <1>1, NotInit DEF OrderInv, Childless, ShellInv, Fine
<1>3. proc' = [proc EXCEPT ![x] = r] \/ proc' = [proc EXCEPT ![x] = s]
  BY DEF RunRedir
<1>4. Built(tree) /\ proc[x].cmd \in DOMAIN tree /\ node = tree[proc[x].cmd] /\ Inside(node) \subseteq DOMAIN tree /\ 0 \notin Inside(node)
  BY <1>1, Where
<1> HIDE DEF new, fds, node, tree
<1>5. r = Process(proc[x].pc, node.cmd, proc[x].line, new, proc[x].p, proc[x].parent)
  BY <1>2, AssignCmdFds, Zenon
<1>6. s = Process("exit", proc[x].cmd, proc[x].line, fds, proc[x].p, proc[x].parent)
  BY <1>2, AssignPcFds, Zenon
<1> HIDE DEF r, s
<1>7. CASE proc' = [proc EXCEPT ![x] = s]
  <2>1. s.pc = "exit" /\ s.line = proc[x].line /\ s.parent = proc[x].parent
    BY <1>6, ProcessFields
  <2> QED
    BY <1>1, <1>2, <1>7, <2>1, ToExitOrder
<1>8. CASE proc' = [proc EXCEPT ![x] = r]
  <2>1. r.pc = "run" /\ r.cmd = node.cmd /\ r.line = proc[x].line /\ r.parent = proc[x].parent
    BY <1>1, <1>5, ProcessFields
  <2>2. node.cmd # 0
    BY <1>1, <1>4 DEF Inside
  <2>3. ZoneOf(proc[x], Trees) = Under(tree, proc[x].cmd) /\ ZoneOf(r, Trees) = Under(tree, node.cmd)
    BY <1>1, <2>1, <2>2 DEF ZoneOf, Zone, tree
  <2>4. /\ Under(tree, node.cmd) \subseteq Under(tree, proc[x].cmd)
        /\ \A j, c : Link(tree, j, c) /\ j \in Under(tree, proc[x].cmd) => j \in Under(tree, node.cmd)
    BY <1>1, <1>4, RedirParts
  <2>5. Moves(x, r) /\ Seated(r, lines)
    BY <1>1, <2>1, <2>3, <2>4 DEF Moves, Seated, ShellPlaces
  <2>6. \A k, c : Link(tree, k, c) /\ k \in ZoneOf(proc[x], Trees) => k \in ZoneOf(r, Trees)
    BY <2>3, <2>4
  <2>7. StillLinked(x, r)
    BY <1>2, <2>6, Zenon DEF StillLinked, tree
  <2> QED
    BY <1>1, <1>2, <1>8, <2>5, <2>7, MoveOrder
<1> QED
  BY <1>3, <1>7, <1>8

LEMMA PipeOrder ==
  ASSUME ShellInv, OrderInv, NEW x \in Procs, RunPipe(x)
  PROVE  OrderInv'
<1> DEFINE rd == Lowest(proc[x].fds)
           opened == Open(proc[x].fds, ReadEnd(proc[x].cmd))
           ends == <<rd, Lowest(opened)>>
           new == Open(opened, WriteEnd(proc[x].cmd))
           s == Switched(proc[x], new, "left", ends)
<1>1. proc[x].pc = "run" /\ proc[x].cmd # 0 /\ UNCHANGED <<lines, ran>>
  BY DEF RunPipe, Running, At
<1>2. x \in Procs \ {1} /\ IsProc(proc[x]) /\ fails \in Nat
  BY <1>1, NotInit DEF OrderInv, ShellInv, Fine
<1>3. \/ proc' = [proc EXCEPT ![x] = s] /\ UNCHANGED fails
      \/ proc' = [proc EXCEPT ![x].pc = "exit"] /\ fails' = fails + 1
  BY DEF RunPipe, Switched
<1> HIDE DEF new, ends
<1>4. s = Process("left", proc[x].cmd, proc[x].line, new, ends, proc[x].parent)
  BY <1>2, AssignFdsPcP
<1> HIDE DEF s
<1>5. s.pc = "left" /\ s.cmd = proc[x].cmd /\ s.line = proc[x].line /\ s.parent = proc[x].parent
  BY <1>4, ProcessFields
<1>6. ZoneOf(s, Trees) = ZoneOf(proc[x], Trees)
  BY <1>1, <1>5 DEF ZoneOf, Zone
<1>7. (\A K : KidsFit("run", K) => KidsFit("left", K)) /\ Seated(s, lines) /\ s.pc \notin ShellPlaces \union {"unused"}
  BY <1>5 DEF KidsFit, Childless, Seated, ShellPlaces
<1>8. CASE proc' = [proc EXCEPT ![x] = s] /\ UNCHANGED fails
  BY <1>1, <1>2, <1>5, <1>6, <1>7, <1>8, SameZoneOrder
<1>9. CASE proc' = [proc EXCEPT ![x].pc = "exit"] /\ fails' = fails + 1
  <2>1. fails' \in Nat /\ fails' # 0
    BY <1>2, <1>9
  <2> QED
    BY <1>1, <1>2, <1>9, <2>1, PcExitOrder
<1> QED
  BY <1>3, <1>8, <1>9

LEMMA EndsOrder ==
  ASSUME ShellInv, OrderInv, NEW x \in Procs, PipeEnds(x)
  PROVE  OrderInv'
<1>1. ASSUME NEW from, NEW to, NEW fds, proc[x].pc = from, <<from, to>> \in {<<"leftends", "run">>, <<"rightends", "run">>, <<"close", "wait1">>},
             UNCHANGED <<lines, ran, fails>>, proc' = [proc EXCEPT ![x] = Switched(proc[x], fds, to, <<>>)]
      PROVE  OrderInv'
  <2> DEFINE s == Switched(proc[x], fds, to, <<>>)
  <2>1. x \in Procs \ {1} /\ IsProc(proc[x])
    BY <1>1, NotInit DEF ShellInv, Fine
  <2>2. s = Process(to, proc[x].cmd, proc[x].line, fds, <<>>, proc[x].parent)
    BY <2>1, AssignFdsPcP
  <2>3. proc' = [proc EXCEPT ![x] = s]
    BY <1>1
  <2> HIDE DEF s
  <2>4. s.pc = to /\ s.cmd = proc[x].cmd /\ s.line = proc[x].line /\ s.parent = proc[x].parent
    BY <2>2, ProcessFields
  <2>5. \/ from \in {"leftends", "rightends"} /\ to = "run"
        \/ from = "close" /\ to = "wait1"
    BY <1>1
  <2>6. ZoneOf(s, Trees) = ZoneOf(proc[x], Trees)
    BY <1>1, <2>4, <2>5 DEF ZoneOf, Zone
  <2>7. \A K : KidsFit(proc[x].pc, K) => KidsFit(s.pc, K)
    BY <1>1, <2>4, <2>5 DEF KidsFit, Childless
  <2>8. Seated(proc[x], lines)
    BY DEF OrderInv
  <2>9. Seated(s, lines) /\ s.pc \notin ShellPlaces \union {"unused"}
    BY <1>1, <2>4, <2>5, <2>8 DEF Seated, ShellPlaces
  <2> QED
    BY <1>1, <2>1, <2>3, <2>4, <2>6, <2>7, <2>9, SameZoneOrder
<1>2. CASE Ends(x, "leftends", "run", LeftEnds)
  <2>1. proc' = [proc EXCEPT ![x] = Switched(proc[x], LeftEnds(proc[x].fds, proc[x].p), "run", <<>>)]
    BY <1>2 DEF Ends, Switched
  <2>2. proc[x].pc = "leftends" /\ UNCHANGED <<lines, ran, fails>>
    BY <1>2 DEF Ends, At
  <2> QED
    BY <1>1, <2>1, <2>2
<1>3. CASE Ends(x, "rightends", "run", RightEnds)
  <2>1. proc' = [proc EXCEPT ![x] = Switched(proc[x], RightEnds(proc[x].fds, proc[x].p), "run", <<>>)]
    BY <1>3 DEF Ends, Switched
  <2>2. proc[x].pc = "rightends" /\ UNCHANGED <<lines, ran, fails>>
    BY <1>3 DEF Ends, At
  <2> QED
    BY <1>1, <2>1, <2>2
<1>4. CASE Ends(x, "close", "wait1", ParentEnds)
  <2>1. proc' = [proc EXCEPT ![x] = Switched(proc[x], ParentEnds(proc[x].fds, proc[x].p), "wait1", <<>>)]
    BY <1>4 DEF Ends, Switched
  <2>2. proc[x].pc = "close" /\ UNCHANGED <<lines, ran, fails>>
    BY <1>4 DEF Ends, At
  <2> QED
    BY <1>1, <2>1, <2>2
<1> QED
  BY <1>2, <1>3, <1>4 DEF PipeEnds

\* Where the calls of fork1 are made, and where the two go on.
ForksTo(from, to, childPc) ==
  \/ from = "typed" /\ to = "shwait" /\ childPc = "run"
  \/ from = "run" /\ to \in {"listwait", "exit"} /\ childPc = "run"
  \/ from = "left" /\ to = "right" /\ childPc = "leftends"
  \/ from = "right" /\ to = "close" /\ childPc = "rightends"

LEMMA ForkPlaces ==
  ASSUME NEW from, NEW to, NEW childPc, ForksTo(from, to, childPc)
  PROVE  /\ from \notin {"init", "initwait", "unused", "prog"} /\ to \notin {"unused", "wait1", "wait2"}
         /\ childPc \in Childless \ {"unused"} /\ childPc \notin ShellPlaces
         /\ to \in ShellPlaces => from \in ShellPlaces
         /\ to = "shwait" => from = "typed"
         /\ to = "close" => from = "right"
         /\ \A K, n : KidsFit(from, K) => KidsFit(to, K \union {n})
<1>1. CASE from # "right"
  <2>1. from \in Childless /\ \A n : KidsFit(to, {n})
    BY <1>1 DEF ForksTo, Childless, KidsFit
  <2>2. \A K, n : KidsFit(from, K) => K \union {n} = {n}
    BY <2>1 DEF KidsFit
  <2> QED
    BY <1>1, <2>1, <2>2 DEF ForksTo, Childless, ShellPlaces
<1>2. CASE from = "right"
  <2>1. ASSUME NEW K, NEW n, KidsFit("right", K) PROVE KidsFit("close", K \union {n})
    <3>1. \A a, b \in K : a = b
      BY <2>1 DEF KidsFit
    <3>2. \E a : K \subseteq {a}
      BY <3>1
    <3>3. \E a, b : K \union {n} \subseteq {a, b}
      BY <3>2
    <3> QED
      BY <3>3 DEF KidsFit, Childless
  <2> QED
    BY <1>2, <2>1 DEF ForksTo, Childless, ShellPlaces
<1> QED
  BY <1>1, <1>2

\* A call of fork1 that succeeds splits the zone, and one that fails ends x.
LEMMA Fork1Order ==
  ASSUME ShellInv, OrderInv, NEW x \in Procs, NEW to, NEW childPc, NEW cmd, Fork1(x, to, childPc, cmd),
         NEW from, from = proc[x].pc, ForksTo(from, to, childPc), NEW tree, tree = Trees[proc[x].line],
         Parts(tree, Zone(tree, from, proc[x].cmd), Zone(tree, to, proc[x].cmd), Zone(tree, childPc, cmd))
  PROVE  OrderInv'
<1> DEFINE s == [proc[x] EXCEPT !.pc = to]
           ch == Copied(proc[x], childPc, cmd, x)
<1>1. x \in Procs \ {1} /\ IsProc(proc[x]) /\ UNCHANGED <<lines, ran>>
  BY ForkPlaces, NotInit DEF ShellInv, Fine, Fork1
<1>2. s.pc = to /\ s.cmd = proc[x].cmd /\ s.line = proc[x].line /\ s.parent = proc[x].parent
  BY <1>1, PcFields
<1>3. ch = Process(childPc, cmd, proc[x].line, proc[x].fds, proc[x].p, x)
  BY <1>1, AssignPcCmdParent
<1>4. CASE Forked(x, to, childPc, cmd)
  <2>1. proc' = [proc EXCEPT ![x] = s, ![Min(Free)] = ch] /\ Free # {} /\ UNCHANGED fails
    BY <1>4 DEF Forked, Copied
  <2> HIDE DEF s, ch
  <2>2. ch.pc = childPc /\ ch.cmd = cmd /\ ch.line = proc[x].line /\ ch.parent = x
    BY <1>3, ProcessFields
  <2>3. /\ ZoneOf(proc[x], Trees) = Zone(tree, proc[x].pc, proc[x].cmd)
        /\ ZoneOf(s, Trees) = Zone(tree, to, proc[x].cmd)
        /\ ZoneOf(ch, Trees) = Zone(tree, childPc, cmd)
    BY <1>2, <2>2 DEF ZoneOf
  <2>4. Splits(x, s, ch)
    <3>1. /\ from # "prog" /\ to # "unused" /\ childPc \in Childless \ {"unused"} /\ childPc \notin ShellPlaces
          /\ to \in ShellPlaces => from \in ShellPlaces
          /\ \A K, n : KidsFit(from, K) => KidsFit(to, K \union {n})
      BY ForkPlaces
    <3>2. Parts(Trees[proc[x].line], ZoneOf(proc[x], Trees), ZoneOf(s, Trees), ZoneOf(ch, Trees))
      BY <2>3
    <3> QED
      BY <1>2, <2>2, <3>1, <3>2 DEF Splits
  <2>5. Seated(ch, lines)
    BY <2>2, ForkPlaces DEF Seated, Childless
  <2>6. Seated(s, lines)
    <3>1. from = "typed" => proc[x].line \in DOMAIN lines
      BY DEF ShellInv, Fine
    <3>2. from = "right" => /\ proc[x].line \in DOMAIN lines /\ proc[x].cmd \in DOMAIN lines[proc[x].line].tree
                          /\ lines[proc[x].line].tree[proc[x].cmd].type = "PIPE"
      BY InTree DEF ShellInv, OrderInv
    <3> QED
      BY <1>2, <3>1, <3>2, ForkPlaces DEF Seated
  <2> QED
    BY <1>1, <2>1, <2>4, <2>5, <2>6, ForkPlaces, ForkOrder
<1>5. CASE proc' = [proc EXCEPT ![x].pc = "exit"] /\ fails' = fails + 1
  <2>1. fails' \in Nat /\ fails' # 0
    BY <1>5 DEF OrderInv
  <2> QED
    BY <1>1, <1>5, <2>1, PcExitOrder
<1> QED
  BY <1>4, <1>5 DEF Fork1

LEMMA ShForkOrder ==
  ASSUME ShellInv, OrderInv, NEW x \in Procs, ShFork(x)
  PROVE  OrderInv'
<1> DEFINE tree == Trees[proc[x].line]
<1>1. proc[x].pc = "typed" /\ proc[x].line \in DOMAIN lines
  BY DEF ShFork, At, ShellInv, Fine
<1>2. Built(tree) /\ tree = Tree(proc[x].line) /\ Len(tree) \in Nat
  BY <1>1, TreesAt, TreeIs DEF Tree
<1>3. Fork1(x, "shwait", "run", Len(tree))
  BY <1>2 DEF ShFork
<1>6. tree = Trees[proc[x].line]
  OBVIOUS
<1> HIDE DEF tree
<1>4. Parts(tree, Zone(tree, "typed", proc[x].cmd), Zone(tree, "shwait", proc[x].cmd), Zone(tree, "run", Len(tree)))
  <2>1. CASE Len(tree) # 0
    BY <1>2, <2>1, RootParts DEF Zone
  <2>2. CASE Len(tree) = 0
    <3>1. Under(tree, Len(tree)) = {}
      BY <1>2, <2>2, UnderIs, TreeIs
    <3>2. /\ Zone(tree, "typed", proc[x].cmd) = {Len(tree) + 1} /\ Zone(tree, "shwait", proc[x].cmd) = {Len(tree) + 1}
          /\ Zone(tree, "run", Len(tree)) = {}
      BY <2>2, <3>1 DEF Zone
    <3> QED
      BY <3>2 DEF Parts
  <2> QED
    BY <2>1, <2>2
<1>5. ForksTo("typed", "shwait", "run")
  BY DEF ForksTo
<1> QED
  BY <1>6, <1>1, <1>3, <1>4, <1>5, Fork1Order

LEMMA ListOrder ==
  ASSUME ShellInv, OrderInv, NEW x \in Procs, RunList(x)
  PROVE  OrderInv'
<1> DEFINE tree == Trees[proc[x].line]
           k == proc[x].cmd
<1>1. proc[x].pc = "run" /\ k # 0 /\ Node(x).type = "LIST" /\ Fork1(x, "listwait", "run", Node(x).left)
  BY DEF RunList, Running, At
<1>2. Built(tree) /\ k \in DOMAIN tree /\ Node(x) = tree[k] /\ 0 \notin Inside(Node(x))
  BY <1>1, Where
<1>6. tree = Trees[proc[x].line]
  OBVIOUS
<1> HIDE DEF tree
<1>3. tree[k].left # 0
  BY <1>1, <1>2 DEF Inside
<1>4. Parts(tree, Zone(tree, "run", k), Zone(tree, "listwait", k), Zone(tree, "run", tree[k].left))
  BY <1>1, <1>2, <1>3, ListParts DEF Zone
<1>5. ForksTo("run", "listwait", "run")
  BY DEF ForksTo
<1> QED
  BY <1>6, <1>1, <1>2, <1>4, <1>5, Fork1Order

LEMMA BackOrder ==
  ASSUME ShellInv, OrderInv, NEW x \in Procs, RunBack(x)
  PROVE  OrderInv'
<1> DEFINE tree == Trees[proc[x].line]
           k == proc[x].cmd
<1>1. proc[x].pc = "run" /\ k # 0 /\ Node(x).type = "BACK" /\ Fork1(x, "exit", "run", Node(x).cmd)
  BY DEF RunBack, Running, At
<1>2. Built(tree) /\ k \in DOMAIN tree /\ Node(x) = tree[k] /\ 0 \notin Inside(Node(x))
  BY <1>1, Where
<1>6. tree = Trees[proc[x].line]
  OBVIOUS
<1> HIDE DEF tree
<1>3. tree[k].cmd # 0
  BY <1>1, <1>2 DEF Inside
<1>4. Parts(tree, Zone(tree, "run", k), Zone(tree, "exit", k), Zone(tree, "run", tree[k].cmd))
  BY <1>1, <1>2, <1>3, BackParts DEF Zone
<1>5. ForksTo("run", "exit", "run")
  BY DEF ForksTo
<1> QED
  BY <1>6, <1>1, <1>2, <1>4, <1>5, Fork1Order

LEMMA SidesOrder ==
  ASSUME ShellInv, OrderInv, NEW x \in Procs, ForkLeft(x) \/ ForkRight(x)
  PROVE  OrderInv'
<1> DEFINE tree == Trees[proc[x].line]
           k == proc[x].cmd
<1>1. \/ proc[x].pc = "left" /\ Fork1(x, "right", "leftends", Node(x).left)
      \/ proc[x].pc = "right" /\ Fork1(x, "close", "rightends", Node(x).right)
  BY DEF ForkLeft, ForkRight, At
<1>2. Built(tree) /\ k \in DOMAIN tree /\ k # 0 /\ Node(x) = tree[k] /\ tree[k].type = "PIPE" /\ 0 \notin Inside(tree[k])
  BY <1>1, Where
<1>6. tree = Trees[proc[x].line]
  OBVIOUS
<1> HIDE DEF tree
<1>3. tree[k].left # 0 /\ tree[k].right # 0
  BY <1>2 DEF Inside
<1>4. CASE proc[x].pc = "left" /\ Fork1(x, "right", "leftends", Node(x).left)
  <2>1. Parts(tree, Zone(tree, "left", k), Zone(tree, "right", k), Zone(tree, "leftends", tree[k].left))
    BY <1>2, <1>3, PipeParts DEF Zone
  <2>2. ForksTo("left", "right", "leftends")
    BY DEF ForksTo
  <2> QED
    BY <1>6, <1>2, <1>4, <2>1, <2>2, Fork1Order
<1>5. CASE proc[x].pc = "right" /\ Fork1(x, "close", "rightends", Node(x).right)
  <2>1. Parts(tree, Zone(tree, "right", k), Zone(tree, "close", k), Zone(tree, "rightends", tree[k].right))
    BY <1>2, <1>3, PipeParts DEF Zone
  <2>2. ForksTo("right", "close", "rightends")
    BY DEF ForksTo
  <2> QED
    BY <1>6, <1>2, <1>5, <2>1, <2>2, Fork1Order
<1> QED
  BY <1>1, <1>4, <1>5

WaitsTo(from, to) ==
  \/ from = "shwait" /\ to = "prompt"
  \/ from = "listwait" /\ to = "run"
  \/ from = "wait1" /\ to = "wait2"
  \/ from = "wait2" /\ to = "exit"

\* A step that waits, and then goes on at another place and to another node.
LEMMA WaitsOrder ==
  ASSUME ShellInv, OrderInv, NEW x \in Procs, NEW c \in Waited(x), NEW s, Wait(x, c, s), IsProc(s),
         s.line = proc[x].line, s.parent = proc[x].parent,
         WaitsTo(proc[x].pc, s.pc),
         proc[x].pc = "listwait" => s.cmd = Node(x).right,
         proc[x].pc = "wait1" => s.cmd = proc[x].cmd
  PROVE  OrderInv'
<1> DEFINE tree == Trees[proc[x].line]
           k == proc[x].cmd
           from == proc[x].pc
           to == s.pc
<1>1. \/ from = "shwait" /\ to = "prompt"
      \/ from = "listwait" /\ to = "run"
      \/ from = "wait1" /\ to = "wait2"
      \/ from = "wait2" /\ to = "exit"
  BY DEF WaitsTo
<1>2. x \in Procs \ {1}
  BY <1>1, NotInit
<1>3. ASSUME NEW K, KidsFit(from, K), K = {} \/ c \in K PROVE KidsFit(to, K \ {c})
  <2>1. CASE from = "wait1"
    <3>1. PICK a, b : K \subseteq {a, b}
      BY <1>3, <2>1 DEF KidsFit
    <3>2. \A d, e \in K \ {c} : d = e
      BY <1>3, <3>1
    <3> QED
      BY <1>1, <2>1, <3>2 DEF KidsFit, Childless
  <2>2. CASE from # "wait1"
    <3>1. \A a, b \in K : a = b
      BY <1>1, <1>3, <2>2 DEF KidsFit
    <3>2. K \ {c} = {}
      BY <1>3, <3>1
    <3> QED
      BY <1>1, <2>2, <3>2 DEF KidsFit
  <2> QED
    BY <2>1, <2>2
<1>4. ASSUME from = "listwait"
      PROVE  /\ ZoneOf(proc[x], Trees) = {k} \union Under(tree, tree[k].right)
             /\ ZoneOf(s, Trees) = Under(tree, tree[k].right)
             /\ Built(tree) /\ k \in DOMAIN tree /\ tree[k].type = "LIST"
  <2>1. Built(tree) /\ k \in DOMAIN tree /\ Node(x) = tree[k] /\ tree[k].type = "LIST" /\ 0 \notin Inside(Node(x))
    BY <1>4, Where
  <2>2. tree[k].right # 0
    BY <2>1 DEF Inside
  <2> QED
    BY <1>1, <1>4, <2>1, <2>2 DEF ZoneOf, Zone
<1>5. from = "wait1" => ZoneOf(proc[x], Trees) = {k} /\ ZoneOf(s, Trees) = {k}
  BY <1>1 DEF ZoneOf, Zone
<1>6. from \in {"shwait", "wait2"} => ZoneOf(s, Trees) = {}
  BY <1>1 DEF ZoneOf, Zone
<1>7. Seated(s, lines)
  <2>1. Seated(proc[x], lines)
    BY DEF OrderInv
  <2> QED
    BY <1>1, <2>1 DEF Seated
<1> HIDE DEF tree, k
<1>8. Waits(x, c, s)
  <2>1. ZoneOf(s, Trees) \subseteq ZoneOf(proc[x], Trees)
    BY <1>1, <1>4, <1>5, <1>6
  <2>2. from # "zombie" /\ from # "prog" /\ to # "unused"
    BY <1>1
  <2>3. \A K : KidsFit(proc[x].pc, K) /\ (K = {} \/ c \in K) => KidsFit(s.pc, K \ {c})
    BY <1>3
  <2> QED
    BY <2>1, <2>2, <2>3 DEF Waits
<1>9. WaitedFor(x, s)
  <2>1. CASE from = "wait1"
    BY <1>5, <2>1 DEF WaitedFor
  <2>2. CASE from \in {"shwait", "wait2"}
    <3>1. \A A : ZoneOf(s, Trees) \intersect A = {}
      BY <1>6, <2>2
    <3> QED
      BY <1>2, <2>2, <3>1 DEF WaitedFor
  <2>3. CASE from = "listwait"
    <3>1. \A i, j : Link(tree, i, j) /\ i \in ZoneOf(proc[x], Trees) /\ i \notin ZoneOf(s, Trees) => ZoneOf(s, Trees) \intersect Onto(tree, j) = {}
      BY <1>4, <2>3, ListParts
    <3> QED
      BY <1>2, <2>3, <3>1, Zenon DEF WaitedFor, tree
  <2> QED
    BY <1>1, <2>1, <2>2, <2>3
<1>10. to \in ShellPlaces => from \in ShellPlaces
  BY <1>1 DEF ShellPlaces
<1>11. OneShell'
  BY <1>2, <1>8, <1>10, WaitOneShell
<1> QED
  BY <1>7, <1>8, <1>9, <1>11, WaitOrder

LEMMA ShWaitOrder ==
  ASSUME ShellInv, OrderInv, NEW x \in Procs, ShWait(x)
  PROVE  OrderInv'
<1> DEFINE s == [proc[x] EXCEPT !.pc = "prompt"]
<1>1. proc[x].pc = "shwait" /\ IsProc(proc[x])
  BY DEF ShWait, At, ShellInv, Fine
<1>2. PICK c \in Waited(x) : Wait(x, c, s)
  BY DEF ShWait
<1>3. s.pc = "prompt" /\ s.line = proc[x].line /\ s.parent = proc[x].parent /\ IsProc(s)
  BY <1>1, AssignPc, ProcessFields
<1> HIDE DEF s
<1> QED
  BY <1>1, <1>2, <1>3, WaitsOrder DEF WaitsTo

LEMMA ListWaitOrder ==
  ASSUME ShellInv, OrderInv, NEW x \in Procs, ListWait(x)
  PROVE  OrderInv'
<1> DEFINE s == [proc[x] EXCEPT !.pc = "run", !.cmd = Node(x).right]
<1>1. proc[x].pc = "listwait" /\ IsProc(proc[x])
  BY DEF ListWait, At, ShellInv, Fine
<1>2. PICK c \in Waited(x) : Wait(x, c, s)
  BY DEF ListWait
<1>3. s = Process("run", Node(x).right, proc[x].line, proc[x].fds, proc[x].p, proc[x].parent)
  BY <1>1, AssignPcCmd, Zenon
<1> HIDE DEF s
<1>4. s.pc = "run" /\ s.cmd = Node(x).right /\ s.line = proc[x].line /\ s.parent = proc[x].parent /\ IsProc(s)
  BY <1>3, ProcessFields
<1> QED
  BY <1>1, <1>2, <1>4, WaitsOrder DEF WaitsTo

LEMMA PipeWaitOrder ==
  ASSUME ShellInv, OrderInv, NEW x \in Procs, PipeWait(x)
  PROVE  OrderInv'
<1>1. ASSUME NEW to, NEW c \in Waited(x), Wait(x, c, [proc[x] EXCEPT !.pc = to]),
             WaitsTo(proc[x].pc, to), proc[x].pc # "listwait"
      PROVE  OrderInv'
  <2> DEFINE s == [proc[x] EXCEPT !.pc = to]
  <2>1. IsProc(proc[x])
    BY DEF ShellInv, Fine
  <2>2. s.pc = to /\ s.cmd = proc[x].cmd /\ s.line = proc[x].line /\ s.parent = proc[x].parent /\ IsProc(s)
    BY <2>1, AssignPc, ProcessFields
  <2>3. Wait(x, c, s)
    BY <1>1
  <2> HIDE DEF s
  <2> QED
    BY <1>1, <2>2, <2>3, WaitsOrder
<1>2. CASE At(x, "wait1") /\ \E c \in Waited(x) : Wait(x, c, [proc[x] EXCEPT !.pc = "wait2"])
  BY <1>1, <1>2 DEF At, WaitsTo
<1>3. CASE At(x, "wait2") /\ \E c \in Waited(x) : Wait(x, c, [proc[x] EXCEPT !.pc = "exit"])
  BY <1>1, <1>3 DEF At, WaitsTo
<1> QED
  BY <1>2, <1>3, Zenon DEF PipeWait

LEMMA OrderStep ==
  ASSUME ShellInv, OrderInv, [ShellNext]_shellVars
  PROVE  OrderInv'
<1>1. CASE UNCHANGED shellVars
  BY <1>1 DEF shellVars, OrderInv, OneShell, Zones, LineOf, ParentOf, PlaceOf, Trees, Procs
<1>2. CASE InitFork
  BY <1>2, InitForkOrder
<1>3. CASE InitWait
  BY <1>3, InitWaitOrder
<1>4. ASSUME NEW p \in Procs, Type(p) \/ Cd(p) \/ Eof(p) \/ Step(p) \/ Ended(p) PROVE OrderInv'
  <2>1. CASE Type(p) \/ Cd(p)
    BY <2>1, ReadsWhat, ReadsOrder
  <2>2. CASE Eof(p) \/ Ended(p)
    <3>1. /\ proc[p].pc \in {"prompt", "prog"} /\ UNCHANGED <<lines, ran, fails>>
          /\ proc' = [proc EXCEPT ![p].pc = "exit"]
      BY <2>2 DEF Eof, Ended, At
    <3>2. p \in Procs \ {1} /\ fails' \in Nat /\ (fails' = 0 => fails = 0 /\ proc[p].pc \in Childless)
      BY <3>1, NotInit DEF OrderInv, Childless
    <3> QED
      BY <3>1, <3>2, PcExitOrder
  <2>3. CASE ShFork(p)
    BY <2>3, ShForkOrder
  <2>4. CASE ShWait(p)
    BY <2>4, ShWaitOrder
  <2>5. CASE Exit(p)
    BY <2>5, ExitOrder
  <2>6. CASE RunCmd(p)
    BY <2>6, ExecOrder, RedirOrder, ListOrder, ListWaitOrder, PipeOrder, SidesOrder, EndsOrder, PipeWaitOrder,
       BackOrder DEF RunCmd
  <2>7. Step(p) => ShFork(p) \/ ShWait(p) \/ RunCmd(p) \/ Exit(p) \/ Ended(p)
    BY Zenon DEF Step, EndProg
  <2> QED
    BY <1>4, <2>1, <2>2, <2>3, <2>4, <2>5, <2>6, <2>7
<1> QED
  BY <1>1, <1>2, <1>3, <1>4 DEF ShellNext

(* --- The order of a line's commands: its programs ---------------------------- *)

\* The programs of some nodes.
Ats(tree, S) == {tree[j].at : j \in {i \in S : tree[i].type = "EXEC"}}

LEMMA ForeIs ==
  ASSUME NEW tree, Built(tree), NEW k \in DOMAIN tree
  PROVE  /\ k \in Fore(tree, k) /\ Fore(tree, k) \subseteq DOMAIN tree
         /\ \A j \in Fore(tree, k) : j = k \/ \E i \in Waiting(tree)[k] : j \in Fore(tree, i)
         /\ \A i \in Waiting(tree)[k] : i \in DOMAIN tree /\ i \in Inside(tree[k]) /\ Fore(tree, i) \subseteq Fore(tree, k)
<1> DEFINE E == Waiting(tree)
<1>1. IsGraph(E) /\ DOMAIN E = DOMAIN tree
  BY TreeIs
<1>2. E[k] \subseteq Inside(tree[k]) /\ E[k] \subseteq DOMAIN tree
  BY <1>1 DEF Waiting, IsGraph
<1> HIDE DEF E
<1>3. k \in Reach(E, k) /\ Reach(E, k) \subseteq DOMAIN E
  BY <1>1, ReachSelf DEF Reach
<1>4. \A j \in Reach(E, k) : j = k \/ \E i \in E[k] : j \in Reach(E, i)
  BY <1>1, ReachFirst
<1>5. \A i \in E[k] : i \in Reach(E, k)
  BY <1>1, <1>3, ReachStep
<1>6. \A i \in E[k] : Reach(E, i) \subseteq Reach(E, k)
  BY <1>1, <1>5, ReachOn
<1> QED
  BY <1>1, <1>2, <1>3, <1>4, <1>6 DEF Fore, E

LEMMA AwaitsAts ==
  ASSUME NEW tree, Built(tree), NEW k \in DOMAIN tree, NEW A,
         \A i \in Inside(tree[k]) : A[i] = Ats(tree, Fore(tree, i))
  PROVE  Awaits(A, tree, k) = Ats(tree, Fore(tree, k))
<1>1. tree[k].type \in {"EXEC", "REDIR", "LIST", "PIPE", "BACK"}
  BY DEF Built, IsTree
<1>2. CASE tree[k].type \in {"EXEC", "BACK"}
  <2>1. Waiting(tree)[k] = {}
    BY <1>2 DEF Waiting, Inside
  <2>2. Fore(tree, k) = {k}
    BY <2>1, ForeIs
  <2> QED
    BY <1>2, <2>2 DEF Awaits, Ats
<1>3. CASE tree[k].type \in {"REDIR", "LIST", "PIPE"}
  <2>1. Waiting(tree)[k] = Inside(tree[k])
    BY <1>3 DEF Waiting
  <2>2. Awaits(A, tree, k) = UNION {Ats(tree, Fore(tree, i)) : i \in Inside(tree[k])}
    BY <1>3 DEF Awaits
  <2>3. \A j \in Fore(tree, k) : j = k \/ \E i \in Inside(tree[k]) : j \in Fore(tree, i)
    BY <2>1, ForeIs
  <2>4. \A i \in Inside(tree[k]) : Fore(tree, i) \subseteq Fore(tree, k)
    BY <2>1, ForeIs
  <2>5. tree[k].type # "EXEC"
    BY <1>3
  <2>6. Ats(tree, Fore(tree, k)) \subseteq UNION {Ats(tree, Fore(tree, i)) : i \in Inside(tree[k])}
    BY <2>3, <2>5 DEF Ats
  <2>7. UNION {Ats(tree, Fore(tree, i)) : i \in Inside(tree[k])} \subseteq Ats(tree, Fore(tree, k))
    BY <2>4 DEF Ats
  <2> QED
    BY <2>2, <2>6, <2>7
<1> QED
  BY <1>1, <1>2, <1>3

\* The programs that a node's shell waits for are those of the nodes in its foreground.
LEMMA ForegroundIs ==
  ASSUME NEW tree, Built(tree), NEW k \in DOMAIN tree
  PROVE  Foreground(tree)[k] = Ats(tree, Fore(tree, k))
<1> DEFINE A == [j \in DOMAIN tree |-> Ats(tree, Fore(tree, j))]
           n == Len(tree)
<1>1. \A j \in DOMAIN tree : Inside(tree[j]) \subseteq 1..(j - 1) /\ Inside(tree[j]) \subseteq DOMAIN tree
  BY TreeIs
<1>2. n \in Nat /\ DOMAIN tree = 1..n
  BY TreeIs
<1>3. \A j \in DOMAIN tree : Awaits(A, tree, j) = Ats(tree, Fore(tree, j))
  <2> SUFFICES ASSUME NEW j \in DOMAIN tree PROVE Awaits(A, tree, j) = Ats(tree, Fore(tree, j))
    OBVIOUS
  <2>1. \A i \in Inside(tree[j]) : A[i] = Ats(tree, Fore(tree, i))
    BY <1>1
  <2> HIDE DEF A
  <2> QED
    BY <2>1, AwaitsAts
<1>4. A = [j \in DOMAIN tree |-> Awaits(A, tree, j)]
  <2> DEFINE X == [j \in DOMAIN tree |-> Awaits(A, tree, j)]
  <2>1. \A j \in DOMAIN tree : A[j] = X[j]
    BY <1>3
  <2> QED
    BY <2>1
<1>5. Foreground(tree) = CHOOSE F : F = [j \in DOMAIN tree |-> Awaits(F, tree, j)]
  BY Zenon DEF Foreground
<1> DEFINE G == Foreground(tree)
<1> HIDE DEF A
<1>6. G = [j \in DOMAIN tree |-> Awaits(G, tree, j)]
  BY <1>4, <1>5, Zenon
<1> HIDE DEF G
<1>7. \A j \in DOMAIN tree : G[j] = Awaits(G, tree, j)
  <2> DEFINE X == [j \in DOMAIN tree |-> Awaits(G, tree, j)]
  <2>1. \A j \in DOMAIN tree : X[j] = Awaits(G, tree, j)
    OBVIOUS
  <2> HIDE DEF X
  <2> QED
    BY <1>6, <2>1 DEF X
<1> DEFINE B == {m \in 0..n : \A j \in 1..m : G[j] = Ats(tree, Fore(tree, j))}
<1>8. 0 \in B
  BY <1>2
<1>9. ASSUME NEW m \in 0..(n - 1), m \in B PROVE m + 1 \in B
  <2>1. m + 1 \in DOMAIN tree /\ m + 1 \in 0..n /\ m \in Nat
    BY <1>2
  <2>2. \A i \in Inside(tree[m + 1]) : i \in 1..m
    BY <1>1, <2>1
  <2>3. \A i \in Inside(tree[m + 1]) : G[i] = Ats(tree, Fore(tree, i))
    BY <1>9, <2>2
  <2>4. G[m + 1] = Ats(tree, Fore(tree, m + 1))
    BY <1>7, <2>1, <2>3, AwaitsAts
  <2>5. \A j \in 1..(m + 1) : j \in 1..m \/ j = m + 1
    BY <2>1
  <2> QED
    BY <1>9, <2>1, <2>4, <2>5
<1> HIDE DEF B
<1>10. B \in SUBSET (0..n)
  BY DEF B
<1>11. n \in B
  BY <1>2, <1>8, <1>9, <1>10, Climb
<1> QED
  BY <1>2, <1>11 DEF B, G

LEMMA AtsIn ==
  ASSUME NEW tree, NEW S, NEW U, S \subseteq U
  PROVE  /\ Ats(tree, S) \subseteq Ats(tree, U)
         /\ \A j \in S : tree[j].type = "EXEC" => tree[j].at \in Ats(tree, S)
BY DEF Ats

\* The programs of some commands.
Named(cmds) == {w.at : w \in cmds}

LEMMA NamedIs ==
  /\ \A a, in, out : Named({[at |-> a, in |-> in, out |-> out]}) = {a}
  /\ \A A, B : Named(A \union B) = Named(A) \union Named(B)
BY DEF Named

LEMMA GivenNamed ==
  ASSUME NEW cmds, NEW in, NEW out
  PROVE  Named(Given(cmds, in, out)) = Named(cmds)
<1>1. \A w : Through(w, in, out).at = w.at
  BY DEF Through
<1>2. Named(Given(cmds, in, out)) \subseteq Named(cmds)
  BY <1>1 DEF Named, Given
<1>3. ASSUME NEW a \in Named(cmds) PROVE a \in Named(Given(cmds, in, out))
  <2>1. PICK w \in cmds : a = w.at
    BY DEF Named
  <2>2. Through(w, in, out) \in Given(cmds, in, out)
    BY DEF Given
  <2> QED
    BY <1>1, <2>1, <2>2 DEF Named
<1> QED
  BY <1>2, <1>3

LEMMA GetsNamed ==
  ASSUME NEW G, NEW tree, NEW k, tree[k].type \in {"EXEC", "REDIR", "LIST", "PIPE", "BACK"}, NEW U,
         tree[k].type = "EXEC" => tree[k].at \in U, \A i \in Inside(tree[k]) : Named(G[i]) \subseteq U
  PROVE  Named(Gets(G, tree, k)) \subseteq U
<1>1. CASE tree[k].type = "EXEC"
  <2>1. Gets(G, tree, k) = {[at |-> tree[k].at, in |-> None, out |-> None]}
    BY <1>1 DEF Gets
  <2>2. Named({[at |-> tree[k].at, in |-> None, out |-> None]}) = {tree[k].at}
    BY NamedIs, Zenon
  <2> QED
    BY <1>1, <2>1, <2>2
<1>2. CASE tree[k].type = "REDIR"
  <2>1. tree[k].cmd \in Inside(tree[k])
    BY <1>2 DEF Inside
  <2>2. PICK in, out : Gets(G, tree, k) = Given(G[tree[k].cmd], in, out)
    BY <1>2 DEF Gets
  <2>3. Named(Gets(G, tree, k)) = Named(G[tree[k].cmd])
    BY <2>2, GivenNamed, Zenon
  <2> QED
    BY <2>1, <2>3
<1>3. CASE tree[k].type = "BACK"
  <2>1. tree[k].cmd \in Inside(tree[k]) /\ Gets(G, tree, k) = G[tree[k].cmd]
    BY <1>3 DEF Inside, Gets
  <2> QED
    BY <2>1
<1>4. CASE tree[k].type = "LIST"
  <2>1. /\ tree[k].left \in Inside(tree[k]) /\ tree[k].right \in Inside(tree[k])
        /\ Gets(G, tree, k) = G[tree[k].left] \union G[tree[k].right]
    BY <1>4 DEF Inside, Gets
  <2>2. Named(Gets(G, tree, k)) = Named(G[tree[k].left]) \union Named(G[tree[k].right])
    BY <2>1, NamedIs, Zenon
  <2> QED
    BY <2>1, <2>2
<1>5. CASE tree[k].type = "PIPE"
  <2> DEFINE A == Given(G[tree[k].left], None, WriteEnd(k))
             B == Given(G[tree[k].right], ReadEnd(k), None)
  <2>1. tree[k].left \in Inside(tree[k]) /\ tree[k].right \in Inside(tree[k]) /\ Gets(G, tree, k) = A \union B
    BY <1>5 DEF Inside, Gets
  <2>2. Named(A) = Named(G[tree[k].left]) /\ Named(B) = Named(G[tree[k].right])
    BY GivenNamed
  <2> HIDE DEF A, B
  <2>3. Named(Gets(G, tree, k)) = Named(A) \union Named(B)
    BY <2>1, NamedIs, Zenon
  <2> QED
    BY <2>1, <2>2, <2>3
<1> QED
  BY <1>1, <1>2, <1>3, <1>4, <1>5

\* The programs of a node are those of the nodes under it.
LEMMA LeavesIs ==
  ASSUME NEW tree, Built(tree), NEW k \in DOMAIN tree
  PROVE  Leaves(tree, k) \subseteq Ats(tree, Under(tree, k))
<1> DEFINE n == Len(tree)
           G == Wiring(tree)
           B == {m \in 0..n : \A j \in 1..m : Named(G[j]) \subseteq Ats(tree, Under(tree, j))}
<1>1. n \in Nat /\ DOMAIN tree = 1..n
  BY TreeIs
<1>2. \A j \in DOMAIN tree : G[j] = Gets(G, tree, j)
  BY WiringIs
<1> HIDE DEF G
<1>3. 0 \in B
  BY <1>1
<1>4. ASSUME NEW m \in 0..(n - 1), m \in B PROVE m + 1 \in B
  <2> DEFINE j == m + 1
  <2>1. j \in DOMAIN tree /\ j \in 0..n /\ m \in Nat /\ \A i \in 1..j : i \in 1..m \/ i = j
    BY <1>1
  <2>2. Inside(tree[j]) \subseteq 1..m
    BY <2>1, TreeIs
  <2> HIDE DEF j
  <2>3. j \in Under(tree, j) /\ \A i \in Inside(tree[j]) : Under(tree, i) \subseteq Under(tree, j)
    BY <2>1, UnderIs
  <2>4. ASSUME NEW i \in Inside(tree[j]) PROVE Named(G[i]) \subseteq Ats(tree, Under(tree, j))
    <3>1. Named(G[i]) \subseteq Ats(tree, Under(tree, i))
      BY <1>4, <2>2
    <3> QED
      BY <2>3, <3>1, AtsIn
  <2>5. tree[j].type = "EXEC" => tree[j].at \in Ats(tree, Under(tree, j))
    BY <2>3, AtsIn
  <2>6. tree[j].type \in {"EXEC", "REDIR", "LIST", "PIPE", "BACK"}
    BY <2>1 DEF Built, IsTree
  <2>7. Named(G[j]) \subseteq Ats(tree, Under(tree, j))
    <3> DEFINE U == Ats(tree, Under(tree, j))
    <3>1. G[j] = Gets(G, tree, j)
      BY <1>2, <2>1
    <3>2. (\A i \in Inside(tree[j]) : Named(G[i]) \subseteq U) /\ (tree[j].type = "EXEC" => tree[j].at \in U)
      BY <2>4, <2>5
    <3> HIDE DEF U
    <3>3. Named(Gets(G, tree, j)) \subseteq U
      BY <2>6, <3>2, GetsNamed
    <3> QED
      BY <3>1, <3>3 DEF U
  <2>8. \A i \in 1..j : Named(G[i]) \subseteq Ats(tree, Under(tree, i))
    BY <1>4, <2>1, <2>7
  <2>9. j \in B
    BY <2>1, <2>8
  <2> QED
    BY <2>9 DEF j
<1> HIDE DEF B
<1>5. B \in SUBSET (0..n)
  BY DEF B
<1>6. n \in B
  BY <1>1, <1>3, <1>4, <1>5, Climb
<1>7. Named(G[k]) \subseteq Ats(tree, Under(tree, k))
  BY <1>1, <1>6 DEF B
<1> QED
  BY <1>7 DEF G, Leaves, Named

(* --- The order of a line's commands: what it means --------------------------- *)

LEMMA UnderHas ==
  ASSUME NEW tree, Built(tree), NEW d, NEW k \in Under(tree, d)
  PROVE  k \in DOMAIN tree /\ k # Len(tree) + 1 /\ (tree[k].type = "LIST" => Under(tree, tree[k].right) \subseteq Under(tree, d))
<1>1. k \in DOMAIN tree /\ Inside(tree[k]) \subseteq Under(tree, d) /\ \A j \in Under(tree, d) : Under(tree, j) \subseteq Under(tree, d)
  BY UnderIs
<1>2. tree[k].type = "LIST" => tree[k].right \in Inside(tree[k])
  BY DEF Inside
<1> QED
  BY <1>1, <1>2, TreeIs

LEMMA ForeUnder ==
  ASSUME NEW tree, Built(tree), NEW k
  PROVE  Fore(tree, k) \subseteq Under(tree, k)
<1>1. \A i \in DOMAIN tree : Waiting(tree)[i] \subseteq Holding(tree)[i]
  BY DEF Waiting, Holding
<1> QED
  BY <1>1, TreeIs, ReachWithin DEF Fore, Under

\* Who has the place above a tree, or a list of it.
LEMMA Owner ==
  ASSUME ShellInv, OrderInv, NEW p \in Procs, NEW tree, tree = Trees[proc[p].line], NEW k \in Zones[p]
  PROVE  /\ k = Len(tree) + 1 => proc[p].pc \in ShellPlaces \ {"prompt"}
         /\ k \in DOMAIN tree /\ tree[k].type = "LIST" => proc[p].pc # "prog" /\ Under(tree, tree[k].right) \subseteq Zones[p]
<1> DEFINE cmd == proc[p].cmd
           to == proc[p].pc
           Z == Zones[p]
<1>1. Z = Zone(tree, to, cmd)
  BY DEF Zones
<1>2. proc[p].line \in DOMAIN lines
  BY <1>1, ZoneIn DEF ShellInv, OrderInv
<1>3. Built(tree) /\ Len(tree) \in Nat /\ DOMAIN tree = 1..Len(tree)
  BY <1>2, TreesAt, TreeIs
<1>4. Len(tree) + 1 \notin DOMAIN tree
  BY <1>3
<1>5. CASE to \in {"typed", "shwait"}
  <2> DEFINE d == Len(tree)
  <2>1. to \in ShellPlaces \ {"prompt"} /\ to # "prog"
    BY <1>5 DEF ShellPlaces
  <2>2. Z = {d + 1} \/ Z = {d + 1} \union Under(tree, d)
    BY <1>1, <1>5 DEF Zone
  <2> HIDE DEF d, Z
  <2>3. k = d + 1 \/ (k \in Under(tree, d) /\ Under(tree, d) \subseteq Z)
    BY <2>2 DEF Z
  <2> QED
    BY <1>3, <1>4, <2>1, <2>3, UnderHas DEF d, Z
<1>6. CASE to \in {"run", "leftends", "rightends", "left"}
  <2>1. k \in Under(tree, cmd) /\ Z = Under(tree, cmd)
    BY <1>1, <1>6 DEF Zone
  <2> QED
    BY <1>3, <1>6, <2>1, UnderHas
<1>7. CASE to \in {"prog", "close", "wait1", "wait2"}
  <2>1. k = cmd
    BY <1>1, <1>7 DEF Zone
  <2>2. cmd \in DOMAIN tree /\ tree[cmd].type \in {"EXEC", "PIPE"}
    BY <1>7, Where
  <2> QED
    BY <1>4, <2>1, <2>2
<1>8. CASE to \in {"listwait", "right"}
  <2>1. (k = cmd \/ k \in Under(tree, tree[cmd].right)) /\ Under(tree, tree[cmd].right) \subseteq Z
    BY <1>1, <1>8 DEF Zone
  <2>2. cmd \in DOMAIN tree
    BY <1>8, Where
  <2> QED
    BY <1>3, <1>4, <1>8, <2>1, <2>2, UnderHas
<1>9. to \in {"typed", "shwait", "run", "leftends", "rightends", "left", "prog", "close", "wait1", "wait2", "listwait", "right"}
  BY <1>1 DEF Zone
<1> QED
  BY <1>5, <1>6, <1>7, <1>8, <1>9

\* What is at work in a node that is waited for has somebody go on from it.
LEMMA Busy ==
  ASSUME NEW tree, Built(tree), NEW A, NEW i \in DOMAIN tree,
         \A k, c : Link(tree, k, c) /\ A \intersect Onto(tree, c) # {} => k \in A,
         A \intersect Fore(tree, i) # {}
  PROVE  A \intersect Onto(tree, i) # {}
<1> DEFINE Met(j) == A \intersect Onto(tree, j) # {}
           E == Waiting(tree)
           S == {j \in DOMAIN tree : Met(j) => Met(i)}
<1>1. DOMAIN E = DOMAIN tree /\ IsGraph(E)
  BY TreeIs
<1>2. \A j \in DOMAIN tree : j \in A => Met(j)
  BY OntoIs
<1>3. ASSUME NEW j \in DOMAIN tree, NEW h \in E[j], Met(h) PROVE Met(j)
  <2>1. tree[j].type \in {"EXEC", "REDIR", "LIST", "PIPE", "BACK"}
    BY DEF Built, IsTree
  <2>2. h \in Inside(tree[j]) /\ tree[j].type # "BACK"
    BY <1>3 DEF Waiting
  <2>3. CASE h \in Onward(tree[j])
    <3> DEFINE D == Going(tree)
    <3>1. D[j] = Onward(tree[j]) /\ IsGraph(D) /\ DOMAIN D = DOMAIN tree
      BY TreeIs DEF Going
    <3> HIDE DEF D
    <3>2. j \in Reach(D, j)
      BY <3>1, ReachSelf
    <3>3. h \in Reach(D, j)
      BY <2>3, <3>1, <3>2, ReachStep
    <3>4. Reach(D, h) \subseteq Reach(D, j)
      BY <3>1, <3>3, ReachOn
    <3> QED
      BY <1>3, <3>4 DEF Onto, D
  <2>4. CASE h \notin Onward(tree[j])
    <3>1. Link(tree, j, h)
      BY <2>1, <2>2, <2>4 DEF Inside, Onward, Link
    <3>2. j \in A
      BY <1>3, <3>1
    <3> QED
      BY <1>2, <3>2
  <2> QED
    BY <2>3, <2>4
<1> HIDE DEF Met
<1>4. \A j \in S : E[j] \subseteq S
  BY <1>1, <1>3 DEF IsGraph
<1>5. S \in SUBSET DOMAIN E /\ i \in S
  BY <1>1
<1> HIDE DEF S, E
<1>6. Reach(E, i) \subseteq S
  BY <1>4, <1>5, ReachLeast
<1>7. PICK j \in Fore(tree, i) : j \in A
  OBVIOUS
<1>8. j \in S
  BY <1>6, <1>7 DEF Fore, E
<1>9. Met(i)
  BY <1>2, <1>7, <1>8 DEF S
<1> QED
  BY <1>9 DEF Met

\* A program in use runs from its node.
LEMMA InUseAt ==
  ASSUME ShellInv, OrderInv, NEW n \in DOMAIN lines, NEW tree, tree = Trees[n], NEW U, U \subseteq DOMAIN tree,
         InUse(n, Ats(tree, U))
  PROVE  \E p \in Procs : proc[p].line = n /\ proc[p].pc = "prog" /\ proc[p].cmd \in U /\ Zones[p] = {proc[p].cmd}
<1>1. PICK p \in Procs : proc[p].pc = "prog" /\ proc[p].line = n /\ Node(p).at \in Ats(tree, U)
  BY DEF InUse, Programs, At
<1> DEFINE k == proc[p].cmd
<1>2. k \in DOMAIN tree /\ Node(p) = tree[k] /\ tree[k].type = "EXEC" /\ Built(tree)
  BY <1>1, Where
<1>3. Zones[p] = {k}
  BY <1>1 DEF Zones, Zone
<1> HIDE DEF k
<1>4. PICK j \in U : tree[j].type = "EXEC" /\ tree[j].at = tree[k].at
  BY <1>1, <1>2 DEF Ats
<1>5. j = k
  BY <1>2, <1>4 DEF Built, IsTree
<1> QED
  BY <1>1, <1>3, <1>4, <1>5 DEF k

LEMMA OrderInvInOrder ==
  ASSUME ShellInv, OrderInv
  PROVE  InOrder
<1> SUFFICES ASSUME fails = 0, NEW n \in DOMAIN lines
             PROVE  /\ \A k \in Lists(Tree(n)) :
                         ~(InUse(n, Foreground(Tree(n))[Tree(n)[k].left]) /\ HasRun(n, Leaves(Tree(n), Tree(n)[k].right)))
                    /\ \A k \in {Len(Tree(n))} \ {0} :
                         InUse(n, Foreground(Tree(n))[k]) => \E p \in Procs : At(p, "shwait") /\ proc[p].line = n
  BY DEF InOrder
<1> DEFINE tree == Trees[n]
           A == UNION {Zones[p] : p \in {q \in Procs : proc[q].line = n}}
<1>1. Tree(n) = tree /\ Built(tree) /\ Len(tree) \in Nat /\ DOMAIN tree = 1..Len(tree)
  BY TreesAt, TreeIs DEF Tree
<1>2. \A k, c : Link(tree, k, c) /\ A \intersect Onto(tree, c) # {} => k \in A
  <2> SUFFICES ASSUME NEW k, NEW c, Link(tree, k, c), NEW i, i \in A, i \in Onto(tree, c) PROVE k \in A
    BY Zenon
  <2>1. PICK r \in Procs : proc[r].line = n /\ i \in Zones[r]
    OBVIOUS
  <2>2. \A q \in Procs : LineOf[q] = proc[q].line
    BY DEF LineOf
  <2>3. Linked(Zones, LineOf, ParentOf, Trees)
    BY DEF OrderInv
  <2>4. Link(Trees[LineOf[r]], k, c) /\ Zones[r] \intersect Onto(Trees[LineOf[r]], c) # {}
    BY <2>1, <2>2
  <2>5. \E p \in Procs : LineOf[p] = LineOf[r] /\ k \in Zones[p]
    BY <2>3, <2>4 DEF Linked
  <2> QED
    BY <2>1, <2>2, <2>5
<1>3. \A k \in A : \E p \in Procs : proc[p].line = n /\ k \in Zones[p]
  OBVIOUS
<1>4. \A p \in Procs : proc[p].line = n => Zones[p] \subseteq A
  OBVIOUS
<1>5. tree = Trees[n]
  OBVIOUS
<1> HIDE DEF tree, A
<1>6. ASSUME NEW i \in DOMAIN tree, InUse(n, Foreground(tree)[i]) PROVE \A k : Link(tree, k, i) => k \in A
  <2>1. Foreground(tree)[i] = Ats(tree, Fore(tree, i)) /\ Fore(tree, i) \subseteq DOMAIN tree
    BY <1>1, ForegroundIs, ForeIs
  <2>2. PICK p \in Procs : proc[p].line = n /\ proc[p].cmd \in Fore(tree, i) /\ Zones[p] = {proc[p].cmd}
    BY <1>5, <1>6, <2>1, InUseAt
  <2>3. A \intersect Fore(tree, i) # {}
    BY <1>4, <2>2
  <2>4. A \intersect Onto(tree, i) # {}
    BY <1>1, <1>2, <2>3, Busy
  <2> QED
    BY <1>2, <2>4
<1>7. ASSUME NEW k \in Lists(tree), InUse(n, Foreground(tree)[tree[k].left]), HasRun(n, Leaves(tree, tree[k].right))
      PROVE  FALSE
  <2> DEFINE l == tree[k].left
             m == tree[k].right
  <2>1. k \in DOMAIN tree /\ tree[k].type = "LIST"
    BY DEF Lists
  <2>2. Inside(tree[k]) = {l, m} /\ Link(tree, k, l)
    BY <2>1 DEF Inside, Link
  <2> HIDE DEF l, m
  <2>3. l \in DOMAIN tree /\ m \in DOMAIN tree
    <3>1. Inside(tree[k]) \subseteq 1..(k - 1) /\ k \in 1..Len(tree)
      BY <1>1, <2>1 DEF Built, IsTree
    <3> QED
      BY <1>1, <2>2, <3>1
  <2> USE DEF l, m
  <2>4. InUse(n, Foreground(tree)[l]) /\ HasRun(n, Leaves(tree, m))
    BY <1>7
  <2> HIDE DEF l
  <2>5. k \in A
    BY <1>6, <2>2, <2>3, <2>4
  <2>6. PICK p \in Procs : proc[p].line = n /\ k \in Zones[p]
    BY <1>3, <2>5
  <2>7. proc[p].pc # "prog" /\ Under(tree, m) \subseteq Zones[p]
    BY <1>5, <2>1, <2>6, Owner
  <2> HIDE DEF m
  <2>8. Leaves(tree, m) \subseteq Ats(tree, Under(tree, m)) /\ Under(tree, m) \subseteq DOMAIN tree
    BY <1>1, <2>3, LeavesIs, UnderIs
  <2>9. PICK a \in Leaves(tree, m) : <<n, a>> \in ran
    BY <2>4 DEF HasRun
  <2>10. PICK j \in Under(tree, m) : tree[j].type = "EXEC" /\ tree[j].at = a
    BY <2>8, <2>9 DEF Ats
  <2>11. Begun(Trees, ran, LineOf[p], j) /\ j \in Zones[p] /\ PlaceOf[p] # "prog"
    BY <1>5, <2>6, <2>7, <2>8, <2>9, <2>10 DEF Begun, LineOf, PlaceOf
  <2> QED
    BY <2>11 DEF OrderInv, OnlyPrograms
<1>8. ASSUME Len(tree) # 0, InUse(n, Foreground(tree)[Len(tree)])
      PROVE  \E p \in Procs : At(p, "shwait") /\ proc[p].line = n
  <2> DEFINE d == Len(tree)
  <2>1. d \in DOMAIN tree /\ Link(tree, d + 1, d) /\ InUse(n, Foreground(tree)[d])
    BY <1>1, <1>8 DEF Link
  <2> HIDE DEF d
  <2>2. d + 1 \in A
    BY <1>6, <2>1
  <2>3. PICK q \in Procs : proc[q].line = n /\ d + 1 \in Zones[q]
    BY <1>3, <2>2
  <2>4. proc[q].pc \in ShellPlaces \ {"prompt"}
    BY <1>5, <2>3, Owner DEF d
  <2>5. ASSUME proc[q].pc = "typed" PROVE FALSE
    <3>1. Zones[q] = {d + 1} \union Under(tree, d)
      BY <1>5, <2>3, <2>5 DEF Zones, Zone, d
    <3>2. Foreground(tree)[d] = Ats(tree, Fore(tree, d)) /\ Fore(tree, d) \subseteq DOMAIN tree /\ Fore(tree, d) \subseteq Under(tree, d)
      BY <1>1, <2>1, ForegroundIs, ForeIs, ForeUnder
    <3>3. PICK p \in Procs : proc[p].line = n /\ proc[p].pc = "prog" /\ proc[p].cmd \in Fore(tree, d) /\ Zones[p] = {proc[p].cmd}
      <4>1. InUse(n, Ats(tree, Fore(tree, d)))
        BY <2>1, <3>2
      <4>2. Fore(tree, d) \subseteq DOMAIN tree
        BY <3>2
      <4> QED
        BY <1>5, <4>1, <4>2, InUseAt
    <3>4. p # q /\ LineOf[p] = LineOf[q] /\ Zones[p] \intersect Zones[q] # {}
      BY <2>3, <2>5, <3>1, <3>2, <3>3 DEF LineOf
    <3> QED
      BY <3>4 DEF OrderInv, ZonesApart
  <2> QED
    BY <2>3, <2>4, <2>5 DEF ShellPlaces, At
<1> QED
  BY <1>1, <1>7, <1>8

\* Whatever the line, its tree and the order in which its processes run, and as
\* long as no call has failed: from the start of a program right of a ; on, none of
\* the commands left of it that runcmd waits for runs, and main waits, and does
\* not prompt, while one that is waited for runs.
THEOREM CommandsInOrder == ShellSpec => []InOrder
<1>1. ShellInit => ShellInv /\ OrderInv
  BY ShellInitInv, ShellInitOrder
<1>2. ShellInv /\ OrderInv /\ [ShellNext]_shellVars => ShellInv' /\ OrderInv'
  BY ShellStep, OrderStep
<1>3. ShellInv /\ OrderInv => InOrder
  BY OrderInvInOrder
<1> QED
  BY <1>1, <1>2, <1>3, PTL DEF ShellSpec

=============================================================================
