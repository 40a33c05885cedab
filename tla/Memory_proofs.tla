--------------------------- MODULE Memory_proofs ---------------------------
(***************************************************************************)
(* Proofs about Memory for any number of processes and pages and any page  *)
(* and table size: a page is in one place, a process has the pages that    *)
(* its size says, and no check of vm.c panics.                             *)
(***************************************************************************)
EXTENDS Memory, WellFoundedInduction, TLAPS

-----------------------------------------------------------------------------
(* The inductive invariant *)

Entry == Pages \union {0}
SpaceType == [dir : Entry, ktab : SUBSET Pages, utab : [Tables -> Entry], map : [VPages -> Entry]]
PCs == {"user", "unused", "embryo", "zombie", "alloc", "map", "setup", "kstack", "copy", "copymap",
        "fault"}
RecType == [pc : PCs, op : {"", "sbrk", "exec", "execstack", "fork"}, parent : Procs \union {0},
            kstack : Entry, as : SpaceType, sz : Nat, new : SpaceType, mem : Entry,
            va : Nat, end : Nat, child : Procs \union {0}]

\* The types, with the directory of every process.
TypeOK ==
  /\ free \subseteq Pages /\ lost \subseteq Pages /\ panic \in BOOLEAN
  /\ proc \in [Procs -> RecType]

\* No page is in two places of one address space.
Sound(s) ==
  /\ s.dir # 0 => /\ s.dir \notin s.ktab
                  /\ \A t \in Tables : s.utab[t] # s.dir
                  /\ \A v \in VPages : s.map[v] # s.dir
  /\ \A t \in Tables : s.utab[t] # 0 =>
       /\ s.utab[t] \notin s.ktab
       /\ \A u \in Tables : s.utab[u] = s.utab[t] => u = t
       /\ \A v \in VPages : s.map[v] # s.utab[t]
  /\ \A v \in VPages : s.map[v] # 0 =>
       /\ s.map[v] \notin s.ktab
       /\ \A w \in VPages : s.map[w] = s.map[v] => w = v

\* Nor in two of what a process holds: its kernel stack, its page not mapped yet,
\* its space and the one it builds.
Apart(r) ==
  /\ Sound(r.as) /\ Sound(r.new)
  /\ PagesOf(r.as) \cap PagesOf(r.new) = {}
  /\ r.kstack \notin PagesOf(r.as) \union PagesOf(r.new)
  /\ r.mem \notin PagesOf(r.as) \union PagesOf(r.new)
  /\ r.mem # 0 => r.mem # r.kstack

\* Nor with two processes, or with one and free or lost; and it is somewhere.
Parted ==
  /\ free \union lost \union UNION {Held(p) : p \in Procs} = Pages
  /\ free \cap lost = {}
  /\ \A p \in Procs : Held(p) \cap (free \union lost) = {}
  /\ \A p, q \in Procs : p # q => Held(p) \cap Held(q) = {}

\* The pages of the user's addresses below a page number.
Upto(n) == {v \in VPages : v < n}
PRU(s) == PageRoundUp(s)
Top == MaxPages * Unit    \* KERNBASE, as a size

\* What a process has at each place in its calls.
Idle == {"user", "fault", "unused", "embryo", "zombie"}
Shape(r) ==
  /\ r.pc \in Idle => r.op = "" /\ r.new = NoSpace /\ r.mem = 0
  /\ r.pc \in {"unused", "embryo"} => r.as = NoSpace
  /\ r.pc = "unused" => r.kstack = 0
  /\ r.pc \notin {"unused", "embryo"} => r.kstack # 0
  /\ r.pc \in {"alloc", "map"} => r.op \in {"sbrk", "exec", "execstack"}
  /\ r.pc = "setup" => r.op \in {"fork", "exec"}
  /\ r.pc \in {"kstack", "copy", "copymap"} => r.op = "fork"
  /\ r.pc \in {"map", "copymap"} => r.mem # 0 /\ r.va < PRU(r.end)
  /\ r.pc \notin {"map", "copymap"} => r.mem = 0
  /\ r.sz =< Top /\ r.end =< Top
  /\ r.pc = "user" => Mapped(r.as) = Below(r.sz)
  /\ r.op = "sbrk" => /\ r.new = NoSpace /\ r.sz < r.end
                      /\ Mapped(r.as) = Upto(r.va) /\ PRU(r.sz) =< r.va /\ r.va =< PRU(r.end)
  /\ r.op \in {"exec", "execstack", "fork"} =>
       /\ Mapped(r.as) = Below(r.sz) /\ Mapped(r.new) = Upto(r.va) /\ r.va =< PRU(r.end)
  /\ r.op = "fork" => r.end = r.sz /\ r.child # 0
  /\ r.pc = "kstack" => r.new = NoSpace
  /\ r.pc = "setup" => r.va = 0

\* A fork has an entry of its own, which has a kernel stack after the first step.
ForkOK ==
  \A p \in Procs : proc[p].op = "fork" =>
    LET c == proc[p].child IN
    /\ proc[c].pc = "embryo"
    /\ proc[p].pc = "kstack" <=> proc[c].kstack = 0
    /\ \A q \in Procs : proc[q].op = "fork" /\ proc[q].child = c => q = p

IInv ==
  /\ TypeOK /\ Parted /\ ForkOK /\ ~panic
  /\ \A p \in Procs : Apart(proc[p]) /\ Shape(proc[p])

-----------------------------------------------------------------------------
(* Sizes and pages *)

\* PGROUNDUP: a page starts below a size when its number is below the rounded one.
LEMMA RoundUp ==
  ASSUME NEW s \in Nat
  PROVE  /\ PRU(s) \in Nat
         /\ \A v \in Nat : v * Unit < s <=> v < PRU(s)
<1> DEFINE d == (s + Unit - 1) \div Unit
<1>1. Unit \in Nat /\ Unit > 0
  BY MemoryAssumption
<1>2. /\ s + Unit - 1 \in Nat
      /\ s + Unit - 1 = Unit * d + ((s + Unit - 1) % Unit)
      /\ (s + Unit - 1) % Unit \in 0 .. Unit - 1
      /\ d \in Int
  BY <1>1
<1>3. PRU(s) = d
  BY DEF PRU, PageRoundUp
<1> HIDE DEF d
<1>4. d >= 0
  <2>1. ASSUME d =< -1 PROVE FALSE
    <3>1. Unit * d =< -Unit
      BY <1>1, <1>2, <2>1
    <3> QED BY <1>1, <1>2, <3>1
  <2> QED BY <1>2, <2>1
<1>5. ASSUME NEW v \in Nat, v < d PROVE v * Unit < s
  <2>1. (v + 1) * Unit =< d * Unit
    BY <1>1, <1>2, <1>5
  <2>2. (v + 1) * Unit = v * Unit + Unit /\ d * Unit = Unit * d /\ v * Unit \in Int
    BY <1>1, <1>2
  <2> QED BY <1>1, <1>2, <2>1, <2>2
<1>6. ASSUME NEW v \in Nat, v >= d PROVE v * Unit >= s
  <2>1. v * Unit >= d * Unit
    BY <1>1, <1>2, <1>6
  <2>2. d * Unit = Unit * d /\ v * Unit \in Int
    BY <1>1, <1>2
  <2> QED BY <1>1, <1>2, <2>1, <2>2
<1>7. \A v \in Nat : v * Unit \in Int
  BY <1>1
<1> QED
  BY <1>2, <1>3, <1>4, <1>5, <1>6, <1>7

\* The pages below a size are those up to its rounded one.
LEMMA BelowIs ==
  ASSUME NEW s \in Nat
  PROVE  Below(s) = Upto(PRU(s))
<1>1. VPages \subseteq Nat
  BY MemoryAssumption DEF VPages
<1> QED
  BY <1>1, RoundUp DEF Below, Upto

\* Rounding keeps the order, and leaves a whole number of pages.
LEMMA RoundUpOrder ==
  ASSUME NEW s \in Nat, NEW t \in Nat, s =< t
  PROVE  PRU(s) =< PRU(t)
<1>1. PRU(s) \in Nat /\ PRU(t) \in Nat
  BY RoundUp
<1>2. ASSUME PRU(t) < PRU(s) PROVE FALSE
  <2>1. PRU(t) * Unit < s /\ ~(PRU(t) * Unit < t)
    BY <1>1, <1>2, RoundUp
  <2>2. PRU(t) * Unit \in Int
    BY <1>1, MemoryAssumption
  <2> QED BY <2>1, <2>2
<1> QED
  BY <1>1, <1>2

\* A whole number of pages is a size that rounds to itself.
LEMMA RoundUpWhole ==
  ASSUME NEW n \in Nat
  PROVE  n * Unit \in Nat /\ PRU(n * Unit) = n
<1>1. Unit \in Nat /\ Unit > 0
  BY MemoryAssumption
<1>2. n * Unit \in Nat
  BY <1>1
<1>3. \A v \in Nat : v * Unit < n * Unit <=> v < n
  <2> TAKE v \in Nat
  <2>1. CASE v < n
    <3>1. (v + 1) * Unit =< n * Unit
      BY <1>1, <2>1
    <3>2. (v + 1) * Unit = v * Unit + Unit /\ v * Unit \in Int
      BY <1>1
    <3> QED BY <1>1, <1>2, <2>1, <3>1, <3>2
  <2>2. CASE v >= n
    <3>1. v * Unit >= n * Unit /\ v * Unit \in Int
      BY <1>1, <2>2
    <3> QED BY <1>1, <1>2, <2>2, <3>1
  <2> QED BY <2>1, <2>2
<1> DEFINE s == n * Unit
<1>4. PRU(s) \in Nat /\ \A v \in Nat : v * Unit < s <=> v < PRU(s)
  <2> HIDE DEF s
  <2>1. s \in Nat
    BY <1>2 DEF s
  <2> QED BY <2>1, RoundUp
<1>5. \A v \in Nat : v < PRU(s) <=> v < n
  BY <1>3, <1>4
<1>6. PRU(s) = n
  <2> HIDE DEF s
  <2>1. ~(PRU(s) < n) /\ ~(n < PRU(s))
    BY <1>4, <1>5
  <2> QED BY <1>4, <2>1
<1> QED
  BY <1>2, <1>6

\* A size within KERNBASE rounds to one.
LEMMA TopIs == Top \in Nat /\ PRU(Top) = MaxPages
  BY RoundUpWhole, MemoryAssumption DEF Top

\* So do the sizes below it.
LEMMA RoundUpTop ==
  ASSUME NEW s \in Nat, s =< Top
  PROVE  PRU(s) =< MaxPages
<1>1. PRU(s) =< PRU(Top)
  BY TopIs, RoundUpOrder
<1> QED
  BY <1>1, TopIs

\* kalloc takes a free page.
LEMMA PageIs ==
  ASSUME free \subseteq Pages, free # {}
  PROVE  Page \in free
<1> DEFINE N == NPages
<1>1. N \in Nat /\ free \subseteq 1..N
  BY MemoryAssumption DEF Pages
<1> DEFINE L == OpToRel(<, Nat)
<1>2. PICK x \in free : \A y \in free : ~(<<y, x>> \in L)
  <2>1. free \subseteq Nat
    BY <1>1
  <2> QED BY <2>1, NatLessThanWellFounded, WFMin
<1>3. ASSUME NEW y \in free PROVE ~(y < x)
  <2>1. <<y, x>> \in Nat \X Nat
    BY <1>1
  <2> QED BY <1>2, <2>1 DEF OpToRel
<1> HIDE DEF L
<1>4. \A y \in free : x =< y
  BY <1>1, <1>3
<1> QED
  BY <1>4 DEF Page, Min

-----------------------------------------------------------------------------
(* Address spaces *)

\* 0 is no page.
LEMMA NoPage0 == 0 \notin Pages
  BY DEF Pages

\* A page of user addresses has a table.
LEMMA TableOf ==
  ASSUME NEW v \in VPages PROVE v \div PerTable \in Tables
  BY DEF Tables

\* What a space is made of.
LEMMA InSpace ==
  ASSUME NEW s, NEW g
  PROVE  g \in PagesOf(s) <=> /\ g # 0
                              /\ \/ g = s.dir \/ g \in s.ktab
                                 \/ \E t \in Tables : g = s.utab[t]
                                 \/ \E v \in VPages : g = s.map[v]
  BY DEF PagesOf

\* It is made of pages of memory.
LEMMA SpacePages ==
  ASSUME NEW s \in SpaceType PROVE PagesOf(s) \subseteq Pages
  BY DEF PagesOf, SpaceType, Entry

\* A space that setupkvm has not begun.
LEMMA EmptySpace ==
  /\ NoSpace \in SpaceType /\ Sound(NoSpace) /\ PagesOf(NoSpace) = {} /\ Mapped(NoSpace) = {}
  /\ NoSpace.dir = 0 /\ NoSpace.ktab = {}
  BY DEF NoSpace, SpaceType, Entry, Sound, PagesOf, Mapped

\* setupkvm: a directory, and page tables of the kernel.
LEMMA AddDir ==
  ASSUME NEW s \in SpaceType, Sound(s), s.dir = 0, NEW g \in Pages, g \notin PagesOf(s),
         NEW n, n = [s EXCEPT !.dir = g]
  PROVE  /\ n \in SpaceType /\ Sound(n) /\ Mapped(n) = Mapped(s)
         /\ PagesOf(n) = PagesOf(s) \union {g}
<1> USE NoPage0
<1>1. /\ n \in SpaceType /\ n.dir = g /\ n.ktab = s.ktab /\ n.utab = s.utab /\ n.map = s.map
  BY DEF SpaceType, Entry
<1>2. g # 0 /\ g \notin s.ktab /\ (\A t \in Tables : s.utab[t] # g) /\ \A v \in VPages : s.map[v] # g
  BY InSpace
<1>3. Sound(n)
  BY <1>1, <1>2 DEF Sound
<1>4. Mapped(n) = Mapped(s)
  BY <1>1 DEF Mapped
<1>5. PagesOf(n) = PagesOf(s) \union {g}
  BY <1>1, <1>2 DEF PagesOf
<1> QED
  BY <1>1, <1>3, <1>4, <1>5

\* The same of a page table of the kernel's mappings.
LEMMA AddTable ==
  ASSUME NEW s \in SpaceType, Sound(s), NEW g \in Pages, g \notin PagesOf(s),
         NEW n, n = [s EXCEPT !.ktab = s.ktab \union {g}]
  PROVE  /\ n \in SpaceType /\ Sound(n) /\ Mapped(n) = Mapped(s)
         /\ PagesOf(n) = PagesOf(s) \union {g}
<1> USE NoPage0
<1>1. /\ n \in SpaceType /\ n.dir = s.dir /\ n.ktab = s.ktab \union {g} /\ n.utab = s.utab /\ n.map = s.map
  BY DEF SpaceType, Entry
<1>2. g # 0 /\ g # s.dir /\ (\A t \in Tables : s.utab[t] # g) /\ \A v \in VPages : s.map[v] # g
  BY InSpace
<1>3. Sound(n)
  BY <1>1, <1>2 DEF Sound
<1>4. Mapped(n) = Mapped(s)
  BY <1>1 DEF Mapped
<1>5. PagesOf(n) = PagesOf(s) \union {g}
  BY <1>1, <1>2 DEF PagesOf
<1> QED
  BY <1>1, <1>3, <1>4, <1>5

\* The space after mappages, with its page table already there or page g.
Becomes(s, n, va, m, has, g) ==
  n = [s EXCEPT !.map[va] = m, !.utab[va \div PerTable] = IF has THEN @ ELSE g]

\* mappages: a page that is nowhere yet, and for its first page a page table.
LEMMA MapPageIs ==
  ASSUME NEW s \in SpaceType, Sound(s), NEW va \in VPages, s.map[va] = 0,
         NEW m \in Pages, m \notin PagesOf(s),
         NEW has \in BOOLEAN, has <=> s.utab[va \div PerTable] # 0,
         NEW g, ~has => g \in Pages /\ g \notin PagesOf(s) /\ g # m,
         NEW n, Becomes(s, n, va, m, has, g)
  PROVE  /\ n \in SpaceType /\ Sound(n) /\ Mapped(n) = Mapped(s) \union {va}
         /\ PagesOf(n) = PagesOf(s) \union {m} \union (IF has THEN {} ELSE {g})
<1> USE NoPage0
<1> DEFINE x == va \div PerTable
<1>1. x \in Tables
  BY TableOf
<1>2. has <=> s.utab[x] # 0
  OBVIOUS
<1>3. n = [s EXCEPT !.map[va] = m, !.utab[x] = IF has THEN @ ELSE g]
  BY DEF Becomes
<1> HIDE DEF x
<1> DEFINE e == IF has THEN s.utab[x] ELSE g
<1>4. /\ n.dir = s.dir /\ n.ktab = s.ktab
      /\ n.map = [s.map EXCEPT ![va] = m]
      /\ n.utab = [s.utab EXCEPT ![x] = e]
      /\ n \in SpaceType
  <2>1. e \in Entry /\ m \in Entry
    BY <1>1 DEF SpaceType, Entry
  <2>2. n = [s EXCEPT !.map[va] = m, !.utab[x] = e]
    BY <1>3
  <2> HIDE DEF e
  <2> DEFINE M == [s.map EXCEPT ![va] = m]
             U == [s.utab EXCEPT ![x] = e]
  <2>3. M \in [VPages -> Entry] /\ U \in [Tables -> Entry]
    BY <1>1, <2>1 DEF SpaceType
  <2>4. n = [s EXCEPT !.map = M, !.utab = U]
    BY <2>2
  <2> HIDE DEF M, U
  <2>5. n.dir = s.dir /\ n.ktab = s.ktab /\ n.map = M /\ n.utab = U /\ n \in SpaceType
    BY <2>3, <2>4 DEF SpaceType
  <2> QED BY <2>5 DEF M, U
<1>5. /\ s.map \in [VPages -> Entry] /\ s.utab \in [Tables -> Entry]
  BY DEF SpaceType
<1>6. /\ n.map[va] = m /\ \A v \in VPages \ {va} : n.map[v] = s.map[v]
  BY <1>4, <1>5
<1>7. /\ n.utab[x] = IF has THEN s.utab[x] ELSE g
      /\ \A t \in Tables \ {x} : n.utab[t] = s.utab[t]
  BY <1>1, <1>4, <1>5
<1>8. /\ m # 0 /\ m # s.dir /\ m \notin s.ktab
      /\ (\A t \in Tables : s.utab[t] # m) /\ \A v \in VPages : s.map[v] # m
      /\ ~has => /\ g # 0 /\ g # s.dir /\ g \notin s.ktab
                 /\ (\A t \in Tables : s.utab[t] # g) /\ \A v \in VPages : s.map[v] # g
  BY InSpace
<1>9. Mapped(n) = Mapped(s) \union {va}
  BY <1>6, <1>8 DEF Mapped
<1>10. Sound(n)
  <2>1. s.dir # 0 => /\ s.dir \notin s.ktab
                     /\ \A t \in Tables : n.utab[t] # s.dir
                     /\ \A v \in VPages : n.map[v] # s.dir
    BY <1>6, <1>7, <1>8 DEF Sound
  <2>2. ASSUME NEW t \in Tables, n.utab[t] # 0
        PROVE  /\ n.utab[t] \notin s.ktab
               /\ \A u \in Tables : n.utab[u] = n.utab[t] => u = t
               /\ \A v \in VPages : n.map[v] # n.utab[t]
    BY <1>1, <1>2, <1>6, <1>7, <1>8, <2>2 DEF Sound
  <2>3. ASSUME NEW v \in VPages, n.map[v] # 0
        PROVE  /\ n.map[v] \notin s.ktab
               /\ \A w \in VPages : n.map[w] = n.map[v] => w = v
    BY <1>6, <1>8, <2>3 DEF Sound
  <2> QED BY <1>4, <2>1, <2>2, <2>3 DEF Sound
<1>11. ASSUME NEW q
       PROVE  q \in PagesOf(n) <=> q \in PagesOf(s) \/ q = m \/ (~has /\ q = g)
  <2> DEFINE Un == \E t \in Tables : q = n.utab[t]
             Us == \E t \in Tables : q = s.utab[t]
             Mn == \E v \in VPages : q = n.map[v]
             Ms == \E v \in VPages : q = s.map[v]
  <2>1. Mn /\ q # 0 <=> (Ms /\ q # 0) \/ q = m
    BY <1>6, <1>8
  <2>2. Un /\ q # 0 <=> (Us /\ q # 0) \/ (~has /\ q = g)
    BY <1>1, <1>2, <1>7, <1>8
  <2>3. q \in PagesOf(n) <=> q # 0 /\ (q = n.dir \/ q \in n.ktab \/ Un \/ Mn)
    BY ONLY InSpace, Zenon
  <2>4. q \in PagesOf(s) <=> q # 0 /\ (q = s.dir \/ q \in s.ktab \/ Us \/ Ms)
    BY ONLY InSpace, Zenon
  <2> HIDE DEF Un, Us, Mn, Ms
  <2>5. n.dir = s.dir /\ n.ktab = s.ktab /\ m # 0 /\ (~has => g # 0)
    BY <1>4, <1>8
  <2> QED BY ONLY <2>1, <2>2, <2>3, <2>4, <2>5
<1> QED
  BY <1>4, <1>9, <1>10, <1>11

\* The same, of the page table that mappages may take from the free list.
Extra(s, va) == IF HasTable(s, va) THEN {} ELSE {Page}

\* What mappages does to the space and to the free list.
LEMMA MapIs ==
  ASSUME NEW s \in SpaceType, Sound(s), NEW va \in VPages, s.map[va] = 0,
         NEW m \in Pages, m \notin PagesOf(s), CanMap(s, va),
         free # {} => Page \in free /\ Page \in Pages /\ Page \notin PagesOf(s) /\ Page # m
  PROVE  /\ MapPage(s, va, m) \in SpaceType /\ Sound(MapPage(s, va, m))
         /\ Mapped(MapPage(s, va, m)) = Mapped(s) \union {va}
         /\ PagesOf(MapPage(s, va, m)) = PagesOf(s) \union {m} \union Extra(s, va)
         /\ FreeAfterMap(s, va) = free \ Extra(s, va) /\ Extra(s, va) \subseteq free
         /\ m \notin Extra(s, va) /\ 0 \notin Extra(s, va)
<1>1. PICK has \in BOOLEAN : has <=> HasTable(s, va)
  OBVIOUS
<1>2. PICK g : g = Page
  OBVIOUS
<1>3. PICK n : n = MapPage(s, va, m)
  OBVIOUS
<1>4. has <=> s.utab[va \div PerTable] # 0
  BY <1>1 DEF HasTable
<1>5. ~has => g \in free /\ g \in Pages /\ g \notin PagesOf(s) /\ g # m
  BY <1>1, <1>2 DEF CanMap
<1>6. Becomes(s, n, va, m, has, g)
  <2> DEFINE h == HasTable(s, va)
  <2>1. n = [s EXCEPT !.map[va] = m, !.utab[va \div PerTable] = IF h THEN @ ELSE Page]
    BY <1>3 DEF MapPage
  <2> HIDE DEF h
  <2>2. h <=> has
    BY <1>1 DEF h
  <2> QED BY <1>2, <2>1, <2>2 DEF Becomes
<1>7. /\ n \in SpaceType /\ Sound(n) /\ Mapped(n) = Mapped(s) \union {va}
      /\ PagesOf(n) = PagesOf(s) \union {m} \union (IF has THEN {} ELSE {g})
  BY <1>4, <1>5, <1>6, MapPageIs
<1>8. Extra(s, va) = IF has THEN {} ELSE {g}
  BY <1>1, <1>2 DEF Extra
<1>9. FreeAfterMap(s, va) = free \ Extra(s, va)
  BY <1>1, <1>2, <1>8 DEF FreeAfterMap, Take
<1> QED
  BY <1>3, <1>5, <1>7, <1>8, <1>9, NoPage0

\* deallocuvm: the pages between two sizes are taken out of the space.
LEMMA DropIs ==
  ASSUME NEW s \in SpaceType, Sound(s), NEW old, NEW new
  PROVE  /\ Dealloc(s, old, new) \in SpaceType /\ Sound(Dealloc(s, old, new))
         /\ Mapped(Dealloc(s, old, new)) = Mapped(s) \ Dropped(s, old, new)
         /\ PagesOf(Dealloc(s, old, new)) = PagesOf(s) \ DeallocPages(s, old, new)
         /\ DeallocPages(s, old, new) \subseteq PagesOf(s) /\ 0 \notin DeallocPages(s, old, new)
<1> DEFINE D == Dropped(s, old, new)
           n == Dealloc(s, old, new)
           B == DeallocPages(s, old, new)
<1> USE NoPage0
<1>0. /\ D \in SUBSET Mapped(s) /\ n = [s EXCEPT !.map = [v \in VPages |-> IF v \in D THEN 0 ELSE @[v]]]
      /\ B = {s.map[v] : v \in D}
  BY DEF Dropped, Dealloc, DeallocPages
<1> HIDE DEF D, n, B
<1>1. /\ n.dir = s.dir /\ n.ktab = s.ktab /\ n.utab = s.utab
      /\ n.map = [v \in VPages |-> IF v \in D THEN 0 ELSE s.map[v]]
      /\ n \in SpaceType
  BY <1>0 DEF SpaceType, Entry
<1>2. D \subseteq VPages /\ \A v \in D : s.map[v] # 0
  BY <1>0 DEF Mapped
<1>3. \A v \in VPages : n.map[v] = IF v \in D THEN 0 ELSE s.map[v]
  BY <1>1
<1>4. Mapped(n) = Mapped(s) \ D
  BY <1>3 DEF Mapped
<1>5. Sound(n)
  BY <1>1, <1>3 DEF Sound
<1>6. B \subseteq PagesOf(s) /\ 0 \notin B
  BY <1>0, <1>2 DEF PagesOf
<1>7. ASSUME NEW q PROVE q \in PagesOf(n) <=> q \in PagesOf(s) /\ q \notin B
  <2> DEFINE U == \E t \in Tables : q = s.utab[t]
             Mn == \E v \in VPages : q = n.map[v]
             Ms == \E v \in VPages : q = s.map[v]
  <2>1. q \in PagesOf(n) <=> q # 0 /\ (q = n.dir \/ q \in n.ktab \/ (\E t \in Tables : q = n.utab[t]) \/ Mn)
    BY ONLY InSpace, Zenon
  <2>2. q \in PagesOf(s) <=> q # 0 /\ (q = s.dir \/ q \in s.ktab \/ U \/ Ms)
    BY ONLY InSpace, Zenon
  <2>3. CASE q \in B
    <3>1. PICK v \in D : q = s.map[v]
      BY <1>0, <2>3
    <3>2. /\ q # 0 /\ q \notin s.ktab /\ q # s.dir /\ ~U
          /\ \A w \in VPages : s.map[w] = q => w = v
      BY <1>2, <3>1 DEF Sound
    <3>3. ~Mn
      BY <1>3, <3>1, <3>2
    <3> QED BY <1>1, <2>1, <2>3, <3>2, <3>3
  <2>4. CASE q \notin B
    <3>1. q # 0 => (Mn <=> Ms)
      BY <1>0, <1>3, <2>4
    <3> QED BY <1>1, <2>1, <2>2, <2>4, <3>1
  <2> QED BY <2>3, <2>4
<1> QED
  BY <1>1, <1>4, <1>5, <1>6, <1>7 DEF D, n, B
-----------------------------------------------------------------------------
(* What changes hands *)

\* The pages of a process.
Pieces(r) == ({r.kstack, r.mem} \ {0}) \union PagesOf(r.as) \union PagesOf(r.new)

\* It is what the model calls held.
LEMMA HeldIs == \A p \in Procs : Held(p) = Pieces(proc[p])
  BY DEF Held, Pieces

\* The same after a step.
LEMMA HeldIsNext == \A p \in Procs : Held(p)' = Pieces(proc'[p])
  BY DEF Held, Pieces

\* What the partition says of one process.
LEMMA PartedIs ==
  ASSUME Parted
  PROVE  /\ free \subseteq Pages /\ lost \subseteq Pages /\ free \cap lost = {}
         /\ \A p \in Procs : Pieces(proc[p]) \subseteq Pages
         /\ \A p \in Procs : Pieces(proc[p]) \cap (free \union lost) = {}
         /\ \A p, q \in Procs : p # q => Pieces(proc[p]) \cap Pieces(proc[q]) = {}
         /\ \A g \in Pages : g \in free \/ g \in lost \/ \E p \in Procs : g \in Pieces(proc[p])
<1> DEFINE H(p) == Held(p)
<1>1. \A p \in Procs : H(p) = Pieces(proc[p])
  BY HeldIs
<1>2. /\ free \union lost \union UNION {H(p) : p \in Procs} = Pages
      /\ free \cap lost = {}
      /\ \A p \in Procs : H(p) \cap (free \union lost) = {}
      /\ \A p, q \in Procs : p # q => H(p) \cap H(q) = {}
  BY DEF Parted
<1> HIDE DEF H
<1>3. \A p \in Procs : H(p) \subseteq Pages
  BY <1>2
<1> QED
  BY <1>1, <1>2, <1>3

\* The same after a step, from its parts.
LEMMA PartedNext ==
  ASSUME free' \subseteq Pages, lost' \subseteq Pages, free' \cap lost' = {},
         \A p \in Procs : Pieces(proc'[p]) \subseteq Pages,
         \A p \in Procs : Pieces(proc'[p]) \cap (free' \union lost') = {},
         \A p, q \in Procs : p # q => Pieces(proc'[p]) \cap Pieces(proc'[q]) = {},
         \A g \in Pages : g \in free' \/ g \in lost' \/ \E p \in Procs : g \in Pieces(proc'[p])
  PROVE  Parted'
<1> DEFINE H(p) == Pieces(proc'[p])
<1>1. \A p \in Procs : Held(p)' = H(p)
  BY HeldIsNext
<1> HIDE DEF H
<1>2. UNION {Held(p)' : p \in Procs} = UNION {H(p) : p \in Procs}
  BY <1>1
<1>3. free' \union lost' \union UNION {H(p) : p \in Procs} = Pages
  BY DEF H
<1>4. /\ \A p \in Procs : H(p) \cap (free' \union lost') = {}
      /\ \A p, q \in Procs : p # q => H(p) \cap H(q) = {}
  BY DEF H
<1>5. (free \union lost \union UNION {Held(p) : p \in Procs} = Pages)'
  BY <1>2, <1>3
<1> QED
  BY <1>1, <1>4, <1>5 DEF Parted

\* One process takes pages or gives them back.
LEMMA OneMoves ==
  ASSUME Parted, NEW p \in Procs, \A q \in Procs \ {p} : proc'[q] = proc[q],
         free' \union lost' \union Pieces(proc'[p]) = free \union lost \union Pieces(proc[p]),
         free' \cap lost' = {}, Pieces(proc'[p]) \cap (free' \union lost') = {}
  PROVE  Parted'
<1> DEFINE H(q) == Pieces(proc[q])
           N(q) == Pieces(proc'[q])
<1>1. \A q \in Procs \ {p} : N(q) = H(q)
  OBVIOUS
<1>2. /\ free \subseteq Pages /\ lost \subseteq Pages /\ free \cap lost = {}
      /\ \A q \in Procs : H(q) \subseteq Pages
      /\ \A q \in Procs : H(q) \cap (free \union lost) = {}
      /\ \A q, r \in Procs : q # r => H(q) \cap H(r) = {}
      /\ \A g \in Pages : g \in free \/ g \in lost \/ \E q \in Procs : g \in H(q)
  BY PartedIs
<1>3. /\ free' \union lost' \union N(p) = free \union lost \union H(p)
      /\ free' \cap lost' = {} /\ N(p) \cap (free' \union lost') = {}
  OBVIOUS
<1> HIDE DEF H, N
<1>4. \A q \in Procs \ {p} : H(q) \cap (free' \union lost' \union N(p)) = {}
  BY <1>2, <1>3
<1>5. free' \subseteq Pages /\ lost' \subseteq Pages /\ N(p) \subseteq Pages
  BY <1>2, <1>3
<1>6. \A q \in Procs : N(q) \subseteq Pages /\ N(q) \cap (free' \union lost') = {}
  BY <1>1, <1>2, <1>3, <1>4, <1>5
<1>7. \A q, r \in Procs : q # r => N(q) \cap N(r) = {}
  BY <1>1, <1>2, <1>4
<1>8. \A g \in Pages : g \in free' \/ g \in lost' \/ \E q \in Procs : g \in N(q)
  BY <1>1, <1>2, <1>3
<1> QED
  BY <1>3, <1>5, <1>6, <1>7, <1>8, PartedNext DEF N

\* Two processes do, a parent and the entry of its fork.
LEMMA TwoMove ==
  ASSUME Parted, NEW p \in Procs, NEW c \in Procs, p # c,
         \A q \in Procs \ {p, c} : proc'[q] = proc[q],
         free' \union lost' \union Pieces(proc'[p]) \union Pieces(proc'[c])
           = free \union lost \union Pieces(proc[p]) \union Pieces(proc[c]),
         free' \cap lost' = {}, Pieces(proc'[p]) \cap (free' \union lost') = {},
         Pieces(proc'[c]) \cap (free' \union lost') = {},
         Pieces(proc'[p]) \cap Pieces(proc'[c]) = {}
  PROVE  Parted'
<1> DEFINE H(q) == Pieces(proc[q])
           N(q) == Pieces(proc'[q])
<1>1. \A q \in Procs \ {p, c} : N(q) = H(q)
  OBVIOUS
<1>2. /\ free \subseteq Pages /\ lost \subseteq Pages /\ free \cap lost = {}
      /\ \A q \in Procs : H(q) \subseteq Pages
      /\ \A q \in Procs : H(q) \cap (free \union lost) = {}
      /\ \A q, r \in Procs : q # r => H(q) \cap H(r) = {}
      /\ \A g \in Pages : g \in free \/ g \in lost \/ \E q \in Procs : g \in H(q)
  BY PartedIs
<1>3. /\ free' \union lost' \union N(p) \union N(c) = free \union lost \union H(p) \union H(c)
      /\ free' \cap lost' = {} /\ N(p) \cap (free' \union lost') = {}
      /\ N(c) \cap (free' \union lost') = {} /\ N(p) \cap N(c) = {}
  OBVIOUS
<1> HIDE DEF H, N
<1>4. \A q \in Procs \ {p, c} : H(q) \cap (free' \union lost' \union N(p) \union N(c)) = {}
  BY <1>2, <1>3
<1>5. free' \subseteq Pages /\ lost' \subseteq Pages /\ N(p) \subseteq Pages /\ N(c) \subseteq Pages
  BY <1>2, <1>3
<1>6. \A q \in Procs : N(q) \subseteq Pages /\ N(q) \cap (free' \union lost') = {}
  BY <1>1, <1>2, <1>3, <1>4, <1>5
<1>7. \A q, r \in Procs : q # r => N(q) \cap N(r) = {}
  BY <1>1, <1>2, <1>3, <1>4
<1>8. \A g \in Pages : g \in free' \/ g \in lost' \/ \E q \in Procs : g \in N(q)
  BY <1>1, <1>2, <1>3
<1> QED
  BY <1>3, <1>5, <1>6, <1>7, <1>8, PartedNext DEF N

\* A step of one process that is no entry of a fork, nor begins one.
LEMMA OneChanges ==
  ASSUME IInv, NEW p \in Procs, proc' \in [Procs -> RecType], panic' = panic,
         \A q \in Procs \ {p} : proc'[q] = proc[q],
         Apart(proc'[p]), Shape(proc'[p]),
         free' \union lost' \union Pieces(proc'[p]) = free \union lost \union Pieces(proc[p]),
         free' \cap lost' = {}, Pieces(proc'[p]) \cap (free' \union lost') = {},
         proc[p].pc # "embryo",
         proc'[p].op = "fork" => /\ proc[p].op = "fork" /\ proc'[p].child = proc[p].child
                                 /\ proc'[p].pc = "kstack" <=> proc[p].pc = "kstack"
  PROVE  IInv'
<1>1. Parted'
  BY OneMoves DEF IInv
<1>2. TypeOK'
  <2>1. free' \subseteq Pages /\ lost' \subseteq Pages
    BY PartedIs DEF IInv
  <2> QED BY <2>1 DEF IInv, TypeOK
<1>3. \A q \in Procs : Apart(proc'[q]) /\ Shape(proc'[q])
  BY DEF IInv
<1>4. ForkOK'
  <2> SUFFICES ASSUME NEW q \in Procs, proc'[q].op = "fork"
               PROVE  LET c == proc'[q].child IN
                      /\ proc'[c].pc = "embryo"
                      /\ proc'[q].pc = "kstack" <=> proc'[c].kstack = 0
                      /\ \A r \in Procs : proc'[r].op = "fork" /\ proc'[r].child = c => r = q
    BY DEF ForkOK
  <2>1. proc[q].op = "fork" /\ proc'[q].child = proc[q].child /\ (proc'[q].pc = "kstack" <=> proc[q].pc = "kstack")
    OBVIOUS
  <2> DEFINE c == proc[q].child
  <2>2. /\ proc[c].pc = "embryo" /\ (proc[q].pc = "kstack" <=> proc[c].kstack = 0)
        /\ \A r \in Procs : proc[r].op = "fork" /\ proc[r].child = c => r = q
    BY <2>1 DEF IInv, ForkOK
  <2>3. c \in Procs
    BY <2>1 DEF IInv, TypeOK, RecType, Shape
  <2> HIDE DEF c
  <2>4. c # p /\ proc'[c] = proc[c]
    BY <2>2, <2>3
  <2>5. \A r \in Procs : proc'[r].op = "fork" => proc[r].op = "fork" /\ proc'[r].child = proc[r].child
    OBVIOUS
  <2>6. proc'[q].child = c
    BY <2>1 DEF c
  <2> QED BY <2>1, <2>2, <2>4, <2>5, <2>6
<1> QED
  BY <1>1, <1>2, <1>3, <1>4 DEF IInv

\* A step of a parent and the entry of its fork.
LEMMA TwoChange ==
  ASSUME IInv, NEW p \in Procs, NEW c \in Procs, p # c, proc' \in [Procs -> RecType], panic' = panic,
         \A q \in Procs \ {p, c} : proc'[q] = proc[q],
         Apart(proc'[p]), Shape(proc'[p]), Apart(proc'[c]), Shape(proc'[c]),
         free' \union lost' \union Pieces(proc'[p]) \union Pieces(proc'[c])
           = free \union lost \union Pieces(proc[p]) \union Pieces(proc[c]),
         free' \cap lost' = {}, Pieces(proc'[p]) \cap (free' \union lost') = {},
         Pieces(proc'[c]) \cap (free' \union lost') = {},
         Pieces(proc'[p]) \cap Pieces(proc'[c]) = {},
         proc[p].pc # "embryo", proc'[c].op # "fork", proc[c].op # "fork",
         proc[c].pc = "embryo" => proc[p].op = "fork" /\ proc[p].child = c,
         proc'[p].op = "fork" => /\ proc'[p].child = c /\ proc'[c].pc = "embryo"
                                 /\ proc'[p].pc = "kstack" <=> proc'[c].kstack = 0
  PROVE  IInv'
<1>1. Parted'
  BY TwoMove DEF IInv
<1>2. TypeOK'
  <2>1. free' \subseteq Pages /\ lost' \subseteq Pages
    BY PartedIs DEF IInv
  <2> QED BY <2>1 DEF IInv, TypeOK
<1>3. \A q \in Procs : Apart(proc'[q]) /\ Shape(proc'[q])
  BY DEF IInv
<1>4. ForkOK'
  <2>1. \A r \in Procs \ {p, c} : proc[r].op = "fork" => proc[r].child # c /\ proc[r].child # p
    <3> SUFFICES ASSUME NEW r \in Procs \ {p, c}, proc[r].op = "fork"
                 PROVE  proc[r].child # c /\ proc[r].child # p
      OBVIOUS
    <3>1. proc[proc[r].child].pc = "embryo"
      BY DEF IInv, ForkOK
    <3>2. proc[r].child # p
      BY <3>1
    <3>3. ASSUME proc[r].child = c PROVE FALSE
      <4>1. proc[c].pc = "embryo"
        BY <3>1, <3>3
      <4>2. proc[p].op = "fork" /\ proc[p].child = c
        BY <4>1
      <4> QED BY <3>3, <4>2 DEF IInv, ForkOK
    <3> QED BY <3>2, <3>3
  <2> SUFFICES ASSUME NEW q \in Procs, proc'[q].op = "fork"
               PROVE  LET d == proc'[q].child IN
                      /\ proc'[d].pc = "embryo"
                      /\ proc'[q].pc = "kstack" <=> proc'[d].kstack = 0
                      /\ \A r \in Procs : proc'[r].op = "fork" /\ proc'[r].child = d => r = q
    BY DEF ForkOK
  <2>2. q # c
    OBVIOUS
  <2>3. CASE q = p
    <3>1. proc'[q].child = c /\ proc'[c].pc = "embryo" /\ (proc'[q].pc = "kstack" <=> proc'[c].kstack = 0)
      BY <2>3
    <3>2. \A r \in Procs : proc'[r].op = "fork" /\ proc'[r].child = c => r = q
      BY <2>1, <2>3
    <3> QED BY <3>1, <3>2
  <2>4. CASE q # p
    <3>1. proc'[q] = proc[q]
      BY <2>2, <2>4
    <3> DEFINE d == proc[q].child
    <3>2. /\ proc[d].pc = "embryo" /\ (proc[q].pc = "kstack" <=> proc[d].kstack = 0)
          /\ \A r \in Procs : proc[r].op = "fork" /\ proc[r].child = d => r = q
      BY <3>1 DEF IInv, ForkOK
    <3>3. d \in Procs /\ d # p /\ d # c
      <4>1. proc[q].op = "fork" /\ q \in Procs \ {p, c}
        BY <2>2, <2>4, <3>1
      <4>2. proc[q] \in RecType /\ Shape(proc[q])
        BY DEF IInv, TypeOK
      <4>3. d \in Procs
        BY <4>1, <4>2 DEF RecType, Shape
      <4> QED BY <2>1, <4>1, <4>3
    <3> HIDE DEF d
    <3>4. proc'[d] = proc[d]
      BY <3>3
    <3>5. proc'[q].child = d
      BY <3>1 DEF d
    <3>6. \A r \in Procs : proc'[r].op = "fork" /\ proc'[r].child = d => r = q
      BY <3>2, <3>3
    <3> QED BY <3>1, <3>2, <3>4, <3>5, <3>6
  <2> QED BY <2>3, <2>4
<1> QED
  BY <1>1, <1>2, <1>3, <1>4 DEF IInv


-----------------------------------------------------------------------------
(* Steps of one process *)

\* What the invariant says of a process.
LEMMA ProcIs ==
  ASSUME IInv, NEW p \in Procs
  PROVE  /\ proc[p] \in RecType /\ Apart(proc[p]) /\ Shape(proc[p])
         /\ proc[p].as \in SpaceType /\ proc[p].new \in SpaceType
         /\ proc[p].kstack \in Entry /\ proc[p].mem \in Entry
         /\ proc[p].sz \in Nat /\ proc[p].end \in Nat /\ proc[p].va \in Nat
         /\ proc[p].sz =< Top /\ proc[p].end =< Top
         /\ proc \in [Procs -> RecType] /\ ~panic
         /\ free \subseteq Pages /\ lost \subseteq Pages /\ free \cap lost = {}
         /\ Pieces(proc[p]) \subseteq Pages /\ Pieces(proc[p]) \cap (free \union lost) = {}
         /\ Pieces(proc[p]) = ({proc[p].kstack, proc[p].mem} \ {0})
                                 \union PagesOf(proc[p].as) \union PagesOf(proc[p].new)
<1>1. /\ proc \in [Procs -> RecType] /\ ~panic /\ Apart(proc[p]) /\ Shape(proc[p]) /\ Parted
  BY DEF IInv, TypeOK
<1>2. proc[p] \in RecType
  BY <1>1
<1>3. /\ proc[p].as \in SpaceType /\ proc[p].new \in SpaceType
      /\ proc[p].kstack \in Entry /\ proc[p].mem \in Entry
      /\ proc[p].sz \in Nat /\ proc[p].end \in Nat /\ proc[p].va \in Nat
  BY <1>2 DEF RecType
<1>4. /\ free \subseteq Pages /\ lost \subseteq Pages /\ free \cap lost = {}
      /\ Pieces(proc[p]) \subseteq Pages /\ Pieces(proc[p]) \cap (free \union lost) = {}
  BY <1>1, PartedIs
<1>5. proc[p].sz =< Top /\ proc[p].end =< Top
  BY <1>1 DEF Shape
<1> QED
  BY <1>1, <1>2, <1>3, <1>4, <1>5 DEF Pieces

\* A page that kalloc finds is no one's.
LEMMA FreshPage ==
  ASSUME IInv, free # {}, NEW p \in Procs
  PROVE  /\ Page \in free /\ Page \in Pages /\ Page # 0 /\ Page \notin Pieces(proc[p])
         /\ Page # proc[p].kstack /\ Page # proc[p].mem
         /\ Page \notin PagesOf(proc[p].as) /\ Page \notin PagesOf(proc[p].new)
<1>1. free \subseteq Pages /\ Pieces(proc[p]) \cap free = {}
  BY ProcIs
<1>2. Page \in free
  BY <1>1, PageIs
<1> DEFINE g == Page
<1>3. g \in free /\ g \in Pages /\ g # 0 /\ g \notin Pieces(proc[p])
  BY <1>1, <1>2, NoPage0
<1> HIDE DEF g
<1>4. /\ g # proc[p].kstack /\ g # proc[p].mem
      /\ g \notin PagesOf(proc[p].as) /\ g \notin PagesOf(proc[p].new)
  BY <1>3 DEF Pieces
<1> QED
  BY <1>3, <1>4 DEF g

\* How a fork stands towards its entry stays the same.
SameFork(r, n) == n.op = "fork" => /\ r.op = "fork" /\ n.child = r.child
                                   /\ n.pc = "kstack" <=> r.pc = "kstack"

\* OneChanges for the new record of the process.
LEMMA StepOne ==
  ASSUME IInv, NEW p \in Procs, NEW n \in RecType, proc' = [proc EXCEPT ![p] = n], panic' = panic,
         Apart(n), Shape(n), lost' = lost, proc[p].pc # "embryo", SameFork(proc[p], n),
         free' \union Pieces(n) = free \union Pieces(proc[p]),
         Pieces(n) \cap free' = {}
  PROVE  IInv'
<1>1. /\ proc \in [Procs -> RecType] /\ free \cap lost = {}
      /\ Pieces(proc[p]) \cap (free \union lost) = {}
  BY ProcIs
<1>2. /\ proc' \in [Procs -> RecType] /\ proc'[p] = n
      /\ \A q \in Procs \ {p} : proc'[q] = proc[q]
  BY <1>1
<1>3. /\ Apart(proc'[p]) /\ Shape(proc'[p])
      /\ Pieces(proc'[p]) = Pieces(n)
  BY <1>2
<1> DEFINE A == Pieces(n)
           B == Pieces(proc[p])
<1>4. /\ free' \union lost' \union A = free \union lost \union B
      /\ free' \cap lost' = {} /\ A \cap (free' \union lost') = {}
  <2>1. /\ free' \union A = free \union B /\ A \cap free' = {} /\ lost' = lost
        /\ free \cap lost = {} /\ B \cap (free \union lost) = {}
    BY <1>1
  <2> HIDE DEF A, B
  <2> QED BY <2>1
<1>5. proc'[p].op = "fork" => /\ proc[p].op = "fork" /\ proc'[p].child = proc[p].child
                              /\ proc'[p].pc = "kstack" <=> proc[p].pc = "kstack"
  BY <1>2 DEF SameFork
<1> QED
  BY <1>2, <1>3, <1>4, <1>5, OneChanges

\* It keeps its pages, takes some that are free, or gives some back.
LEMMA Keeps ==
  ASSUME IInv, NEW p \in Procs, NEW n \in RecType, proc' = [proc EXCEPT ![p] = n], panic' = panic,
         Apart(n), Shape(n), lost' = lost, proc[p].pc # "embryo", SameFork(proc[p], n),
         Pieces(n) = Pieces(proc[p]), free' = free
  PROVE  IInv'
  BY ProcIs, StepOne

\* It takes free pages.
LEMMA Takes ==
  ASSUME IInv, NEW p \in Procs, NEW n \in RecType, proc' = [proc EXCEPT ![p] = n], panic' = panic,
         Apart(n), Shape(n), lost' = lost, proc[p].pc # "embryo", SameFork(proc[p], n),
         NEW G \in SUBSET free, Pieces(n) = Pieces(proc[p]) \union G, free' = free \ G
  PROVE  IInv'
<1>1. Pieces(proc[p]) \cap free = {}
  BY ProcIs
<1>2. free' \union Pieces(n) = free \union Pieces(proc[p]) /\ Pieces(n) \cap free' = {}
  BY <1>1
<1> QED
  BY <1>2, StepOne

\* It gives pages back.
LEMMA Gives ==
  ASSUME IInv, NEW p \in Procs, NEW n \in RecType, proc' = [proc EXCEPT ![p] = n], panic' = panic,
         Apart(n), Shape(n), lost' = lost, proc[p].pc # "embryo", SameFork(proc[p], n),
         NEW B \in SUBSET Pieces(proc[p]), Pieces(n) = Pieces(proc[p]) \ B, free' = free \union B
  PROVE  IInv'
<1>1. Pieces(proc[p]) \cap free = {}
  BY ProcIs
<1>2. free' \union Pieces(n) = free \union Pieces(proc[p]) /\ Pieces(n) \cap free' = {}
  BY <1>1
<1> QED
  BY <1>2, StepOne

\* The same pages at the same places.
LEMMA SamePlaces ==
  ASSUME NEW r, NEW n, n.as = r.as, n.new = r.new, n.kstack = r.kstack, n.mem = r.mem
  PROVE  (Apart(r) => Apart(n)) /\ Pieces(n) = Pieces(r)
  BY DEF Apart, Pieces

\* The process is back at its instructions, with what it had before.
LEMMA ReturnedIs ==
  ASSUME NEW r \in RecType
  PROVE  LET n == Returned(r) IN
         /\ n \in RecType /\ n.pc = "user" /\ n.op = "" /\ n.new = NoSpace /\ n.mem = 0
         /\ n.va = 0 /\ n.end = 0 /\ n.as = r.as /\ n.kstack = r.kstack /\ n.sz = r.sz
<1>1. NoSpace \in SpaceType /\ 0 \in Entry /\ "user" \in PCs
  BY EmptySpace DEF Entry, PCs
<1> QED
  BY <1>1 DEF RecType, Returned

-----------------------------------------------------------------------------
(* sbrk *)

\* A process in allocuvm or copyuvm has reached the new size, or has not.
LEMMA Reached ==
  ASSUME NEW va \in Nat, NEW end \in Nat
  PROVE  va * Unit < end <=> va < PRU(end)
  BY RoundUp

\* The same, read as the end of the loop.
LEMMA ReachedNot ==
  ASSUME NEW va \in Nat, NEW end \in Nat
  PROVE  va * Unit >= end <=> PRU(end) =< va
<1>1. va * Unit < end <=> va < PRU(end)
  BY RoundUp
<1>2. PRU(end) \in Nat
  BY RoundUp
<1>3. va * Unit \in Int
  BY MemoryAssumption
<1> QED
  BY <1>1, <1>2, <1>3

\* growproc begins where the pages of the old size end.
LEMMA SbrkGrowStep ==
  ASSUME IInv, NEW p \in Procs, NEW i \in Nat \ {0}, SbrkGrow(p, i)
  PROVE  IInv'
<1> DEFINE r == proc[p]
           e == r.sz + i
           w == PRU(r.sz)
           n == [r EXCEPT !.pc = "alloc", !.op = "sbrk", !.va = w, !.end = e]
<1>1. /\ r.pc = "user" /\ e < Top /\ proc' = [proc EXCEPT ![p] = n]
      /\ free' = free /\ lost' = lost /\ panic' = panic
  BY DEF SbrkGrow, At, PRU, Top
<1>2. /\ r \in RecType /\ Apart(r) /\ Shape(r) /\ r.sz \in Nat
  BY ProcIs
<1>3. e \in Nat /\ r.sz < e
  BY <1>2
<1>4. w \in Nat /\ w =< PRU(e)
  <2> HIDE DEF e
  <2> QED BY <1>2, <1>3, RoundUp, RoundUpOrder
<1>5. Below(r.sz) = Upto(w)
  BY <1>2, BelowIs
<1> HIDE DEF r, e, w
<1>6. /\ n \in RecType /\ n.pc = "alloc" /\ n.op = "sbrk" /\ n.va = w /\ n.end = e
      /\ n.as = r.as /\ n.new = r.new /\ n.kstack = r.kstack /\ n.mem = r.mem /\ n.sz = r.sz
  BY <1>2, <1>3, <1>4 DEF RecType, PCs
<1> HIDE DEF n
<1>7. Apart(n) /\ Pieces(n) = Pieces(r)
  BY <1>2, <1>6, SamePlaces
<1>8. Shape(n)
  <2>1. Mapped(r.as) = Upto(w) /\ r.new = NoSpace /\ r.mem = 0 /\ r.kstack # 0
    BY <1>1, <1>2, <1>5 DEF Shape, Idle
  <2>2. r.sz =< Top /\ e =< Top
    <3>1. r.sz =< Top
      BY ProcIs DEF r
    <3> QED BY <1>1, <1>3, <3>1, TopIs
  <2>3. w = PRU(r.sz)
    BY DEF w
  <2> QED BY <1>3, <1>4, <1>6, <2>1, <2>2, <2>3 DEF Shape, Idle
<1>9. SameFork(r, n)
  BY <1>6 DEF SameFork
<1> QED
  BY <1>1, <1>6, <1>7, <1>8, <1>9, Keeps DEF r

\* growproc has all its pages, which are those of the new size.
LEMMA SbrkGrownStep ==
  ASSUME IInv, NEW p \in Procs, SbrkGrown(p)
  PROVE  IInv'
<1> DEFINE r == proc[p]
           n == [Returned(r) EXCEPT !.sz = r.end]
<1>1. /\ r.pc = "alloc" /\ r.op = "sbrk" /\ r.va * Unit >= r.end /\ proc' = [proc EXCEPT ![p] = n]
      /\ free' = free /\ lost' = lost /\ panic' = panic
  BY DEF SbrkGrown, At
<1>2. /\ r \in RecType /\ Apart(r) /\ Shape(r) /\ r.end \in Nat /\ r.va \in Nat
  BY ProcIs
<1>3. PRU(r.end) =< r.va /\ Below(r.end) = Upto(PRU(r.end)) /\ PRU(r.end) \in Nat
  BY <1>1, <1>2, ReachedNot, BelowIs, RoundUp
<1> HIDE DEF r
<1>4. r.new = NoSpace /\ r.mem = 0 /\ Mapped(r.as) = Below(r.end) /\ r.kstack # 0 /\ r.end =< Top /\ 0 =< Top
  <2>1. /\ r.new = NoSpace /\ r.mem = 0 /\ Mapped(r.as) = Upto(r.va) /\ r.kstack # 0 /\ r.end =< Top
        /\ r.va =< PRU(r.end)
    BY <1>1, <1>2 DEF Shape
  <2> QED BY <1>2, <1>3, <2>1, TopIs
<1>5. /\ n \in RecType /\ n.pc = "user" /\ n.op = "" /\ n.va = 0 /\ n.end = 0
      /\ n.as = r.as /\ n.new = NoSpace /\ n.kstack = r.kstack /\ n.mem = 0 /\ n.sz = r.end
  BY <1>2, ReturnedIs DEF RecType
<1> HIDE DEF n
<1>6. Apart(n) /\ Pieces(n) = Pieces(r)
  BY <1>2, <1>4, <1>5, SamePlaces
<1>7. Shape(n)
  BY <1>4, <1>5 DEF Shape, Idle
<1>8. SameFork(r, n)
  BY <1>5 DEF SameFork
<1> QED
  BY <1>1, <1>5, <1>6, <1>7, <1>8, Keeps DEF r

\* deallocuvm gives back the pages past the new size, and keeps the one it ends in.
LEMMA SbrkShrinkStep ==
  ASSUME IInv, NEW p \in Procs, NEW i \in Nat, SbrkShrink(p, i)
  PROVE  IInv'
<1> DEFINE r == proc[p]
           z == r.sz - i
           D == Dropped(r.as, r.sz, z)
           B == DeallocPages(r.as, r.sz, z)
           s == Dealloc(r.as, r.sz, z)
           n == [r EXCEPT !.as = s, !.sz = z]
<1>1. /\ r.pc = "user" /\ i < r.sz /\ free' = free \union B
      /\ proc' = [proc EXCEPT ![p] = n] /\ lost' = lost /\ panic' = panic
  <2>1. proc' = [proc EXCEPT ![p].as = s, ![p].sz = z] /\ proc \in [Procs -> RecType]
    BY ProcIs DEF SbrkShrink
  <2>2. proc' = [proc EXCEPT ![p] = n]
    BY <2>1
  <2> QED BY <2>2 DEF SbrkShrink, At
<1>2. /\ r \in RecType /\ Apart(r) /\ Shape(r) /\ r.sz \in Nat /\ r.as \in SpaceType
      /\ Pieces(r) = ({r.kstack, r.mem} \ {0}) \union PagesOf(r.as) \union PagesOf(r.new)
  BY ProcIs
<1>3. z \in Nat /\ z =< r.sz
  BY <1>1, <1>2
<1>4. Sound(r.as) /\ Mapped(r.as) = Below(r.sz) /\ r.new = NoSpace /\ r.mem = 0 /\ r.kstack # 0 /\ r.op = ""
  BY <1>1, <1>2 DEF Apart, Shape, Idle
<1>5. D \in SUBSET Mapped(r.as) /\ Mapped(r.as) \ D = Below(z)
  <2>1. Below(z) \subseteq Below(r.sz)
    <3>1. \A v \in VPages : v * Unit \in Int
      BY MemoryAssumption DEF VPages
    <3> QED BY <1>2, <1>3, <3>1 DEF Below
  <2> QED BY <1>4, <2>1 DEF Dropped
<1> HIDE DEF r, z
<1>7. /\ s \in SpaceType /\ Sound(s) /\ Mapped(s) = Mapped(r.as) \ D
      /\ PagesOf(s) = PagesOf(r.as) \ B /\ B \subseteq PagesOf(r.as) /\ 0 \notin B
  BY <1>2, <1>4, DropIs
<1> HIDE DEF D, B, s
<1>8. /\ n \in RecType /\ n.pc = "user" /\ n.op = "" /\ n.va = r.va /\ n.end = r.end
      /\ n.as = s /\ n.new = NoSpace /\ n.kstack = r.kstack /\ n.mem = 0 /\ n.sz = z
  BY <1>1, <1>2, <1>3, <1>4, <1>7 DEF RecType, PCs
<1> HIDE DEF n
<1>9. r.kstack \notin PagesOf(r.as) /\ r.mem = 0
  BY <1>2, <1>4 DEF Apart
<1>10. Apart(n)
  <2>1. 0 \notin PagesOf(s)
    BY DEF PagesOf
  <2> QED BY <1>4, <1>7, <1>8, <1>9, <2>1, EmptySpace DEF Apart
<1>11. Pieces(n) = Pieces(r) \ B
  BY <1>2, <1>4, <1>7, <1>8, <1>9, EmptySpace DEF Pieces
<1>12. Shape(n)
  <2>1. r.sz =< Top /\ r.end =< Top /\ r.sz \in Nat /\ r.end \in Nat
    BY ProcIs DEF r
  <2>2. z =< Top
    BY <1>3, <2>1, TopIs
  <2> QED BY <1>4, <1>5, <1>7, <1>8, <2>1, <2>2 DEF Shape, Idle
<1>13. SameFork(r, n)
  BY <1>8 DEF SameFork
<1>14. B \subseteq Pieces(r)
  BY <1>2, <1>7
<1> QED
  BY <1>1, <1>8, <1>10, <1>11, <1>12, <1>13, <1>14, Gives DEF r

\* At size 0 it gives back all of them, and the process only exits.
LEMMA SbrkToZeroStep ==
  ASSUME IInv, NEW p \in Procs, NEW i \in Nat, SbrkToZero(p, i)
  PROVE  IInv'
<1> DEFINE r == proc[p]
           z == r.sz - i
           D == Dropped(r.as, r.sz, z)
           B == DeallocPages(r.as, r.sz, z)
           s == Dealloc(r.as, r.sz, z)
           n == [r EXCEPT !.as = s, !.pc = "fault"]
<1>1. /\ r.pc = "user" /\ i = r.sz /\ free' = free \union B
      /\ proc' = [proc EXCEPT ![p] = n] /\ lost' = lost /\ panic' = panic
  <2>1. proc' = [proc EXCEPT ![p].as = s, ![p].pc = "fault"] /\ proc \in [Procs -> RecType]
    BY ProcIs DEF SbrkToZero
  <2>2. proc' = [proc EXCEPT ![p] = n]
    BY <2>1
  <2> QED BY <2>2 DEF SbrkToZero, At
<1>2. /\ r \in RecType /\ Apart(r) /\ Shape(r) /\ r.sz \in Nat /\ r.as \in SpaceType
      /\ Pieces(r) = ({r.kstack, r.mem} \ {0}) \union PagesOf(r.as) \union PagesOf(r.new)
  BY ProcIs
<1>3. z \in Nat /\ z =< r.sz
  BY <1>1, <1>2
<1>4. Sound(r.as) /\ Mapped(r.as) = Below(r.sz) /\ r.new = NoSpace /\ r.mem = 0 /\ r.kstack # 0 /\ r.op = ""
  BY <1>1, <1>2 DEF Apart, Shape, Idle
<1>5. D \in SUBSET Mapped(r.as)
  BY DEF Dropped
<1> HIDE DEF r, z
<1>7. /\ s \in SpaceType /\ Sound(s) /\ Mapped(s) = Mapped(r.as) \ D
      /\ PagesOf(s) = PagesOf(r.as) \ B /\ B \subseteq PagesOf(r.as) /\ 0 \notin B
  BY <1>2, <1>4, DropIs
<1> HIDE DEF D, B, s
<1>8. /\ n \in RecType /\ n.pc = "fault" /\ n.op = "" /\ n.va = r.va /\ n.end = r.end
      /\ n.as = s /\ n.new = NoSpace /\ n.kstack = r.kstack /\ n.mem = 0 /\ n.sz = r.sz
  BY <1>1, <1>2, <1>3, <1>4, <1>7 DEF RecType, PCs
<1> HIDE DEF n
<1>9. r.kstack \notin PagesOf(r.as) /\ r.mem = 0
  BY <1>2, <1>4 DEF Apart
<1>10. Apart(n)
  <2>1. 0 \notin PagesOf(s)
    BY DEF PagesOf
  <2> QED BY <1>4, <1>7, <1>8, <1>9, <2>1, EmptySpace DEF Apart
<1>11. Pieces(n) = Pieces(r) \ B
  BY <1>2, <1>4, <1>7, <1>8, <1>9, EmptySpace DEF Pieces
<1>12. Shape(n)
  <2>1. r.sz =< Top /\ r.end =< Top /\ r.sz \in Nat /\ r.end \in Nat
    BY ProcIs DEF r
  <2> QED BY <1>4, <1>7, <1>8, <2>1 DEF Shape, Idle
<1>13. SameFork(r, n)
  BY <1>8 DEF SameFork
<1>14. B \subseteq Pieces(r)
  BY <1>2, <1>7
<1> QED
  BY <1>1, <1>8, <1>10, <1>11, <1>12, <1>13, <1>14, Gives DEF r

-----------------------------------------------------------------------------
(* The steps of allocuvm, setupkvm and exec that find memory *)

\* The loop's next page.
LEMMA UptoNext == \A n \in Nat : n \in VPages => Upto(n) \union {n} = Upto(n + 1) /\ n \notin Upto(n)
<1>1. VPages \subseteq Nat
  BY MemoryAssumption DEF VPages
<1>2. ASSUME NEW n \in Nat, n \in VPages
      PROVE  Upto(n) \union {n} = Upto(n + 1) /\ n \notin Upto(n)
  <2>1. \A v \in VPages : v < n + 1 <=> v < n \/ v = n
    BY <1>1
  <2>2. \A v : v \in Upto(n + 1) <=> v \in Upto(n) \/ v = n
    BY <1>2, <2>1 DEF Upto
  <2>3. n \notin Upto(n)
    BY <1>2 DEF Upto
  <2> QED BY <2>2, <2>3
<1> QED
  BY <1>2

\* A page below a size within KERNBASE is a page of the user's addresses.
LEMMA IsVPage ==
  ASSUME NEW v \in Nat, NEW s \in Nat, s =< Top, v < PRU(s)
  PROVE  v \in VPages
<1>1. PRU(s) =< MaxPages /\ PRU(s) \in Nat /\ MaxPages \in Nat
  BY RoundUpTop, RoundUp, MemoryAssumption
<1> QED
  BY <1>1 DEF VPages

\* kalloc's page is the process' own until it is mapped.
LEMMA AllocPageStep ==
  ASSUME IInv, NEW p \in Procs, At(p, "alloc"), proc[p].va * Unit < proc[p].end, free # {},
         proc' = [proc EXCEPT ![p].mem = Page, ![p].pc = "map"], free' = Take(free),
         lost' = lost, panic' = panic
  PROVE  IInv'
<1> DEFINE r == proc[p]
           g == Page
           n == [r EXCEPT !.mem = g, !.pc = "map"]
<1>1. /\ r.pc = "alloc" /\ r.va * Unit < r.end /\ proc' = [proc EXCEPT ![p] = n]
      /\ free' = free \ {g}
  <2>1. proc \in [Procs -> RecType]
    BY ProcIs
  <2> QED BY <2>1 DEF At, Take
<1>2. /\ r \in RecType /\ Apart(r) /\ Shape(r) /\ r.end \in Nat /\ r.va \in Nat
      /\ Pieces(r) = ({r.kstack, r.mem} \ {0}) \union PagesOf(r.as) \union PagesOf(r.new)
  BY ProcIs
<1>3. /\ g \in free /\ g \in Pages /\ g # 0 /\ g # r.kstack
      /\ g \notin PagesOf(r.as) /\ g \notin PagesOf(r.new)
  BY FreshPage
<1>4. r.va < PRU(r.end)
  BY <1>1, <1>2, Reached
<1> HIDE DEF r, g
<1>5. /\ n \in RecType /\ n.pc = "map" /\ n.op = r.op /\ n.va = r.va /\ n.end = r.end
      /\ n.as = r.as /\ n.new = r.new /\ n.kstack = r.kstack /\ n.mem = g /\ n.sz = r.sz /\ n.child = r.child
  BY <1>2, <1>3 DEF RecType, PCs, Entry
<1> HIDE DEF n
<1>6. Apart(n)
  BY <1>2, <1>3, <1>5 DEF Apart
<1>7. Pieces(n) = Pieces(r) \union {g}
  <2>1. r.mem = 0
    BY <1>1, <1>2 DEF Shape
  <2> QED BY <1>2, <1>3, <1>5, <2>1 DEF Pieces
<1>8. Shape(n)
  BY <1>1, <1>2, <1>3, <1>4, <1>5 DEF Shape, Idle
<1>9. SameFork(r, n)
  BY <1>1, <1>5 DEF SameFork
<1>10. {g} \in SUBSET free
  BY <1>3
<1> QED
  BY <1>1, <1>5, <1>6, <1>7, <1>8, <1>9, <1>10, Takes DEF r

\* setupkvm's directory.
LEMMA SetupDirStep ==
  ASSUME IInv, NEW p \in Procs, At(p, "setup"), proc[p].new.dir = 0, free # {},
         proc' = [proc EXCEPT ![p].new.dir = Page], free' = Take(free),
         lost' = lost, panic' = panic
  PROVE  IInv'
<1> DEFINE r == proc[p]
           g == Page
           s == [r.new EXCEPT !.dir = g]
           n == [r EXCEPT !.new = s]
<1>1. /\ r.pc = "setup" /\ proc' = [proc EXCEPT ![p] = n] /\ free' = free \ {g} /\ r.new.dir = 0
  <2>1. proc \in [Procs -> RecType]
    BY ProcIs
  <2>2. proc' = [proc EXCEPT ![p].new.dir = g]
    OBVIOUS
  <2> HIDE DEF g
  <2>3. proc' = [proc EXCEPT ![p] = n]
    BY <2>1, <2>2
  <2> QED BY <2>3 DEF At, Take, g
<1>2. /\ r \in RecType /\ Apart(r) /\ Shape(r) /\ r.new \in SpaceType
      /\ Pieces(r) = ({r.kstack, r.mem} \ {0}) \union PagesOf(r.as) \union PagesOf(r.new)
  BY ProcIs
<1>3. /\ g \in free /\ g \in Pages /\ g # 0 /\ g # r.kstack /\ g # r.mem
      /\ g \notin PagesOf(r.as) /\ g \notin PagesOf(r.new)
  BY FreshPage
<1> HIDE DEF r, g
<1>4. s \in SpaceType /\ Sound(s) /\ Mapped(s) = Mapped(r.new) /\ PagesOf(s) = PagesOf(r.new) \union {g}
  BY <1>1, <1>2, <1>3, AddDir DEF Apart
<1> HIDE DEF s
<1>5. /\ n \in RecType /\ n.pc = r.pc /\ n.op = r.op /\ n.va = r.va /\ n.end = r.end
      /\ n.as = r.as /\ n.new = s /\ n.kstack = r.kstack /\ n.mem = r.mem /\ n.sz = r.sz /\ n.child = r.child
  BY <1>2, <1>4 DEF RecType
<1> HIDE DEF n
<1>6. Apart(n)
  BY <1>2, <1>3, <1>4, <1>5 DEF Apart
<1>7. Pieces(n) = Pieces(r) \union {g}
  BY <1>2, <1>4, <1>5 DEF Pieces
<1>8. Shape(n)
  BY <1>1, <1>2, <1>4, <1>5 DEF Shape, Idle
<1>9. SameFork(r, n)
  BY <1>1, <1>5 DEF SameFork
<1>10. {g} \in SUBSET free
  BY <1>3
<1> QED
  BY <1>1, <1>5, <1>6, <1>7, <1>8, <1>9, <1>10, Takes DEF r

\* setupkvm's page tables.
LEMMA SetupTableStep ==
  ASSUME IInv, NEW p \in Procs, At(p, "setup"), free # {},
         proc' = [proc EXCEPT ![p].new.ktab = @ \union {Page}], free' = Take(free),
         lost' = lost, panic' = panic
  PROVE  IInv'
<1> DEFINE r == proc[p]
           g == Page
           s == [r.new EXCEPT !.ktab = r.new.ktab \union {g}]
           n == [r EXCEPT !.new = s]
<1>1. /\ r.pc = "setup" /\ proc' = [proc EXCEPT ![p] = n] /\ free' = free \ {g}
  <2>1. proc \in [Procs -> RecType]
    BY ProcIs
  <2>2. proc' = [proc EXCEPT ![p].new.ktab = @ \union {g}]
    OBVIOUS
  <2> HIDE DEF g
  <2>3. proc' = [proc EXCEPT ![p] = n]
    BY <2>1, <2>2
  <2> QED BY <2>3 DEF At, Take, g
<1>2. /\ r \in RecType /\ Apart(r) /\ Shape(r) /\ r.new \in SpaceType
      /\ Pieces(r) = ({r.kstack, r.mem} \ {0}) \union PagesOf(r.as) \union PagesOf(r.new)
  BY ProcIs
<1>3. /\ g \in free /\ g \in Pages /\ g # 0 /\ g # r.kstack /\ g # r.mem
      /\ g \notin PagesOf(r.as) /\ g \notin PagesOf(r.new)
  BY FreshPage
<1> HIDE DEF r, g
<1>4. s \in SpaceType /\ Sound(s) /\ Mapped(s) = Mapped(r.new) /\ PagesOf(s) = PagesOf(r.new) \union {g}
  BY <1>1, <1>2, <1>3, AddTable DEF Apart
<1> HIDE DEF s
<1>5. /\ n \in RecType /\ n.pc = r.pc /\ n.op = r.op /\ n.va = r.va /\ n.end = r.end
      /\ n.as = r.as /\ n.new = s /\ n.kstack = r.kstack /\ n.mem = r.mem /\ n.sz = r.sz /\ n.child = r.child
  BY <1>2, <1>4 DEF RecType
<1> HIDE DEF n
<1>6. Apart(n)
  BY <1>2, <1>3, <1>4, <1>5 DEF Apart
<1>7. Pieces(n) = Pieces(r) \union {g}
  BY <1>2, <1>4, <1>5 DEF Pieces
<1>8. Shape(n)
  BY <1>1, <1>2, <1>4, <1>5 DEF Shape, Idle
<1>9. SameFork(r, n)
  BY <1>1, <1>5 DEF SameFork
<1>10. {g} \in SUBSET free
  BY <1>3
<1> QED
  BY <1>1, <1>5, <1>6, <1>7, <1>8, <1>9, <1>10, Takes DEF r

\* setupkvm returns.
LEMMA SetupDoneStep ==
  ASSUME IInv, NEW p \in Procs, SetupDone(p)
  PROVE  IInv'
<1> DEFINE r == proc[p]
           c == IF r.op = "fork" THEN "copy" ELSE "alloc"
           n == [r EXCEPT !.pc = c]
<1>1. /\ r.pc = "setup" /\ proc' = [proc EXCEPT ![p] = n]
      /\ free' = free /\ lost' = lost /\ panic' = panic
  BY DEF SetupDone, At
<1>2. /\ r \in RecType /\ Apart(r) /\ Shape(r)
  BY ProcIs
<1> HIDE DEF r
<1>3. /\ n \in RecType /\ n.pc = c /\ n.op = r.op /\ n.va = r.va /\ n.end = r.end
      /\ n.as = r.as /\ n.new = r.new /\ n.kstack = r.kstack /\ n.mem = r.mem /\ n.sz = r.sz /\ n.child = r.child
  BY <1>2 DEF RecType, PCs
<1> HIDE DEF n
<1>4. Apart(n) /\ Pieces(n) = Pieces(r)
  BY <1>2, <1>3, SamePlaces
<1>5. Shape(n)
  BY <1>1, <1>2, <1>3 DEF Shape, Idle
<1>6. SameFork(r, n)
  BY <1>1, <1>3 DEF SameFork
<1> QED
  BY <1>1, <1>3, <1>4, <1>5, <1>6, Keeps DEF r

\* exec begins with no page of the new space.
LEMMA ExecStep ==
  ASSUME IInv, NEW p \in Procs, NEW s \in ExecSizes, Exec(p, s)
  PROVE  IInv'
<1> DEFINE r == proc[p]
           n == [r EXCEPT !.pc = "setup", !.op = "exec", !.va = 0, !.end = s]
<1>1. /\ r.pc = "user" /\ proc' = [proc EXCEPT ![p] = n]
      /\ free' = free /\ lost' = lost /\ panic' = panic
  BY DEF Exec, At
<1>2. /\ r \in RecType /\ Apart(r) /\ Shape(r)
  BY ProcIs
<1>3. s \in Nat /\ s =< Top /\ PRU(s) \in Nat
  <2>1. s \in 1 .. Unit * MaxPages /\ Unit * MaxPages = MaxPages * Unit
    BY MemoryAssumption
  <2>2. s \in Nat /\ s =< Top
    BY <2>1, TopIs DEF Top
  <2> QED BY <2>2, RoundUp
<1> HIDE DEF r
<1>4. /\ n \in RecType /\ n.pc = "setup" /\ n.op = "exec" /\ n.va = 0 /\ n.end = s
      /\ n.as = r.as /\ n.new = r.new /\ n.kstack = r.kstack /\ n.mem = r.mem /\ n.sz = r.sz
  BY <1>2, <1>3 DEF RecType, PCs
<1> HIDE DEF n
<1>5. Apart(n) /\ Pieces(n) = Pieces(r)
  BY <1>2, <1>4, SamePlaces
<1>6. Shape(n)
  <2>1. /\ r.new = NoSpace /\ r.mem = 0 /\ r.kstack # 0 /\ Mapped(r.as) = Below(r.sz) /\ r.sz =< Top
    BY <1>1, <1>2 DEF Shape, Idle
  <2>2. Upto(0) = {}
    BY MemoryAssumption DEF Upto, VPages
  <2> QED BY <1>3, <1>4, <2>1, <2>2, EmptySpace DEF Shape, Idle
<1>7. SameFork(r, n)
  BY <1>4 DEF SameFork
<1> QED
  BY <1>1, <1>4, <1>5, <1>6, <1>7, Keeps DEF r

\* exec's second allocuvm begins where the first has ended.
LEMMA ExecStackStep ==
  ASSUME IInv, NEW p \in Procs, At(p, "alloc"), proc[p].op = "exec", proc[p].va * Unit >= proc[p].end,
         PageRoundUp(proc[p].end) + 2 < MaxPages,
         proc' = [proc EXCEPT ![p] = [proc[p] EXCEPT !.op = "execstack", !.va = PageRoundUp(proc[p].end),
                                                     !.end = (PageRoundUp(proc[p].end) + 2) * Unit]],
         free' = free, lost' = lost, panic' = panic
  PROVE  IInv'
<1> DEFINE r == proc[p]
           w == PRU(r.end)
           e == (w + 2) * Unit
           n == [r EXCEPT !.op = "execstack", !.va = w, !.end = e]
<1>1. /\ r.pc = "alloc" /\ r.op = "exec" /\ r.va * Unit >= r.end /\ proc' = [proc EXCEPT ![p] = n]
      /\ w + 2 < MaxPages
  BY DEF At, PRU
<1>2. /\ r \in RecType /\ Apart(r) /\ Shape(r) /\ r.va \in Nat /\ r.end \in Nat
  BY ProcIs
<1>3. w \in Nat /\ w =< r.va
  BY <1>1, <1>2, RoundUp, ReachedNot
<1>4. r.va = w
  <2>1. r.va =< w
    BY <1>1, <1>2 DEF Shape
  <2> QED BY <1>2, <1>3, <2>1
<1> HIDE DEF r, w
<1>5. e \in Nat /\ PRU(e) = w + 2 /\ e =< Top
  <2> DEFINE u == w + 2
  <2>1. u \in Nat /\ u < MaxPages
    BY <1>1, <1>3
  <2> HIDE DEF u
  <2>2. u * Unit \in Nat /\ PRU(u * Unit) = u
    BY <2>1, RoundUpWhole
  <2>3. u * Unit =< MaxPages * Unit
    BY <2>1, MemoryAssumption
  <2> QED BY <2>2, <2>3 DEF Top, u
<1> HIDE DEF e
<1>6. /\ n \in RecType /\ n.pc = r.pc /\ n.op = "execstack" /\ n.va = w /\ n.end = e
      /\ n.as = r.as /\ n.new = r.new /\ n.kstack = r.kstack /\ n.mem = r.mem /\ n.sz = r.sz
  BY <1>2, <1>3, <1>5 DEF RecType, PCs
<1> HIDE DEF n
<1>7. Apart(n) /\ Pieces(n) = Pieces(r)
  BY <1>2, <1>6, SamePlaces
<1>8. Shape(n)
  <2>1. /\ r.mem = 0 /\ r.kstack # 0 /\ Mapped(r.as) = Below(r.sz) /\ r.sz =< Top /\ Mapped(r.new) = Upto(w)
    BY <1>1, <1>2, <1>4 DEF Shape, Idle
  <2> QED BY <1>1, <1>3, <1>5, <1>6, <2>1 DEF Shape, Idle
<1>9. SameFork(r, n)
  BY <1>6 DEF SameFork
<1> QED
  BY <1>1, <1>6, <1>7, <1>8, <1>9, Keeps DEF r

\* The old space goes.
LEMMA ExecCommitStep ==
  ASSUME IInv, NEW p \in Procs, ExecCommit(p)
  PROVE  IInv'
<1> DEFINE r == proc[p]
           B == PagesOf(r.as)
           n == [Returned(r) EXCEPT !.as = r.new, !.sz = r.end]
<1>1. /\ r.pc = "alloc" /\ r.op = "execstack" /\ r.va * Unit >= r.end /\ proc' = [proc EXCEPT ![p] = n]
      /\ free' = free \union B /\ lost' = lost /\ panic' = panic
  BY DEF ExecCommit, At
<1>2. /\ r \in RecType /\ Apart(r) /\ Shape(r) /\ r.end \in Nat /\ r.va \in Nat /\ r.new \in SpaceType
      /\ Pieces(r) = ({r.kstack, r.mem} \ {0}) \union PagesOf(r.as) \union PagesOf(r.new)
      /\ r.end =< Top
  BY ProcIs
<1>3. PRU(r.end) =< r.va /\ Below(r.end) = Upto(PRU(r.end)) /\ PRU(r.end) \in Nat
  BY <1>1, <1>2, ReachedNot, BelowIs, RoundUp
<1>4. r.mem = 0 /\ Mapped(r.new) = Below(r.end) /\ r.kstack # 0 /\ r.end =< Top /\ 0 =< Top
  <2>1. r.mem = 0 /\ Mapped(r.new) = Upto(r.va) /\ r.kstack # 0 /\ r.va =< PRU(r.end)
    BY <1>1, <1>2 DEF Shape
  <2> QED BY <1>2, <1>3, <2>1, TopIs
<1> HIDE DEF r, B
<1>5. /\ n \in RecType /\ n.pc = "user" /\ n.op = "" /\ n.va = 0 /\ n.end = 0
      /\ n.as = r.new /\ n.new = NoSpace /\ n.kstack = r.kstack /\ n.mem = 0 /\ n.sz = r.end
  BY <1>2, ReturnedIs DEF RecType
<1> HIDE DEF n
<1>6. 0 \notin PagesOf(r.new) /\ 0 \notin B
  BY DEF PagesOf, B
<1>7. Apart(n)
  BY <1>2, <1>5, <1>6, EmptySpace DEF Apart
<1>8. Pieces(n) = Pieces(r) \ B
  BY <1>2, <1>4, <1>5, <1>6, EmptySpace DEF Pieces, Apart, B
<1>9. Shape(n)
  BY <1>4, <1>5 DEF Shape, Idle
<1>10. SameFork(r, n)
  BY <1>5 DEF SameFork
<1>11. B \in SUBSET Pieces(r)
  BY <1>2 DEF B
<1> QED
  BY <1>1, <1>5, <1>7, <1>8, <1>9, <1>10, <1>11, Gives DEF r

\* The page that is being mapped is not there yet: "remap" is never reached.
LEMMA NotMapped ==
  ASSUME NEW s \in SpaceType, NEW v \in VPages, Mapped(s) = Upto(v)
  PROVE  s.map[v] = 0
<1>1. VPages \subseteq Nat
  BY MemoryAssumption DEF VPages
<1>2. v \notin Upto(v)
  BY <1>1 DEF Upto
<1> QED
  BY <1>2 DEF Mapped

\* What mappages does in allocuvm and in copyuvm; s is the space, n the process after.
LEMMA MapStep ==
  ASSUME IInv, NEW p \in Procs, proc[p].pc \in {"map", "copymap"},
         NEW s \in SpaceType, s = Target(p), CanMap(s, proc[p].va)
  PROVE  /\ s.map[proc[p].va] = 0 /\ proc[p].va \in VPages
         /\ MapPage(s, proc[p].va, proc[p].mem) \in SpaceType
         /\ Sound(MapPage(s, proc[p].va, proc[p].mem))
         /\ Mapped(MapPage(s, proc[p].va, proc[p].mem)) = Upto(proc[p].va + 1)
         /\ PagesOf(MapPage(s, proc[p].va, proc[p].mem))
              = PagesOf(s) \union {proc[p].mem} \union Extra(s, proc[p].va)
         /\ FreeAfterMap(s, proc[p].va) = free \ Extra(s, proc[p].va)
         /\ Extra(s, proc[p].va) \subseteq free
         /\ proc[p].mem \notin Extra(s, proc[p].va)
<1> DEFINE r == proc[p]
           v == r.va
           m == r.mem
<1>1. /\ r \in RecType /\ Apart(r) /\ Shape(r) /\ v \in Nat /\ r.end \in Nat /\ m \in Entry
      /\ r.end =< Top
  BY ProcIs
<1>2. s = IF r.op = "sbrk" THEN r.as ELSE r.new
  BY DEF Target
<1>3. free # {} => /\ Page \in free /\ Page \in Pages /\ Page # m
                   /\ Page \notin PagesOf(r.as) /\ Page \notin PagesOf(r.new)
  BY FreshPage
<1>4. CanMap(s, v) /\ r.pc \in {"map", "copymap"}
  OBVIOUS
<1> HIDE DEF r
<1>5. m # 0 /\ v < PRU(r.end) /\ Mapped(s) = Upto(v)
  BY <1>1, <1>2, <1>4 DEF Shape
<1>6. Sound(s) /\ m \notin PagesOf(s)
  BY <1>1, <1>2 DEF Apart
<1>7. m \in Pages
  BY <1>1, <1>5 DEF Entry
<1> HIDE DEF v, m
<1>8. v \in VPages
  BY <1>1, <1>5, IsVPage
<1>9. s.map[v] = 0
  BY <1>5, <1>8, NotMapped
<1>10. free # {} => Page \in free /\ Page \in Pages /\ Page \notin PagesOf(s) /\ Page # m
  BY <1>2, <1>3
<1>11. Upto(v) \union {v} = Upto(v + 1)
  BY <1>1, <1>8, UptoNext
<1>12. /\ MapPage(s, v, m) \in SpaceType /\ Sound(MapPage(s, v, m))
       /\ Mapped(MapPage(s, v, m)) = Mapped(s) \union {v}
       /\ PagesOf(MapPage(s, v, m)) = PagesOf(s) \union {m} \union Extra(s, v)
       /\ FreeAfterMap(s, v) = free \ Extra(s, v) /\ Extra(s, v) \subseteq free
       /\ m \notin Extra(s, v)
  BY ONLY <1>4, <1>6, <1>7, <1>8, <1>9, <1>10, MapIs, s \in SpaceType
<1> QED
  BY <1>5, <1>8, <1>9, <1>11, <1>12 DEF r, v, m

\* allocuvm's loop maps a page in the space of sbrk or of exec.
LEMMA AllocMapStep ==
  ASSUME IInv, NEW p \in Procs, At(p, "map"), CanMap(Target(p), proc[p].va),
         proc' = [proc EXCEPT ![p] = WithTarget([proc[p] EXCEPT !.pc = "alloc", !.mem = 0, !.va = @ + 1],
                                                MapPage(Target(p), proc[p].va, proc[p].mem))],
         free' = FreeAfterMap(Target(p), proc[p].va),
         lost' = lost, panic' = panic
  PROVE  IInv'
<1> DEFINE r == proc[p]
           s == Target(p)
           t == MapPage(s, r.va, r.mem)
           X == Extra(s, r.va)
           k == [r EXCEPT !.pc = "alloc", !.mem = 0, !.va = @ + 1]
           n == WithTarget(k, t)
<1>1. /\ r.pc = "map" /\ proc' = [proc EXCEPT ![p] = n] /\ free' = FreeAfterMap(s, r.va)
      /\ CanMap(s, r.va) /\ s = IF r.op = "sbrk" THEN r.as ELSE r.new
  BY DEF At, Target
<1>2. /\ r \in RecType /\ Apart(r) /\ Shape(r) /\ r.end \in Nat /\ r.va \in Nat
      /\ Pieces(r) = ({r.kstack, r.mem} \ {0}) \union PagesOf(r.as) \union PagesOf(r.new)
      /\ r.as \in SpaceType /\ r.new \in SpaceType
      /\ Pieces(r) \cap free = {}
  BY ProcIs
<1>3. s \in SpaceType
  BY <1>1, <1>2
<1>4. /\ t \in SpaceType /\ Sound(t) /\ Mapped(t) = Upto(r.va + 1)
      /\ PagesOf(t) = PagesOf(s) \union {r.mem} \union X
      /\ free' = free \ X /\ X \in SUBSET free /\ r.mem \notin X
  BY <1>1, <1>3, MapStep
<1>5. r.va + 1 \in Nat /\ r.va + 1 =< PRU(r.end) /\ PRU(r.end) \in Nat /\ r.op \in {"sbrk", "exec", "execstack"}
      /\ r.mem # 0
  <2>1. r.va < PRU(r.end) /\ r.op \in {"sbrk", "exec", "execstack"} /\ r.mem # 0
    BY <1>1, <1>2 DEF Shape
  <2> QED BY <1>2, <2>1, RoundUp
<1> HIDE DEF r, s, t, X
<1>6. /\ k \in RecType /\ k.pc = "alloc" /\ k.op = r.op /\ k.va = r.va + 1 /\ k.end = r.end
      /\ k.as = r.as /\ k.new = r.new /\ k.kstack = r.kstack /\ k.mem = 0 /\ k.sz = r.sz
  BY <1>2, <1>5 DEF RecType, PCs, Entry
<1> HIDE DEF k
<1>7. /\ n \in RecType /\ n.pc = "alloc" /\ n.op = r.op /\ n.va = r.va + 1 /\ n.end = r.end
      /\ n.as = (IF r.op = "sbrk" THEN t ELSE r.as)
      /\ n.new = (IF r.op = "sbrk" THEN r.new ELSE t)
      /\ n.kstack = r.kstack /\ n.mem = 0 /\ n.sz = r.sz
  BY <1>4, <1>6 DEF RecType, WithTarget
<1> HIDE DEF n
<1>8. X \cap Pieces(r) = {} /\ 0 \notin PagesOf(r.as) \union PagesOf(r.new) \union PagesOf(t)
  BY <1>2, <1>4 DEF PagesOf
<1>9. Apart(n)
  BY <1>1, <1>2, <1>4, <1>5, <1>7, <1>8 DEF Apart
<1>10. Pieces(n) = Pieces(r) \union X
  BY <1>1, <1>2, <1>4, <1>5, <1>7 DEF Pieces
<1>11. Shape(n)
  <2>1. CASE r.op = "sbrk"
    <3>1. /\ r.new = NoSpace /\ r.sz < r.end /\ PRU(r.sz) =< r.va /\ r.kstack # 0 /\ r.sz =< Top /\ r.end =< Top
          /\ r.sz \in Nat
      BY <1>1, <1>2, <2>1 DEF Shape, RecType
    <3>2. PRU(r.sz) =< r.va + 1
      BY <1>2, <3>1, RoundUp
    <3> QED BY <1>4, <1>5, <1>7, <2>1, <3>1, <3>2 DEF Shape, Idle
  <2>2. CASE r.op # "sbrk"
    <3>1. r.kstack # 0 /\ r.sz =< Top /\ r.end =< Top /\ Mapped(r.as) = Below(r.sz)
      BY <1>1, <1>2, <1>5, <2>2 DEF Shape
    <3> QED BY <1>4, <1>5, <1>7, <2>2, <3>1 DEF Shape, Idle
  <2> QED BY <2>1, <2>2
<1>12. SameFork(r, n)
  BY <1>5, <1>7 DEF SameFork
<1> QED
  BY ONLY IInv, p \in Procs, lost' = lost, panic' = panic, <1>1, <1>4, <1>7, <1>9, <1>10, <1>11,
          <1>12, Takes DEF r

\* copyuvm finds every page of the parent: it does not panic.
LEMMA ParentHasPage ==
  ASSUME IInv, NEW p \in Procs, proc[p].pc = "copy", proc[p].va * Unit < proc[p].end
  PROVE  proc[p].as.map[proc[p].va] # 0
<1> DEFINE r == proc[p]
<1>1. /\ r \in RecType /\ Shape(r) /\ r.end \in Nat /\ r.va \in Nat /\ r.sz \in Nat /\ r.end =< Top
  BY ProcIs
<1>2. r.va < PRU(r.end)
  BY <1>1, Reached
<1>3. r.va \in VPages
  BY <1>1, <1>2, IsVPage
<1>4. r.pc = "copy"
  OBVIOUS
<1> HIDE DEF r
<1>5. Mapped(r.as) = Below(r.sz) /\ r.end = r.sz
  BY <1>1, <1>4 DEF Shape
<1>6. Below(r.sz) = Upto(PRU(r.sz))
  BY <1>1, BelowIs
<1>7. r.va \in Upto(PRU(r.sz))
  BY <1>2, <1>3, <1>5 DEF Upto
<1>8. r.va \in Mapped(r.as)
  BY <1>5, <1>6, <1>7
<1> QED
  BY <1>8 DEF Mapped, r

\* copyuvm's page is the parent's until it is mapped in the copy.
LEMMA CopyPageStep ==
  ASSUME IInv, NEW p \in Procs, At(p, "copy"), proc[p].va * Unit < proc[p].end, free # {},
         proc' = [proc EXCEPT ![p].mem = Page, ![p].pc = "copymap"], free' = Take(free),
         lost' = lost, panic' = panic
  PROVE  IInv'
<1> DEFINE r == proc[p]
           g == Page
           n == [r EXCEPT !.mem = g, !.pc = "copymap"]
<1>1. /\ r.pc = "copy" /\ r.va * Unit < r.end /\ proc' = [proc EXCEPT ![p] = n]
      /\ free' = free \ {g}
  <2>1. proc \in [Procs -> RecType]
    BY ProcIs
  <2> QED BY <2>1 DEF At, Take
<1>2. /\ r \in RecType /\ Apart(r) /\ Shape(r) /\ r.end \in Nat /\ r.va \in Nat
      /\ Pieces(r) = ({r.kstack, r.mem} \ {0}) \union PagesOf(r.as) \union PagesOf(r.new)
  BY ProcIs
<1>3. /\ g \in free /\ g \in Pages /\ g # 0 /\ g # r.kstack
      /\ g \notin PagesOf(r.as) /\ g \notin PagesOf(r.new)
  BY FreshPage
<1>4. r.va < PRU(r.end)
  BY <1>1, <1>2, Reached
<1> HIDE DEF r, g
<1>5. /\ n \in RecType /\ n.pc = "copymap" /\ n.op = r.op /\ n.va = r.va /\ n.end = r.end
      /\ n.as = r.as /\ n.new = r.new /\ n.kstack = r.kstack /\ n.mem = g /\ n.sz = r.sz /\ n.child = r.child
  BY <1>2, <1>3 DEF RecType, PCs, Entry
<1> HIDE DEF n
<1>6. Apart(n)
  BY <1>2, <1>3, <1>5 DEF Apart
<1>7. Pieces(n) = Pieces(r) \union {g}
  <2>1. r.mem = 0
    BY <1>1, <1>2 DEF Shape
  <2> QED BY <1>2, <1>3, <1>5, <2>1 DEF Pieces
<1>8. Shape(n)
  BY <1>1, <1>2, <1>3, <1>4, <1>5 DEF Shape, Idle
<1>9. SameFork(r, n)
  BY <1>1, <1>2, <1>5 DEF SameFork, Shape
<1>10. {g} \in SUBSET free
  BY <1>3
<1> QED
  BY <1>1, <1>5, <1>6, <1>7, <1>8, <1>9, <1>10, Takes DEF r

\* copyuvm maps it.
LEMMA CopyMapStep ==
  ASSUME IInv, NEW p \in Procs, At(p, "copymap"), CanMap(proc[p].new, proc[p].va),
         proc' = [proc EXCEPT ![p] = [proc[p] EXCEPT !.pc = "copy", !.mem = 0, !.va = @ + 1,
                                                     !.new = MapPage(proc[p].new, proc[p].va, proc[p].mem)]],
         free' = FreeAfterMap(proc[p].new, proc[p].va),
         lost' = lost, panic' = panic
  PROVE  IInv'
<1> DEFINE r == proc[p]
           s == r.new
           t == MapPage(s, r.va, r.mem)
           X == Extra(s, r.va)
           w == r.va + 1
           n == [r EXCEPT !.pc = "copy", !.mem = 0, !.va = w, !.new = t]
<1>1. /\ r.pc = "copymap" /\ free' = FreeAfterMap(s, r.va) /\ CanMap(s, r.va)
  BY DEF At
<1>2. /\ r \in RecType /\ Apart(r) /\ Shape(r) /\ r.end \in Nat /\ r.va \in Nat
      /\ Pieces(r) = ({r.kstack, r.mem} \ {0}) \union PagesOf(r.as) \union PagesOf(r.new)
      /\ r.as \in SpaceType /\ s \in SpaceType
      /\ Pieces(r) \cap free = {}
  BY ProcIs
<1>3. r.op = "fork" /\ r.va < PRU(r.end) /\ r.mem # 0
  BY <1>1, <1>2 DEF Shape
<1>4. s = Target(p)
  BY <1>3 DEF Target
<1>5. proc' = [proc EXCEPT ![p] = n]
  OBVIOUS
<1>6. /\ t \in SpaceType /\ Sound(t) /\ Mapped(t) = Upto(w)
      /\ PagesOf(t) = PagesOf(s) \union {r.mem} \union X
      /\ free' = free \ X /\ X \in SUBSET free /\ r.mem \notin X
  BY <1>1, <1>2, <1>4, MapStep
<1>7. w \in Nat /\ w =< PRU(r.end)
  BY <1>2, <1>3, RoundUp
<1> HIDE DEF r, t, X, w
<1>8. /\ n \in RecType /\ n.pc = "copy" /\ n.op = r.op /\ n.va = w /\ n.end = r.end
      /\ n.as = r.as /\ n.new = t /\ n.child = r.child
      /\ n.kstack = r.kstack /\ n.mem = 0 /\ n.sz = r.sz
  BY <1>2, <1>6, <1>7 DEF RecType, PCs, Entry
<1> HIDE DEF n
<1>9. X \cap Pieces(r) = {} /\ 0 \notin PagesOf(r.as) \union PagesOf(r.new) \union PagesOf(t)
  BY <1>2, <1>6 DEF PagesOf
<1>10. Apart(n)
  BY <1>2, <1>3, <1>6, <1>8, <1>9 DEF Apart
<1>11. Pieces(n) = Pieces(r) \union X
  BY <1>2, <1>3, <1>6, <1>8 DEF Pieces
<1>12. Shape(n)
  <2>1. /\ r.kstack # 0 /\ r.sz =< Top /\ r.end =< Top /\ Mapped(r.as) = Below(r.sz)
        /\ r.end = r.sz /\ r.child # 0
    BY <1>1, <1>2, <1>3 DEF Shape
  <2> QED BY <1>3, <1>6, <1>7, <1>8, <2>1 DEF Shape, Idle
<1>13. SameFork(r, n)
  BY <1>1, <1>3, <1>8 DEF SameFork
<1> QED
  BY ONLY IInv, p \in Procs, lost' = lost, panic' = panic, <1>1, <1>5, <1>6, <1>8, <1>10, <1>11, <1>12,
          <1>13, Takes DEF r

-----------------------------------------------------------------------------
(* The steps that find no memory *)

\* allocuvm, setupkvm or mappages fails in sbrk or exec: all of the call's pages come back.
LEMMA FailedAllocStep ==
  ASSUME IInv, NEW p \in Procs, proc[p].pc \in {"alloc", "map", "setup"}, proc[p].op # "fork", FailedAlloc(p)
  PROVE  IInv'
<1> DEFINE r == proc[p]
           t == Target(p)
           a == Dealloc(t, r.end, r.sz)
           C == DeallocPages(t, r.end, r.sz)
           back == IF r.op = "sbrk" THEN C ELSE PagesOf(t)
           kept == IF r.op = "sbrk" THEN [r EXCEPT !.as = a] ELSE r
           n == Returned(kept)
           B == back \union ({r.mem} \ {0})
<1>1. /\ r.pc \in {"alloc", "map", "setup"} /\ proc' = [proc EXCEPT ![p] = n]
      /\ free' = free \union B /\ lost' = lost /\ panic' = panic
      /\ t = IF r.op = "sbrk" THEN r.as ELSE r.new
  <2>1. /\ free' = free \union back \union ({r.mem} \ {0})
        /\ proc' = [proc EXCEPT ![p] = n] /\ lost' = lost /\ panic' = panic
    BY DEF FailedAlloc
  <2>2. t = IF r.op = "sbrk" THEN r.as ELSE r.new
    BY DEF Target
  <2> HIDE DEF n, back, t
  <2> QED BY <2>1, <2>2
<1>2. /\ r \in RecType /\ Apart(r) /\ Shape(r) /\ r.sz \in Nat /\ r.end \in Nat /\ r.va \in Nat
      /\ r.as \in SpaceType /\ r.new \in SpaceType
      /\ Pieces(r) = ({r.kstack, r.mem} \ {0}) \union PagesOf(r.as) \union PagesOf(r.new)
      /\ r.sz =< Top /\ r.end =< Top
  BY ProcIs
<1>3. r.op \in {"sbrk", "exec", "execstack"}
  BY <1>1, <1>2 DEF Shape
<1>4. r.op = "sbrk" => /\ t = r.as /\ a \in SpaceType /\ Sound(a) /\ PagesOf(a) = PagesOf(r.as) \ C
                       /\ Mapped(a) = Mapped(r.as) \ Dropped(r.as, r.end, r.sz)
                       /\ C \subseteq PagesOf(r.as)
  <2> SUFFICES ASSUME r.op = "sbrk" PROVE
                       /\ t = r.as /\ a \in SpaceType /\ Sound(a) /\ PagesOf(a) = PagesOf(r.as) \ C
                       /\ Mapped(a) = Mapped(r.as) \ Dropped(r.as, r.end, r.sz)
                       /\ C \subseteq PagesOf(r.as)
    OBVIOUS
  <2>1. t = r.as /\ t \in SpaceType /\ Sound(t)
    BY <1>1, <1>2 DEF Apart
  <2> HIDE DEF t, r
  <2>2. /\ a \in SpaceType /\ Sound(a) /\ PagesOf(a) = PagesOf(t) \ C
        /\ Mapped(a) = Mapped(t) \ Dropped(t, r.end, r.sz)
        /\ C \subseteq PagesOf(t)
    BY ONLY <2>1, DropIs
  <2> HIDE DEF a, C
  <2> QED BY <2>1, <2>2
\* What was mapped is exactly what the size before the call asks for.
<1>5. r.op = "sbrk" => Mapped(r.as) \ Dropped(r.as, r.end, r.sz) = Below(r.sz)
  <2> SUFFICES ASSUME r.op = "sbrk" PROVE Mapped(r.as) \ Dropped(r.as, r.end, r.sz) = Below(r.sz)
    OBVIOUS
  <2>1. /\ Below(r.sz) = Upto(PRU(r.sz)) /\ Below(r.end) = Upto(PRU(r.end))
        /\ PRU(r.sz) \in Nat /\ PRU(r.end) \in Nat
    BY <1>2, BelowIs, RoundUp
  <2> HIDE DEF r
  <2>2. Mapped(r.as) = Upto(r.va) /\ PRU(r.sz) =< r.va /\ r.va =< PRU(r.end)
    BY <1>2 DEF Shape
  <2>3. Upto(PRU(r.sz)) \subseteq Upto(r.va) /\ Upto(r.va) \subseteq Upto(PRU(r.end))
    <3>1. VPages \subseteq Nat
      BY MemoryAssumption DEF VPages
    <3> QED BY <1>2, <2>1, <2>2, <3>1 DEF Upto
  <2> QED BY <2>1, <2>2, <2>3 DEF Dropped
<1> HIDE DEF r, t, a, C
<1>6. /\ kept \in RecType /\ kept.as = (IF r.op = "sbrk" THEN a ELSE r.as)
      /\ kept.kstack = r.kstack /\ kept.sz = r.sz
  BY <1>2, <1>4 DEF RecType
<1> HIDE DEF kept
<1>7. /\ n \in RecType /\ n.pc = "user" /\ n.op = "" /\ n.va = 0 /\ n.end = 0 /\ n.as = kept.as
      /\ n.new = NoSpace /\ n.kstack = r.kstack /\ n.mem = 0 /\ n.sz = r.sz
  BY <1>6, ReturnedIs
<1> HIDE DEF n
<1>8. /\ r.kstack # 0 /\ (r.op = "sbrk" => r.new = NoSpace)
      /\ (r.op # "sbrk" => Mapped(r.as) = Below(r.sz))
  BY <1>1, <1>2, <1>3 DEF Shape
<1>9. 0 \notin PagesOf(r.as) /\ 0 \notin PagesOf(r.new) /\ 0 \notin PagesOf(a)
  BY DEF PagesOf
<1>10. PagesOf(n.as) \subseteq PagesOf(r.as) /\ Sound(n.as)
  BY <1>2, <1>4, <1>6, <1>7 DEF Apart
<1>11. Apart(n)
  BY <1>2, <1>7, <1>9, <1>10, EmptySpace DEF Apart
<1>12. B \in SUBSET Pieces(r) /\ Pieces(n) = Pieces(r) \ B
  <2>1. /\ PagesOf(r.as) \cap PagesOf(r.new) = {} /\ r.kstack \notin PagesOf(r.as) \union PagesOf(r.new)
        /\ r.mem \notin PagesOf(r.as) \union PagesOf(r.new) /\ (r.mem # 0 => r.mem # r.kstack)
    BY <1>2 DEF Apart
  <2>2. Pieces(n) = {r.kstack} \union PagesOf(n.as)
    BY <1>7, <1>8, EmptySpace DEF Pieces
  <2>3. CASE r.op = "sbrk"
    <3>1. back = C /\ PagesOf(n.as) = PagesOf(r.as) \ C /\ PagesOf(r.new) = {} /\ C \subseteq PagesOf(r.as)
      BY <1>4, <1>6, <1>7, <1>8, <2>3, EmptySpace
    <3> HIDE DEF back
    <3> QED BY <1>2, <1>8, <1>9, <2>1, <2>2, <3>1
  <2>4. CASE r.op # "sbrk"
    <3>1. back = PagesOf(r.new) /\ PagesOf(n.as) = PagesOf(r.as)
      BY <1>1, <1>6, <1>7, <2>4
    <3> HIDE DEF back
    <3> QED BY <1>2, <1>8, <1>9, <2>1, <2>2, <3>1
  <2> QED BY <2>3, <2>4
<1> HIDE DEF B
<1>13. Shape(n)
  <2>1. Mapped(n.as) = Below(r.sz)
    BY <1>4, <1>5, <1>6, <1>7, <1>8
  <2>2. r.sz =< Top /\ 0 =< Top
    BY <1>2, TopIs
  <2> QED BY <1>7, <1>8, <2>1, <2>2 DEF Shape, Idle
<1>14. SameFork(r, n)
  BY <1>7 DEF SameFork
<1>15. r.pc # "embryo"
  BY <1>1
<1> QED
  BY ONLY IInv, p \in Procs, <1>1, <1>7, <1>11, <1>12, <1>13, <1>14, <1>15, Gives DEF r

-----------------------------------------------------------------------------
(* fork: a process and the entry of its child *)

\* UNUSED is a process of the types, with nothing.
LEMMA UnusedIs ==
  /\ Unused \in RecType /\ Apart(Unused) /\ Shape(Unused) /\ Pieces(Unused) = {}
  /\ Unused.pc = "unused" /\ Unused.op = ""
<1>1. /\ Unused.pc = "unused" /\ Unused.op = "" /\ Unused.parent = 0 /\ Unused.kstack = 0
      /\ Unused.as = NoSpace /\ Unused.sz = 0 /\ Unused.new = NoSpace /\ Unused.mem = 0
      /\ Unused.va = 0 /\ Unused.end = 0 /\ Unused.child = 0
  BY DEF Unused
<1>2. Unused \in RecType
  BY EmptySpace DEF Unused, RecType, PCs, Entry
<1>3. Apart(Unused)
  BY <1>1, EmptySpace DEF Apart
<1>4. Shape(Unused)
  <2>1. 0 =< Top
    BY TopIs
  <2> QED BY <1>1, <2>1 DEF Shape, Idle
<1>5. Pieces(Unused) = {}
  BY <1>1, EmptySpace DEF Pieces
<1> QED
  BY <1>1, <1>2, <1>3, <1>4, <1>5

\* The entry of a fork is another process, that no call of its own goes on in.
LEMMA ChildIs ==
  ASSUME IInv, NEW p \in Procs, proc[p].op = "fork"
  PROVE  /\ proc[p].child \in Procs /\ proc[p].child # p
         /\ proc[proc[p].child].pc = "embryo" /\ proc[proc[p].child].op = ""
         /\ proc[proc[p].child].as = NoSpace /\ proc[proc[p].child].new = NoSpace
         /\ proc[proc[p].child].mem = 0
         /\ Pieces(proc[proc[p].child]) = {proc[proc[p].child].kstack} \ {0}
         /\ proc[p].pc = "kstack" <=> proc[proc[p].child].kstack = 0
         /\ proc[p].pc # "embryo"
<1> DEFINE c == proc[p].child
<1>1. c \in Procs
  BY ProcIs DEF RecType, Shape
<1>2. proc[c].pc = "embryo" /\ (proc[p].pc = "kstack" <=> proc[c].kstack = 0)
  BY DEF IInv, ForkOK
<1>3. proc[p].pc \notin Idle
  BY ProcIs DEF Shape
<1>4. c # p /\ proc[p].pc # "embryo"
  BY <1>2, <1>3 DEF Idle
<1> HIDE DEF c
<1>5. Shape(proc[c])
  BY <1>1, ProcIs
<1>6. proc[c].op = "" /\ proc[c].as = NoSpace /\ proc[c].new = NoSpace /\ proc[c].mem = 0
  BY <1>2, <1>5 DEF Shape, Idle
<1>7. Pieces(proc[c]) = {proc[c].kstack} \ {0}
  BY <1>6, EmptySpace DEF Pieces
<1> QED
  BY <1>1, <1>2, <1>4, <1>6, <1>7 DEF c

\* TwoChange for the new records of the two.
LEMMA StepTwo ==
  ASSUME IInv, NEW p \in Procs, NEW c \in Procs, p # c, NEW n \in RecType, NEW k \in RecType,
         proc' = [proc EXCEPT ![p] = n, ![c] = k], panic' = panic,
         Apart(n), Shape(n), Apart(k), Shape(k),
         free' \union lost' \union Pieces(n) \union Pieces(k)
           = free \union lost \union Pieces(proc[p]) \union Pieces(proc[c]),
         free' \cap lost' = {}, Pieces(n) \cap (free' \union lost') = {},
         Pieces(k) \cap (free' \union lost') = {}, Pieces(n) \cap Pieces(k) = {},
         proc[p].pc # "embryo", k.op # "fork", proc[c].op # "fork",
         proc[c].pc = "embryo" => proc[p].op = "fork" /\ proc[p].child = c,
         n.op = "fork" => n.child = c /\ k.pc = "embryo" /\ (n.pc = "kstack" <=> k.kstack = 0)
  PROVE  IInv'
<1>1. proc \in [Procs -> RecType]
  BY ProcIs
<1>2. /\ proc' \in [Procs -> RecType] /\ proc'[p] = n /\ proc'[c] = k
      /\ \A q \in Procs \ {p, c} : proc'[q] = proc[q]
  BY <1>1
<1>3. /\ Apart(proc'[p]) /\ Shape(proc'[p]) /\ Apart(proc'[c]) /\ Shape(proc'[c])
      /\ Pieces(proc'[p]) = Pieces(n) /\ Pieces(proc'[c]) = Pieces(k)
  BY <1>2
<1>4. /\ free' \union lost' \union Pieces(proc'[p]) \union Pieces(proc'[c])
           = free \union lost \union Pieces(proc[p]) \union Pieces(proc[c])
      /\ Pieces(proc'[p]) \cap (free' \union lost') = {}
      /\ Pieces(proc'[c]) \cap (free' \union lost') = {}
      /\ Pieces(proc'[p]) \cap Pieces(proc'[c]) = {}
  BY <1>3
<1>5. /\ proc'[c].op # "fork"
      /\ proc'[p].op = "fork" => /\ proc'[p].child = c /\ proc'[c].pc = "embryo"
                                 /\ proc'[p].pc = "kstack" <=> proc'[c].kstack = 0
  BY <1>2
<1> QED
  BY <1>2, <1>3, <1>4, <1>5, TwoChange

\* allocproc takes the first entry that is UNUSED.
LEMMA SlotIs ==
  ASSUME FreeSlots # {}
  PROVE  Min(FreeSlots) \in FreeSlots
<1>1. FreeSlots \subseteq Nat
  BY MemoryAssumption DEF FreeSlots, Procs
<1> DEFINE F == FreeSlots
           L == OpToRel(<, Nat)
<1>2. PICK x \in F : \A y \in F : ~(<<y, x>> \in L)
  BY <1>1, NatLessThanWellFounded, WFMin
<1>3. ASSUME NEW y \in F PROVE ~(y < x)
  <2>1. <<y, x>> \in Nat \X Nat
    BY <1>1
  <2> QED BY <1>2, <2>1 DEF OpToRel
<1> HIDE DEF L
<1>4. \A y \in F : x =< y
  BY <1>1, <1>3
<1> QED
  BY <1>4 DEF Min

\* fork takes an entry.
LEMMA ForkStep ==
  ASSUME IInv, NEW p \in Procs, Fork(p)
  PROVE  IInv'
<1> DEFINE r == proc[p]
           c == Min(FreeSlots)
           d == proc[c]
           n == [r EXCEPT !.pc = "kstack", !.op = "fork", !.child = c, !.va = 0, !.end = r.sz]
           k == [d EXCEPT !.pc = "embryo"]
<1>1. /\ r.pc = "user" /\ FreeSlots # {} /\ free' = free /\ lost' = lost /\ panic' = panic
      /\ proc' = [proc EXCEPT ![p] = n, ![c].pc = "embryo"]
  BY DEF Fork, At
<1>2. c \in FreeSlots
  BY <1>1, SlotIs
<1>3. c \in Procs /\ d.pc = "unused"
  BY <1>2 DEF FreeSlots
<1> HIDE DEF c
<1>4. p # c /\ proc \in [Procs -> RecType]
  BY <1>1, <1>3, ProcIs
<1>5. /\ r \in RecType /\ Apart(r) /\ Shape(r) /\ r.sz \in Nat /\ r.sz =< Top
      /\ free \cap lost = {} /\ Pieces(r) \cap (free \union lost) = {}
  BY ProcIs
<1>6. /\ d \in RecType /\ Apart(d) /\ Shape(d) /\ Pieces(d) \cap (free \union lost) = {}
  BY <1>3, ProcIs
<1>7. proc' = [proc EXCEPT ![p] = n, ![c] = k]
  <2> HIDE DEF n
  <2> QED BY <1>1, <1>3, <1>4
<1>8. PRU(r.sz) \in Nat
  BY <1>5, RoundUp
<1>9. Pieces(r) \cap Pieces(d) = {}
  BY <1>3, <1>4, PartedIs DEF IInv
<1> HIDE DEF r, d
<1>10. /\ n \in RecType /\ n.pc = "kstack" /\ n.op = "fork" /\ n.va = 0 /\ n.end = r.sz /\ n.child = c
       /\ n.as = r.as /\ n.new = r.new /\ n.kstack = r.kstack /\ n.mem = r.mem /\ n.sz = r.sz
  BY <1>3, <1>5 DEF RecType, PCs
<1>11. /\ k \in RecType /\ k.pc = "embryo" /\ k.op = d.op /\ k.va = d.va /\ k.end = d.end
       /\ k.as = d.as /\ k.new = d.new /\ k.kstack = d.kstack /\ k.mem = d.mem /\ k.sz = d.sz
  BY <1>6 DEF RecType, PCs
<1> HIDE DEF n, k
<1>12. Apart(n) /\ Pieces(n) = Pieces(r) /\ Apart(k) /\ Pieces(k) = Pieces(d)
  BY <1>5, <1>6, <1>10, <1>11, SamePlaces
<1>13. Shape(n)
  <2>1. /\ r.new = NoSpace /\ r.mem = 0 /\ r.kstack # 0 /\ Mapped(r.as) = Below(r.sz)
    BY <1>1, <1>5 DEF Shape, Idle
  <2>2. Upto(0) = {}
    BY MemoryAssumption DEF Upto, VPages
  <2>3. c # 0 /\ 0 =< PRU(r.sz)
    BY <1>3, <1>8 DEF Procs
  <2> QED BY <1>5, <1>10, <2>1, <2>2, <2>3, EmptySpace DEF Shape, Idle
<1>14. /\ d.op = "" /\ d.new = NoSpace /\ d.mem = 0 /\ d.as = NoSpace /\ d.kstack = 0
       /\ d.sz =< Top /\ d.end =< Top
  BY <1>3, <1>6 DEF Shape, Idle
<1>15. Shape(k)
  BY <1>11, <1>14 DEF Shape, Idle
<1>16. Pieces(d) = {}
  BY <1>14, EmptySpace DEF Pieces
<1>17. /\ free' \union lost' \union Pieces(n) \union Pieces(k) = free \union lost \union Pieces(r) \union Pieces(d)
       /\ free' \cap lost' = {} /\ Pieces(n) \cap (free' \union lost') = {}
       /\ Pieces(k) \cap (free' \union lost') = {} /\ Pieces(n) \cap Pieces(k) = {}
  BY <1>1, <1>5, <1>12, <1>16
<1>18. /\ r.pc # "embryo" /\ k.op # "fork" /\ d.op # "fork" /\ d.pc # "embryo"
       /\ n.child = c /\ k.pc = "embryo" /\ n.pc = "kstack" /\ k.kstack = 0
  BY <1>1, <1>3, <1>10, <1>11, <1>14
<1> QED
  BY ONLY IInv, p \in Procs, <1>1, <1>3, <1>4, <1>7, <1>10, <1>11, <1>12, <1>13, <1>15, <1>17, <1>18,
          StepTwo DEF r, d

\* allocproc's kernel stack.
LEMMA ForkStackStep ==
  ASSUME IInv, NEW p \in Procs, At(p, "kstack"), free # {},
         proc' = [proc EXCEPT ![proc[p].child].kstack = Page, ![p].pc = "setup"],
         free' = Take(free), lost' = lost, panic' = panic
  PROVE  IInv'
<1> DEFINE r == proc[p]
           c == proc[p].child
           d == proc[c]
           g == Page
           n == [r EXCEPT !.pc = "setup"]
           k == [d EXCEPT !.kstack = g]
<1>1. r.pc = "kstack" /\ free' = free \ {g} /\ lost' = lost /\ panic' = panic
      /\ proc' = [proc EXCEPT ![c].kstack = g, ![p].pc = "setup"]
  BY DEF At, Take
<1>2. /\ r \in RecType /\ Apart(r) /\ Shape(r) /\ free \cap lost = {} /\ Pieces(r) \cap (free \union lost) = {}
  BY ProcIs
<1>3. r.op = "fork"
  BY <1>1, <1>2 DEF Shape
<1>4. /\ c \in Procs /\ c # p /\ d.pc = "embryo" /\ d.op = "" /\ d.as = NoSpace /\ d.new = NoSpace
      /\ d.mem = 0 /\ Pieces(d) = {d.kstack} \ {0} /\ d.kstack = 0
  BY <1>1, <1>3, ChildIs
<1>5. d \in RecType /\ Apart(d) /\ Shape(d)
  BY <1>4, ProcIs
<1>6. g \in free /\ g \in Pages /\ g # 0 /\ g \notin Pieces(r)
  BY FreshPage
<1>7. proc \in [Procs -> RecType]
  BY ProcIs
<1>8. r.child = c
  OBVIOUS
<1> HIDE DEF g, c
<1>9. proc' = [proc EXCEPT ![p] = n, ![c] = k]
  BY <1>1, <1>4, <1>7
<1> HIDE DEF r, d
<1>10. /\ n \in RecType /\ n.pc = "setup" /\ n.op = "fork" /\ n.va = r.va /\ n.end = r.end /\ n.child = c
       /\ n.as = r.as /\ n.new = r.new /\ n.kstack = r.kstack /\ n.mem = r.mem /\ n.sz = r.sz
  BY <1>2, <1>3, <1>8 DEF RecType, PCs
<1>11. /\ k \in RecType /\ k.pc = "embryo" /\ k.op = "" /\ k.va = d.va /\ k.end = d.end
       /\ k.as = NoSpace /\ k.new = NoSpace /\ k.kstack = g /\ k.mem = 0 /\ k.sz = d.sz
  BY <1>4, <1>5, <1>6 DEF RecType, Entry
<1> HIDE DEF n, k
<1>12. Apart(n) /\ Pieces(n) = Pieces(r)
  BY <1>2, <1>10, SamePlaces
<1>13. Apart(k) /\ Pieces(k) = {g}
  BY <1>6, <1>11, EmptySpace DEF Apart, Pieces
<1>14. Shape(n)
  <2>1. /\ Mapped(r.new) = Upto(r.va) /\ r.new = NoSpace /\ r.va \in Nat /\ r.va =< PRU(r.end)
        /\ r.mem = 0 /\ r.kstack # 0 /\ r.sz =< Top /\ r.end =< Top /\ r.end = r.sz /\ r.child # 0
        /\ Mapped(r.as) = Below(r.sz)
    BY <1>1, <1>2, <1>3 DEF Shape, RecType
  <2>2. r.va = 0
    <3>1. 0 \in VPages
      BY MemoryAssumption DEF VPages
    <3>2. Upto(r.va) = {}
      BY <2>1, EmptySpace
    <3>3. ~(0 < r.va)
      BY <3>1, <3>2 DEF Upto
    <3> QED BY <2>1, <3>3
  <2> QED BY <1>8, <1>10, <2>1, <2>2 DEF Shape, Idle
<1>15. Shape(k)
  <2>1. d.sz =< Top /\ d.end =< Top
    BY <1>5 DEF Shape
  <2> QED BY <1>11, <2>1 DEF Shape, Idle
<1>16. /\ free' \union lost' \union Pieces(n) \union Pieces(k) = free \union lost \union Pieces(r) \union Pieces(d)
       /\ free' \cap lost' = {} /\ Pieces(n) \cap (free' \union lost') = {}
       /\ Pieces(k) \cap (free' \union lost') = {} /\ Pieces(n) \cap Pieces(k) = {}
  <2>1. free' = free \ {g} /\ lost' = lost
    BY <1>1
  <2>2. free \cap lost = {} /\ Pieces(r) \cap (free \union lost) = {}
    BY <1>2
  <2>3. Pieces(d) = {}
    BY <1>4
  <2>4. g \in free
    BY <1>6
  <2>5. Pieces(n) = Pieces(r) /\ Pieces(k) = {g}
    BY <1>12, <1>13
  <2> QED BY ONLY <2>1, <2>2, <2>3, <2>4, <2>5
<1>17. /\ r.pc # "embryo" /\ k.op # "fork" /\ d.op # "fork"
       /\ n.child = c /\ k.pc = "embryo" /\ n.pc # "kstack" /\ k.kstack # 0
  BY <1>1, <1>4, <1>6, <1>10, <1>11
<1> QED
  BY ONLY IInv, p \in Procs, <1>1, <1>3, <1>4, <1>8, <1>9, <1>10, <1>11, <1>12, <1>13, <1>14, <1>15,
          <1>16, <1>17, StepTwo DEF r, d

\* The child runs, with the space that the parent has built.
LEMMA ForkedStep ==
  ASSUME IInv, NEW p \in Procs, Forked(p)
  PROVE  IInv'
<1> DEFINE r == proc[p]
           c == proc[p].child
           d == proc[c]
           n == Returned(r)
           k == [d EXCEPT !.pc = "user", !.as = r.new, !.sz = r.sz, !.parent = p]
<1>1. /\ r.pc = "copy" /\ r.va * Unit >= r.end /\ free' = free /\ lost' = lost /\ panic' = panic
      /\ proc' = [proc EXCEPT ![p] = n,
                              ![c] = [@ EXCEPT !.pc = "user", !.as = r.new, !.sz = r.sz, !.parent = p]]
  BY DEF Forked, At
<1>2. /\ r \in RecType /\ Apart(r) /\ Shape(r) /\ free \cap lost = {} /\ Pieces(r) \cap (free \union lost) = {}
      /\ r.va \in Nat /\ r.end \in Nat /\ r.sz \in Nat /\ r.sz =< Top /\ r.new \in SpaceType
      /\ Pieces(r) = ({r.kstack, r.mem} \ {0}) \union PagesOf(r.as) \union PagesOf(r.new)
  BY ProcIs
<1>3. r.op = "fork"
  BY <1>1, <1>2 DEF Shape
<1>4. /\ c \in Procs /\ c # p /\ d.pc = "embryo" /\ d.op = "" /\ d.as = NoSpace /\ d.new = NoSpace
      /\ d.mem = 0 /\ Pieces(d) = {d.kstack} \ {0} /\ d.kstack # 0
  BY <1>1, <1>3, ChildIs
<1>5. d \in RecType /\ Apart(d) /\ Shape(d) /\ d.end =< Top /\ Pieces(d) \cap (free \union lost) = {}
  BY <1>4, ProcIs
<1>6. Pieces(r) \cap Pieces(d) = {}
  BY <1>4, PartedIs DEF IInv
<1>7. proc \in [Procs -> RecType]
  BY ProcIs
<1>8. PRU(r.end) =< r.va /\ Below(r.end) = Upto(PRU(r.end)) /\ PRU(r.end) \in Nat
  BY <1>1, <1>2, ReachedNot, BelowIs, RoundUp
<1>9. proc' = [proc EXCEPT ![p] = n, ![c] = k]
  <2> HIDE DEF c, n
  <2> QED BY <1>1, <1>4, <1>7
<1>10. r.child = c
  OBVIOUS
<1> HIDE DEF r, c, d
<1>11. r.mem = 0 /\ r.kstack # 0 /\ Mapped(r.new) = Below(r.sz) /\ Mapped(r.as) = Below(r.sz)
  <2>1. /\ r.mem = 0 /\ r.kstack # 0 /\ r.va =< PRU(r.end) /\ r.end = r.sz
        /\ Mapped(r.new) = Upto(r.va) /\ Mapped(r.as) = Below(r.sz)
    BY <1>1, <1>2, <1>3 DEF Shape
  <2> QED BY <1>2, <1>8, <2>1
<1>12. /\ n \in RecType /\ n.pc = "user" /\ n.op = "" /\ n.va = 0 /\ n.end = 0
       /\ n.as = r.as /\ n.new = NoSpace /\ n.kstack = r.kstack /\ n.mem = 0 /\ n.sz = r.sz
  BY <1>2, ReturnedIs
<1>13. /\ k \in RecType /\ k.pc = "user" /\ k.op = "" /\ k.va = d.va /\ k.end = d.end
       /\ k.as = r.new /\ k.new = NoSpace /\ k.kstack = d.kstack /\ k.mem = 0 /\ k.sz = r.sz
  BY <1>2, <1>4, <1>5 DEF RecType, PCs
<1> HIDE DEF n, k
<1>14. 0 \notin PagesOf(r.as) /\ 0 \notin PagesOf(r.new)
  BY DEF PagesOf
<1>15. d.kstack \notin Pieces(r)
  BY <1>4, <1>6
<1>16. Apart(n) /\ Apart(k)
  BY <1>2, <1>4, <1>12, <1>13, <1>14, <1>15, EmptySpace DEF Apart
<1>17. Pieces(n) = {r.kstack} \union PagesOf(r.as) /\ Pieces(k) = {d.kstack} \union PagesOf(r.new)
  BY <1>4, <1>11, <1>12, <1>13, EmptySpace DEF Pieces
<1>18. Shape(n) /\ Shape(k)
  <2>1. 0 =< Top /\ r.sz =< Top /\ d.end =< Top
    BY <1>2, <1>5, TopIs
  <2> QED BY <1>4, <1>11, <1>12, <1>13, <2>1 DEF Shape, Idle
<1>19. /\ free' \union lost' \union Pieces(n) \union Pieces(k) = free \union lost \union Pieces(r) \union Pieces(d)
       /\ free' \cap lost' = {} /\ Pieces(n) \cap (free' \union lost') = {}
       /\ Pieces(k) \cap (free' \union lost') = {} /\ Pieces(n) \cap Pieces(k) = {}
  <2>1. /\ PagesOf(r.as) \cap PagesOf(r.new) = {} /\ r.kstack \notin PagesOf(r.new)
    BY <1>2 DEF Apart
  <2>2. Pieces(r) = Pieces(n) \union PagesOf(r.new) /\ Pieces(d) = {d.kstack}
    BY <1>2, <1>4, <1>11, <1>17
  <2> QED BY <1>1, <1>2, <1>5, <1>6, <1>17, <2>1, <2>2
<1>20. /\ r.pc # "embryo" /\ k.op # "fork" /\ d.op # "fork" /\ n.op # "fork"
  BY <1>1, <1>4, <1>12, <1>13
<1> QED
  BY ONLY IInv, p \in Procs, <1>1, <1>3, <1>4, <1>9, <1>10, <1>12, <1>13, <1>16, <1>18, <1>19, <1>20,
          StepTwo DEF r, d

\* fork fails: the entry and its stack are free again, with all of the copy but the
\* page that copyuvm had taken and not mapped, which is lost.
LEMMA FailedForkStep ==
  ASSUME IInv, NEW p \in Procs, proc[p].op = "fork", FailedFork(p)
  PROVE  IInv'
<1> DEFINE r == proc[p]
           c == proc[p].child
           d == proc[c]
           n == Returned(r)
           M == {r.mem} \ {0}
           K == {d.kstack} \ {0}
<1>1. /\ free' = free \union PagesOf(r.new) \union K /\ lost' = lost \union M /\ panic' = panic
      /\ proc' = [proc EXCEPT ![p] = n, ![c] = Unused] /\ r.op = "fork" /\ r.child = c
  BY DEF FailedFork
<1>2. /\ r \in RecType /\ Apart(r) /\ Shape(r) /\ free \cap lost = {} /\ Pieces(r) \cap (free \union lost) = {}
      /\ r.sz \in Nat /\ r.sz =< Top
      /\ Pieces(r) = ({r.kstack, r.mem} \ {0}) \union PagesOf(r.as) \union PagesOf(r.new)
  BY ProcIs
<1>3. /\ c \in Procs /\ c # p /\ d.op = "" /\ Pieces(d) = K /\ r.pc # "embryo"
  BY <1>1, ChildIs
<1>4. Pieces(d) \cap (free \union lost) = {}
  BY <1>3, ProcIs
<1>5. Pieces(r) \cap Pieces(d) = {}
  BY <1>3, PartedIs DEF IInv
<1> HIDE DEF r, c, d
<1>6. r.kstack # 0 /\ Mapped(r.as) = Below(r.sz)
  <2>1. r.pc \notin {"unused", "embryo"}
    BY <1>1, <1>2 DEF Shape, Idle
  <2> QED BY <1>1, <1>2, <2>1 DEF Shape
<1>7. /\ n \in RecType /\ n.pc = "user" /\ n.op = "" /\ n.va = 0 /\ n.end = 0
      /\ n.as = r.as /\ n.new = NoSpace /\ n.kstack = r.kstack /\ n.mem = 0 /\ n.sz = r.sz
  BY <1>2, ReturnedIs
<1> HIDE DEF n
<1>8. 0 \notin PagesOf(r.as)
  BY DEF PagesOf
<1>9. Apart(n)
  BY <1>2, <1>7, <1>8, EmptySpace DEF Apart
<1>10. Pieces(n) = {r.kstack} \union PagesOf(r.as)
  BY <1>6, <1>7, EmptySpace DEF Pieces
<1>11. Shape(n)
  <2>1. 0 =< Top
    BY TopIs
  <2> QED BY <1>2, <1>6, <1>7, <2>1 DEF Shape, Idle
<1>12. /\ free' \union lost' \union Pieces(n) \union {} = free \union lost \union Pieces(r) \union Pieces(d)
       /\ free' \cap lost' = {} /\ Pieces(n) \cap (free' \union lost') = {}
  <2>1. /\ PagesOf(r.as) \cap PagesOf(r.new) = {} /\ r.kstack \notin PagesOf(r.new)
        /\ M \cap (PagesOf(r.as) \union PagesOf(r.new)) = {} /\ r.kstack \notin M
    BY <1>2 DEF Apart
  <2>2. Pieces(r) = Pieces(n) \union PagesOf(r.new) \union M
    BY <1>2, <1>6, <1>10
  <2> DEFINE A == Pieces(n)
             W == PagesOf(r.new)
  <2>3. /\ A \cap W = {} /\ A \cap M = {} /\ W \cap M = {}
    BY <1>10, <2>1
  <2>4. /\ Pieces(r) = A \union W \union M /\ Pieces(d) = K
        /\ free \cap lost = {} /\ Pieces(r) \cap (free \union lost) = {} /\ K \cap (free \union lost) = {}
        /\ Pieces(r) \cap K = {}
        /\ free' = free \union W \union K /\ lost' = lost \union M
    BY <1>1, <1>2, <1>3, <1>4, <1>5, <2>2
  <2> HIDE DEF M, K, A, W
  <2>5. free' \union lost' \union A \union {} = free \union lost \union Pieces(r) \union Pieces(d)
    BY ONLY <2>3, <2>4
  <2>6. free' \cap lost' = {}
    BY ONLY <2>3, <2>4
  <2>7. A \cap (free' \union lost') = {}
    BY ONLY <2>3, <2>4
  <2> QED BY <2>5, <2>6, <2>7 DEF A
<1>13. /\ Pieces(Unused) = {} /\ Unused \in RecType /\ Apart(Unused) /\ Shape(Unused) /\ Unused.op # "fork"
  BY UnusedIs
<1>14. /\ free' \union lost' \union Pieces(n) \union Pieces(Unused) = free \union lost \union Pieces(r) \union Pieces(d)
       /\ Pieces(Unused) \cap (free' \union lost') = {} /\ Pieces(n) \cap Pieces(Unused) = {}
  BY <1>12, <1>13
<1>15. n.op # "fork" /\ d.op # "fork" /\ p # c
  BY <1>3, <1>7
<1>16. PICK k \in RecType : k = Unused
  BY <1>13
<1> QED
  BY ONLY IInv, p \in Procs, <1>1, <1>3, <1>7, <1>9, <1>11, <1>12, <1>13, <1>14, <1>15, <1>16,
          StepTwo DEF r, d

-----------------------------------------------------------------------------
(* exit and wait *)

\* exit keeps every page, for wait to free.
LEMMA ExitStep ==
  ASSUME IInv, NEW p \in Procs, Exit(p)
  PROVE  IInv'
<1>1. /\ proc[p].pc \in {"user", "fault"} /\ free' = free /\ lost' = lost /\ panic' = panic
      /\ proc' = [q \in Procs |-> IF q = p THEN [proc[q] EXCEPT !.pc = "zombie"]
                                  ELSE IF proc[q].parent = p THEN [proc[q] EXCEPT !.parent = 1] ELSE proc[q]]
  BY DEF Exit, At
<1>2. 1 \in Procs
  BY MemoryAssumption DEF Procs
\* Only where p is changes, and whose children the others are.
<1>3. ASSUME NEW q \in Procs
      PROVE  /\ proc'[q] \in RecType /\ proc'[q].op = proc[q].op /\ proc'[q].kstack = proc[q].kstack
             /\ proc'[q].as = proc[q].as /\ proc'[q].sz = proc[q].sz /\ proc'[q].new = proc[q].new
             /\ proc'[q].mem = proc[q].mem /\ proc'[q].va = proc[q].va /\ proc'[q].end = proc[q].end
             /\ proc'[q].child = proc[q].child
             /\ proc'[q].pc = IF q = p THEN "zombie" ELSE proc[q].pc
  <2> DEFINE r == proc[q]
  <2>1. r \in RecType
    BY ProcIs
  <2>2. proc'[q] = IF q = p THEN [r EXCEPT !.pc = "zombie"]
                   ELSE IF r.parent = p THEN [r EXCEPT !.parent = 1] ELSE r
    BY <1>1
  <2>3. q = p => r.pc \in {"user", "fault"}
    BY <1>1
  <2> HIDE DEF r
  <2>4. CASE q = p
    BY <2>1, <2>2, <2>4 DEF RecType, PCs, r
  <2>5. CASE q # p /\ r.parent = p
    BY <1>2, <2>1, <2>2, <2>5 DEF RecType, r
  <2>6. CASE q # p /\ r.parent # p
    BY <2>1, <2>2, <2>6 DEF r
  <2> QED BY <2>4, <2>5, <2>6
<1>4. \A q \in Procs : Pieces(proc'[q]) = Pieces(proc[q]) /\ Apart(proc'[q])
  <2> TAKE q \in Procs
  <2>1. Apart(proc[q])
    BY ProcIs
  <2> QED BY <1>3, <2>1, SamePlaces
<1>5. \A q \in Procs : Shape(proc'[q])
  <2> TAKE q \in Procs
  <2>1. Shape(proc[q])
    BY ProcIs
  <2>2. PICK r : r = proc[q]
    OBVIOUS
  <2>3. PICK n : n = proc'[q]
    OBVIOUS
  <2>4. /\ n.op = r.op /\ n.kstack = r.kstack /\ n.as = r.as /\ n.sz = r.sz /\ n.new = r.new
        /\ n.mem = r.mem /\ n.va = r.va /\ n.end = r.end /\ n.child = r.child
        /\ n.pc = (IF q = p THEN "zombie" ELSE r.pc) /\ Shape(r) /\ (q = p => r.pc \in {"user", "fault"})
    BY <1>1, <1>3, <2>1, <2>2, <2>3
  <2>5. Shape(n)
    <3>1. CASE q = p
      BY ONLY <2>4, <3>1 DEF Shape, Idle
    <3>2. CASE q # p
      BY ONLY <2>4, <3>2 DEF Shape, Idle
    <3> QED BY <3>1, <3>2
  <2> QED BY <2>3, <2>5
<1>6. Parted'
  <2> DEFINE H(q) == Pieces(proc[q])
             N(q) == Pieces(proc'[q])
  <2>1. \A q \in Procs : N(q) = H(q)
    BY <1>4
  <2>2. /\ free \subseteq Pages /\ lost \subseteq Pages /\ free \cap lost = {}
        /\ \A q \in Procs : H(q) \subseteq Pages
        /\ \A q \in Procs : H(q) \cap (free \union lost) = {}
        /\ \A q, r \in Procs : q # r => H(q) \cap H(r) = {}
        /\ \A g \in Pages : g \in free \/ g \in lost \/ \E q \in Procs : g \in H(q)
    BY PartedIs DEF IInv
  <2> HIDE DEF H, N
  <2>3. /\ free' \subseteq Pages /\ lost' \subseteq Pages /\ free' \cap lost' = {}
        /\ \A q \in Procs : N(q) \subseteq Pages
        /\ \A q \in Procs : N(q) \cap (free' \union lost') = {}
        /\ \A q, r \in Procs : q # r => N(q) \cap N(r) = {}
        /\ \A g \in Pages : g \in free' \/ g \in lost' \/ \E q \in Procs : g \in N(q)
    BY <1>1, <2>1, <2>2
  <2> QED BY <2>3, PartedNext DEF N
<1>7. TypeOK'
  <2>1. proc' \in [Procs -> RecType]
    BY <1>1, <1>3
  <2> QED BY <1>1, <2>1 DEF IInv, TypeOK
<1>8. ForkOK'
  <2> SUFFICES ASSUME NEW q \in Procs, proc'[q].op = "fork"
               PROVE  LET c == proc'[q].child IN
                      /\ proc'[c].pc = "embryo"
                      /\ proc'[q].pc = "kstack" <=> proc'[c].kstack = 0
                      /\ \A r \in Procs : proc'[r].op = "fork" /\ proc'[r].child = c => r = q
    BY DEF ForkOK
  <2> DEFINE c == proc[q].child
  <2>1. proc[q].op = "fork" /\ proc'[q].child = c
    BY <1>3
  <2>2. c \in Procs /\ proc[c].pc = "embryo" /\ (proc[q].pc = "kstack" <=> proc[c].kstack = 0)
    BY <2>1, ChildIs
  <2>3. \A r \in Procs : proc[r].op = "fork" /\ proc[r].child = c => r = q
    BY <2>1 DEF IInv, ForkOK
  <2>4. q # p
    <3>1. Shape(proc[p])
      BY ProcIs
    <3>2. proc[p].op = ""
      BY <1>1, <3>1 DEF Shape, Idle
    <3> QED BY <2>1, <3>2
  <2> HIDE DEF c
  <2>5. proc'[c].pc = "embryo" /\ (proc'[q].pc = "kstack" <=> proc'[c].kstack = 0)
    BY <1>1, <1>3, <2>2, <2>4
  <2>6. \A r \in Procs : proc'[r].op = "fork" /\ proc'[r].child = c => r = q
    BY <1>3, <2>3
  <2> QED BY <2>1, <2>5, <2>6
<1> QED
  BY <1>1, <1>4, <1>5, <1>6, <1>7, <1>8 DEF IInv

\* wait frees all that is left of the child.
LEMMA WaitStep ==
  ASSUME IInv, NEW p \in Procs, NEW c \in Procs, Wait(p, c)
  PROVE  IInv'
<1> DEFINE d == proc[c]
           B == {d.kstack} \union PagesOf(d.as)
<1>1. /\ d.pc = "zombie" /\ free' = free \union B /\ lost' = lost /\ panic' = panic
      /\ proc' = [proc EXCEPT ![c] = Unused]
  BY DEF Wait
<1>2. /\ d \in RecType /\ Shape(d)
      /\ Pieces(d) = ({d.kstack, d.mem} \ {0}) \union PagesOf(d.as) \union PagesOf(d.new)
  BY ProcIs
<1> HIDE DEF d
<1>3. d.kstack # 0 /\ d.mem = 0 /\ d.new = NoSpace
  BY <1>1, <1>2 DEF Shape, Idle
<1>4. Pieces(d) = B
  BY <1>2, <1>3, EmptySpace
<1>5. PICK n \in RecType : n = Unused
  BY UnusedIs
<1>6. Apart(n) /\ Shape(n) /\ Pieces(n) = {} /\ n.op # "fork" /\ proc' = [proc EXCEPT ![c] = n]
  BY <1>1, <1>5, UnusedIs
<1> HIDE DEF B
<1>7. Pieces(n) = Pieces(d) \ B /\ B \in SUBSET Pieces(d)
  BY <1>4, <1>6
<1>8. SameFork(d, n) /\ d.pc # "embryo"
  BY <1>1, <1>6 DEF SameFork
<1> QED
  BY ONLY IInv, c \in Procs, <1>1, <1>6, <1>7, <1>8, Gives DEF d

-----------------------------------------------------------------------------
(* Every step *)

\* kmem.freelist is empty: what fork and the others do then.
LEMMA FailedStep ==
  ASSUME IInv, NEW p \in Procs, At(p, "setup"), Failed(p)
  PROVE  IInv'
<1>1. proc[p].pc = "setup"
  BY DEF At
<1>2. CASE proc[p].op = "fork"
  BY <1>2, FailedForkStep DEF Failed
<1>3. CASE proc[p].op # "fork"
  BY <1>1, <1>3, FailedAllocStep DEF Failed
<1> QED
  BY <1>2, <1>3

\* In copyuvm and in fork's allocproc it is a fork.
LEMMA OpIs ==
  ASSUME IInv, NEW p \in Procs
  PROVE  /\ proc[p].pc \in {"kstack", "copy", "copymap"} => proc[p].op = "fork"
         /\ proc[p].pc \in {"alloc", "map"} => proc[p].op # "fork"
<1>1. Shape(proc[p])
  BY ProcIs
<1> QED
  BY <1>1 DEF Shape

\* The actions, with and without memory.
LEMMA AllocPageNext ==
  ASSUME IInv, NEW p \in Procs, AllocPage(p)
  PROVE  IInv'
<1>1. proc[p].pc = "alloc"
  BY DEF AllocPage, At
<1>2. CASE free = {}
  BY <1>1, <1>2, OpIs, FailedAllocStep DEF AllocPage
<1>3. CASE free # {}
  BY <1>3, AllocPageStep DEF AllocPage
<1> QED
  BY <1>2, <1>3

\* mappages does not meet a page that is mapped.
LEMMA AllocMapNext ==
  ASSUME IInv, NEW p \in Procs, AllocMap(p)
  PROVE  IInv'
<1>1. proc[p].pc = "map" /\ At(p, "map")
  BY DEF AllocMap, At
<1>2. CASE ~CanMap(Target(p), proc[p].va)
  BY <1>1, <1>2, OpIs, FailedAllocStep DEF AllocMap
<1>3. CASE CanMap(Target(p), proc[p].va)
  <2>1. Target(p) \in SpaceType
    BY ProcIs DEF Target
  <2>2. Target(p).map[proc[p].va] = 0
    BY <1>1, <1>3, <2>1, MapStep
  <2>3. /\ proc' = [proc EXCEPT ![p] = WithTarget([proc[p] EXCEPT !.pc = "alloc", !.mem = 0, !.va = @ + 1],
                                                  MapPage(Target(p), proc[p].va, proc[p].mem))]
        /\ free' = FreeAfterMap(Target(p), proc[p].va)
        /\ lost' = lost /\ panic' = panic
    BY <1>3, <2>2 DEF AllocMap
  <2> QED BY <1>1, <1>3, <2>3, AllocMapStep
<1> QED
  BY <1>2, <1>3

\* Without memory setupkvm frees nothing yet.
LEMMA SetupDirNext ==
  ASSUME IInv, NEW p \in Procs, SetupDir(p)
  PROVE  IInv'
<1>1. CASE free = {}
  BY <1>1, FailedStep DEF SetupDir
<1>2. CASE free # {}
  BY <1>2, SetupDirStep DEF SetupDir
<1> QED
  BY <1>1, <1>2

\* Without memory freevm frees the directory and the tables.
LEMMA SetupTableNext ==
  ASSUME IInv, NEW p \in Procs, SetupTable(p)
  PROVE  IInv'
<1>1. CASE free = {}
  BY <1>1, FailedStep DEF SetupTable
<1>2. CASE free # {}
  BY <1>2, SetupTableStep DEF SetupTable
<1> QED
  BY <1>1, <1>2

\* Without memory the entry is given back.
LEMMA ForkStackNext ==
  ASSUME IInv, NEW p \in Procs, ForkStack(p)
  PROVE  IInv'
<1>1. proc[p].pc = "kstack"
  BY DEF ForkStack, At
<1>2. CASE free = {}
  BY <1>1, <1>2, OpIs, FailedForkStep DEF ForkStack
<1>3. CASE free # {}
  BY <1>3, ForkStackStep DEF ForkStack
<1> QED
  BY <1>2, <1>3

\* copyuvm finds the parent's page.
LEMMA CopyPageNext ==
  ASSUME IInv, NEW p \in Procs, CopyPage(p)
  PROVE  IInv'
<1>1. proc[p].pc = "copy" /\ proc[p].va * Unit < proc[p].end
  BY DEF CopyPage, At
<1>2. proc[p].as.map[proc[p].va] # 0
  BY <1>1, ParentHasPage
<1>3. CASE free = {}
  BY <1>1, <1>2, <1>3, OpIs, FailedForkStep DEF CopyPage
<1>4. CASE free # {}
  BY <1>2, <1>4, CopyPageStep DEF CopyPage
<1> QED
  BY <1>3, <1>4

\* Without a page for the table copyuvm's page is lost.
LEMMA CopyMapNext ==
  ASSUME IInv, NEW p \in Procs, CopyMap(p)
  PROVE  IInv'
<1>1. proc[p].pc = "copymap" /\ At(p, "copymap")
  BY DEF CopyMap, At
<1>2. CASE ~CanMap(proc[p].new, proc[p].va)
  BY <1>1, <1>2, OpIs, FailedForkStep DEF CopyMap
<1>3. CASE CanMap(proc[p].new, proc[p].va)
  BY <1>1, <1>3, CopyMapStep DEF CopyMap
<1> QED
  BY <1>2, <1>3

\* The stack must end below KERNBASE.
LEMMA ExecStackNext ==
  ASSUME IInv, NEW p \in Procs, ExecStack(p)
  PROVE  IInv'
<1>1. proc[p].pc = "alloc" /\ At(p, "alloc") /\ proc[p].op = "exec" /\ proc[p].va * Unit >= proc[p].end
  BY DEF ExecStack, At
<1>2. PageRoundUp(proc[p].end) \in Nat /\ MaxPages \in Nat
  BY ProcIs, RoundUp, MemoryAssumption DEF PRU
<1>3. CASE PageRoundUp(proc[p].end) + 2 >= MaxPages
  BY <1>1, <1>3, FailedAllocStep DEF ExecStack
<1>4. CASE PageRoundUp(proc[p].end) + 2 < MaxPages
  <2> DEFINE w == PageRoundUp(proc[p].end)
             e == (w + 2) * Unit
  <2>1. ~(w + 2 >= MaxPages)
    BY <1>2, <1>4
  <2>2. /\ proc' = [proc EXCEPT ![p] = [proc[p] EXCEPT !.op = "execstack", !.va = w, !.end = e]]
        /\ free' = free /\ lost' = lost /\ panic' = panic
    <3> HIDE DEF e
    <3> QED BY <2>1 DEF ExecStack, e
  <2> QED BY <1>1, <1>4, <2>2, ExecStackStep
<1> QED
  BY <1>2, <1>3, <1>4

\* exec's bad path.
LEMMA ExecBadNext ==
  ASSUME IInv, NEW p \in Procs, ExecBad(p)
  PROVE  IInv'
<1>1. proc[p].pc = "alloc" /\ proc[p].op # "fork" /\ FailedAlloc(p)
  BY DEF ExecBad, At
<1> QED
  BY <1>1, FailedAllocStep

\* A step that changes nothing.
LEMMA Stutter == IInv /\ UNCHANGED vars => IInv'
<1> SUFFICES ASSUME IInv, UNCHANGED vars PROVE IInv'
  OBVIOUS
<1>1. free' = free /\ lost' = lost /\ proc' = proc /\ panic' = panic
  BY DEF vars
<1>2. TypeOK' /\ ForkOK'
  BY <1>1 DEF IInv, TypeOK, ForkOK
<1>3. Parted'
  <2>1. \A p \in Procs : Held(p)' = Held(p)
    BY <1>1 DEF Held
  <2>2. UNION {Held(p)' : p \in Procs} = UNION {Held(p) : p \in Procs}
    BY <2>1
  <2>3. (free \union lost \union UNION {Held(p) : p \in Procs} = Pages)'
    BY <1>1, <2>2 DEF IInv, Parted
  <2> QED BY <1>1, <2>1, <2>3 DEF IInv, Parted
<1>4. ~panic' /\ \A p \in Procs : Apart(proc'[p]) /\ Shape(proc'[p])
  BY <1>1 DEF IInv
<1> QED
  BY <1>2, <1>3, <1>4 DEF IInv

\* The invariant is inductive.
LEMMA StepInv == IInv /\ [Next]_vars => IInv'
<1> SUFFICES ASSUME IInv, [Next]_vars PROVE IInv'
  OBVIOUS
<1>1. ASSUME NEW p \in Procs, Calls(p) PROVE IInv'
  <2>1. ASSUME NEW n \in {1, Unit + 1}, SbrkGrow(p, n) PROVE IInv'
    <3>1. n \in Nat \ {0}
      BY MemoryAssumption
    <3> QED BY <2>1, <3>1, SbrkGrowStep
  <2>2. ASSUME NEW n \in {1, Unit + 1}, SbrkShrink(p, n) PROVE IInv'
    <3>1. n \in Nat
      BY MemoryAssumption
    <3> QED BY <2>2, <3>1, SbrkShrinkStep
  <2>3. ASSUME Fork(p) PROVE IInv'
    BY <2>3, ForkStep
  <2>4. ASSUME NEW s \in ExecSizes, Exec(p, s) PROVE IInv'
    BY <2>4, ExecStep
  <2>5. ASSUME Exit(p) PROVE IInv'
    BY <2>5, ExitStep
  <2>6. ASSUME NEW c \in Procs, Wait(p, c) PROVE IInv'
    BY <2>6, WaitStep
  <2>7. ASSUME NEW n \in {1, Unit + 1}, SbrkToZero(p, n) PROVE IInv'
    <3>1. n \in Nat
      BY MemoryAssumption
    <3> QED BY <2>7, <3>1, SbrkToZeroStep
  <2> QED BY <1>1, <2>1, <2>2, <2>3, <2>4, <2>5, <2>6, <2>7 DEF Calls
<1>2. ASSUME NEW p \in Procs, Steps(p) PROVE IInv'
  BY <1>2, AllocPageNext, AllocMapNext, SbrkGrownStep, SetupDirNext, SetupTableNext, SetupDoneStep,
     ForkStackNext, CopyPageNext, CopyMapNext, ForkedStep, ExecStackNext, ExecBadNext, ExecCommitStep
     DEF Steps
<1> QED
  BY <1>1, <1>2, Stutter DEF Next

-----------------------------------------------------------------------------
(* The first process *)

\* userinit: the space of initcode.
LEMMA FirstSpace ==
  ASSUME NEW s, s = [dir |-> 2, ktab |-> 5 .. KTables + 4,
                     utab |-> [t \in Tables |-> IF t = 0 THEN 3 ELSE 0],
                     map |-> [v \in VPages |-> IF v = 0 THEN 4 ELSE 0]]
  PROVE  /\ s \in SpaceType /\ Sound(s) /\ Mapped(s) = Below(Unit)
         /\ PagesOf(s) = 2 .. KTables + 4
<1>1. /\ KTables \in Nat /\ NPages \in Nat /\ NPages >= KTables + 4 /\ Unit \in Nat /\ Unit > 0
      /\ MaxPages \in Nat /\ MaxPages > 0 /\ PerTable \in Nat /\ PerTable > 0
  BY MemoryAssumption
<1>2. 0 \in VPages /\ VPages \subseteq Nat
  BY <1>1 DEF VPages
<1>3. 0 \in Tables
  <2>1. 0 = 0 \div PerTable
    BY <1>1
  <2> QED BY <1>2, <2>1 DEF Tables
<1>4. /\ s.dir = 2 /\ s.ktab = 5 .. KTables + 4
      /\ \A t \in Tables : s.utab[t] = IF t = 0 THEN 3 ELSE 0
      /\ \A v \in VPages : s.map[v] = IF v = 0 THEN 4 ELSE 0
  OBVIOUS
<1>5. s \in SpaceType
  <2>1. {0, 2, 3, 4} \subseteq Entry /\ 5 .. KTables + 4 \subseteq Pages
    BY <1>1 DEF Entry, Pages
  <2>2. /\ [t \in Tables |-> IF t = 0 THEN 3 ELSE 0] \in [Tables -> Entry]
        /\ [v \in VPages |-> IF v = 0 THEN 4 ELSE 0] \in [VPages -> Entry]
    BY <2>1
  <2> QED BY <2>1, <2>2 DEF SpaceType
<1>6. Sound(s)
  BY <1>1, <1>4 DEF Sound
<1>7. Mapped(s) = {0}
  BY <1>2, <1>4 DEF Mapped
<1>8. Below(Unit) = {0}
  <2>1. PRU(Unit) = 1
    <3>1. 1 * Unit \in Nat /\ PRU(1 * Unit) = 1
      BY RoundUpWhole
    <3>2. 1 * Unit = Unit
      BY <1>1
    <3> QED BY <3>1, <3>2
  <2>2. Below(Unit) = Upto(1)
    BY <1>1, <2>1, BelowIs
  <2>3. \A v \in VPages : v < 1 <=> v = 0
    BY <1>2
  <2> QED BY <1>2, <2>2, <2>3 DEF Upto
<1>9. PagesOf(s) = 2 .. KTables + 4
  <2>1. ASSUME NEW g
        PROVE  g \in PagesOf(s) <=> g = 2 \/ g \in 5 .. KTables + 4 \/ g = 3 \/ g = 4
    <3>1. (\E t \in Tables : g = s.utab[t]) /\ g # 0 <=> g = 3
      BY <1>3, <1>4
    <3>2. (\E v \in VPages : g = s.map[v]) /\ g # 0 <=> g = 4
      BY <1>2, <1>4
    <3>3. g \in 5 .. KTables + 4 => g # 0
      OBVIOUS
    <3>4. g \in PagesOf(s) <=> /\ g # 0
                               /\ \/ g = s.dir \/ g \in s.ktab
                                  \/ \E t \in Tables : g = s.utab[t]
                                  \/ \E v \in VPages : g = s.map[v]
      BY ONLY InSpace, Zenon
    <3> QED BY <1>4, <3>1, <3>2, <3>3, <3>4
  <2>2. ASSUME NEW g
        PROVE  g \in 2 .. KTables + 4 <=> g = 2 \/ g \in 5 .. KTables + 4 \/ g = 3 \/ g = 4
    BY <1>1
  <2> QED BY <2>1, <2>2
<1> QED
  BY <1>5, <1>6, <1>7, <1>8, <1>9

\* It holds of the first process.
LEMMA InitInv == Init => IInv
<1> SUFFICES ASSUME Init PROVE IInv
  OBVIOUS
<1> DEFINE s == [dir |-> 2, ktab |-> 5 .. KTables + 4,
                 utab |-> [t \in Tables |-> IF t = 0 THEN 3 ELSE 0],
                 map |-> [v \in VPages |-> IF v = 0 THEN 4 ELSE 0]]
           n == [Unused EXCEPT !.pc = "user", !.kstack = 1, !.sz = Unit, !.as = s]
<1>1. /\ proc = [p \in Procs |-> IF p # 1 THEN Unused ELSE n]
      /\ free = Pages \ (1 .. KTables + 4) /\ lost = {} /\ panic = FALSE
  BY DEF Init
<1>2. /\ KTables \in Nat /\ NPages \in Nat /\ NPages >= KTables + 4 /\ Unit \in Nat /\ Unit > 0
      /\ MaxPages \in Nat /\ MaxPages > 0 /\ 1 \in Procs /\ Procs \subseteq Nat
  BY MemoryAssumption DEF Procs
<1>3. s \in SpaceType /\ Sound(s) /\ Mapped(s) = Below(Unit) /\ PagesOf(s) = 2 .. KTables + 4
  BY FirstSpace
<1> HIDE DEF s
<1>4. /\ n.pc = "user" /\ n.op = "" /\ n.parent = 0 /\ n.kstack = 1 /\ n.as = s /\ n.sz = Unit
      /\ n.new = NoSpace /\ n.mem = 0 /\ n.va = 0 /\ n.end = 0 /\ n.child = 0 /\ n \in RecType
  <2>1. 1 \in Entry
    BY <1>2 DEF Entry, Pages
  <2>2. Unused \in RecType
    BY UnusedIs
  <2>3. /\ Unused.op = "" /\ Unused.parent = 0 /\ Unused.new = NoSpace /\ Unused.mem = 0
        /\ Unused.va = 0 /\ Unused.end = 0 /\ Unused.child = 0
    BY DEF Unused
  <2> QED BY <1>2, <1>3, <2>1, <2>2, <2>3 DEF RecType, PCs
<1> HIDE DEF n
<1>5. /\ proc[1] = n /\ \A p \in Procs \ {1} : proc[p] = Unused
  BY <1>1, <1>2
<1>6. TypeOK
  <2>1. proc \in [Procs -> RecType]
    BY <1>1, <1>4, UnusedIs
  <2> QED BY <1>1, <2>1 DEF TypeOK
<1>7. /\ n.pc = "user" /\ n.op = "" /\ n.kstack = 1 /\ n.as = s /\ n.sz = Unit
      /\ n.new = NoSpace /\ n.mem = 0 /\ n.end = 0
      /\ Sound(n.as) /\ Sound(n.new) /\ PagesOf(n.new) = {}
      /\ 0 \notin PagesOf(n.as) /\ 1 \notin PagesOf(n.as) /\ Mapped(n.as) = Below(n.sz)
      /\ n.kstack # 0
  <2>1. 0 \notin PagesOf(s)
    BY DEF PagesOf
  <2>2. 1 \notin PagesOf(s)
    <3>1. 1 \notin 2 .. KTables + 4
      BY <1>2
    <3> QED BY <1>3, <3>1
  <2>3. /\ n.pc = "user" /\ n.op = "" /\ n.kstack = 1 /\ n.as = s /\ n.sz = Unit
        /\ n.new = NoSpace /\ n.mem = 0 /\ n.end = 0
    BY <1>4
  <2>4. n.kstack # 0
    <3>1. 1 # 0
      OBVIOUS
    <3> QED BY ONLY <2>3, <3>1, Zenon
  <2> QED BY ONLY <1>3, <2>1, <2>2, <2>3, <2>4, EmptySpace
<1>8. Apart(n)
  BY ONLY <1>7 DEF Apart
<1>9. Pieces(n) = 1 .. KTables + 4
  <2>1. Pieces(n) = {1} \union 2 .. KTables + 4
    <3>1. Pieces(n) = ({1, 0} \ {0}) \union PagesOf(n.as)
      BY <1>7 DEF Pieces
    <3>2. PagesOf(n.as) = 2 .. KTables + 4
      BY <1>3, <1>7
    <3> QED BY ONLY <3>1, <3>2
  <2> QED BY <1>2, <2>1
<1>10. Shape(n)
  <2>1. Unit =< Top /\ 0 =< Top
    <3>1. MaxPages * Unit >= 1 * Unit /\ 1 * Unit = Unit
      BY <1>2
    <3> QED BY <1>2, <3>1, TopIs DEF Top
  <2>2. n.sz =< Top /\ n.end =< Top
    BY <1>7, <2>1
  <2> QED BY ONLY <1>7, <2>2 DEF Shape, Idle
<1>11. \A p \in Procs : Apart(proc[p]) /\ Shape(proc[p])
  BY <1>5, <1>8, <1>10, UnusedIs
<1>12. ForkOK
  <2>1. \A p \in Procs : proc[p].op = ""
    BY <1>4, <1>5, UnusedIs
  <2> QED BY <2>1 DEF ForkOK
<1>13. Parted
  <2> DEFINE H(p) == Pieces(proc[p])
  <2>1. \A p \in Procs : Held(p) = H(p)
    BY HeldIs
  <2>2. H(1) = 1 .. KTables + 4 /\ \A p \in Procs \ {1} : H(p) = {}
    BY <1>5, <1>9, UnusedIs
  <2> HIDE DEF H
  <2>3. UNION {Held(p) : p \in Procs} = 1 .. KTables + 4
    BY <1>2, <2>1, <2>2
  <2>4. 1 .. KTables + 4 \subseteq Pages
    BY <1>2 DEF Pages
  <2>5. free \union lost \union UNION {Held(p) : p \in Procs} = Pages
    BY <1>1, <2>3, <2>4
  <2>6. \A p \in Procs : Held(p) \cap (free \union lost) = {}
    <3>1. (free \union lost) \cap (1 .. KTables + 4) = {}
      BY <1>1
    <3> QED BY <2>1, <2>2, <3>1
  <2>7. \A p, q \in Procs : p # q => Held(p) \cap Held(q) = {}
    BY <2>1, <2>2
  <2> QED BY <1>1, <2>5, <2>6, <2>7 DEF Parted
<1> QED
  BY <1>1, <1>6, <1>11, <1>12, <1>13 DEF IInv

-----------------------------------------------------------------------------
(* What follows *)

\* The inductive invariant holds in every behaviour.
THEOREM Invariance == Spec => []IInv
<1> QED
  BY InitInv, StepInv, PTL DEF Spec

\* The invariant says so of each process.
LEMMA OnceFrom == IInv => PagesOnce
<1> SUFFICES ASSUME IInv PROVE PagesOnce
  OBVIOUS
<1>1. Parted
  BY DEF IInv
<1>2. \A p \in Procs : PagesOf(proc[p].as) \cap PagesOf(proc[p].new) = {}
  BY DEF IInv, Apart
<1>3. ASSUME NEW p \in Procs, NEW v \in Mapped(proc[p].as), NEW w \in Mapped(proc[p].as), v # w
      PROVE  proc[p].as.map[v] # proc[p].as.map[w]
  <2>1. Sound(proc[p].as)
    BY DEF IInv, Apart
  <2>2. v \in VPages /\ w \in VPages /\ proc[p].as.map[v] # 0
    BY DEF Mapped
  <2> QED BY <1>3, <2>1, <2>2 DEF Sound
<1> QED
  BY <1>1, <1>2, <1>3 DEF PagesOnce, Parted

\* A page is on the free list, lost, or at one place of one process, whatever
\* forks, execs and sbrks raced for the last pages and failed half way.
THEOREM PagesInOnePlace == Spec => []PagesOnce
<1> QED
  BY Invariance, OnceFrom, PTL

\* A process at a user instruction has exactly the pages below p->sz: growproc,
\* fork and exec leave nothing behind and take nothing away when memory runs out.
THEOREM SizesBacked == Spec => []SizeBacked
<1>1. IInv => SizeBacked
  BY DEF IInv, Shape, SizeBacked
<1> QED
  BY <1>1, Invariance, PTL

\* mappages never meets a page that is mapped, and copyuvm always finds the
\* parent's page: "remap" and the two panics of copyuvm are not reached.
THEOREM VmNeverPanics == Spec => []NoPanic
<1>1. IInv => NoPanic
  BY DEF IInv, NoPanic
<1> QED
  BY <1>1, Invariance, PTL
=============================================================================
