----------------------------- MODULE Log_proofs -----------------------------
(***************************************************************************)
(* Proofs about Log for any number of system calls and blocks and any size *)
(* of the log, with calls that keep to what begin_op reserves for them.    *)
(***************************************************************************)
EXTENDS Log, FiniteSetTheorems, SequenceTheorems, TLAPS

\* A call needs at most n blocks of the log: it makes at most n log_writes, or
\* writes fewer than n blocks, some of them more than once.
Fits(n) ==
  /\ \A p \in Ops : \A s \in Plans[p] : Len(s) <= n \/ Cardinality(Range(s)) < n
  /\ LOGSIZE - (MAXOPBLOCKS - n) < Size

\* The calls keep to their reservation, and what they leave of it makes up for
\* what the log on the disk is shorter than LOGSIZE: in the code, where
\* log.size = LOGSIZE counts the header too, that is one block.
LogFits ==
  /\ IsFiniteSet(Ops)
  /\ 0 < Size
  /\ \E n \in 0..MAXOPBLOCKS : Fits(n)

MaxNeed == CHOOSE n \in 0..MAXOPBLOCKS : Fits(n)

-----------------------------------------------------------------------------
(* The inductive invariant *)

\* The calls between begin_op and end_op.
Active == {p \in Ops : pc[p] \in {"op", "log_add"}}

\* outstanding counts them.
CountOK == outstanding = Cardinality(Active)

\* committing says that a call commits, which it does alone; a boot finds no
\* call; todo is what a call is still to write.
PlaceOK ==
  /\ committing <=> \E p \in Ops : pc[p] \in CommitLabels
  /\ CommitAlone
  /\ boot # "up" => \A p \in Ops : pc[p] \in {"idle", "done", "lost"}
  /\ \A p \in Ops : pc[p] = "log_add" => todo[p] # <<>>
  /\ \A p \in Ops : pc[p] \in {"begin", "asleep"} => todo[p] \in Plans[p]
  /\ \A p \in Ops : pc[p] \notin {"begin", "asleep", "op", "log_add"} => todo[p] = <<>>

\* The blocks that s still adds to the header h.
Missing(s, h) == Range(s) \ Range(h)

NeedsOK ==
  \A p \in Ops :
    Len(todo[p]) <= MaxNeed \/ Cardinality(Missing(todo[p], lh)) < MaxNeed

\* One pair for each block of the log that an active call may still need.
Pending ==
  {x \in Active \X (1..MaxNeed) :
     /\ x[2] <= Len(todo[x[1]])
     /\ x[2] <= Cardinality(Missing(todo[x[1]], lh)) + 1}

\* What is logged and what may still be fits into the log.
Room(n) == n <= LOGSIZE /\ n <= Size - 1

RoomOK ==
  /\ Room(Len(lh) + Cardinality(Pending))
  /\ Room(Len(dhead))
  /\ ~panicked

\* A logged block has its contents in the log, from the k-th on not yet.
Logged(h, k, c) == \A i \in DOMAIN h : i < k => dlog[i] = c[h[i]]

\* Only logged blocks, and those about to be, differ from the disk.
OthersClean ==
  \A b \in Blocks :
    \/ cache[b] = disk[b]
    \/ b \in Range(lh)
    \/ \E p \in Ops : pc[p] = "log_add" /\ Head(todo[p]) = b

HeaderOK == IsInjective(lh) /\ IsInjective(dhead) /\ tail \in Nat \ {0}

\* While the machine is up the disk holds no transaction but during a commit.
UpOK ==
  boot = "up" =>
    /\ OthersClean
    /\ (\A p \in Ops : pc[p] \notin {"install", "clear"}) => dhead = <<>>

\* How memory and disk agree at each stage of a commit.
CommitOK ==
  \A p \in Ops :
    /\ pc[p] = "commit" => Logged(lh, tail, cache)
    /\ pc[p] = "install" =>
         /\ dhead = lh
         /\ \A i \in DOMAIN lh : dlog[i] = cache[lh[i]]
         /\ \A i \in DOMAIN lh : i < tail => disk[lh[i]] = cache[lh[i]]
    /\ pc[p] = "clear" => \A i \in DOMAIN dhead : dlog[i] = cache[dhead[i]]
    /\ pc[p] \in {"clear", "finish"} => lh = <<>>

\* And at each stage of a recovery.
BootOK ==
  /\ boot = "read_head" => lh = <<>> /\ tail = 1
  /\ boot = "install" => lh = dhead /\ Logged(lh, tail, disk)

IInv ==
  /\ TypeOK
  /\ CountOK
  /\ PlaceOK
  /\ NeedsOK
  /\ RoomOK
  /\ HeaderOK
  /\ UpOK
  /\ CommitOK
  /\ BootOK

-----------------------------------------------------------------------------
(* Lemmas about sequences of blocks *)

\* The elements of a sequence are at most as many as its places.
LEMMA RangeFinite ==
  ASSUME NEW S, NEW s \in Seq(S)
  PROVE  /\ IsFiniteSet(Range(s))
         /\ Cardinality(Range(s)) <= Len(s)
         /\ Range(s) \subseteq S
<1>1. s \in [1..Len(s) -> S] /\ Len(s) \in Nat
  OBVIOUS
<1>2. s \in Surjection(1..Len(s), Range(s))
  BY <1>1 DEF Surjection, Range
<1>3. IsFiniteSet(1..Len(s)) /\ Cardinality(1..Len(s)) = Len(s)
  <2> DEFINE n == Len(s)
  <2>1. 1 \in Int /\ n \in Int
    BY <1>1
  <2>2. IsFiniteSet(1..n) /\ Cardinality(1..n) = IF 1 > n THEN 0 ELSE n - 1 + 1
    BY <2>1, FS_Interval, Zenon
  <2> QED
    BY <1>1, <2>2
<1> QED
  BY <1>1, <1>2, <1>3, FS_Surjection DEF Range

\* The empty sequence has none.
LEMMA RangeEmpty == Range(<<>>) = {} /\ IsInjective(<<>>)
BY DEF Range, IsInjective

\* The head and the elements of the tail.
LEMMA RangeTail ==
  ASSUME NEW S, NEW s \in Seq(S), s # <<>>
  PROVE  /\ Range(s) = Range(Tail(s)) \cup {Head(s)}
         /\ Head(s) \in S
         /\ Tail(s) \in Seq(S)
         /\ Len(Tail(s)) = Len(s) - 1
         /\ Len(s) \in Nat \ {0}
<1>1. /\ Head(s) \in S /\ Tail(s) \in Seq(S) /\ Len(Tail(s)) = Len(s) - 1
      /\ \A i \in 1..Len(Tail(s)) : Tail(s)[i] = s[i + 1]
  BY HeadTailProperties
<1>2. Len(s) \in Nat \ {0} /\ Head(s) = s[1]
  OBVIOUS
<1>3. DOMAIN s = 1..Len(s) /\ DOMAIN Tail(s) = 1..(Len(s) - 1)
  BY <1>1
<1>4. ASSUME NEW i \in 1..Len(s)
      PROVE  s[i] \in Range(Tail(s)) \cup {Head(s)}
  <2>1. CASE i = 1
    BY <1>2, <2>1
  <2>2. CASE i # 1
    <3>1. i - 1 \in 1..(Len(s) - 1) /\ (i - 1) + 1 = i
      BY <1>2, <2>2
    <3>2. Tail(s)[i - 1] = s[i]
      BY <1>1, <3>1
    <3> QED
      BY <1>3, <3>1, <3>2 DEF Range
  <2> QED
    BY <2>1, <2>2
<1>5. ASSUME NEW i \in 1..(Len(s) - 1)
      PROVE  Tail(s)[i] \in Range(s)
  <2>1. i + 1 \in 1..Len(s)
    BY <1>2
  <2> QED
    BY <1>1, <1>3, <2>1 DEF Range
<1>6. Head(s) \in Range(s)
  BY <1>2, <1>3 DEF Range
<1> QED
  BY <1>1, <1>2, <1>3, <1>4, <1>5, <1>6 DEF Range

\* One element more at the end.
LEMMA RangeAppend ==
  ASSUME NEW S, NEW s \in Seq(S), NEW b \in S
  PROVE  /\ Range(Append(s, b)) = Range(s) \cup {b}
         /\ Append(s, b) \in Seq(S)
         /\ Len(Append(s, b)) = Len(s) + 1
         /\ IsInjective(s) /\ b \notin Range(s) => IsInjective(Append(s, b))
<1>1. /\ Append(s, b) \in Seq(S) /\ Len(Append(s, b)) = Len(s) + 1
      /\ \A i \in 1..Len(s) : Append(s, b)[i] = s[i]
      /\ Append(s, b)[Len(s) + 1] = b
      /\ Len(s) \in Nat /\ DOMAIN s = 1..Len(s)
  BY AppendProperties
<1>2. DOMAIN Append(s, b) = 1..(Len(s) + 1)
  BY <1>1
<1>3. \A i \in 1..(Len(s) + 1) : i \in 1..Len(s) \/ i = Len(s) + 1
  BY <1>1
<1>4. \A i \in 1..Len(s) : i \in 1..(Len(s) + 1)
  BY <1>1
<1>5. Len(s) + 1 \in 1..(Len(s) + 1)
  BY <1>1
<1> DEFINE t == Append(s, b)
           n == Len(s) + 1
<1> HIDE DEF t, n
<1>6. /\ DOMAIN t = 1..n /\ DOMAIN s = 1..Len(s)
      /\ \A i \in 1..Len(s) : t[i] = s[i] /\ i \in 1..n
      /\ t[n] = b /\ n \in 1..n
      /\ \A i \in 1..n : i \in 1..Len(s) \/ i = n
  BY <1>1, <1>2, <1>3, <1>4, <1>5 DEF t, n
<1>7. Range(t) = Range(s) \cup {b}
  BY <1>6, Zenon DEF Range
<1>8. IsInjective(s) /\ b \notin Range(s) => IsInjective(t)
  BY <1>6, Zenon DEF Range, IsInjective
<1> QED
  BY <1>1, <1>7, <1>8 DEF t

-----------------------------------------------------------------------------
(* Lemmas about what calls need *)

\* MaxNeed is what LogFits says exists.
LEMMA MaxNeedFits ==
  ASSUME LogFits
  PROVE  MaxNeed \in 0..MAXOPBLOCKS /\ MaxNeed \in Nat /\ Fits(MaxNeed)
<1>1. \E n \in 0..MAXOPBLOCKS : Fits(n)
  BY DEF LogFits
<1>2. MaxNeed \in 0..MAXOPBLOCKS /\ Fits(MaxNeed)
  BY <1>1, Zenon DEF MaxNeed
<1> QED
  BY <1>2, LogAssumption

\* Blocks are missing from a longer header no less than from a shorter one.
LEMMA MissingFromMore ==
  ASSUME NEW s \in Seq(Blocks), NEW h, NEW g, Range(h) \subseteq Range(g)
  PROVE  /\ Cardinality(Missing(s, h)) \in Nat
         /\ Cardinality(Missing(s, g)) \in Nat
         /\ Cardinality(Missing(s, g)) <= Cardinality(Missing(s, h))
         /\ Cardinality(Missing(s, h)) <= Cardinality(Range(s))
<1>1. IsFiniteSet(Range(s))
  BY RangeFinite
<1>2. Missing(s, g) \subseteq Missing(s, h) /\ Missing(s, h) \subseteq Range(s)
  BY DEF Missing
<1>3. IsFiniteSet(Missing(s, h)) /\ IsFiniteSet(Missing(s, g))
  BY <1>1, <1>2, FS_Subset
<1> QED
  BY <1>1, <1>2, <1>3, FS_Subset, FS_CardinalityType

\* Adding the head of s to the header leaves less to add.
LEMMA MissingAfterAdd ==
  ASSUME NEW s \in Seq(Blocks), s # <<>>, NEW h, NEW g,
         Range(g) = Range(h) \cup {Head(s)}
  PROVE  /\ Cardinality(Missing(Tail(s), g)) \in Nat
         /\ Cardinality(Missing(Tail(s), g)) <= Cardinality(Missing(s, h))
         /\ Head(s) \notin Range(h) =>
              Cardinality(Missing(Tail(s), g)) < Cardinality(Missing(s, h))
<1>1. IsFiniteSet(Missing(s, h))
  <2>1. IsFiniteSet(Range(s))
    BY RangeFinite
  <2>2. Missing(s, h) \subseteq Range(s)
    BY DEF Missing
  <2> QED
    BY <2>1, <2>2, FS_Subset
<1>2. Missing(Tail(s), g) \subseteq Missing(s, h) \ {Head(s)}
  BY RangeTail DEF Missing
<1>3. /\ IsFiniteSet(Missing(s, h) \ {Head(s)})
      /\ Cardinality(Missing(s, h) \ {Head(s)}) =
           IF Head(s) \in Missing(s, h) THEN Cardinality(Missing(s, h)) - 1
                                        ELSE Cardinality(Missing(s, h))
  BY <1>1, FS_RemoveElement
<1>4. /\ Cardinality(Missing(Tail(s), g)) <= Cardinality(Missing(s, h) \ {Head(s)})
      /\ Cardinality(Missing(Tail(s), g)) \in Nat
      /\ Cardinality(Missing(s, h)) \in Nat
  BY <1>1, <1>2, <1>3, FS_Subset, FS_CardinalityType
<1>5. Head(s) \notin Range(h) => Head(s) \in Missing(s, h)
  BY RangeTail DEF Missing
<1> QED
  BY <1>3, <1>4, <1>5

\* The pairs of a call and a block it needs are finite in number.
LEMMA PairsFinite ==
  ASSUME LogFits, NEW A \in SUBSET Ops
  PROVE  /\ IsFiniteSet(A) /\ Cardinality(A) \in Nat
         /\ IsFiniteSet(A \X (1..MaxNeed))
         /\ Cardinality(A \X (1..MaxNeed)) = Cardinality(A) * MaxNeed
<1>1. IsFiniteSet(A) /\ Cardinality(A) \in Nat
  BY FS_Subset, FS_CardinalityType DEF LogFits
<1>2. MaxNeed \in Nat
  BY MaxNeedFits
<1>3. IsFiniteSet(1..MaxNeed) /\ Cardinality(1..MaxNeed) = MaxNeed
  <2>1. 1 \in Int /\ MaxNeed \in Int
    BY <1>2
  <2>2. /\ IsFiniteSet(1..MaxNeed)
        /\ Cardinality(1..MaxNeed) = IF 1 > MaxNeed THEN 0 ELSE MaxNeed - 1 + 1
    BY <2>1, FS_Interval, Zenon
  <2> QED
    BY <1>2, <2>2
<1> QED
  BY <1>1, <1>3, FS_Product

\* The pending pairs, of one state and of the next, are so many.
LEMMA PendingFinite ==
  ASSUME LogFits
  PROVE  /\ Pending \subseteq Active \X (1..MaxNeed)
         /\ IsFiniteSet(Pending) /\ Cardinality(Pending) \in Nat
         /\ Cardinality(Pending) <= Cardinality(Active) * MaxNeed
         /\ Pending' \subseteq Active' \X (1..MaxNeed)
         /\ IsFiniteSet(Pending') /\ Cardinality(Pending') \in Nat
         /\ Cardinality(Pending') <= Cardinality(Active') * MaxNeed
<1>1. /\ Pending \subseteq Active \X (1..MaxNeed) /\ Active \subseteq Ops
      /\ Pending' \subseteq Active' \X (1..MaxNeed) /\ Active' \subseteq Ops
  BY DEF Pending, Active
<1>2. /\ IsFiniteSet(Active \X (1..MaxNeed))
      /\ Cardinality(Active \X (1..MaxNeed)) = Cardinality(Active) * MaxNeed
  BY <1>1, PairsFinite
<1>3. /\ IsFiniteSet(Active' \X (1..MaxNeed))
      /\ Cardinality(Active' \X (1..MaxNeed)) = Cardinality(Active') * MaxNeed
  BY <1>1, PairsFinite
<1>4. IsFiniteSet(Pending) /\ Cardinality(Pending) <= Cardinality(Active) * MaxNeed
  BY <1>1, <1>2, FS_Subset
<1>5. IsFiniteSet(Pending') /\ Cardinality(Pending') <= Cardinality(Active') * MaxNeed
  BY <1>1, <1>3, FS_Subset
<1> QED
  BY <1>1, <1>4, <1>5, FS_CardinalityType

-----------------------------------------------------------------------------
(* Every step keeps the invariant *)

\* A place of the header is a place of the log blocks.
LEMMA Places ==
  ASSUME TypeOK, RoomOK, LogFits
  PROVE  /\ Len(lh) \in Nat /\ Len(lh) <= LOGSIZE
         /\ Len(dhead) \in Nat /\ Len(dhead) <= LOGSIZE
         /\ DOMAIN lh = 1..Len(lh) /\ DOMAIN dhead = 1..Len(dhead)
         /\ \A k \in DOMAIN lh : k \in 1..LOGSIZE /\ lh[k] \in Blocks
         /\ \A k \in DOMAIN dhead : k \in 1..LOGSIZE /\ dhead[k] \in Blocks
<1>1. /\ Len(lh) \in Nat /\ DOMAIN lh = 1..Len(lh)
      /\ Len(dhead) \in Nat /\ DOMAIN dhead = 1..Len(dhead)
      /\ \A k \in 1..Len(lh) : lh[k] \in Blocks
      /\ \A k \in 1..Len(dhead) : dhead[k] \in Blocks
  BY DEF TypeOK
<1>2. LOGSIZE \in Nat /\ Size \in Nat
  BY LogAssumption
<1>3. Len(lh) <= LOGSIZE /\ Len(dhead) <= LOGSIZE
  <2> DEFINE n == Len(lh)
             m == Cardinality(Pending)
  <2>1. m \in Nat
    BY PendingFinite
  <2>2. n + m <= LOGSIZE /\ Len(dhead) <= LOGSIZE
    BY DEF RoomOK, Room
  <2> HIDE DEF m
  <2> QED
    BY <1>1, <1>2, <2>1, <2>2
<1> QED
  BY <1>1, <1>2, <1>3

\* An active call is counted in outstanding.
LEMMA ActiveCounted ==
  ASSUME LogFits, TypeOK, CountOK, NEW p \in Active
  PROVE  outstanding \in Nat /\ outstanding > 0 /\ (outstanding = 1 => Active = {p})
<1>1. Active \subseteq Ops
  BY DEF Active
<1>2. IsFiniteSet(Active) /\ Cardinality(Active) \in Nat
  BY <1>1, PairsFinite
<1>3. Cardinality(Active) # 0
  BY <1>2, FS_EmptySet
<1>4. Cardinality(Active) = 1 => Active = {p}
  BY <1>2, FS_Singleton
<1> QED
  BY <1>2, <1>3, <1>4 DEF CountOK

\* The indices that the commit and the recovery use are places of the log.
LEMMA TypeStep ==
  ASSUME IInv, LogFits, Next
  PROVE  TypeOK'
<1> USE DEF IInv, TypeOK, CommitLabels
<1>1. ASSUME NEW p \in Ops, Call(p)
      PROVE  TypeOK'
  <2>1. \A s \in Plans[p] : s \in Seq(Blocks)
    BY LogAssumption
  <2> QED
    BY <1>1, <2>1 DEF Call, diskVars, callVars, At, Goto
<1>2. ASSUME NEW p \in Ops, BeginOp(p)
      PROVE  TypeOK'
  <2>1. outstanding' \in Nat
    BY <1>2 DEF BeginOp
  <2>2. pc' = [pc EXCEPT ![p] = "asleep"] \/ pc' = [pc EXCEPT ![p] = "op"]
    BY <1>2 DEF BeginOp, Goto
  <2> QED
    BY <1>2, <2>1, <2>2 DEF BeginOp, diskVars
<1>3. ASSUME NEW p \in Ops, LogWriteTest(p)
      PROVE  TypeOK'
  <2>1. Head(todo[p]) \in Blocks
    BY <1>3, RangeTail DEF LogWriteTest
  <2> QED
    BY <1>3, <2>1 DEF LogWriteTest, diskVars, callVars, At, Goto
<1>4. ASSUME NEW p \in Ops, LogWriteAdd(p)
      PROVE  TypeOK'
  <2>1. /\ Head(todo[p]) \in Blocks
        /\ Tail(todo[p]) \in Seq(Blocks)
    BY <1>4, RangeTail DEF LogWriteAdd, At, PlaceOK
  <2>2. Append(lh, Head(todo[p])) \in Seq(Blocks)
    BY <2>1
  <2> QED
    BY <1>4, <2>1, <2>2 DEF LogWriteAdd, diskVars, callVars, At, Goto
<1>5. ASSUME NEW p \in Ops, EndOp(p)
      PROVE  TypeOK'
  <2>0. p \in Active
    BY <1>5 DEF EndOp, At, Active
  <2>1. outstanding - 1 \in Nat
    BY <2>0, ActiveCounted
  <2> QED
    BY <1>5, <2>1 DEF EndOp, diskVars, callVars, At, Goto, WakeupGoto
<1>6. ASSUME NEW p \in Ops, WriteLog(p)
      PROVE  TypeOK'
  <2>1. tail \in DOMAIN lh
    BY <1>6, Places DEF WriteLog, HeaderOK
  <2>2. cache[lh[tail]] \in Ops \cup {Blank}
    BY <2>1, Places
  <2>3. dlog' \in [1..LOGSIZE -> Ops \cup {Blank}]
    BY <1>6, <2>2 DEF WriteLog
  <2>4. tail' \in Nat
    BY <1>6 DEF WriteLog
  <2> QED
    BY <1>6, <2>3, <2>4 DEF WriteLog, diskVars, callVars
<1>7. ASSUME NEW p \in Ops, WriteHead(p)
      PROVE  TypeOK'
  BY <1>7 DEF WriteHead, diskVars, callVars, At, Goto
<1>8. ASSUME NEW p \in Ops, Install(p)
      PROVE  TypeOK'
  <2>1. tail \in DOMAIN lh
    BY <1>8, Places DEF Install, HeaderOK
  <2>2. dlog[tail] \in Ops \cup {Blank}
    BY <2>1, Places
  <2>3. disk' \in [Blocks -> Ops \cup {Blank}] /\ cache' \in [Blocks -> Ops \cup {Blank}]
    BY <1>8, <2>2 DEF Install
  <2>4. tail' \in Nat
    BY <1>8 DEF Install
  <2> QED
    BY <1>8, <2>3, <2>4 DEF Install, diskVars, callVars
<1>9. ASSUME NEW p \in Ops, InstallEnd(p)
      PROVE  TypeOK'
  BY <1>9 DEF InstallEnd, diskVars, callVars, At, Goto
<1>10. ASSUME NEW p \in Ops, ClearHead(p)
      PROVE  TypeOK'
  BY <1>10 DEF ClearHead, diskVars, callVars, At, Goto
<1>11. ASSUME NEW p \in Ops, CommitEmpty(p)
      PROVE  TypeOK'
  BY <1>11 DEF CommitEmpty, diskVars, callVars, At, Goto
<1>12. ASSUME NEW p \in Ops, Finish(p)
      PROVE  TypeOK'
  BY <1>12 DEF Finish, diskVars, callVars, At, WakeupGoto
<1>13. CASE Crash
  <2>1. crashes + 1 \in 0..MaxCrashes
    BY <1>13, LogAssumption DEF Crash
  <2>2. /\ cache' \in [Blocks -> Ops \cup {Blank}]
        /\ todo' \in [Ops -> Seq(Blocks)]
        /\ lh' \in Seq(Blocks)
    BY <1>13 DEF Crash
  <2>3. pc' \in [Ops -> {"idle", "done", "lost"}]
    BY <1>13 DEF Crash
  <2> QED
    BY <1>13, <2>1, <2>2, <2>3 DEF Crash, diskVars
<1>14. CASE ReadHead
  BY <1>14 DEF ReadHead, diskVars, callVars
<1>15. CASE Recover
  <2>1. tail \in DOMAIN lh
    BY <1>15, Places DEF Recover, HeaderOK
  <2>2. dlog[tail] \in Ops \cup {Blank}
    BY <2>1, Places
  <2>3. disk' \in [Blocks -> Ops \cup {Blank}]
    BY <1>15, <2>2 DEF Recover
  <2>4. tail' \in Nat
    BY <1>15 DEF Recover
  <2> QED
    BY <1>15, <2>3, <2>4 DEF Recover, diskVars, callVars
<1>16. CASE RecoverEnd
  BY <1>16 DEF RecoverEnd, diskVars, callVars
<1> QED
  BY <1>1, <1>2, <1>3, <1>4, <1>5, <1>6, <1>7, <1>8, <1>9, <1>10, <1>11, <1>12, <1>13, <1>14, <1>15, <1>16 DEF Next, CallStep, Boot


\* What a step changes in the number of calls is what it changes in their set.
LEMMA SameActive ==
  ASSUME CountOK, Active' = Active, outstanding' = outstanding
  PROVE  CountOK'
BY DEF CountOK

\* While a call is active no other commits.
LEMMA ActiveAlone ==
  ASSUME PlaceOK, NEW p \in Active
  PROVE  ~committing /\ \A q \in Ops : pc[q] \notin CommitLabels
BY DEF PlaceOK, CommitAlone, Active, CommitLabels

\* outstanding counts the calls between begin_op and end_op.
LEMMA CountStep ==
  ASSUME IInv, LogFits, Next
  PROVE  CountOK'
<1> USE DEF IInv, TypeOK, CountOK, PlaceOK
<1>1. ASSUME NEW p \in Ops, Call(p)
      PROVE  CountOK'
  <2>1. Active' = Active /\ outstanding' = outstanding
    BY <1>1 DEF Call, callVars, At, Goto, Active, CommitLabels
  <2> QED
    BY <2>1, SameActive
<1>2. ASSUME NEW p \in Ops, BeginOp(p)
      PROVE  CountOK'
  <2>1. CASE MustWait
    <3>1. Active' = Active /\ outstanding' = outstanding
      BY <1>2, <2>1 DEF BeginOp, At, Goto, Active
    <3> QED
      BY <3>1, SameActive
  <2>2. CASE ~MustWait
    <3>1. Active' = Active \cup {p} /\ p \notin Active /\ outstanding' = outstanding + 1
      BY <1>2, <2>2 DEF BeginOp, At, Goto, Active
    <3>2. Active \subseteq Ops
      BY DEF Active
    <3>3. IsFiniteSet(Active)
      BY <3>2, PairsFinite
    <3>4. Cardinality(Active') = Cardinality(Active) + 1
      BY <3>1, <3>3, FS_AddElement
    <3> QED
      BY <3>1, <3>4
  <2> QED
    BY <2>1, <2>2
<1>3. ASSUME NEW p \in Ops, LogWriteTest(p)
      PROVE  CountOK'
  <2>1. Active' = Active /\ outstanding' = outstanding
    BY <1>3 DEF LogWriteTest, callVars, At, Goto, Active, CommitLabels
  <2> QED
    BY <2>1, SameActive
<1>4. ASSUME NEW p \in Ops, LogWriteAdd(p)
      PROVE  CountOK'
  <2>1. Active' = Active /\ outstanding' = outstanding
    BY <1>4 DEF LogWriteAdd, callVars, At, Goto, Active, CommitLabels
  <2> QED
    BY <2>1, SameActive
<1>5. ASSUME NEW p \in Ops, EndOp(p)
      PROVE  CountOK'
  <2>0. p \in Active
    BY <1>5 DEF EndOp, At, Active
  <2>1. p \in Active /\ ~committing
    BY <2>0, ActiveAlone
  <2>2. Active' = Active \ {p} /\ outstanding' = outstanding - 1
    BY <1>5, <2>1 DEF EndOp, At, Goto, WakeupGoto, Active, CommitLabels
  <2>3. Active \subseteq Ops
    BY DEF Active
  <2>4. IsFiniteSet(Active)
    BY <2>3, PairsFinite
  <2>5. Cardinality(Active') = Cardinality(Active) - 1
    BY <2>1, <2>2, <2>4, FS_RemoveElement
  <2> QED
    BY <2>2, <2>5
<1>6. ASSUME NEW p \in Ops, WriteLog(p)
      PROVE  CountOK'
  <2>1. Active' = Active /\ outstanding' = outstanding
    BY <1>6 DEF WriteLog, callVars, At, Active, CommitLabels
  <2> QED
    BY <2>1, SameActive
<1>7. ASSUME NEW p \in Ops, WriteHead(p)
      PROVE  CountOK'
  <2>1. Active' = Active /\ outstanding' = outstanding
    BY <1>7 DEF WriteHead, callVars, At, Goto, Active, CommitLabels
  <2> QED
    BY <2>1, SameActive
<1>8. ASSUME NEW p \in Ops, Install(p)
      PROVE  CountOK'
  <2>1. Active' = Active /\ outstanding' = outstanding
    BY <1>8 DEF Install, callVars, At, Active, CommitLabels
  <2> QED
    BY <2>1, SameActive
<1>9. ASSUME NEW p \in Ops, InstallEnd(p)
      PROVE  CountOK'
  <2>1. Active' = Active /\ outstanding' = outstanding
    BY <1>9 DEF InstallEnd, callVars, At, Goto, Active, CommitLabels
  <2> QED
    BY <2>1, SameActive
<1>10. ASSUME NEW p \in Ops, ClearHead(p)
      PROVE  CountOK'
  <2>1. Active' = Active /\ outstanding' = outstanding
    BY <1>10 DEF ClearHead, callVars, At, Goto, Active, CommitLabels
  <2> QED
    BY <2>1, SameActive
<1>11. ASSUME NEW p \in Ops, CommitEmpty(p)
      PROVE  CountOK'
  <2>1. Active' = Active /\ outstanding' = outstanding
    BY <1>11 DEF CommitEmpty, callVars, At, Goto, Active, CommitLabels
  <2> QED
    BY <2>1, SameActive
<1>12. ASSUME NEW p \in Ops, Finish(p)
      PROVE  CountOK'
  <2>1. Active' = Active /\ outstanding' = outstanding
    BY <1>12 DEF Finish, callVars, At, WakeupGoto, Active, CommitLabels
  <2> QED
    BY <2>1, SameActive
<1>13. CASE Crash
  <2>1. Active' = {} /\ outstanding' = 0
    BY <1>13 DEF Crash, Active
  <2> QED
    BY <2>1, FS_EmptySet
<1>14. CASE ReadHead
  <2>1. Active' = Active /\ outstanding' = outstanding
    BY <1>14 DEF ReadHead, callVars, Active
  <2> QED
    BY <2>1, SameActive
<1>15. CASE Recover
  <2>1. Active' = Active /\ outstanding' = outstanding
    BY <1>15 DEF Recover, callVars, Active
  <2> QED
    BY <2>1, SameActive
<1>16. CASE RecoverEnd
  <2>1. Active' = Active /\ outstanding' = outstanding
    BY <1>16 DEF RecoverEnd, callVars, Active
  <2> QED
    BY <2>1, SameActive
<1> QED
  BY <1>1, <1>2, <1>3, <1>4, <1>5, <1>6, <1>7, <1>8, <1>9, <1>10, <1>11, <1>12, <1>13, <1>14, <1>15, <1>16 DEF Next, CallStep, Boot


\* A call commits alone, with the flag set; todo is what a call still writes.
LEMMA PlaceStep ==
  ASSUME IInv, LogFits, Next
  PROVE  PlaceOK'
<1> USE DEF IInv, TypeOK, PlaceOK, CommitLabels
<1>1. ASSUME NEW p \in Ops, Call(p)
      PROVE  PlaceOK'
  BY <1>1 DEF Call, diskVars, callVars, At, Goto, CommitAlone
<1>2. ASSUME NEW p \in Ops, BeginOp(p)
      PROVE  PlaceOK'
  <2>1. \/ pc' = [pc EXCEPT ![p] = "asleep"]
        \/ pc' = [pc EXCEPT ![p] = "op"] /\ ~committing
    BY <1>2 DEF BeginOp, Goto, MustWait
  <2>2. UNCHANGED <<committing, boot, todo>> /\ boot = "up" /\ pc[p] = "begin"
    BY <1>2 DEF BeginOp, At
  <2>3. \A q \in Ops : q # p => pc'[q] = pc[q]
    BY <2>1
  <2>4. pc'[p] \in {"asleep", "op"} /\ (pc'[p] = "op" => ~committing)
    BY <2>1
  <2>5. CommitAlone'
    BY <2>2, <2>3, <2>4 DEF CommitAlone
  <2>6. committing' <=> \E q \in Ops : pc'[q] \in CommitLabels
    BY <2>2, <2>3, <2>4
  <2> QED
    BY <2>2, <2>3, <2>4, <2>5, <2>6
<1>3. ASSUME NEW p \in Ops, LogWriteTest(p)
      PROVE  PlaceOK'
  BY <1>3 DEF LogWriteTest, diskVars, callVars, At, Goto, CommitAlone
<1>4. ASSUME NEW p \in Ops, LogWriteAdd(p)
      PROVE  PlaceOK'
  BY <1>4 DEF LogWriteAdd, diskVars, callVars, At, Goto, CommitAlone
<1>5. ASSUME NEW p \in Ops, EndOp(p)
      PROVE  PlaceOK'
  <2>0. p \in Active
    BY <1>5 DEF EndOp, At, Active
  <2>1. p \in Active /\ ~committing
    BY <2>0, ActiveAlone
  <2>2. CASE outstanding = 1
    <3>1. \A q \in Ops : pc[q] \in {"op", "log_add"} => q = p
      BY <2>1, <2>2, ActiveCounted DEF Active
    <3> QED
      BY <1>5, <2>1, <2>2, <3>1 DEF EndOp, At, Goto, CommitAlone, diskVars
  <2>3. CASE outstanding # 1
    <3>1. /\ pc' = [q \in Ops |-> IF q = p THEN "done"
                                ELSE IF pc[q] = "asleep" THEN "begin" ELSE pc[q]]
          /\ UNCHANGED <<committing, boot, todo>> /\ boot = "up"
          /\ pc[p] = "op" /\ todo[p] = <<>>
      BY <1>5, <2>1, <2>3 DEF EndOp, At, WakeupGoto
    <3>2. \A q \in Ops : pc[q] \notin CommitLabels
      BY <2>1
    <3>3. \A q \in Ops : pc'[q] \notin CommitLabels
      BY <3>1, <3>2
    <3>4. CommitAlone' /\ (committing' <=> \E q \in Ops : pc'[q] \in CommitLabels)
      BY <2>1, <3>1, <3>3 DEF CommitAlone
    <3> QED
      BY <3>1, <3>4
  <2> QED
    BY <2>2, <2>3
<1>6. ASSUME NEW p \in Ops, WriteLog(p)
      PROVE  PlaceOK'
  BY <1>6 DEF WriteLog, diskVars, callVars, At, CommitAlone
<1>7. ASSUME NEW p \in Ops, WriteHead(p)
      PROVE  PlaceOK'
  BY <1>7 DEF WriteHead, diskVars, callVars, At, Goto, CommitAlone
<1>8. ASSUME NEW p \in Ops, Install(p)
      PROVE  PlaceOK'
  BY <1>8 DEF Install, diskVars, callVars, At, CommitAlone
<1>9. ASSUME NEW p \in Ops, InstallEnd(p)
      PROVE  PlaceOK'
  BY <1>9 DEF InstallEnd, diskVars, callVars, At, Goto, CommitAlone
<1>10. ASSUME NEW p \in Ops, ClearHead(p)
      PROVE  PlaceOK'
  BY <1>10 DEF ClearHead, diskVars, callVars, At, Goto, CommitAlone
<1>11. ASSUME NEW p \in Ops, CommitEmpty(p)
      PROVE  PlaceOK'
  BY <1>11 DEF CommitEmpty, diskVars, callVars, At, Goto, CommitAlone
<1>12. ASSUME NEW p \in Ops, Finish(p)
      PROVE  PlaceOK'
  BY <1>12 DEF Finish, diskVars, callVars, At, WakeupGoto, CommitAlone
<1>13. CASE Crash
  BY <1>13 DEF Crash, diskVars, callVars, CommitAlone
<1>14. CASE ReadHead
  BY <1>14 DEF ReadHead, diskVars, callVars, CommitAlone
<1>15. CASE Recover
  BY <1>15 DEF Recover, diskVars, callVars, CommitAlone
<1>16. CASE RecoverEnd
  BY <1>16 DEF RecoverEnd, diskVars, callVars, CommitAlone
<1> QED
  BY <1>1, <1>2, <1>3, <1>4, <1>5, <1>6, <1>7, <1>8, <1>9, <1>10, <1>11, <1>12, <1>13, <1>14, <1>15, <1>16 DEF Next, CallStep, Boot


\* A call that has not begun needs no more than it is to reserve, whatever is
\* in the header; one that has written everything needs nothing.
LEMMA NeedOfPlan ==
  ASSUME LogFits, NEW p \in Ops, NEW s, s \in Plans[p] \/ s = <<>>, NEW h
  PROVE  Len(s) <= MaxNeed \/ Cardinality(Missing(s, h)) < MaxNeed
<1>1. MaxNeed \in Nat /\ Fits(MaxNeed)
  BY MaxNeedFits
<1>2. CASE s \in Plans[p]
  <2>1. s \in Seq(Blocks)
    BY <1>2, LogAssumption
  <2>2. /\ Cardinality(Missing(s, h)) <= Cardinality(Range(s))
        /\ Cardinality(Missing(s, h)) \in Nat
    BY <2>1, MissingFromMore
  <2>3. IsFiniteSet(Range(s)) /\ Cardinality(Range(s)) \in Nat
    BY <2>1, RangeFinite, FS_CardinalityType
  <2>4. Len(s) <= MaxNeed \/ Cardinality(Range(s)) < MaxNeed
    BY <1>1, <1>2 DEF Fits
  <2> QED
    BY <1>1, <2>2, <2>3, <2>4
<1>3. CASE s = <<>>
  BY <1>1, <1>3
<1> QED
  BY <1>2, <1>3

\* log_write under the lock: the header gets the block, if it had not, and the
\* call has one write less to make.
LEMMA AddFacts ==
  ASSUME IInv, LogFits, NEW p \in Ops, LogWriteAdd(p)
  PROVE  /\ p \in Active /\ Active' = Active
         /\ todo[p] \in Seq(Blocks) /\ todo[p] # <<>>
         /\ todo' = [todo EXCEPT ![p] = Tail(todo[p])]
         /\ Head(todo[p]) \in Blocks
         /\ Range(lh') = Range(lh) \cup {Head(todo[p])}
         /\ IsInjective(lh')
         /\ Len(lh) \in Nat
         /\ Len(lh') = IF Head(todo[p]) \in Range(lh) THEN Len(lh) ELSE Len(lh) + 1
         /\ DOMAIN lh \subseteq DOMAIN lh'
         /\ \A i \in DOMAIN lh : lh'[i] = lh[i]
<1>1. /\ pc[p] = "log_add" /\ pc' = [pc EXCEPT ![p] = "op"]
      /\ lh' = IF Head(todo[p]) \in Range(lh) THEN lh ELSE Append(lh, Head(todo[p]))
      /\ todo' = [todo EXCEPT ![p] = Tail(todo[p])]
  BY DEF LogWriteAdd, At, Goto
<1>2. p \in Active /\ Active' = Active
  BY <1>1 DEF Active, IInv, TypeOK
<1>3. todo[p] \in Seq(Blocks) /\ todo[p] # <<>> /\ Head(todo[p]) \in Blocks
  BY <1>1, RangeTail DEF IInv, TypeOK, PlaceOK
<1>4. lh \in Seq(Blocks) /\ IsInjective(lh) /\ Len(lh) \in Nat
  BY DEF IInv, TypeOK, HeaderOK
<1>5. CASE Head(todo[p]) \in Range(lh)
  BY <1>1, <1>2, <1>3, <1>4, <1>5
<1>6. CASE Head(todo[p]) \notin Range(lh)
  <2> DEFINE b == Head(todo[p])
             g == Append(lh, b)
  <2>1. Range(g) = Range(lh) \cup {b} /\ Len(g) = Len(lh) + 1 /\ IsInjective(g)
    BY <1>3, <1>4, <1>6, RangeAppend
  <2>2. DOMAIN lh \subseteq DOMAIN g /\ \A i \in DOMAIN lh : g[i] = lh[i]
    BY <1>3, <1>4
  <2>3. lh' = g
    BY <1>1, <1>6
  <2> HIDE DEF g
  <2> QED
    BY <1>1, <1>2, <1>3, <1>4, <1>6, <2>1, <2>2, <2>3
<1> QED
  BY <1>5, <1>6

\* No call ever needs more of the log than MaxNeed.
LEMMA NeedsStep ==
  ASSUME IInv, LogFits, Next
  PROVE  NeedsOK'
<1> USE DEF IInv, TypeOK, NeedsOK
<1>1. ASSUME NEW p \in Ops, Call(p)
      PROVE  NeedsOK'
  <2>1. PICK s \in Plans[p] : todo' = [todo EXCEPT ![p] = s]
    BY <1>1 DEF Call
  <2>2. lh' = lh
    BY <1>1 DEF Call
  <2>3. Len(s) <= MaxNeed \/ Cardinality(Missing(s, lh)) < MaxNeed
    BY NeedOfPlan
  <2> QED
    BY <2>1, <2>2, <2>3
<1>2. ASSUME NEW p \in Ops, BeginOp(p)
      PROVE  NeedsOK'
  BY <1>2 DEF BeginOp, callVars
<1>3. ASSUME NEW p \in Ops, LogWriteTest(p)
      PROVE  NeedsOK'
  BY <1>3 DEF LogWriteTest, callVars
<1>4. ASSUME NEW p \in Ops, LogWriteAdd(p)
      PROVE  NeedsOK'
  <2>1. ASSUME NEW q \in Ops, q # p
        PROVE  Cardinality(Missing(todo'[q], lh')) <= Cardinality(Missing(todo[q], lh))
               /\ Cardinality(Missing(todo'[q], lh')) \in Nat
               /\ Cardinality(Missing(todo[q], lh)) \in Nat
               /\ todo'[q] = todo[q]
    <3>1. todo'[q] = todo[q] /\ todo[q] \in Seq(Blocks) /\ Range(lh) \subseteq Range(lh')
      BY <1>4, <2>1, AddFacts
    <3> QED
      BY <3>1, MissingFromMore
  <2>2. /\ Cardinality(Missing(todo'[p], lh')) <= Cardinality(Missing(todo[p], lh))
        /\ Cardinality(Missing(todo'[p], lh')) \in Nat
        /\ Cardinality(Missing(todo[p], lh)) \in Nat
        /\ Len(todo'[p]) < Len(todo[p])
        /\ Len(todo'[p]) \in Nat /\ Len(todo[p]) \in Nat
    <3>1. /\ todo'[p] = Tail(todo[p]) /\ todo[p] \in Seq(Blocks) /\ todo[p] # <<>>
          /\ Range(lh') = Range(lh) \cup {Head(todo[p])}
      BY <1>4, AddFacts
    <3>2. Cardinality(Missing(todo[p], lh)) \in Nat
      BY <3>1, MissingFromMore
    <3> QED
      BY <3>1, <3>2, MissingAfterAdd, RangeTail
  <2>3. MaxNeed \in Nat
    BY MaxNeedFits
  <2>4. Len(todo'[p]) <= MaxNeed \/ Cardinality(Missing(todo'[p], lh')) < MaxNeed
    <3>1. Len(todo[p]) <= MaxNeed \/ Cardinality(Missing(todo[p], lh)) < MaxNeed
      OBVIOUS
    <3> HIDE DEF IInv, TypeOK, NeedsOK
    <3> QED
      BY <2>2, <2>3, <3>1
  <2>5. ASSUME NEW q \in Ops, q # p
        PROVE  Len(todo'[q]) <= MaxNeed \/ Cardinality(Missing(todo'[q], lh')) < MaxNeed
    <3>1. Len(todo[q]) <= MaxNeed \/ Cardinality(Missing(todo[q], lh)) < MaxNeed
      OBVIOUS
    <3> HIDE DEF IInv, TypeOK, NeedsOK
    <3> QED
      BY <2>1, <2>3, <2>5, <3>1
  <2> QED
    BY <2>4, <2>5
<1>5. ASSUME NEW p \in Ops, EndOp(p)
      PROVE  NeedsOK'
  BY <1>5 DEF EndOp, callVars
<1>6. ASSUME NEW p \in Ops, WriteLog(p)
      PROVE  NeedsOK'
  BY <1>6 DEF WriteLog, callVars
<1>7. ASSUME NEW p \in Ops, WriteHead(p)
      PROVE  NeedsOK'
  BY <1>7 DEF WriteHead, callVars
<1>8. ASSUME NEW p \in Ops, Install(p)
      PROVE  NeedsOK'
  BY <1>8 DEF Install, callVars
<1>9. ASSUME NEW p \in Ops, InstallEnd(p)
      PROVE  NeedsOK'
  <2>1. \A q \in Ops : todo'[q] \in Plans[q] \/ todo'[q] = <<>>
    BY <1>9 DEF InstallEnd, At, callVars, PlaceOK, CommitAlone, CommitLabels
  <2> QED
    BY <2>1, NeedOfPlan
<1>10. ASSUME NEW p \in Ops, ClearHead(p)
      PROVE  NeedsOK'
  BY <1>10 DEF ClearHead, callVars
<1>11. ASSUME NEW p \in Ops, CommitEmpty(p)
      PROVE  NeedsOK'
  BY <1>11 DEF CommitEmpty, callVars
<1>12. ASSUME NEW p \in Ops, Finish(p)
      PROVE  NeedsOK'
  BY <1>12 DEF Finish, callVars
<1>13. CASE Crash
  <2>1. \A q \in Ops : todo'[q] \in Plans[q] \/ todo'[q] = <<>>
    BY <1>13 DEF Crash, callVars, PlaceOK, CommitAlone, CommitLabels
  <2> QED
    BY <2>1, NeedOfPlan
<1>14. CASE ReadHead
  <2>1. \A q \in Ops : todo'[q] \in Plans[q] \/ todo'[q] = <<>>
    BY <1>14 DEF ReadHead, callVars, PlaceOK, CommitAlone, CommitLabels
  <2> QED
    BY <2>1, NeedOfPlan
<1>15. CASE Recover
  BY <1>15 DEF Recover, callVars
<1>16. CASE RecoverEnd
  <2>1. \A q \in Ops : todo'[q] \in Plans[q] \/ todo'[q] = <<>>
    BY <1>16 DEF RecoverEnd, callVars, PlaceOK, CommitAlone, CommitLabels
  <2> QED
    BY <2>1, NeedOfPlan
<1> QED
  BY <1>1, <1>2, <1>3, <1>4, <1>5, <1>6, <1>7, <1>8, <1>9, <1>10, <1>11, <1>12, <1>13, <1>14, <1>15, <1>16 DEF Next, CallStep, Boot


\* A reservation of MAXOPBLOCKS for each call covers what they need, both in
\* the header and in the log on the disk.
LEMMA ReservationCovers ==
  ASSUME LogFits, NEW l \in Nat, NEW o \in Nat, NEW k \in Nat,
         l + (o + 1) * MAXOPBLOCKS <= LOGSIZE, k <= (o + 1) * MaxNeed
  PROVE  Room(l + k)
<1>1. /\ MaxNeed \in Nat /\ MAXOPBLOCKS \in Nat /\ MaxNeed <= MAXOPBLOCKS
      /\ LOGSIZE \in Nat /\ Size \in Nat /\ LOGSIZE - (MAXOPBLOCKS - MaxNeed) < Size
  BY MaxNeedFits, LogAssumption DEF Fits
<1> DEFINE d == MAXOPBLOCKS - MaxNeed
           x == (o + 1) * MaxNeed
           y == (o + 1) * d
           z == (o + 1) * MAXOPBLOCKS
<1>2. d \in Nat /\ LOGSIZE - d < Size
  BY <1>1
<1>3. z = x + y /\ x \in Nat /\ y \in Nat /\ y >= d
  <2>1. \A a, b \in Nat : (a + 1) * b \in Nat /\ (a + 1) * b >= b
    BY SMT
  <2>2. \A a, b, c \in Int : a * (b + c) = a * b + a * c
    BY SMT
  <2>3. x \in Nat /\ y \in Nat /\ y >= d
    BY <1>1, <1>2, <2>1
  <2>4. MAXOPBLOCKS = MaxNeed + d
    BY <1>1
  <2> HIDE DEF d
  <2>5. (o + 1) * (MaxNeed + d) = (o + 1) * MaxNeed + (o + 1) * d
    BY <1>1, <1>2, <2>2
  <2> QED
    BY <2>3, <2>4, <2>5
<1>4. l + z <= LOGSIZE /\ k <= x
  OBVIOUS
<1> HIDE DEF d, x, y, z
<1> QED
  BY <1>1, <1>2, <1>3, <1>4 DEF Room

\* A step that pends nothing new and logs nothing keeps the room.
LEMMA RoomKept ==
  ASSUME IInv, LogFits, Pending' \subseteq Pending, lh' = lh,
         dhead' \in {dhead, lh, <<>>}, ~panicked'
  PROVE  RoomOK'
<1> DEFINE n == Cardinality(Pending)
           m == Cardinality(Pending')
<1>1. n \in Nat /\ m \in Nat /\ m <= n
  BY PendingFinite, FS_Subset
<1>2. Len(lh) \in Nat /\ Len(dhead) \in Nat /\ LOGSIZE \in Nat /\ Size \in Nat /\ 0 < Size
  BY LogAssumption DEF IInv, TypeOK, LogFits
<1>3. Room(Len(lh) + n) /\ Room(Len(dhead))
  BY DEF IInv, RoomOK
<1> HIDE DEF n, m
<1>4. Room(Len(lh) + m) /\ Room(Len(lh)) /\ Room(0)
  BY <1>1, <1>2, <1>3 DEF Room
<1>5. Room(Len(dhead'))
  BY <1>3, <1>4
<1> QED
  BY <1>4, <1>5 DEF RoomOK, m

\* With no call active the room is what the header leaves.
LEMMA RoomIdle ==
  ASSUME IInv, LogFits, Active' = {}, lh' \in {lh, dhead, <<>>},
         dhead' \in {dhead, lh, <<>>}, ~panicked'
  PROVE  RoomOK'
<1>1. Pending' = {}
  BY PendingFinite
<1>2. Cardinality(Pending') = 0
  BY <1>1, FS_EmptySet
<1> DEFINE n == Cardinality(Pending)
<1>3. n \in Nat
  BY PendingFinite
<1>4. Len(lh) \in Nat /\ Len(dhead) \in Nat /\ LOGSIZE \in Nat /\ Size \in Nat /\ 0 < Size
  BY LogAssumption DEF IInv, TypeOK, LogFits
<1>5. Room(Len(lh) + n) /\ Room(Len(dhead))
  BY DEF IInv, RoomOK
<1> HIDE DEF n
<1>6. Room(Len(lh)) /\ Room(0)
  BY <1>3, <1>4, <1>5 DEF Room
<1>7. Room(Len(lh')) /\ Room(Len(dhead')) /\ Len(lh') \in Nat
  BY <1>4, <1>5, <1>6
<1> QED
  BY <1>2, <1>7 DEF RoomOK, Room

\* A call about to write has a pending pair, so there is room for the block.
LEMMA TestPasses ==
  ASSUME IInv, LogFits, NEW p \in Ops, pc[p] = "op", todo[p] # <<>>
  PROVE  ~(Len(lh) >= LOGSIZE \/ Len(lh) >= Size - 1 \/ outstanding < 1)
<1>1. /\ todo[p] \in Seq(Blocks) /\ Len(lh) \in Nat
      /\ LOGSIZE \in Nat /\ Size \in Nat /\ MaxNeed \in Nat
  BY LogAssumption, MaxNeedFits DEF IInv, TypeOK
<1>2. Len(todo[p]) \in Nat \ {0}
  BY <1>1
<1>3. Cardinality(Missing(todo[p], lh)) \in Nat
  BY <1>1, MissingFromMore
<1>4. MaxNeed >= 1
  <2>1. Len(todo[p]) <= MaxNeed \/ Cardinality(Missing(todo[p], lh)) < MaxNeed
    BY DEF IInv, NeedsOK
  <2> QED
    BY <1>1, <1>2, <1>3, <2>1
<1>5. p \in Active
  BY DEF Active
<1>6. <<p, 1>> \in Pending
  BY <1>1, <1>2, <1>3, <1>4, <1>5 DEF Pending
<1> DEFINE n == Cardinality(Pending)
<1>7. n \in Nat /\ n # 0
  BY <1>6, PendingFinite, FS_EmptySet
<1>8. Room(Len(lh) + n)
  BY DEF IInv, RoomOK
<1>9. outstanding \in Nat /\ outstanding > 0
  BY <1>5, ActiveCounted DEF IInv
<1> HIDE DEF n
<1> QED
  BY <1>1, <1>7, <1>8, <1>9 DEF Room

\* Adding a block pends nothing new, and one pair less if the block is new.
LEMMA AddPendsLess ==
  ASSUME IInv, LogFits, NEW p \in Ops, LogWriteAdd(p)
  PROVE  /\ Pending' \subseteq Pending
         /\ Cardinality(Pending) \in Nat /\ Cardinality(Pending') \in Nat
         /\ Head(todo[p]) \notin Range(lh) =>
              Cardinality(Pending') < Cardinality(Pending)
<1>1. /\ p \in Active /\ Active' = Active
      /\ todo[p] \in Seq(Blocks) /\ todo[p] # <<>>
      /\ todo' = [todo EXCEPT ![p] = Tail(todo[p])]
      /\ Range(lh') = Range(lh) \cup {Head(todo[p])}
  BY AddFacts
<1>2. todo \in [Ops -> Seq(Blocks)] /\ Active \subseteq Ops /\ MaxNeed \in Nat
  BY MaxNeedFits DEF IInv, TypeOK, Active
<1> DEFINE C(q) == Cardinality(Missing(todo[q], lh))
           D(q) == Cardinality(Missing(todo'[q], lh'))
<1>3. /\ todo'[p] = Tail(todo[p])
      /\ Len(todo'[p]) = Len(todo[p]) - 1 /\ Len(todo[p]) \in Nat \ {0}
  BY <1>1, <1>2, RangeTail
<1>4. C(p) \in Nat /\ D(p) \in Nat /\ D(p) <= C(p)
  BY <1>1, <1>3, MissingAfterAdd, MissingFromMore
<1>5. Head(todo[p]) \notin Range(lh) => D(p) < C(p)
  BY <1>1, <1>3, MissingAfterAdd
<1>6. ASSUME NEW q \in Active
      PROVE  Len(todo'[q]) <= Len(todo[q]) /\ D(q) <= C(q) /\ D(q) \in Nat /\ C(q) \in Nat
             /\ Len(todo'[q]) \in Nat /\ Len(todo[q]) \in Nat
  <2>1. CASE q = p
    <3> HIDE DEF C, D
    <3>1. Len(todo'[p]) <= Len(todo[p]) /\ Len(todo'[p]) \in Nat /\ Len(todo[p]) \in Nat
      BY <1>3
    <3> QED
      BY <1>4, <2>1, <3>1
  <2>2. CASE q # p
    <3>1. todo'[q] = todo[q] /\ todo[q] \in Seq(Blocks)
      BY <1>1, <1>2, <2>2
    <3>2. Range(lh) \subseteq Range(lh')
      BY <1>1
    <3> QED
      BY <3>1, <3>2, MissingFromMore
  <2> QED
    BY <2>1, <2>2
<1>7. /\ Pending = {x \in Active \X (1..MaxNeed) :
                      x[2] <= Len(todo[x[1]]) /\ x[2] <= C(x[1]) + 1}
      /\ Pending' = {x \in Active \X (1..MaxNeed) :
                       x[2] <= Len(todo'[x[1]]) /\ x[2] <= D(x[1]) + 1}
  BY <1>1 DEF Pending
<1> HIDE DEF C, D
<1>8. Pending' \subseteq Pending
  BY <1>2, <1>6, <1>7
<1>9. ASSUME Head(todo[p]) \notin Range(lh)
      PROVE  \E x \in Pending : x \notin Pending'
  <2>1. PICK k \in 1..MaxNeed :
          k <= Len(todo[p]) /\ k <= C(p) + 1 /\ (k = Len(todo[p]) \/ k = C(p) + 1)
    <3>1. Len(todo[p]) <= MaxNeed \/ C(p) < MaxNeed
      BY <1>1, <1>2 DEF IInv, NeedsOK, C
    <3>2. CASE Len(todo[p]) <= C(p) + 1
      <4>1. Len(todo[p]) \in 1..MaxNeed
        BY <1>2, <1>3, <1>4, <3>1, <3>2
      <4> QED
        BY <1>3, <1>4, <3>2, <4>1
    <3>3. CASE Len(todo[p]) > C(p) + 1
      <4>1. C(p) + 1 \in 1..MaxNeed
        BY <1>2, <1>3, <1>4, <3>1, <3>3
      <4> QED
        BY <1>3, <1>4, <3>3, <4>1
    <3> QED
      BY <1>3, <1>4, <3>2, <3>3
  <2>2. <<p, k>> \in Pending
    BY <1>1, <1>7, <2>1
  <2>3. ~(k <= Len(todo'[p]) /\ k <= D(p) + 1)
    <3>1. /\ Len(todo'[p]) = Len(todo[p]) - 1 /\ Len(todo[p]) \in Nat
          /\ D(p) \in Nat /\ C(p) \in Nat /\ D(p) < C(p)
      BY <1>3, <1>4, <1>5, <1>9
    <3> QED
      BY <2>1, <3>1
  <2>4. <<p, k>> \notin Pending'
    BY <1>7, <2>3
  <2> QED
    BY <2>2, <2>4
<1>10. IsFiniteSet(Pending) /\ Cardinality(Pending) \in Nat /\ Cardinality(Pending') \in Nat
  BY PendingFinite
<1>11. Cardinality(Pending') <= Cardinality(Pending)
       /\ (Cardinality(Pending') = Cardinality(Pending) => Pending' = Pending)
  BY <1>8, <1>10, FS_Subset
<1> QED
  BY <1>8, <1>9, <1>10, <1>11

\* What begin_op reserves is enough: no log_write panics.
LEMMA RoomStep ==
  ASSUME IInv, LogFits, Next
  PROVE  RoomOK'
<1> USE DEF IInv, TypeOK
<1>1. ASSUME NEW p \in Ops, Call(p)
      PROVE  RoomOK'
  <2>1. UNCHANGED <<lh, panicked>> /\ dhead' \in {dhead, lh, <<>>}
    BY <1>1 DEF Call, callVars, diskVars, At
  <2>2. Active' = Active /\ \A q \in Active : todo'[q] = todo[q]
    BY <1>1 DEF Call, callVars, At, Goto, Active, CommitLabels
  <2>3. Pending' \subseteq Pending
    BY <2>1, <2>2 DEF Pending
  <2> QED
    BY <2>1, <2>3, RoomKept DEF RoomOK
<1>2. ASSUME NEW p \in Ops, BeginOp(p)
      PROVE  RoomOK'
  <2>1. UNCHANGED <<lh, dhead, panicked, todo>>
    BY <1>2 DEF BeginOp, diskVars
  <2>2. CASE MustWait
    <3>1. Active' = Active
      BY <1>2, <2>2 DEF BeginOp, At, Goto, Active
    <3>2. Pending' \subseteq Pending
      BY <2>1, <3>1 DEF Pending
    <3> QED
      BY <2>1, <3>2, RoomKept DEF RoomOK
  <2>3. CASE ~MustWait
    <3>1. outstanding' = outstanding + 1 /\ Cardinality(Active') = outstanding'
      BY <1>2, <2>3, CountStep DEF BeginOp, CountOK, Next, CallStep
    <3>2. Len(lh) + (outstanding + 1) * MAXOPBLOCKS <= LOGSIZE
      <4>1. ~(Len(lh) + (outstanding + 1) * MAXOPBLOCKS > LOGSIZE)
        BY <2>3 DEF MustWait
      <4>2. /\ Len(lh) + (outstanding + 1) * MAXOPBLOCKS \in Int /\ LOGSIZE \in Int
        BY LogAssumption
      <4> QED
        BY <4>1, <4>2
    <3>3. /\ Cardinality(Pending') \in Nat
          /\ Cardinality(Pending') <= (outstanding + 1) * MaxNeed
      BY <3>1, PendingFinite
    <3>4. Len(lh) \in Nat /\ outstanding \in Nat
      OBVIOUS
    <3>5. Room(Len(lh) + Cardinality(Pending'))
      BY <3>2, <3>3, <3>4, ReservationCovers
    <3> QED
      BY <2>1, <3>5 DEF RoomOK
  <2> QED
    BY <2>2, <2>3
<1>3. ASSUME NEW p \in Ops, LogWriteTest(p)
      PROVE  RoomOK'
  <2>1. UNCHANGED <<lh, dhead, todo, outstanding>> /\ pc[p] = "op" /\ todo[p] # <<>>
    BY <1>3 DEF LogWriteTest, At, diskVars
  <2>2. ~(Len(lh) >= LOGSIZE \/ Len(lh) >= Size - 1 \/ outstanding < 1)
    BY <1>3, <2>1, TestPasses
  <2>3. UNCHANGED panicked /\ pc' = [pc EXCEPT ![p] = "log_add"]
    BY <1>3, <2>2 DEF LogWriteTest, Goto
  <2>4. Active' = Active
    BY <2>1, <2>3 DEF Active
  <2>5. Pending' \subseteq Pending
    BY <2>1, <2>4 DEF Pending
  <2> QED
    BY <2>1, <2>3, <2>5, RoomKept DEF RoomOK
<1>4. ASSUME NEW p \in Ops, LogWriteAdd(p)
      PROVE  RoomOK'
  <2>1. UNCHANGED <<dhead, panicked>>
    BY <1>4 DEF LogWriteAdd, diskVars
  <2>2. Pending' \subseteq Pending
    BY <1>4, AddPendsLess
  <2>3. CASE Head(todo[p]) \in Range(lh)
    <3>1. lh' = lh
      BY <1>4, <2>3 DEF LogWriteAdd
    <3> QED
      BY <2>1, <2>2, <3>1, RoomKept DEF RoomOK
  <2>4. CASE Head(todo[p]) \notin Range(lh)
    <3> DEFINE n == Cardinality(Pending)
               m == Cardinality(Pending')
    <3>1. n \in Nat /\ m \in Nat /\ m < n
      BY <1>4, <2>4, AddPendsLess
    <3>2. Len(lh') = Len(lh) + 1 /\ Len(lh) \in Nat
      BY <1>4, <2>4, AddFacts
    <3>3. Room(Len(lh) + n) /\ LOGSIZE \in Nat /\ Size \in Nat
      BY LogAssumption DEF RoomOK
    <3> HIDE DEF n, m
    <3>4. Room(Len(lh') + m)
      BY <3>1, <3>2, <3>3 DEF Room
    <3> QED
      BY <2>1, <3>4 DEF RoomOK, m
  <2> QED
    BY <2>3, <2>4
<1>5. ASSUME NEW p \in Ops, EndOp(p)
      PROVE  RoomOK'
  <2>1. p \in Active
    BY <1>5 DEF EndOp, At, Active
  <2>2. ~committing
    BY <2>1, ActiveAlone
  <2>3. UNCHANGED <<lh, dhead, panicked, todo>>
    BY <1>5, <2>2 DEF EndOp, diskVars
  <2>4. Active' \subseteq Active
    BY <1>5, <2>2 DEF EndOp, At, Goto, WakeupGoto, Active
  <2>5. Pending' \subseteq Pending
    BY <2>3, <2>4 DEF Pending
  <2> QED
    BY <2>3, <2>5, RoomKept DEF RoomOK
<1>6. ASSUME NEW p \in Ops, WriteLog(p)
      PROVE  RoomOK'
  <2>1. UNCHANGED <<lh, panicked>> /\ dhead' \in {dhead, lh, <<>>}
    BY <1>6 DEF WriteLog, callVars, diskVars, At
  <2>2. Active' = Active /\ \A q \in Active : todo'[q] = todo[q]
    BY <1>6 DEF WriteLog, callVars, At, Active, CommitLabels
  <2>3. Pending' \subseteq Pending
    BY <2>1, <2>2 DEF Pending
  <2> QED
    BY <2>1, <2>3, RoomKept DEF RoomOK
<1>7. ASSUME NEW p \in Ops, WriteHead(p)
      PROVE  RoomOK'
  <2>1. UNCHANGED <<lh, panicked>> /\ dhead' \in {dhead, lh, <<>>}
    BY <1>7 DEF WriteHead, callVars, diskVars, At
  <2>2. Active' = Active /\ \A q \in Active : todo'[q] = todo[q]
    BY <1>7 DEF WriteHead, callVars, At, Goto, Active, CommitLabels
  <2>3. Pending' \subseteq Pending
    BY <2>1, <2>2 DEF Pending
  <2> QED
    BY <2>1, <2>3, RoomKept DEF RoomOK
<1>8. ASSUME NEW p \in Ops, Install(p)
      PROVE  RoomOK'
  <2>1. UNCHANGED <<lh, panicked>> /\ dhead' \in {dhead, lh, <<>>}
    BY <1>8 DEF Install, callVars, diskVars, At
  <2>2. Active' = Active /\ \A q \in Active : todo'[q] = todo[q]
    BY <1>8 DEF Install, callVars, At, Active, CommitLabels
  <2>3. Pending' \subseteq Pending
    BY <2>1, <2>2 DEF Pending
  <2> QED
    BY <2>1, <2>3, RoomKept DEF RoomOK
<1>9. ASSUME NEW p \in Ops, InstallEnd(p)
      PROVE  RoomOK'
  <2>1. lh' \in {lh, dhead, <<>>} /\ dhead' \in {dhead, lh, <<>>} /\ ~panicked'
    BY <1>9 DEF InstallEnd, diskVars, At
  <2>2. Active' = {}
    BY <1>9 DEF InstallEnd, At, Goto, PlaceOK, CommitAlone, CommitLabels, Active
  <2> QED
    BY <2>1, <2>2, RoomIdle
<1>10. ASSUME NEW p \in Ops, ClearHead(p)
      PROVE  RoomOK'
  <2>1. UNCHANGED <<lh, panicked>> /\ dhead' \in {dhead, lh, <<>>}
    BY <1>10 DEF ClearHead, callVars, diskVars, At
  <2>2. Active' = Active /\ \A q \in Active : todo'[q] = todo[q]
    BY <1>10 DEF ClearHead, callVars, At, Goto, Active, CommitLabels
  <2>3. Pending' \subseteq Pending
    BY <2>1, <2>2 DEF Pending
  <2> QED
    BY <2>1, <2>3, RoomKept DEF RoomOK
<1>11. ASSUME NEW p \in Ops, CommitEmpty(p)
      PROVE  RoomOK'
  <2>1. UNCHANGED <<lh, panicked>> /\ dhead' \in {dhead, lh, <<>>}
    BY <1>11 DEF CommitEmpty, callVars, diskVars, At
  <2>2. Active' = Active /\ \A q \in Active : todo'[q] = todo[q]
    BY <1>11 DEF CommitEmpty, callVars, At, Goto, Active, CommitLabels
  <2>3. Pending' \subseteq Pending
    BY <2>1, <2>2 DEF Pending
  <2> QED
    BY <2>1, <2>3, RoomKept DEF RoomOK
<1>12. ASSUME NEW p \in Ops, Finish(p)
      PROVE  RoomOK'
  <2>1. UNCHANGED <<lh, panicked>> /\ dhead' \in {dhead, lh, <<>>}
    BY <1>12 DEF Finish, callVars, diskVars, At
  <2>2. Active' = Active /\ \A q \in Active : todo'[q] = todo[q]
    BY <1>12 DEF Finish, callVars, At, WakeupGoto, Active, CommitLabels
  <2>3. Pending' \subseteq Pending
    BY <2>1, <2>2 DEF Pending
  <2> QED
    BY <2>1, <2>3, RoomKept DEF RoomOK
<1>13. CASE Crash
  <2>1. lh' \in {lh, dhead, <<>>} /\ dhead' \in {dhead, lh, <<>>} /\ ~panicked'
    BY <1>13 DEF Crash, diskVars, RoomOK
  <2>2. Active' = {}
    BY <1>13 DEF Crash, callVars, PlaceOK, Active
  <2> QED
    BY <2>1, <2>2, RoomIdle
<1>14. CASE ReadHead
  <2>1. lh' \in {lh, dhead, <<>>} /\ dhead' \in {dhead, lh, <<>>} /\ ~panicked'
    BY <1>14 DEF ReadHead, diskVars, RoomOK
  <2>2. Active' = {}
    BY <1>14 DEF ReadHead, callVars, PlaceOK, Active
  <2> QED
    BY <2>1, <2>2, RoomIdle
<1>15. CASE Recover
  <2>1. lh' \in {lh, dhead, <<>>} /\ dhead' \in {dhead, lh, <<>>} /\ ~panicked'
    BY <1>15 DEF Recover, diskVars, RoomOK
  <2>2. Active' = {}
    BY <1>15 DEF Recover, callVars, PlaceOK, Active
  <2> QED
    BY <2>1, <2>2, RoomIdle
<1>16. CASE RecoverEnd
  <2>1. lh' \in {lh, dhead, <<>>} /\ dhead' \in {dhead, lh, <<>>} /\ ~panicked'
    BY <1>16 DEF RecoverEnd, diskVars, RoomOK
  <2>2. Active' = {}
    BY <1>16 DEF RecoverEnd, callVars, PlaceOK, Active
  <2> QED
    BY <2>1, <2>2, RoomIdle
<1> QED
  BY <1>1, <1>2, <1>3, <1>4, <1>5, <1>6, <1>7, <1>8, <1>9, <1>10, <1>11, <1>12, <1>13, <1>14, <1>15, <1>16 DEF Next, CallStep, Boot


\* A block is logged once: a second log_write of it is absorbed.
LEMMA HeaderStep ==
  ASSUME IInv, LogFits, Next
  PROVE  HeaderOK'
<1> USE RangeEmpty DEF IInv, TypeOK, HeaderOK
<1>1. ASSUME NEW p \in Ops, Call(p)
      PROVE  HeaderOK'
  BY <1>1 DEF Call, diskVars, callVars, At, Goto, At
<1>2. ASSUME NEW p \in Ops, BeginOp(p)
      PROVE  HeaderOK'
  BY <1>2 DEF BeginOp, diskVars, callVars, At, Goto, At
<1>3. ASSUME NEW p \in Ops, LogWriteTest(p)
      PROVE  HeaderOK'
  BY <1>3 DEF LogWriteTest, diskVars, callVars, At, Goto, At
<1>4. ASSUME NEW p \in Ops, LogWriteAdd(p)
      PROVE  HeaderOK'
  <2>1. IsInjective(lh') /\ UNCHANGED <<dhead, tail>>
    BY <1>4, AddFacts DEF LogWriteAdd, diskVars
  <2> QED
    BY <2>1
<1>5. ASSUME NEW p \in Ops, EndOp(p)
      PROVE  HeaderOK'
  BY <1>5 DEF EndOp, diskVars, callVars, At, Goto, WakeupGoto, At
<1>6. ASSUME NEW p \in Ops, WriteLog(p)
      PROVE  HeaderOK'
  BY <1>6 DEF WriteLog, diskVars, callVars, At, At
<1>7. ASSUME NEW p \in Ops, WriteHead(p)
      PROVE  HeaderOK'
  BY <1>7 DEF WriteHead, diskVars, callVars, At, Goto, At
<1>8. ASSUME NEW p \in Ops, Install(p)
      PROVE  HeaderOK'
  BY <1>8 DEF Install, diskVars, callVars, At, At
<1>9. ASSUME NEW p \in Ops, InstallEnd(p)
      PROVE  HeaderOK'
  BY <1>9 DEF InstallEnd, diskVars, callVars, At, Goto, At
<1>10. ASSUME NEW p \in Ops, ClearHead(p)
      PROVE  HeaderOK'
  BY <1>10 DEF ClearHead, diskVars, callVars, At, Goto, At
<1>11. ASSUME NEW p \in Ops, CommitEmpty(p)
      PROVE  HeaderOK'
  BY <1>11 DEF CommitEmpty, diskVars, callVars, At, Goto, At
<1>12. ASSUME NEW p \in Ops, Finish(p)
      PROVE  HeaderOK'
  BY <1>12 DEF Finish, diskVars, callVars, At, WakeupGoto, At
<1>13. CASE Crash
  BY <1>13 DEF Crash, diskVars, callVars, At
<1>14. CASE ReadHead
  BY <1>14 DEF ReadHead, diskVars, callVars, At
<1>15. CASE Recover
  BY <1>15 DEF Recover, diskVars, callVars, At
<1>16. CASE RecoverEnd
  BY <1>16 DEF RecoverEnd, diskVars, callVars, At
<1> QED
  BY <1>1, <1>2, <1>3, <1>4, <1>5, <1>6, <1>7, <1>8, <1>9, <1>10, <1>11, <1>12, <1>13, <1>14, <1>15, <1>16 DEF Next, CallStep, Boot


\* The recovery installs what read_head found, block after block.
LEMMA BootStep ==
  ASSUME IInv, LogFits, Next
  PROVE  BootOK'
<1> USE DEF IInv, TypeOK, BootOK, HeaderOK
<1>1. ASSUME NEW p \in Ops, Call(p)
      PROVE  BootOK'
  BY <1>1 DEF Call, diskVars, callVars, At, Goto, At, Logged
<1>2. ASSUME NEW p \in Ops, BeginOp(p)
      PROVE  BootOK'
  BY <1>2 DEF BeginOp, diskVars, callVars, At, Goto, At, Logged
<1>3. ASSUME NEW p \in Ops, LogWriteTest(p)
      PROVE  BootOK'
  BY <1>3 DEF LogWriteTest, diskVars, callVars, At, Goto, At, Logged
<1>4. ASSUME NEW p \in Ops, LogWriteAdd(p)
      PROVE  BootOK'
  BY <1>4 DEF LogWriteAdd, diskVars, callVars, At, Goto, At, Logged
<1>5. ASSUME NEW p \in Ops, EndOp(p)
      PROVE  BootOK'
  BY <1>5 DEF EndOp, diskVars, callVars, At, Goto, WakeupGoto, At, Logged
<1>6. ASSUME NEW p \in Ops, WriteLog(p)
      PROVE  BootOK'
  BY <1>6 DEF WriteLog, diskVars, callVars, At, At, Logged
<1>7. ASSUME NEW p \in Ops, WriteHead(p)
      PROVE  BootOK'
  BY <1>7 DEF WriteHead, diskVars, callVars, At, Goto, At, Logged
<1>8. ASSUME NEW p \in Ops, Install(p)
      PROVE  BootOK'
  BY <1>8 DEF Install, diskVars, callVars, At, At, Logged
<1>9. ASSUME NEW p \in Ops, InstallEnd(p)
      PROVE  BootOK'
  BY <1>9 DEF InstallEnd, diskVars, callVars, At, Goto, At, Logged
<1>10. ASSUME NEW p \in Ops, ClearHead(p)
      PROVE  BootOK'
  BY <1>10 DEF ClearHead, diskVars, callVars, At, Goto, At, Logged
<1>11. ASSUME NEW p \in Ops, CommitEmpty(p)
      PROVE  BootOK'
  BY <1>11 DEF CommitEmpty, diskVars, callVars, At, Goto, At, Logged
<1>12. ASSUME NEW p \in Ops, Finish(p)
      PROVE  BootOK'
  BY <1>12 DEF Finish, diskVars, callVars, At, WakeupGoto, At, Logged
<1>13. CASE Crash
  BY <1>13 DEF Crash, diskVars, callVars, At, Logged
<1>14. CASE ReadHead
  BY <1>14 DEF ReadHead, diskVars, callVars, At, Logged
<1>15. CASE Recover
  <2>1. /\ boot = "install" /\ tail <= Len(lh)
        /\ disk' = [disk EXCEPT ![lh[tail]] = dlog[tail]]
        /\ tail' = tail + 1
        /\ UNCHANGED <<dlog, dhead, lh, boot>>
    BY <1>15 DEF Recover
  <2>2. tail \in DOMAIN lh /\ lh[tail] \in Blocks
    BY <2>1
  <2>3. ASSUME NEW i \in DOMAIN lh, i < tail + 1 PROVE dlog[i] = disk'[lh[i]]
    <3>1. CASE i = tail
      BY <2>1, <2>2, <3>1
    <3>2. CASE i # tail
      <4>1. i < tail /\ lh[i] # lh[tail]
        BY <2>2, <2>3, <3>2 DEF IsInjective
      <4>2. dlog[i] = disk[lh[i]]
        BY <2>1, <4>1 DEF Logged
      <4> QED
        BY <2>1, <4>1, <4>2
    <3> QED
      BY <3>1, <3>2
  <2>4. Logged(lh, tail, disk)'
    BY <2>1, <2>3 DEF Logged
  <2> QED
    BY <2>1, <2>4
<1>16. CASE RecoverEnd
  BY <1>16 DEF RecoverEnd, diskVars, callVars, At, Logged
<1> QED
  BY <1>1, <1>2, <1>3, <1>4, <1>5, <1>6, <1>7, <1>8, <1>9, <1>10, <1>11, <1>12, <1>13, <1>14, <1>15, <1>16 DEF Next, CallStep, Boot


\* Installing a block copies to the disk what the cache holds.
LEMMA InstallFacts ==
  ASSUME IInv, LogFits, NEW p \in Ops, Install(p)
  PROVE  /\ tail \in DOMAIN lh /\ lh[tail] \in Blocks
         /\ dlog[tail] = cache[lh[tail]]
         /\ cache' = cache
<1>1. tail \in DOMAIN lh /\ lh[tail] \in Blocks
  BY Places DEF Install, IInv, HeaderOK
<1>2. dlog[tail] = cache[lh[tail]]
  BY <1>1 DEF Install, At, IInv, CommitOK
<1>3. cache' = [cache EXCEPT ![lh[tail]] = dlog[tail]]
  BY DEF Install
<1> QED
  BY <1>1, <1>2, <1>3 DEF IInv, TypeOK

\* The commit logs, then writes the header, then installs, then clears.
LEMMA CommitStep ==
  ASSUME IInv, LogFits, Next
  PROVE  CommitOK'
<1> USE DEF IInv, TypeOK, CommitOK, HeaderOK
<1>1. ASSUME NEW p \in Ops, Call(p)
      PROVE  CommitOK'
  BY <1>1 DEF Call, diskVars, callVars, At, Goto, At, Logged, PlaceOK, CommitAlone, CommitLabels
<1>2. ASSUME NEW p \in Ops, BeginOp(p)
      PROVE  CommitOK'
  BY <1>2 DEF BeginOp, diskVars, callVars, At, Goto, At, Logged, PlaceOK, CommitAlone, CommitLabels
<1>3. ASSUME NEW p \in Ops, LogWriteTest(p)
      PROVE  CommitOK'
  BY <1>3 DEF LogWriteTest, diskVars, callVars, At, Goto, At, Logged, PlaceOK, CommitAlone, CommitLabels
<1>4. ASSUME NEW p \in Ops, LogWriteAdd(p)
      PROVE  CommitOK'
  BY <1>4 DEF LogWriteAdd, diskVars, callVars, At, Goto, At, Logged, PlaceOK, CommitAlone, CommitLabels
<1>5. ASSUME NEW p \in Ops, EndOp(p)
      PROVE  CommitOK'
  <2>0. p \in Active
    BY <1>5 DEF EndOp, At, Active
  <2>1. \A q \in Ops : pc[q] \notin CommitLabels
    BY <2>0, ActiveAlone
  <2>2. \A q \in Ops : pc'[q] \in CommitLabels => pc'[q] = "commit" /\ tail' = 1
    <3>1. \/ pc' = [pc EXCEPT ![p] = "commit"] /\ tail' = 1
          \/ pc' = [q \in Ops |-> IF q = p THEN "done"
                                ELSE IF pc[q] = "asleep" THEN "begin" ELSE pc[q]]
          \/ pc' = pc
      BY <1>5 DEF EndOp, Goto, WakeupGoto
    <3> SUFFICES ASSUME NEW q \in Ops, pc'[q] \in CommitLabels
                 PROVE  pc'[q] = "commit" /\ tail' = 1
      OBVIOUS
    <3>2. pc[q] \notin CommitLabels
      BY <2>1
    <3>3. pc'[q] \in {pc[q], "done", "begin"} \/ (pc'[q] = "commit" /\ tail' = 1)
      BY <3>1
    <3> HIDE DEF IInv, CommitOK, TypeOK
    <3> QED
      BY <3>2, <3>3 DEF CommitLabels
  <2>3. lh' = lh
    BY <1>5 DEF EndOp
  <2>4. tail' = 1 => Logged(lh, tail, cache)'
    BY <2>3 DEF Logged
  <2> QED
    BY <2>2, <2>4 DEF CommitLabels
<1>6. ASSUME NEW p \in Ops, WriteLog(p)
      PROVE  CommitOK'
  <2>1. /\ pc[p] = "commit" /\ tail <= Len(lh)
        /\ dlog' = [dlog EXCEPT ![tail] = cache[lh[tail]]]
        /\ tail' = tail + 1
        /\ UNCHANGED <<cache, lh, pc>>
    BY <1>6 DEF WriteLog, At, callVars
  <2>2. \A q \in Ops : q # p => pc[q] \notin CommitLabels
    BY <2>1 DEF PlaceOK, CommitAlone, CommitLabels
  <2>3. ASSUME NEW i \in DOMAIN lh, i < tail + 1 PROVE dlog'[i] = cache[lh[i]]
    <3>1. i \in 1..LOGSIZE
      BY Places
    <3>2. CASE i = tail
      BY <2>1, <3>1, <3>2
    <3>3. CASE i # tail
      <4>1. i < tail
        BY <2>3, <3>3
      <4>2. dlog[i] = cache[lh[i]]
        BY <2>1, <4>1 DEF Logged
      <4> QED
        BY <2>1, <3>3, <4>2
    <3> QED
      BY <3>2, <3>3
  <2>4. Logged(lh, tail, cache)'
    BY <2>1, <2>3 DEF Logged
  <2> QED
    BY <2>1, <2>2, <2>4 DEF CommitLabels
<1>7. ASSUME NEW p \in Ops, WriteHead(p)
      PROVE  CommitOK'
  BY <1>7 DEF WriteHead, diskVars, callVars, At, Goto, At, Logged, PlaceOK, CommitAlone, CommitLabels
<1>8. ASSUME NEW p \in Ops, Install(p)
      PROVE  CommitOK'
  <2>1. /\ pc[p] = "install" /\ tail <= Len(lh)
        /\ disk' = [disk EXCEPT ![lh[tail]] = dlog[tail]]
        /\ tail' = tail + 1
        /\ UNCHANGED <<dlog, dhead, lh, pc>>
    BY <1>8 DEF Install, At, callVars
  <2>2. \A q \in Ops : q # p => pc[q] \notin CommitLabels
    BY <2>1 DEF PlaceOK, CommitAlone, CommitLabels
  <2>3. /\ tail \in DOMAIN lh /\ lh[tail] \in Blocks /\ cache' = cache
        /\ dlog[tail] = cache[lh[tail]]
    BY <1>8, InstallFacts
  <2>4. ASSUME NEW i \in DOMAIN lh, i < tail + 1 PROVE disk'[lh[i]] = cache[lh[i]]
    <3>1. CASE i = tail
      BY <2>1, <2>3, <3>1
    <3>2. CASE i # tail
      <4>1. i < tail /\ lh[i] # lh[tail]
        BY <2>3, <2>4, <3>2 DEF IsInjective
      <4>2. disk[lh[i]] = cache[lh[i]]
        BY <2>1, <4>1
      <4> QED
        BY <2>1, <4>1, <4>2
    <3> QED
      BY <3>1, <3>2
  <2> QED
    BY <2>1, <2>2, <2>3, <2>4 DEF CommitLabels
<1>9. ASSUME NEW p \in Ops, InstallEnd(p)
      PROVE  CommitOK'
  BY <1>9 DEF InstallEnd, diskVars, callVars, At, Goto, At, Logged, PlaceOK, CommitAlone, CommitLabels
<1>10. ASSUME NEW p \in Ops, ClearHead(p)
      PROVE  CommitOK'
  BY <1>10 DEF ClearHead, diskVars, callVars, At, Goto, At, Logged, PlaceOK, CommitAlone, CommitLabels
<1>11. ASSUME NEW p \in Ops, CommitEmpty(p)
      PROVE  CommitOK'
  BY <1>11 DEF CommitEmpty, diskVars, callVars, At, Goto, At, Logged, PlaceOK, CommitAlone, CommitLabels
<1>12. ASSUME NEW p \in Ops, Finish(p)
      PROVE  CommitOK'
  BY <1>12 DEF Finish, diskVars, callVars, At, WakeupGoto, At, Logged, PlaceOK, CommitAlone, CommitLabels
<1>13. CASE Crash
  BY <1>13 DEF Crash, diskVars, callVars, At, Logged, PlaceOK, CommitAlone, CommitLabels
<1>14. CASE ReadHead
  BY <1>14 DEF ReadHead, diskVars, callVars, At, Logged, PlaceOK, CommitAlone, CommitLabels
<1>15. CASE Recover
  BY <1>15 DEF Recover, diskVars, callVars, At, Logged, PlaceOK, CommitAlone, CommitLabels
<1>16. CASE RecoverEnd
  BY <1>16 DEF RecoverEnd, diskVars, callVars, At, Logged, PlaceOK, CommitAlone, CommitLabels
<1> QED
  BY <1>1, <1>2, <1>3, <1>4, <1>5, <1>6, <1>7, <1>8, <1>9, <1>10, <1>11, <1>12, <1>13, <1>14, <1>15, <1>16 DEF Next, CallStep, Boot


\* A block that is not logged is the same in the cache and on the disk.
LEMMA UpStep ==
  ASSUME IInv, LogFits, Next
  PROVE  UpOK'
<1> USE DEF IInv, TypeOK, UpOK, HeaderOK
<1>1. ASSUME NEW p \in Ops, Call(p)
      PROVE  UpOK'
  BY <1>1 DEF Call, diskVars, callVars, At, Goto, At, OthersClean, PlaceOK, CommitAlone, CommitLabels
<1>2. ASSUME NEW p \in Ops, BeginOp(p)
      PROVE  UpOK'
  BY <1>2 DEF BeginOp, diskVars, callVars, At, Goto, At, OthersClean, PlaceOK, CommitAlone, CommitLabels
<1>3. ASSUME NEW p \in Ops, LogWriteTest(p)
      PROVE  UpOK'
  <2>1. /\ UNCHANGED <<lh, dhead, todo, disk, boot>> /\ pc[p] = "op" /\ todo[p] # <<>>
        /\ cache' = [cache EXCEPT ![Head(todo[p])] = p]
    BY <1>3 DEF LogWriteTest, At, diskVars
  <2>2. ~(Len(lh) >= LOGSIZE \/ Len(lh) >= Size - 1 \/ outstanding < 1)
    BY <1>3, <2>1, TestPasses
  <2>3. pc' = [pc EXCEPT ![p] = "log_add"]
    BY <1>3, <2>2 DEF LogWriteTest, Goto
  <2>4. ASSUME boot = "up", OthersClean PROVE OthersClean'
    <3> SUFFICES ASSUME NEW b \in Blocks, cache'[b] # disk[b], b \notin Range(lh)
                 PROVE  \E q \in Ops : pc'[q] = "log_add" /\ Head(todo[q]) = b
      BY <2>1 DEF OthersClean
    <3>1. CASE b = Head(todo[p])
      BY <2>3, <3>1
    <3>2. CASE b # Head(todo[p])
      BY <2>1, <2>3, <2>4, <3>2 DEF OthersClean
    <3> QED
      BY <3>1, <3>2
  <2> QED
    BY <2>1, <2>3, <2>4
<1>4. ASSUME NEW p \in Ops, LogWriteAdd(p)
      PROVE  UpOK'
  <2>1. UNCHANGED <<cache, dhead, disk, boot>> /\ pc' = [pc EXCEPT ![p] = "op"]
        /\ todo' = [todo EXCEPT ![p] = Tail(todo[p])] /\ pc[p] = "log_add"
    BY <1>4 DEF LogWriteAdd, At, Goto, diskVars
  <2>2. Range(lh') = Range(lh) \cup {Head(todo[p])}
    BY <1>4, AddFacts
  <2>3. ASSUME OthersClean PROVE OthersClean'
    BY <2>1, <2>2, <2>3 DEF OthersClean
  <2> QED
    BY <2>1, <2>3
<1>5. ASSUME NEW p \in Ops, EndOp(p)
      PROVE  UpOK'
  BY <1>5 DEF EndOp, diskVars, callVars, At, Goto, WakeupGoto, At, OthersClean, PlaceOK, CommitAlone, CommitLabels
<1>6. ASSUME NEW p \in Ops, WriteLog(p)
      PROVE  UpOK'
  BY <1>6 DEF WriteLog, diskVars, callVars, At, At, OthersClean, PlaceOK, CommitAlone, CommitLabels
<1>7. ASSUME NEW p \in Ops, WriteHead(p)
      PROVE  UpOK'
  BY <1>7 DEF WriteHead, diskVars, callVars, At, Goto, At, OthersClean, PlaceOK, CommitAlone, CommitLabels
<1>8. ASSUME NEW p \in Ops, Install(p)
      PROVE  UpOK'
  BY <1>8 DEF Install, diskVars, callVars, At, At, OthersClean, PlaceOK, CommitAlone, CommitLabels
<1>9. ASSUME NEW p \in Ops, InstallEnd(p)
      PROVE  UpOK'
  <2>1. /\ boot = "up" /\ pc[p] = "install" /\ tail > Len(lh)
        /\ UNCHANGED <<cache, disk, boot>>
        /\ pc' = [pc EXCEPT ![p] = "clear"]
    BY <1>9 DEF InstallEnd, At, Goto, diskVars
  <2>2. \A q \in Ops : pc[q] # "log_add"
    BY <2>1 DEF PlaceOK, CommitAlone, CommitLabels
  <2>3. \A i \in DOMAIN lh : disk[lh[i]] = cache[lh[i]]
    BY <2>1 DEF CommitOK
  <2>4. \A b \in Blocks : cache[b] = disk[b]
    <3> SUFFICES ASSUME NEW b \in Blocks PROVE cache[b] = disk[b]
      OBVIOUS
    <3>1. cache[b] = disk[b] \/ b \in Range(lh)
      BY <2>1, <2>2 DEF OthersClean
    <3>2. b \in Range(lh) => \E i \in DOMAIN lh : lh[i] = b
      BY DEF Range
    <3> QED
      BY <2>3, <3>1, <3>2
  <2> QED
    BY <2>1, <2>4 DEF OthersClean
<1>10. ASSUME NEW p \in Ops, ClearHead(p)
      PROVE  UpOK'
  <2>1. /\ pc[p] = "clear" /\ dhead' = lh /\ boot = "up"
        /\ UNCHANGED <<cache, disk, boot, lh, todo>>
        /\ pc' = [pc EXCEPT ![p] = "finish"]
    BY <1>10 DEF ClearHead, At, Goto
  <2>2. lh = <<>>
    BY <2>1 DEF CommitOK
  <2>3. OthersClean'
    BY <2>1 DEF OthersClean
  <2> QED
    BY <2>1, <2>2, <2>3
<1>11. ASSUME NEW p \in Ops, CommitEmpty(p)
      PROVE  UpOK'
  BY <1>11 DEF CommitEmpty, diskVars, callVars, At, Goto, At, OthersClean, PlaceOK, CommitAlone, CommitLabels
<1>12. ASSUME NEW p \in Ops, Finish(p)
      PROVE  UpOK'
  BY <1>12 DEF Finish, diskVars, callVars, At, WakeupGoto, At, OthersClean, PlaceOK, CommitAlone, CommitLabels
<1>13. CASE Crash
  BY <1>13 DEF Crash, diskVars, callVars, At, OthersClean, PlaceOK, CommitAlone, CommitLabels
<1>14. CASE ReadHead
  BY <1>14 DEF ReadHead, diskVars, callVars, At, OthersClean, PlaceOK, CommitAlone, CommitLabels
<1>15. CASE Recover
  BY <1>15 DEF Recover, diskVars, callVars, At, OthersClean, PlaceOK, CommitAlone, CommitLabels
<1>16. CASE RecoverEnd
  BY <1>16 DEF RecoverEnd, diskVars, callVars, At, OthersClean, PlaceOK, CommitAlone, CommitLabels
<1> QED
  BY <1>1, <1>2, <1>3, <1>4, <1>5, <1>6, <1>7, <1>8, <1>9, <1>10, <1>11, <1>12, <1>13, <1>14, <1>15, <1>16 DEF Next, CallStep, Boot


-----------------------------------------------------------------------------
(* The invariant and the safety property *)

\* Init satisfies the inductive invariant.
LEMMA InitInv == LogFits /\ Init => IInv
<1> SUFFICES ASSUME LogFits, Init PROVE IInv
  OBVIOUS
<1>1. LOGSIZE \in Nat /\ Size \in Nat /\ MaxCrashes \in Nat /\ 0 < Size
  BY LogAssumption DEF LogFits
<1>2. /\ lh = <<>> /\ dhead = <<>> /\ tail = 1 /\ boot = "up" /\ cache = disk
      /\ \A p \in Ops : pc[p] = "idle" /\ todo[p] = <<>>
      /\ outstanding = 0 /\ ~committing /\ ~panicked
  BY DEF Init
<1>3. TypeOK
  <2>1. /\ disk \in [Blocks -> Ops \cup {Blank}]
        /\ dlog \in [1..LOGSIZE -> Ops \cup {Blank}]
    BY DEF Init
  <2>2. pc \in [Ops -> {"idle"}] /\ todo \in [Ops -> Seq(Blocks)]
    BY DEF Init
  <2>3. /\ crashes \in 0..MaxCrashes /\ outstanding \in Nat /\ tail \in Nat
        /\ lh \in Seq(Blocks) /\ dhead \in Seq(Blocks)
    BY <1>1 DEF Init
  <2>4. committing \in BOOLEAN /\ panicked \in BOOLEAN
    BY Zenon DEF Init
  <2> QED
    BY <1>2, <2>1, <2>2, <2>3, <2>4 DEF TypeOK
<1>4. Active = {}
  BY <1>2 DEF Active
<1>5. CountOK
  BY <1>2, <1>4, FS_EmptySet DEF CountOK
<1>6. PlaceOK
  BY <1>2 DEF PlaceOK, CommitAlone, CommitLabels
<1>7. NeedsOK
  BY <1>2, NeedOfPlan DEF NeedsOK
<1>8. RoomOK
  <2>1. Pending = {}
    BY <1>4, PendingFinite
  <2>2. Cardinality(Pending) = 0
    BY <2>1, FS_EmptySet
  <2> QED
    BY <1>1, <1>2, <2>2 DEF RoomOK, Room
<1>9. HeaderOK /\ UpOK /\ CommitOK /\ BootOK
  BY <1>2, RangeEmpty DEF HeaderOK, UpOK, OthersClean, CommitOK, BootOK
<1> QED
  BY <1>3, <1>5, <1>6, <1>7, <1>8, <1>9 DEF IInv

\* Every step keeps the inductive invariant.
LEMMA NextInv == LogFits /\ IInv /\ [Next]_vars => IInv'
<1> SUFFICES ASSUME LogFits, IInv, [Next]_vars PROVE IInv'
  OBVIOUS
<1>1. CASE Next
  BY <1>1, TypeStep, CountStep, PlaceStep, NeedsStep, RoomStep, HeaderStep, UpStep,
     CommitStep, BootStep DEF IInv
<1>2. CASE UNCHANGED vars
  BY <1>2 DEF IInv, TypeOK, CountOK, Active, PlaceOK, CommitAlone, NeedsOK, RoomOK,
              Pending, HeaderOK, UpOK, OthersClean, CommitOK, Logged, BootOK, vars,
              diskVars, callVars
<1> QED
  BY <1>1, <1>2

\* The inductive invariant holds in every reachable state.
THEOREM Invariance ==
  ASSUME LogFits
  PROVE  Spec => []IInv
<1>1. Init => IInv
  BY InitInv
<1>2. IInv /\ [Next]_vars => IInv'
  BY NextInv
<1> QED
  BY <1>1, <1>2, PTL DEF Spec

\* What begin_op reserves is enough for calls that keep to it: log_write does
\* not panic and the header does not outgrow the log on the disk, through any
\* interleaving, crashes and recoveries.
THEOREM LogNeverOverflows ==
  ASSUME LogFits
  PROVE  Spec => []LogHolds
<1>1. IInv => LogHolds
  <2> SUFFICES ASSUME IInv PROVE LogHolds
    OBVIOUS
  <2> DEFINE n == Cardinality(Pending)
  <2>1. n \in Nat /\ Size \in Nat /\ Len(lh) \in Nat
    BY PendingFinite, LogAssumption DEF IInv, TypeOK
  <2>2. Room(Len(lh) + n) /\ ~panicked
    BY DEF IInv, RoomOK
  <2> HIDE DEF n
  <2> QED
    BY <2>1, <2>2 DEF LogHolds, Room
<1> QED
  BY <1>1, Invariance, PTL

\* end_op commits only when no call is between begin_op and end_op, and no two
\* calls commit at a time.
THEOREM CommitsAlone ==
  ASSUME LogFits
  PROVE  Spec => []CommitAlone
<1>1. IInv => CommitAlone
  BY DEF IInv, PlaceOK
<1> QED
  BY <1>1, Invariance, PTL

-----------------------------------------------------------------------------
(* Commits are atomic *)

\* The disk d with the blocks of header h installed from the log l.
Installed(d, l, h) ==
  [b \in Blocks |->
     IF b \in Range(h) THEN l[CHOOSE k \in DOMAIN h : h[k] = b] ELSE d[b]]

\* What the file system sees: the cache, or after a crash what the boot will
\* find.
Memory == IF boot = "up" THEN cache ELSE Recovered

\* The empty header installs nothing.
LEMMA InstalledEmpty ==
  ASSUME NEW V, NEW d \in [Blocks -> V], NEW l
  PROVE  Installed(d, l, <<>>) = d
BY RangeEmpty DEF Installed

\* The log and the disk that together hold c install to c.
LEMMA InstalledIs ==
  ASSUME NEW c, NEW d, NEW l, NEW h,
         \A i \in DOMAIN h : l[i] = c[h[i]],
         \A b \in Blocks : b \in Range(h) \/ d[b] = c[b]
  PROVE  Installed(d, l, h) = [b \in Blocks |-> c[b]]
<1>1. ASSUME NEW b \in Blocks
      PROVE  (IF b \in Range(h) THEN l[CHOOSE k \in DOMAIN h : h[k] = b] ELSE d[b]) = c[b]
  <2>1. CASE b \in Range(h)
    <3>1. \E k \in DOMAIN h : h[k] = b
      BY <2>1 DEF Range
    <3> DEFINE k == CHOOSE k \in DOMAIN h : h[k] = b
    <3>2. k \in DOMAIN h /\ h[k] = b
      BY <3>1, Zenon
    <3> HIDE DEF k
    <3>3. l[k] = c[b]
      BY <3>2
    <3> QED
      BY <2>1, <3>3 DEF k
  <2>2. CASE b \notin Range(h)
    BY <2>2
  <2> QED
    BY <2>1, <2>2
<1> QED
  BY <1>1 DEF Installed

\* Installing a block early makes no difference.
LEMMA InstalledEarly ==
  ASSUME NEW d, NEW l, NEW h, NEW k \in DOMAIN h, NEW v
  PROVE  Installed([d EXCEPT ![h[k]] = v], l, h) = Installed(d, l, h)
<1>1. h[k] \in Range(h)
  BY DEF Range
<1>2. ASSUME NEW b \in Blocks, b \notin Range(h)
      PROVE  [d EXCEPT ![h[k]] = v][b] = d[b]
  BY <1>1, <1>2
<1> QED
  BY <1>2 DEF Installed

\* Every step of the log is a step of the atomic disk, or none.
LEMMA AtomicStep ==
  ASSUME IInv, LogFits, Next
  PROVE  [Disk!Next]_<<Memory, Recovered, outstanding>>
<1> USE DEF IInv
<1>0. /\ Recovered = Installed(disk, dlog, dhead)
      /\ Recovered' = Installed(disk', dlog', dhead')
  BY DEF Recovered, Installed
<1>1. ASSUME UNCHANGED <<disk, dlog, dhead>> PROVE Recovered' = Recovered
  BY <1>0, <1>1
<1>2. ASSUME UNCHANGED <<disk, dlog, dhead, cache, boot, outstanding>>
      PROVE  UNCHANGED <<Memory, Recovered, outstanding>>
  BY <1>1, <1>2 DEF Memory
<1>3. ASSUME NEW p \in Ops, BeginOp(p)
      PROVE  Disk!Begin \/ UNCHANGED <<Memory, Recovered, outstanding>>
  BY <1>1, <1>3 DEF BeginOp, diskVars, Disk!Begin, Memory
<1>4. ASSUME NEW p \in Ops, LogWriteTest(p)
      PROVE  Disk!Write
  <2>1. /\ boot = "up" /\ p \in Active
        /\ cache' = [cache EXCEPT ![Head(todo[p])] = p]
        /\ Head(todo[p]) \in Blocks
        /\ UNCHANGED <<diskVars, boot, outstanding>>
    BY <1>4, RangeTail DEF LogWriteTest, At, Active, TypeOK
  <2>2. outstanding > 0
    BY <2>1, ActiveCounted
  <2>3. UNCHANGED Recovered
    BY <1>1, <2>1 DEF diskVars
  <2>4. Memory' = [Memory EXCEPT ![Head(todo[p])] = p]
    BY <2>1 DEF Memory
  <2> QED
    BY <2>1, <2>2, <2>3, <2>4 DEF Disk!Write, Memory
<1>5. ASSUME NEW p \in Ops, EndOp(p)
      PROVE  Disk!End
  <2>1. p \in Active
    BY <1>5 DEF EndOp, At, Active
  <2>2. outstanding > 0
    BY <2>1, ActiveCounted
  <2>3. /\ UNCHANGED <<disk, dlog, dhead, cache, boot>>
        /\ outstanding' = outstanding - 1
    BY <1>5 DEF EndOp, diskVars
  <2>4. UNCHANGED <<Memory, Recovered>>
    BY <1>1, <2>3 DEF Memory
  <2> QED
    BY <2>2, <2>3, <2>4 DEF Disk!End, Memory
<1>6. ASSUME NEW p \in Ops, WriteLog(p)
      PROVE  UNCHANGED <<Memory, Recovered, outstanding>>
  <2>1. boot = "up" /\ pc[p] = "commit" /\ UNCHANGED <<disk, dhead, cache, boot, outstanding>>
    BY <1>6 DEF WriteLog, At
  <2>2. dhead = <<>>
    BY <2>1 DEF UpOK, PlaceOK, CommitAlone, CommitLabels
  <2>3. UNCHANGED Recovered
    BY <1>0, <2>1, <2>2, InstalledEmpty DEF TypeOK
  <2> QED
    BY <2>1, <2>3 DEF Memory
<1>7. ASSUME NEW p \in Ops, WriteHead(p)
      PROVE  Disk!Commit
  <2>1. /\ boot = "up" /\ pc[p] = "commit" /\ tail > Len(lh) /\ dhead' = lh
        /\ UNCHANGED <<disk, dlog, cache, boot, outstanding>>
    BY <1>7 DEF WriteHead, At
  <2>2. \A q \in Ops : pc[q] \notin {"op", "log_add"}
    BY <2>1 DEF PlaceOK, CommitAlone, CommitLabels
  <2>3. outstanding = 0
    <3>1. Active = {}
      BY <2>2 DEF Active
    <3> QED
      BY <3>1, FS_EmptySet DEF CountOK
  <2>4. \A i \in DOMAIN lh : dlog[i] = cache[lh[i]]
    <3>1. \A i \in DOMAIN lh : i < tail
      BY <2>1, Places DEF HeaderOK
    <3> QED
      BY <2>1, <3>1 DEF CommitOK, Logged
  <2>5. \A b \in Blocks : b \in Range(lh) \/ disk[b] = cache[b]
    BY <2>1, <2>2 DEF UpOK, OthersClean
  <2>6. Recovered' = cache
    <3>1. cache = [b \in Blocks |-> cache[b]]
      BY DEF TypeOK
    <3>2. Installed(disk, dlog, lh) = [b \in Blocks |-> cache[b]]
      BY ONLY <2>4, <2>5, InstalledIs DEF Installed
    <3> QED
      BY <1>0, <2>1, <3>1, <3>2
  <2> QED
    BY <2>1, <2>3, <2>6 DEF Disk!Commit, Memory
<1>8. ASSUME NEW p \in Ops, Install(p)
      PROVE  UNCHANGED <<Memory, Recovered, outstanding>>
  <2>1. /\ boot = "up" /\ pc[p] = "install"
        /\ disk' = [disk EXCEPT ![lh[tail]] = dlog[tail]]
        /\ UNCHANGED <<dlog, dhead, boot, outstanding>>
    BY <1>8 DEF Install, At
  <2>2. tail \in DOMAIN lh /\ cache' = cache
    BY <1>8, InstallFacts
  <2>3. dhead = lh
    BY <2>1 DEF CommitOK
  <2>4. UNCHANGED Recovered
    <3>1. Installed([disk EXCEPT ![lh[tail]] = dlog[tail]], dlog, lh)
            = Installed(disk, dlog, lh)
      <4> HIDE DEF IInv
      <4>1. tail \in DOMAIN lh
        BY <2>2
      <4> QED
        BY ONLY <4>1, InstalledEarly DEF Installed
    <3> QED
      BY <1>0, <2>1, <2>3, <3>1
  <2> QED
    BY <2>1, <2>2, <2>4 DEF Memory
<1>9. ASSUME NEW p \in Ops, ClearHead(p)
      PROVE  UNCHANGED <<Memory, Recovered, outstanding>>
  <2>1. /\ boot = "up" /\ pc[p] = "clear" /\ dhead' = lh
        /\ UNCHANGED <<disk, dlog, cache, boot, outstanding>>
    BY <1>9 DEF ClearHead, At
  <2>2. lh = <<>> /\ \A i \in DOMAIN dhead : dlog[i] = cache[dhead[i]]
    BY <2>1 DEF CommitOK
  <2>3. \A b \in Blocks : disk[b] = cache[b]
    BY <2>1, <2>2, RangeEmpty DEF UpOK, OthersClean, PlaceOK, CommitAlone, CommitLabels
  <2>4. Recovered = cache
    <3>1. cache = [b \in Blocks |-> cache[b]]
      BY DEF TypeOK
    <3>2. Installed(disk, dlog, dhead) = [b \in Blocks |-> cache[b]]
      BY ONLY <2>2, <2>3, InstalledIs DEF Installed
    <3> QED
      BY <1>0, <3>1, <3>2
  <2>5. Recovered' = disk
    BY <1>0, <2>1, <2>2, InstalledEmpty DEF TypeOK
  <2>6. disk = cache
    BY <2>3 DEF TypeOK
  <2> QED
    BY <2>1, <2>4, <2>5, <2>6 DEF Memory
<1>10. ASSUME Crash PROVE Disk!Crash
  <2>1. UNCHANGED <<disk, dlog, dhead>> /\ boot' = "read_head" /\ outstanding' = 0
    BY <1>10 DEF Crash, diskVars
  <2> QED
    BY <1>1, <2>1 DEF Disk!Crash, Memory
<1>11. ASSUME ReadHead PROVE UNCHANGED <<Memory, Recovered, outstanding>>
  <2>1. /\ UNCHANGED <<disk, dlog, dhead, cache, outstanding>>
        /\ boot = "read_head" /\ boot' = "install"
    BY <1>11 DEF ReadHead, diskVars
  <2> QED
    BY <1>1, <2>1 DEF Memory
<1>12. ASSUME Recover PROVE UNCHANGED <<Memory, Recovered, outstanding>>
  <2>1. /\ boot = "install" /\ tail <= Len(lh)
        /\ disk' = [disk EXCEPT ![lh[tail]] = dlog[tail]]
        /\ UNCHANGED <<dlog, dhead, boot, outstanding>>
    BY <1>12 DEF Recover
  <2>2. tail \in DOMAIN lh /\ lh = dhead
    BY <2>1, Places DEF HeaderOK, BootOK
  <2>3. UNCHANGED Recovered
    <3>1. Installed([disk EXCEPT ![lh[tail]] = dlog[tail]], dlog, lh)
            = Installed(disk, dlog, lh)
      <4> HIDE DEF IInv
      <4>1. tail \in DOMAIN lh
        BY <2>2
      <4> QED
        BY ONLY <4>1, InstalledEarly DEF Installed
    <3> QED
      BY <1>0, <2>1, <2>2, <3>1
  <2> QED
    BY <2>1, <2>3 DEF Memory
<1>13. ASSUME RecoverEnd PROVE UNCHANGED <<Memory, Recovered, outstanding>>
  <2>1. /\ boot = "install" /\ tail > Len(lh) /\ boot' = "up"
        /\ dhead' = <<>> /\ cache' = disk
        /\ UNCHANGED <<disk, dlog, outstanding>>
    BY <1>13 DEF RecoverEnd
  <2>2. lh = dhead /\ \A i \in DOMAIN lh : i < tail
    BY <2>1, Places DEF HeaderOK, BootOK
  <2>3. \A i \in DOMAIN dhead : dlog[i] = disk[dhead[i]]
    BY <2>1, <2>2 DEF BootOK, Logged
  <2>4. Recovered = disk
    <3>1. disk = [b \in Blocks |-> disk[b]]
      BY DEF TypeOK
    <3>2. Installed(disk, dlog, dhead) = [b \in Blocks |-> disk[b]]
      BY ONLY <2>3, InstalledIs DEF Installed
    <3> QED
      BY <1>0, <3>1, <3>2
  <2>5. Recovered' = disk
    BY <1>0, <2>1, InstalledEmpty DEF TypeOK
  <2> QED
    BY <2>1, <2>4, <2>5 DEF Memory
<1>14. ASSUME NEW p \in Ops,
              Call(p) \/ LogWriteAdd(p) \/ InstallEnd(p) \/ CommitEmpty(p) \/ Finish(p)
       PROVE  UNCHANGED <<Memory, Recovered, outstanding>>
  BY <1>2, <1>14 DEF Call, LogWriteAdd, InstallEnd, CommitEmpty, Finish, diskVars
<1> DEFINE Stutter == UNCHANGED <<Memory, Recovered, outstanding>>
<1>15. Disk!Next \/ Stutter
  <2> HIDE DEF Stutter
  <2>1. ASSUME NEW p \in Ops, Call(p) \/ CallStep(p)
        PROVE  Disk!Next \/ Stutter
    BY <1>3, <1>4, <1>5, <1>6, <1>7, <1>8, <1>9, <1>14, <2>1 DEF CallStep, Disk!Next, Stutter
  <2>2. CASE Boot \/ Crash
    BY <1>10, <1>11, <1>12, <1>13, <2>2 DEF Boot, Disk!Next, Stutter
  <2> QED
    BY <2>1, <2>2 DEF Next
<1> QED
  BY <1>15

\* The log implements a disk that takes over all that was written or nothing of
\* it: whenever the machine stops, a boot finds the writes of every call up to
\* some commit and of no other.
THEOREM CommitsAtomic ==
  ASSUME LogFits
  PROVE  Spec => ImplementsAtomicDisk
<1>1. Init => Disk!Init
  <2> SUFFICES ASSUME Init
               PROVE  Memory = [b \in Blocks |-> Blank] /\ Recovered = Memory
    BY DEF Disk!Init, Memory, Init
  <2>1. disk \in [Blocks -> {Blank}] /\ dhead = <<>>
    BY DEF Init
  <2>2. Recovered = Installed(disk, dlog, dhead)
    BY DEF Recovered, Installed
  <2>3. Recovered = disk
    BY <2>1, <2>2, InstalledEmpty
  <2> QED
    BY <2>3 DEF Init, Memory
<1>2. IInv /\ [Next]_vars => [Disk!Next]_<<Memory, Recovered, outstanding>>
  <2>1. IInv /\ Next => [Disk!Next]_<<Memory, Recovered, outstanding>>
    BY AtomicStep
  <2>2. UNCHANGED vars => UNCHANGED <<Memory, Recovered, outstanding>>
    BY DEF vars, diskVars, Memory, Recovered
  <2> QED
    BY <2>1, <2>2
<1> QED
  BY <1>1, <1>2, Invariance, PTL DEF Spec, ImplementsAtomicDisk, Disk!Spec, Memory

=============================================================================
