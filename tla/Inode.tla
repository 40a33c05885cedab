------------------------------- MODULE Inode -------------------------------
(* The on-disk file system of fs.c and its inode cache, as operators on one  *)
(* record                                                                    *)
(*   fs.dinode  the disk inodes            fs.used  the bitmap of blocks     *)
(*   fs.cell    what a block holds         fs.ptr   the same block, read as  *)
(*   fs.cache   icache.inode[]                      an indirect block        *)
(*   fs.panic   the kernel has panicked                                      *)
(* A block holds one cell: a directory entry <<inum, name>>, a datum <<x>>,  *)
(* or <<>>, what bzero leaves.  Sizes and offsets count cells.  The buffers  *)
(* the code reads and writes between two lock operations are protected by    *)
(* the inode's sleep lock, so each operator is one atomic change.            *)
EXTENDS Integers, Sequences, FiniteSets, SequencesExt, FiniteSetsExt

CONSTANTS NInodes,    \* sb.ninodes: inodes 1 .. NInodes-1
          NBlocks,    \* data blocks 1 .. NBlocks
          NDirect, NIndirect,    \* NDIRECT, NINDIRECT
          NCache      \* NINODE: slots of the inode cache

ASSUME InodeAssumption ==
  /\ {NInodes, NBlocks, NDirect, NIndirect, NCache} \subseteq Nat \ {0}

Inums   == 1..NInodes - 1
Blocks  == 1..NBlocks
Slots   == 1..NCache
MaxFile == NDirect + NIndirect
RootIno == 1

FreeInode == [type |-> "none", major |-> 0, nlink |-> 0, size |-> 0,
              addrs |-> [i \in 0..NDirect |-> 0]]
FreeSlot  == [inum |-> 0, ref |-> 0, valid |-> FALSE, lock |-> 0, d |-> FreeInode]

Panic(fs, why) == IF fs.panic = "no" THEN [fs EXCEPT !.panic = why] ELSE fs

(* --- blocks ------------------------------------------------------------- *)

FreeBlock(fs) == IF fs.used = Blocks THEN 1 ELSE Min(Blocks \ fs.used)

Balloc(fs) ==
  IF fs.used = Blocks THEN Panic(fs, "balloc: out of blocks")
  ELSE LET b == FreeBlock(fs)
       IN  [fs EXCEPT !.used = @ \union {b}, !.cell[b] = <<>>,
                      !.ptr[b] = [j \in 0..NIndirect-1 |-> 0]]

Bfree(fs, bs) ==
  IF bs \subseteq fs.used THEN [fs EXCEPT !.used = @ \ bs]
  ELSE Panic(fs, "freeing free block")

(* --- inodes; s is the slot of the cache the code's ip points to ----------*)

InodeOf(fs, s) == fs.cache[s].d

Iupdate(fs, s) == [fs EXCEPT !.dinode[fs.cache[s].inum] = fs.cache[s].d]

\* iget: the slot that caches inum, or else the first empty one, recycled.
Cached(fs, inum) == {s \in Slots : fs.cache[s].ref > 0 /\ fs.cache[s].inum = inum}
Empty(fs)        == {s \in Slots : fs.cache[s].ref = 0}
SlotFor(fs, inum) == IF Cached(fs, inum) # {} THEN Min(Cached(fs, inum))
                     ELSE IF Empty(fs) # {} THEN Min(Empty(fs)) ELSE 1
Iget(fs, inum) ==
  LET s == SlotFor(fs, inum)
  IN  IF Cached(fs, inum) # {} THEN [fs EXCEPT !.cache[s].ref = @ + 1]
      ELSE IF Empty(fs) = {} THEN Panic(fs, "iget: no inodes")
      ELSE [fs EXCEPT !.cache[s] = [@ EXCEPT !.inum = inum, !.ref = 1, !.valid = FALSE]]

Idup(fs, s) == [fs EXCEPT !.cache[s].ref = @ + 1]

\* The end of ilock: the inode is read when the slot does not hold it yet.
Iload(fs, s) ==
  IF fs.cache[s].valid THEN fs
  ELSE LET d == fs.dinode[fs.cache[s].inum]
           g == [fs EXCEPT !.cache[s].d = d, !.cache[s].valid = TRUE]
       IN  IF d.type = "none" THEN Panic(g, "ilock: no type") ELSE g

FreeInums(fs) == {i \in Inums : fs.dinode[i].type = "none"}
NextInum(fs)  == IF FreeInums(fs) = {} THEN RootIno ELSE Min(FreeInums(fs))
Ialloc(fs, type) ==
  IF FreeInums(fs) = {} THEN Panic(fs, "ialloc: no inodes")
  ELSE [fs EXCEPT !.dinode[NextInum(fs)] = [FreeInode EXCEPT !.type = type]]

(* --- content ------------------------------------------------------------- *)

Addr(fs, s, bn) ==
  LET a == InodeOf(fs, s).addrs
  IN  IF bn < NDirect THEN a[bn]
      ELSE IF a[NDirect] = 0 THEN 0 ELSE fs.ptr[a[NDirect]][bn - NDirect]

\* Every block of an inode, the indirect one too.
BlocksOf(fs, d) ==
  ({d.addrs[i] : i \in 0..NDirect}
     \union (IF d.addrs[NDirect] = 0 THEN {}
             ELSE {fs.ptr[d.addrs[NDirect]][j] : j \in 0..NIndirect-1})) \ {0}

WithIndirect(fs, s) ==
  IF InodeOf(fs, s).addrs[NDirect] # 0 THEN fs
  ELSE [Balloc(fs) EXCEPT !.cache[s].d.addrs[NDirect] = FreeBlock(fs)]

Bmap(fs, s, bn) ==
  IF Addr(fs, s, bn) # 0 THEN fs
  ELSE IF bn < NDirect
    THEN [Balloc(fs) EXCEPT !.cache[s].d.addrs[bn] = FreeBlock(fs)]
    ELSE LET g == WithIndirect(fs, s)
         IN  [Balloc(g) EXCEPT
                !.ptr[InodeOf(g, s).addrs[NDirect]][bn - NDirect] = FreeBlock(g)]

Itrunc(fs, s) ==
  LET g == Bfree(fs, BlocksOf(fs, InodeOf(fs, s)))
  IN  Iupdate([g EXCEPT !.cache[s].d.size = 0,
                        !.cache[s].d.addrs = [i \in 0..NDirect |-> 0]], s)

CanWrite(fs, s, off, n) == off <= InodeOf(fs, s).size /\ off + n <= MaxFile

Writei(fs, s, off, data) ==
  LET put(g, i) == LET h == Bmap(g, s, off + i - 1)
                   IN  [h EXCEPT !.cell[Addr(h, s, off + i - 1)] = data[i]]
      w   == FoldLeft(put, fs, [i \in 1..Len(data) |-> i])
      end == off + Len(data)
  IN  IF end > InodeOf(fs, s).size
      THEN Iupdate([w EXCEPT !.cache[s].d.size = end], s) ELSE w

Readi(fs, s, off, n) ==
  LET last == IF off + n > InodeOf(fs, s).size THEN InodeOf(fs, s).size ELSE off + n
  IN  [i \in 1..last - off |-> fs.cell[Addr(fs, s, off + i - 1)]]

(* --- directories --------------------------------------------------------- *)

Entries(fs, s) == Readi(fs, s, 0, InodeOf(fs, s).size)

\* Positions, from 1, of the live entries and of those with this name.
Live(es)        == {i \in DOMAIN es : es[i][1] # 0}
Named(es, name) == {i \in Live(es) : es[i][2] = name}

Dirlookup(fs, s, name) ==
  LET es == Entries(fs, s)
  IN  IF Named(es, name) = {} THEN 0 ELSE es[Min(Named(es, name))][1]

\* The loop of dirlink: the first free entry, or the end of the directory.
Dirlink(fs, s, name, inum) ==
  LET es   == Entries(fs, s)
      free == DOMAIN es \ Live(es)
      off  == IF free = {} THEN Len(es) ELSE Min(free) - 1
  IN  IF CanWrite(fs, s, off, 1) THEN Writei(fs, s, off, << <<inum, name>> >>)
      ELSE Panic(fs, "dirlink")

IsDirEmpty(fs, s) == Live(Entries(fs, s)) \subseteq {1, 2}

\* The body of iput, under the inode's lock: the last pointer to an inode
\* that no entry names frees it.
\* Mutant: the references are counted as if this one had been dropped already.
IputFree_RefZero(fs, s) ==
  IF fs.cache[s].valid /\ InodeOf(fs, s).nlink = 0 /\ fs.cache[s].ref = 0
  THEN [Iupdate([Itrunc(fs, s) EXCEPT !.cache[s].d.type = "none"], s)
          EXCEPT !.cache[s].valid = FALSE]
  ELSE fs
IputFree(fs, s) ==
  IF fs.cache[s].valid /\ InodeOf(fs, s).nlink = 0 /\ fs.cache[s].ref = 1
  THEN [Iupdate([Itrunc(fs, s) EXCEPT !.cache[s].d.type = "none"], s)
          EXCEPT !.cache[s].valid = FALSE]
  ELSE fs

(* --- the image mkfs builds ----------------------------------------------- *)

EmptyFs == [dinode |-> [i \in Inums |-> FreeInode],
            used   |-> {},
            cell   |-> [b \in Blocks |-> <<>>],
            ptr    |-> [b \in Blocks |-> [j \in 0..NIndirect-1 |-> 0]],
            cache  |-> [s \in Slots |-> FreeSlot],
            panic  |-> "no"]

\* iappend: a write at the end of inode inum, by the same block allocation.
Iappend(fs, inum, cells) ==
  LET g == [fs EXCEPT !.cache[1] = [@ EXCEPT !.inum = inum, !.d = fs.dinode[inum]]]
  IN  [Writei(g, 1, g.cache[1].d.size, cells) EXCEPT !.cache[1] = FreeSlot]

\* The image: a root directory, and one file per name, numbered in order.  The
\* size of the root is rounded up, which leaves a free entry at its end.
MkIalloc(fs, type) == [Ialloc(fs, type) EXCEPT !.dinode[NextInum(fs)].nlink = 1]
Mkfs(files) ==
  LET root == Iappend(MkIalloc(EmptyFs, "DIR"), RootIno,
                      << <<RootIno, ".">>, <<RootIno, "..">> >>)
      add(fs, i) == LET g == Iappend(MkIalloc(fs, "FILE"), RootIno, << <<i + 1, files[i]>> >>)
                    IN  Iappend(g, i + 1, << <<files[i]>> >>)
  IN  Iappend(FoldLeft(add, root, [i \in 1..Len(files) |-> i]), RootIno, << <<0, "">> >>)
=============================================================================
