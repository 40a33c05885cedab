------------------------------- MODULE Files -------------------------------
(* The file system calls of sysfile.c, file.c and fs.c, made by processes     *)
(* that run concurrently.  A step is what a call does from one sleep lock it  *)
(* may wait for to the next: ilock, and the acquiresleep of iput.  iput takes *)
(* two steps: it tests the inode under its lock, then it drops the reference  *)
(* under icache.lock.  A process is a script of calls with the results its    *)
(* program expects.                                                           *)
EXTENDS Inode, TLC

CONSTANTS NProc,     \* processes 1 .. NProc
          NFile,     \* NFILE: slots of the open-file table
          NOFile,    \* NOFILE: descriptors of one process
          MaxWrite,  \* cells one transaction of filewrite may write
          Tests,     \* a function from the name of a program to its script
          ImageFiles \* the files mkfs put in the root directory

ASSUME FilesAssumption == {NProc, NFile, NOFile, MaxWrite} \subseteq Nat \ {0}

VARIABLES fs,        \* the disk and the inode cache
          ftable,    \* ftable.file[]
          proc,      \* what each process is doing
          test       \* the program that runs
vars == <<fs, ftable, proc, test>>

Procs == 1..NProc
Fds   == 0..NOFile-1
NoFile == [ref |-> 0, type |-> "none", ip |-> 0, off |-> 0, r |-> FALSE, w |-> FALSE]

\* The locals of a call: ip, dp (slots of the cache), the path still to walk,
\* where the walk leads, the last name, the references to drop and what
\* follows, and filewrite's i.
NoLocals == [pc |-> "user", tx |-> FALSE, ip |-> 0, dp |-> 0, path |-> <<>>,
             goal |-> "", name |-> "", puts |-> <<>>, then |-> "", i |-> 0]
NoProc == NoLocals @@ [state |-> "unused", parent |-> 0, script |-> <<>>, cwd |-> 0,
                       ofile |-> [fd \in Fds |-> 0], bad |-> FALSE]

Init ==
  /\ test \in DOMAIN Tests
  /\ fs = Iget(Mkfs(ImageFiles), RootIno)
  /\ ftable = [f \in 1..NFile |-> NoFile]
  /\ proc = [p \in Procs |->
               IF p = 1 THEN [NoProc EXCEPT !.state = "runs", !.script = Tests[test],
                                            !.cwd = 1] ELSE NoProc]

(* --- helpers ------------------------------------------------------------- *)

At(p, pc)    == proc[p].state = "runs" /\ proc[p].pc = pc
Op(p)        == Head(proc[p].script)
Calls(p, op) == At(p, "user") /\ proc[p].script # <<>> /\ Op(p).op = op

Set(p, r)  == proc' = [proc EXCEPT ![p] = r @@ @]
InTx       == \E p \in Procs : proc[p].tx

\* log_write panics outside a transaction.
Disk(g) == <<g.dinode, g.used, g.cell, g.ptr>>
Does(g) == fs' = IF InTx \/ Disk(g) = Disk(fs) THEN g ELSE Panic(g, "log_write")

\* The call returns, after its end_op.
Returned(p, res) ==
  NoLocals @@ [script |-> Tail(proc[p].script), bad |-> proc[p].bad \/ res \notin Op(p).want]
Return(p, res) == Set(p, Returned(p, res))

\* Drop the references in slots, in order, then go on at pc then.
Puts(p, slots, then) == [puts |-> slots, then |-> then, pc |-> "put"]

Free(s)       == fs.cache[s].lock = 0
Lock(p, s, g) == [g EXCEPT !.cache[s].lock = p]
Unlock(s, g)  == [g EXCEPT !.cache[s].lock = 0]
\* What ilock leaves when it got the lock of s.
Locked(p, s)  == Lock(p, s, Iload(fs, s))

FreeFds(p) == {fd \in Fds : proc[p].ofile[fd] = 0}
FreeFiles  == {f \in 1..NFile : ftable[f].ref = 0}
FileAt(p)  == IF Op(p).fd \in Fds THEN proc[p].ofile[Op(p).fd] ELSE 0

(* --- iput ---------------------------------------------------------------- *)

Iput(p) ==
  LET s == Head(proc[p].puts) IN
  /\ At(p, "put") /\ Free(s)
  /\ Does(IputFree(fs, s))
  /\ Set(p, [pc |-> "drop"])
  /\ UNCHANGED <<ftable, test>>

Drop(p) ==
  LET rest == Tail(proc[p].puts)
      then == proc[p].then IN
  /\ At(p, "drop")
  /\ fs' = [fs EXCEPT !.cache[Head(proc[p].puts)].ref = @ - 1]
  /\ IF rest # <<>> THEN Set(p, [puts |-> rest, pc |-> "put"])
     ELSE IF then \in {"ok", "fail"} THEN Return(p, then)
     ELSE Set(p, [puts |-> <<>>, then |-> "", pc |-> then,
                  tx |-> then \notin {"exit", "exited"}])
  /\ UNCHANGED <<ftable, test>>

(* --- namex --------------------------------------------------------------- *)

\* Mutant: the components of a path are compared in full.
DirSiz_Whole(name) == name
\* skipelem keeps DIRSIZ bytes of a component: this is the one longer name used.
DirSiz(name) == IF name = "fifteen" THEN "fourteen" ELSE name

Parent(goal) == goal \in {"create", "mkdir", "mknod", "unlink", "link2"}

\* The start of namex, towards a goal.
StartWalk(p, path, goal, more) ==
  LET abs == path # <<>> /\ Head(path) = "/"
      g   == IF abs THEN Iget(fs, RootIno) ELSE Idup(fs, proc[p].cwd)
  IN  /\ fs' = g
      /\ Set(p, [tx |-> TRUE, pc |-> "walk", goal |-> goal,
                 dp |-> IF abs THEN SlotFor(fs, RootIno) ELSE proc[p].cwd,
                 path |-> IF abs THEN Tail(path) ELSE path] @@ more)

\* begin_op and the start of the walk, for every call that takes a path.
PathCalls == {"open", "create", "mkdir", "mknod", "unlink", "link", "chdir", "exec"}
Begin(p) ==
  /\ \E op \in PathCalls : Calls(p, op)
  /\ StartWalk(p, Op(p).path, Op(p).op, <<>>)
  /\ UNCHANGED <<ftable, test>>

\* namex returns 0, after an iput of dp.
Lost(p) == Puts(p, <<proc[p].dp>>, IF proc[p].goal = "link2" THEN "undo" ELSE "fail")

\* The end of the path: namei has its inode, nameiparent never comes here.
WalkEnd(p) ==
  /\ At(p, "walk") /\ proc[p].path = <<>>
  /\ IF Parent(proc[p].goal) THEN Set(p, Lost(p))
     ELSE Set(p, [pc |-> proc[p].goal, ip |-> proc[p].dp, dp |-> 0])
  /\ UNCHANGED <<fs, ftable, test>>

\* One component, under the lock of the directory it is looked up in.
WalkStep(p) ==
  LET me   == proc[p]
      s    == me.dp
      g    == Iload(fs, s)
      isdir == InodeOf(g, s).type = "DIR"
      name == DirSiz(Head(me.path))
      inum == Dirlookup(g, s, name) IN
  /\ At(p, "walk") /\ me.path # <<>> /\ Free(s)
  /\ \/ /\ ~isdir
        /\ Does(g) /\ Set(p, Lost(p))
     \/ /\ isdir /\ Parent(me.goal) /\ Len(me.path) = 1
        /\ Does(g) /\ Set(p, [pc |-> me.goal, name |-> name, path |-> <<>>])
     \/ /\ isdir /\ ~(Parent(me.goal) /\ Len(me.path) = 1) /\ inum = 0
        /\ Does(g) /\ Set(p, Lost(p))
     \/ /\ isdir /\ ~(Parent(me.goal) /\ Len(me.path) = 1) /\ inum # 0
        /\ Does(Iget(g, inum))
        /\ Set(p, Puts(p, <<s>>, "walk") @@
                  [dp |-> SlotFor(g, inum), path |-> Tail(me.path)])
  /\ UNCHANGED <<ftable, test>>

(* --- create and open ------------------------------------------------------ *)

Type(op) == CASE op = "create" -> "FILE" [] op = "mkdir" -> "DIR" [] op = "mknod" -> "DEV"

\* create with the parent locked: the name is there, ip is locked later ...
CreateFound(p) ==
  LET s == proc[p].dp  g == Iload(fs, s)  inum == Dirlookup(g, s, proc[p].name) IN
  /\ \E op \in {"create", "mkdir", "mknod"} : At(p, op)
  /\ Free(s) /\ inum # 0
  /\ Does(Iget(g, inum))
  /\ Set(p, Puts(p, <<s>>, "found") @@ [ip |-> SlotFor(g, inum), dp |-> 0])
  /\ UNCHANGED <<ftable, test>>

\* ... or a new inode is linked into the parent; it stays locked while the
\* parent is unlocked and put.
NewInode(g, type, major, s, dp) ==
  LET h == Iupdate([g EXCEPT !.cache[s].d.nlink = 1, !.cache[s].d.major = major], s)
  IN  IF type # "DIR" THEN h
      ELSE Dirlink(Dirlink(Iupdate([h EXCEPT !.cache[dp].d.nlink = @ + 1], dp),
                           s, ".", h.cache[s].inum), s, "..", h.cache[dp].inum)
CreateNew(p) ==
  LET dp   == proc[p].dp
      g    == Iload(fs, dp)
      type == Type(proc[p].goal)
      inum == NextInum(g)
      h    == Iget(Ialloc(g, type), inum)
      s    == SlotFor(g, inum)
      made == Dirlink(NewInode(Iload(h, s), type, Op(p).major, s, dp), dp, proc[p].name, inum) IN
  /\ \E op \in {"create", "mkdir", "mknod"} : At(p, op)
  /\ Free(dp) /\ Dirlookup(g, dp, proc[p].name) = 0
  /\ Free(s)
  /\ Does(Lock(p, s, made))
  /\ Set(p, Puts(p, <<dp>>, IF type = "FILE" THEN "opened" ELSE "made") @@
            [ip |-> s, dp |-> 0])
  /\ UNCHANGED <<ftable, test>>

\* sys_mkdir and sys_mknod: iunlockput.
Made(p) ==
  /\ At(p, "made")
  /\ fs' = Unlock(proc[p].ip, fs)
  /\ Set(p, Puts(p, <<proc[p].ip>>, "ok"))
  /\ UNCHANGED <<ftable, test>>

\* The end of sys_open with ip locked: a file and a descriptor, or neither.
\* Mutant: when there is no descriptor left, ip is unlocked but not put.
OpenTail_NoPut(p, g) ==
  LET s == proc[p].ip  f == Min(FreeFiles)  mode == Op(p).mode IN
  IF FreeFiles = {} \/ FreeFds(p) = {}
  THEN Does(Unlock(s, g)) /\ Return(p, "fail") /\ UNCHANGED ftable
  ELSE /\ Does(Unlock(s, g))
       /\ ftable' = [ftable EXCEPT ![f] = [ref |-> 1, type |-> "inode", ip |-> s, off |-> 0,
                                           r |-> mode # "w", w |-> mode # "r"]]
       /\ Set(p, Returned(p, "ok") @@ [ofile |-> [proc[p].ofile EXCEPT ![Min(FreeFds(p))] = f]])
OpenTail(p, g) ==
  LET s == proc[p].ip  f == Min(FreeFiles)  mode == Op(p).mode IN
  IF FreeFiles = {} \/ FreeFds(p) = {}
  THEN Does(Unlock(s, g)) /\ Set(p, Puts(p, <<s>>, "fail")) /\ UNCHANGED ftable
  ELSE /\ Does(Unlock(s, g))
       /\ ftable' = [ftable EXCEPT ![f] = [ref |-> 1, type |-> "inode", ip |-> s, off |-> 0,
                                           r |-> mode # "w", w |-> mode # "r"]]
       /\ Set(p, Returned(p, "ok") @@ [ofile |-> [proc[p].ofile EXCEPT ![Min(FreeFds(p))] = f]])

Opened(p) == At(p, "opened") /\ OpenTail(p, fs) /\ UNCHANGED test

\* create found the name: only a file may be opened with O_CREATE.
OpenFound(p) ==
  LET s == proc[p].ip  g == Iload(fs, s) IN
  /\ At(p, "found") /\ Free(s)
  /\ IF Op(p).op = "create" /\ InodeOf(g, s).type = "FILE" THEN OpenTail(p, g)
     ELSE Does(g) /\ Set(p, Puts(p, <<s>>, "fail")) /\ UNCHANGED ftable
  /\ UNCHANGED test

Open(p) ==
  LET s == proc[p].ip  g == Iload(fs, s) IN
  /\ At(p, "open") /\ Free(s)
  /\ IF InodeOf(g, s).type = "DIR" /\ Op(p).mode # "r"
     THEN Does(g) /\ Set(p, Puts(p, <<s>>, "fail")) /\ UNCHANGED ftable
     ELSE OpenTail(p, g)
  /\ UNCHANGED test

(* --- unlink -------------------------------------------------------------- *)

\* With the parent locked; it stays locked while ip is waited for.
Unlink(p) ==
  LET s == proc[p].dp  g == Iload(fs, s)  name == proc[p].name
      inum == IF name \in {".", ".."} THEN 0 ELSE Dirlookup(g, s, name) IN
  /\ At(p, "unlink") /\ Free(s)
  /\ IF inum = 0 THEN Does(g) /\ Set(p, Puts(p, <<s>>, "fail"))
     ELSE /\ Does(Lock(p, s, Iget(g, inum)))
          /\ Set(p, [pc |-> "unlink2", ip |-> SlotFor(g, inum)])
  /\ UNCHANGED <<ftable, test>>

\* The entry is erased under both locks; then the parent is unlocked and put
\* with ip still locked.
\* Mutant: the link that the removed directory's ".." made stays counted.
UnlinkEntry_KeepsLink(g, s, dp, name) ==
  Writei(g, dp, Min(Named(Entries(g, dp), name)) - 1, << <<0, "">> >>)
UnlinkEntry(g, s, dp, name) ==
  LET off == Min(Named(Entries(g, dp), name)) - 1
      h   == Writei(g, dp, off, << <<0, "">> >>)
  IN  IF InodeOf(g, s).type = "DIR" THEN Iupdate([h EXCEPT !.cache[dp].d.nlink = @ - 1], dp) ELSE h
UnlinkIt(p) ==
  LET s == proc[p].ip  dp == proc[p].dp  g == Iload(fs, s)
      busy == InodeOf(g, s).type = "DIR" /\ ~IsDirEmpty(g, s) IN
  /\ At(p, "unlink2") /\ Free(s)
  /\ \/ /\ InodeOf(g, s).nlink < 1
        /\ Does(Panic(g, "unlink: nlink < 1")) /\ UNCHANGED proc
     \/ /\ InodeOf(g, s).nlink >= 1 /\ busy
        /\ Does(g) /\ Set(p, Puts(p, <<s>>, "unlockdp") @@ [ip |-> 0])
     \/ /\ InodeOf(g, s).nlink >= 1 /\ ~busy
        /\ Does(Unlock(dp, Lock(p, s, UnlinkEntry(g, s, dp, proc[p].name))))
        /\ Set(p, Puts(p, <<dp>>, "unlink3") @@ [dp |-> 0])
  /\ UNCHANGED <<ftable, test>>

UnlinkDone(p) ==
  LET s == proc[p].ip IN
  /\ At(p, "unlink3")
  /\ Does(Unlock(s, Iupdate([fs EXCEPT !.cache[s].d.nlink = @ - 1], s)))
  /\ Set(p, Puts(p, <<s>>, "ok"))
  /\ UNCHANGED <<ftable, test>>

\* The bad: label, and the failed dirlink of sys_link: iunlockput(dp).
UnlockDp(p) ==
  LET s == proc[p].dp IN
  /\ At(p, "unlockdp")
  /\ fs' = Unlock(s, fs)
  /\ Set(p, Lost(p))
  /\ UNCHANGED <<ftable, test>>

(* --- link ----------------------------------------------------------------- *)

\* nlink is raised before the new entry exists, so that a crash or an unlink
\* of the old name in between does not free the inode.
\* Mutant: ip stays locked while the new name is looked up.
Link_KeepsLock(p) ==
  LET s == proc[p].ip  g == Iload(fs, s) IN
  /\ At(p, "link") /\ Free(s)
  /\ IF InodeOf(g, s).type = "DIR"
     THEN Does(g) /\ Set(p, Puts(p, <<s>>, "fail"))
     ELSE /\ Does(Lock(p, s, Iupdate([g EXCEPT !.cache[s].d.nlink = @ + 1], s)))
          /\ Set(p, [pc |-> "link1"])
  /\ UNCHANGED <<ftable, test>>
Link(p) ==
  LET s == proc[p].ip  g == Iload(fs, s) IN
  /\ At(p, "link") /\ Free(s)
  /\ IF InodeOf(g, s).type = "DIR"
     THEN Does(g) /\ Set(p, Puts(p, <<s>>, "fail"))
     ELSE /\ Does(Iupdate([g EXCEPT !.cache[s].d.nlink = @ + 1], s))
          /\ Set(p, [pc |-> "link1"])
  /\ UNCHANGED <<ftable, test>>

LinkNew(p) == /\ At(p, "link1")
              /\ StartWalk(p, Op(p).new, "link2", <<>>)
              /\ UNCHANGED <<ftable, test>>

LinkEntry(p) ==
  LET s == proc[p].ip  dp == proc[p].dp  g == Iload(fs, dp)
      name == proc[p].name  old == Dirlookup(g, dp, name) IN
  /\ At(p, "link2") /\ Free(dp)
  /\ IF old = 0
     THEN /\ Does(Dirlink(g, dp, name, fs.cache[s].inum))
          /\ Set(p, Puts(p, <<dp, s>>, "ok"))
     ELSE /\ Does(Lock(p, dp, Iget(g, old)))
          /\ Set(p, Puts(p, <<SlotFor(g, old)>>, "unlockdp"))
  /\ UNCHANGED <<ftable, test>>

LinkUndo(p) ==
  LET s == proc[p].ip  g == Iload(fs, s) IN
  /\ At(p, "undo") /\ Free(s)
  /\ Does(Iupdate([g EXCEPT !.cache[s].d.nlink = @ - 1], s))
  /\ Set(p, Puts(p, <<s>>, "fail"))
  /\ UNCHANGED <<ftable, test>>

(* --- chdir and exec -------------------------------------------------------- *)

Chdir(p) ==
  LET s == proc[p].ip  g == Iload(fs, s) IN
  /\ At(p, "chdir") /\ Free(s)
  /\ Does(g)
  /\ IF InodeOf(g, s).type # "DIR" THEN Set(p, Puts(p, <<s>>, "fail"))
     ELSE Set(p, Puts(p, <<proc[p].cwd>>, "ok") @@ [cwd |-> s])
  /\ UNCHANGED <<ftable, test>>

\* exec reads the program under the inode's lock and puts the inode in the
\* same transaction; it goes on only when the arguments fit.  What it then
\* runs is a program that exits.
Exec(p) ==
  LET s == proc[p].ip  g == Iload(fs, s)  fits == InodeOf(g, s).type = "FILE" /\ Op(p).fits IN
  /\ At(p, "exec") /\ Free(s)
  /\ Does(g)
  /\ Set(p, Puts(p, <<s>>, IF fits THEN "exit" ELSE "fail"))
  /\ UNCHANGED <<ftable, test>>

(* --- open files ------------------------------------------------------------ *)

\* fileclose of what fd refers to, then on to pc then; the last close puts ip.
CloseFd(p, fd, then) ==
  LET f == proc[p].ofile[fd]
      of == [ofile |-> [proc[p].ofile EXCEPT ![fd] = 0]] IN
  IF ftable[f].ref > 1
  THEN /\ ftable' = [ftable EXCEPT ![f].ref = @ - 1]
       /\ Set(p, (IF then = "ok" THEN Returned(p, "ok") ELSE [pc |-> then]) @@ of)
  ELSE /\ ftable' = [ftable EXCEPT ![f] = NoFile]
       /\ Set(p, Puts(p, <<ftable[f].ip>>, then) @@ [tx |-> TRUE] @@ of)

Close(p) ==
  /\ Calls(p, "close")
  /\ IF FileAt(p) = 0 THEN Return(p, "fail") /\ UNCHANGED ftable
     ELSE CloseFd(p, Op(p).fd, "ok")
  /\ UNCHANGED <<fs, test>>

Dup(p) ==
  /\ Calls(p, "dup")
  /\ IF FileAt(p) = 0 \/ FreeFds(p) = {} THEN Return(p, "fail") /\ UNCHANGED ftable
     ELSE /\ ftable' = [ftable EXCEPT ![FileAt(p)].ref = @ + 1]
          /\ Set(p, Returned(p, "ok") @@
                    [ofile |-> [proc[p].ofile EXCEPT ![Min(FreeFds(p))] = FileAt(p)]])
  /\ UNCHANGED <<fs, test>>

\* What the program looks at in the cells it read.
View(as, cells) ==
  CASE as = "data"  -> cells
    [] as = "names" -> LET live == SelectSeq(cells, LAMBDA c : c[1] # 0)
                       IN  <<{live[i][2] : i \in DOMAIN live}, Len(live)>>
    [] as = "bag"   -> [x \in {cells[i][1] : i \in DOMAIN cells} |->
                          Cardinality({i \in DOMAIN cells : cells[i][1] = x})]
Seen(p, view) == IF view = Op(p).sees THEN "ok" ELSE "wrong"

\* A descriptor that is not open, or open the other way.
BadFd(p, way) == FileAt(p) = 0 \/ ~ftable[FileAt(p)][way] \/ Op(p).n < 0
RefusedIo(p) ==
  /\ \/ Calls(p, "read") /\ BadFd(p, "r")
     \/ Calls(p, "write") /\ BadFd(p, "w")
     \/ Calls(p, "fstat") /\ FileAt(p) = 0
  /\ Return(p, "fail")
  /\ UNCHANGED <<fs, ftable, test>>

\* The offset moves under the lock of the inode, with the data.
Read(p) ==
  LET f == FileAt(p)  s == ftable[f].ip  g == Iload(fs, s)
      cells == Readi(g, s, ftable[f].off, Op(p).n) IN
  /\ Calls(p, "read") /\ ~BadFd(p, "r") /\ Free(s)
  /\ Does(g)
  /\ IF InodeOf(g, s).type = "DEV" THEN Return(p, "ok") /\ UNCHANGED ftable
     ELSE ftable' = [ftable EXCEPT ![f].off = @ + Len(cells)] /\ Return(p, Seen(p, View(Op(p).as, cells)))
  /\ UNCHANGED test

\* One round of the loop of filewrite, a transaction of its own.
Write(p) ==
  LET f == FileAt(p)  s == ftable[f].ip  g == Iload(fs, s)
      i == proc[p].i
      n1 == IF Op(p).n - i > MaxWrite THEN MaxWrite ELSE Op(p).n - i
      ok == CanWrite(g, s, ftable[f].off, n1) IN
  /\ Calls(p, "write") /\ ~BadFd(p, "w") /\ Free(s)
  /\ \/ /\ InodeOf(g, s).type = "DEV" /\ Return(p, "ok")
        /\ fs' = g /\ UNCHANGED ftable
     \/ /\ InodeOf(g, s).type # "DEV" /\ ~ok /\ Return(p, "fail")
        /\ fs' = g /\ UNCHANGED ftable
     \/ /\ InodeOf(g, s).type # "DEV" /\ ok
        /\ fs' = Writei(g, s, ftable[f].off, [k \in 1..n1 |-> <<Op(p).data>>])
        /\ ftable' = [ftable EXCEPT ![f].off = @ + n1]
        /\ IF i + n1 = Op(p).n THEN Return(p, "ok") ELSE Set(p, [i |-> i + n1])
  /\ UNCHANGED test

Fstat(p) ==
  LET s == ftable[FileAt(p)].ip  g == Iload(fs, s)  d == InodeOf(g, s) IN
  /\ Calls(p, "fstat") /\ FileAt(p) # 0 /\ Free(s)
  /\ Does(g)
  /\ Return(p, Seen(p, <<d.type, d.nlink, d.size>>))
  /\ UNCHANGED <<ftable, test>>

(* --- processes ------------------------------------------------------------- *)

Refs(p, f) == Cardinality({fd \in Fds : proc[p].ofile[fd] = f})
Children(p) == {q \in Procs : proc[q].state # "unused" /\ proc[q].parent = p}

\* fork: the child has every open file and the current directory of the parent.
Fork(p) ==
  LET q == Min({q \in Procs : proc[q].state = "unused"}) IN
  /\ Calls(p, "fork") /\ \E q1 \in Procs : proc[q1].state = "unused"
  /\ ftable' = [f \in DOMAIN ftable |-> [ftable[f] EXCEPT !.ref = @ + Refs(p, f)]]
  /\ fs' = Idup(fs, proc[p].cwd)
  /\ proc' = [proc EXCEPT
       ![p] = Returned(p, "ok") @@ @,
       ![q] = [NoProc EXCEPT !.state = "runs", !.parent = p, !.script = Op(p).child,
                             !.cwd = proc[p].cwd, !.ofile = proc[p].ofile]]
  /\ UNCHANGED test

ForkFails(p) ==
  /\ Calls(p, "fork") /\ \A q \in Procs : proc[q].state # "unused"
  /\ Return(p, "fail")
  /\ UNCHANGED <<fs, ftable, test>>

\* exit: every open file is closed, then the current directory is put in a
\* transaction of its own.
Exiting(p) == \/ At(p, "exit")
              \/ At(p, "user") /\ proc[p].script = <<>> /\ p # 1
ExitClose(p) ==
  LET open == {fd \in Fds : proc[p].ofile[fd] # 0} IN
  /\ Exiting(p) /\ open # {}
  /\ CloseFd(p, Min(open), "exit")
  /\ UNCHANGED <<fs, test>>

\* Mutant: the current directory is put outside a transaction.
ExitCwd_NoTx(p) ==
  /\ Exiting(p) /\ \A fd \in Fds : proc[p].ofile[fd] = 0
  /\ Set(p, Puts(p, <<proc[p].cwd>>, "exited") @@ [cwd |-> 0])
  /\ UNCHANGED <<fs, ftable, test>>
ExitCwd(p) ==
  /\ Exiting(p) /\ \A fd \in Fds : proc[p].ofile[fd] = 0
  /\ Set(p, Puts(p, <<proc[p].cwd>>, "exited") @@ [cwd |-> 0, tx |-> TRUE])
  /\ UNCHANGED <<fs, ftable, test>>

Exited(p) == /\ At(p, "exited")
             /\ Set(p, [state |-> "zombie", pc |-> "user", script |-> <<>>])
             /\ UNCHANGED <<fs, ftable, test>>

Wait(p) ==
  /\ Calls(p, "wait")
  /\ \/ /\ Children(p) = {} /\ Return(p, "fail")
     \/ \E q \in Children(p) :
          /\ proc[q].state = "zombie"
          /\ proc' = [proc EXCEPT ![p] = Returned(p, "ok") @@ [bad |-> @.bad \/ proc[q].bad] @@ @,
                                  ![q] = NoProc]
  /\ UNCHANGED <<fs, ftable, test>>

(* --- specification ----------------------------------------------------------- *)

Step(p) ==
  \/ Begin(p) \/ WalkStep(p) \/ WalkEnd(p) \/ Iput(p) \/ Drop(p)
  \/ CreateFound(p) \/ CreateNew(p) \/ Made(p)
  \/ Open(p) \/ Opened(p) \/ OpenFound(p)
  \/ Unlink(p) \/ UnlinkIt(p) \/ UnlinkDone(p) \/ UnlockDp(p)
  \/ Link(p) \/ LinkNew(p) \/ LinkEntry(p) \/ LinkUndo(p)
  \/ Chdir(p) \/ Exec(p)
  \/ Close(p) \/ Dup(p) \/ RefusedIo(p) \/ Read(p) \/ Write(p) \/ Fstat(p)
  \/ Fork(p) \/ ForkFails(p) \/ ExitClose(p) \/ ExitCwd(p) \/ Exited(p) \/ Wait(p)

Finished == proc[1].pc = "user" /\ proc[1].script = <<>> /\ Children(1) = {}

Next == \/ \E p \in Procs : Step(p)
        \/ Finished /\ UNCHANGED vars

Spec == Init /\ [][Next]_vars

(* --- properties -------------------------------------------------------------- *)

\* The kernel never panics: no allocation fails silently, no free block is
\* freed, no inode without a type is locked, no entry is left without a link,
\* and every call that may free an inode runs inside a transaction.
NoPanic == fs.panic = "no"

\* Every call a program of usertests.c makes has the result the program
\* expects, whatever the processes do meanwhile.
TestsPass == \A p \in Procs : ~proc[p].bad

Used(i) == fs.dinode[i].type # "none"
\* What the blocks of directory i hold on the disk, read without the cache.
OnDisk(i) ==
  LET d == fs.dinode[i]
      at(bn) == IF bn < NDirect THEN d.addrs[bn] ELSE fs.ptr[d.addrs[NDirect]][bn - NDirect]
  IN  [k \in 1..d.size |-> fs.cell[at(k - 1)]]
Directories == {i \in Inums : fs.dinode[i].type = "DIR" /\ fs.dinode[i].nlink > 0}
\* The live entries of the tree, as <<directory, name, inode>>.
Tree == UNION {{<<i, OnDisk(i)[k][2], OnDisk(i)[k][1]>> : k \in Live(OnDisk(i))} : i \in Directories}
LinksTo(i) == {e \in Tree : e[3] = i /\ e[2] # "."}

\* Whenever no transaction is open, which is what the log commits, the disk is
\* a file system: a directory has one entry of a name, every entry names an
\* allocated inode and is counted in its nlink, a directory other than the root
\* has one parent, and the blocks marked used are those of the inodes, each of
\* one inode.  A valid inode of the cache is the one on the disk.
Fsck ==
  (~InTx /\ NoPanic) =>
    /\ \A i \in Directories : Cardinality(Live(OnDisk(i))) = Cardinality({e[2] : e \in {x \in Tree : x[1] = i}})
    /\ \A e \in Tree : Used(e[3])
    /\ \A i \in Inums : Used(i) => fs.dinode[i].nlink = Cardinality(LinksTo(i))
    /\ \A i \in Directories \ {RootIno} :
          Cardinality({e \in LinksTo(i) : e[2] # ".."}) = 1
    /\ fs.used = UNION {BlocksOf(fs, fs.dinode[i]) : i \in Inums}
    /\ Cardinality(fs.used) =
          Cardinality(UNION {{i} \X BlocksOf(fs, fs.dinode[i]) : i \in Inums})
    /\ \A s \in Slots : fs.cache[s].ref > 0 /\ fs.cache[s].valid =>
          fs.cache[s].d = fs.dinode[fs.cache[s].inum]

\* Between calls nothing but current directories and open files refers to an
\* inode, nothing but descriptors to an open file, and no inode is locked: no
\* path of a call, the failing ones included, keeps a reference or a lock, or
\* drops one twice.
RefsCounted ==
  (\A p \in Procs : proc[p].pc = "user" /\ ~proc[p].tx) =>
    /\ \A s \in Slots :
         /\ fs.cache[s].ref = Cardinality({p \in Procs : proc[p].state = "runs" /\ proc[p].cwd = s})
                            + Cardinality({f \in DOMAIN ftable : ftable[f].ref > 0 /\ ftable[f].ip = s})
         /\ fs.cache[s].lock = 0
    /\ \A f \in DOMAIN ftable :
          ftable[f].ref = Cardinality({x \in Procs \X Fds : proc[x[1]].ofile[x[2]] = f})

\* An inode that nothing names and nothing uses is freed (the comment of iput,
\* fs.c:312): no inode is allocated with no link and no reference.
Reclaimed ==
  ~InTx => \A i \in Inums : Used(i) /\ fs.dinode[i].nlink = 0 => Cached(fs, i) # {}

\* The same for the programs in which one process runs.
ReclaimedAlone ==
  (\A k \in DOMAIN Tests[test] : Tests[test][k].op # "fork") => Reclaimed

\* The inode whose lock p needs for its next step, if any.
Needs(p) ==
  LET pc == proc[p].pc IN
  CASE pc = "put" -> Head(proc[p].puts)
    [] pc = "walk" /\ proc[p].path # <<>> -> proc[p].dp
    [] pc \in {"create", "mkdir", "mknod", "unlink", "link2"} -> proc[p].dp
    [] pc \in {"found", "open", "unlink2", "link", "undo", "chdir", "exec"} -> proc[p].ip
    [] pc = "user" /\ proc[p].script # <<>> /\ Op(p).op \in {"read", "write", "fstat"}
         -> IF FileAt(p) = 0 THEN 0 ELSE ftable[FileAt(p)].ip
    [] OTHER -> 0

\* No group of processes in which each waits for an inode another one, or the
\* process itself, has locked.
NoCircularWait ==
  \A group \in SUBSET Procs \ {{}} :
    \E p \in group : Needs(p) = 0 \/ fs.cache[Needs(p)].lock \notin group
=============================================================================
