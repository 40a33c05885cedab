----------------------------- MODULE UserTests -----------------------------
(* The file system programs of usertests.c and others, and init's console, as *)
(* scripts of calls with the results they require.  Loops are unrolled a few  *)
(* times, the sizes of writes are counted in cells, four processes become     *)
(* two, and what a program prints is left out.                                *)
EXTENDS Integers, Sequences, SequencesExt

Ok     == {"ok"}
Fails  == {"fail"}
Either == {"ok", "fail"}

Path(op, path, want) == [op |-> op, path |-> path, want |-> want]
open(path, mode, want)   == [op |-> "open", path |-> path, mode |-> mode, want |-> want]
create(path, mode, want) == [op |-> "create", path |-> path, mode |-> mode, major |-> 0, want |-> want]
mkdir(path, want)        == [op |-> "mkdir", path |-> path, major |-> 0, want |-> want]
mknod(path, major, want) == [op |-> "mknod", path |-> path, major |-> major, want |-> want]
unlink(path, want)       == Path("unlink", path, want)
chdir(path, want)        == Path("chdir", path, want)
link(path, new, want)    == [op |-> "link", path |-> path, new |-> new, want |-> want]
exec(path, fits)         == [op |-> "exec", path |-> path, fits |-> fits, want |-> Fails]
close(fd)                == [op |-> "close", fd |-> fd, want |-> Either]
dup(fd)                  == [op |-> "dup", fd |-> fd, want |-> Ok]
write(fd, data, n)       == [op |-> "write", fd |-> fd, data |-> data, n |-> n, want |-> Ok]
\* A read, as the program looks at it: the data, the names or a bag of the data.
reads(fd, n, as, sees)   == [op |-> "read", fd |-> fd, n |-> n, as |-> as, sees |-> sees, want |-> Ok]
read(fd, n, data)        == reads(fd, n, "data", [i \in DOMAIN data |-> <<data[i]>>])
fstat(fd, sees)          == [op |-> "fstat", fd |-> fd, sees |-> sees, want |-> Ok]
fork(child)              == [op |-> "fork", child |-> child, want |-> Ok]
wait                     == [op |-> "wait", want |-> Ok]

\* An operation that must fail, with the descriptor it names.
Refused(call) == [call EXCEPT !.want = Fails]

(* --- main, one process --------------------------------------------------- *)

iputtest == << mkdir(<<"iputdir">>, Ok), chdir(<<"iputdir">>, Ok),
               unlink(<<"..", "iputdir">>, Ok), chdir(<<"/">>, Ok) >>

opentest == << open(<<"echo">>, "r", Ok), close(0), open(<<"doesnotexist">>, "r", Fails) >>

argptest == << open(<<"echo">>, "r", Ok), Refused(read(0, -1, <<>>)), close(0) >>

writetest == << create(<<"small">>, "rw", Ok),
                write(0, "a", 1), write(0, "b", 1), write(0, "a", 1), write(0, "b", 1), close(0),
                open(<<"small">>, "r", Ok), read(0, 4, <<"a", "b", "a", "b">>), close(0),
                unlink(<<"small">>, Ok) >>

\* A file of MAXFILE cells, one write and one read each, and one write too many.
writetest1(max) ==
  << create(<<"big">>, "rw", Ok) >> \o [i \in 1..max |-> write(0, i, 1)]
  \o << Refused(write(0, "x", 1)), close(0), open(<<"big">>, "r", Ok) >>
  \o [i \in 1..max |-> read(0, 1, <<i>>)]
  \o << read(0, 1, <<>>), close(0), unlink(<<"big">>, Ok) >>

createtest ==
  << create(<<"a0">>, "rw", Ok), close(0), create(<<"a1">>, "rw", Ok), close(0),
     create(<<"a2">>, "rw", Ok), close(0),
     unlink(<<"a0">>, Ok), unlink(<<"a1">>, Ok), unlink(<<"a2">>, Ok) >>

dirtest == << mkdir(<<"dir0">>, Ok), chdir(<<"dir0">>, Ok), chdir(<<"..">>, Ok),
              unlink(<<"dir0">>, Ok) >>

unlinkread ==
  << create(<<"unlinkread">>, "rw", Ok), write(0, "h", 1), close(0),
     open(<<"unlinkread">>, "rw", Ok), unlink(<<"unlinkread">>, Ok),
     create(<<"unlinkread">>, "rw", Ok), write(1, "y", 1), close(1),
     read(0, 3, <<"h">>), write(0, "w", 2), close(0), unlink(<<"unlinkread">>, Ok) >>

linktest ==
  << unlink(<<"lf1">>, Fails), unlink(<<"lf2">>, Fails),
     create(<<"lf1">>, "rw", Ok), write(0, "h", 2), fstat(0, <<"FILE", 1, 2>>), close(0),
     link(<<"lf1">>, <<"lf2">>, Ok), unlink(<<"lf1">>, Ok),
     open(<<"lf1">>, "r", Fails), open(<<"lf2">>, "r", Ok), read(0, 4, <<"h", "h">>), close(0),
     link(<<"lf2">>, <<"lf2">>, Fails), unlink(<<"lf2">>, Ok),
     link(<<"lf2">>, <<"lf1">>, Fails), link(<<".">>, <<"lf1">>, Fails) >>

\* A directory that uses its indirect block.
bigdir ==
  << unlink(<<"bd">>, Fails), create(<<"bd">>, "r", Ok), close(0),
     link(<<"bd">>, <<"x00">>, Ok), link(<<"bd">>, <<"x01">>, Ok), link(<<"bd">>, <<"x02">>, Ok),
     unlink(<<"bd">>, Ok),
     unlink(<<"x00">>, Ok), unlink(<<"x01">>, Ok), unlink(<<"x02">>, Ok) >>

subdir1 ==
  << unlink(<<"ff">>, Fails), mkdir(<<"dd">>, Ok),
     create(<<"dd", "ff">>, "rw", Ok), write(0, "f", 2), close(0),
     unlink(<<"dd">>, Fails), mkdir(<<"/", "dd", "dd">>, Ok),
     create(<<"dd", "dd", "ff">>, "rw", Ok), write(0, "F", 2), close(0),
     open(<<"dd", "dd", "..", "ff">>, "r", Ok), read(0, 4, <<"f", "f">>), close(0),
     link(<<"dd", "dd", "ff">>, <<"dd", "dd", "ffff">>, Ok),
     unlink(<<"dd", "dd", "ff">>, Ok), open(<<"dd", "dd", "ff">>, "r", Fails),
     chdir(<<"dd">>, Ok), chdir(<<"dd", "..", "..", "dd">>, Ok),
     chdir(<<"dd", "..", "..", "..", "dd">>, Ok), chdir(<<".", "..">>, Ok),
     open(<<"dd", "dd", "ffff">>, "r", Ok), read(0, 4, <<"F", "F">>), close(0) >>
subdir2 ==
  << open(<<"dd", "dd", "ff">>, "r", Fails), create(<<"dd", "ff", "ff">>, "rw", Fails),
     create(<<"dd", "xx", "ff">>, "rw", Fails), create(<<"dd">>, "r", Fails),
     open(<<"dd">>, "rw", Fails), open(<<"dd">>, "w", Fails),
     link(<<"dd", "ff", "ff">>, <<"dd", "dd", "xx">>, Fails),
     link(<<"dd", "xx", "ff">>, <<"dd", "dd", "xx">>, Fails),
     link(<<"dd", "ff">>, <<"dd", "dd", "ffff">>, Fails),
     mkdir(<<"dd", "ff", "ff">>, Fails), mkdir(<<"dd", "xx", "ff">>, Fails),
     mkdir(<<"dd", "dd", "ffff">>, Fails), unlink(<<"dd", "xx", "ff">>, Fails),
     unlink(<<"dd", "ff", "ff">>, Fails), chdir(<<"dd", "ff">>, Fails),
     chdir(<<"dd", "xx">>, Fails),
     unlink(<<"dd", "dd", "ffff">>, Ok), unlink(<<"dd", "ff">>, Ok), unlink(<<"dd">>, Fails),
     unlink(<<"dd", "dd">>, Ok), unlink(<<"dd">>, Ok) >>
subdir == subdir1 \o subdir2

bigwrite ==
  LET round(sz) == << create(<<"bigwrite">>, "rw", Ok), write(0, "x", sz), write(0, "x", sz),
                      close(0), unlink(<<"bigwrite">>, Ok) >>
  IN  << unlink(<<"bigwrite">>, Fails) >> \o round(1) \o round(3) \o round(4)

bigfile ==
  << unlink(<<"bigfile">>, Fails), create(<<"bigfile">>, "rw", Ok),
     write(0, 1, 2), write(0, 2, 2), write(0, 3, 2), close(0),
     open(<<"bigfile">>, "r", Ok), read(0, 1, <<1>>), read(0, 1, <<1>>), read(0, 1, <<2>>),
     read(0, 1, <<2>>), read(0, 1, <<3>>), read(0, 1, <<3>>), read(0, 1, <<>>), close(0),
     unlink(<<"bigfile">>, Ok) >>

\* "fourteen" is a name of DIRSIZ bytes, "fifteen" has one byte more.
fourteen ==
  << mkdir(<<"fourteen">>, Ok), mkdir(<<"fourteen", "fifteen">>, Ok),
     create(<<"fifteen", "fifteen", "fifteen">>, "r", Ok), close(0),
     open(<<"fourteen", "fourteen", "fourteen">>, "r", Ok), close(0),
     mkdir(<<"fourteen", "fourteen">>, Fails), mkdir(<<"fifteen", "fourteen">>, Fails) >>

rmdot ==
  << mkdir(<<"dots">>, Ok), chdir(<<"dots">>, Ok), unlink(<<".">>, Fails),
     unlink(<<"..">>, Fails), chdir(<<"/">>, Ok), unlink(<<"dots", ".">>, Fails),
     unlink(<<"dots", "..">>, Fails), unlink(<<"dots">>, Ok) >>

dirfile ==
  << create(<<"dirfile">>, "r", Ok), close(0), chdir(<<"dirfile">>, Fails),
     open(<<"dirfile", "xx">>, "r", Fails), create(<<"dirfile", "xx">>, "r", Fails),
     mkdir(<<"dirfile", "xx">>, Fails), unlink(<<"dirfile", "xx">>, Fails),
     link(<<"README">>, <<"dirfile", "xx">>, Fails), unlink(<<"dirfile">>, Ok),
     open(<<".">>, "rw", Fails), open(<<".">>, "r", Ok), Refused(write(0, "x", 1)), close(0) >>

\* More directories than the inode cache has slots, each left for the next.
iref(slots) ==
  LET round == << mkdir(<<"irefd">>, Ok), chdir(<<"irefd">>, Ok), mkdir(<<>>, Fails),
                  link(<<"README">>, <<>>, Fails), create(<<>>, "r", Fails),
                  create(<<"xx">>, "r", Ok), close(0), unlink(<<"xx">>, Ok) >>
  IN  FlattenSeq([i \in 1..slots + 1 |-> round]) \o << chdir(<<"/">>, Ok) >>

\* init.c: the console is made when it is not there, and opened three times.
initconsole ==
  << open(<<"console">>, "rw", Fails), mknod(<<"console">>, 1, Ok),
     open(<<"console">>, "rw", Ok), dup(0), dup(0), write(1, "x", 2),
     open(<<"README">>, "r", Fails), close(2), close(0) >>

(* --- several processes ----------------------------------------------------- *)

exitiputtest ==
  << fork(<< mkdir(<<"iputdir">>, Ok), chdir(<<"iputdir">>, Ok),
             unlink(<<"..", "iputdir">>, Ok) >>), wait >>

openiputtest ==
  << mkdir(<<"oidir">>, Ok), fork(<< open(<<"oidir">>, "rw", Fails) >>),
     unlink(<<"oidir">>, Ok), wait >>

\* The offset is shared: no process overwrites what the other wrote.
sharedfd ==
  << unlink(<<"sharedfd">>, Fails), create(<<"sharedfd">>, "rw", Ok),
     fork(<< write(0, "c", 1), write(0, "c", 1), write(0, "c", 1) >>),
     write(0, "p", 1), write(0, "p", 1), write(0, "p", 1), wait, close(0),
     open(<<"sharedfd">>, "r", Ok), reads(0, 8, "bag", [c |-> 3, p |-> 3]), close(0),
     unlink(<<"sharedfd">>, Ok) >>

fourfiles ==
  LET child(name, x) == fork(<< create(<<name>>, "rw", Ok), write(0, x, 2), write(0, x, 2) >>)
      check(name, x) == << open(<<name>>, "r", Ok), read(0, 8, <<x, x, x, x>>), close(0),
                           unlink(<<name>>, Ok) >>
  IN  << unlink(<<"f0">>, Fails), child("f0", 0), unlink(<<"f1">>, Fails), child("f1", 1),
         wait, wait >> \o check("f0", 0) \o check("f1", 1)

createdelete ==
  LET child(n0, n1) == fork(<< create(<<n0>>, "rw", Ok), close(0), create(<<n1>>, "rw", Ok),
                               close(0), unlink(<<n1>>, Ok) >>)
  IN  << child("p0", "p1"), child("q0", "q1"), wait, wait,
         open(<<"p0">>, "r", Ok), close(0), open(<<"q0">>, "r", Ok), close(0),
         open(<<"p1">>, "r", Fails), open(<<"q1">>, "r", Fails),
         unlink(<<"p0">>, Ok), unlink(<<"q0">>, Ok) >>

\* The first loop of concreate, for i = 0, 1 and 2, the directory it reads, and
\* the opens and unlinks of its last loop.  Some link or open of each name wins.
concreate1 ==
  LET c(name) == << create(<<name>>, "rw", Ok), close(0) >>
  IN  << unlink(<<"C0">>, Fails), fork(c("C0")) >> \o c("C0") \o
      << wait, unlink(<<"C1">>, Fails), fork(<< link(<<"C0">>, <<"C1">>, Either) >>),
         link(<<"C0">>, <<"C1">>, Either), wait,
         unlink(<<"C2">>, Fails), fork(c("C2")) >> \o c("C2") \o
      << wait, open(<<".">>, "r", Ok),
         reads(0, 8, "names", <<{".", "..", "README", "echo", "C0", "C1", "C2"}, 7>>), close(0) >>
concreate2 ==
  LET opens(name)   == << open(<<name>>, "r", Either), close(0), open(<<name>>, "r", Either), close(0) >>
      unlinks(name) == << unlink(<<name>>, Either), unlink(<<name>>, Either) >>
  IN  << fork(opens("C0")) >> \o unlinks("C0") \o << wait, fork(unlinks("C1")) >> \o opens("C1")
      \o << wait, fork(unlinks("C2")) >> \o unlinks("C2") \o << wait >>
concreate == concreate1 \o concreate2

\* One draw of the two processes of linkunlink each.
linkunlink ==
  << unlink(<<"x">>, Fails), fork(<< create(<<"x">>, "rw", Ok), close(0) >>),
     unlink(<<"x">>, Either), wait >>

\* exec of a program that is there, with arguments that fit a page or do not.
bigargtest(fits) ==
  << unlink(<<"bigarg-ok">>, Fails),
     fork(<< exec(<<"echo">>, fits), create(<<"bigarg-ok">>, "r", Ok), close(0) >>),
     wait, open(<<"bigarg-ok">>, "r", IF fits THEN Fails ELSE Ok), close(0),
     unlink(<<"bigarg-ok">>, Either) >>

\* More forks than there are process slots, then a wait for each child made.
forktest(nproc) ==
  [i \in 1..nproc - 1 |-> fork(<<>>)] \o << Refused(fork(<<>>)) >>
    \o [i \in 1..nproc - 1 |-> wait] \o << Refused(wait) >>
\* exit against wait, two rounds: each wait finds the child, dead already or not.
exitwait == << fork(<<>>), wait, fork(<<>>), wait, Refused(wait) >>

(* --- programs of their own ------------------------------------------------ *)

\* stressfs.c, with one fork: each process has a file of its own; the last one
\* has no child to wait for.
stressfs ==
  LET work(name) == << create(<<name>>, "rw", Ok), write(0, "a", 1), write(0, "a", 1), close(0),
                       open(<<name>>, "r", Ok), read(0, 1, <<"a">>), read(0, 1, <<"a">>), close(0) >>
  IN  << fork(work("s1") \o << Refused(wait) >>) >> \o work("s0") \o << wait >>

\* The calls of cat.c on a file, and stat of ulib.c, which ls.c makes for every
\* entry that it reads.
cat(path, cells) == << open(path, "r", Ok), reads(0, 8, "data", cells), close(0) >>
stat(path, sees) == << open(path, "r", Ok), fstat(1, sees), close(1) >>

\* mkdir.c, ln.c and cat.c one after the other, as the shell runs them, then ls.c
\* while rm.c removes the file that is listed: the entry and the file are found,
\* changed or gone.
Anything == {"ok", "fail", "wrong"}
Racing(calls) == [i \in DOMAIN calls |-> [calls[i] EXCEPT !.want = Anything]]
programs ==
  LET d == <<"d">>  f == <<"d", "f">>  dir == <<"DIR", 1, 3>>
      entry(names) == << reads(0, 1, "names", names) >>
  IN  << fork(<< mkdir(d, Ok) >>), wait, fork(<< link(<<"README">>, f, Ok) >>), wait,
         fork(cat(f, << <<"README">> >>)), wait,
         fork(<< unlink(<<"README">>, Ok), unlink(f, Ok) >>), open(d, "r", Ok), fstat(0, dir) >>
      \o entry(<<{"."}, 1>>)  \o stat(<<"d", ".">>, dir)
      \o entry(<<{".."}, 1>>) \o stat(<<"d", "..">>, <<"DIR", 2, 5>>)
      \o Racing(entry(<<{"f"}, 1>>) \o stat(f, <<"FILE", 1, 1>>))
      \o << close(0), wait, Refused(open(f, "r", Ok)) >>
=============================================================================
