------------------------------ MODULE MCFiles ------------------------------
(* Instances of Files for TLC: the programs of UserTests, each on a fresh     *)
(* image.                                                                     *)
EXTENDS Files, UserTests

MCImage == <<"README", "echo">>

MCTests ==
  [iputtest |-> iputtest, opentest |-> opentest, argptest |-> argptest,
   writetest |-> writetest, writetest1 |-> writetest1(MaxFile), createtest |-> createtest,
   dirtest |-> dirtest, unlinkread |-> unlinkread, linktest |-> linktest, bigdir |-> bigdir,
   subdir |-> subdir, bigwrite |-> bigwrite, bigfile |-> bigfile, fourteen |-> fourteen,
   rmdot |-> rmdot, dirfile |-> dirfile, iref |-> iref(NCache), initconsole |-> initconsole,
   exitiputtest |-> exitiputtest, openiputtest |-> openiputtest, sharedfd |-> sharedfd,
   fourfiles |-> fourfiles, createdelete |-> createdelete, concreate |-> concreate,
   bigargs |-> bigargtest(FALSE), exectest |-> bigargtest(TRUE), forktest |-> forktest(NProc),
   exitwait |-> exitwait, stressfs |-> stressfs, programs |-> programs]

\* The program in which a directory and an inode of it are waited for both ways.
MCDeadlocks == [linkunlink |-> linkunlink]
\* The program in which two processes drop the last references together.
MCRaces == [openiputtest |-> openiputtest]
============================================================================
