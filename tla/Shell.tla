------------------------------- MODULE Shell -------------------------------
(* init.c and runcmd of sh.c: a line is parsed and run by processes that fork *)
(* and wait, and pass their open files on.  The kernel's fork, exit, wait,     *)
(* pipe, close, dup and open are modelled by what these programs need of them. *)
(* The tree of a line is the sequence of its nodes as the parser allocates     *)
(* them, and a command is a pointer to one, 0 for none.  A pipe is named by    *)
(* its command, and belongs to the line that its holders run.                  *)
EXTENDS Integers, Sequences, FiniteSets, FiniteSetsExt, Functions

CONSTANTS NProc,     \* process slots; 1 is init
          NFd,       \* open files of a process
          Lines,     \* the lines a user may type
          Parse,     \* the tree of each, empty where the parser panics
          MaxLines,  \* lines typed in all
          MaxEofs,   \* times that ^D ends the shell
          MaxFails   \* calls of fork and pipe that fail, sh's and its children's

ASSUME ShellAssumption == NProc \in Nat \ {0, 1} /\ NFd \in Nat \ 0..4 /\ {MaxLines, MaxEofs} \subseteq Nat /\ MaxFails \in Nat

\* A node is allocated after what it holds, and redirects no file but 0 and 1.
Inside(node) == CASE node.type \in {"REDIR", "BACK"} -> {node.cmd}
                  [] node.type \in {"LIST", "PIPE"}  -> {node.left, node.right}
                  [] node.type = "EXEC"              -> {}
IsTree(tree) ==
  \A k \in DOMAIN tree :
    /\ tree[k].type \in {"EXEC", "REDIR", "LIST", "PIPE", "BACK"}
    /\ tree[k].type = "REDIR" => tree[k].fd \in {0, 1}
    /\ tree[k].type \in {"LIST", "PIPE"} => tree[k].left # tree[k].right
    /\ Inside(tree[k]) \subseteq 1..k-1
    /\ \A j \in DOMAIN tree \ {k} :
         /\ Inside(tree[j]) \intersect Inside(tree[k]) = {}
         /\ tree[j].type = "EXEC" /\ tree[k].type = "EXEC" => tree[j].at # tree[k].at
ASSUME ParseAssumption == \A l \in Lines : Parse[l] \in Seq(Range(Parse[l])) /\ IsTree(Parse[l])

VARIABLES proc,   \* the processes; line is the number of the line in buf
          lines,  \* the lines typed so far and what their children parse them to
          ran,    \* history: which programs of which lines have started
          eofs, fails  \* ends of input so far, calls that failed
shellVars == <<proc, lines, ran, eofs, fails>>

Procs == 1..NProc
None == <<"none">>
Console == <<"console">>

Unused == [pc |-> "unused", cmd |-> 0, line |-> 0, fds |-> <<>>, p |-> <<>>, parent |-> 0]
Tree(n) == lines[n].tree
Std == [fd \in 0..NFd-1 |-> IF fd < 3 THEN Console ELSE None]

ShellInit == /\ proc = [q \in Procs |-> IF q = 1 THEN [Unused EXCEPT !.pc = "init", !.fds = Std] ELSE Unused]
             /\ lines = <<>>
             /\ ran = {}
             /\ eofs = 0
             /\ fails = 0

At(p, pc) == proc[p].pc = pc
Node(p) == Tree(proc[p].line)[proc[p].cmd]
Running(p, type) == At(p, "run") /\ proc[p].cmd # 0 /\ Node(p).type = type
Alive(p) == proc[p].pc \notin {"unused", "zombie"}
Sh == {p \in Procs : proc[p].pc \in {"prompt", "typed", "shwait"}}

-----------------------------------------------------------------------------
(* Open files. *)
Close(fds, fd) == [fds EXCEPT ![fd] = None]
Lowest(fds) == Min({fd \in DOMAIN fds : fds[fd] = None})
Open(fds, file) == [fds EXCEPT ![Lowest(fds)] = file]

ReadEnd(cmd)  == <<"read", cmd>>
WriteEnd(cmd) == <<"write", cmd>>

\* The end of a pipe of line n is open as long as some process has it.
Has(p, n, file) == Alive(p) /\ proc[p].line = n /\ \E fd \in DOMAIN proc[p].fds : proc[p].fds[fd] = file
IsOpen(n, file) == \E p \in Procs : Has(p, n, file)

\* What the two sides of a pipe do with its ends, p[1] to read and p[2] to write.
\* Mutant: dup comes before close, and does not give 1.
LeftEnds_DupFirst(fds, p) == Close(Close(Close(Open(fds, fds[p[2]]), 1), p[1]), p[2])
LeftEnds(fds, p)  == Close(Close(Open(Close(fds, 1), fds[p[2]]), p[1]), p[2])
RightEnds(fds, p) == Close(Close(Open(Close(fds, 0), fds[p[1]]), p[1]), p[2])
\* Mutant: the shell keeps its end to write.
ParentEnds_KeepsWrite(fds, p) == Close(fds, p[1])
ParentEnds(fds, p) == Close(Close(fds, p[1]), p[2])

-----------------------------------------------------------------------------
(* fork1, exit and wait. *)
Free == {p \in Procs : At(p, "unused")}
Kids(p) == {c \in Procs : proc[c].parent = p}
Zombies(p) == {c \in Kids(p) : At(c, "zombie")}

\* p goes on at pc, its child at childPc with cmd.
Forked(p, pc, childPc, cmd) ==
  /\ Free # {}
  /\ proc' = [proc EXCEPT ![p].pc = pc,
                          ![Min(Free)] = [proc[p] EXCEPT !.pc = childPc, !.cmd = cmd, !.parent = p]]
  /\ UNCHANGED fails

\* The call may fail for want of memory as well.
Fork1(p, pc, childPc, cmd) ==
  /\ \/ Forked(p, pc, childPc, cmd)
     \/ /\ Free = {} \/ fails < MaxFails
        /\ fails' = fails + 1
        /\ proc' = [proc EXCEPT ![p].pc = "exit"]
  /\ UNCHANGED <<lines, ran, eofs>>

\* The children go to init.
Exit(p) == /\ At(p, "exit") \/ (At(p, "run") /\ proc[p].cmd = 0) \/ (Running(p, "EXEC") /\ Node(p).args = <<>>)
           /\ proc' = [q \in Procs |->
                         IF q = p THEN [Unused EXCEPT !.pc = "zombie", !.parent = proc[p].parent]
                         ELSE IF q \in Kids(p) THEN [proc[q] EXCEPT !.parent = 1]
                         ELSE proc[q]]
           /\ UNCHANGED <<lines, ran, eofs, fails>>

\* What wait may return, 0 for -1, which it does at once when there is no child;
\* p goes on as r.
Waited(p) == IF Kids(p) = {} THEN {0} ELSE Zombies(p)
Wait(p, c, r) ==
  /\ proc' = [q \in Procs |-> IF q = p THEN r ELSE IF q = c THEN Unused ELSE proc[q]]
  /\ UNCHANGED <<lines, ran, eofs, fails>>

-----------------------------------------------------------------------------
(* init: starts a shell, and reaps every child until it ends. *)
\* A fork of init that fails ends init and is left out.
InitFork == /\ At(1, "init")
            /\ Free # {}
            /\ LET c == Min(Free)
               IN  proc' = [proc EXCEPT ![1] = [@ EXCEPT !.pc = "initwait", !.p = <<c>>],
                                        ![c] = [Unused EXCEPT !.pc = "prompt", !.fds = Std, !.parent = 1]]
            /\ UNCHANGED <<lines, ran, eofs, fails>>

InitWait == /\ At(1, "initwait")
            /\ \E c \in Waited(1) : Wait(1, c, [proc[1] EXCEPT !.pc = IF c \in {0, proc[1].p[1]} THEN "init" ELSE @])

(* main of sh: getcmd, and a child for each line, which parses it.            *)
Reads(p, text, tree, pc) ==
  /\ At(p, "prompt")
  /\ Len(lines) < MaxLines
  /\ lines' = Append(lines, [text |-> text, tree |-> tree])
  /\ proc' = [proc EXCEPT ![p] = [@ EXCEPT !.pc = pc, !.line = Len(lines) + 1]]
  /\ UNCHANGED <<ran, eofs, fails>>
Type(p) == At(p, "prompt") /\ \E l \in Lines : Reads(p, l, Parse[l], "typed")

\* cd: the shell changes its own directory, if it can, and prompts again.
Cd(p) == Reads(p, <<"cd">>, <<>>, "prompt")

\* ^D: getcmd returns -1.
Eof(p) == /\ At(p, "prompt")
          /\ eofs < MaxEofs
          /\ eofs' = eofs + 1
          /\ proc' = [proc EXCEPT ![p].pc = "exit"]
          /\ UNCHANGED <<lines, ran, fails>>

ShFork(p) == At(p, "typed") /\ Fork1(p, "shwait", "run", Len(Tree(proc[p].line)))
ShWait(p) == At(p, "shwait") /\ \E c \in Waited(p) : Wait(p, c, [proc[p] EXCEPT !.pc = "prompt"])

-----------------------------------------------------------------------------
(* runcmd. *)
\* exec, which may fail; the program runs until it ends.
ExecProg(p) == /\ Running(p, "EXEC")
               /\ Node(p).args # <<>>
               /\ \/ /\ proc' = [proc EXCEPT ![p].pc = "prog"]
                     /\ ran' = ran \union {<<proc[p].line, Node(p).at>>}
                  \/ proc' = [proc EXCEPT ![p].pc = "exit"] /\ UNCHANGED ran
               /\ UNCHANGED <<lines, eofs, fails>>

\* open may fail, and the command is not run.
RunRedir(p) ==
  LET node == Node(p)
      fds  == Close(proc[p].fds, node.fd)
  IN  /\ Running(p, "REDIR")
      /\ \/ proc' = [proc EXCEPT ![p] = [@ EXCEPT !.cmd = node.cmd, !.fds = Open(fds, <<"file", node.file>>)]]
         \/ proc' = [proc EXCEPT ![p] = [@ EXCEPT !.pc = "exit", !.fds = fds]]
      /\ UNCHANGED <<lines, ran, eofs, fails>>

RunList(p) == Running(p, "LIST") /\ Fork1(p, "listwait", "run", Node(p).left)

\* Mutant: the right side does not wait for the left.
ListWait_No(p) == /\ At(p, "listwait")
                  /\ proc' = [proc EXCEPT ![p] = [@ EXCEPT !.pc = "run", !.cmd = Node(p).right]]
                  /\ UNCHANGED <<lines, ran, eofs, fails>>
ListWait(p) == /\ At(p, "listwait")
               /\ \E c \in Waited(p) : Wait(p, c, [proc[p] EXCEPT !.pc = "run", !.cmd = Node(p).right])

\* pipe, which may fail, and the two forks; a child starts with its ends of the pipe.
RunPipe(p) ==
  LET fds == proc[p].fds
      r   == Lowest(fds)
      opened == Open(fds, ReadEnd(proc[p].cmd))
      w   == Lowest(opened)
  IN  /\ Running(p, "PIPE")
      /\ \/ /\ proc' = [proc EXCEPT ![p] = [@ EXCEPT !.fds = Open(opened, WriteEnd(proc[p].cmd)), !.pc = "left", !.p = <<r, w>>]]
            /\ UNCHANGED fails
         \/ /\ fails < MaxFails /\ fails' = fails + 1
            /\ proc' = [proc EXCEPT ![p].pc = "exit"]
      /\ UNCHANGED <<lines, ran, eofs>>
ForkLeft(p)  == At(p, "left") /\ Fork1(p, "right", "leftends", Node(p).left)
ForkRight(p) == At(p, "right") /\ Fork1(p, "close", "rightends", Node(p).right)

Ends(p, pc, next, Change(_, _)) ==
  /\ At(p, pc)
  /\ proc' = [proc EXCEPT ![p] = [@ EXCEPT !.fds = Change(proc[p].fds, proc[p].p), !.pc = next, !.p = <<>>]]
  /\ UNCHANGED <<lines, ran, eofs, fails>>
PipeEnds(p) == \/ Ends(p, "leftends", "run", LeftEnds)
               \/ Ends(p, "rightends", "run", RightEnds)
               \/ Ends(p, "close", "wait1", ParentEnds)

PipeWait(p) == \/ At(p, "wait1") /\ \E c \in Waited(p) : Wait(p, c, [proc[p] EXCEPT !.pc = "wait2"])
               \/ At(p, "wait2") /\ \E c \in Waited(p) : Wait(p, c, [proc[p] EXCEPT !.pc = "exit"])

RunBack(p) == Running(p, "BACK") /\ Fork1(p, "exit", "run", Node(p).cmd)

-----------------------------------------------------------------------------
(* A program reads its standard input to the end and writes more than a pipe  *)
(* holds: it ends when nobody can write to its input, and while somebody reads *)
(* its output or nobody ever will.  It may also end early.                    *)
AtEof(p) == LET in == proc[p].fds[0]
            IN  in[1] = "read" => ~IsOpen(proc[p].line, <<"write", in[2]>>)
Drained(p) == LET out == proc[p].fds[1]
                  n == proc[p].line
                  reader == <<"read", out[2]>>
              IN  out[1] = "write" =>
                    \/ ~IsOpen(n, reader)
                    \/ \E q \in Procs : At(q, "prog") /\ proc[q].line = n /\ proc[q].fds[0] = reader

Ended(p) == /\ At(p, "prog")
            /\ proc' = [proc EXCEPT ![p].pc = "exit"]
            /\ UNCHANGED <<lines, ran, eofs, fails>>
EndProg(p) == AtEof(p) /\ Drained(p) /\ Ended(p)

RunCmd(p) == \/ ExecProg(p) \/ RunRedir(p) \/ RunList(p) \/ ListWait(p)
             \/ RunPipe(p) \/ ForkLeft(p) \/ ForkRight(p) \/ PipeEnds(p) \/ PipeWait(p) \/ RunBack(p)

Step(p) == ShFork(p) \/ ShWait(p) \/ RunCmd(p) \/ Exit(p) \/ (At(p, "prog") /\ EndProg(p))

ShellNext == \/ InitFork \/ InitWait
             \/ \E p \in Procs : Type(p) \/ Cd(p) \/ Eof(p) \/ Step(p) \/ Ended(p)

\* The scheduler runs every process again and again, and programs end.
Fairness == WF_shellVars(InitFork \/ InitWait) /\ \A p \in Procs : WF_shellVars(Step(p))
ShellSpec == ShellInit /\ [][ShellNext]_shellVars /\ Fairness

-----------------------------------------------------------------------------
(* The files that a tree gives to each of its commands; None is what the shell *)
(* that runs the tree has.                                                     *)
Through(cmd, in, out) == [at |-> cmd.at, in |-> IF cmd.in = None THEN in ELSE cmd.in,
                                         out |-> IF cmd.out = None THEN out ELSE cmd.out]
Given(cmds, in, out) == {Through(cmd, in, out) : cmd \in cmds}

\* What node k gives, when W is what the nodes inside it do.
Gets(W, tree, k) ==
  LET node == tree[k]
      file == <<"file", node.file>>
  IN  CASE node.type = "EXEC"  -> {[at |-> node.at, in |-> None, out |-> None]}
        [] node.type = "REDIR" -> IF node.fd = 0 THEN Given(W[node.cmd], file, None) ELSE Given(W[node.cmd], None, file)
        [] node.type = "LIST"  -> W[node.left] \union W[node.right]
        [] node.type = "PIPE"  -> Given(W[node.left], None, WriteEnd(k)) \union Given(W[node.right], ReadEnd(k), None)
        [] node.type = "BACK"  -> W[node.cmd]
Wiring(tree) == LET W[k \in DOMAIN tree] == Gets(W, tree, k) IN W

\* The commands of a line, by the tree.
Commands(tree) == IF tree = <<>> THEN {} ELSE Given(Wiring(tree)[Len(tree)], Console, Console)

\* The programs of a node that its shell waits for, when F is those of the nodes
\* inside it, and all of its programs.
Awaits(F, tree, k) == CASE tree[k].type = "EXEC" -> {tree[k].at}
                        [] tree[k].type = "BACK" -> {}
                        [] OTHER                 -> UNION {F[j] : j \in Inside(tree[k])}
Foreground(tree) == LET F[k \in DOMAIN tree] == Awaits(F, tree, k) IN F
Leaves(tree, k) == {w.at : w \in Wiring(tree)[k]}
Lists(tree) == {k \in DOMAIN tree : tree[k].type = "LIST"}

Programs == {p \in Procs : At(p, "prog")}
InUse(n, S) == \E p \in Programs : proc[p].line = n /\ Node(p).at \in S
HasRun(n, S) == \E a \in S : <<n, a>> \in ran

\* After all the closes and dups along the way a program has the input and the
\* output that its line gives it, and no end of any other pipe: such an end
\* would keep a reader from its end of file.
Wired == \A p \in Programs :
           /\ [at |-> Node(p).at, in |-> proc[p].fds[0], out |-> proc[p].fds[1]] \in Commands(Tree(proc[p].line))
           /\ proc[p].fds[2] = Console
           /\ \A fd \in 3..NFd-1 : proc[p].fds[fd] = None

\* Unless a call failed: once a program right of a ; has started, no command left
\* of it that is waited for runs any more, or ever will; and while one of the
\* line's that is waited for runs, the shell that read the line waits, and does
\* not prompt for another.
InOrder == fails = 0 => \A n \in DOMAIN lines :
             /\ \A k \in Lists(Tree(n)) :
                  HasRun(n, Leaves(Tree(n), Tree(n)[k].right)) => ~InUse(n, Foreground(Tree(n))[Tree(n)[k].left])
             /\ \A k \in {Len(Tree(n))} \ {0} :
                  InUse(n, Foreground(Tree(n))[k]) => \E p \in Procs : At(p, "shwait") /\ proc[p].line = n

\* Whatever was typed, and whatever failed, a shell comes back to its prompt and
\* nothing is left of the line: no command waits for a pipe that a shell holds.
ShellReturns == []<>(/\ \A p \in Procs \ {1} : proc[p].pc \in {"unused", "prompt"}
                     /\ \E p \in Procs : At(p, "prompt"))
=============================================================================
