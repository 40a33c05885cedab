------------------------------ MODULE Console ------------------------------
(* The console: console.c over the serial line and the keyboard.  The input   *)
(* is a circular buffer with three unsigned indices that wrap around; the     *)
(* processes that read and write it, and the interrupt that fills it, share   *)
(* cons.lock.  A step is one character under the lock.                        *)
EXTENDS Integers, Sequences, FiniteSets

CONSTANTS Procs, Nobody,
          BufSize,   \* INPUT_BUF
          Width,     \* the values of a uint: indices are counted modulo it
          Plain,     \* characters other than those named below
          MaxRead,   \* the largest n of read and write
          Rows, Cols \* 25 and 80

\* What the constants must satisfy, which a module that declares them assumes.
ConsoleAssumption ==
  /\ Nobody \notin Procs
  /\ Plain \intersect {"nl", "eof", "bs", "kill"} = {}
  /\ {BufSize, Width, MaxRead, Rows, Cols} \subseteq Nat \ {0}
  /\ Width % BufSize = 0 /\ Width > BufSize /\ Rows > 1

\* nl is '\n', eof ^D; bs and kill, ^H and ^U, edit and are never in the buffer.
Chars == Plain \union {"nl", "eof"}
Keys  == Chars \union {"bs", "kill"}

VARIABLES buf, r, w, e,  \* struct input
          lock,          \* cons.lock
          proc,          \* where each process is in consoleread or consolewrite
          pos,           \* the cursor of the screen
          panic
vars == <<buf, r, w, e, lock, proc, pos, panic>>

Free == [pc |-> "user", n |-> 0, got |-> <<>>, killed |-> FALSE]

Init ==
  /\ buf = [i \in 0..BufSize-1 |-> "nul"]
  /\ r = 0 /\ w = 0 /\ e = 0
  /\ lock = Nobody
  /\ proc = [p \in Procs |-> Free]
  /\ pos = 0 /\ panic = FALSE

Plus(i, k) == (i + k) % Width
Minus(i, k) == (i + Width - k) % Width
At(i) == buf[i % BufSize]

(* --- cgaputc -------------------------------------------------------------- *)

\* Where the cursor goes; past the last line but one, the screen scrolls.
Moved(c) == IF c = "nl" THEN pos + Cols - (pos % Cols)
            ELSE IF c = "bs" THEN IF pos > 0 THEN pos - 1 ELSE pos
            ELSE pos + 1
\* Mutant: the cursor stays below the screen.
Scrolled_Not(k) == k
Scrolled(k) == IF k \div Cols >= Rows - 1 THEN k - Cols ELSE k
Consputc(c) ==
  IF Moved(c) > Rows * Cols THEN panic' = TRUE /\ UNCHANGED pos
  ELSE pos' = Scrolled(Moved(c)) /\ UNCHANGED panic

(* --- consoleintr ---------------------------------------------------------- *)

\* Mutant: one of the readers is woken.
Woken_One == [p \in Procs |-> IF proc[p].pc = "asleep" /\ p = (CHOOSE q \in Procs : proc[q].pc = "asleep")
                              THEN [proc[p] EXCEPT !.pc = "woken"] ELSE proc[p]]
Woken == [p \in Procs |-> IF proc[p].pc = "asleep" THEN [proc[p] EXCEPT !.pc = "woken"] ELSE proc[p]]

\* Mutant: a full buffer is counted from the line that is edited.
Room_Edit == Minus(e, w) < BufSize
Room == Minus(e, r) < BufSize

\* A character: the line is ready at its end, at ^D, or when the buffer is full.
EndsLine(c) == c \in {"nl", "eof"} \/ Plus(e, 1) = Plus(r, BufSize)
TypeChar(c) ==
  /\ ~panic /\ lock = Nobody /\ Room
  /\ buf' = [buf EXCEPT ![e % BufSize] = c]
  /\ e' = Plus(e, 1)
  /\ IF EndsLine(c) THEN w' = Plus(e, 1) /\ proc' = Woken ELSE UNCHANGED <<w, proc>>
  /\ Consputc(c)
  /\ UNCHANGED <<r, lock>>

Editable == e # w
Backspace ==
  /\ ~panic /\ lock = Nobody /\ Editable
  /\ e' = Minus(e, 1)
  /\ Consputc("bs")
  /\ UNCHANGED <<buf, r, w, lock, proc>>

\* ^U is that many backspaces, down to the line's start.
KillLine ==
  /\ ~panic /\ lock = Nobody /\ e # w
  /\ e' = w
  /\ pos' = LET k == Minus(e, w) IN IF k > pos THEN 0 ELSE pos - k
  /\ UNCHANGED <<buf, r, w, lock, proc, panic>>

(* --- consoleread ---------------------------------------------------------- *)

Goto(p, pc) == proc' = [proc EXCEPT ![p].pc = pc]

ReadStart(p, n) ==
  /\ ~panic /\ proc[p].pc = "user" /\ lock = Nobody
  /\ lock' = p
  /\ proc' = [proc EXCEPT ![p] = [@ EXCEPT !.pc = "read", !.n = n]]
  /\ UNCHANGED <<buf, r, w, e, pos, panic>>

\* The read returns: cons.lock is released.  A killed process exits.
Return(p) == lock' = Nobody /\ proc' = [proc EXCEPT ![p] = Free]

\* Nothing is ready: killed, or sleep on &input.r.  A kill, which takes another
\* lock, may come in between.
ReadTest(p) ==
  /\ ~panic /\ proc[p].pc = "read" /\ lock = p /\ r = w
  /\ IF proc[p].killed THEN Return(p) ELSE Goto(p, "sleep") /\ UNCHANGED lock
  /\ UNCHANGED <<buf, r, w, e, pos, panic>>

ReadSleep(p) ==
  /\ ~panic /\ proc[p].pc = "sleep"
  /\ lock' = Nobody /\ Goto(p, "asleep")
  /\ UNCHANGED <<buf, r, w, e, pos, panic>>

ReadAgain(p) ==
  /\ ~panic /\ proc[p].pc = "woken" /\ lock = Nobody
  /\ lock' = p /\ Goto(p, "read")
  /\ UNCHANGED <<buf, r, w, e, pos, panic>>

\* A character: the call ends with ^D, which is kept for the next one if this
\* one returns something, with '\n', or with n characters.
\* Mutant: ^D is not kept.
KeepsEof_Never(p) == FALSE
KeepsEof(p) == proc[p].got # <<>>
ReadChar(p) ==
  /\ ~panic /\ proc[p].pc = "read" /\ lock = p /\ r # w
  /\ LET c == At(r)
         got == Append(proc[p].got, c)
     IN  IF c = "eof"
         THEN /\ r' = IF KeepsEof(p) THEN r ELSE Plus(r, 1)
              /\ Return(p)
         ELSE /\ r' = Plus(r, 1)
              /\ proc' = [proc EXCEPT ![p].got = got,
                                      ![p].pc = IF c = "nl" \/ Len(got) = proc[p].n THEN "done" ELSE "read"]
              /\ UNCHANGED lock
  /\ UNCHANGED <<buf, w, e, pos, panic>>

ReadReturn(p) ==
  /\ ~panic /\ proc[p].pc = "done"
  /\ Return(p)
  /\ UNCHANGED <<buf, r, w, e, pos, panic>>

\* kill wakes a process that sleeps in consoleread.
Kill(p) ==
  /\ ~panic /\ proc[p].pc \in {"asleep", "woken", "read", "sleep"} /\ ~proc[p].killed
  /\ proc' = [proc EXCEPT ![p].killed = TRUE,
                          ![p].pc = IF @ = "asleep" THEN "woken" ELSE @]
  /\ UNCHANGED <<buf, r, w, e, lock, pos, panic>>

(* --- consolewrite and cprintf --------------------------------------------- *)

WriteStart(p, n) ==
  /\ ~panic /\ proc[p].pc = "user" /\ lock = Nobody
  /\ lock' = p
  /\ proc' = [proc EXCEPT ![p] = [@ EXCEPT !.pc = "write", !.n = n]]
  /\ UNCHANGED <<buf, r, w, e, pos, panic>>

WriteChar(p, c) ==
  /\ ~panic /\ proc[p].pc = "write" /\ proc[p].n > 0
  /\ Consputc(c)
  /\ proc' = [proc EXCEPT ![p].n = @ - 1]
  /\ UNCHANGED <<buf, r, w, e, lock>>

WriteReturn(p) ==
  /\ ~panic /\ proc[p].pc = "write" /\ proc[p].n = 0
  /\ Return(p)
  /\ UNCHANGED <<buf, r, w, e, pos, panic>>

Typing == (\E c \in Chars : TypeChar(c)) \/ Backspace \/ KillLine
Steps(p) == \/ ReadTest(p) \/ ReadSleep(p) \/ ReadAgain(p) \/ ReadChar(p) \/ ReadReturn(p)
            \/ (\E c \in Chars : WriteChar(p, c)) \/ WriteReturn(p)
Calls(p) == (\E n \in 1..MaxRead : ReadStart(p, n) \/ WriteStart(p, n)) \/ Kill(p)

Next == Typing \/ \E p \in Procs : Steps(p) \/ Calls(p)

\* A process goes on; one that waits for cons.lock gets it in the end.
Fairness == \A p \in Procs : WF_vars(Steps(p)) /\ SF_vars(ReadAgain(p))

Spec == Init /\ [][Next]_vars /\ Fairness

-----------------------------------------------------------------------------
\* The indices stay in order around the circle, e at most a buffer ahead of r:
\* no character that was not read is overwritten, by however many wraps.
IndexOrder == /\ r \in 0..Width-1 /\ w \in 0..Width-1 /\ e \in 0..Width-1
              /\ Minus(e, r) <= BufSize
              /\ Minus(w, r) <= Minus(e, r)

\* "pos under/overflow" is never reached.
NoPanic == ~panic

\* The abstract terminal, whose lines are the two parts of the buffer.
Content(i, j) == [k \in 1..Minus(j, i) |-> At(Plus(i, k - 1))]
Call(p) == proc[p].pc \notin {"user", "write"}   \* p is in consoleread
T == INSTANCE Terminal
       WITH Capacity <- BufSize, Idle <- <<"bs">>,
            line <- Content(w, e), ready <- Content(r, w),
            got <- [p \in Procs |-> IF Call(p) THEN proc[p].got ELSE <<"bs">>],
            want <- [p \in Procs |-> IF Call(p) THEN proc[p].n ELSE 0],
            killed <- {p \in Procs : proc[p].killed}

\* Typing, editing and reading through the circular buffer is what the terminal
\* promises: nothing is lost, doubled or reordered, ended lines stay, and a read
\* returns at the end of a line, with n characters, at ^D or when killed.
ImplementsTerminal == T!Spec

\* A read that waits while a character is ready is not passed by for ever: what
\* is ready is read, by this call, which ends, or by others.  No wakeup is lost,
\* and whoever has cons.lock lets the others in.
Waits(p) == proc[p].pc \in {"read", "sleep", "asleep", "woken"}
LineRead == \A p \in Procs : r # w /\ Waits(p) ~> r = w \/ ~Waits(p)
=============================================================================
