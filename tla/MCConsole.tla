----------------------------- MODULE MCConsole -----------------------------
(***************************************************************************)
(* The console of Console under names that are its own, which can stand    *)
(* beside those of Pipe: TLC runs this module, and Pipe_proofs proves what *)
(* the run checks for every value of the constants.                        *)
(***************************************************************************)
CONSTANTS Users, NoUser, BufSize, Width, Plain, MaxRead, Rows, Cols

VARIABLES inbuf, inr, inw, ine, conlock, proc, pos, panic

Con == INSTANCE Console WITH Procs <- Users, Nobody <- NoUser,
         buf <- inbuf, r <- inr, w <- inw, e <- ine, lock <- conlock

ASSUME ConConstants == Con!ConsoleAssumption

ConsoleSpec == Con!Spec

\* The buffer is an editable line and a queue of lines: Console's property.
ImplementsTerminal == Con!ImplementsTerminal

\* What is ready is read by whoever waits for it: Console's property.
LineRead == Con!LineRead
=============================================================================
