------------------------------ MODULE Terminal ------------------------------
(* What the console promises to those who read it: what is typed is a line    *)
(* that can be edited until it is ended, then it is read once, in order, by   *)
(* whoever asks first; ^D ends a line without being part of it.               *)
EXTENDS Integers, Sequences, SequencesExt

CONSTANTS Procs, Capacity, Chars, Idle, MaxRead

VARIABLES line,   \* typed and still edited
          ready,  \* typed lines that nobody has read yet
          got,    \* what each call of read has so far, or Idle
          want,   \* how much it asks for, 0 for none
          killed  \* the processes that were killed during a call
tvars == <<line, ready, got, want, killed>>
calls == <<got, want, killed>>

Init == /\ line = <<>> /\ ready = <<>>
        /\ got = [p \in Procs |-> Idle] /\ want = [p \in Procs |-> 0] /\ killed = {}

Erase == line # <<>> /\ line' = Front(line) /\ UNCHANGED <<ready, calls>>
Kill  == line' = <<>> /\ UNCHANGED <<ready, calls>>

Type(c) ==
  LET full == Len(ready) + Len(line) + 1 = Capacity
      l == Append(line, c)
  IN  /\ Len(ready) + Len(line) < Capacity
      /\ IF c \in {"nl", "eof"} \/ full
         THEN ready' = ready \o l /\ line' = <<>>
         ELSE line' = l /\ UNCHANGED ready
      /\ UNCHANGED calls

Begin(p, n) == /\ got[p] = Idle
               /\ got' = [got EXCEPT ![p] = <<>>] /\ want' = [want EXCEPT ![p] = n]
               /\ UNCHANGED <<line, ready, killed>>

\* A read has all it will get: it ends a line, or is as long as was asked.
Served(p) == got[p] # <<>> /\ (Last(got[p]) = "nl" \/ Len(got[p]) = want[p])

\* The next character of the lines is p's, but for the mark of the end.
Take(p) ==
  /\ got[p] # Idle /\ ~Served(p) /\ ready # <<>> /\ Head(ready) # "eof"
  /\ got' = [got EXCEPT ![p] = Append(@, Head(ready))]
  /\ ready' = Tail(ready)
  /\ UNCHANGED <<line, want, killed>>

Interrupt(p) == /\ got[p] # Idle
                /\ killed' = killed \union {p}
                /\ UNCHANGED <<line, ready, got, want>>

\* A read returns only when it is served, at the mark, which it takes away if it
\* returns nothing else, or when its process was killed and nothing is ready.
Over(p) == /\ got' = [got EXCEPT ![p] = Idle] /\ want' = [want EXCEPT ![p] = 0]
           /\ killed' = killed \ {p}
           /\ UNCHANGED line
Return(p) == got[p] # Idle /\ Served(p) /\ Over(p) /\ UNCHANGED ready
AtMark(p) == /\ got[p] # Idle /\ ~Served(p) /\ ready # <<>> /\ Head(ready) = "eof"
             /\ Over(p)
             /\ ready' = IF got[p] = <<>> THEN Tail(ready) ELSE ready
Abort(p)  == got[p] # Idle /\ ~Served(p) /\ p \in killed /\ ready = <<>> /\ Over(p) /\ UNCHANGED ready

Next == \/ Erase \/ Kill \/ \E c \in Chars : Type(c)
        \/ \E p \in Procs : \/ \E n \in 1..MaxRead : Begin(p, n)
                            \/ Take(p) \/ Interrupt(p) \/ Return(p) \/ AtMark(p) \/ Abort(p)

Spec == Init /\ [][Next]_tvars
=============================================================================
