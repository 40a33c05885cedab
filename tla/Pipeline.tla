------------------------------ MODULE Pipeline ------------------------------
(***************************************************************************)
(* The polygon program of ex2: main runs the program of ex1, but its words *)
(* come from two readers that share its standard input, one for words      *)
(* written as one token and one for words written as two, and its output   *)
(* goes to a writer.  Main signals a reader over a pipe of its own and     *)
(* waits for the word on a pipe the readers share.                         *)
(*                                                                         *)
(* Standard input is a file, read unbuffered, so that every scanf takes    *)
(* the next token and none at the end of the file.  Tokens are written as  *)
(* the word they belong to and a part of it.                               *)
(***************************************************************************)
EXTENDS Polygon

CONSTANTS
  Inputs,       \* the sequences of words in the file
  Forms,        \* for each word, the reader its tag asks for
  Garbage,      \* whether the byte after main's buffer may be a digit
  NoWord        \* what a variable holds that no scanf has filled

Readers  == {"reader32", "reader64"}
Children == Readers \cup {"writer"}

Words == UNION {{s[k] : k \in 1..Len(s)} : s \in Inputs}

\* Every input comes to a word marked last, and every word has a form.
ASSUME PipelineAssumption ==
  /\ Forms \in [Words -> Readers]
  /\ Garbage \in BOOLEAN
  /\ NoWord \notin Words
  /\ \A w \in Words : w.last \in BOOLEAN
  /\ \A s \in Inputs : s \in Seq(Words) /\ \E k \in 1..Len(s) : s[k].last

VARIABLES
  stdin,                    \* the tokens left
  typed,                    \* the words main has not yet run
  list,                     \* main's list
  mpc, tag, word,           \* main: where it is, readerToRun, nextPolygon
  cpc,                      \* where each child is
  part, got,                \* what the readers have scanned
  signals, closed,          \* bytes in each reader's pipe; main's ends closed
  back,                     \* the words in the pipe from the readers
  waits,                    \* the children main still waits for
  buf, pipe, wbuf, file     \* output: main's buffer, pipe, writer's buffer, file

inVars  == <<stdin, typed>>
mainVars == <<list, mpc, tag, word, waits>>
readVars == <<cpc, part, got>>
outVars == <<buf, pipe, wbuf, file>>
vars == <<inVars, mainVars, readVars, signals, closed, back, outVars>>

\* The tokens of a word.
Tokens(w) ==
  IF Forms[w] = "reader64" THEN <<<<"tag", "reader64">>, <<"whole", w>>>>
  ELSE <<<<"tag", "reader32">>, <<"low", w>>, <<"high", w>>>>

AllTokens(s) == FlattenSeq([k \in 1..Len(s) |-> Tokens(s[k])])

\* main has opened the pipes and forked the writer and the readers.
Init ==
  /\ typed \in Inputs
  /\ stdin = AllTokens(typed)
  /\ list = <<>>
  /\ mpc = "tag" /\ tag = NoWord /\ word = NoWord
  /\ waits = 2
  /\ cpc = [c \in Children |-> IF c = "writer" THEN "copy" ELSE "signal"]
  /\ part = NoWord
  /\ got = [r \in Readers |-> NoWord]
  /\ signals = [r \in Readers |-> 0]
  /\ closed = {}
  /\ back = <<>>
  /\ buf = <<>> /\ pipe = <<>> /\ wbuf = <<>> /\ file = <<>>

\* scanf of a token of some kind into a variable with this value: another
\* kind of token makes no word, and at the end of the file nothing changes.
Scanned(kind, old) ==
  IF stdin = <<>> THEN old
  ELSE IF Head(stdin)[1] = kind THEN Head(stdin)[2] ELSE NoWord
ScanRest == IF stdin = <<>> THEN <<>> ELSE Tail(stdin)

-----------------------------------------------------------------------------
(* main *)

MainTag ==
  /\ mpc = "tag"
  /\ tag' = Scanned("tag", tag) /\ stdin' = ScanRest
  /\ mpc' = "signal"
  /\ UNCHANGED <<typed, list, word, waits, readVars, signals, closed, back, outVars>>

\* Mutant: main goes on to the next tag.
MainSignal_NoWait ==
  LET r == IF tag = "reader32" THEN "reader32" ELSE "reader64" IN
  /\ mpc = "signal"
  /\ signals' = [signals EXCEPT ![r] = @ + 1]
  /\ mpc' = IF stdin # <<>> THEN "tag" ELSE "read"
  /\ UNCHANGED <<inVars, list, tag, word, waits, readVars, closed, back, outVars>>

\* write(reader, "1", 1)
MainSignal ==
  LET r == IF tag = "reader32" THEN "reader32" ELSE "reader64" IN
  /\ mpc = "signal"
  /\ signals' = [signals EXCEPT ![r] = @ + 1]
  /\ mpc' = "read"
  /\ UNCHANGED <<inVars, list, tag, word, waits, readVars, closed, back, outVars>>

\* What sscanf makes of the sixteen characters: a word of fewer digits runs
\* on into the byte behind them, which nobody has set.
Parsed(w) == IF Garbage /\ w.short THEN {w, [w EXCEPT !.id = NoWord]} ELSE {w}

\* Mutant: a new polygon is added after the list was run through.
MainRun_AddsLast ==
  /\ mpc = "read" /\ back # <<>>
  /\ back' = Tail(back)
  /\ \E w \in Parsed(Head(back)) :
       /\ word' = w
       /\ list' = NewList(w, list)
       /\ buf' = buf \o IF w.runOn = "this" THEN RunAction(w.actions, w) ELSE DoAll(w, list)
       /\ mpc' = IF w.last THEN "stop" ELSE "tag"
  /\ typed' = Tail(typed)
  /\ UNCHANGED <<stdin, tag, waits, readVars, signals, closed, pipe, wbuf, file>>

\* read and sscanf, then runOnPolygon.
MainRun ==
  /\ mpc = "read" /\ back # <<>>
  /\ back' = Tail(back)
  /\ \E w \in Parsed(Head(back)) :
       /\ word' = w
       /\ list' = NewList(w, list)
       /\ buf' = buf \o Output(w, list)
       /\ mpc' = IF w.last THEN "stop" ELSE "tag"
  /\ typed' = Tail(typed)
  /\ UNCHANGED <<stdin, tag, waits, readVars, signals, closed, pipe, wbuf, file>>

\* write(reader64, "0\n", 2), which reader64 takes for two more signals.
MainStop ==
  /\ mpc = "stop"
  /\ signals' = [signals EXCEPT !["reader64"] = @ + 2]
  /\ mpc' = "close"
  /\ UNCHANGED <<inVars, list, tag, word, waits, readVars, closed, back, outVars>>

\* Mutant: one pipe is left open.
MainClose_One ==
  /\ mpc = "close"
  /\ closed' = {"reader64"}
  /\ mpc' = "wait"
  /\ UNCHANGED <<inVars, list, tag, word, waits, readVars, signals, back, outVars>>

MainClose ==
  /\ mpc = "close"
  /\ closed' = Readers
  /\ mpc' = "wait"
  /\ UNCHANGED <<inVars, list, tag, word, waits, readVars, signals, back, outVars>>

\* wait(NULL), twice: any child that has exited.
MainWait ==
  /\ mpc = "wait" /\ waits > 0
  /\ \E c \in Children :
       cpc[c] = "exited" /\ cpc' = [cpc EXCEPT ![c] = "reaped"]
  /\ waits' = waits - 1
  /\ UNCHANGED <<inVars, list, mpc, tag, word, part, got, signals, closed, back,
                 outVars>>

\* Mutant: main ends without the flush that exit makes.
MainExit_NoFlush ==
  /\ mpc = "wait" /\ waits = 0
  /\ mpc' = "exited"
  /\ UNCHANGED <<inVars, list, tag, word, waits, readVars, signals, closed, back,
                 outVars>>

\* The end of main, which flushes what is left of the output.
MainExit ==
  /\ mpc = "wait" /\ waits = 0
  /\ pipe' = pipe \o buf /\ buf' = <<>>
  /\ mpc' = "exited"
  /\ UNCHANGED <<inVars, list, tag, word, waits, readVars, signals, closed, back,
                 wbuf, file>>

\* stdio hands the output on when its buffer is full.
Flush ==
  /\ mpc # "exited" /\ buf # <<>>
  /\ pipe' = pipe \o buf /\ buf' = <<>>
  /\ UNCHANGED <<inVars, mainVars, readVars, signals, closed, back, wbuf, file>>

-----------------------------------------------------------------------------
(* The readers *)

\* Mutant: the end of the pipe is not told from a byte.
ReaderSignal_IgnoresEnd(r) ==
  /\ cpc[r] = "signal"
  /\ signals[r] > 0 \/ r \in closed
  /\ signals' = [signals EXCEPT ![r] = @ - 1]
  /\ cpc' = [cpc EXCEPT ![r] = IF r = "reader32" THEN "low" ELSE "scan"]
  /\ UNCHANGED <<inVars, mainVars, part, got, closed, back, outVars>>

\* read(INSIG): one byte, or the end of the pipe.
ReaderSignal(r) ==
  /\ cpc[r] = "signal"
  /\ \/ /\ signals[r] > 0
        /\ signals' = [signals EXCEPT ![r] = @ - 1]
        /\ cpc' = [cpc EXCEPT ![r] = IF r = "reader32" THEN "low" ELSE "scan"]
     \/ /\ signals[r] = 0 /\ r \in closed
        /\ cpc' = [cpc EXCEPT ![r] = "exited"]
        /\ UNCHANGED signals
  /\ UNCHANGED <<inVars, mainVars, part, got, closed, back, outVars>>

\* reader32's first scanf.
ReaderLow ==
  /\ cpc["reader32"] = "low"
  /\ part' = Scanned("low", part) /\ stdin' = ScanRest
  /\ cpc' = [cpc EXCEPT !["reader32"] = "scan"]
  /\ UNCHANGED <<typed, mainVars, got, signals, closed, back, outVars>>

\* reader32's second scanf, whose result it puts above the first, and
\* reader64's only one.
ReaderScan(r) ==
  /\ cpc[r] = "scan"
  /\ got' = [got EXCEPT ![r] = Scanned(IF r = "reader32" THEN "high" ELSE "whole", @)] /\ stdin' = ScanRest
  /\ cpc' = [cpc EXCEPT ![r] = "write"]
  /\ UNCHANGED <<typed, mainVars, part, signals, closed, back, outVars>>

\* write(OUTPUT): sixteen characters at once, in reader32 of the two parts.
ReaderWrite(r) ==
  /\ cpc[r] = "write"
  /\ back' = Append(back, IF r = "reader32" /\ part # got[r] THEN NoWord ELSE got[r])
  /\ cpc' = [cpc EXCEPT ![r] = "signal"]
  /\ UNCHANGED <<inVars, mainVars, part, got, signals, closed, outVars>>

-----------------------------------------------------------------------------
(* The writer *)

WriterCopy ==
  /\ cpc["writer"] = "copy" /\ pipe # <<>>
  /\ wbuf' = Append(wbuf, Head(pipe)) /\ pipe' = Tail(pipe)
  /\ UNCHANGED <<inVars, mainVars, readVars, signals, closed, back, buf, file>>

\* The end of its input comes when main and the readers, which inherited its
\* standard output, have all exited; then the writer's own buffer is flushed.
WriterEnd ==
  /\ cpc["writer"] = "copy" /\ pipe = <<>>
  /\ mpc = "exited" /\ \A r \in Readers : cpc[r] \in {"exited", "reaped"}
  /\ file' = wbuf
  /\ cpc' = [cpc EXCEPT !["writer"] = "exited"]
  /\ UNCHANGED <<inVars, mainVars, part, got, signals, closed, back, buf, pipe, wbuf>>

-----------------------------------------------------------------------------

Main == MainTag \/ MainSignal \/ MainRun \/ MainStop \/ MainClose \/ MainWait \/ MainExit

Reader(r) ==
  ReaderSignal(r) \/ (r = "reader32" /\ ReaderLow) \/ ReaderScan(r) \/ ReaderWrite(r)

Writer == WriterCopy \/ WriterEnd

Next == Main \/ Flush \/ (\E r \in Readers : Reader(r)) \/ Writer

Spec == Init /\ [][Next]_vars

\* The operating system runs every process that can run.
FairSpec ==
  Spec /\ WF_vars(Main) /\ WF_vars(Writer) /\ \A r \in Readers : WF_vars(Reader(r))

-----------------------------------------------------------------------------
(* Properties *)

\* The type invariant of main, the readers and the writer.
TypeOK ==
  /\ mpc \in {"tag", "signal", "read", "stop", "close", "wait", "exited"}
  /\ tag \in {NoWord} \cup Readers
  /\ cpc \in [Children -> {"signal", "low", "scan", "write", "copy", "exited", "reaped"}]
  /\ signals \in [Readers -> 0..2]
  /\ closed \subseteq Readers
  /\ waits \in 0..2

\* One process at a time reads the input that all three share: when main or a
\* reader is about to scan, no other is, and none has been told to.
OneScanner ==
  mpc \notin {"close", "wait", "exited"} =>
    LET busy == {r \in Readers : cpc[r] \in {"low", "scan", "write"}}
        told == {r \in Readers : signals[r] > 0}
    IN  /\ mpc \in {"tag", "signal"} => busy = {} /\ told = {} /\ back = <<>>
        /\ mpc = "read" => \A r \in busy : busy = {r} /\ told = {} /\ back = <<>>

\* The four processes print what the one of ex1 prints, in the same order: the
\* output on its way through main's buffer, the pipe and the writer's buffer.
Sequential == INSTANCE PolygonList WITH
  input <- typed,
  out <- wbuf \o pipe \o buf,
  done <- mpc \in {"stop", "close", "wait", "exited"}
ImplementsList == Sequential!Spec

\* main's two waits reap the two readers, and the writer has written
\* everything when it ends.
NothingLost ==
  cpc["writer"] = "exited" =>
    /\ \A r \in Readers : cpc[r] = "reaped"
    /\ file = wbuf /\ buf = <<>> /\ pipe = <<>>

\* All four processes end.
Termination == <>(cpc["writer"] = "exited" /\ mpc = "exited")
=============================================================================
