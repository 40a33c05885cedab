----------------------------- MODULE ShellParse -----------------------------
(* The parser of sh.c over the tokens that gettoken returns, and a reference  *)
(* definition of the same language.  "a" is a word, and its name is its place *)
(* in the line.  panic in the parser ends the process that parses.            *)
EXTENDS Integers, Sequences, FiniteSets, FiniteSetsExt, SequencesExt

CONSTANT MaxArgs  \* MAXARGS

Redirections == {"<", ">", ">>"}
Tokens == {"a", "|", "&", ";", "(", ")"} \union Redirections

\* struct execcmd and the others; the fd of a redirection is 0 or 1.
Exec(at, args)    == [type |-> "EXEC", at |-> at, args |-> args]
Redir(cmd, f, fd) == [type |-> "REDIR", cmd |-> cmd, file |-> f, fd |-> fd]
Pipe(l, rt)       == [type |-> "PIPE", left |-> l, right |-> rt]
List(l, rt)       == [type |-> "LIST", left |-> l, right |-> rt]
Back(cmd)         == [type |-> "BACK", cmd |-> cmd]

Fd(tok) == IF tok = "<" THEN 0 ELSE 1

\* What a parse function returns, and the next token; panic has none.
Parsed(cmd, i) == [cmd |-> cmd, i |-> i]
Panic == Parsed(<<>>, 0)
Bind(res, F(_, _)) == IF res.i = 0 THEN Panic ELSE F(res.cmd, res.i)

Peek(ts, i, S) == i <= Len(ts) /\ ts[i] \in S

RECURSIVE ParseLine(_, _), ParsePipe(_, _), ParseRedirs(_, _, _), ParseArgs(_, _, _, _, _), ParseBack(_, _, _)

ParseRedirs(cmd, ts, i) ==
  IF ~Peek(ts, i, Redirections) THEN Parsed(cmd, i)
  ELSE IF ~Peek(ts, i + 1, {"a"}) THEN Panic
  ELSE ParseRedirs(Redir(cmd, i + 1, Fd(ts[i])), ts, i + 2)

ParseBlock(ts, i) ==
  Bind(ParseLine(ts, i + 1),
       LAMBDA cmd, j : IF Peek(ts, j, {")"}) THEN ParseRedirs(cmd, ts, j + 1) ELSE Panic)

\* The redirections among the arguments go around the one execcmd, the last outside.
RECURSIVE WithArgs(_, _)
WithArgs(cmd, args) == IF cmd.type = "EXEC" THEN [cmd EXCEPT !.args = args]
                       ELSE [cmd EXCEPT !.cmd = WithArgs(@, args)]
ParseArgs(ret, args, argc, ts, i) ==
  IF i > Len(ts) \/ Peek(ts, i, {"|", ")", "&", ";"}) THEN Parsed(WithArgs(ret, args), i)
  ELSE IF ts[i] # "a" \/ argc + 1 >= MaxArgs THEN Panic
  ELSE Bind(ParseRedirs(ret, ts, i + 1),
            LAMBDA cmd, j : ParseArgs(cmd, Append(args, i), argc + 1, ts, j))

ParseExec(ts, i) ==
  IF Peek(ts, i, {"("}) THEN ParseBlock(ts, i)
  ELSE Bind(ParseRedirs(Exec(i, <<>>), ts, i), LAMBDA cmd, j : ParseArgs(cmd, <<>>, 0, ts, j))

ParsePipe(ts, i) ==
  Bind(ParseExec(ts, i),
       LAMBDA cmd, j : IF ~Peek(ts, j, {"|"}) THEN Parsed(cmd, j)
                       ELSE Bind(ParsePipe(ts, j + 1), LAMBDA rt, k : Parsed(Pipe(cmd, rt), k)))

ParseBack(cmd, ts, i) == IF Peek(ts, i, {"&"}) THEN ParseBack(Back(cmd), ts, i + 1) ELSE Parsed(cmd, i)

\* Mutant: & is looked for once.
ParseLine_OneBack(ts, i) ==
  Bind(ParsePipe(ts, i),
       LAMBDA c, j : IF Peek(ts, j, {"&"}) THEN Parsed(Back(c), j + 1)
                     ELSE IF ~Peek(ts, j, {";"}) THEN Parsed(c, j)
                     ELSE Bind(ParseLine(ts, j + 1), LAMBDA rt, m : Parsed(List(c, rt), m)))
ParseLine(ts, i) ==
  Bind(ParsePipe(ts, i),
       LAMBDA c, j :
         Bind(ParseBack(c, ts, j),
              LAMBDA cmd, k : IF ~Peek(ts, k, {";"}) THEN Parsed(cmd, k)
                              ELSE Bind(ParseLine(ts, k + 1), LAMBDA rt, m : Parsed(List(cmd, rt), m))))

\* parsecmd: a token that is left over is a syntax error.
ParseCmd(ts) == Bind(ParseLine(ts, 1), LAMBDA cmd, j : IF j = Len(ts) + 1 THEN Parsed(cmd, j) ELSE Panic)

-----------------------------------------------------------------------------
(* The reference: a line is split at its separators outside parentheses, the  *)
(* loosest first.  s .. e is a part of the line; Panic where nothing fits.    *)

RECURSIVE RefLine(_, _, _), RefBack(_, _, _), RefPipe(_, _, _)

Depth(ts, s, k) == Cardinality({i \in s..k : ts[i] = "("}) - Cardinality({i \in s..k : ts[i] = ")"})
Outside(ts, s, e, tok) == {k \in s..e : ts[k] = tok /\ Depth(ts, s, k) = 0}

RefRedirs(ts, S) == {i \in S : ts[i] \in Redirections}
RECURSIVE Around(_, _, _)
Around(cmd, ts, S) == IF S = {} THEN cmd ELSE Redir(Around(cmd, ts, S \ {Max(S)}), Max(S) + 1, Fd(ts[Max(S)]))

RefSimple(ts, s, e) ==
  LET files == {i + 1 : i \in RefRedirs(ts, s..e)}
      args  == {i \in s..e : ts[i] = "a"} \ files
  IN  IF /\ \A i \in s..e : ts[i] \in Redirections \union {"a"}
         /\ \A f \in files : f <= e /\ ts[f] = "a"
         /\ Cardinality(args) < MaxArgs
      THEN Parsed(Around(Exec(s, SetToSortSeq(args, <)), ts, RefRedirs(ts, s..e)), 1)
      ELSE Panic

\* A block: what its parenthesis encloses, then redirections only.
RefBlock(ts, s, e) ==
  LET ends == {k \in s+1..e : ts[k] = ")" /\ Depth(ts, s, k) = 0}
      k    == Min(ends)
      tail == RefRedirs(ts, k+1..e)
  IN  IF ends = {} \/ k+1..e # tail \union {i + 1 : i \in tail} \/ \E i \in tail : i + 1 > e \/ ts[i + 1] # "a"
      THEN Panic
      ELSE Bind(RefLine(ts, s + 1, k - 1), LAMBDA cmd, j : Parsed(Around(cmd, ts, tail), 1))

RefCmd(ts, s, e) == IF s <= e /\ ts[s] = "(" THEN RefBlock(ts, s, e) ELSE RefSimple(ts, s, e)

RefBoth(l, rt, Node(_, _)) == Bind(l, LAMBDA c, i : Bind(rt, LAMBDA d, j : Parsed(Node(c, d), 1)))

RefPipe(ts, s, e) ==
  LET bars == Outside(ts, s, e, "|")
  IN  IF bars = {} THEN RefCmd(ts, s, e)
      ELSE RefBoth(RefCmd(ts, s, Min(bars) - 1), RefPipe(ts, Min(bars) + 1, e), Pipe)

RefBack(ts, s, e) ==
  IF s <= e /\ ts[e] = "&" THEN Bind(RefBack(ts, s, e - 1), LAMBDA c, i : Parsed(Back(c), 1))
  ELSE RefPipe(ts, s, e)

RefLine(ts, s, e) ==
  LET semis == Outside(ts, s, e, ";")
  IN  IF semis = {} THEN RefBack(ts, s, e)
      ELSE RefBoth(RefBack(ts, s, Min(semis) - 1), RefLine(ts, Min(semis) + 1, e), List)
=============================================================================
