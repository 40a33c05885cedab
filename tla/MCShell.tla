------------------------------ MODULE MCShell ------------------------------
(* Every line of MCLen tokens or fewer, and longer ones that nest. *)
EXTENDS Shell, ShellParse
CONSTANT MCLen
MCTokens == Tokens \ {">>"}
MCLines == UNION {[1..n -> MCTokens] : n \in 0..MCLen} \union
  { <<"a", "|", "a", ";", "a">>, <<"a", ";", "a", "|", "a">>, <<"a", "|", "a", "|", "a">>,
    <<"(", "a", ";", "a", ")", "|", "a">>, <<"a", "|", "(", "a", ";", "a", ")">>,
    <<"(", "a", "|", "a", ")", "|", "a">>, <<"(", "a", "&", ")", "|", "a">>,
    <<"a", "|", "a", "&", ";", "a">>, <<"(", "a", ";", "a", ")", "&", ";", "a">>,
    <<"a", ">", "a", "<", "a">>, <<"(", "a", "|", "a", ")", ">", "a">>, <<"a", "<", "a", "|", "a", ">", "a">>,
    <<"(", "a", ";", "a", "<", "a", ";", "a", ")", "|", "a">>, <<"a", "|", "(", "a", ";", "a", "<", "a", ";", "a", ")">>,
    <<"(", "a", "&", ")", ";", "(", "a", "|", "a", ")">>, <<"a", ">", "a", ">", "a">>, <<"a", "a", "a", "a", "a">> }

\* The nodes of the tree that a parse function returns.
RECURSIVE Nodes(_)
Nodes(cmd) ==
  CASE cmd.type = "EXEC" -> <<cmd>>
    [] cmd.type \in {"REDIR", "BACK"} -> LET sub == Nodes(cmd.cmd) IN Append(sub, [cmd EXCEPT !.cmd = Len(sub)])
    [] OTHER -> LET l  == Nodes(cmd.left)
                    rt == Nodes(cmd.right)
                    Moved(node) == [f \in DOMAIN node |-> IF f \in {"cmd", "left", "right"} THEN node[f] + Len(l) ELSE node[f]]
                IN  l \o [k \in DOMAIN rt |-> Moved(rt[k])] \o <<[cmd EXCEPT !.left = Len(l), !.right = Len(l) + Len(rt)]>>
TreeOf(res) == IF res.i = 0 THEN <<>> ELSE Nodes(res.cmd)
MCParse == [l \in MCLines |-> TreeOf(ParseCmd(l))]

\* The recursive descent of parsecmd finds the tree that splitting the line at
\* its separators gives, and panics on the same lines.
ParserAgrees == \A p \in Procs : At(p, "typed") =>
                  LET line == lines[proc[p].line].text
                  IN  Tree(proc[p].line) = TreeOf(RefLine(line, 1, Len(line)))
=============================================================================
