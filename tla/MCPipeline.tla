----------------------------- MODULE MCPipeline -----------------------------
(* Instances of Pipeline for TLC. *)
EXTENDS Pipeline

Word(n, sh, end, add, kind, what, whom) ==
  [id |-> n, short |-> sh, last |-> end, new |-> add, type |-> kind,
   actions |-> what, runOn |-> whom]

Square   == Word(1, FALSE, FALSE, TRUE, "square", {"vertices", "area"}, "this")
Triangle == Word(2, TRUE, FALSE, TRUE, "triangle", {"perimeter"}, "squares")
Again    == Word(3, TRUE, FALSE, FALSE, "square", {"area"}, "triangles")
LastAll  == Word(4, FALSE, TRUE, TRUE, "square", {"vertices"}, "all")
LastThis == Word(5, TRUE, TRUE, FALSE, "triangle", {"perimeter"}, "this")

MCInputs == {s \o t : s \in {<<>>, <<Square>>, <<Square, Triangle>>,
                             <<Triangle, Again>>, <<Triangle, Square, Again>>},
                      t \in {<<LastAll>>, <<LastThis>>, <<LastAll, Square>>}}

MCForms == [w \in Words |-> IF w.id \in {2, 4} THEN "reader32" ELSE "reader64"]
=============================================================================
