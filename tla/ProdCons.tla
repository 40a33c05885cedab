----------------------------- MODULE ProdCons -----------------------------
(***************************************************************************)
(* The producer/consumer program pc.c: a parent, its producers and its     *)
(* consumers over five kernel semaphores.  A semaphore call is one step,   *)
(* blocked while sem_wait finds no unit or sem_unlink finds a reference;   *)
(* module Sem shows the kernel gives a single-opener program this view.    *)
(*                                                                         *)
(* The bytes of a message are left out: printing one is the step that adds *)
(* to produced or consumed.                                                *)
(***************************************************************************)
EXTENDS Integers, FiniteSets

CONSTANTS
  Prods, Conss,     \* the children, by what they are forked to do
  MsgNumPerProd,    \* messages each producer prints
  MAX_MSG,          \* the size of the buffer
  ForkMayFail       \* whether fork can run out of processes or memory

\* What the constants must satisfy, which a module that declares them assumes.
PCAssumption ==
  /\ IsFiniteSet(Prods) /\ Prods # {}
  /\ IsFiniteSet(Conss) /\ Conss # {}
  /\ Prods \cap Conss = {}
  /\ MsgNumPerProd \in Nat \ {0}
  /\ MAX_MSG \in Nat \ {0}
  /\ ForkMayFail \in BOOLEAN

Children == Prods \cup Conss
prodNum  == Cardinality(Prods)
consNum  == Cardinality(Conss)
AllMsgs  == prodNum * MsgNumPerProd

VARIABLES
  par, i,                       \* the parent: where it is, its loop variable
  pc, left,                     \* the children: where each is, messages to print
  waitc,                        \* references to the semaphore "waitc"
  buffa, buffb, total, write,   \* the counts of the others
  produced, consumed            \* messages printed so far

parVars == <<par, i>>
semVars == <<buffa, buffb, total, write>>
msgVars == <<produced, consumed>>
vars == <<parVars, pc, left, waitc, semVars, msgVars>>

\* The five sem_opens; the parent holds the only reference to "waitc".
Init ==
  /\ par = "forkprod" /\ i = 0
  /\ pc = [c \in Children |-> "unborn"]
  /\ left = [c \in Children |-> IF c \in Prods THEN MsgNumPerProd ELSE 0]
  /\ waitc = 1
  /\ buffa = MAX_MSG
  /\ buffb = 0
  /\ total = AllMsgs
  /\ write = 1
  /\ produced = 0 /\ consumed = 0

\* sem_post: refused, with a result pc.c does not look at, at the maximum.
Posted(count, maxVal) == IF count = maxVal THEN count ELSE count + 1

Born == {c \in Children : pc[c] # "unborn"}
Kids == {c \in Born : pc[c] # "reaped"}

Step(c, from, to) == pc[c] = from /\ pc' = [pc EXCEPT ![c] = to]

-----------------------------------------------------------------------------
(* The parent *)

\* The step of a fork loop: a child of the set S with a copy of every
\* descriptor, or nothing when fork fails, which pc.c does not notice.
Fork(loop, S, num) ==
  /\ par = loop /\ i < num
  /\ i' = i + 1
  /\ \/ /\ \E c \in S \ Born : pc' = [pc EXCEPT ![c] = "close"]
        /\ waitc' = waitc + 1
     \/ ForkMayFail /\ UNCHANGED <<pc, waitc>>
  /\ UNCHANGED <<par, left, semVars, msgVars>>

ForkProd == Fork("forkprod", Prods, prodNum)
ForkCons == Fork("forkcons", Conss, consNum)

ForkProdEnd ==
  /\ par = "forkprod" /\ i = prodNum
  /\ par' = "forkcons" /\ i' = 0
  /\ UNCHANGED <<pc, left, waitc, semVars, msgVars>>

\* write_parent_msg and sem_close(waitcd).
CloseWaitc ==
  /\ par = "forkcons" /\ i = consNum
  /\ waitc' = waitc - 1
  /\ par' = "wait" /\ i' = 0
  /\ UNCHANGED <<pc, left, semVars, msgVars>>

\* wait(): reaps a zombie, fails when there are no children, else blocks.
Wait ==
  /\ par = "wait" /\ i < consNum + prodNum
  /\ i' = i + 1
  /\ \/ \E c \in Kids : Step(c, "zombie", "reaped")
     \/ Kids = {} /\ UNCHANGED pc
  /\ UNCHANGED <<par, left, waitc, semVars, msgVars>>

\* Mutant: only as many children are waited for as there are consumers.
WaitEnd_ConsOnly ==
  /\ par = "wait" /\ i = consNum
  /\ par' = "unlink" /\ i' = 0
  /\ UNCHANGED <<pc, left, waitc, semVars, msgVars>>

WaitEnd ==
  /\ par = "wait" /\ i = consNum + prodNum
  /\ par' = "unlink" /\ i' = 0
  /\ UNCHANGED <<pc, left, waitc, semVars, msgVars>>

\* sem_close and sem_unlink of the four remaining semaphores: a child holds
\* its references to them until it has exited.
Unlink ==
  /\ par = "unlink" /\ i < 4
  /\ \A c \in Kids : pc[c] = "zombie"
  /\ i' = i + 1
  /\ UNCHANGED <<par, pc, left, waitc, semVars, msgVars>>

ParentExit ==
  /\ par = "unlink" /\ i = 4
  /\ par' = "done"
  /\ UNCHANGED <<i, pc, left, waitc, semVars, msgVars>>

Parent ==
  ForkProd \/ ForkProdEnd \/ ForkCons \/ CloseWaitc \/ Wait \/ WaitEnd
    \/ Unlink \/ ParentExit

-----------------------------------------------------------------------------
(* A child *)

\* sem_close(waitcd)
CloseBarrier(c) ==
  /\ Step(c, "close", "barrier")
  /\ waitc' = waitc - 1
  /\ UNCHANGED <<parVars, left, semVars, msgVars>>

\* Mutant: sem_unlink does not wait.
PassBarrier_NoWait(c) ==
  /\ Step(c, "barrier", "loop")
  /\ UNCHANGED <<parVars, left, waitc, semVars, msgVars>>

\* sem_unlink("waitc") returns once nobody holds a reference.
PassBarrier(c) ==
  /\ Step(c, "barrier", "loop")
  /\ waitc = 0
  /\ UNCHANGED <<parVars, left, waitc, semVars, msgVars>>

\* Mutant: the producer does not wait for a free spot.
ProdWait_NoWait(c) ==
  /\ c \in Prods /\ left[c] > 0
  /\ Step(c, "loop", "lock")
  /\ UNCHANGED <<parVars, left, waitc, semVars, msgVars>>

\* sem_wait(buffa)
ProdWait(c) ==
  /\ c \in Prods /\ left[c] > 0
  /\ Step(c, "loop", "lock")
  /\ buffa > 0
  /\ buffa' = buffa - 1
  /\ UNCHANGED <<parVars, left, waitc, buffb, total, write, msgVars>>

\* sem_try_wait(totald)
ConsTry(c) ==
  /\ c \in Conss /\ total > 0
  /\ Step(c, "loop", "take")
  /\ total' = total - 1
  /\ UNCHANGED <<parVars, left, waitc, buffa, buffb, write, msgVars>>

\* Mutant: the consumer does not wait for a filled spot.
ConsWait_NoWait(c) ==
  /\ Step(c, "take", "lock")
  /\ UNCHANGED <<parVars, left, waitc, semVars, msgVars>>

\* sem_wait(buffb)
ConsWait(c) ==
  /\ Step(c, "take", "lock")
  /\ buffb > 0
  /\ buffb' = buffb - 1
  /\ UNCHANGED <<parVars, left, waitc, buffa, total, write, msgVars>>

\* Mutants: the unit is taken without looking; sem_try_wait in place of
\* sem_wait, its result not looked at.
Lock_NoWait(c) ==
  /\ Step(c, "lock", "write")
  /\ write' = write - 1
  /\ UNCHANGED <<parVars, left, waitc, buffa, buffb, total, msgVars>>

Lock_Try(c) ==
  /\ Step(c, "lock", "write")
  /\ write' = IF write > 0 THEN write - 1 ELSE write
  /\ UNCHANGED <<parVars, left, waitc, buffa, buffb, total, msgVars>>

\* sem_wait(write)
Lock(c) ==
  /\ Step(c, "lock", "write")
  /\ write > 0
  /\ write' = write - 1
  /\ UNCHANGED <<parVars, left, waitc, buffa, buffb, total, msgVars>>

\* write_prod_msg or write_cons_msg
PrintMsg(c) ==
  /\ Step(c, "write", "unlock")
  /\ IF c \in Prods
     THEN /\ produced' = produced + 1 /\ UNCHANGED consumed
          /\ left' = [left EXCEPT ![c] = @ - 1]
     ELSE consumed' = consumed + 1 /\ UNCHANGED <<produced, left>>
  /\ UNCHANGED <<parVars, waitc, semVars>>

\* sem_post(write)
Unlock(c) ==
  /\ Step(c, "unlock", "post")
  /\ write' = Posted(write, 1)
  /\ UNCHANGED <<parVars, left, waitc, buffa, buffb, total, msgVars>>

\* Mutant: a consumer does not give its spot back.
Post_ProdOnly(c) ==
  /\ Step(c, "post", "loop")
  /\ IF c \in Prods
     THEN buffb' = Posted(buffb, MAX_MSG) /\ UNCHANGED buffa
     ELSE UNCHANGED <<buffa, buffb>>
  /\ UNCHANGED <<parVars, left, waitc, total, write, msgVars>>

\* sem_post(buffb) by a producer, sem_post(buffa) by a consumer
Post(c) ==
  /\ Step(c, "post", "loop")
  /\ IF c \in Prods
     THEN buffb' = Posted(buffb, MAX_MSG) /\ UNCHANGED buffa
     ELSE buffa' = Posted(buffa, MAX_MSG) /\ UNCHANGED buffb
  /\ UNCHANGED <<parVars, left, waitc, total, write, msgVars>>

\* exit(): the loop is done, or sem_try_wait(totald) found no message left.
Exit(c) ==
  /\ IF c \in Prods THEN left[c] = 0 ELSE total = 0
  /\ Step(c, "loop", "zombie")
  /\ UNCHANGED <<parVars, left, waitc, semVars, msgVars>>

Child(c) ==
  \/ CloseBarrier(c) \/ PassBarrier(c)
  \/ ProdWait(c) \/ ConsTry(c) \/ ConsWait(c)
  \/ Lock(c) \/ PrintMsg(c) \/ Unlock(c) \/ Post(c)
  \/ Exit(c)

-----------------------------------------------------------------------------

Terminated == par = "done" /\ UNCHANGED vars

Next == Parent \/ (\E c \in Children : Child(c)) \/ Terminated

Spec == Init /\ [][Next]_vars

\* scheduler() goes round the process table, so every process that can run
\* does.
FairSpec == Spec /\ WF_vars(Parent) /\ \A c \in Children : WF_vars(Child(c))

-----------------------------------------------------------------------------
(* Properties *)

\* The type invariant of the parent, the children and the semaphores.
TypeOK ==
  /\ par \in {"forkprod", "forkcons", "wait", "unlink", "done"}
  /\ i \in Nat
  /\ pc \in [Children -> {"unborn", "close", "barrier", "loop", "take", "lock",
                          "write", "unlock", "post", "zombie", "reaped"}]
  /\ left \in [Children -> 0..MsgNumPerProd]
  /\ waitc \in Nat
  /\ buffa \in 0..MAX_MSG
  /\ buffb \in 0..MAX_MSG
  /\ total \in 0..AllMsgs
  /\ write \in 0..1
  /\ produced \in Nat /\ consumed \in Nat

\* "children will wait until it is unlinked and parent will close it once all
\* children were created": no child is past the barrier before the parent has
\* gone through both fork loops.
StartBarrier ==
  (\E c \in Children : pc[c] \notin {"unborn", "close", "barrier"}) =>
    par \notin {"forkprod", "forkcons"}

\* "the right to read/write to buffer": one process at a time prints.
OneWriter ==
  \A c, d \in Children :
    pc[c] \in {"write", "unlock"} /\ pc[d] \in {"write", "unlock"} => c = d

\* pc.c ignores the result of sem_post; none of its posts is refused at
\* maxVal, so no unit is ever lost.
NoPostRefused ==
  \A c \in Children :
    /\ pc[c] = "unlock" => write < 1
    /\ pc[c] = "post" => IF c \in Prods THEN buffb < MAX_MSG ELSE buffa < MAX_MSG

\* "so we won't have any wandering zombies": the parent is done only when all
\* messages were printed and consumed and every child has been reaped.
CleanFinish ==
  par = "done" => /\ Kids = {}
                  /\ Born = Children =>
                       produced = AllMsgs /\ consumed = AllMsgs

\* The messages pass through a bounded buffer.
Buffer == INSTANCE BoundedBuffer WITH Capacity <- MAX_MSG, Total <- AllMsgs
ImplementsBuffer == Buffer!Spec

\* "all of the processes will exit the loop", "wait for all to finish and
\* exit": the program ends.
Termination == <>(par = "done")

\* The same when no fork has failed.
TerminationIfForked ==
  <>(par = "done" \/ (par = "wait" /\ Born # Children))
=============================================================================
