---------------------------- MODULE MCProdCons ----------------------------
(***************************************************************************)
(* The program of ProdCons under names that are its own, which can stand   *)
(* beside those of Sem: TLC runs this module, and Sem_proofs proves what   *)
(* the run checks for every value of the constants.                        *)
(***************************************************************************)
CONSTANTS Prods, Conss, MsgNumPerProd, MAX_MSG, ForkMayFail

VARIABLES par, turn, at, left, waitc, buffa, buffb, total, write, produced, consumed

PC == INSTANCE ProdCons WITH i <- turn, pc <- at

ASSUME PcConstants == PC!PCAssumption

ProgramSpec == PC!FairSpec

\* The messages pass through a bounded buffer: ProdCons's property.
ImplementsBuffer == PC!ImplementsBuffer

\* The program ends when no fork has failed: ProdCons's property.
TerminationIfForked == PC!TerminationIfForked
=============================================================================
