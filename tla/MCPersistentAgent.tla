------------------------- MODULE MCPersistentAgent -------------------------
(***************************************************************************)
(* PersistentAgent for TLC.                                                *)
(***************************************************************************)
EXTENDS PersistentAgent, TLC

JobSymmetry == Permutations(Jobs)

\* No agent is claimed while a job that halted its turn is still to read it.
Prompt == Claims => AllRead
=============================================================================
