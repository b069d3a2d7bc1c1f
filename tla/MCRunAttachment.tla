--------------------------- MODULE MCRunAttachment ---------------------------
(***************************************************************************)
(* RunAttachment for TLC.                                                  *)
(***************************************************************************)
EXTENDS RunAttachment, TLC

JobSymmetry == Permutations(Jobs)

\* No requeue finds a job in the midst of setting up, of deciding or of tidying.
UndisturbedNext == Next /\ (Requeues => Clear')
Undisturbed == Init /\ [][UndisturbedNext]_vars
=============================================================================
