--------------------------- MODULE MCPullRequest ---------------------------
(***************************************************************************)
(* PullRequest for TLC.                                                    *)
(***************************************************************************)
EXTENDS PullRequest, TLC

PassSymmetry == Permutations(Passes)
=============================================================================
