---------------------------- MODULE MCTaskQueue ----------------------------
(***************************************************************************)
(* TaskQueue for TLC: c is submitted to depend on a and b; a and c are of  *)
(* one repo, whose limit is one run.                                       *)
(***************************************************************************)
EXTENDS TaskQueue, TLC

CONSTANTS a, b, c

WantedByC   == [t \in Tasks |-> IF t = c THEN {a, b} \cap Tasks ELSE {}]
TwoLimits   == {[of |-> Tasks, max |-> 2], [of |-> {a, c} \cap Tasks, max |-> 1]}
OneLimit    == {[of |-> Tasks, max |-> 1]}
NoEdits     == {}
Back        == {<<a, c>>}
BothWays    == {<<a, b>>, <<b, a>>}
=============================================================================
