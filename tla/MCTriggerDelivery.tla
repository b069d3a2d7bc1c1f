------------------------- MODULE MCTriggerDelivery -------------------------
(***************************************************************************)
(* TriggerDelivery for TLC: one event that a trigger matches, a schedule,  *)
(* and a webhook call.                                                     *)
(***************************************************************************)
EXTENDS TriggerDelivery, TLC

CONSTANTS call, hook

OneCall == {<<call, hook>>}
NoCalls == {}
=============================================================================
