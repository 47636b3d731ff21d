--------------------------- MODULE WorkOrderStatus ---------------------------
(***************************************************************************)
(* The statuses of a work order and the moves the workshop services make   *)
(* between them: the part of the workshop the other applications see.      *)
(***************************************************************************)

OrderStatuses ==
  {"PLANNED", "READY", "IN_PROGRESS", "ON_HOLD", "AWAITING_REVIEW",
   "COMPLETED", "CANCELLED"}

\* No service cancels a work order, and a completed one never moves again.
OrderMoves ==
  {<<"PLANNED", "READY">>, <<"READY", "PLANNED">>, <<"READY", "IN_PROGRESS">>,
   <<"IN_PROGRESS", "ON_HOLD">>, <<"ON_HOLD", "IN_PROGRESS">>,
   <<"IN_PROGRESS", "AWAITING_REVIEW">>, <<"AWAITING_REVIEW", "COMPLETED">>}

=============================================================================
