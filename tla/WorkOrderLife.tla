---------------------------- MODULE WorkOrderLife ----------------------------
(***************************************************************************)
(* The life of a work order as every application but the workshop sees it: *)
(* one status column and the moves it can make.  Stock control, billing    *)
(* and vehicle release rely on it; the workshop implements it.             *)
(***************************************************************************)
EXTENDS WorkOrderStatus

CONSTANT Orders

VARIABLE status   \* order -> its status, ABSENT before it is created

Begins(o) ==
  /\ status[o] = "ABSENT"
  /\ status' = [status EXCEPT ![o] = "PLANNED"]

Moves(o) ==
  \E move \in OrderMoves :
    /\ status[o] = move[1]
    /\ status' = [status EXCEPT ![o] = move[2]]

LifeInit == status = [o \in Orders |-> "ABSENT"]

LifeSpec == LifeInit /\ [][\E o \in Orders : Begins(o) \/ Moves(o)]_status

=============================================================================
