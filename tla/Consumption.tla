----------------------------- MODULE Consumption -----------------------------
(***************************************************************************)
(* What the stores promise to billing: how much of each approved product   *)
(* requirement has been consumed (issued and not returned), while the      *)
(* workshop takes the work order through its life.  Inventory implements   *)
(* this specification (its property ImplementsConsumption); billing is     *)
(* modelled on top of it.                                                  *)
(***************************************************************************)
EXTENDS Integers, WorkOrderStatus

CONSTANTS
  Orders,
  Requirements,   \* product requirements of the orders
  OrderOf,        \* requirement -> its work order
  Approved        \* requirement -> the approved quantity

ASSUME ConsumptionAssumption ==
  /\ OrderOf \in [Requirements -> Orders]
  /\ Approved \in [Requirements -> Nat]

VARIABLES
  orderStatus,   \* WorkOrder.status
  consumed       \* requirement -> quantity issued and not returned

consumptionVars == <<orderStatus, consumed>>

OpenForIssue == {"READY", "IN_PROGRESS", "ON_HOLD"}

\* Stock leaves the shelf for q, up to what the customer approved.
Consume(q, n) ==
  /\ orderStatus[OrderOf[q]] \in OpenForIssue
  /\ n <= Approved[q] - consumed[q]
  /\ consumed' = [consumed EXCEPT ![q] = @ + n]
  /\ UNCHANGED orderStatus

\* Stock comes back, whatever has become of the order meanwhile.
GiveBack(q, n) ==
  /\ n <= consumed[q]
  /\ consumed' = [consumed EXCEPT ![q] = @ - n]
  /\ UNCHANGED orderStatus

OrderGoesOn(o) ==
  /\ \E move \in OrderMoves :
       /\ orderStatus[o] = move[1]
       /\ orderStatus' = [orderStatus EXCEPT ![o] = move[2]]
  /\ UNCHANGED consumed

ConsumptionInit ==
  /\ orderStatus = [o \in Orders |-> "PLANNED"]
  /\ consumed = [q \in Requirements |-> 0]

ConsumptionNext ==
  \/ \E q \in Requirements : \E n \in 1..Approved[q] :
       Consume(q, n) \/ GiveBack(q, n)
  \/ \E o \in Orders : OrderGoesOn(o)

ConsumptionSpec == ConsumptionInit /\ [][ConsumptionNext]_consumptionVars

=============================================================================
