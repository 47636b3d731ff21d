--------------------------- MODULE InventoryPages ---------------------------
(***************************************************************************)
(* The pages of stock control (inventory/views.py, forms.py): who may open *)
(* which, what its form lets through, and the service it then calls.       *)
(*                                                                         *)
(* A form is filled in from the rows of one moment and its service locks   *)
(* and reads the rows of a later one, so a form's comparison with a        *)
(* balance, a status or a flag promises nothing and is left to the         *)
(* service.  What a form promises for good is kept: the limits of the      *)
(* input, that a chosen row exists, and columns that never change.         *)
(* A refusal by page, form or service shows the form again.                *)
(***************************************************************************)
EXTENDS Inventory, Policy

\* Every quantity field has a minimal value, so zero is never sent.
PositiveQuantities == Quantities \ {0}

\* A product and a location on file.
InventoryItemForm == {i \in Items : LocationOf[i] \in locations}

\* Items of the product the requirement names.
ReserveStockForm(q) ==
  {i \in items : ProductOf[i] = RequiredProduct[q]} \X PositiveQuantities

AdjustStockForm == {"ADJUSTMENT_IN", "ADJUSTMENT_OUT"} \X PositiveQuantities

\* The release and the issue page belong to a reservation, whatever its state.
ReservationsOnFile ==
  {r \in ReservationIds : reservations[r] # NoReservation}

\* The return page belongs to a movement that is an issue.
IssuesOnFile == {m \in MovementIds : ledger[m].kind = "ISSUE"}

-----------------------------------------------------------------------------

StockLocationCreate(u, l) ==
  May(u, "add_stocklocation") /\ CreateStockLocation(l)

InventoryItemCreate(u) ==
  /\ May(u, "add_inventoryitem")
  /\ \E i \in InventoryItemForm : CreateInventoryItem(i)

StockReceive(u, i, m) ==
  /\ May(u, "receive_stock")
  /\ \E n \in PositiveQuantities : ReceiveStock(i, n, m)

StockAdjust(u, i, m) ==
  /\ May(u, "adjust_stock")
  /\ \E f \in AdjustStockForm : AdjustStock(i, f[1], f[2], m)

StockReserve(u, q, r) ==
  /\ May(u, "reserve_stock")
  /\ \E f \in ReserveStockForm(q) : ReserveStock(f[1], q, f[2], r)

ReservationRelease(u, r) ==
  /\ May(u, "release_stock_reservation")
  /\ r \in ReservationsOnFile
  /\ ReleaseStockReservation(r)

StockIssue(u, r, m) ==
  /\ May(u, "issue_stock")
  /\ r \in ReservationsOnFile
  /\ \E n \in PositiveQuantities : IssueReservedStock(r, n, m)

StockReturn(u, s, m) ==
  /\ May(u, "return_stock")
  /\ s \in IssuesOnFile
  /\ \E n \in PositiveQuantities : ReturnIssuedStock(s, n, m)

-----------------------------------------------------------------------------

\* What stands outside these pages: the workshop and the catalogue.
Elsewhere ==
  \/ \E o \in Orders : WorkOrderMoves(o)
  \/ \E p \in Products : ProductToggled(p)

PagesNext ==
  \/ \E u \in Staff :
       \/ \E l \in Locations : StockLocationCreate(u, l)
       \/ InventoryItemCreate(u)
       \/ \E i \in Items, m \in MovementIds :
            StockReceive(u, i, m) \/ StockAdjust(u, i, m)
       \/ \E q \in Requirements, r \in ReservationIds : StockReserve(u, q, r)
       \/ \E r \in ReservationIds : ReservationRelease(u, r)
       \/ \E r \in ReservationIds, m \in MovementIds : StockIssue(u, r, m)
       \/ \E s, m \in MovementIds : StockReturn(u, s, m)
  \/ Elsewhere

PagesSpec == Init /\ [][PagesNext]_inventoryVars

=============================================================================
