------------------------------ MODULE Inventory ------------------------------
(***************************************************************************)
(* Workshop stock control (apps/inventory): the append-only movement       *)
(* ledger, the reservations that commit stock to a work order's product    *)
(* requirements, and the requirement status that summarises both.          *)
(*                                                                         *)
(* Every service is one database transaction that locks the rows it reads  *)
(* with SELECT ... FOR UPDATE before it reads them, and a refused call     *)
(* rolls back, so a service is one action and its guard is everything the  *)
(* code checks.  (The interleaving of the locks themselves is a question   *)
(* of its own, outside this module.)                                       *)
(*                                                                         *)
(* Tables are functions from row numbers to rows; a row that has not been  *)
(* inserted is NoReservation or NoMovement.  Decimal quantities are        *)
(* integers (thousandths in the code).                                     *)
(***************************************************************************)
EXTENDS Sums, WorkOrderStatus

CONSTANTS
  Products,
  Items,             \* inventory items: one product at one stock location
  Locations,
  ProductOf,         \* item -> its product
  LocationOf,        \* item -> its location
  Orders,            \* work orders
  Requirements,      \* product requirements of the work orders
  OrderOf,           \* requirement -> its work order
  RequiredProduct,   \* requirement -> the product the quotation line names
  Approved,          \* requirement -> the approved quantity
  MaxQuantity,       \* bound: the largest quantity one call asks for
  MaxReservations,   \* bound: rows of the reservation table
  MaxMovements,      \* bound: rows of the ledger
  None               \* a NULL foreign key

ASSUME InventoryAssumption ==
  /\ ProductOf \in [Items -> Products]
  /\ LocationOf \in [Items -> Locations]
  /\ OrderOf \in [Requirements -> Orders]
  /\ RequiredProduct \in [Requirements -> Products]
  /\ Approved \in [Requirements -> Nat \ {0}]
  /\ MaxQuantity \in Nat
  /\ MaxReservations \in Nat
  /\ MaxMovements \in Nat
  /\ None \notin Items \cup Requirements

VARIABLES
  locations,      \* the stock locations created so far
  items,          \* the inventory items created so far
  productActive,  \* Product.is_active
  orderStatus,    \* WorkOrder.status
  reservations,   \* the reservation table
  ledger,         \* the stock-movement table
  demandStatus    \* WorkProductRequirement.inventory_status

inventoryVars ==
  <<locations, items, productActive, orderStatus, reservations, ledger,
    demandStatus>>

-----------------------------------------------------------------------------
(* Rows *)

Quantities     == 0..MaxQuantity
ReservationIds == 1..MaxReservations
MovementIds    == 1..MaxMovements

ActiveStatuses == {"ACTIVE", "PARTIALLY_ISSUED"}
ReservationStatuses ==
  ActiveStatuses \cup {"ABSENT", "FULFILLED", "RELEASED", "CANCELLED"}
PositiveTypes == {"RECEIPT", "RETURN", "ADJUSTMENT_IN"}
NegativeTypes == {"ISSUE", "ADJUSTMENT_OUT"}
DemandStatuses ==
  {"NOT_RESERVED", "PARTIALLY_RESERVED", "RESERVED", "PARTIALLY_ISSUED",
   "ISSUED", "CANCELLED"}

Reservation ==
  [status : ReservationStatuses, item : Items \cup {None},
   requirement : Requirements \cup {None},
   reserved : Int, issued : Int, released : Int]

Movement ==
  [kind : PositiveTypes \cup NegativeTypes \cup {"ABSENT"},
   item : Items \cup {None}, quantity : Int,
   reservation : ReservationIds \cup {0}, source : MovementIds \cup {0}]

NoReservation ==
  [status |-> "ABSENT", item |-> None, requirement |-> None,
   reserved |-> 0, issued |-> 0, released |-> 0]

NoMovement ==
  [kind |-> "ABSENT", item |-> None, quantity |-> 0, reservation |-> 0,
   source |-> 0]

\* The primary key the next insert of a table gets.
NextKey(table, blank, k) ==
  /\ table[k] = blank
  /\ \A j \in DOMAIN table : j < k => table[j] # blank

-----------------------------------------------------------------------------
(* Balances: every service computes them from the rows, none is stored *)

Remaining(row) == row.reserved - row.issued - row.released

IsActive(row) == row.status \in ActiveStatuses

Signed(m) ==
  CASE m.kind \in PositiveTypes -> m.quantity
    [] m.kind \in NegativeTypes -> -m.quantity
    [] OTHER -> 0

Moves(m, i)     == IF m.item = i THEN Signed(m) ELSE 0
Holds(row, i)   == IF row.item = i /\ IsActive(row) THEN Remaining(row) ELSE 0
IssuedTo(row, q) == IF row.requirement = q THEN row.issued ELSE 0
HeldTo(row, q) ==
  IF row.requirement = q /\ IsActive(row) THEN Remaining(row) ELSE 0
Reverses(k, m)  == IF k.kind = "RETURN" /\ k.source = m THEN k.quantity ELSE 0

OnHand(i)   == Total([m \in MovementIds |-> Moves(ledger[m], i)], MaxMovements)
Reserved(i) == Total([r \in ReservationIds |-> Holds(reservations[r], i)],
                     MaxReservations)

\* Mutant: what is already promised is promised again.
AvailableIgnoringReservations(i) == OnHand(i)

Available(i) == OnHand(i) - Reserved(i)

\* What the reservations of table t have issued to, and still hold for, q.
IssuedFor(t, q) == Total([r \in ReservationIds |-> IssuedTo(t[r], q)],
                         MaxReservations)
HeldFor(t, q)   == Total([r \in ReservationIds |-> HeldTo(t[r], q)],
                         MaxReservations)

\* Mutant: only stock already issued counts against the approved quantity.
RemainingDemandIgnoringHeld(q) == Approved[q] - IssuedFor(reservations, q)

RemainingDemand(q) ==
  Approved[q] - IssuedFor(reservations, q) - HeldFor(reservations, q)

\* What has been returned of issue m.
Returned(m) == Total([k \in MovementIds |-> Reverses(ledger[k], m)],
                     MaxMovements)

\* Mutant: the reservation's total instead of the issue being reversed.
ReturnableOfReservation(m) == reservations[ledger[m].reservation].issued

Returnable(m) == ledger[m].quantity - Returned(m)

-----------------------------------------------------------------------------
(* Requirement status *)

ExpectedStatus(t, q) ==
  LET issued == IssuedFor(t, q)
      held   == HeldFor(t, q)
  IN  IF orderStatus[OrderOf[q]] = "CANCELLED" THEN "CANCELLED"
      ELSE IF issued >= Approved[q] THEN "ISSUED"
      ELSE IF issued > 0            THEN "PARTIALLY_ISSUED"
      ELSE IF held >= Approved[q]   THEN "RESERVED"
      ELSE IF held > 0              THEN "PARTIALLY_RESERVED"
      ELSE "NOT_RESERVED"

\* Mutant: sums the reservations as they were read before the change.
SyncRequirementStale(q) ==
  demandStatus' = [demandStatus EXCEPT ![q] = ExpectedStatus(reservations, q)]

SyncRequirement(q) ==
  demandStatus' = [demandStatus EXCEPT ![q] = ExpectedStatus(reservations', q)]

-----------------------------------------------------------------------------
(* What the services do to one reservation row *)

NewReservation(i, q, n) ==
  [status |-> "ACTIVE", item |-> i, requirement |-> q,
   reserved |-> n, issued |-> 0, released |-> 0]

AfterRelease(row) ==
  [row EXCEPT !.released = @ + Remaining(row), !.status = "RELEASED"]

\* Mutant: an exhausted reservation is never closed.
AfterIssueStaysOpen(row, n) ==
  [row EXCEPT !.issued = @ + n, !.status = "PARTIALLY_ISSUED"]

AfterIssue(row, n) ==
  [row EXCEPT !.issued = @ + n,
              !.status = IF Remaining(row) = n THEN "FULFILLED"
                                               ELSE "PARTIALLY_ISSUED"]

\* Mutant: the goods go back on the shelf, the reservation is not told.
AfterReturnForgotten(row, n) == row

\* A return reopens the reservation, whatever became of it.
AfterReturn(row, n) ==
  [row EXCEPT !.issued = @ - n,
              !.status = IF row.issued = n THEN "ACTIVE"
                                           ELSE "PARTIALLY_ISSUED"]

-----------------------------------------------------------------------------
(* The services *)

Usable(i) == i \in items /\ productActive[ProductOf[i]]

\* Mutant: neither the check nor the constraint is there.
AnotherNever(i, q, r) == FALSE

\* A second active reservation of the same item for the same requirement:
\* what the partial unique constraint inv_one_active_reservation refuses.
AnotherActive(i, q, r) ==
  \E s \in ReservationIds \ {r} :
    /\ reservations[s].item = i
    /\ reservations[s].requirement = q
    /\ IsActive(reservations[s])

NewMovement(kind, i, n, r, source) ==
  [kind |-> kind, item |-> i, quantity |-> n, reservation |-> r,
   source |-> source]

Record(m, row) ==
  /\ NextKey(ledger, NoMovement, m)
  /\ ledger' = [ledger EXCEPT ![m] = row]

CreateStockLocation(l) ==
  /\ l \notin locations
  /\ locations' = locations \cup {l}
  /\ UNCHANGED <<items, productActive, orderStatus, reservations, ledger,
                 demandStatus>>

CreateInventoryItem(i) ==
  /\ productActive[ProductOf[i]]
  /\ LocationOf[i] \in locations
  /\ ~ \E j \in items : /\ ProductOf[j] = ProductOf[i]
                        /\ LocationOf[j] = LocationOf[i]
  /\ items' = items \cup {i}
  /\ UNCHANGED <<locations, productActive, orderStatus, reservations, ledger,
                 demandStatus>>

ReceiveStock(i, n, m) ==
  /\ n > 0
  /\ Usable(i)
  /\ Record(m, NewMovement("RECEIPT", i, n, 0, 0))
  /\ UNCHANGED <<locations, items, productActive, orderStatus, reservations,
                 demandStatus>>

\* Mutant: a negative adjustment is taken at its word.
AdjustableUnchecked(i, kind, n) == TRUE

Adjustable(i, kind, n) == kind = "ADJUSTMENT_OUT" => n <= OnHand(i)

AdjustStock(i, kind, n, m) ==
  /\ n > 0
  /\ Usable(i)
  /\ Adjustable(i, kind, n)
  /\ Record(m, NewMovement(kind, i, n, 0, 0))
  /\ UNCHANGED <<locations, items, productActive, orderStatus, reservations,
                 demandStatus>>

ReservableStatuses == {"PLANNED", "READY", "IN_PROGRESS", "ON_HOLD"}

ReserveStock(i, q, n, r) ==
  /\ n > 0
  /\ Usable(i)
  /\ orderStatus[OrderOf[q]] \in ReservableStatuses
  /\ ProductOf[i] = RequiredProduct[q]
  /\ ~ AnotherActive(i, q, r)
  /\ n <= RemainingDemand(q)
  /\ n <= Available(i)
  /\ NextKey(reservations, NoReservation, r)
  /\ reservations' = [reservations EXCEPT ![r] = NewReservation(i, q, n)]
  /\ SyncRequirement(q)
  /\ UNCHANGED <<locations, items, productActive, orderStatus, ledger>>

ReleaseStockReservation(r) ==
  LET row == reservations[r] IN
  /\ IsActive(row)
  /\ Remaining(row) > 0
  /\ reservations' = [reservations EXCEPT ![r] = AfterRelease(row)]
  /\ SyncRequirement(row.requirement)
  /\ UNCHANGED <<locations, items, productActive, orderStatus, ledger>>

\* Mutant: stock is issued to an order nobody is staffed for yet.
IssuableFromPlanned == {"PLANNED", "READY", "IN_PROGRESS", "ON_HOLD"}

IssuableStatuses == {"READY", "IN_PROGRESS", "ON_HOLD"}

IssueReservedStock(r, n, m) ==
  LET row == reservations[r] IN
  /\ n > 0
  /\ IsActive(row)
  /\ orderStatus[OrderOf[row.requirement]] \in IssuableStatuses
  /\ Usable(row.item)
  /\ n <= Remaining(row)
  /\ n <= OnHand(row.item)
  /\ Record(m, NewMovement("ISSUE", row.item, n, r, 0))
  /\ reservations' = [reservations EXCEPT ![r] = AfterIssue(row, n)]
  /\ SyncRequirement(row.requirement)
  /\ UNCHANGED <<locations, items, productActive, orderStatus>>

\* A return checks neither the work order nor the product.  It is refused (by
\* full_clean) while another reservation of the item for the requirement is
\* active.
ReturnIssuedStock(s, n, m) ==
  LET r   == ledger[s].reservation
      row == reservations[r]
  IN
  /\ n > 0
  /\ ledger[s].kind = "ISSUE"
  /\ n <= Returnable(s)
  /\ n <= row.issued
  /\ ~ AnotherActive(row.item, row.requirement, r)
  /\ Record(m, NewMovement("RETURN", row.item, n, r, s))
  /\ reservations' = [reservations EXCEPT ![r] = AfterReturn(row, n)]
  /\ SyncRequirement(row.requirement)
  /\ UNCHANGED <<locations, items, productActive, orderStatus>>

-----------------------------------------------------------------------------
(* The neighbouring applications, as far as stock control can see them *)

\* What the workshop services do to a work order.
WorkOrderMoves(o) ==
  /\ \E move \in OrderMoves :
       /\ orderStatus[o] = move[1]
       /\ orderStatus' = [orderStatus EXCEPT ![o] = move[2]]
  /\ UNCHANGED <<locations, items, productActive, reservations, ledger,
                 demandStatus>>

\* deactivate_product and reactivate_product.
ProductToggled(p) ==
  /\ productActive' = [productActive EXCEPT ![p] = ~ @]
  /\ UNCHANGED <<locations, items, orderStatus, reservations, ledger,
                 demandStatus>>

-----------------------------------------------------------------------------

Init ==
  /\ locations = {}
  /\ items = {}
  /\ productActive = [p \in Products |-> TRUE]
  /\ orderStatus = [o \in Orders |-> "PLANNED"]
  /\ reservations = [r \in ReservationIds |-> NoReservation]
  /\ ledger = [m \in MovementIds |-> NoMovement]
  /\ demandStatus = [q \in Requirements |-> "NOT_RESERVED"]

Next ==
  \/ \E l \in Locations : CreateStockLocation(l)
  \/ \E i \in Items : CreateInventoryItem(i)
  \/ \E i \in Items, n \in Quantities, m \in MovementIds :
       ReceiveStock(i, n, m)
  \/ \E i \in Items, kind \in {"ADJUSTMENT_IN", "ADJUSTMENT_OUT"},
        n \in Quantities, m \in MovementIds :
       AdjustStock(i, kind, n, m)
  \/ \E i \in Items, q \in Requirements, n \in Quantities,
        r \in ReservationIds :
       ReserveStock(i, q, n, r)
  \/ \E r \in ReservationIds : ReleaseStockReservation(r)
  \/ \E r \in ReservationIds, n \in Quantities, m \in MovementIds :
       IssueReservedStock(r, n, m)
  \/ \E s \in MovementIds, n \in Quantities, m \in MovementIds :
       ReturnIssuedStock(s, n, m)
  \/ \E o \in Orders : WorkOrderMoves(o)
  \/ \E p \in Products : ProductToggled(p)

Spec == Init /\ [][Next]_inventoryVars

-----------------------------------------------------------------------------
(* Properties *)

\* Every table holds well-formed rows and every status column one of its
\* choices.
TypeOK ==
  /\ locations \subseteq Locations
  /\ items \subseteq Items
  /\ productActive \in [Products -> BOOLEAN]
  /\ orderStatus \in [Orders -> OrderStatuses]
  /\ reservations \in [ReservationIds -> Reservation]
  /\ ledger \in [MovementIds -> Movement]
  /\ demandStatus \in [Requirements -> DemandStatuses]

\* The ledger never adds up to less than nothing on the shelf, whatever mix
\* of issues, returns and adjustments it records (get_on_hand_quantity).
StockNeverNegative == \A i \in Items : OnHand(i) >= 0

\* Stock promised to workshop demand is covered by stock on the shelf; only
\* a negative adjustment, which checks the physical balance and not the
\* reservations, can uncover it, and by no more than it wrote off.
WritesOff(m, i) ==
  IF m.item = i /\ m.kind = "ADJUSTMENT_OUT" THEN m.quantity ELSE 0

WrittenOff(i) == Total([m \in MovementIds |-> WritesOff(ledger[m], i)],
                       MaxMovements)

CommitmentsCovered ==
  \A i \in Items : Reserved(i) <= OnHand(i) + WrittenOff(i)

\* A reservation's quantity_issued, which the services maintain by hand, is
\* what the ledger says was issued to it and not returned.
IssuesTo(m, r) == IF m.reservation = r THEN -Signed(m) ELSE 0

NetIssued(r) == Total([m \in MovementIds |-> IssuesTo(ledger[m], r)],
                      MaxMovements)

IssuedMatchesLedger ==
  \A r \in ReservationIds : reservations[r].issued = NetIssued(r)

\* No sequence of partial returns gives back more than was issued, issue by
\* issue.
ReturnsWithinIssue ==
  \A m \in MovementIds :
    ledger[m].kind = "ISSUE" => Returned(m) <= ledger[m].quantity

\* What is held for a requirement and what was issued to it never exceed the
\* quantity the customer approved, however often stock is reserved, issued,
\* returned, released and reserved again.
DemandNotExceeded ==
  \A q \in Requirements :
    IssuedFor(reservations, q) + HeldFor(reservations, q) <= Approved[q]

\* A reservation is open exactly when it still holds stock, so an open one
\* can always be issued or released and a closed one commits nothing.
OpenIffHoldsStock ==
  \A r \in ReservationIds :
    IsActive(reservations[r]) <=> Remaining(reservations[r]) > 0

\* At most one open reservation of an item for a requirement, though returns
\* reopen old ones.
OneActiveReservation ==
  \A r, s \in ReservationIds :
    /\ IsActive(reservations[r]) /\ IsActive(reservations[s])
    /\ reservations[r].item = reservations[s].item
    /\ reservations[r].requirement = reservations[s].requirement
    => r = s

\* The stored requirement status is what its reservations say.
DemandStatusInSync ==
  \A q \in Requirements : demandStatus[q] = ExpectedStatus(reservations, q)

\* The tables implement the abstract account of each item.
Account ==
  INSTANCE StockAccount WITH
    Quantities <- 1..MaxQuantity,
    physical   <- [i \in Items |-> OnHand(i)],
    committed  <- [i \in Items |-> Reserved(i)]

ImplementsStockAccount == Account!AccountSpec

\* Billing sees the ledger as what each requirement has consumed.
ConsumedBy(m, q) ==
  IF m.reservation # 0 /\ reservations[m.reservation].requirement = q
  THEN -Signed(m) ELSE 0

NetConsumed(q) ==
  Total([m \in MovementIds |-> ConsumedBy(ledger[m], q)], MaxMovements)

Stores ==
  INSTANCE Consumption WITH
    consumed <- [q \in Requirements |-> NetConsumed(q)]

ImplementsConsumption == Stores!ConsumptionSpec

=============================================================================
