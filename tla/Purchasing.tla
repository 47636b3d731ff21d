----------------------------- MODULE Purchasing -----------------------------
(***************************************************************************)
(* Purchasing (apps/purchasing): suppliers, purchase orders, the           *)
(* deliveries received against them, the invoices suppliers send for what  *)
(* they delivered, and the payments made on those invoices.                *)
(*                                                                         *)
(* A service is one transaction that locks the purchase order (or the      *)
(* invoice, and with it the order) before it reads anything, and rolls     *)
(* back when refused: one action.  Left out are contact details, dates,    *)
(* notes, and currencies, which are copied from the order to every row     *)
(* below it.  Whether a product, its inventory item and its location are   *)
(* active is decided by other applications and may turn at any moment; it  *)
(* can only add refusals.                                                  *)
(*                                                                         *)
(* An order has at most one line per product, and a receipt at most one    *)
(* line per order line: both are functions over products in which zero     *)
(* stands for a line that is not there.  Amounts are in cents, quantities  *)
(* in thousandths.                                                         *)
(***************************************************************************)
EXTENDS Sums, Money

CONSTANTS
  Suppliers,
  Orders,            \* purchase orders
  MaxProducts,       \* products are numbered rows
  Terms,             \* the discounts, taxes and delivery costs agreed on
  References,        \* what suppliers print on their invoices
  QuantityLimit,     \* bound: product -> the largest quantity one call names
  UnitCosts,         \* product -> the unit costs one call names
  MaxCharges,        \* bound: tax and other charges of a supplier invoice
  MaxReceipts,       \* bounds: rows of the tables
  MaxInvoices,
  MaxPayments,
  MaxAmount,         \* bound: the largest amount one payment offers
  None               \* a NULL foreign key

OrderTerms == [discount : Percentages, tax : Percentages, delivery : Nat]

ASSUME PurchasingAssumption ==
  /\ MaxProducts \in Nat
  /\ Terms \subseteq OrderTerms
  /\ QuantityLimit \in [1..MaxProducts -> Nat]
  /\ UnitCosts \in [1..MaxProducts -> SUBSET Nat]
  /\ MaxCharges \in Nat
  /\ MaxReceipts \in Nat
  /\ MaxInvoices \in Nat
  /\ MaxPayments \in Nat
  /\ MaxAmount \in Nat
  /\ None \notin Suppliers \cup Orders \cup References \cup Terms \cup Nat

VARIABLES
  suppliers,   \* supplier -> its status
  orders,      \* purchase order -> its row, lines included
  receipts,    \* the goods-receipt table
  bills,       \* the supplier-invoice table
  payments     \* the supplier-payment table

purchasingVars == <<suppliers, orders, receipts, bills, payments>>

-----------------------------------------------------------------------------
(* Rows *)

Products   == 1..MaxProducts
ReceiptIds == 1..MaxReceipts
BillIds    == 1..MaxInvoices
PaymentIds == 1..MaxPayments

Quantity == [Products -> Nat]
Nothing  == [p \in Products |-> 0]

\* What an invoice charges, by receipt line.
Charges   == [ReceiptIds -> Quantity]
NoCharges == [r \in ReceiptIds |-> Nothing]

ReceivedStatuses == {"PARTIALLY_RECEIVED", "RECEIVED"}
OrderStatuses ==
  ReceivedStatuses \cup
  {"ABSENT", "DRAFT", "SUBMITTED", "APPROVED", "CANCELLED"}
OpenStatuses == {"POSTED", "PARTIALLY_PAID", "PAID"}
BillStatuses == OpenStatuses \cup {"ABSENT", "DRAFT", "VOIDED"}

Order ==
  [status : OrderStatuses, supplier : Suppliers \cup {None},
   terms : Terms \cup {None},
   quantity : Quantity, cost : Quantity]

NoOrder ==
  [status |-> "ABSENT", supplier |-> None, terms |-> None,
   quantity |-> Nothing, cost |-> Nothing]

\* A goods receipt and its lines, with the unit costs they were booked at.
Receipt ==
  [order : Orders \cup {None},
   quantity : Quantity, cost : Quantity]

NoReceipt == [order |-> None, quantity |-> Nothing, cost |-> Nothing]

\* A supplier invoice; lines[r][p] is what it charges of line p of receipt r.
Bill ==
  [status : BillStatuses, order : Orders \cup {None},
   reference : References \cup {None},
   lines : Charges, cost : Quantity, charges : Nat, total : Nat]

NoBill ==
  [status |-> "ABSENT", order |-> None, reference |-> None,
   lines |-> NoCharges, cost |-> Nothing, charges |-> 0, total |-> 0]

Payment ==
  [status : {"ABSENT", "POSTED", "VOIDED"}, bill : BillIds \cup {None},
   amount : Nat]

NoPayment == [status |-> "ABSENT", bill |-> None, amount |-> 0]

\* k is the primary key the next row of table t gets.
NextKey(t, none, k) ==
  /\ t[k] = none
  /\ \A j \in 1..(k - 1) : t[j] # none

-----------------------------------------------------------------------------
(* Totals over rows *)

ReceivedBy(row, o, p) == IF row.order = o THEN row.quantity[p] ELSE 0

\* PurchaseOrderLine.quantity_received, over receipt table t.
Received(t, o, p) ==
  Total([r \in ReceiptIds |-> ReceivedBy(t[r], o, p)], MaxReceipts)

\* Mutant: drafts are not counted.
ChargedByPosted(row, r, p) == IF row.status \in OpenStatuses THEN row.lines[r][p] ELSE 0

\* What one invoice takes of line p of receipt r; only voiding gives it back.
ChargedBy(row, r, p) ==
  IF row.status # "VOIDED" THEN row.lines[r][p] ELSE 0

\* _already_invoiced_quantity.
Charged(t, r, p) ==
  Total([b \in BillIds |-> ChargedBy(t[b], r, p)], MaxInvoices)

PaidBy(row, b) == IF row.bill = b /\ row.status = "POSTED" THEN row.amount ELSE 0

\* _posted_payment_total, over payment table t.
Paid(t, b) == Total([p \in PaymentIds |-> PaidBy(t[p], b)], MaxPayments)

-----------------------------------------------------------------------------
(* Amounts *)

Subtotal(quantity, cost) ==
  Total([p \in Products |-> LineTotal(quantity[p], cost[p])], MaxProducts)

\* calculate_purchase_order_totals.
OrderTotal(row) ==
  InvoiceSum(Subtotal(row.quantity, row.cost), row.terms.discount, row.terms.tax)
    + row.terms.delivery

\* calculate_supplier_invoice_totals, over lines and charges.
BillTotal(lines, cost, charges) ==
  Total([r \in ReceiptIds |-> Subtotal(lines[r], cost)], MaxReceipts) + charges

-----------------------------------------------------------------------------
(* Suppliers *)

RegisterSupplier(s) ==
  /\ suppliers[s] = "ABSENT"
  /\ suppliers' = [suppliers EXCEPT ![s] = "ACTIVE"]
  /\ UNCHANGED <<orders, receipts, bills, payments>>

\* Nothing stands in the way, open orders and unpaid invoices included.
DeactivateSupplier(s) ==
  /\ suppliers[s] = "ACTIVE"
  /\ suppliers' = [suppliers EXCEPT ![s] = "INACTIVE"]
  /\ UNCHANGED <<orders, receipts, bills, payments>>

ReactivateSupplier(s) ==
  /\ suppliers[s] = "INACTIVE"
  /\ suppliers' = [suppliers EXCEPT ![s] = "ACTIVE"]
  /\ UNCHANGED <<orders, receipts, bills, payments>>

-----------------------------------------------------------------------------
(* Purchase orders *)

OrderChanges(o, row) ==
  /\ orders' = [orders EXCEPT ![o] = row]
  /\ UNCHANGED <<suppliers, receipts, bills, payments>>

Draft(o) == orders[o].status = "DRAFT"

SupplierActive(s) == suppliers[s] = "ACTIVE"

\* PurchaseOrder.clean: while it can still be sent, somebody must be there to
\* send it to.
OrderFits(row) ==
  row.status \in {"DRAFT", "SUBMITTED"} => SupplierActive(row.supplier)

OrderSaved(o, row) == OrderFits(row) /\ OrderChanges(o, row)

CreatePurchaseOrder(o, s, t) ==
  /\ orders[o] = NoOrder
  /\ SupplierActive(s)
  /\ OrderSaved(o, [NoOrder EXCEPT !.status = "DRAFT", !.supplier = s,
                                   !.terms = t])

UpdatePurchaseOrder(o, s, t) ==
  /\ Draft(o)
  /\ SupplierActive(s)
  /\ OrderSaved(o, [orders[o] EXCEPT !.supplier = s, !.terms = t])

\* PurchaseOrderLine.clean.
LineFits(o, n, c) == Draft(o) /\ n > 0 /\ c > 0

LineOf(o, p, n, c) ==
  [orders[o] EXCEPT !.quantity[p] = n, !.cost[p] = c]

AddPurchaseOrderLine(o, p, n, c) ==
  /\ Draft(o)
  /\ orders[o].quantity[p] = 0
  /\ LineFits(o, n, c)
  /\ OrderChanges(o, LineOf(o, p, n, c))

EditableLine(o, p) == Draft(o) /\ orders[o].quantity[p] > 0

UpdatePurchaseOrderLine(o, p, n, c) ==
  /\ EditableLine(o, p)
  /\ LineFits(o, n, c)
  /\ OrderChanges(o, LineOf(o, p, n, c))

RemovePurchaseOrderLine(o, p) ==
  /\ EditableLine(o, p)
  /\ OrderChanges(o, LineOf(o, p, 0, 0))

SubmitPurchaseOrder(o) ==
  /\ Draft(o)
  /\ SupplierActive(orders[o].supplier)
  /\ \E p \in Products : orders[o].quantity[p] > 0
  /\ OrderTotal(orders[o]) > 0
  /\ OrderSaved(o, [orders[o] EXCEPT !.status = "SUBMITTED"])

ApprovePurchaseOrder(o) ==
  /\ orders[o].status = "SUBMITTED"
  /\ SupplierActive(orders[o].supplier)
  /\ OrderSaved(o, [orders[o] EXCEPT !.status = "APPROVED"])

\* A cancelled order stays as it is; one with goods received is refused.
CancelPurchaseOrder(o) ==
  /\ orders[o].status \in {"DRAFT", "SUBMITTED", "APPROVED"}
  /\ OrderSaved(o, [orders[o] EXCEPT !.status = "CANCELLED"])

-----------------------------------------------------------------------------
(* Deliveries *)

\* Mutant: the order is complete when one of its lines is.
CompleteOnce(t, o) ==
  \E p \in Products : /\ orders[o].quantity[p] > 0
                      /\ Received(t, o, p) >= orders[o].quantity[p]

\* _purchase_order_is_fully_received.
Complete(t, o) ==
  \A p \in Products : Received(t, o, p) >= orders[o].quantity[p]

\* Every line delivered belongs to the order and is still awaited.
Awaited(o, delivered) ==
  /\ delivered # Nothing
  /\ \A p \in Products :
       delivered[p] > 0
         => delivered[p] <= orders[o].quantity[p] - Received(receipts, o, p)

\* GoodsReceiptLine.clean: one line is within the order whatever came before.
ReceiptFits(o, delivered) ==
  \A p \in Products : delivered[p] <= orders[o].quantity[p]

\* The unit costs of the delivered lines, as the order has them.
CostsOf(o, delivered) ==
  [p \in Products |-> IF delivered[p] > 0 THEN orders[o].cost[p] ELSE 0]

StatusOnceReceived(t, o) ==
  IF Complete(t, o) THEN "RECEIVED" ELSE "PARTIALLY_RECEIVED"

ReceivePurchaseOrder(o, delivered, r) ==
  /\ orders[o].status \in {"APPROVED", "PARTIALLY_RECEIVED"}
  /\ Awaited(o, delivered)
  /\ ReceiptFits(o, delivered)
  /\ NextKey(receipts, NoReceipt, r)
  /\ receipts' = [receipts EXCEPT
       ![r] = [order |-> o, quantity |-> delivered,
               cost |-> CostsOf(o, delivered)]]
  /\ orders' = [orders EXCEPT ![o].status = StatusOnceReceived(receipts', o)]
  /\ UNCHANGED <<suppliers, bills, payments>>

-----------------------------------------------------------------------------
(* Supplier invoices *)

\* Mutant: the price is not compared with the order.
MatchedQuantityOnly(o, r, p, n, c, charged) ==
  n > 0 => receipts[r].order = o /\ n <= receipts[r].quantity[p] - charged

\* _validate_three_way_match of one line: n at cost c of line p of receipt r,
\* of which other invoices have charged some.
Matched(o, r, p, n, c, charged) ==
  n > 0 =>
    /\ receipts[r].order = o
    /\ c > 0
    /\ c = orders[o].cost[p]
    /\ c = receipts[r].cost[p]
    /\ n <= receipts[r].quantity[p] - charged

\* SupplierInvoiceLine.clean: by itself a line is within its delivery.
InvoiceLinesFit(o, lines, cost) ==
  \A r \in ReceiptIds, p \in Products :
    lines[r][p] > 0 => /\ receipts[r].order = o
                       /\ lines[r][p] <= receipts[r].quantity[p]
                       /\ cost[p] > 0

\* SupplierInvoice.clean, on every save: the stored total is that of the parts.
InvoiceFits(row) == row.total = BillTotal(row.lines, row.cost, row.charges)

CreateSupplierInvoice(b, o, ref, lines, cost, charges) ==
  LET total == BillTotal(lines, cost, charges)
      row   == [status |-> "DRAFT", order |-> o, reference |-> ref,
                lines |-> lines, cost |-> cost, charges |-> charges,
                total |-> total]
  IN
  /\ NextKey(bills, NoBill, b)
  /\ orders[o].status \in ReceivedStatuses
  /\ \A j \in BillIds :
       bills[j] # NoBill /\ orders[bills[j].order].supplier = orders[o].supplier
         => bills[j].reference # ref
  /\ lines # NoCharges
  /\ \A r \in ReceiptIds, p \in Products :
       Matched(o, r, p, lines[r][p], cost[p], Charged(bills, r, p))
  /\ total > 0
  /\ InvoiceLinesFit(o, lines, cost)
  /\ InvoiceFits(row)
  /\ bills' = [bills EXCEPT ![b] = row]
  /\ UNCHANGED <<suppliers, orders, receipts, payments>>

\* What the other invoices charge, without invoice b itself.
ChargedByOthers(b, r, p) ==
  Charged(bills, r, p) - ChargedBy(bills[b], r, p)

\* What is checked again when a draft is posted.
Postable(b) ==
  /\ bills[b].status = "DRAFT"
  /\ bills[b].lines # NoCharges
  /\ \A r \in ReceiptIds, p \in Products :
       Matched(bills[b].order, r, p, bills[b].lines[r][p], bills[b].cost[p],
               ChargedByOthers(b, r, p))

BillMoves(b, status) ==
  /\ InvoiceFits(bills[b])
  /\ bills' = [bills EXCEPT ![b].status = status]
  /\ UNCHANGED <<suppliers, orders, receipts, payments>>

PostSupplierInvoice(b) == Postable(b) /\ BillMoves(b, "POSTED")

\* Mutant: a partly paid invoice can be voided.
VoidablePartly(b) == bills[b].status \in {"POSTED", "PARTIALLY_PAID"}

\* Drafts cannot be voided, only posted first.
Voidable(b) ==
  /\ bills[b].status = "POSTED"
  /\ ~ \E p \in PaymentIds :
         payments[p].bill = b /\ payments[p].status = "POSTED"

VoidSupplierInvoice(b) == Voidable(b) /\ BillMoves(b, "VOIDED")

-----------------------------------------------------------------------------
(* Supplier payments *)

\* _supplier_invoice_status_for_payment_total.
StatusForPaid(total, paid) ==
  IF paid = 0          THEN "POSTED"
  ELSE IF paid < total THEN "PARTIALLY_PAID"
  ELSE "PAID"

\* SupplierPayment.clean.
PaymentFits(b) == bills[b].status \notin {"DRAFT", "VOIDED"}

RecordSupplierPayment(b, n, p) ==
  LET paid == Paid(payments, b) + n IN
  /\ n > 0
  /\ PaymentFits(b)
  /\ bills[b].status \in {"POSTED", "PARTIALLY_PAID"}
  /\ n <= bills[b].total - Paid(payments, b)
  /\ NextKey(payments, NoPayment, p)
  /\ payments' = [payments EXCEPT
       ![p] = [status |-> "POSTED", bill |-> b, amount |-> n]]
  /\ bills' = [bills EXCEPT ![b].status = StatusForPaid(bills[b].total, paid)]
  /\ UNCHANGED <<suppliers, orders, receipts>>

\* Mutant: the sum is read before the payment is voided.
StatusFromStaleSum(b) == StatusForPaid(bills[b].total, Paid(payments, b))

\* The status once the payments are as the service leaves them.
StatusAfterVoid(b) == StatusForPaid(bills[b].total, Paid(payments', b))

VoidSupplierPayment(p) ==
  LET b == payments[p].bill IN
  /\ payments[p].status = "POSTED"
  /\ PaymentFits(b)
  /\ Paid(payments, b) - payments[p].amount \in 0..bills[b].total
  /\ payments' = [payments EXCEPT ![p].status = "VOIDED"]
  /\ bills' = [bills EXCEPT ![b].status = StatusAfterVoid(b)]
  /\ UNCHANGED <<suppliers, orders, receipts>>

-----------------------------------------------------------------------------

Init ==
  /\ suppliers = [s \in Suppliers |-> "ABSENT"]
  /\ orders    = [o \in Orders |-> NoOrder]
  /\ receipts  = [r \in ReceiptIds |-> NoReceipt]
  /\ bills     = [b \in BillIds |-> NoBill]
  /\ payments  = [p \in PaymentIds |-> NoPayment]

\* Quantities a delivery or an invoice names, product by product.
Quantities ==
  {q \in [Products -> UNION {0..QuantityLimit[p] : p \in Products}] :
     \A p \in Products : q[p] <= QuantityLimit[p]}

\* The unit costs an invoice with these lines may name.
Prices(lines) ==
  {c \in [Products -> UNION {UnitCosts[p] \cup {0} : p \in Products}] :
     \A p \in Products :
       IF \E r \in ReceiptIds : lines[r][p] > 0
       THEN c[p] \in UnitCosts[p]
       ELSE c[p] = 0}

SupplierNext(s) ==
  RegisterSupplier(s) \/ DeactivateSupplier(s) \/ ReactivateSupplier(s)

OrderNext(o) ==
  \/ \E s \in Suppliers, t \in Terms :
       CreatePurchaseOrder(o, s, t) \/ UpdatePurchaseOrder(o, s, t)
  \/ \E p \in Products :
       \/ \E n \in 0..QuantityLimit[p], c \in UnitCosts[p] :
            AddPurchaseOrderLine(o, p, n, c) \/ UpdatePurchaseOrderLine(o, p, n, c)
       \/ RemovePurchaseOrderLine(o, p)
  \/ SubmitPurchaseOrder(o)
  \/ ApprovePurchaseOrder(o)
  \/ CancelPurchaseOrder(o)
  \/ \E q \in Quantities, r \in ReceiptIds : ReceivePurchaseOrder(o, q, r)

BillNext(b) ==
  \/ \E o \in Orders, ref \in References, x \in 0..MaxCharges,
        lines \in [ReceiptIds -> Quantities] :
       \E cost \in Prices(lines) :
         CreateSupplierInvoice(b, o, ref, lines, cost, x)
  \/ PostSupplierInvoice(b)
  \/ VoidSupplierInvoice(b)
  \/ \E n \in 0..MaxAmount, p \in PaymentIds : RecordSupplierPayment(b, n, p)

Next ==
  \/ \E s \in Suppliers : SupplierNext(s)
  \/ \E o \in Orders : OrderNext(o)
  \/ \E b \in BillIds : BillNext(b)
  \/ \E p \in PaymentIds : VoidSupplierPayment(p)

Spec == Init /\ [][Next]_purchasingVars

-----------------------------------------------------------------------------
(* Properties *)

\* Tables hold well-formed rows.
TypeOK ==
  /\ suppliers \in [Suppliers -> {"ABSENT", "ACTIVE", "INACTIVE"}]
  /\ orders \in [Orders -> Order]
  /\ receipts \in [ReceiptIds -> Receipt]
  /\ bills \in [BillIds -> Bill]
  /\ payments \in [PaymentIds -> Payment]

\* However deliveries are split, an order never receives more of a product
\* than it asks for, what was booked into the stores was booked at the unit
\* cost the order names, and the stored order status is what the receipts add
\* up to: some of it, or all of it (receive_purchase_order).
DeliveriesMatchOrder ==
  \A o \in Orders :
    /\ \A p \in Products : Received(receipts, o, p) <= orders[o].quantity[p]
    /\ \A r \in ReceiptIds, p \in Products :
         receipts[r].order = o /\ receipts[r].quantity[p] > 0
           => receipts[r].cost[p] = orders[o].cost[p]
    /\ orders[o].status = "RECEIVED"
         => \A p \in Products : Received(receipts, o, p) = orders[o].quantity[p]
    /\ orders[o].status = "PARTIALLY_RECEIVED"
         => \E p \in Products : Received(receipts, o, p) < orders[o].quantity[p]
    /\ orders[o].status \in ReceivedStatuses
         <=> \E r \in ReceiptIds : receipts[r].order = o

\* Suppliers are never owed for more than they delivered: all invoices that
\* are not voided, drafts included, charge at most what each receipt line
\* brought in, at the cost that was ordered, and only on the order it was
\* delivered for.
ThreeWayMatch ==
  /\ \A r \in ReceiptIds, p \in Products :
       Charged(bills, r, p) <= receipts[r].quantity[p]
  /\ \A b \in BillIds, r \in ReceiptIds, p \in Products :
       bills[b].lines[r][p] > 0
         => /\ receipts[r].order = bills[b].order
            /\ bills[b].cost[p] = orders[bills[b].order].cost[p]

\* A draft can always be posted: nothing done to other invoices of the order
\* since it was drawn up takes the goods from under it.  (Drafts have no other
\* way out.)
DraftsPostable == \A b \in BillIds : bills[b].status = "DRAFT" => Postable(b)

\* The stored invoice status is what the posted payments say, and no money is
\* paid on an invoice that is a draft or voided.
PayablesInSync ==
  \A b \in BillIds :
    IF bills[b].status \in OpenStatuses
    THEN /\ Paid(payments, b) <= bills[b].total
         /\ bills[b].status = StatusForPaid(bills[b].total, Paid(payments, b))
    ELSE Paid(payments, b) = 0

StageOf(row) ==
  IF row.status = "ABSENT"            THEN "NONE"
  ELSE IF row.status \in OpenStatuses THEN "OPEN"
  ELSE row.status

\* A supplier invoice is the same abstract account as a customer's bill.
Account ==
  INSTANCE Receivable WITH
    Orders <- BillIds,
    stage  <- [b \in BillIds |-> StageOf(bills[b])],
    due    <- [b \in BillIds |-> bills[b].total],
    paid   <- [b \in BillIds |-> Paid(payments, b)]

ImplementsPayable == Account!ReceivableSpec

=============================================================================
