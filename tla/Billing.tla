------------------------------- MODULE Billing -------------------------------
(***************************************************************************)
(* Billing (apps/billing): one invoice per completed work order, its       *)
(* amounts frozen when it is created, and the payments posted against it.  *)
(*                                                                         *)
(* A service is one transaction that locks the invoice (or the work order) *)
(* it works on before it reads anything, and rolls back when refused: one  *)
(* action.  The workshop and the stores are the abstract machine           *)
(* Consumption.  Snapshots of names and numbers, due dates, references and *)
(* the reasons for voiding are left out; amounts are in cents and product  *)
(* quantities in thousandths.                                              *)
(***************************************************************************)
EXTENDS Consumption, Sums, Money

CONSTANTS
  ServiceSubtotal,   \* order -> the total of its service lines
  UnitPrice,         \* requirement -> the approved unit price
  Discount,          \* order -> the percentages of its quotation
  Tax,
  MaxRequirements,   \* requirements are numbered rows
  MaxPayments,       \* bound: rows of the payment table
  MaxAmount,         \* bound: the largest amount one payment offers
  None               \* a NULL foreign key

ASSUME BillingAssumption ==
  /\ MaxRequirements \in Nat
  /\ Requirements = 1..MaxRequirements
  /\ ServiceSubtotal \in [Orders -> Nat]
  /\ UnitPrice \in [Requirements -> Nat]
  /\ Discount \in [Orders -> Percentages]
  /\ Tax \in [Orders -> Percentages]
  /\ MaxPayments \in Nat
  /\ MaxAmount \in Nat
  /\ None \notin Orders

VARIABLES
  invoices,   \* order -> its invoice
  payments    \* the payment table

billingVars == <<orderStatus, consumed, invoices, payments>>

-----------------------------------------------------------------------------
(* Rows *)

PaymentIds == 1..MaxPayments

SettledStatuses == {"ISSUED", "PARTIALLY_PAID", "PAID"}
InvoiceStatuses == SettledStatuses \cup {"ABSENT", "DRAFT", "VOIDED"}

\* An invoice row, its product lines (requirement -> quantity) included.
Invoice ==
  [status : InvoiceStatuses, total : Nat, lines : [Requirements -> Nat]]

NoInvoice ==
  [status |-> "ABSENT", total |-> 0, lines |-> [q \in Requirements |-> 0]]

Payment ==
  [status : {"ABSENT", "POSTED", "VOIDED"}, invoice : Orders \cup {None},
   amount : Nat]

NoPayment == [status |-> "ABSENT", invoice |-> None, amount |-> 0]

-----------------------------------------------------------------------------
(* Amounts *)

\* What requirement q adds to the product subtotal of order o.
LineOf(o, quantity, q) ==
  IF OrderOf[q] = o THEN LineTotal(quantity[q], UnitPrice[q]) ELSE 0

ProductSubtotal(o, quantity) ==
  Total([q \in Requirements |-> LineOf(o, quantity, q)], MaxRequirements)

Subtotal(o, quantity) == ServiceSubtotal[o] + ProductSubtotal(o, quantity)

InvoiceTotal(o, quantity) == InvoiceSum(Subtotal(o, quantity), Discount[o], Tax[o])

\* What the customer approved: the quotation's total, for the quoted quantities.
QuotedTotal(o) == QuotationSum(Subtotal(o, Approved), Discount[o], Tax[o])

PostedTo(p, o) ==
  IF p.invoice = o /\ p.status = "POSTED" THEN p.amount ELSE 0

\* _posted_payment_total, over the payments of table t.
PostedTotal(t, o) == Total([p \in PaymentIds |-> PostedTo(t[p], o)],
                           MaxPayments)

\* _invoice_status_for_payment_total.
StatusForTotal(total, posted) ==
  IF posted = 0          THEN "ISSUED"
  ELSE IF posted < total THEN "PARTIALLY_PAID"
  ELSE "PAID"

-----------------------------------------------------------------------------
(* The services *)

\* Mutant: an order can be billed while the workshop still works on it.
BillableEarly(o) == orderStatus[o] # "PLANNED"

\* All tasks of a completed order are completed (Workshop!ReviewInSync), so
\* the check of the tasks adds nothing.
Billable(o) == orderStatus[o] = "COMPLETED"

\* _net_consumed_quantity of each requirement of o.
QuantityToBill(o) ==
  [q \in Requirements |-> IF OrderOf[q] = o THEN consumed[q] ELSE 0]

CreateInvoice(o) ==
  LET total == InvoiceTotal(o, QuantityToBill(o)) IN
  /\ Billable(o)
  /\ invoices[o] = NoInvoice
  /\ total > 0
  /\ invoices' = [invoices EXCEPT
       ![o] = [status |-> "DRAFT", total |-> total, lines |-> QuantityToBill(o)]]
  /\ UNCHANGED <<orderStatus, consumed, payments>>

IssueInvoice(o) ==
  /\ invoices[o].status = "DRAFT"
  /\ invoices' = [invoices EXCEPT ![o].status = "ISSUED"]
  /\ UNCHANGED <<orderStatus, consumed, payments>>

\* Mutant: a partly paid invoice can be voided.
VoidablePartly(o) == invoices[o].status \in {"ISSUED", "PARTIALLY_PAID"}

Voidable(o) ==
  /\ invoices[o].status = "ISSUED"
  /\ ~ \E p \in PaymentIds :
         payments[p].invoice = o /\ payments[p].status = "POSTED"

VoidInvoice(o) ==
  /\ Voidable(o)
  /\ invoices' = [invoices EXCEPT ![o].status = "VOIDED"]
  /\ UNCHANGED <<orderStatus, consumed, payments>>

NextPayment(p) ==
  /\ payments[p] = NoPayment
  /\ \A k \in 1..(p - 1) : payments[k] # NoPayment

\* Mutant: the amount is checked against the total, not what is left of it.
OutstandingTotal(o) == invoices[o].total

Outstanding(o) == invoices[o].total - PostedTotal(payments, o)

RecordPayment(o, n, p) ==
  LET posted == PostedTotal(payments, o) + n IN
  /\ n > 0
  /\ invoices[o].status \in {"ISSUED", "PARTIALLY_PAID"}
  /\ n <= Outstanding(o)
  /\ NextPayment(p)
  /\ payments' = [payments EXCEPT
       ![p] = [status |-> "POSTED", invoice |-> o, amount |-> n]]
  /\ invoices' = [invoices EXCEPT
       ![o].status = StatusForTotal(invoices[o].total, posted)]
  /\ UNCHANGED <<orderStatus, consumed>>

\* Mutant: the invoice keeps the status it had.
StatusAfterVoidKept(o) == invoices[o].status

\* The invoice's status once the payments are as the service leaves them.
StatusAfterVoid(o) ==
  StatusForTotal(invoices[o].total, PostedTotal(payments', o))

VoidPayment(p) ==
  LET o == payments[p].invoice IN
  /\ payments[p].status = "POSTED"
  /\ invoices[o].status # "VOIDED"
  /\ PostedTotal(payments, o) - payments[p].amount \in 0..invoices[o].total
  /\ payments' = [payments EXCEPT ![p].status = "VOIDED"]
  /\ invoices' = [invoices EXCEPT ![o].status = StatusAfterVoid(o)]
  /\ UNCHANGED <<orderStatus, consumed>>

-----------------------------------------------------------------------------

Init ==
  /\ ConsumptionInit
  /\ invoices = [o \in Orders |-> NoInvoice]
  /\ payments = [p \in PaymentIds |-> NoPayment]

Bills ==
  \/ \E o \in Orders : CreateInvoice(o) \/ IssueInvoice(o) \/ VoidInvoice(o)
  \/ \E o \in Orders, n \in 0..MaxAmount, p \in PaymentIds :
       RecordPayment(o, n, p)
  \/ \E p \in PaymentIds : VoidPayment(p)

Next == Bills \/ (ConsumptionNext /\ UNCHANGED <<invoices, payments>>)

Spec == Init /\ [][Next]_billingVars

-----------------------------------------------------------------------------
(* Properties *)

\* Tables hold well-formed rows.
TypeOK ==
  /\ orderStatus \in [Orders -> OrderStatuses]
  /\ consumed \in [Requirements -> Nat]
  /\ invoices \in [Orders -> Invoice]
  /\ payments \in [PaymentIds -> Payment]

\* The stored invoice status is what the posted payments say, however they
\* are recorded and voided; no money is ever posted to an invoice that is not
\* issued or is voided.  (What release_vehicle insists on.)
StatusInSync ==
  \A o \in Orders :
    IF invoices[o].status \in SettledStatuses
    THEN invoices[o].status =
           StatusForTotal(invoices[o].total, PostedTotal(payments, o))
    ELSE PostedTotal(payments, o) = 0

\* Nobody pays more than the invoice is for.
NeverOverpaid ==
  \A o \in Orders : PostedTotal(payments, o) <= invoices[o].total

\* The customer is never billed more than the approved quotation came to: the
\* quotation rounds line by line and then discount and tax, the invoice does
\* the same for what was really consumed.
BillWithinQuote == \A o \in Orders : invoices[o].total <= QuotedTotal(o)

\* Nothing leaves the stores unbilled: whatever is consumed is on the lines of
\* the order's invoice once there is one.  (Returns may leave it billing more
\* than was kept.)
NothingUnbilled ==
  \A q \in Requirements :
    invoices[OrderOf[q]] # NoInvoice
      => consumed[q] <= invoices[OrderOf[q]].lines[q]

StageOf(row) ==
  IF row.status = "ABSENT"              THEN "NONE"
  ELSE IF row.status \in SettledStatuses THEN "OPEN"
  ELSE row.status

\* A bill is the abstract account the front desk relies on.
Account ==
  INSTANCE Receivable WITH
    stage <- [o \in Orders |-> StageOf(invoices[o])],
    due   <- [o \in Orders |-> invoices[o].total],
    paid  <- [o \in Orders |-> PostedTotal(payments, o)]

ImplementsReceivable == Account!ReceivableSpec

=============================================================================
