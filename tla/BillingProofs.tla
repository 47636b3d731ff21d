---------------------------- MODULE BillingProofs ----------------------------
(***************************************************************************)
(* Billing is correct for every set of orders and requirements, every      *)
(* price, discount and tax, and every number of payments.                  *)
(*                                                                         *)
(* The argument: an invoice only exists for a completed order, whose       *)
(* consumption can no longer grow; its total is a monotone function of     *)
(* what was consumed; and the posted total of an invoice changes by        *)
(* exactly the payment that is recorded or voided (ArithmeticProofs).      *)
(***************************************************************************)
EXTENDS BillingPages, ArithmeticProofs

-----------------------------------------------------------------------------
(* The strengthening *)

\* What the stores promise: no more is consumed than was approved.
WithinApproval == \A q \in Requirements : consumed[q] <= Approved[q]

\* An invoice is drawn up for a completed order only.
BilledWhenCompleted ==
  \A o \in Orders : invoices[o] # NoInvoice => orderStatus[o] = "COMPLETED"

\* A payment row is blank, or it is some money for some order's invoice.
PaymentOK(row) ==
  \/ row = NoPayment
  \/ row.invoice \in Orders /\ row.amount > 0 /\ row.status # "ABSENT"

PaymentsReal == \A p \in PaymentIds : PaymentOK(payments[p])

BillingInv ==
  /\ TypeOK
  /\ WithinApproval
  /\ BilledWhenCompleted
  /\ PaymentsReal
  /\ StatusInSync
  /\ NeverOverpaid
  /\ BillWithinQuote
  /\ NothingUnbilled

-----------------------------------------------------------------------------
(* Posted totals *)

\* What each payment has posted to o's invoice is a table of naturals.
LEMMA PostedTable ==
  ASSUME NEW t \in [PaymentIds -> Payment], NEW o \in Orders
  PROVE  /\ MaxPayments \in Nat
         /\ [p \in PaymentIds |-> PostedTo(t[p], o)] \in [1..MaxPayments -> Int]
         /\ \A p \in PaymentIds : PostedTo(t[p], o) \in Nat
<1>1. MaxPayments \in Nat
  BY BillingAssumption
<1>2. \A p \in PaymentIds : PostedTo(t[p], o) \in Nat
  BY DEF PostedTo, Payment
<1>3. QED
  BY <1>1, <1>2 DEF PaymentIds

\* A posted total is a natural number, at least each posted payment.
LEMMA PostedBounds ==
  ASSUME NEW t \in [PaymentIds -> Payment], NEW o \in Orders
  PROVE  /\ PostedTotal(t, o) \in Nat
         /\ \A p \in PaymentIds : PostedTo(t[p], o) <= PostedTotal(t, o)
<1> DEFINE f == [p \in PaymentIds |-> PostedTo(t[p], o)]
<1>1. /\ MaxPayments \in Nat
      /\ f \in [1..MaxPayments -> Int]
      /\ \A p \in 1..MaxPayments : f[p] = PostedTo(t[p], o)
      /\ \A p \in 1..MaxPayments : f[p] >= 0
  BY PostedTable DEF PaymentIds
<1> HIDE DEF f
<1>2. /\ Total(f, MaxPayments) \in Int
      /\ Total(f, MaxPayments) >= 0
      /\ \A p \in 1..MaxPayments : f[p] <= Total(f, MaxPayments)
  BY <1>1, TableInt, TableBounds
<1>3. QED
  BY <1>1, <1>2 DEF PostedTotal, PaymentIds, f

\* Changing one payment changes a posted total by that payment.
LEMMA PostedChange ==
  ASSUME NEW t \in [PaymentIds -> Payment], NEW u \in [PaymentIds -> Payment],
         NEW p \in PaymentIds, NEW o \in Orders,
         \A k \in PaymentIds : k # p => u[k] = t[k]
  PROVE  PostedTotal(u, o)
           = PostedTotal(t, o) + PostedTo(u[p], o) - PostedTo(t[p], o)
<1> DEFINE f == [k \in PaymentIds |-> PostedTo(t[k], o)]
           g == [k \in PaymentIds |-> PostedTo(u[k], o)]
<1>1. /\ MaxPayments \in Nat /\ p \in 1..MaxPayments
      /\ f \in [1..MaxPayments -> Int] /\ g \in [1..MaxPayments -> Int]
      /\ f[p] = PostedTo(t[p], o) /\ g[p] = PostedTo(u[p], o)
      /\ \A k \in 1..MaxPayments : k # p => g[k] = f[k]
  BY PostedTable DEF PaymentIds
<1> HIDE DEF f, g
<1>2. Total(g, MaxPayments) = Total(f, MaxPayments) + g[p] - f[p]
  BY <1>1, TableChange
<1>3. QED
  BY <1>1, <1>2 DEF PostedTotal, f, g

\* Blank payments post nothing.
LEMMA PostedNothing ==
  ASSUME NEW o \in Orders
  PROVE  PostedTotal([p \in PaymentIds |-> NoPayment], o) = 0
<1> DEFINE t == [p \in PaymentIds |-> NoPayment]
           f == [p \in PaymentIds |-> PostedTo(t[p], o)]
<1>1. /\ MaxPayments \in Nat
      /\ f \in [1..MaxPayments -> Int]
      /\ \A p \in 1..MaxPayments : f[p] = 0
  BY BillingAssumption DEF PaymentIds, PostedTo, NoPayment
<1> HIDE DEF f
<1>2. Total(f, MaxPayments) = 0
  BY <1>1, TableZero
<1>3. QED
  BY <1>2 DEF PostedTotal, f

\* Whatever is posted, the status computed from it is one of the settled ones.
LEMMA StatusForTotalSettled ==
  ASSUME NEW total \in Nat, NEW posted \in Nat
  PROVE  StatusForTotal(total, posted) \in SettledStatuses
  BY DEF StatusForTotal, SettledStatuses

-----------------------------------------------------------------------------
(* Amounts *)

\* The lines of order o, for the quantities a, are a table of naturals.
LEMMA LineTable ==
  ASSUME NEW o \in Orders, NEW a \in [Requirements -> Nat]
  PROVE  /\ MaxRequirements \in Nat
         /\ [q \in Requirements |-> LineOf(o, a, q)]
              \in [1..MaxRequirements -> Int]
         /\ \A q \in Requirements : LineOf(o, a, q) \in Nat
<1>1. MaxRequirements \in Nat /\ Requirements = 1..MaxRequirements
  BY BillingAssumption
<1>2. ASSUME NEW q \in Requirements PROVE LineOf(o, a, q) \in Nat
  <2>1. a[q] \in Nat /\ UnitPrice[q] \in Nat /\ a[q] <= a[q]
    BY BillingAssumption
  <2>2. LineTotal(a[q], UnitPrice[q]) \in Nat
    BY <2>1, LineTotalMonotone
  <2>3. QED
    BY <2>2 DEF LineOf
<1>3. QED
  BY <1>1, <1>2

\* A subtotal is a natural number.
LEMMA SubtotalNat ==
  ASSUME NEW o \in Orders, NEW a \in [Requirements -> Nat]
  PROVE  Subtotal(o, a) \in Nat
<1> DEFINE f == [q \in Requirements |-> LineOf(o, a, q)]
<1>1. /\ MaxRequirements \in Nat
      /\ f \in [1..MaxRequirements -> Int]
      /\ \A q \in 1..MaxRequirements : f[q] >= 0
  <2>1. Requirements = 1..MaxRequirements
    BY BillingAssumption
  <2>2. \A q \in Requirements : LineOf(o, a, q) \in Nat
    BY LineTable
  <2>3. \A q \in Requirements : f[q] >= 0
    BY <2>2
  <2>4. QED
    BY <2>1, <2>3, LineTable
<1> HIDE DEF f
<1>2. Total(f, MaxRequirements) \in Int /\ Total(f, MaxRequirements) >= 0
  BY <1>1, TableInt, TableBounds
<1>3. ServiceSubtotal[o] \in Nat
  BY BillingAssumption
<1>4. QED
  BY <1>2, <1>3 DEF Subtotal, ProductSubtotal, f

\* Using less of o's products never costs more.
LEMMA SubtotalMonotone ==
  ASSUME NEW o \in Orders,
         NEW a \in [Requirements -> Nat], NEW b \in [Requirements -> Nat],
         \A q \in Requirements : OrderOf[q] = o => a[q] <= b[q]
  PROVE  Subtotal(o, a) <= Subtotal(o, b)
<1> DEFINE f == [q \in Requirements |-> LineOf(o, a, q)]
           g == [q \in Requirements |-> LineOf(o, b, q)]
<1>1. ASSUME NEW q \in Requirements PROVE LineOf(o, a, q) <= LineOf(o, b, q)
  <2>1. a[q] \in Nat /\ b[q] \in Nat /\ UnitPrice[q] \in Nat
    BY BillingAssumption
  <2>2. CASE OrderOf[q] = o
    <3>1. LineTotal(a[q], UnitPrice[q]) <= LineTotal(b[q], UnitPrice[q])
      BY <2>1, <2>2, LineTotalMonotone
    <3>2. QED
      BY <2>2, <3>1 DEF LineOf
  <2>3. CASE OrderOf[q] # o
    BY <2>3 DEF LineOf
  <2>4. QED
    BY <2>2, <2>3
<1>2. /\ MaxRequirements \in Nat
      /\ f \in [1..MaxRequirements -> Int]
      /\ g \in [1..MaxRequirements -> Int]
  BY LineTable
<1>3. \A q \in 1..MaxRequirements : f[q] <= g[q]
  BY <1>1, BillingAssumption
<1> HIDE DEF f, g
<1>4. Total(f, MaxRequirements) <= Total(g, MaxRequirements)
  BY <1>2, <1>3, TableMonotone
<1>5. /\ Total(f, MaxRequirements) \in Int /\ Total(g, MaxRequirements) \in Int
      /\ ServiceSubtotal[o] \in Nat
  BY <1>2, TableInt, BillingAssumption
<1>6. QED
  BY <1>4, <1>5 DEF Subtotal, ProductSubtotal, f, g

\* An invoice for at most the approved quantities comes to at most the quote.
LEMMA InvoiceWithinQuote ==
  ASSUME NEW o \in Orders, NEW a \in [Requirements -> Nat],
         \A q \in Requirements : OrderOf[q] = o => a[q] <= Approved[q]
  PROVE  InvoiceTotal(o, a) \in Nat /\ InvoiceTotal(o, a) <= QuotedTotal(o)
<1>1. /\ Approved \in [Requirements -> Nat]
      /\ Discount[o] \in Percentages /\ Tax[o] \in Percentages
  BY ConsumptionAssumption, BillingAssumption
<1>2. Subtotal(o, a) \in Nat /\ Subtotal(o, Approved) \in Nat
  BY <1>1, SubtotalNat
<1>3. Subtotal(o, a) <= Subtotal(o, Approved)
  BY <1>1, SubtotalMonotone
<1>4. /\ InvoiceSum(Subtotal(o, a), Discount[o], Tax[o]) \in Nat
      /\ InvoiceSum(Subtotal(o, a), Discount[o], Tax[o])
           <= InvoiceSum(Subtotal(o, Approved), Discount[o], Tax[o])
  BY <1>1, <1>2, <1>3, InvoiceSumMonotone
<1>5. QuotedTotal(o) = InvoiceSum(Subtotal(o, Approved), Discount[o], Tax[o])
  BY SameFormula DEF QuotedTotal
<1>6. QED
  BY <1>4, <1>5 DEF InvoiceTotal

-----------------------------------------------------------------------------
(* Rows *)

\* Rewriting the status of a row leaves it a row, with everything else kept.
LEMMA InvoiceRow ==
  ASSUME NEW row \in Invoice, NEW s \in InvoiceStatuses
  PROVE  /\ [row EXCEPT !.status = s] \in Invoice
         /\ [row EXCEPT !.status = s].status = s
         /\ [row EXCEPT !.status = s].total = row.total
         /\ [row EXCEPT !.status = s].lines = row.lines
  BY DEF Invoice

LEMMA VoidedRow ==
  ASSUME NEW row \in Payment
  PROVE  /\ [row EXCEPT !.status = "VOIDED"] \in Payment
         /\ [row EXCEPT !.status = "VOIDED"].status = "VOIDED"
         /\ [row EXCEPT !.status = "VOIDED"].invoice = row.invoice
         /\ [row EXCEPT !.status = "VOIDED"].amount = row.amount
  BY DEF Payment

\* The blank rows are rows.
LEMMA BlankRows ==
  /\ NoInvoice \in Invoice
  /\ NoPayment \in Payment
  BY DEF NoInvoice, Invoice, InvoiceStatuses, NoPayment, Payment

-----------------------------------------------------------------------------
(* The invariant *)

LEMMA BillingInit == Init => BillingInv
<1> SUFFICES ASSUME Init PROVE BillingInv
  OBVIOUS
<1>1. /\ orderStatus = [o \in Orders |-> "PLANNED"]
      /\ consumed = [q \in Requirements |-> 0]
      /\ invoices = [o \in Orders |-> NoInvoice]
      /\ payments = [p \in PaymentIds |-> NoPayment]
  BY DEF Init, ConsumptionInit
<1>2. TypeOK
  BY <1>1, BlankRows DEF TypeOK, OrderStatuses
<1>3. \A o \in Orders : PostedTotal(payments, o) = 0
  BY <1>1, PostedNothing
<1>4. /\ \A o \in Orders : invoices[o] = NoInvoice
      /\ \A o \in Orders : invoices[o].status = "ABSENT" /\ invoices[o].total = 0
      /\ \A o \in Orders : invoices[o].status \notin SettledStatuses
  BY <1>1 DEF NoInvoice, SettledStatuses
<1>5. /\ Approved \in [Requirements -> Nat]
      /\ OrderOf \in [Requirements -> Orders]
  BY ConsumptionAssumption
<1>6. WithinApproval
  BY <1>1, <1>5 DEF WithinApproval
<1>7. BilledWhenCompleted /\ NothingUnbilled
  BY <1>4, <1>5 DEF BilledWhenCompleted, NothingUnbilled
<1>8. PaymentsReal
  BY <1>1 DEF PaymentsReal, PaymentOK
<1>9. StatusInSync /\ NeverOverpaid
  BY <1>3, <1>4 DEF StatusInSync, NeverOverpaid
<1>10. ASSUME NEW o \in Orders PROVE 0 <= QuotedTotal(o)
  <2>1. \A q \in Requirements : OrderOf[q] = o => Approved[q] <= Approved[q]
    BY <1>5
  <2>2. /\ InvoiceTotal(o, Approved) \in Nat
        /\ InvoiceTotal(o, Approved) <= QuotedTotal(o)
    BY <1>5, <2>1, InvoiceWithinQuote
  <2>3. QuotedTotal(o) = InvoiceTotal(o, Approved)
    BY SameFormula DEF QuotedTotal, InvoiceTotal
  <2>4. QED
    BY <2>2, <2>3
<1>11. BillWithinQuote
  BY <1>4, <1>10 DEF BillWithinQuote
<1>12. QED
  BY <1>2, <1>6, <1>7, <1>8, <1>9, <1>11 DEF BillingInv

\* A step of the workshop or the stores leaves the bills as they are: what is
\* billed is complete, and of what is complete no more is consumed.
LEMMA ConsumptionInv ==
  ASSUME BillingInv, ConsumptionNext, UNCHANGED <<invoices, payments>>
  PROVE  BillingInv'
<1>1. /\ orderStatus \in [Orders -> OrderStatuses]
      /\ consumed \in [Requirements -> Nat]
      /\ Approved \in [Requirements -> Nat]
      /\ OrderOf \in [Requirements -> Orders]
  BY ConsumptionAssumption DEF BillingInv, TypeOK
<1>2. /\ orderStatus' \in [Orders -> OrderStatuses]
      /\ consumed' \in [Requirements -> Nat]
      /\ \A q \in Requirements : consumed'[q] <= Approved[q]
      /\ \A q \in Requirements :
           orderStatus[OrderOf[q]] = "COMPLETED" => consumed'[q] <= consumed[q]
      /\ \A o \in Orders :
           orderStatus[o] = "COMPLETED" => orderStatus'[o] = "COMPLETED"
  <2> DEFINE Goal ==
        /\ orderStatus' \in [Orders -> OrderStatuses]
        /\ consumed' \in [Requirements -> Nat]
        /\ \A q \in Requirements : consumed'[q] <= Approved[q]
        /\ \A q \in Requirements :
             orderStatus[OrderOf[q]] = "COMPLETED" => consumed'[q] <= consumed[q]
        /\ \A o \in Orders :
             orderStatus[o] = "COMPLETED" => orderStatus'[o] = "COMPLETED"
  <2>1. \A q \in Requirements : consumed[q] <= Approved[q]
    BY DEF BillingInv, WithinApproval
  <2>2. ASSUME NEW q \in Requirements, NEW n \in 1..Approved[q], Consume(q, n)
        PROVE  Goal
    BY <1>1, <2>1, <2>2 DEF Consume, OpenForIssue
  <2>3. ASSUME NEW q \in Requirements, NEW n \in 1..Approved[q], GiveBack(q, n)
        PROVE  Goal
    BY <1>1, <2>1, <2>3 DEF GiveBack
  <2>4. ASSUME NEW o \in Orders, OrderGoesOn(o) PROVE Goal
    BY <1>1, <2>1, <2>4 DEF OrderGoesOn, OrderMoves, OrderStatuses
  <2>5. QED
    BY <2>2, <2>3, <2>4 DEF ConsumptionNext
<1>3. TypeOK'
  BY <1>2 DEF BillingInv, TypeOK
<1>4. WithinApproval' /\ BilledWhenCompleted'
  BY <1>2 DEF BillingInv, WithinApproval, BilledWhenCompleted
<1>5. PaymentsReal' /\ StatusInSync' /\ NeverOverpaid' /\ BillWithinQuote'
  BY DEF BillingInv, PaymentsReal, StatusInSync, NeverOverpaid, BillWithinQuote
<1>6. NothingUnbilled'
  <2> SUFFICES ASSUME NEW q \in Requirements, invoices[OrderOf[q]] # NoInvoice
               PROVE  consumed'[q] <= invoices[OrderOf[q]].lines[q]
    BY DEF NothingUnbilled
  <2>1. OrderOf[q] \in Orders
    BY <1>1
  <2>2. consumed'[q] <= consumed[q]
    BY <1>2, <2>1 DEF BillingInv, BilledWhenCompleted
  <2>3. consumed[q] <= invoices[OrderOf[q]].lines[q]
    BY DEF BillingInv, NothingUnbilled
  <2>4. invoices[OrderOf[q]].lines[q] \in Nat
    BY <2>1 DEF BillingInv, TypeOK, Invoice
  <2>5. QED
    BY <1>1, <1>2, <2>2, <2>3, <2>4
<1>7. QED
  BY <1>3, <1>4, <1>5, <1>6 DEF BillingInv

\* The invoice drawn up for a completed order bills what was consumed, which
\* is at most what was approved.
LEMMA CreateInvoiceInv ==
  ASSUME BillingInv, NEW o \in Orders, CreateInvoice(o)
  PROVE  BillingInv'
<1> DEFINE total == InvoiceTotal(o, QuantityToBill(o))
           new == [status |-> "DRAFT", total |-> total,
                   lines |-> QuantityToBill(o)]
<1>1. /\ orderStatus[o] = "COMPLETED"
      /\ invoices[o] = NoInvoice
      /\ invoices' = [invoices EXCEPT ![o] = new]
      /\ UNCHANGED <<orderStatus, consumed, payments>>
  BY DEF CreateInvoice, Billable
<1>2. /\ invoices \in [Orders -> Invoice]
      /\ consumed \in [Requirements -> Nat]
      /\ \A q \in Requirements : consumed[q] <= Approved[q]
  BY DEF BillingInv, TypeOK, WithinApproval
<1>3. /\ QuantityToBill(o) \in [Requirements -> Nat]
      /\ \A q \in Requirements : OrderOf[q] = o
           => QuantityToBill(o)[q] = consumed[q]
  BY <1>2 DEF QuantityToBill
<1>4. total \in Nat /\ total <= QuotedTotal(o)
  BY <1>2, <1>3, InvoiceWithinQuote
<1> HIDE DEF total
<1>5. new \in Invoice
  BY <1>3, <1>4 DEF Invoice, InvoiceStatuses
<1>6. /\ new.status = "DRAFT" /\ new.total = total
      /\ new.lines = QuantityToBill(o)
  OBVIOUS
<1> HIDE DEF new
<1>7. /\ invoices' \in [Orders -> Invoice]
      /\ invoices'[o] = new
      /\ \A w \in Orders : w # o => invoices'[w] = invoices[w]
  BY <1>1, <1>2, <1>5
<1>8. PostedTotal(payments, o) = 0
  <2>1. invoices[o].status \notin SettledStatuses
    BY <1>1 DEF NoInvoice, SettledStatuses
  <2>2. QED
    BY <2>1 DEF BillingInv, StatusInSync
<1>9. TypeOK' /\ WithinApproval' /\ PaymentsReal'
  BY <1>1, <1>7 DEF BillingInv, TypeOK, WithinApproval, PaymentsReal
<1>10. BilledWhenCompleted'
  BY <1>1, <1>7 DEF BillingInv, BilledWhenCompleted
<1>11. StatusInSync'
  BY <1>1, <1>6, <1>7, <1>8 DEF BillingInv, StatusInSync, SettledStatuses
<1>12. NeverOverpaid'
  BY <1>1, <1>4, <1>6, <1>7, <1>8 DEF BillingInv, NeverOverpaid
<1>13. BillWithinQuote'
  BY <1>4, <1>6, <1>7 DEF BillingInv, BillWithinQuote
<1>14. NothingUnbilled'
  <2> SUFFICES ASSUME NEW q \in Requirements, invoices'[OrderOf[q]] # NoInvoice
               PROVE  consumed'[q] <= invoices'[OrderOf[q]].lines[q]
    BY DEF NothingUnbilled
  <2>1. OrderOf[q] \in Orders
    BY ConsumptionAssumption
  <2>2. CASE OrderOf[q] = o
    BY <1>1, <1>2, <1>3, <1>6, <1>7, <2>2
  <2>3. CASE OrderOf[q] # o
    BY <1>1, <1>7, <2>1, <2>3 DEF BillingInv, NothingUnbilled
  <2>4. QED
    BY <2>2, <2>3
<1>15. QED
  BY <1>9, <1>10, <1>11, <1>12, <1>13, <1>14 DEF BillingInv

\* Rewriting the status of one invoice disturbs only the agreement of status
\* and payments, which the services restore.
LEMMA StatusStep ==
  ASSUME BillingInv, NEW o \in Orders, NEW s \in InvoiceStatuses \ {"ABSENT"},
         invoices[o].status # "ABSENT",
         invoices' = [invoices EXCEPT ![o].status = s],
         UNCHANGED <<orderStatus, consumed>>,
         payments' \in [PaymentIds -> Payment],
         PaymentsReal', StatusInSync', NeverOverpaid'
  PROVE  BillingInv'
<1>1. invoices \in [Orders -> Invoice]
  BY DEF BillingInv, TypeOK
<1> DEFINE new == [invoices[o] EXCEPT !.status = s]
<1>2. /\ new \in Invoice /\ new.status = s
      /\ new.total = invoices[o].total /\ new.lines = invoices[o].lines
  BY <1>1, InvoiceRow
<1>3. invoices' = [invoices EXCEPT ![o] = new]
  OBVIOUS
<1> HIDE DEF new
<1>4. /\ invoices' \in [Orders -> Invoice]
      /\ invoices'[o] = new
      /\ \A w \in Orders : w # o => invoices'[w] = invoices[w]
  BY <1>1, <1>2, <1>3
<1>5. invoices[o] # NoInvoice
  BY DEF NoInvoice
<1>6. TypeOK' /\ WithinApproval'
  BY <1>4 DEF BillingInv, TypeOK, WithinApproval
<1>7. BilledWhenCompleted'
  BY <1>4, <1>5 DEF BillingInv, BilledWhenCompleted
<1>8. BillWithinQuote'
  BY <1>2, <1>4 DEF BillingInv, BillWithinQuote
<1>9. NothingUnbilled'
  <2> SUFFICES ASSUME NEW q \in Requirements, invoices'[OrderOf[q]] # NoInvoice
               PROVE  consumed'[q] <= invoices'[OrderOf[q]].lines[q]
    BY DEF NothingUnbilled
  <2>1. OrderOf[q] \in Orders
    BY ConsumptionAssumption
  <2>2. QED
    BY <1>2, <1>4, <1>5, <2>1 DEF BillingInv, NothingUnbilled
<1>10. QED
  BY <1>6, <1>7, <1>8, <1>9 DEF BillingInv

LEMMA IssueInvoiceInv ==
  ASSUME BillingInv, NEW o \in Orders, IssueInvoice(o)
  PROVE  BillingInv'
<1>1. /\ invoices[o].status = "DRAFT"
      /\ invoices' = [invoices EXCEPT ![o].status = "ISSUED"]
      /\ UNCHANGED <<orderStatus, consumed, payments>>
  BY DEF IssueInvoice
<1>2. /\ invoices \in [Orders -> Invoice]
      /\ payments \in [PaymentIds -> Payment]
  BY DEF BillingInv, TypeOK
<1>3. /\ invoices'[o].status = "ISSUED"
      /\ \A w \in Orders : invoices'[w].total = invoices[w].total
      /\ \A w \in Orders : w # o => invoices'[w] = invoices[w]
  BY <1>1, <1>2 DEF Invoice
<1>4. PostedTotal(payments, o) = 0
  BY <1>1 DEF BillingInv, StatusInSync, SettledStatuses
<1>5. StatusInSync'
  BY <1>1, <1>3, <1>4
     DEF BillingInv, StatusInSync, SettledStatuses, StatusForTotal
<1>6. NeverOverpaid' /\ PaymentsReal'
  BY <1>1, <1>3 DEF BillingInv, NeverOverpaid, PaymentsReal
<1>7. "ISSUED" \in InvoiceStatuses \ {"ABSENT"}
  BY DEF InvoiceStatuses, SettledStatuses
<1>8. QED
  BY <1>1, <1>2, <1>5, <1>6, <1>7, StatusStep

\* An invoice that is voided has nothing posted to it: its status says so.
LEMMA VoidInvoiceInv ==
  ASSUME BillingInv, NEW o \in Orders, VoidInvoice(o)
  PROVE  BillingInv'
<1>1. /\ invoices[o].status = "ISSUED"
      /\ invoices' = [invoices EXCEPT ![o].status = "VOIDED"]
      /\ UNCHANGED <<orderStatus, consumed, payments>>
  BY DEF VoidInvoice, Voidable
<1>2. /\ invoices \in [Orders -> Invoice]
      /\ payments \in [PaymentIds -> Payment]
  BY DEF BillingInv, TypeOK
<1>3. /\ invoices'[o].status = "VOIDED"
      /\ \A w \in Orders : invoices'[w].total = invoices[w].total
      /\ \A w \in Orders : w # o => invoices'[w] = invoices[w]
  BY <1>1, <1>2 DEF Invoice
<1>4. PostedTotal(payments, o) = 0
  <2>1. invoices[o].status
          = StatusForTotal(invoices[o].total, PostedTotal(payments, o))
    BY <1>1 DEF BillingInv, StatusInSync, SettledStatuses
  <2>2. QED
    BY <1>1, <2>1 DEF StatusForTotal
<1>5. StatusInSync'
  BY <1>1, <1>3, <1>4 DEF BillingInv, StatusInSync, SettledStatuses
<1>6. NeverOverpaid' /\ PaymentsReal'
  BY <1>1, <1>3 DEF BillingInv, NeverOverpaid, PaymentsReal
<1>7. "VOIDED" \in InvoiceStatuses \ {"ABSENT"}
  BY DEF InvoiceStatuses
<1>8. QED
  BY <1>1, <1>2, <1>5, <1>6, <1>7, StatusStep

\* Money posted to, or taken back from, an open invoice: the status is
\* computed anew from what is posted now.
LEMMA MoneyStep ==
  ASSUME BillingInv, NEW o \in Orders, NEW p \in PaymentIds,
         invoices[o].status \in SettledStatuses,
         payments' \in [PaymentIds -> Payment], PaymentOK(payments'[p]),
         \A k \in PaymentIds : k # p => payments'[k] = payments[k],
         \A w \in Orders : w # o => PostedTo(payments'[p], w)
                                      = PostedTo(payments[p], w),
         PostedTotal(payments', o) <= invoices[o].total,
         invoices' = [invoices EXCEPT
           ![o].status = StatusForTotal(invoices[o].total,
                                        PostedTotal(payments', o))],
         UNCHANGED <<orderStatus, consumed>>
  PROVE  BillingInv'
<1> DEFINE s == StatusForTotal(invoices[o].total, PostedTotal(payments', o))
<1>1. /\ invoices \in [Orders -> Invoice]
      /\ payments \in [PaymentIds -> Payment]
      /\ invoices[o].total \in Nat
  BY DEF BillingInv, TypeOK, Invoice
<1>2. PostedTotal(payments', o) \in Nat
  BY PostedBounds
<1>3. s \in SettledStatuses
  BY <1>1, <1>2, StatusForTotalSettled
<1>4. s \in InvoiceStatuses \ {"ABSENT"} /\ invoices[o].status # "ABSENT"
  BY <1>3 DEF InvoiceStatuses, SettledStatuses
<1>5. /\ invoices'[o].status = s
      /\ \A w \in Orders : invoices'[w].total = invoices[w].total
      /\ \A w \in Orders : w # o => invoices'[w] = invoices[w]
  BY <1>1 DEF Invoice
<1>6. ASSUME NEW w \in Orders, w # o
      PROVE  PostedTotal(payments', w) = PostedTotal(payments, w)
  <2>1. PostedTotal(payments', w) = PostedTotal(payments, w)
          + PostedTo(payments'[p], w) - PostedTo(payments[p], w)
    BY <1>1, PostedChange
  <2>2. /\ PostedTo(payments'[p], w) = PostedTo(payments[p], w)
        /\ PostedTo(payments[p], w) \in Nat
    BY <1>1, <1>6, PostedTable
  <2>3. PostedTotal(payments, w) \in Nat
    BY <1>1, PostedBounds
  <2>4. QED
    BY <2>1, <2>2, <2>3
<1> HIDE DEF s
<1>7. StatusInSync'
  <2> SUFFICES ASSUME NEW w \in Orders
        PROVE  IF invoices'[w].status \in SettledStatuses
               THEN invoices'[w].status
                      = StatusForTotal(invoices'[w].total,
                                       PostedTotal(payments', w))
               ELSE PostedTotal(payments', w) = 0
    BY DEF StatusInSync
  <2>1. CASE w = o
    BY <1>3, <1>5, <2>1 DEF s
  <2>2. CASE w # o
    BY <1>5, <1>6, <2>2 DEF BillingInv, StatusInSync
  <2>3. QED
    BY <2>1, <2>2
<1>8. NeverOverpaid'
  BY <1>5, <1>6 DEF BillingInv, NeverOverpaid
<1>9. PaymentsReal'
  BY DEF BillingInv, PaymentsReal
<1>10. invoices' = [invoices EXCEPT ![o].status = s]
  BY DEF s
<1>11. QED
  BY <1>4, <1>7, <1>8, <1>9, <1>10, StatusStep

\* A payment is accepted up to what is outstanding.
LEMMA RecordPaymentInv ==
  ASSUME BillingInv, NEW o \in Orders, NEW n \in 0..MaxAmount,
         NEW p \in PaymentIds, RecordPayment(o, n, p)
  PROVE  BillingInv'
<1> DEFINE new == [status |-> "POSTED", invoice |-> o, amount |-> n]
<1>1. /\ invoices \in [Orders -> Invoice]
      /\ payments \in [PaymentIds -> Payment]
      /\ invoices[o].total \in Nat
      /\ n \in Nat /\ n > 0
  BY BillingAssumption DEF BillingInv, TypeOK, Invoice, RecordPayment
<1>2. /\ invoices[o].status \in SettledStatuses
      /\ n <= invoices[o].total - PostedTotal(payments, o)
      /\ payments[p] = NoPayment
      /\ payments' = [payments EXCEPT ![p] = new]
      /\ invoices' = [invoices EXCEPT
           ![o].status = StatusForTotal(invoices[o].total,
                                        PostedTotal(payments, o) + n)]
      /\ UNCHANGED <<orderStatus, consumed>>
  BY DEF RecordPayment, SettledStatuses, Outstanding, NextPayment
<1>3. new \in Payment /\ PaymentOK(new)
  BY <1>1 DEF Payment, PaymentOK
<1>4. /\ PostedTo(new, o) = n
      /\ \A w \in Orders : w # o => PostedTo(new, w) = 0
  BY DEF PostedTo
<1> HIDE DEF new
<1>5. \A w \in Orders : PostedTo(payments[p], w) = 0
  BY <1>2 DEF PostedTo, NoPayment
<1>6. /\ payments' \in [PaymentIds -> Payment]
      /\ payments'[p] = new
      /\ \A k \in PaymentIds : k # p => payments'[k] = payments[k]
  BY <1>1, <1>2, <1>3
<1>7. PostedTotal(payments', o) = PostedTotal(payments, o) + n
  <2>1. PostedTotal(payments', o) = PostedTotal(payments, o)
          + PostedTo(payments'[p], o) - PostedTo(payments[p], o)
    BY <1>1, <1>6, PostedChange
  <2>2. PostedTotal(payments, o) \in Nat
    BY <1>1, PostedBounds
  <2>3. QED
    BY <1>1, <1>4, <1>5, <1>6, <2>1, <2>2
<1>8. PostedTotal(payments', o) <= invoices[o].total
  <2>1. PostedTotal(payments, o) \in Nat
    BY <1>1, PostedBounds
  <2>2. QED
    BY <1>1, <1>2, <1>7, <2>1
<1>9. \A w \in Orders : w # o => PostedTo(payments'[p], w)
                                   = PostedTo(payments[p], w)
  BY <1>4, <1>5, <1>6
<1>10. invoices' = [invoices EXCEPT
         ![o].status = StatusForTotal(invoices[o].total,
                                      PostedTotal(payments', o))]
  BY <1>2, <1>7
<1>11. QED
  BY <1>2, <1>3, <1>6, <1>8, <1>9, <1>10, MoneyStep

\* A posted payment belongs to an open invoice; without it no more is posted
\* than before.
LEMMA VoidPaymentInv ==
  ASSUME BillingInv, NEW p \in PaymentIds, VoidPayment(p)
  PROVE  BillingInv'
<1>1. /\ invoices \in [Orders -> Invoice]
      /\ payments \in [PaymentIds -> Payment]
      /\ payments[p].status = "POSTED"
      /\ PaymentOK(payments[p])
  BY DEF BillingInv, TypeOK, PaymentsReal, VoidPayment
<1>2. payments[p].invoice \in Orders /\ payments[p].amount > 0
  BY <1>1 DEF PaymentOK, NoPayment
<1>3. PICK o \in Orders : o = payments[p].invoice
  BY <1>2
<1> DEFINE new == [payments[p] EXCEPT !.status = "VOIDED"]
<1>4. /\ payments' = [payments EXCEPT ![p] = new]
      /\ invoices' = [invoices EXCEPT
           ![o].status = StatusForTotal(invoices[o].total,
                                        PostedTotal(payments', o))]
      /\ UNCHANGED <<orderStatus, consumed>>
  BY <1>3 DEF VoidPayment, StatusAfterVoid
<1>5. /\ new \in Payment /\ new.status = "VOIDED"
      /\ new.invoice = payments[p].invoice /\ new.amount = payments[p].amount
  BY <1>1, VoidedRow
<1> HIDE DEF new
<1>6. /\ payments' \in [PaymentIds -> Payment]
      /\ payments'[p] = new
      /\ \A k \in PaymentIds : k # p => payments'[k] = payments[k]
  BY <1>1, <1>4, <1>5
<1>7. PaymentOK(payments'[p])
  BY <1>2, <1>5, <1>6 DEF PaymentOK
<1>8. /\ PostedTo(payments[p], o) = payments[p].amount
      /\ PostedTo(new, o) = 0
      /\ \A w \in Orders : w # o => PostedTo(payments[p], w) = 0
      /\ \A w \in Orders : w # o => PostedTo(new, w) = 0
  BY <1>1, <1>3, <1>5 DEF PostedTo
<1>9. /\ PostedTotal(payments, o) \in Nat
      /\ payments[p].amount \in Nat
      /\ payments[p].amount <= PostedTotal(payments, o)
  BY <1>1, <1>8, PostedBounds DEF Payment
<1>10. PostedTotal(payments', o) = PostedTotal(payments, o) - payments[p].amount
  <2>1. PostedTotal(payments', o) = PostedTotal(payments, o)
          + PostedTo(payments'[p], o) - PostedTo(payments[p], o)
    BY <1>1, <1>6, PostedChange
  <2>2. QED
    BY <1>6, <1>8, <1>9, <2>1
<1>11. invoices[o].status \in SettledStatuses
  BY <1>2, <1>9 DEF BillingInv, StatusInSync
<1>12. PostedTotal(payments', o) <= invoices[o].total
  <2>1. PostedTotal(payments, o) <= invoices[o].total /\ invoices[o].total \in Nat
    BY <1>1 DEF BillingInv, NeverOverpaid, Invoice
  <2>2. QED
    BY <1>9, <1>10, <2>1
<1>13. \A w \in Orders : w # o => PostedTo(payments'[p], w)
                                    = PostedTo(payments[p], w)
  BY <1>6, <1>8
<1>14. QED
  BY <1>4, <1>6, <1>7, <1>11, <1>12, <1>13, MoneyStep

LEMMA BillingStep == BillingInv /\ [Next]_billingVars => BillingInv'
<1> SUFFICES ASSUME BillingInv, [Next]_billingVars PROVE BillingInv'
  OBVIOUS
<1>1. CASE UNCHANGED billingVars
  BY <1>1 DEF billingVars, BillingInv, TypeOK, WithinApproval,
              BilledWhenCompleted, PaymentsReal, StatusInSync, NeverOverpaid,
              BillWithinQuote, NothingUnbilled
<1>2. CASE Bills
  BY <1>2, CreateInvoiceInv, IssueInvoiceInv, VoidInvoiceInv, RecordPaymentInv,
     VoidPaymentInv DEF Bills
<1>3. CASE ConsumptionNext /\ UNCHANGED <<invoices, payments>>
  BY <1>3, ConsumptionInv
<1>4. QED
  BY <1>1, <1>2, <1>3 DEF Next

\* BillingInv is inductive.
THEOREM BillingInvariant == Spec => []BillingInv
<1>1. Init => BillingInv
  BY BillingInit
<1>2. BillingInv /\ [Next]_billingVars => BillingInv'
  BY BillingStep
<1>3. QED
  BY <1>1, <1>2, PTL DEF Spec

\* The tables of billing hold well-formed rows, whatever the services do.
THEOREM BillingTyped == Spec => []TypeOK
<1>1. BillingInv => TypeOK
  BY DEF BillingInv
<1>2. QED
  BY <1>1, BillingInvariant, PTL

\* The stored status of an invoice is always what its posted payments say.
THEOREM InvoiceStatusTrue == Spec => []StatusInSync
<1>1. BillingInv => StatusInSync
  BY DEF BillingInv
<1>2. QED
  BY <1>1, BillingInvariant, PTL

\* No sequence of payments and voids overpays an invoice.
THEOREM PaymentsBounded == Spec => []NeverOverpaid
<1>1. BillingInv => NeverOverpaid
  BY DEF BillingInv
<1>2. QED
  BY <1>1, BillingInvariant, PTL

\* No invoice comes to more than the approved quotation, at any price,
\* discount and tax.
THEOREM QuotedTotalIsACeiling == Spec => []BillWithinQuote
<1>1. BillingInv => BillWithinQuote
  BY DEF BillingInv
<1>2. QED
  BY <1>1, BillingInvariant, PTL

\* Everything consumed by an invoiced order is on its invoice.
THEOREM ConsumptionIsBilled == Spec => []NothingUnbilled
<1>1. BillingInv => NothingUnbilled
  BY DEF BillingInv
<1>2. QED
  BY <1>1, BillingInvariant, PTL

-----------------------------------------------------------------------------
(* Billing implements the abstract account *)

Stages == [o \in Orders |-> StageOf(invoices[o])]
Dues   == [o \in Orders |-> invoices[o].total]
Paids  == [o \in Orders |-> PostedTotal(payments, o)]

\* The stages of the bills when one invoice changes.
LEMMA OneStage ==
  ASSUME BillingInv, BillingInv', NEW o \in Orders,
         \A w \in Orders : w # o => invoices'[w] = invoices[w]
  PROVE  /\ Stages' = [Stages EXCEPT ![o] = StageOf(invoices'[o])]
         /\ Dues' = [Dues EXCEPT ![o] = invoices'[o].total]
  BY DEF Stages, Dues

\* Init is the abstract Init.
LEMMA AccountInit == Init => Account!ReceivableInit
<1> SUFFICES ASSUME Init PROVE Account!ReceivableInit
  OBVIOUS
<1>1. \A o \in Orders : PostedTotal(payments, o) = 0
  BY PostedNothing DEF Init
<1>2. \A o \in Orders : StageOf(invoices[o]) = "NONE" /\ invoices[o].total = 0
  BY DEF Init, StageOf, NoInvoice
<1>3. QED
  BY <1>1, <1>2 DEF Account!ReceivableInit

\* Every step on a bill is the abstract step of its name.
LEMMA AccountStep ==
  ASSUME BillingInv, BillingInv', [Next]_billingVars
  PROVE  [Account!ReceivableNext]_(Account!receivableVars)
<1> USE DEF Account!receivableVars
<1>1. CASE UNCHANGED <<invoices, payments>>
  BY <1>1
<1>2. ASSUME NEW o \in Orders, CreateInvoice(o)
      PROVE  Account!ReceivableNext
  <2>1. /\ invoices[o] = NoInvoice /\ UNCHANGED payments
        /\ \A w \in Orders : w # o => invoices'[w] = invoices[w]
        /\ invoices'[o].status = "DRAFT" /\ invoices'[o].total > 0
    BY <1>2 DEF CreateInvoice, BillingInv, TypeOK
  <2>2. StageOf(invoices[o]) = "NONE" /\ StageOf(invoices'[o]) = "DRAFT"
    BY <2>1 DEF StageOf, NoInvoice, SettledStatuses
  <2>3. Account!Draw(o, Dues'[o])
    BY <2>1, <2>2, OneStage
       DEF Account!Draw, Account!Advance, Stages, Dues, Paids
  <2>4. QED
    BY <2>3 DEF Account!ReceivableNext, Dues
<1>3. ASSUME NEW o \in Orders, IssueInvoice(o) PROVE Account!ReceivableNext
  <2>1. /\ invoices[o].status = "DRAFT" /\ UNCHANGED payments
        /\ \A w \in Orders : w # o => invoices'[w] = invoices[w]
        /\ invoices'[o].status = "ISSUED"
        /\ \A w \in Orders : invoices'[w].total = invoices[w].total
    BY <1>3 DEF IssueInvoice, BillingInv, TypeOK, Invoice
  <2>2. StageOf(invoices[o]) = "DRAFT" /\ StageOf(invoices'[o]) = "OPEN"
    BY <2>1 DEF StageOf, SettledStatuses
  <2>3. Account!Open(o)
    BY <2>1, <2>2, OneStage
       DEF Account!Open, Account!Advance, Stages, Dues, Paids
  <2>4. QED
    BY <2>3 DEF Account!ReceivableNext
<1>4. ASSUME NEW o \in Orders, VoidInvoice(o) PROVE Account!ReceivableNext
  <2>1. /\ invoices[o].status = "ISSUED" /\ UNCHANGED payments
        /\ \A w \in Orders : w # o => invoices'[w] = invoices[w]
        /\ invoices'[o].status = "VOIDED"
        /\ \A w \in Orders : invoices'[w].total = invoices[w].total
    BY <1>4 DEF VoidInvoice, Voidable, BillingInv, TypeOK, Invoice
  <2>2. StageOf(invoices[o]) = "OPEN" /\ StageOf(invoices'[o]) = "VOIDED"
    BY <2>1 DEF StageOf, SettledStatuses
  <2>3. PostedTotal(payments, o) = 0
    BY <2>1 DEF BillingInv, StatusInSync, StatusForTotal, SettledStatuses
  <2>4. Account!Withdraw(o)
    BY <2>1, <2>2, <2>3, OneStage
       DEF Account!Withdraw, Account!Advance, Stages, Dues, Paids
  <2>5. QED
    BY <2>4 DEF Account!ReceivableNext
<1>5. ASSUME NEW o \in Orders,
             invoices[o].status \in SettledStatuses,
             invoices'[o].status \in SettledStatuses,
             \A w \in Orders : w # o => invoices'[w] = invoices[w],
             invoices'[o].total = invoices[o].total,
             \A w \in Orders : w # o => PostedTotal(payments', w)
                                          = PostedTotal(payments, w)
      PROVE  Account!ReceivableNext
  <2>1. StageOf(invoices[o]) = "OPEN" /\ StageOf(invoices'[o]) = "OPEN"
    BY <1>5 DEF StageOf, SettledStatuses
  <2>2. UNCHANGED <<Stages, Dues>>
    BY <1>5, <2>1 DEF Stages, Dues
  <2>3. PostedTotal(payments', o) \in 0..invoices[o].total
    <3>1. payments' \in [PaymentIds -> Payment]
      BY DEF BillingInv, TypeOK
    <3>2. PostedTotal(payments', o) \in Nat
      BY <3>1, PostedBounds
    <3>3. PostedTotal(payments', o) <= invoices'[o].total
      BY DEF BillingInv, NeverOverpaid
    <3>4. invoices[o].total \in Nat
      BY DEF BillingInv, TypeOK, Invoice
    <3>5. QED
      BY <1>5, <3>2, <3>3, <3>4
  <2>4. Account!Settle(o, Paids'[o])
    BY <1>5, <2>1, <2>2, <2>3 DEF Account!Settle, Stages, Dues, Paids
  <2>5. QED
    BY <2>4 DEF Account!ReceivableNext, Paids
<1>6. ASSUME NEW o \in Orders, NEW n \in 0..MaxAmount, NEW p \in PaymentIds,
             RecordPayment(o, n, p)
      PROVE  Account!ReceivableNext
  <2>1. /\ payments \in [PaymentIds -> Payment]
        /\ payments' \in [PaymentIds -> Payment]
        /\ invoices \in [Orders -> Invoice]
    BY DEF BillingInv, TypeOK
  <2>2. /\ invoices[o].status \in SettledStatuses
        /\ payments[p] = NoPayment
        /\ payments' = [payments EXCEPT
             ![p] = [status |-> "POSTED", invoice |-> o, amount |-> n]]
        /\ \A w \in Orders : w # o => invoices'[w] = invoices[w]
        /\ invoices'[o].total = invoices[o].total
        /\ invoices'[o].status = StatusForTotal(invoices[o].total,
                                     PostedTotal(payments, o) + n)
    BY <1>6, <2>1 DEF RecordPayment, NextPayment, SettledStatuses, Invoice
  <2>3. invoices'[o].status \in SettledStatuses
    BY <2>2 DEF StatusForTotal, SettledStatuses
  <2>4. ASSUME NEW w \in Orders, w # o
        PROVE  PostedTotal(payments', w) = PostedTotal(payments, w)
    <3>1. PostedTo(payments'[p], w) = 0 /\ PostedTo(payments[p], w) = 0
      BY <2>1, <2>2, <2>4 DEF PostedTo, NoPayment
    <3>2. \A k \in PaymentIds : k # p => payments'[k] = payments[k]
      BY <2>2
    <3>3. PostedTotal(payments', w) = PostedTotal(payments, w)
            + PostedTo(payments'[p], w) - PostedTo(payments[p], w)
      BY <2>1, <3>2, PostedChange
    <3>4. PostedTotal(payments, w) \in Nat
      BY <2>1, PostedBounds
    <3>5. QED
      BY <3>1, <3>3, <3>4
  <2>5. QED
    BY <1>5, <2>2, <2>3, <2>4
<1>7. ASSUME NEW p \in PaymentIds, VoidPayment(p)
      PROVE  Account!ReceivableNext
  <2>1. /\ payments \in [PaymentIds -> Payment]
        /\ payments' \in [PaymentIds -> Payment]
        /\ invoices \in [Orders -> Invoice]
        /\ payments[p].status = "POSTED"
        /\ PaymentOK(payments[p])
    BY <1>7 DEF BillingInv, TypeOK, PaymentsReal, VoidPayment
  <2>2. PICK o \in Orders : o = payments[p].invoice /\ payments[p].amount > 0
    BY <2>1 DEF PaymentOK, NoPayment
  <2>3. /\ payments' = [payments EXCEPT ![p].status = "VOIDED"]
        /\ \A w \in Orders : w # o => invoices'[w] = invoices[w]
        /\ invoices'[o].total = invoices[o].total
        /\ invoices'[o].status = StatusForTotal(invoices[o].total,
                                     PostedTotal(payments', o))
    BY <1>7, <2>1, <2>2 DEF VoidPayment, StatusAfterVoid, Invoice
  <2>4. invoices'[o].status \in SettledStatuses
    BY <2>3 DEF StatusForTotal, SettledStatuses
  <2>5. invoices[o].status \in SettledStatuses
    <3>1. PostedTo(payments[p], o) = payments[p].amount
      BY <2>1, <2>2 DEF PostedTo
    <3>2. /\ PostedTotal(payments, o) \in Nat
          /\ payments[p].amount \in Nat
          /\ payments[p].amount <= PostedTotal(payments, o)
      BY <2>1, <3>1, PostedBounds DEF Payment
    <3>3. QED
      BY <2>2, <3>2 DEF BillingInv, StatusInSync
  <2>6. ASSUME NEW w \in Orders, w # o
        PROVE  PostedTotal(payments', w) = PostedTotal(payments, w)
    <3>1. payments'[p].invoice = o
      BY <2>1, <2>2, <2>3 DEF Payment
    <3>2. PostedTo(payments'[p], w) = 0 /\ PostedTo(payments[p], w) = 0
      BY <2>2, <2>6, <3>1 DEF PostedTo
    <3>3. \A k \in PaymentIds : k # p => payments'[k] = payments[k]
      BY <2>3
    <3>4. PostedTotal(payments', w) = PostedTotal(payments, w)
            + PostedTo(payments'[p], w) - PostedTo(payments[p], w)
      BY <2>1, <3>3, PostedChange
    <3>5. PostedTotal(payments, w) \in Nat
      BY <2>1, PostedBounds
    <3>6. QED
      BY <3>2, <3>4, <3>5
  <2>7. QED
    BY <1>5, <2>3, <2>4, <2>5, <2>6
<1>8. CASE Bills
  BY <1>2, <1>3, <1>4, <1>6, <1>7, <1>8 DEF Bills
<1>9. QED
  BY <1>1, <1>8 DEF Next, billingVars

\* Whatever billing does looks to the front desk like the abstract account.
THEOREM BillingIsAnAccount == Spec => ImplementsReceivable
<1>1. Init => Account!ReceivableInit
  BY AccountInit
<1>2. BillingInv /\ BillingInv' /\ [Next]_billingVars
        => [Account!ReceivableNext]_(Account!receivableVars)
  BY AccountStep
<1>3. QED
  BY <1>1, <1>2, BillingInvariant, PTL
     DEF Spec, ImplementsReceivable, Account!ReceivableSpec

\* Billing reads the work orders and the stock ledger and changes neither, so
\* they behave in it as Inventory is proved to keep them
\* (InventorySuppliesConsumption).
THEOREM BillingOnlyReads == Spec => ConsumptionSpec
<1>1. Init => ConsumptionInit
  BY DEF Init
<1>2. [Next]_billingVars => [ConsumptionNext]_consumptionVars
  BY DEF Next, Bills, CreateInvoice, IssueInvoice, VoidInvoice, RecordPayment, VoidPayment,
         billingVars, consumptionVars
<1>3. QED
  BY <1>1, <1>2, PTL DEF Spec, ConsumptionSpec

-----------------------------------------------------------------------------
(* The pages *)

\* The pages of billing only ask for what its services do, so that whatever
\* holds of the services holds of the pages that call them.
THEOREM PagesImplementServices == PagesSpec => Spec
<1>1. ASSUME NEW o \in Orders, CreateInvoice(o) PROVE Next
  BY <1>1 DEF Next, Bills
<1>2. ASSUME NEW u \in Staff, NEW o \in Orders, InvoiceIssue(u, o) \/ InvoiceVoid(u, o)
      PROVE  Next
  BY <1>2 DEF InvoiceIssue, InvoiceVoid, Next, Bills
<1>3. ASSUME NEW u \in Staff, NEW o \in Orders, NEW p \in PaymentIds, PaymentRecord(u, o, p)
      PROVE  Next
  <2>1. PICK n \in PaymentRecordForm : RecordPayment(o, n, p)
    BY <1>3 DEF PaymentRecord
  <2>2. n \in 0..MaxAmount
    BY BillingAssumption DEF PaymentRecordForm
  <2>3. QED
    BY <2>1, <2>2 DEF Next, Bills
<1>4. ASSUME NEW u \in Staff, NEW p \in PaymentIds, PaymentVoid(u, p) PROVE Next
  BY <1>4 DEF PaymentVoid, Next, Bills
<1>5. PagesNext => Next
  BY <1>1, <1>2, <1>3, <1>4 DEF PagesNext, InvoiceCreate, InvoiceCreateForm, Next
<1>6. [PagesNext]_billingVars => [Next]_billingVars
  BY <1>5
<1>7. QED
  BY <1>6, PTL DEF PagesSpec, Spec

=============================================================================
