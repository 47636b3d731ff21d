-------------------------- MODULE PurchasingProofs --------------------------
(***************************************************************************)
(* Proofs about purchasing, for any suppliers, orders, terms and tables.   *)
(*                                                                         *)
(* The stored statuses of orders and invoices stand for sums over receipts *)
(* and payments; a step adds one row to a table or changes one, and so one *)
(* term of a sum (ArithmeticProofs).  The three-way match holds because an *)
(* order's lines are fixed before anything is received, and a receipt's    *)
(* before anything is charged.                                             *)
(***************************************************************************)
EXTENDS PurchasingPages, ArithmeticProofs

-----------------------------------------------------------------------------
(* Sums over tables, and what one row does to them *)

LEMMA ReceivedSum ==
  ASSUME NEW t \in [ReceiptIds -> Receipt], NEW o \in Orders, NEW p \in Products
  PROVE  /\ Received(t, o, p) \in Nat
         /\ (\A r \in ReceiptIds : t[r].order # o) => Received(t, o, p) = 0
<1> DEFINE f == [r \in ReceiptIds |-> ReceivedBy(t[r], o, p)]
<1>1. f \in [1..MaxReceipts -> Int] /\ \A r \in 1..MaxReceipts : f[r] >= 0
  BY DEF ReceivedBy, Receipt, Quantity, ReceiptIds
<1>2. MaxReceipts \in Nat
  BY PurchasingAssumption
<1> HIDE DEF f
<1>3. Total(f, MaxReceipts) \in Nat
  BY <1>1, <1>2, TableInt, TableBounds
<1>4. (\A r \in ReceiptIds : t[r].order # o) => Total(f, MaxReceipts) = 0
  <2>1. SUFFICES ASSUME \A r \in ReceiptIds : t[r].order # o
                 PROVE  Total(f, MaxReceipts) = 0
    OBVIOUS
  <2>2. \A r \in 1..MaxReceipts : f[r] = 0
    BY <2>1 DEF f, ReceivedBy, ReceiptIds
  <2>3. QED
    BY <1>1, <1>2, <2>2, TableZero
<1>5. QED
  BY <1>3, <1>4 DEF f, Received

LEMMA ReceivedOnce ==
  ASSUME NEW t \in [ReceiptIds -> Receipt], NEW u \in [ReceiptIds -> Receipt],
         NEW r \in ReceiptIds, \A k \in ReceiptIds : k # r => u[k] = t[k],
         NEW o \in Orders, NEW p \in Products
  PROVE  Received(u, o, p)
           = Received(t, o, p) + ReceivedBy(u[r], o, p) - ReceivedBy(t[r], o, p)
<1> DEFINE f == [k \in ReceiptIds |-> ReceivedBy(t[k], o, p)]
           g == [k \in ReceiptIds |-> ReceivedBy(u[k], o, p)]
<1>1. f \in [1..MaxReceipts -> Int] /\ g \in [1..MaxReceipts -> Int]
  BY DEF ReceivedBy, Receipt, Quantity, ReceiptIds
<1>2. /\ \A k \in 1..MaxReceipts : k # r => g[k] = f[k]
      /\ r \in 1..MaxReceipts /\ MaxReceipts \in Nat
      /\ g[r] = ReceivedBy(u[r], o, p) /\ f[r] = ReceivedBy(t[r], o, p)
  BY PurchasingAssumption DEF ReceiptIds
<1> HIDE DEF f, g
<1>3. Total(g, MaxReceipts) = Total(f, MaxReceipts) + g[r] - f[r]
  BY <1>1, <1>2, TableChange
<1>4. QED
  BY <1>2, <1>3 DEF Received, f, g

LEMMA ChargedSum ==
  ASSUME NEW t \in [BillIds -> Bill], NEW r \in ReceiptIds, NEW p \in Products
  PROVE  /\ Charged(t, r, p) \in Nat
         /\ \A b \in BillIds : ChargedBy(t[b], r, p) \in Nat
         /\ \A b \in BillIds : ChargedBy(t[b], r, p) <= Charged(t, r, p)
<1> DEFINE f == [b \in BillIds |-> ChargedBy(t[b], r, p)]
<1>1. \A b \in BillIds : t[b].lines[r][p] \in Nat
  BY DEF Bill, Charges, Quantity
<1>2. f \in [1..MaxInvoices -> Int] /\ \A b \in 1..MaxInvoices : f[b] >= 0
  BY <1>1 DEF ChargedBy, BillIds
<1>3. MaxInvoices \in Nat
  BY PurchasingAssumption
<1> HIDE DEF f
<1>4. /\ Total(f, MaxInvoices) \in Nat
      /\ \A b \in 1..MaxInvoices : f[b] <= Total(f, MaxInvoices)
  BY <1>2, <1>3, TableInt, TableBounds
<1>5. QED
  BY <1>1, <1>4 DEF f, Charged, ChargedBy, BillIds

LEMMA ChargedOnce ==
  ASSUME NEW t \in [BillIds -> Bill], NEW u \in [BillIds -> Bill],
         NEW b \in BillIds, \A k \in BillIds : k # b => u[k] = t[k],
         NEW r \in ReceiptIds, NEW p \in Products
  PROVE  Charged(u, r, p)
           = Charged(t, r, p) + ChargedBy(u[b], r, p) - ChargedBy(t[b], r, p)
<1> DEFINE f == [k \in BillIds |-> ChargedBy(t[k], r, p)]
           g == [k \in BillIds |-> ChargedBy(u[k], r, p)]
<1>1. f \in [1..MaxInvoices -> Int] /\ g \in [1..MaxInvoices -> Int]
  <2>1. \A k \in BillIds : f[k] \in Int /\ g[k] \in Int
    BY ChargedSum
  <2>2. QED
    BY <2>1 DEF BillIds
<1>2. /\ \A k \in 1..MaxInvoices : k # b => g[k] = f[k]
      /\ b \in 1..MaxInvoices /\ MaxInvoices \in Nat
      /\ g[b] = ChargedBy(u[b], r, p) /\ f[b] = ChargedBy(t[b], r, p)
  BY PurchasingAssumption DEF BillIds
<1> HIDE DEF f, g
<1>3. Total(g, MaxInvoices) = Total(f, MaxInvoices) + g[b] - f[b]
  BY <1>1, <1>2, TableChange
<1>4. QED
  BY <1>2, <1>3 DEF Charged, f, g

LEMMA BillsChargedOnce ==
  ASSUME bills \in [BillIds -> Bill], bills' \in [BillIds -> Bill],
         NEW b \in BillIds, \A k \in BillIds : k # b => bills'[k] = bills[k]
  PROVE  \A r \in ReceiptIds, p \in Products :
           Charged(bills', r, p)
             = Charged(bills, r, p) + ChargedBy(bills'[b], r, p) - ChargedBy(bills[b], r, p)
BY ChargedOnce

LEMMA PaidSum ==
  ASSUME NEW t \in [PaymentIds -> Payment], NEW b \in BillIds
  PROVE  /\ Paid(t, b) \in Nat
         /\ \A p \in PaymentIds : PaidBy(t[p], b) <= Paid(t, b)
         /\ (\A p \in PaymentIds : t[p] = NoPayment) => Paid(t, b) = 0
<1> DEFINE f == [p \in PaymentIds |-> PaidBy(t[p], b)]
<1>1. f \in [1..MaxPayments -> Int] /\ \A p \in 1..MaxPayments : f[p] >= 0
  BY DEF PaidBy, Payment, PaymentIds
<1>2. MaxPayments \in Nat
  BY PurchasingAssumption
<1> HIDE DEF f
<1>3. /\ Total(f, MaxPayments) \in Nat
      /\ \A p \in 1..MaxPayments : f[p] <= Total(f, MaxPayments)
  BY <1>1, <1>2, TableInt, TableBounds
<1>4. (\A p \in PaymentIds : t[p] = NoPayment) => Total(f, MaxPayments) = 0
  <2>1. SUFFICES ASSUME \A p \in PaymentIds : t[p] = NoPayment
                 PROVE  Total(f, MaxPayments) = 0
    OBVIOUS
  <2>2. \A p \in 1..MaxPayments : f[p] = 0
    BY <2>1 DEF f, PaidBy, PaymentIds, NoPayment
  <2>3. QED
    BY <1>1, <1>2, <2>2, TableZero
<1>5. QED
  BY <1>3, <1>4 DEF f, Paid, PaymentIds

LEMMA PaidOnce ==
  ASSUME NEW t \in [PaymentIds -> Payment], NEW u \in [PaymentIds -> Payment],
         NEW p \in PaymentIds, \A k \in PaymentIds : k # p => u[k] = t[k],
         NEW b \in BillIds
  PROVE  Paid(u, b) = Paid(t, b) + PaidBy(u[p], b) - PaidBy(t[p], b)
<1> DEFINE f == [k \in PaymentIds |-> PaidBy(t[k], b)]
           g == [k \in PaymentIds |-> PaidBy(u[k], b)]
<1>1. f \in [1..MaxPayments -> Int] /\ g \in [1..MaxPayments -> Int]
  BY DEF PaidBy, Payment, PaymentIds
<1>2. /\ \A k \in 1..MaxPayments : k # p => g[k] = f[k]
      /\ p \in 1..MaxPayments /\ MaxPayments \in Nat
      /\ g[p] = PaidBy(u[p], b) /\ f[p] = PaidBy(t[p], b)
  BY PurchasingAssumption DEF PaymentIds
<1> HIDE DEF f, g
<1>3. Total(g, MaxPayments) = Total(f, MaxPayments) + g[p] - f[p]
  BY <1>1, <1>2, TableChange
<1>4. QED
  BY <1>2, <1>3 DEF Paid, f, g

\* What an invoice comes to is an amount of money.
LEMMA BillTotalNat ==
  ASSUME NEW lines \in Charges, NEW cost \in Quantity, NEW charges \in Nat
  PROVE  BillTotal(lines, cost, charges) \in Nat
<1>1. ASSUME NEW r \in ReceiptIds PROVE Subtotal(lines[r], cost) \in Nat
  <2> DEFINE f == [p \in Products |-> LineTotal(lines[r][p], cost[p])]
  <2>1. \A p \in Products : lines[r][p] \in Nat /\ cost[p] \in Nat
    BY DEF Charges, Quantity
  <2>2. \A p \in Products : LineTotal(lines[r][p], cost[p]) \in Nat
    BY <2>1, LineTotalMonotone
  <2>3. /\ f \in [1..MaxProducts -> Int] /\ \A p \in 1..MaxProducts : f[p] >= 0
        /\ MaxProducts \in Nat
    BY <2>2, PurchasingAssumption DEF Products
  <2> HIDE DEF f
  <2>4. Total(f, MaxProducts) \in Nat
    BY <2>3, TableInt, TableBounds
  <2>5. QED
    BY <2>4 DEF f, Subtotal
<1> DEFINE g == [r \in ReceiptIds |-> Subtotal(lines[r], cost)]
<1>2. /\ g \in [1..MaxReceipts -> Int] /\ \A r \in 1..MaxReceipts : g[r] >= 0
      /\ MaxReceipts \in Nat
  BY <1>1, PurchasingAssumption DEF ReceiptIds
<1> HIDE DEF g
<1>3. Total(g, MaxReceipts) \in Nat
  BY <1>2, TableInt, TableBounds
<1>4. QED
  BY <1>3 DEF g, BillTotal

-----------------------------------------------------------------------------
(* The invariant *)

\* An invoice charges something of an order, at a price.
BillsNameOrders ==
  \A b \in BillIds :
    \/ bills[b] = NoBill
    \/ /\ bills[b].status # "ABSENT"
       /\ bills[b].order \in Orders
       /\ bills[b].lines # NoCharges
       /\ \A r \in ReceiptIds, p \in Products :
            bills[b].lines[r][p] > 0 => bills[b].cost[p] > 0

\* A posted payment pays something of an invoice.
PaymentsNameBills ==
  \A p \in PaymentIds : payments[p].status = "POSTED" =>
    payments[p].bill \in BillIds /\ payments[p].amount > 0

IInv ==
  /\ TypeOK
  /\ BillsNameOrders
  /\ PaymentsNameBills
  /\ DeliveriesMatchOrder
  /\ ThreeWayMatch
  /\ PayablesInSync

LEMMA NoRows == /\ Nothing \in Quantity
                /\ NoCharges \in Charges
                /\ NoOrder \in Order /\ NoReceipt \in Receipt /\ NoBill \in Bill
                /\ NoPayment \in Payment
<1>1. Nothing \in Quantity
  BY DEF Nothing, Quantity
<1>2. NoCharges \in Charges
  BY <1>1 DEF NoCharges, Charges
<1>3. NoOrder \in Order
  BY <1>1 DEF NoOrder, Order, OrderStatuses
<1>4. NoReceipt \in Receipt
  BY <1>1 DEF NoReceipt, Receipt
<1>5. NoBill \in Bill
  BY <1>1, <1>2 DEF NoBill, Bill, BillStatuses
<1>6. NoPayment \in Payment
  BY DEF NoPayment, Payment
<1>7. QED
  BY <1>1, <1>2, <1>3, <1>4, <1>5, <1>6

LEMMA InitInv == Init => IInv
<1> SUFFICES ASSUME Init PROVE IInv
  OBVIOUS
<1>1. TypeOK
  BY NoRows DEF Init, TypeOK
<1>2. BillsNameOrders /\ PaymentsNameBills
  BY DEF Init, BillsNameOrders, PaymentsNameBills, NoPayment
<1>3. DeliveriesMatchOrder
  <2>1. \A r \in ReceiptIds, o \in Orders : receipts[r].order # o
    BY PurchasingAssumption DEF Init, NoReceipt
  <2>2. \A o \in Orders, p \in Products : Received(receipts, o, p) = 0
    BY <1>1, <2>1, ReceivedSum DEF TypeOK
  <2>3. QED
    BY <2>1, <2>2 DEF DeliveriesMatchOrder, Init, NoOrder, Nothing, ReceivedStatuses
<1>4. ThreeWayMatch
  <2>1. ASSUME NEW r \in ReceiptIds, NEW p \in Products PROVE Charged(bills, r, p) = 0
    <3> DEFINE f == [b \in BillIds |-> ChargedBy(bills[b], r, p)]
    <3>1. /\ f \in [1..MaxInvoices -> Int] /\ \A b \in 1..MaxInvoices : f[b] = 0
          /\ MaxInvoices \in Nat
      BY PurchasingAssumption DEF Init, ChargedBy, BillIds, NoBill, NoCharges, Nothing
    <3> HIDE DEF f
    <3>2. Total(f, MaxInvoices) = 0
      BY <3>1, TableZero
    <3>3. QED
      BY <3>2 DEF f, Charged
  <2>2. \A r \in ReceiptIds, p \in Products :
          /\ receipts[r].quantity[p] = 0
          /\ \A b \in BillIds : bills[b].lines[r][p] = 0
    BY DEF Init, NoBill, NoCharges, NoReceipt, Nothing
  <2>3. QED
    BY <2>1, <2>2 DEF ThreeWayMatch
<1>5. PayablesInSync
  BY <1>1, PaidSum DEF PayablesInSync, Init, TypeOK, NoBill, OpenStatuses
<1>6. QED
  BY <1>1, <1>2, <1>3, <1>4, <1>5 DEF IInv

-----------------------------------------------------------------------------
(* Orders *)

\* Before anything is received, an order changes freely.
LEMMA OrderStep ==
  ASSUME IInv, NEW o \in Orders, NEW row \in Order, OrderChanges(o, row),
         orders[o].status \notin ReceivedStatuses, row.status \notin ReceivedStatuses
  PROVE  IInv'
<1>1. /\ orders' = [orders EXCEPT ![o] = row]
      /\ UNCHANGED <<suppliers, receipts, bills, payments>>
  BY DEF OrderChanges
<1>2. /\ orders'[o] = row
      /\ \A x \in Orders \ {o} : orders'[x] = orders[x]
  BY <1>1 DEF IInv, TypeOK
<1>3. \A r \in ReceiptIds : receipts[r].order # o
  BY DEF IInv, DeliveriesMatchOrder
<1>4. TypeOK'
  BY <1>1 DEF IInv, TypeOK
<1>5. BillsNameOrders' /\ PaymentsNameBills' /\ PayablesInSync'
  BY <1>1 DEF IInv, BillsNameOrders, PaymentsNameBills, PayablesInSync
<1>6. DeliveriesMatchOrder'
  <2>1. ASSUME NEW p \in Products PROVE Received(receipts, o, p) = 0 /\ row.quantity[p] >= 0
    BY <1>3, ReceivedSum DEF IInv, TypeOK, Order, Quantity
  <2>2. QED
    BY <1>1, <1>2, <1>3, <2>1 DEF IInv, DeliveriesMatchOrder, ReceivedStatuses
<1>7. ThreeWayMatch'
  BY <1>1, <1>2, <1>3 DEF IInv, ThreeWayMatch
<1>8. QED
  BY <1>4, <1>5, <1>6, <1>7 DEF IInv

LEMMA OrderSteps ==
  ASSUME IInv, NEW o \in Orders,
         \/ \E s \in Suppliers, t \in Terms :
              CreatePurchaseOrder(o, s, t) \/ UpdatePurchaseOrder(o, s, t)
         \/ \E p \in Products :
              \/ \E n \in 0..QuantityLimit[p], c \in UnitCosts[p] :
                   \/ AddPurchaseOrderLine(o, p, n, c)
                   \/ UpdatePurchaseOrderLine(o, p, n, c)
              \/ RemovePurchaseOrderLine(o, p)
         \/ SubmitPurchaseOrder(o) \/ ApprovePurchaseOrder(o)
         \/ CancelPurchaseOrder(o)
  PROVE  IInv'
<1>1. orders[o] \in Order
  BY DEF IInv, TypeOK
<1>2. ASSUME NEW s \in Suppliers, NEW t \in Terms, CreatePurchaseOrder(o, s, t)
      PROVE  IInv'
  <2> DEFINE row == [NoOrder EXCEPT !.status = "DRAFT", !.supplier = s, !.terms = t]
  <2>1. row \in Order /\ row.status = "DRAFT"
    BY NoRows DEF Order, OrderStatuses
  <2>2. OrderChanges(o, row)
    BY <1>2 DEF CreatePurchaseOrder, OrderSaved
  <2>3. orders[o] = NoOrder
    BY <1>2 DEF CreatePurchaseOrder
  <2>4. orders[o].status = "ABSENT"
    BY <2>3 DEF NoOrder
  <2> HIDE DEF row
  <2>5. QED
    BY <2>1, <2>2, <2>4, OrderStep DEF ReceivedStatuses
<1>3. ASSUME NEW s \in Suppliers, NEW t \in Terms, UpdatePurchaseOrder(o, s, t)
      PROVE  IInv'
  <2> DEFINE row == [orders[o] EXCEPT !.supplier = s, !.terms = t]
  <2>1. row \in Order /\ row.status = "DRAFT" /\ orders[o].status = "DRAFT"
    BY <1>1, <1>3 DEF UpdatePurchaseOrder, Draft, Order
  <2>2. QED
    BY <1>3, <2>1, OrderStep DEF UpdatePurchaseOrder, OrderSaved, ReceivedStatuses
<1>4. ASSUME NEW p \in Products, NEW n \in Nat, NEW c \in Nat,
             Draft(o), OrderChanges(o, LineOf(o, p, n, c))
      PROVE  IInv'
  <2>1. LineOf(o, p, n, c) \in Order /\ LineOf(o, p, n, c).status = orders[o].status
    BY <1>1 DEF LineOf, Order, Quantity
  <2>2. QED
    BY <1>4, <2>1, OrderStep DEF Draft, ReceivedStatuses
<1>5. ASSUME NEW p \in Products, NEW n \in 0..QuantityLimit[p], NEW c \in UnitCosts[p],
             AddPurchaseOrderLine(o, p, n, c) \/ UpdatePurchaseOrderLine(o, p, n, c)
      PROVE  IInv'
  <2>1. n \in Nat /\ c \in Nat
    BY PurchasingAssumption DEF Products
  <2>2. QED
    BY <1>4, <1>5, <2>1
       DEF AddPurchaseOrderLine, UpdatePurchaseOrderLine, EditableLine
<1>6. ASSUME NEW p \in Products, RemovePurchaseOrderLine(o, p) PROVE IInv'
  BY <1>4, <1>6 DEF RemovePurchaseOrderLine, EditableLine
<1>7. ASSUME NEW new \in {"SUBMITTED", "APPROVED", "CANCELLED"},
             orders[o].status \in {"DRAFT", "SUBMITTED", "APPROVED"},
             OrderChanges(o, [orders[o] EXCEPT !.status = new])
      PROVE  IInv'
  <2> DEFINE row == [orders[o] EXCEPT !.status = new]
  <2>1. row \in Order /\ row.status = new
    BY <1>1 DEF Order, OrderStatuses
  <2>2. QED
    BY <1>7, <2>1, OrderStep DEF ReceivedStatuses
<1>8. CASE SubmitPurchaseOrder(o)
  BY <1>7, <1>8 DEF SubmitPurchaseOrder, OrderSaved, Draft
<1>9. CASE ApprovePurchaseOrder(o)
  BY <1>7, <1>9 DEF ApprovePurchaseOrder, OrderSaved
<1>10. CASE CancelPurchaseOrder(o)
  BY <1>7, <1>10 DEF CancelPurchaseOrder, OrderSaved
<1>11. QED
  BY <1>2, <1>3, <1>5, <1>6, <1>8, <1>9, <1>10

-----------------------------------------------------------------------------
(* Deliveries *)

\* A receipt adds to what its own order has received, and completes it or not.
LEMMA ReceiveStep ==
  ASSUME IInv, NEW o \in Orders, NEW q \in Quantities, NEW r \in ReceiptIds,
         ReceivePurchaseOrder(o, q, r)
  PROVE  IInv'
<1> DEFINE row == [order |-> o, quantity |-> q, cost |-> CostsOf(o, q)]
<1>1. /\ orders[o].status \in {"APPROVED", "PARTIALLY_RECEIVED"}
      /\ receipts[r] = NoReceipt
      /\ receipts' = [receipts EXCEPT ![r] = row]
      /\ orders' = [orders EXCEPT ![o].status = StatusOnceReceived(receipts', o)]
      /\ UNCHANGED <<suppliers, bills, payments>>
  BY DEF ReceivePurchaseOrder, NextKey
<1>2. q \in Quantity /\ row \in Receipt
  <2>1. q \in Quantity
    BY PurchasingAssumption DEF Quantities, Quantity, Products
  <2>2. CostsOf(o, q) \in Quantity
    BY DEF CostsOf, Quantity, IInv, TypeOK, Order
  <2>3. QED
    BY <2>1, <2>2 DEF Receipt
<1>3. /\ receipts' \in [ReceiptIds -> Receipt] /\ receipts'[r] = row
      /\ \A k \in ReceiptIds : k # r => receipts'[k] = receipts[k]
      /\ receipts \in [ReceiptIds -> Receipt]
  BY <1>1, <1>2 DEF IInv, TypeOK
<1>4. /\ orders' \in [Orders -> Order]
      /\ \A x \in Orders : /\ orders'[x].quantity = orders[x].quantity
                           /\ orders'[x].cost = orders[x].cost
      /\ \A x \in Orders \ {o} : orders'[x] = orders[x]
      /\ orders'[o].status = StatusOnceReceived(receipts', o)
  BY <1>1 DEF IInv, TypeOK, Order, OrderStatuses, ReceivedStatuses, StatusOnceReceived
<1>5. \A x \in Orders : receipts[r].order # x
  BY <1>1, PurchasingAssumption DEF NoReceipt
<1>6. \A x \in Orders, p \in Products :
        /\ Received(receipts, x, p) \in Nat /\ Received(receipts', x, p) \in Nat
        /\ Received(receipts', x, p)
             = Received(receipts, x, p) + (IF x = o THEN q[p] ELSE 0)
  BY <1>2, <1>3, <1>5, ReceivedSum, ReceivedOnce DEF ReceivedBy, Quantity
<1>7. TypeOK'
  BY <1>1, <1>3, <1>4 DEF IInv, TypeOK
<1>8. BillsNameOrders' /\ PaymentsNameBills' /\ PayablesInSync'
  BY <1>1 DEF IInv, BillsNameOrders, PaymentsNameBills, PayablesInSync
<1>9. DeliveriesMatchOrder'
  <2>1. \A p \in Products : Received(receipts', o, p) <= orders[o].quantity[p]
    <3>1. ASSUME NEW p \in Products PROVE Received(receipts', o, p) <= orders[o].quantity[p]
      <4>1. q[p] \in Nat /\ orders[o].quantity[p] \in Nat /\ Received(receipts, o, p) \in Nat
        BY <1>2, <1>6 DEF Quantity, IInv, TypeOK, Order
      <4>2. /\ Received(receipts, o, p) <= orders[o].quantity[p]
            /\ q[p] > 0 => q[p] <= orders[o].quantity[p] - Received(receipts, o, p)
        BY DEF ReceivePurchaseOrder, Awaited, IInv, DeliveriesMatchOrder
      <4>3. QED
        BY <4>1, <4>2, <1>6
    <3>2. QED
      BY <3>1
  <2>2. \A p \in Products : q[p] > 0 => row.cost[p] = orders[o].cost[p]
    BY DEF CostsOf
  <2>3. \/ /\ orders'[o].status = "RECEIVED"
           /\ \A p \in Products : Received(receipts', o, p) >= orders[o].quantity[p]
        \/ /\ orders'[o].status = "PARTIALLY_RECEIVED"
           /\ ~ \A p \in Products : Received(receipts', o, p) >= orders[o].quantity[p]
    BY <1>4 DEF StatusOnceReceived, Complete
  <2>4. \A p \in Products : orders[o].quantity[p] \in Nat
    BY DEF IInv, TypeOK, Order, Quantity
  <2>5. /\ orders'[o].status = "RECEIVED" =>
             \A p \in Products : Received(receipts', o, p) = orders'[o].quantity[p]
        /\ orders'[o].status = "PARTIALLY_RECEIVED" =>
             \E p \in Products : Received(receipts', o, p) < orders'[o].quantity[p]
        /\ orders'[o].status \in ReceivedStatuses
    BY <1>4, <1>6, <2>1, <2>3, <2>4 DEF ReceivedStatuses
  <2>6. \A x \in Orders \ {o}, p \in Products :
          Received(receipts', x, p) = Received(receipts, x, p)
    BY <1>6
  <2>7. ASSUME NEW x \in Orders
        PROVE  /\ \A p \in Products : Received(receipts', x, p) <= orders'[x].quantity[p]
               /\ \A k \in ReceiptIds, p \in Products :
                    receipts'[k].order = x /\ receipts'[k].quantity[p] > 0
                      => receipts'[k].cost[p] = orders'[x].cost[p]
    BY <1>3, <1>4, <2>1, <2>2, <2>6 DEF IInv, DeliveriesMatchOrder
  <2>8. ASSUME NEW x \in Orders \ {o}
        PROVE  /\ orders'[x].status = "RECEIVED"
                    => \A p \in Products : Received(receipts', x, p) = orders'[x].quantity[p]
               /\ orders'[x].status = "PARTIALLY_RECEIVED"
                    => \E p \in Products : Received(receipts', x, p) < orders'[x].quantity[p]
               /\ orders'[x].status \in ReceivedStatuses
                    <=> \E k \in ReceiptIds : receipts'[k].order = x
    <3>1. (\E k \in ReceiptIds : receipts'[k].order = x)
            <=> \E k \in ReceiptIds : receipts[k].order = x
      BY <1>3, <1>5
    <3>2. QED
      BY <1>4, <2>6, <3>1 DEF IInv, DeliveriesMatchOrder
  <2>9. \E k \in ReceiptIds : receipts'[k].order = o
    BY <1>3
  <2>10. QED
    BY <2>5, <2>7, <2>8, <2>9 DEF DeliveriesMatchOrder
<1>10. ThreeWayMatch'
  <2>1. ASSUME NEW k \in ReceiptIds, NEW p \in Products
        PROVE  Charged(bills', k, p) <= receipts'[k].quantity[p]
    <3>1. /\ Charged(bills, k, p) \in Nat
          /\ Charged(bills, k, p) <= receipts[k].quantity[p]
          /\ receipts[k].quantity[p] \in Nat /\ receipts'[k].quantity[p] \in Nat
      <4>1. Charged(bills, k, p) \in Nat
        BY ChargedSum DEF IInv, TypeOK
      <4>2. Charged(bills, k, p) <= receipts[k].quantity[p]
        BY DEF IInv, ThreeWayMatch
      <4>3. receipts[k].quantity[p] \in Nat /\ receipts'[k].quantity[p] \in Nat
        BY <1>3 DEF Receipt, Quantity
      <4>4. QED
        BY <4>1, <4>2, <4>3
    <3>2. receipts[r].quantity[p] = 0
      BY <1>1 DEF NoReceipt, Nothing
    <3>3. QED
      BY <1>1, <1>3, <3>1, <3>2
  <2>2. ASSUME NEW b \in BillIds, NEW k \in ReceiptIds, NEW p \in Products,
               bills[b].lines[k][p] > 0
        PROVE  /\ receipts'[k].order = bills[b].order
               /\ bills[b].cost[p] = orders'[bills[b].order].cost[p]
    <3>1. bills[b] # NoBill
      BY <2>2 DEF NoBill, NoCharges, Nothing
    <3>2. bills[b].order \in Orders
      BY <3>1 DEF IInv, BillsNameOrders
    <3>3. /\ receipts[k].order = bills[b].order
          /\ bills[b].cost[p] = orders[bills[b].order].cost[p]
      BY <2>2 DEF IInv, ThreeWayMatch
    <3>4. k # r
      BY <1>5, <3>2, <3>3
    <3>5. QED
      BY <1>3, <1>4, <3>2, <3>3, <3>4
  <2>3. QED
    BY <1>1, <2>1, <2>2 DEF ThreeWayMatch
<1>11. QED
  BY <1>7, <1>8, <1>9, <1>10 DEF IInv

-----------------------------------------------------------------------------
(* Invoices *)

\* However an invoice moves on, it charges no more than before.
LEMMA BillMoved ==
  ASSUME IInv, NEW b \in BillIds, NEW new \in OpenStatuses \cup {"VOIDED"},
         bills[b].status \in OpenStatuses \cup {"DRAFT"},
         bills' = [bills EXCEPT ![b].status = new],
         UNCHANGED <<suppliers, orders, receipts>>
  PROVE  /\ bills' \in [BillIds -> Bill]
         /\ bills'[b].status = new /\ bills'[b].total = bills[b].total
         /\ \A k \in BillIds : k # b => bills'[k] = bills[k]
         /\ BillsNameOrders' /\ DeliveriesMatchOrder' /\ ThreeWayMatch'
<1>1. bills \in [BillIds -> Bill]
  BY DEF IInv, TypeOK
<1>2. /\ bills' \in [BillIds -> Bill]
      /\ bills'[b].status = new
      /\ \A k \in BillIds : k # b => bills'[k] = bills[k]
      /\ \A k \in BillIds :
           /\ bills'[k].order = bills[k].order /\ bills'[k].lines = bills[k].lines
           /\ bills'[k].cost = bills[k].cost /\ bills'[k].total = bills[k].total
  BY <1>1 DEF Bill, BillStatuses, OpenStatuses
<1>3. BillsNameOrders'
  <2>1. bills[b] # NoBill
    BY DEF NoBill, OpenStatuses
  <2>2. bills'[b].status # "ABSENT"
    BY <1>2 DEF OpenStatuses
  <2>3. QED
    BY <1>2, <2>1, <2>2 DEF IInv, BillsNameOrders
<1>4. DeliveriesMatchOrder'
  BY DEF IInv, DeliveriesMatchOrder
<1>5. ThreeWayMatch'
  <2>1. ASSUME NEW r \in ReceiptIds, NEW p \in Products
        PROVE  Charged(bills', r, p) <= receipts[r].quantity[p]
    <3>1. /\ Charged(bills', r, p)
               = Charged(bills, r, p) + ChargedBy(bills'[b], r, p) - ChargedBy(bills[b], r, p)
      <4>1. /\ bills \in [BillIds -> Bill] /\ bills' \in [BillIds -> Bill]
            /\ \A k \in BillIds : k # b => bills'[k] = bills[k]
        BY <1>1, <1>2
      <4>2. QED
        BY <4>1, BillsChargedOnce
    <3>2. Charged(bills, r, p) \in Nat /\ ChargedBy(bills[b], r, p) \in Nat
      BY <1>1, ChargedSum
    <3>3. ChargedBy(bills'[b], r, p) \in {ChargedBy(bills[b], r, p), 0}
      BY <1>2 DEF ChargedBy, OpenStatuses
    <3>4. /\ Charged(bills, r, p) <= receipts[r].quantity[p]
          /\ receipts[r].quantity[p] \in Nat
      BY DEF IInv, ThreeWayMatch, TypeOK, Receipt, Quantity
    <3>5. QED
      BY <3>1, <3>2, <3>3, <3>4
  <2>2. ASSUME NEW k \in BillIds, NEW r \in ReceiptIds, NEW p \in Products,
               bills'[k].lines[r][p] > 0
        PROVE  /\ receipts'[r].order = bills'[k].order
               /\ bills'[k].cost[p] = orders'[bills'[k].order].cost[p]
    BY <1>2, <2>2 DEF IInv, ThreeWayMatch
  <2>3. QED
    BY <2>1, <2>2 DEF ThreeWayMatch
<1>6. QED
  BY <1>2, <1>3, <1>4, <1>5

LEMMA CreateBillStep ==
  ASSUME IInv, NEW b \in BillIds, NEW o \in Orders, NEW ref \in References,
         NEW x \in 0..MaxCharges, NEW lines \in [ReceiptIds -> Quantities],
         NEW cost \in Prices(lines), CreateSupplierInvoice(b, o, ref, lines, cost, x)
  PROVE  IInv' /\ bills[b] = NoBill /\ bills'[b].status = "DRAFT" /\ bills'[b].total > 0
         /\ (\A k \in BillIds : k # b => bills'[k] = bills[k]) /\ UNCHANGED payments
<1> DEFINE row == [status |-> "DRAFT", order |-> o, reference |-> ref, lines |-> lines,
                   cost |-> cost, charges |-> x, total |-> BillTotal(lines, cost, x)]
<1>1. /\ bills[b] = NoBill /\ bills' = [bills EXCEPT ![b] = row]
      /\ lines # NoCharges /\ row.total > 0
      /\ UNCHANGED <<suppliers, orders, receipts, payments>>
  BY DEF CreateSupplierInvoice, NextKey
<1>2. \A r \in ReceiptIds, p \in Products :
        lines[r][p] > 0 =>
          /\ receipts[r].order = o /\ cost[p] > 0 /\ cost[p] = orders[o].cost[p]
          /\ lines[r][p] <= receipts[r].quantity[p] - Charged(bills, r, p)
  BY DEF CreateSupplierInvoice, Matched
<1>3. lines \in Charges /\ cost \in Quantity /\ x \in Nat
  <2>1. Quantities \subseteq Quantity
    BY PurchasingAssumption DEF Quantities, Quantity, Products
  <2>2. cost \in Quantity
    BY PurchasingAssumption DEF Prices, Quantity, Products
  <2>3. QED
    BY <2>1, <2>2, PurchasingAssumption DEF Charges
<1>4. row \in Bill
  BY <1>3, BillTotalNat DEF Bill, BillStatuses
<1> HIDE DEF row
<1>5. /\ bills' \in [BillIds -> Bill] /\ bills'[b] = row
      /\ \A k \in BillIds : k # b => bills'[k] = bills[k]
      /\ bills \in [BillIds -> Bill]
  BY <1>1, <1>4 DEF IInv, TypeOK
<1>6. TypeOK' /\ PaymentsNameBills' /\ DeliveriesMatchOrder'
  BY <1>1, <1>5 DEF IInv, TypeOK, PaymentsNameBills, DeliveriesMatchOrder
<1>7. BillsNameOrders'
  <2>1. /\ row.status # "ABSENT" /\ row.order \in Orders /\ row.lines # NoCharges
        /\ \A r \in ReceiptIds, p \in Products : row.lines[r][p] > 0 => row.cost[p] > 0
    BY <1>1, <1>2 DEF row
  <2>2. QED
    BY <1>5, <2>1 DEF IInv, BillsNameOrders
<1>8. ThreeWayMatch'
  <2>1. ASSUME NEW r \in ReceiptIds, NEW p \in Products
        PROVE  Charged(bills', r, p) <= receipts[r].quantity[p]
    <3>1. /\ Charged(bills', r, p)
               = Charged(bills, r, p) + ChargedBy(bills'[b], r, p) - ChargedBy(bills[b], r, p)
          /\ Charged(bills, r, p) \in Nat
      BY <1>5, ChargedOnce, ChargedSum
    <3>2. ChargedBy(bills'[b], r, p) = lines[r][p]
      BY <1>5 DEF ChargedBy, row
    <3>3. ChargedBy(bills[b], r, p) = 0
      BY <1>1 DEF ChargedBy, NoBill, NoCharges, Nothing
    <3>4. /\ Charged(bills, r, p) <= receipts[r].quantity[p]
          /\ receipts[r].quantity[p] \in Nat /\ lines[r][p] \in Nat
      BY <1>3 DEF IInv, ThreeWayMatch, TypeOK, Receipt, Quantity, Charges
    <3>5. QED
      BY <1>2, <3>1, <3>2, <3>3, <3>4
  <2>2. row.order = o /\ row.lines = lines /\ row.cost = cost
    BY DEF row
  <2>3. ASSUME NEW k \in BillIds, NEW r \in ReceiptIds, NEW p \in Products,
               bills'[k].lines[r][p] > 0
        PROVE  /\ receipts'[r].order = bills'[k].order
               /\ bills'[k].cost[p] = orders'[bills'[k].order].cost[p]
    <3>1. CASE k = b
      BY <1>1, <1>2, <1>5, <2>2, <2>3, <3>1
    <3>2. CASE k # b
      BY <1>1, <1>5, <2>3, <3>2 DEF IInv, ThreeWayMatch
    <3>3. QED
      BY <3>1, <3>2
  <2>4. QED
    BY <1>1, <2>1, <2>3 DEF ThreeWayMatch
<1>9. PayablesInSync'
  <2>1. row.status = "DRAFT" /\ bills[b].status = "ABSENT"
    BY <1>1 DEF row, NoBill
  <2>2. QED
    BY <1>1, <1>5, <2>1 DEF IInv, PayablesInSync, OpenStatuses
<1>10. bills'[b].status = "DRAFT" /\ bills'[b].total > 0
  BY <1>1, <1>5 DEF row
<1>11. QED
  BY <1>1, <1>5, <1>6, <1>7, <1>8, <1>9, <1>10 DEF IInv

\* An open invoice that has not begun to be paid has not been paid at all.
LEMMA UnpaidBill ==
  ASSUME IInv, NEW b \in BillIds, bills[b].status \notin {"PARTIALLY_PAID", "PAID"}
  PROVE  Paid(payments, b) = 0
<1>1. Paid(payments, b) \in Nat /\ bills[b].total \in Nat
  BY PaidSum DEF IInv, TypeOK, Bill
<1>2. QED
  BY <1>1 DEF IInv, PayablesInSync, StatusForPaid, OpenStatuses

LEMMA BillMovesStep ==
  ASSUME IInv, NEW b \in BillIds, PostSupplierInvoice(b) \/ VoidSupplierInvoice(b)
  PROVE  IInv'
<1>1. PICK new \in {"POSTED", "VOIDED"} :
        /\ bills' = [bills EXCEPT ![b].status = new]
        /\ bills[b].status \in {"DRAFT", "POSTED"}
        /\ UNCHANGED <<suppliers, orders, receipts, payments>>
  BY DEF PostSupplierInvoice, VoidSupplierInvoice, Postable, Voidable, BillMoves
<1>2. /\ bills' \in [BillIds -> Bill]
      /\ bills'[b].status = new /\ bills'[b].total = bills[b].total
      /\ \A k \in BillIds : k # b => bills'[k] = bills[k]
      /\ BillsNameOrders' /\ DeliveriesMatchOrder' /\ ThreeWayMatch'
  BY <1>1, BillMoved DEF OpenStatuses
<1>3. TypeOK' /\ PaymentsNameBills'
  BY <1>1, <1>2 DEF IInv, TypeOK, PaymentsNameBills
<1>4. PayablesInSync'
  <2>1. Paid(payments, b) = 0 /\ bills[b].total \in Nat
    BY <1>1, UnpaidBill DEF IInv, TypeOK, Bill
  <2>2. QED
    BY <1>1, <1>2, <2>1 DEF IInv, PayablesInSync, StatusForPaid, OpenStatuses
<1>5. QED
  BY <1>2, <1>3, <1>4 DEF IInv

-----------------------------------------------------------------------------
(* Payments *)

LEMMA RecordStep ==
  ASSUME IInv, NEW b \in BillIds, NEW n \in 0..MaxAmount, NEW p \in PaymentIds,
         RecordSupplierPayment(b, n, p)
  PROVE  /\ IInv'
         /\ bills[b].status \in OpenStatuses /\ bills'[b].status \in OpenStatuses
         /\ bills'[b].total = bills[b].total
         /\ \A k \in BillIds : k # b =>
              bills'[k] = bills[k] /\ Paid(payments', k) = Paid(payments, k)
         /\ Paid(payments', b) \in 0..bills[b].total
<1> DEFINE row == [status |-> "POSTED", bill |-> b, amount |-> n]
           new == StatusForPaid(bills[b].total, Paid(payments, b) + n)
<1>1. /\ n > 0 /\ n \in Nat /\ payments[p] = NoPayment
      /\ bills[b].status \in {"POSTED", "PARTIALLY_PAID"}
      /\ n <= bills[b].total - Paid(payments, b)
      /\ payments' = [payments EXCEPT ![p] = row]
      /\ bills' = [bills EXCEPT ![b].status = new]
      /\ UNCHANGED <<suppliers, orders, receipts>>
  BY PurchasingAssumption DEF RecordSupplierPayment, NextKey
<1>2. new \in OpenStatuses
  BY DEF StatusForPaid, OpenStatuses
<1>3. /\ bills' \in [BillIds -> Bill]
      /\ bills'[b].status = new /\ bills'[b].total = bills[b].total
      /\ \A k \in BillIds : k # b => bills'[k] = bills[k]
      /\ BillsNameOrders' /\ DeliveriesMatchOrder' /\ ThreeWayMatch'
  BY <1>1, <1>2, BillMoved DEF OpenStatuses
<1>4. /\ payments \in [PaymentIds -> Payment] /\ payments' \in [PaymentIds -> Payment]
      /\ payments'[p] = row /\ \A k \in PaymentIds : k # p => payments'[k] = payments[k]
  BY <1>1 DEF IInv, TypeOK, Payment
<1>5. \A k \in BillIds :
        Paid(payments', k) = Paid(payments, k) + (IF k = b THEN n ELSE 0)
  <2>1. ASSUME NEW k \in BillIds
        PROVE  Paid(payments', k) = Paid(payments, k) + (IF k = b THEN n ELSE 0)
    <3>1. Paid(payments', k)
            = Paid(payments, k) + PaidBy(payments'[p], k) - PaidBy(payments[p], k)
      BY <1>4, PaidOnce
    <3>2. PaidBy(payments[p], k) = 0
      BY <1>1 DEF PaidBy, NoPayment
    <3>3. PaidBy(payments'[p], k) = IF k = b THEN n ELSE 0
      BY <1>4 DEF PaidBy
    <3>4. Paid(payments, k) \in Nat
      BY <1>4, PaidSum
    <3>5. QED
      BY <1>1, <3>1, <3>2, <3>3, <3>4
  <2>2. QED
    BY <2>1
<1>6. TypeOK'
  BY <1>1, <1>3, <1>4 DEF IInv, TypeOK
<1>7. PaymentsNameBills'
  BY <1>1, <1>4 DEF IInv, PaymentsNameBills
<1>8. \A k \in BillIds : Paid(payments, k) \in Nat /\ bills[k].total \in Nat
  BY <1>4, PaidSum DEF IInv, TypeOK, Bill
<1>9. Paid(payments', b) \in 0..bills[b].total
  <2>1. Paid(payments', b) = Paid(payments, b) + n
    BY <1>5
  <2>2. /\ Paid(payments, b) \in Nat /\ bills[b].total \in Nat
        /\ n \in Nat /\ n <= bills[b].total - Paid(payments, b)
    BY <1>1, <1>8
  <2>3. QED
    BY <2>1, <2>2
<1>10. \A k \in BillIds : k # b => Paid(payments', k) = Paid(payments, k)
  BY <1>5, <1>8
<1>11. PayablesInSync'
  <2>1. /\ bills'[b].status \in OpenStatuses /\ Paid(payments', b) <= bills'[b].total
        /\ bills'[b].status = StatusForPaid(bills'[b].total, Paid(payments', b))
    BY <1>2, <1>3, <1>5, <1>8, <1>9
  <2>2. QED
    BY <1>3, <1>10, <2>1 DEF IInv, PayablesInSync
<1>12. bills[b].status \in OpenStatuses
  BY <1>1 DEF OpenStatuses
<1>13. QED
  BY <1>2, <1>3, <1>6, <1>7, <1>9, <1>10, <1>11, <1>12 DEF IInv

LEMMA VoidPaymentStep ==
  ASSUME IInv, NEW p \in PaymentIds, VoidSupplierPayment(p)
  PROVE  \E b \in BillIds :
         /\ IInv'
         /\ bills[b].status \in OpenStatuses /\ bills'[b].status \in OpenStatuses
         /\ bills'[b].total = bills[b].total
         /\ \A k \in BillIds : k # b =>
              bills'[k] = bills[k] /\ Paid(payments', k) = Paid(payments, k)
         /\ Paid(payments', b) \in 0..bills[b].total
<1> DEFINE b == payments[p].bill
           n == payments[p].amount
           new == StatusForPaid(bills[b].total, Paid(payments', b))
<1>1. /\ payments[p].status = "POSTED"
      /\ Paid(payments, b) - n \in 0..bills[b].total
      /\ payments' = [payments EXCEPT ![p].status = "VOIDED"]
      /\ bills' = [bills EXCEPT ![b].status = new]
      /\ UNCHANGED <<suppliers, orders, receipts>>
  BY DEF VoidSupplierPayment, StatusAfterVoid
<1>2. /\ b \in BillIds /\ n \in Nat /\ n > 0
      /\ payments \in [PaymentIds -> Payment]
  BY <1>1 DEF IInv, PaymentsNameBills, TypeOK, Payment
<1>3. \A k \in BillIds : Paid(payments, k) \in Nat /\ bills[k].total \in Nat
  BY <1>2, PaidSum DEF IInv, TypeOK, Bill
<1>4. bills[b].status \in OpenStatuses
  <2>1. PaidBy(payments[p], b) = n /\ PaidBy(payments[p], b) <= Paid(payments, b)
    BY <1>1, <1>2, PaidSum DEF PaidBy
  <2>2. Paid(payments, b) # 0
    BY <1>2, <1>3, <2>1
  <2>3. QED
    BY <1>2, <2>2 DEF IInv, PayablesInSync
<1>5. new \in OpenStatuses
  BY DEF StatusForPaid, OpenStatuses
<1> HIDE DEF b, n, new
<1>6. /\ bills' \in [BillIds -> Bill]
      /\ bills'[b].status = new /\ bills'[b].total = bills[b].total
      /\ \A k \in BillIds : k # b => bills'[k] = bills[k]
      /\ BillsNameOrders' /\ DeliveriesMatchOrder' /\ ThreeWayMatch'
  BY <1>1, <1>2, <1>4, <1>5, BillMoved DEF OpenStatuses
<1>7. /\ payments' \in [PaymentIds -> Payment]
      /\ payments'[p].status = "VOIDED"
      /\ \A k \in PaymentIds : k # p => payments'[k] = payments[k]
  BY <1>1, <1>2 DEF Payment
<1>8. \A k \in BillIds :
        Paid(payments', k) = Paid(payments, k) - (IF k = b THEN n ELSE 0)
  <2>1. ASSUME NEW k \in BillIds
        PROVE  Paid(payments', k) = Paid(payments, k) - (IF k = b THEN n ELSE 0)
    <3>1. Paid(payments', k)
            = Paid(payments, k) + PaidBy(payments'[p], k) - PaidBy(payments[p], k)
      BY <1>2, <1>7, PaidOnce
    <3>2. PaidBy(payments'[p], k) = 0
      BY <1>7 DEF PaidBy
    <3>3. PaidBy(payments[p], k) = IF k = b THEN n ELSE 0
      BY <1>1 DEF PaidBy, b, n
    <3>4. QED
      BY <1>2, <1>3, <3>1, <3>2, <3>3
  <2>2. QED
    BY <2>1
<1>9. TypeOK'
  BY <1>1, <1>6, <1>7 DEF IInv, TypeOK
<1>10. PaymentsNameBills'
  BY <1>7 DEF IInv, PaymentsNameBills
<1>11. Paid(payments', b) \in 0..bills[b].total
  BY <1>1, <1>2, <1>3, <1>8
<1>12. \A k \in BillIds : k # b => Paid(payments', k) = Paid(payments, k)
  BY <1>3, <1>8
<1>13. PayablesInSync'
  <2>1. /\ bills'[b].status \in OpenStatuses /\ Paid(payments', b) <= bills'[b].total
        /\ bills'[b].status = StatusForPaid(bills'[b].total, Paid(payments', b))
    BY <1>2, <1>3, <1>5, <1>6, <1>11 DEF new
  <2>2. QED
    BY <1>2, <1>6, <1>12, <2>1 DEF IInv, PayablesInSync
<1>14. QED
  BY <1>2, <1>4, <1>5, <1>6, <1>9, <1>10, <1>11, <1>12, <1>13 DEF IInv

-----------------------------------------------------------------------------
(* All steps *)

LEMMA NextInv ==
  ASSUME IInv, [Next]_purchasingVars
  PROVE  IInv'
<1>1. CASE UNCHANGED <<orders, receipts, bills, payments>>
           /\ suppliers' \in [Suppliers -> {"ABSENT", "ACTIVE", "INACTIVE"}]
  BY <1>1 DEF IInv, TypeOK, BillsNameOrders, PaymentsNameBills, DeliveriesMatchOrder,
              ThreeWayMatch, PayablesInSync
<1>2. ASSUME NEW s \in Suppliers, SupplierNext(s) PROVE IInv'
  BY <1>1, <1>2 DEF SupplierNext, RegisterSupplier, DeactivateSupplier,
                    ReactivateSupplier, IInv, TypeOK
<1>3. ASSUME NEW o \in Orders, OrderNext(o) PROVE IInv'
  BY <1>3, OrderSteps, ReceiveStep DEF OrderNext
<1>4. ASSUME NEW b \in BillIds, BillNext(b) PROVE IInv'
  BY <1>4, CreateBillStep, BillMovesStep, RecordStep DEF BillNext
<1>5. ASSUME NEW p \in PaymentIds, VoidSupplierPayment(p) PROVE IInv'
  BY <1>5, VoidPaymentStep
<1>6. CASE UNCHANGED purchasingVars
  BY <1>1, <1>6 DEF purchasingVars, IInv, TypeOK
<1>7. QED
  BY <1>2, <1>3, <1>4, <1>5, <1>6 DEF Next

THEOREM PurchasingInv == Spec => []IInv
<1>1. IInv /\ [Next]_purchasingVars => IInv'
  BY NextInv
<1>2. QED
  BY <1>1, InitInv, PTL DEF Spec

\* The pages only ask for what the services do.
LEMMA PagesAskServices == PagesNext => Next
<1>1. ASSUME NEW u \in Staff, NEW s \in Suppliers,
             SupplierCreate(u, s) \/ SupplierDeactivate(u, s) \/ SupplierReactivate(u, s)
      PROVE  Next
  BY <1>1 DEF SupplierCreate, SupplierDeactivate, SupplierReactivate, Next, SupplierNext
<1>2. ASSUME NEW u \in Staff, NEW o \in Orders,
             PurchaseOrderCreate(u, o) \/ PurchaseOrderUpdate(u, o)
      PROVE  Next
  BY <1>2 DEF PurchaseOrderCreate, PurchaseOrderUpdate, PurchaseOrderForm, Next, OrderNext
<1>3. ASSUME NEW u \in Staff, NEW o \in Orders,
             PurchaseOrderLineAdd(u, o) \/ PurchaseOrderLineUpdate(u, o)
      PROVE  Next
  <2>1. PICK p \in Products : \E l \in LineForm(p) :
          \/ AddPurchaseOrderLine(o, p, l[1], l[2])
          \/ UpdatePurchaseOrderLine(o, p, l[1], l[2])
    BY <1>3 DEF PurchaseOrderLineAdd, PurchaseOrderLineUpdate
  <2>2. PICK l \in LineForm(p) :
          \/ AddPurchaseOrderLine(o, p, l[1], l[2])
          \/ UpdatePurchaseOrderLine(o, p, l[1], l[2])
    BY <2>1
  <2>3. l[1] \in 0..QuantityLimit[p] /\ l[2] \in UnitCosts[p]
    BY PurchasingAssumption DEF LineForm, Products
  <2>4. QED
    BY <2>2, <2>3 DEF Next, OrderNext
<1>4. ASSUME NEW u \in Staff, NEW o \in Orders,
             \/ PurchaseOrderLineRemove(u, o) \/ PurchaseOrderSubmit(u, o)
             \/ PurchaseOrderApprove(u, o) \/ PurchaseOrderCancel(u, o)
      PROVE  Next
  BY <1>4 DEF PurchaseOrderLineRemove, PurchaseOrderSubmit, PurchaseOrderApprove,
              PurchaseOrderCancel, Next, OrderNext
<1>5. ASSUME NEW u \in Staff, NEW o \in Orders, GoodsReceiptCreate(u, o) PROVE Next
  BY <1>5 DEF GoodsReceiptCreate, GoodsReceiptForm, Next, OrderNext
<1>6. ASSUME NEW u \in Staff, NEW b \in BillIds, SupplierInvoiceCreate(u, b) PROVE Next
  BY <1>6 DEF SupplierInvoiceCreate, OrdersToInvoice, SupplierInvoiceForm, Next, BillNext
<1>7. ASSUME NEW u \in Staff, NEW b \in BillIds,
             SupplierInvoicePost(u, b) \/ SupplierInvoiceVoid(u, b)
      PROVE  Next
  BY <1>7 DEF SupplierInvoicePost, SupplierInvoiceVoid, Next, BillNext
<1>8. ASSUME NEW u \in Staff, NEW b \in BillIds, SupplierPaymentRecord(u, b) PROVE Next
  <2>1. PICK n \in SupplierPaymentForm, p \in PaymentIds : RecordSupplierPayment(b, n, p)
    BY <1>8 DEF SupplierPaymentRecord
  <2>2. n \in 0..MaxAmount
    BY PurchasingAssumption DEF SupplierPaymentForm
  <2>3. QED
    BY <2>1, <2>2 DEF Next, BillNext
<1>9. ASSUME NEW u \in Staff, NEW p \in PaymentIds, SupplierPaymentVoid(u, p) PROVE Next
  BY <1>9 DEF SupplierPaymentVoid, Next
<1>10. QED
  BY <1>1, <1>2, <1>3, <1>4, <1>5, <1>6, <1>7, <1>8, <1>9 DEF PagesNext

-----------------------------------------------------------------------------
(* The theorems *)

\* Whatever holds of the services holds of the pages that call them.
THEOREM PagesImplementServices == PagesSpec => Spec
<1>1. [PagesNext]_purchasingVars => [Next]_purchasingVars
  BY PagesAskServices
<1>2. QED
  BY <1>1, PTL DEF PagesSpec, Spec

\* Tables hold well-formed rows, whose amounts and quantities are not negative.
THEOREM PurchasingTyped == Spec => []TypeOK
<1>1. IInv => TypeOK
  BY DEF IInv
<1>2. QED
  BY <1>1, PurchasingInv, PTL

\* No order receives more than it asks for, and its status says what it has.
THEOREM DeliveriesKeepToOrder == Spec => []DeliveriesMatchOrder
<1>1. IInv => DeliveriesMatchOrder
  BY DEF IInv
<1>2. QED
  BY <1>1, PurchasingInv, PTL

\* All invoices together charge at most what was delivered, as ordered.
THEOREM ThreeWaysMatch == Spec => []ThreeWayMatch
<1>1. IInv => ThreeWayMatch
  BY DEF IInv
<1>2. QED
  BY <1>1, PurchasingInv, PTL

\* An invoice's status is what the payments say, and never overpaid.
THEOREM PayablesStayInSync == Spec => []PayablesInSync
<1>1. IInv => PayablesInSync
  BY DEF IInv
<1>2. QED
  BY <1>1, PurchasingInv, PTL

\* What was checked when a draft was drawn up still holds when it is posted:
\* its own charges are part of what ThreeWayMatch bounds.
THEOREM DraftsStayPostable == Spec => []DraftsPostable
<1>1. IInv => DraftsPostable
  <2>1. SUFFICES ASSUME IInv, NEW b \in BillIds, bills[b].status = "DRAFT"
                 PROVE  Postable(b)
    BY DEF DraftsPostable
  <2>2. /\ bills[b].order \in Orders /\ bills[b].lines # NoCharges
        /\ \A r \in ReceiptIds, p \in Products :
             bills[b].lines[r][p] > 0 => bills[b].cost[p] > 0
    BY <2>1 DEF IInv, BillsNameOrders, NoBill
  <2>3. ASSUME NEW r \in ReceiptIds, NEW p \in Products, bills[b].lines[r][p] > 0
        PROVE  /\ receipts[r].order = bills[b].order
               /\ bills[b].cost[p] = orders[bills[b].order].cost[p]
               /\ bills[b].cost[p] = receipts[r].cost[p]
               /\ bills[b].lines[r][p] <= receipts[r].quantity[p] - ChargedByOthers(b, r, p)
    <3>1. /\ Charged(bills, r, p) \in Nat /\ ChargedBy(bills[b], r, p) \in Nat
          /\ ChargedBy(bills[b], r, p) <= Charged(bills, r, p)
      BY <2>1, ChargedSum DEF IInv, TypeOK
    <3>2. ChargedBy(bills[b], r, p) = bills[b].lines[r][p]
      BY <2>1 DEF ChargedBy
    <3>3. /\ Charged(bills, r, p) <= receipts[r].quantity[p]
          /\ receipts[r].quantity[p] \in Nat
          /\ receipts[r].order = bills[b].order
          /\ bills[b].cost[p] = orders[bills[b].order].cost[p]
      BY <2>1, <2>3 DEF IInv, ThreeWayMatch, TypeOK, Receipt, Quantity
    <3>4. receipts[r].quantity[p] > 0
      BY <2>3, <3>1, <3>2, <3>3
    <3>5. receipts[r].cost[p] = orders[bills[b].order].cost[p]
      BY <2>1, <2>2, <3>3, <3>4 DEF IInv, DeliveriesMatchOrder
    <3>6. QED
      BY <3>1, <3>2, <3>3, <3>5 DEF ChargedByOthers
  <2>4. QED
    BY <2>1, <2>2, <2>3 DEF Postable, Matched
<1>2. QED
  BY <1>1, PurchasingInv, PTL

-----------------------------------------------------------------------------
(* Supplier invoices as abstract accounts *)

Stages == [b \in BillIds |-> StageOf(bills[b])]
Dues   == [b \in BillIds |-> bills[b].total]
Paids  == [b \in BillIds |-> Paid(payments, b)]

\* The accounts when one invoice changes.
LEMMA OneBill ==
  ASSUME NEW b \in BillIds, \A k \in BillIds : k # b => bills'[k] = bills[k]
  PROVE  /\ Stages' = [Stages EXCEPT ![b] = StageOf(bills'[b])]
         /\ Dues' = [Dues EXCEPT ![b] = bills'[b].total]
BY DEF Stages, Dues

LEMMA AccountInit == Init => Account!ReceivableInit
<1> SUFFICES ASSUME Init PROVE Account!ReceivableInit
  OBVIOUS
<1>1. \A b \in BillIds : Paid(payments, b) = 0
  <2>1. payments \in [PaymentIds -> Payment]
    BY InitInv DEF IInv, TypeOK
  <2>2. \A p \in PaymentIds : payments[p] = NoPayment
    BY DEF Init
  <2>3. QED
    BY <2>1, <2>2, PaidSum
<1>2. \A b \in BillIds : StageOf(bills[b]) = "NONE" /\ bills[b].total = 0
  BY DEF Init, StageOf, NoBill
<1>3. QED
  BY <1>1, <1>2 DEF Account!ReceivableInit

\* Posting and voiding move the stage and nothing else.
LEMMA AccountMoves ==
  ASSUME IInv, NEW b \in BillIds, PostSupplierInvoice(b) \/ VoidSupplierInvoice(b)
  PROVE  Account!Open(b) \/ Account!Withdraw(b)
<1>1. PICK new \in {"POSTED", "VOIDED"} :
        /\ bills' = [bills EXCEPT ![b].status = new]
        /\ UNCHANGED <<suppliers, orders, receipts, payments>>
        /\ new = "POSTED" => bills[b].status = "DRAFT"
        /\ new = "VOIDED" => bills[b].status = "POSTED"
  BY DEF PostSupplierInvoice, VoidSupplierInvoice, Postable, Voidable, BillMoves
<1>2. /\ \A k \in BillIds : k # b => bills'[k] = bills[k]
      /\ bills'[b].status = new /\ bills'[b].total = bills[b].total
  BY <1>1, BillMoved DEF OpenStatuses
<1>3. Paid(payments, b) = 0
  BY <1>1, UnpaidBill
<1>4. UNCHANGED Dues
  BY <1>2 DEF Dues
<1>5. Stages' = [Stages EXCEPT ![b] = StageOf(bills'[b])]
  BY <1>2, OneBill
<1>6. CASE new = "POSTED"
  <2>1. StageOf(bills[b]) = "DRAFT" /\ StageOf(bills'[b]) = "OPEN"
    BY <1>1, <1>2, <1>6 DEF StageOf, OpenStatuses
  <2>2. QED
    BY <1>1, <1>4, <1>5, <2>1 DEF Account!Open, Account!Advance, Stages, Dues, Paids
<1>7. CASE new = "VOIDED"
  <2>1. StageOf(bills[b]) = "OPEN" /\ StageOf(bills'[b]) = "VOIDED"
    BY <1>1, <1>2, <1>7 DEF StageOf, OpenStatuses
  <2>2. QED
    BY <1>1, <1>3, <1>4, <1>5, <2>1 DEF Account!Withdraw, Account!Advance, Stages, Dues, Paids
<1>8. QED
  BY <1>6, <1>7

\* A payment, made or voided, settles one account.
LEMMA AccountSettles ==
  ASSUME NEW b \in BillIds,
         bills[b].status \in OpenStatuses, bills'[b].status \in OpenStatuses,
         bills'[b].total = bills[b].total,
         \A k \in BillIds : k # b =>
           bills'[k] = bills[k] /\ Paid(payments', k) = Paid(payments, k),
         Paid(payments', b) \in 0..bills[b].total
  PROVE  Account!Settle(b, Paids'[b])
<1>1. StageOf(bills[b]) = "OPEN" /\ StageOf(bills'[b]) = "OPEN"
  BY DEF StageOf, OpenStatuses
<1>2. UNCHANGED <<Stages, Dues>>
  BY <1>1 DEF Stages, Dues
<1>3. Paids' = [Paids EXCEPT ![b] = Paids'[b]] /\ Paids'[b] = Paid(payments', b)
  BY DEF Paids
<1>4. QED
  BY <1>1, <1>2, <1>3 DEF Account!Settle, Stages, Dues, Paids

\* Every step is one step of one account, or none.
LEMMA AccountStep ==
  ASSUME IInv, [Next]_purchasingVars
  PROVE  [Account!ReceivableNext]_(Account!receivableVars)
<1> USE DEF Account!receivableVars
<1>1. CASE UNCHANGED <<bills, payments>>
  BY <1>1
<1>2. ASSUME NEW b \in BillIds, NEW o \in Orders, NEW ref \in References,
             NEW x \in 0..MaxCharges, NEW lines \in [ReceiptIds -> Quantities],
             NEW cost \in Prices(lines), CreateSupplierInvoice(b, o, ref, lines, cost, x)
      PROVE  Account!ReceivableNext
  <2>1. /\ bills[b] = NoBill /\ bills'[b].status = "DRAFT" /\ bills'[b].total > 0
        /\ \A k \in BillIds : k # b => bills'[k] = bills[k]
        /\ UNCHANGED payments
    BY <1>2, CreateBillStep
  <2>2. StageOf(bills[b]) = "NONE" /\ StageOf(bills'[b]) = "DRAFT"
    BY <2>1 DEF StageOf, NoBill, OpenStatuses
  <2>3. Account!Draw(b, Dues'[b])
    BY <2>1, <2>2, OneBill DEF Account!Draw, Account!Advance, Stages, Dues, Paids
  <2>4. QED
    BY <2>3 DEF Account!ReceivableNext, Account!Draw, Dues
<1>3. ASSUME NEW b \in BillIds, PostSupplierInvoice(b) \/ VoidSupplierInvoice(b)
      PROVE  Account!ReceivableNext
  BY <1>3, AccountMoves DEF Account!ReceivableNext
<1>4. ASSUME NEW b \in BillIds, NEW n \in 0..MaxAmount, NEW p \in PaymentIds,
             RecordSupplierPayment(b, n, p)
      PROVE  Account!ReceivableNext
  <2>1. Account!Settle(b, Paids'[b])
    BY <1>4, RecordStep, AccountSettles
  <2>2. QED
    BY <2>1 DEF Account!ReceivableNext, Paids
<1>5. ASSUME NEW p \in PaymentIds, VoidSupplierPayment(p)
      PROVE  Account!ReceivableNext
  <2>1. PICK b \in BillIds : Account!Settle(b, Paids'[b])
    BY <1>5, VoidPaymentStep, AccountSettles
  <2>2. QED
    BY <2>1 DEF Account!ReceivableNext, Paids
<1>6. ASSUME NEW s \in Suppliers, SupplierNext(s) PROVE UNCHANGED <<bills, payments>>
  BY <1>6 DEF SupplierNext, RegisterSupplier, DeactivateSupplier, ReactivateSupplier
<1>7. ASSUME NEW o \in Orders, OrderNext(o) PROVE UNCHANGED <<bills, payments>>
  BY <1>7 DEF OrderNext, CreatePurchaseOrder, UpdatePurchaseOrder,
       AddPurchaseOrderLine, UpdatePurchaseOrderLine, RemovePurchaseOrderLine,
       SubmitPurchaseOrder, ApprovePurchaseOrder, CancelPurchaseOrder,
       ReceivePurchaseOrder, OrderSaved, OrderChanges
<1>8. QED
  BY <1>1, <1>2, <1>3, <1>4, <1>5, <1>6, <1>7 DEF Next, BillNext, purchasingVars

\* What purchasing owes on an invoice moves like the abstract account.
THEOREM PayablesAreAccounts == Spec => ImplementsPayable
<1>1. Init => Account!ReceivableInit
  BY AccountInit
<1>2. IInv /\ [Next]_purchasingVars
        => [Account!ReceivableNext]_(Account!receivableVars)
  BY AccountStep
<1>3. QED
  BY <1>1, <1>2, PurchasingInv, PTL
     DEF Spec, ImplementsPayable, Account!ReceivableSpec

-----------------------------------------------------------------------------
(* What is on paper stays *)

\* An order as it was sent to the supplier.
AsSent(row) == [supplier |-> row.supplier, terms |-> row.terms,
                quantity |-> row.quantity, cost |-> row.cost]

\* What an invoice charges, for what.
AsCharged(row) == [order |-> row.order, reference |-> row.reference,
                   lines |-> row.lines, cost |-> row.cost,
                   charges |-> row.charges, total |-> row.total]

Sent(o) == orders[o].status \notin {"ABSENT", "DRAFT"}

\* What a step may do to an order: to one that was sent only its status
\* changes; it never goes back to being a draft, a cancellation and a complete
\* delivery are final, and an order of which something has arrived waits until
\* all of it has (cancel_purchase_order refuses it, and nothing closes it).
OrderStands(o) ==
  /\ Sent(o) => AsSent(orders'[o]) = AsSent(orders[o]) /\ Sent(o)'
  /\ orders[o].status \in {"CANCELLED", "RECEIVED"} => orders'[o] = orders[o]
  /\ orders[o].status = "PARTIALLY_RECEIVED" =>
       orders'[o].status \in ReceivedStatuses

\* Deliveries are booked once and for all.
ReceiptStands(r) == receipts[r] # NoReceipt => receipts'[r] = receipts[r]

\* An invoice keeps what it charges from the draft on, and stays void.
BillStands(b) ==
  bills[b] # NoBill =>
    /\ AsCharged(bills'[b]) = AsCharged(bills[b])
    /\ bills[b].status = "VOIDED" => bills'[b].status = "VOIDED"

\* A payment can be voided and nothing else.
PaymentStands(p) ==
  payments[p] # NoPayment =>
    payments'[p] \in {payments[p], [payments[p] EXCEPT !.status = "VOIDED"]}

PapersKept ==
  /\ \A o \in Orders : OrderStands(o)
  /\ \A r \in ReceiptIds : ReceiptStands(r)
  /\ \A b \in BillIds : BillStands(b)
  /\ \A p \in PaymentIds : PaymentStands(p)

\* What was ordered, delivered, charged and paid is never rewritten by any
\* service, so that the three-way match compares what people once agreed to.
PapersStand == [][PapersKept]_purchasingVars

\* Tables a step leaves alone stand.
LEMMA UntouchedStand ==
  /\ orders' = orders => \A o \in Orders : OrderStands(o)
  /\ receipts' = receipts => \A r \in ReceiptIds : ReceiptStands(r)
  /\ bills' = bills => \A b \in BillIds : BillStands(b)
  /\ payments' = payments => \A p \in PaymentIds : PaymentStands(p)
<1>1. ASSUME orders' = orders, NEW o \in Orders PROVE OrderStands(o)
  <2>1. orders'[o] = orders[o] /\ (Sent(o)' <=> Sent(o))
    BY <1>1 DEF Sent
  <2>2. QED
    BY <2>1 DEF OrderStands, ReceivedStatuses
<1>2. ASSUME receipts' = receipts, NEW r \in ReceiptIds PROVE ReceiptStands(r)
  BY <1>2 DEF ReceiptStands
<1>3. ASSUME bills' = bills, NEW b \in BillIds PROVE BillStands(b)
  BY <1>3 DEF BillStands
<1>4. ASSUME payments' = payments, NEW p \in PaymentIds PROVE PaymentStands(p)
  BY <1>4 DEF PaymentStands
<1>5. QED
  BY <1>1, <1>2, <1>3, <1>4

\* Before it is sent an order changes freely, from then on by its status.
LEMMA OrdersStand ==
  ASSUME TypeOK, NEW o \in Orders, NEW row, orders' = [orders EXCEPT ![o] = row],
         \/ orders[o].status \in {"ABSENT", "DRAFT"}
         \/ /\ AsSent(row) = AsSent(orders[o])
            /\ \/ /\ orders[o].status \in {"SUBMITTED", "APPROVED"}
                  /\ row.status \notin {"ABSENT", "DRAFT"}
               \/ /\ orders[o].status = "PARTIALLY_RECEIVED"
                  /\ row.status \in ReceivedStatuses
  PROVE  \A x \in Orders : OrderStands(x)
<1>1. orders'[o] = row /\ \A x \in Orders \ {o} : orders'[x] = orders[x]
  BY DEF TypeOK
<1>2. OrderStands(o)
  BY <1>1 DEF OrderStands, Sent, ReceivedStatuses
<1>3. ASSUME NEW x \in Orders \ {o} PROVE OrderStands(x)
  <2>1. orders'[x] = orders[x] /\ (Sent(x)' <=> Sent(x))
    BY <1>1 DEF Sent
  <2>2. QED
    BY <2>1 DEF OrderStands, ReceivedStatuses
<1>4. QED
  BY <1>2, <1>3

LEMMA OrderServicesStand ==
  ASSUME TypeOK, NEW o \in Orders, OrderNext(o) PROVE PapersKept
<1>1. ASSUME NEW row, OrderChanges(o, row), \A x \in Orders : OrderStands(x)
      PROVE  PapersKept
  BY <1>1, UntouchedStand DEF PapersKept, OrderChanges
<1>2. ASSUME NEW row, OrderChanges(o, row), orders[o].status \in {"ABSENT", "DRAFT"}
      PROVE  PapersKept
  BY <1>1, <1>2, OrdersStand DEF OrderChanges
<1>3. ASSUME NEW new \in {"SUBMITTED", "APPROVED", "CANCELLED"},
             orders[o].status \in {"DRAFT", "SUBMITTED", "APPROVED"},
             OrderChanges(o, [orders[o] EXCEPT !.status = new])
      PROVE  PapersKept
  <2> DEFINE row == [orders[o] EXCEPT !.status = new]
  <2>1. AsSent(row) = AsSent(orders[o]) /\ row.status = new
    BY DEF AsSent, TypeOK, Order
  <2>2. CASE orders[o].status = "DRAFT"
    BY <1>2, <1>3, <2>2
  <2>3. CASE orders[o].status \in {"SUBMITTED", "APPROVED"}
    <3>1. \A x \in Orders : OrderStands(x)
      BY <1>3, <2>1, <2>3, OrdersStand DEF OrderChanges
    <3>2. QED
      BY <1>1, <1>3, <3>1
  <2>4. QED
    BY <1>3, <2>2, <2>3
<1>4. ASSUME NEW s \in Suppliers, NEW t \in Terms,
             CreatePurchaseOrder(o, s, t) \/ UpdatePurchaseOrder(o, s, t)
      PROVE  PapersKept
  BY <1>2, <1>4
     DEF CreatePurchaseOrder, UpdatePurchaseOrder, OrderSaved, Draft, NoOrder
<1>5. ASSUME NEW p \in Products, NEW n \in 0..QuantityLimit[p], NEW c \in UnitCosts[p],
             AddPurchaseOrderLine(o, p, n, c) \/ UpdatePurchaseOrderLine(o, p, n, c)
      PROVE  PapersKept
  BY <1>2, <1>5
     DEF AddPurchaseOrderLine, UpdatePurchaseOrderLine, EditableLine, Draft
<1>6. ASSUME NEW p \in Products, RemovePurchaseOrderLine(o, p) PROVE PapersKept
  BY <1>2, <1>6 DEF RemovePurchaseOrderLine, EditableLine, Draft
<1>7. CASE SubmitPurchaseOrder(o)
  BY <1>3, <1>7 DEF SubmitPurchaseOrder, OrderSaved, Draft
<1>8. CASE ApprovePurchaseOrder(o)
  BY <1>3, <1>8 DEF ApprovePurchaseOrder, OrderSaved
<1>9. CASE CancelPurchaseOrder(o)
  BY <1>3, <1>9 DEF CancelPurchaseOrder, OrderSaved
<1>10. ASSUME NEW q \in Quantities, NEW r \in ReceiptIds, ReceivePurchaseOrder(o, q, r)
       PROVE  PapersKept
  <2> DEFINE row == [orders[o] EXCEPT !.status = StatusOnceReceived(receipts', o)]
  <2>1. /\ orders[o].status \in {"APPROVED", "PARTIALLY_RECEIVED"}
        /\ orders' = [orders EXCEPT ![o] = row]
        /\ receipts[r] = NoReceipt
        /\ \A k \in ReceiptIds : k # r => receipts'[k] = receipts[k]
        /\ UNCHANGED <<bills, payments>>
    BY <1>10 DEF ReceivePurchaseOrder, NextKey, TypeOK
  <2>2. AsSent(row) = AsSent(orders[o]) /\ row.status \in ReceivedStatuses
    BY DEF AsSent, TypeOK, Order, StatusOnceReceived, ReceivedStatuses
  <2>3. \A x \in Orders : OrderStands(x)
    BY <2>1, <2>2, OrdersStand DEF ReceivedStatuses
  <2>4. \A k \in ReceiptIds : ReceiptStands(k)
    BY <2>1 DEF ReceiptStands
  <2>5. QED
    BY <2>1, <2>3, <2>4, UntouchedStand DEF PapersKept
<1>11. QED
  BY <1>4, <1>5, <1>6, <1>7, <1>8, <1>9, <1>10 DEF OrderNext

\* An invoice is written once; afterwards only its status moves.
LEMMA BillsStand ==
  ASSUME TypeOK, NEW b \in BillIds, NEW new, bills[b].status # "VOIDED",
         bills' = [bills EXCEPT ![b].status = new]
  PROVE  \A k \in BillIds : BillStands(k)
<1>1. /\ AsCharged(bills'[b]) = AsCharged(bills[b])
      /\ \A k \in BillIds \ {b} : bills'[k] = bills[k]
  BY DEF TypeOK, Bill, AsCharged
<1>2. BillStands(b)
  BY <1>1 DEF BillStands
<1>3. \A k \in BillIds \ {b} : BillStands(k)
  BY <1>1 DEF BillStands
<1>4. QED
  BY <1>2, <1>3

LEMMA BillServicesStand ==
  ASSUME TypeOK, NEW b \in BillIds, BillNext(b) PROVE PapersKept
<1>1. ASSUME NEW o \in Orders, NEW ref \in References, NEW x \in 0..MaxCharges,
             NEW lines \in [ReceiptIds -> Quantities], NEW cost \in Prices(lines),
             CreateSupplierInvoice(b, o, ref, lines, cost, x)
      PROVE  PapersKept
  <2>1. /\ bills[b] = NoBill
        /\ \A k \in BillIds : k # b => bills'[k] = bills[k]
        /\ UNCHANGED <<orders, receipts, payments>>
    BY <1>1 DEF CreateSupplierInvoice, NextKey, TypeOK
  <2>2. \A k \in BillIds : BillStands(k)
    BY <2>1 DEF BillStands, AsCharged
  <2>3. QED
    BY <2>1, <2>2, UntouchedStand DEF PapersKept
<1>2. CASE PostSupplierInvoice(b) \/ VoidSupplierInvoice(b)
  <2>1. PICK new \in {"POSTED", "VOIDED"} :
          /\ bills' = [bills EXCEPT ![b].status = new]
          /\ bills[b].status # "VOIDED"
          /\ UNCHANGED <<orders, receipts, payments>>
    BY <1>2 DEF PostSupplierInvoice, VoidSupplierInvoice, Postable, Voidable, BillMoves
  <2>2. QED
    BY <2>1, BillsStand, UntouchedStand DEF PapersKept
<1>3. ASSUME NEW n \in 0..MaxAmount, NEW p \in PaymentIds, RecordSupplierPayment(b, n, p)
      PROVE  PapersKept
  <2> DEFINE new == StatusForPaid(bills[b].total, Paid(payments, b) + n)
  <2>1. /\ bills' = [bills EXCEPT ![b].status = new]
        /\ bills[b].status # "VOIDED"
        /\ payments[p] = NoPayment
        /\ \A k \in PaymentIds : k # p => payments'[k] = payments[k]
        /\ UNCHANGED <<orders, receipts>>
    BY <1>3 DEF RecordSupplierPayment, NextKey, TypeOK
  <2> HIDE DEF new
  <2>2. \A k \in PaymentIds : PaymentStands(k)
    BY <2>1 DEF PaymentStands
  <2>3. QED
    BY <2>1, <2>2, BillsStand, UntouchedStand DEF PapersKept
<1>4. QED
  BY <1>1, <1>2, <1>3 DEF BillNext

LEMMA VoidedPaymentStands ==
  ASSUME IInv, NEW p \in PaymentIds, VoidSupplierPayment(p) PROVE PapersKept
<1> DEFINE b == payments[p].bill
           new == StatusForPaid(bills[b].total, Paid(payments', b))
<1>1. /\ b \in BillIds
      /\ bills[b].status # "VOIDED"
      /\ bills' = [bills EXCEPT ![b].status = new]
      /\ payments' = [payments EXCEPT ![p].status = "VOIDED"]
      /\ UNCHANGED <<orders, receipts>>
  BY DEF VoidSupplierPayment, StatusAfterVoid, PaymentFits, IInv, PaymentsNameBills
<1> HIDE DEF new
<1>2. \A k \in PaymentIds : PaymentStands(k)
  <2>1. payments'[p] = [payments[p] EXCEPT !.status = "VOIDED"]
    BY <1>1 DEF IInv, TypeOK
  <2>2. \A k \in PaymentIds \ {p} : payments'[k] = payments[k]
    BY <1>1 DEF IInv, TypeOK
  <2>3. QED
    BY <2>1, <2>2 DEF PaymentStands
<1>3. QED
  BY <1>1, <1>2, BillsStand, UntouchedStand DEF PapersKept, IInv

\* However the services follow each other, an order once sent, a delivery, an
\* invoice and a payment keep what they say, and an order of which something
\* has arrived can only wait for the rest (update_purchase_order and its
\* siblings edit drafts only; cancel_purchase_order refuses deliveries).
THEOREM PapersNeverRewritten == Spec => PapersStand
<1>1. IInv /\ [Next]_purchasingVars => PapersKept
  <2> SUFFICES ASSUME IInv, [Next]_purchasingVars PROVE PapersKept
    OBVIOUS
  <2>1. CASE UNCHANGED <<orders, receipts, bills, payments>>
    BY <2>1, UntouchedStand DEF PapersKept
  <2>2. ASSUME NEW s \in Suppliers, SupplierNext(s) PROVE PapersKept
    BY <2>1, <2>2 DEF SupplierNext, RegisterSupplier, DeactivateSupplier,
                      ReactivateSupplier
  <2>3. ASSUME NEW o \in Orders, OrderNext(o) PROVE PapersKept
    BY <2>3, OrderServicesStand DEF IInv
  <2>4. ASSUME NEW b \in BillIds, BillNext(b) PROVE PapersKept
    BY <2>4, BillServicesStand DEF IInv
  <2>5. ASSUME NEW p \in PaymentIds, VoidSupplierPayment(p) PROVE PapersKept
    BY <2>5, VoidedPaymentStands
  <2>6. CASE UNCHANGED purchasingVars
    BY <2>1, <2>6 DEF purchasingVars
  <2>7. QED
    BY <2>2, <2>3, <2>4, <2>5, <2>6 DEF Next
<1>2. IInv /\ [Next]_purchasingVars => [PapersKept]_purchasingVars
  BY <1>1
<1>3. QED
  BY <1>2, PurchasingInv, PTL DEF Spec, PapersStand

=============================================================================
