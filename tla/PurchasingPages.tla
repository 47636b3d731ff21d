-------------------------- MODULE PurchasingPages --------------------------
(***************************************************************************)
(* The pages of purchasing (views.py, forms.py): who may open which, what  *)
(* its form lets through, and the service it then calls.                   *)
(*                                                                         *)
(* A page is loaded, filled in and sent later; its form compares what was  *)
(* entered with the rows of that moment, before the service's transaction  *)
(* locks and reads them again.  Comparing an amount with a balance, or a   *)
(* reference with earlier ones, therefore promises nothing: what is kept   *)
(* of the forms here is what may be chosen and the limits of the input.    *)
(* A refusal by page, form or service shows the form again.                *)
(***************************************************************************)
EXTENDS Purchasing, Policy

\* Suppliers that were active when the form was checked; by now any may be.
PurchaseOrderForm == {s \in Suppliers : suppliers[s] # "ABSENT"} \X Terms

\* Quantities and costs have minimal values, so zero is never sent.
LineForm(p) == (1..QuantityLimit[p]) \X (UnitCosts[p] \ {0})

\* One row per awaited line, of which at least one is ticked.
GoodsReceiptForm == Quantities \ {Nothing}

\* Orders of which something has arrived.
OrdersToInvoice == {o \in Orders : orders[o].status \in ReceivedStatuses}

\* At least one line, none of them twice.
SupplierInvoiceForm ==
  [ReceiptIds -> Quantities] \ {NoCharges}

SupplierPaymentForm == 1..MaxAmount

-----------------------------------------------------------------------------
(* Suppliers *)

SupplierCreate(u, s) == May(u, "add_supplier") /\ RegisterSupplier(s)

SupplierDeactivate(u, s) == May(u, "deactivate_supplier") /\ DeactivateSupplier(s)

SupplierReactivate(u, s) == May(u, "reactivate_supplier") /\ ReactivateSupplier(s)

-----------------------------------------------------------------------------
(* Purchase orders *)

PurchaseOrderCreate(u, o) ==
  /\ May(u, "add_purchaseorder")
  /\ \E f \in PurchaseOrderForm : CreatePurchaseOrder(o, f[1], f[2])

PurchaseOrderUpdate(u, o) ==
  /\ May(u, "change_purchaseorder")
  /\ \E f \in PurchaseOrderForm : UpdatePurchaseOrder(o, f[1], f[2])

PurchaseOrderLineAdd(u, o) ==
  /\ May(u, "change_purchaseorder")
  /\ \E p \in Products : \E l \in LineForm(p) :
       AddPurchaseOrderLine(o, p, l[1], l[2])

PurchaseOrderLineUpdate(u, o) ==
  /\ May(u, "change_purchaseorder")
  /\ \E p \in Products : \E l \in LineForm(p) :
       UpdatePurchaseOrderLine(o, p, l[1], l[2])

PurchaseOrderLineRemove(u, o) ==
  /\ May(u, "change_purchaseorder")
  /\ \E p \in Products : RemovePurchaseOrderLine(o, p)

PurchaseOrderSubmit(u, o) ==
  May(u, "submit_purchase_order") /\ SubmitPurchaseOrder(o)

\* Whoever submitted the order may approve it too.
PurchaseOrderApprove(u, o) ==
  May(u, "approve_purchase_order") /\ ApprovePurchaseOrder(o)

PurchaseOrderCancel(u, o) ==
  May(u, "cancel_purchase_order") /\ CancelPurchaseOrder(o)

GoodsReceiptCreate(u, o) ==
  /\ May(u, "receive_purchase_order")
  /\ \E q \in GoodsReceiptForm, r \in ReceiptIds : ReceivePurchaseOrder(o, q, r)

-----------------------------------------------------------------------------
(* Supplier invoices and payments *)

SupplierInvoiceCreate(u, b) ==
  /\ May(u, "add_supplierinvoice")
  /\ NextKey(bills, NoBill, b)
  /\ \E o \in OrdersToInvoice, lines \in SupplierInvoiceForm :
       \E cost \in Prices(lines), ref \in References, x \in 0..MaxCharges :
         CreateSupplierInvoice(b, o, ref, lines, cost, x)

SupplierInvoicePost(u, b) ==
  May(u, "post_supplier_invoice") /\ PostSupplierInvoice(b)

SupplierInvoiceVoid(u, b) ==
  May(u, "void_supplier_invoice") /\ VoidSupplierInvoice(b)

SupplierPaymentRecord(u, b) ==
  /\ May(u, "record_supplier_payment")
  /\ \E n \in SupplierPaymentForm, p \in PaymentIds : RecordSupplierPayment(b, n, p)

SupplierPaymentVoid(u, p) ==
  May(u, "void_supplier_payment") /\ VoidSupplierPayment(p)

-----------------------------------------------------------------------------

PagesNext ==
  \E u \in Staff :
    \/ \E s \in Suppliers :
         SupplierCreate(u, s) \/ SupplierDeactivate(u, s) \/ SupplierReactivate(u, s)
    \/ \E o \in Orders :
         \/ PurchaseOrderCreate(u, o) \/ PurchaseOrderUpdate(u, o)
         \/ PurchaseOrderLineAdd(u, o) \/ PurchaseOrderLineUpdate(u, o)
         \/ PurchaseOrderLineRemove(u, o)
         \/ PurchaseOrderSubmit(u, o) \/ PurchaseOrderApprove(u, o)
         \/ PurchaseOrderCancel(u, o) \/ GoodsReceiptCreate(u, o)
    \/ \E b \in BillIds :
         \/ SupplierInvoiceCreate(u, b) \/ SupplierInvoicePost(u, b)
         \/ SupplierInvoiceVoid(u, b) \/ SupplierPaymentRecord(u, b)
    \/ \E p \in PaymentIds : SupplierPaymentVoid(u, p)

PagesSpec == Init /\ [][PagesNext]_purchasingVars

=============================================================================
