---------------------------- MODULE BillingPages ----------------------------
(***************************************************************************)
(* The pages of billing (billing/views.py, forms.py): who may open which,  *)
(* what its form lets through, and the service it then calls.              *)
(*                                                                         *)
(* The forms offer completed orders without an invoice and compare an      *)
(* amount with the balance, but with the rows as they were when the page   *)
(* was loaded or sent; the service locks and reads them again, so what is  *)
(* kept of the forms is that rows exist and the limits of the input.       *)
(* A refusal by page, form or service shows the form again.                *)
(***************************************************************************)
EXTENDS Billing, Policy

\* Any work order: whether it is completed and not yet billed is asked again.
InvoiceCreateForm == Orders

\* The pages of an invoice or a payment open for any row on file.
InvoicesOnFile == {o \in Orders : invoices[o] # NoInvoice}

PaymentsOnFile == {p \in PaymentIds : payments[p] # NoPayment}

\* The amount has a minimal value, so zero is never sent.
PaymentRecordForm == 1..MaxAmount

-----------------------------------------------------------------------------

InvoiceCreate(u) ==
  /\ May(u, "add_invoice")
  /\ \E o \in InvoiceCreateForm : CreateInvoice(o)

InvoiceIssue(u, o) ==
  May(u, "issue_invoice") /\ o \in InvoicesOnFile /\ IssueInvoice(o)

InvoiceVoid(u, o) ==
  May(u, "void_invoice") /\ o \in InvoicesOnFile /\ VoidInvoice(o)

PaymentRecord(u, o, p) ==
  /\ May(u, "record_payment")
  /\ o \in InvoicesOnFile
  /\ \E n \in PaymentRecordForm : RecordPayment(o, n, p)

PaymentVoid(u, p) ==
  May(u, "void_payment") /\ p \in PaymentsOnFile /\ VoidPayment(p)

-----------------------------------------------------------------------------

PagesNext ==
  \/ \E u \in Staff :
       \/ InvoiceCreate(u)
       \/ \E o \in Orders : InvoiceIssue(u, o) \/ InvoiceVoid(u, o)
       \/ \E o \in Orders, p \in PaymentIds : PaymentRecord(u, o, p)
       \/ \E p \in PaymentIds : PaymentVoid(u, p)
  \/ ConsumptionNext /\ UNCHANGED <<invoices, payments>>

PagesSpec == Init /\ [][PagesNext]_billingVars

=============================================================================
