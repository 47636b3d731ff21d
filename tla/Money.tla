------------------------------- MODULE Money -------------------------------
(***************************************************************************)
(* The arithmetic of quotations and invoices.  Amounts are in cents,       *)
(* percentages in hundredths of a percent and product quantities in        *)
(* thousandths, the decimal places of the columns that hold them, so every *)
(* Decimal is a natural number and every quantize(0.01, ROUND_HALF_UP) an  *)
(* integer division.                                                       *)
(***************************************************************************)
EXTENDS Integers

\* n / d, rounded to the nearest integer, halves up (n is never negative).
HalfUp(n, d) == (2 * n + d) \div (2 * d)

\* The total of one product line: its quantity at the frozen unit price.
LineTotal(quantity, price) == HalfUp(quantity * price, 1000)

PercentOf(amount, percentage) == HalfUp(amount * percentage, 10000)

Percentages == 0..10000

\* What remains of a subtotal after the discount.
Taxable(subtotal, discount) == subtotal - PercentOf(subtotal, discount)

\* Mutant: the tax is taken on the undiscounted subtotal.
InvoiceSumTaxFirst(subtotal, discount, tax) ==
  Taxable(subtotal, discount) + PercentOf(subtotal, tax)

\* calculate_invoice_totals: what an invoice comes to, tax included.
InvoiceSum(subtotal, discount, tax) ==
  Taxable(subtotal, discount) + PercentOf(Taxable(subtotal, discount), tax)

\* calculate_totals: the quotations' own copy of the formula.
QuotationSum(subtotal, discount, tax) ==
  LET taxable == subtotal - PercentOf(subtotal, discount)
  IN  taxable + PercentOf(taxable, tax)

=============================================================================
