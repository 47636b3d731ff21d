\* Two orders, one requirement each, three payments.
SPECIFICATION PagesSpec
CONSTANTS
  o1 = o1  o2 = o2
  Orders = {o1, o2}
  Requirements = {1, 2}
  MaxRequirements = 2
  OrderOf <- MCOrderOf
  Approved <- MCApproved
  ServiceSubtotal <- MCServiceSubtotal
  UnitPrice <- MCUnitPrice
  Discount <- MCDiscount
  Tax <- MCTax
  MaxPayments = 3
  MaxAmount = 3
  None = None
  Staff = {"MANAGER", "CASHIER"}
INVARIANTS
  StatusInSync
  NeverOverpaid
  BillWithinQuote
  NothingUnbilled
PROPERTIES
  ImplementsReceivable
\* Everything is paid and the payment table is full: nothing is left to do.
CHECK_DEADLOCK FALSE
