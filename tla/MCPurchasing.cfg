\* One order of two products, two deliveries, two invoices, two payments.
SPECIFICATION PagesSpec
CONSTANTS
  s1 = s1  o1 = o1  r1 = r1  r2 = r2
  None = None
  Staff = {"MANAGER", "CASHIER"}
  Suppliers = {s1}
  Orders = {o1}
  References = {r1, r2}
  Terms <- MCTerms
  QuantityLimit <- MCQuantityLimit
  MaxProducts = 2
  UnitCosts <- MCUnitCosts
  MaxCharges = 0
  MaxReceipts = 2
  MaxInvoices = 2
  MaxPayments = 2
  MaxAmount = 2
SYMMETRY MCSymmetry
INVARIANTS
  DeliveriesMatchOrder
  ThreeWayMatch
  DraftsPostable
  PayablesInSync
PROPERTIES
  ImplementsPayable
\* Everything is received and paid: nothing is left to do.
CHECK_DEADLOCK FALSE
