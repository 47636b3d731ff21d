\* Two requirements compete for one stocked item.
SPECIFICATION PagesSpec
CONSTANTS
  p1 = p1  l1 = l1  l2 = l2  i1 = i1  i2 = i2  o1 = o1  q1 = q1  q2 = q2
  None = None
  Staff = {"MANAGER"}
  Products = {p1}
  Locations = {l1}
  Items = {i1}
  Orders = {o1}
  Requirements = {q1, q2}
  ProductOf <- MCProductOf
  LocationOf <- MCLocationOf
  OrderOf <- MCOrderOf
  RequiredProduct <- MCRequiredProduct
  Approved <- MCApproved
  MaxQuantity = 2
  MaxReservations = 2
  MaxMovements = 4
INVARIANTS
  StockNeverNegative
  CommitmentsCovered
  IssuedMatchesLedger
  ReturnsWithinIssue
  OpenIffHoldsStock
  OneActiveReservation
  DemandStatusInSync
\* Both tables are full and the order is closed: nothing is left to do.
CHECK_DEADLOCK FALSE
