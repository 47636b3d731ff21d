\* Two visits of one vehicle, two revisions of at most one line each,
\* with no discount or one of everything (an approval that comes to nothing).
SPECIFICATION PagesSpec
CONSTANTS
  Jobs = {1, 2}
  Discounts = {0, 10000}
  Taxes = {0}
  Prices = {1}
  MaxLines = 1
  MaxRevisions = 2
  v1 = v1
  Vehicles = {v1}
  MaxMileage = 1
  None = None
  Staff = {"RECEPTIONIST", "MANAGER"}
INVARIANTS
  OneActiveJob
  WorkIsAgreed
  HandedOverBilled
  OnlyKnownDeadEnds
PROPERTIES
  KeepsQuotations
\* Two released jobs: nothing is left to do.
CHECK_DEADLOCK FALSE
