\* The mileage is cleared between two visits.
SPECIFICATION PagesSpec
CONSTANTS
  Jobs = {1, 2}
  Discounts = {0}
  Taxes = {0}
  Prices = {1}
  MaxLines = 1
  MaxRevisions = 2
  v1 = v1
  Vehicles = {v1}
  MaxMileage = 1
  None = None
  Staff = {"RECEPTIONIST", "MANAGER"}
INVARIANTS
  OdometerNeverFalls
CHECK_DEADLOCK FALSE
