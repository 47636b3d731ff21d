\* A job is cancelled after its vehicle has been handed over.
SPECIFICATION PagesSpec
CONSTANTS
  Jobs = {1, 2}
  Discounts = {0}
  Taxes = {0}
  Prices = {1}
  MaxLines = 1
  MaxRevisions = 2
  v1 = v1
  Vehicles = {v1}
  MaxMileage = 1
  None = None
  Staff = {"RECEPTIONIST", "MANAGER"}
INVARIANTS
  ReleasedJobStaysReleased
CHECK_DEADLOCK FALSE
