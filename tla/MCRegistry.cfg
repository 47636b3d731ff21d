\* Two workers and one vehicle that goes back and forth between two customers.
SPECIFICATION FairSpec
CONSTANTS
  c1 = c1  c2 = c2  v1 = v1  v2 = v2  p1 = p1  p2 = p2
  None = None
  Staff = {"ADMINISTRATOR", "RECEPTIONIST"}
  Customers = {c1, c2}
  Vehicles = {v1}
  Workers = {p1, p2}
INVARIANTS
  OwnersInOrder
  DeadlocksNeedIntake
PROPERTIES
  ImplementsRegistry
  EveryCallReturns
