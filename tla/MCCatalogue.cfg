\* A product, a service, two categories; prices change twice.
SPECIFICATION Spec
CONSTANTS
  c1 = c1  c2 = c2  oil = oil  wash = wash  car = car  lorry = lorry  low = low  high = high
  None = None
  Staff = {"MANAGER", "RECEPTIONIST"}
  Categories = {c1, c2}
  Products = {oil}
  Services = {wash}
  VehicleKinds = {car, lorry}
  Prices = {low, high}
  MaxPeriods = 3
  MaxTime = 3
INVARIANTS
  OffersUsable
  OnePriceAtATime
