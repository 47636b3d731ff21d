--------------------------- MODULE RegistryProofs ---------------------------
(***************************************************************************)
(* Proofs about the registry, for any customers, vehicles and workers.     *)
(*                                                                         *)
(* OwnersInOrder is shown of the registry's atomic services.  That the     *)
(* services, statement by statement, implement those (ImplementsRegistry)  *)
(* rests on what a call's locks protect: CallsInOrder says where each call *)
(* stands, which rows it has locked by then, and that its copies of locked *)
(* rows are true.                                                          *)
(***************************************************************************)
EXTENDS RegistryCalls, ArithmeticProofs, FiniteSetTheorems

-----------------------------------------------------------------------------
(* The atomic services *)

RegistryInv == RegistryTypeOK /\ ActiveOwners /\ OneOpenPeriod

LEMMA RegistryInitInv == RegistryInit => RegistryInv
  BY RegistryAssumption
     DEF RegistryInit, RegistryInv, RegistryTypeOK, ActiveOwners, OneOpenPeriod,
         Statuses, Vehicle, NoVehicle

LEMMA CustomerSteps ==
  ASSUME RegistryInv, NEW c \in Customers,
         RegisterCustomer(c) \/ DeactivateCustomer(c) \/ ReactivateCustomer(c)
  PROVE  RegistryInv'
<1>1. PICK s \in {"ACTIVE", "INACTIVE"} : CustomerBecomes(c, s)
  BY DEF RegisterCustomer, DeactivateCustomer, ReactivateCustomer
<1>2. RegistryTypeOK'
  BY <1>1 DEF RegistryInv, RegistryTypeOK, CustomerBecomes, Statuses, Vehicle
<1>3. OneOpenPeriod'
  BY <1>1 DEF RegistryInv, OneOpenPeriod, CustomerBecomes
<1>4. ASSUME NEW v \in Vehicles,
             vehicles[v].status = "ACTIVE", vehicles[v].owner = c
      PROVE  customers'[c] = "ACTIVE"
  <2>1. customers[c] = "ACTIVE"
    BY <1>4 DEF RegistryInv, ActiveOwners
  <2>2. vehicles[v] = [status |-> "ACTIVE", owner |-> c]
    BY <1>4 DEF RegistryInv, RegistryTypeOK, Vehicle
  <2>3. FALSE
    BY <2>1, <2>2 DEF RegisterCustomer, DeactivateCustomer, ReactivateCustomer,
                      OwnsActiveVehicle
  <2>4. QED
    BY <2>3
<1>5. ActiveOwners'
  BY <1>1, <1>4 DEF RegistryInv, RegistryTypeOK, ActiveOwners, CustomerBecomes, Vehicle
<1>6. QED
  BY <1>2, <1>3, <1>5 DEF RegistryInv

LEMMA VehicleSteps ==
  ASSUME RegistryInv, NEW v \in Vehicles, NEW c \in Customers,
         \/ DeactivateVehicle(v) \/ ReactivateVehicle(v) \/ JobEnds(v)
         \/ RegisterVehicle(v, c) \/ TransferVehicleOwnership(v, c)
         \/ OpenJobCard(v, c)
  PROVE  RegistryInv'
<1>1. CASE DeactivateVehicle(v)
  BY <1>1 DEF DeactivateVehicle, VehicleBecomes, RegistryInv, RegistryTypeOK,
              ActiveOwners, OneOpenPeriod, Statuses, Vehicle
<1>2. CASE ReactivateVehicle(v)
  BY <1>2 DEF ReactivateVehicle, VehicleBecomes, RegistryInv, RegistryTypeOK,
              ActiveOwners, OneOpenPeriod, Statuses, Vehicle
<1>3. CASE JobEnds(v) \/ OpenJobCard(v, c)
  BY <1>3 DEF JobEnds, OpenJobCard, JobBecomes, RegistryInv, RegistryTypeOK,
              ActiveOwners, OneOpenPeriod, Statuses, Vehicle
<1>4. CASE RegisterVehicle(v, c)
  BY <1>4 DEF RegisterVehicle, VehicleAdded, RegistryInv, RegistryTypeOK,
              ActiveOwners, OneOpenPeriod, Statuses, Vehicle
<1>5. CASE TransferVehicleOwnership(v, c)
  <2>1. PeriodsOnceMoved(v, c) = {c}
    BY <1>5 DEF TransferVehicleOwnership, PeriodsOnceMoved, RegistryInv, OneOpenPeriod
  <2>2. QED
    BY <1>5, <2>1
       DEF TransferVehicleOwnership, VehicleMoved, RegistryInv, RegistryTypeOK,
           ActiveOwners, OneOpenPeriod, Statuses, Vehicle
<1>6. QED
  BY <1>1, <1>2, <1>3, <1>4, <1>5

LEMMA RegistryStep == RegistryInv /\ [RegistryNext]_registryVars => RegistryInv'
<1>1. SUFFICES ASSUME RegistryInv, RegistryNext PROVE RegistryInv'
  BY DEF registryVars, RegistryInv, RegistryTypeOK, ActiveOwners, OneOpenPeriod
<1>2. CASE \E c \in Customers :
             RegisterCustomer(c) \/ DeactivateCustomer(c) \/ ReactivateCustomer(c)
  BY <1>1, <1>2, CustomerSteps
<1>3. CASE \E v \in Vehicles, c \in Customers :
             \/ DeactivateVehicle(v) \/ ReactivateVehicle(v) \/ JobEnds(v)
             \/ RegisterVehicle(v, c) \/ TransferVehicleOwnership(v, c)
             \/ OpenJobCard(v, c)
  BY <1>1, <1>3, VehicleSteps
<1>4. CASE \E v \in Vehicles :
             DeactivateVehicle(v) \/ ReactivateVehicle(v) \/ JobEnds(v)
  <2>1. PICK v \in Vehicles :
          DeactivateVehicle(v) \/ ReactivateVehicle(v) \/ JobEnds(v)
    BY <1>4
  <2>2. Customers # {}
    BY <2>1, <1>1 DEF DeactivateVehicle, ReactivateVehicle, JobEnds, RegistryInv,
                      RegistryTypeOK, Vehicle
  <2>3. QED
    BY <2>1, <2>2, <1>1, VehicleSteps
<1>5. QED
  BY <1>1, <1>2, <1>3, <1>4 DEF RegistryNext

\* RegistrySpec keeps rows well formed and vehicles owned by somebody on file.
THEOREM RegistryTyped == RegistrySpec => []RegistryTypeOK
<1>1. RegistryInv => RegistryTypeOK
  BY DEF RegistryInv
<1>2. QED
  BY <1>1, RegistryInitInv, RegistryStep, PTL DEF RegistrySpec

\* Of the atomic services: active vehicles have active owners, and the one
\* open ownership period is the owner's.
THEOREM RegistryInOrder == RegistrySpec => []OwnersInOrder
<1>1. RegistryInv => OwnersInOrder
  BY DEF RegistryInv, OwnersInOrder
<1>2. QED
  BY <1>1, RegistryInitInv, RegistryStep, PTL DEF RegistrySpec

-----------------------------------------------------------------------------
(* What a call's statements have established *)

AsksCustomer == CustomerFirst \cup {"transfer_vehicle_ownership"}

LocksVehicle ==
  OwnerJoined \cup
  {"update_vehicle", "deactivate_vehicle", "transfer_vehicle_ownership"}

Statements ==
  {"begin", "customer", "count", "join", "vehicle", "owner", "commit"}

Call ==
  [op : Services \cup {"none"}, customer : Customers \cup {None},
   vehicle : Vehicles \cup {None}, at : Statements,
   locked : SUBSET (Customers \cup Vehicles), owner : Customers \cup {None},
   customerRow : Statuses, vehicleRow : Vehicle, ownerRow : Statuses,
   owns : BOOLEAN]

\* A statement of its service.
OnRoute(k) ==
  /\ k.op \in Services
  /\ k.at \in Statements \ {"begin"}
  /\ k.at = "customer" => k.op \in AsksCustomer
  /\ k.at = "count" => k.op = "deactivate_customer"
  /\ k.at \in {"join", "owner"} => k.op \in OwnerJoined
  /\ k.at = "vehicle" => k.op \in LocksVehicle

\* The statements that lie behind it.
PastCustomer(k) ==
  \/ k.op \in CustomerFirst /\ k.at # "customer"
  \/ k.op = "transfer_vehicle_ownership" /\ k.at = "commit"

PastJoin(k) == k.op \in OwnerJoined /\ k.at \in {"vehicle", "owner", "commit"}

PastVehicle(k) ==
  \/ k.op \in LocksVehicle /\ k.at \in {"owner", "commit"}
  \/ k.op = "transfer_vehicle_ownership" /\ k.at = "customer"

PastOwner(k) == k.op \in OwnerJoined /\ k.at = "commit"

\* The rows it speaks of are on file.
RowsOnFile(k) ==
  /\ k.op \in AsksCustomer =>
       k.customer \in Customers /\ customers[k.customer] # "ABSENT"
  /\ k.op \in LocksVehicle =>
       k.vehicle \in Vehicles /\ vehicles[k.vehicle].status # "ABSENT"
  /\ k.op = "register_vehicle" => k.vehicle \in Vehicles
  /\ PastJoin(k) => k.owner \in Customers /\ customers[k.owner] # "ABSENT"

\* It has locked what it has read for update, and nothing else.
LocksHeld(k) ==
  k.locked = {row \in Customers \cup Vehicles :
                \/ PastCustomer(k) /\ row = k.customer
                \/ PastVehicle(k) /\ row = k.vehicle
                \/ PastOwner(k) /\ row = k.owner}

\* What it remembers of locked rows is so.
CopiesTrue(k) ==
  /\ PastCustomer(k) => k.customerRow = customers[k.customer]
  /\ PastVehicle(k) => k.vehicleRow = vehicles[k.vehicle]
  /\ PastOwner(k) =>
       k.ownerRow = customers[k.owner] /\ k.vehicleRow.owner = k.owner
  /\ k.op = "deactivate_customer" /\ k.at = "commit" /\ ~ k.owns =>
       ~ OwnsActiveVehicle(k.customer)

InOrder(k) == OnRoute(k) /\ RowsOnFile(k) /\ LocksHeld(k) /\ CopiesTrue(k)

CallsInOrder ==
  /\ calls \in [Workers -> Call]
  /\ \A p \in Workers : calls[p] = Idle \/ InOrder(calls[p])

LocksExclusive ==
  \A p, q \in Workers : p # q => calls[p].locked \cap calls[q].locked = {}

IInv == RegistryInv /\ CallsInOrder /\ LocksExclusive

-----------------------------------------------------------------------------
(* The invariant is kept *)

LEMMA IdleCall == Idle \in Call /\ Idle.locked = {}
<1>1. NoVehicle \in Vehicle
  BY DEF NoVehicle, Vehicle, Statuses
<1>2. QED
  BY <1>1 DEF Idle, Call, Statuses, Statements

LEMMA InitInv == Init => IInv
<1>1. SUFFICES ASSUME Init PROVE CallsInOrder /\ LocksExclusive
  BY RegistryInitInv DEF Init, IInv
<1>2. QED
  BY <1>1, IdleCall DEF Init, CallsInOrder, LocksExclusive

\* A call stays in order while others leave alone what it has locked.
LEMMA CallKept ==
  ASSUME NEW q \in Workers, CallsInOrder, InOrder(calls[q]), calls'[q] = calls[q],
         \A c \in Customers :
           /\ customers[c] # "ABSENT" => customers'[c] # "ABSENT"
           /\ c \in calls[q].locked =>
                /\ customers'[c] = customers[c]
                /\ OwnsActiveVehicle(c)' => OwnsActiveVehicle(c),
         \A v \in Vehicles :
           /\ vehicles[v].status # "ABSENT" => vehicles'[v].status # "ABSENT"
           /\ v \in calls[q].locked => vehicles'[v] = vehicles[v]
  PROVE  InOrder(calls[q])'
<1>1. OnRoute(calls[q])'
  BY DEF InOrder, OnRoute
<1>2. RowsOnFile(calls[q])'
  BY DEF InOrder, RowsOnFile, PastJoin
<1>3. LocksHeld(calls[q])'
  BY DEF InOrder, LocksHeld, PastCustomer, PastVehicle, PastOwner
<1>4. CopiesTrue(calls[q])'
  <2>1. PastCustomer(calls[q]) =>
          calls[q].customer \in Customers /\ calls[q].customer \in calls[q].locked
    BY DEF InOrder, RowsOnFile, LocksHeld, PastCustomer, AsksCustomer
  <2>2. PastVehicle(calls[q]) =>
          calls[q].vehicle \in Vehicles /\ calls[q].vehicle \in calls[q].locked
    BY DEF InOrder, RowsOnFile, LocksHeld, PastVehicle, LocksVehicle
  <2>3. PastOwner(calls[q]) =>
          calls[q].owner \in Customers /\ calls[q].owner \in calls[q].locked
    BY DEF InOrder, RowsOnFile, LocksHeld, PastOwner, PastJoin
  <2>4. PastCustomer(calls[q])' <=> PastCustomer(calls[q])
    BY DEF PastCustomer
  <2>5. PastVehicle(calls[q])' <=> PastVehicle(calls[q])
    BY DEF PastVehicle
  <2>6. PastOwner(calls[q])' <=> PastOwner(calls[q])
    BY DEF PastOwner
  <2>7. calls[q].op = "deactivate_customer" /\ calls[q].at = "commit" =>
          PastCustomer(calls[q])
    BY DEF PastCustomer, CustomerFirst
  <2>8. calls[q].op = "deactivate_customer" /\ calls[q].at = "commit" /\ ~ calls[q].owns
          => ~ OwnsActiveVehicle(calls[q].customer)'
    BY <2>1, <2>7 DEF InOrder, CopiesTrue, OwnsActiveVehicle
  <2>9. QED
    BY <2>1, <2>2, <2>3, <2>4, <2>5, <2>6, <2>8 DEF InOrder, CopiesTrue
<1>5. QED
  BY <1>1, <1>2, <1>3, <1>4 DEF InOrder

\* The registry at rest, one call goes on.
LEMMA OneCallGoesOn ==
  ASSUME IInv, UNCHANGED registryVars, NEW p \in Workers,
         calls' \in [Workers -> Call],
         \A q \in Workers \ {p} : calls'[q] = calls[q],
         calls'[p] = Idle \/ InOrder(calls[p])',
         \A q \in Workers \ {p} : calls'[p].locked \cap calls[q].locked = {}
  PROVE  IInv'
<1>1. RegistryInv'
  BY RegistryStep DEF IInv
<1>2. ASSUME NEW q \in Workers, q # p, InOrder(calls[q]) PROVE InOrder(calls[q])'
  BY <1>2, CallKept DEF IInv, registryVars, OwnsActiveVehicle
<1>3. CallsInOrder'
  BY <1>2 DEF IInv, CallsInOrder
<1>4. LocksExclusive'
  BY DEF IInv, LocksExclusive
<1>5. QED
  BY <1>1, <1>3, <1>4 DEF IInv

\* Idle calls hold nothing.
LEMMA EndsKeeps ==
  ASSUME IInv, UNCHANGED registryVars, NEW p \in Workers, Ends(p)
  PROVE  IInv'
<1>1. calls' = [calls EXCEPT ![p] = Idle]
  BY DEF Ends, Ended
<1>2. calls' \in [Workers -> Call] /\ calls'[p] = Idle
  BY <1>1, IdleCall DEF IInv, CallsInOrder
<1>3. \A q \in Workers \ {p} : calls'[q] = calls[q]
  BY <1>1 DEF IInv, CallsInOrder
<1>4. QED
  BY <1>2, <1>3, IdleCall, OneCallGoesOn

\* A busy call is in order, and so is what it may have to wait for.
LEMMA BusyCall ==
  ASSUME IInv, NEW p \in Workers, Busy(p)
  PROVE  /\ calls[p] \in Call
         /\ InOrder(calls[p])
         /\ calls[p].at = "customer" =>
              calls[p].customer \in Customers /\ customers[calls[p].customer] \in Statuses
         /\ calls[p].at = "vehicle" =>
              calls[p].vehicle \in Vehicles /\ vehicles[calls[p].vehicle] \in Vehicle
         /\ calls[p].at = "owner" =>
              calls[p].owner \in Customers /\ customers[calls[p].owner] \in Statuses
<1>1. calls[p] \in Call /\ InOrder(calls[p])
  BY DEF IInv, CallsInOrder, Busy, Idle
<1>2. QED
  BY <1>1 DEF InOrder, OnRoute, RowsOnFile, PastJoin, IInv, RegistryInv, RegistryTypeOK

LEMMA LockCustomerKeeps ==
  ASSUME IInv, NEW p \in Workers, LockCustomer(p)
  PROVE  IInv'
<1> DEFINE k == calls[p]
<1>1. k \in Call /\ InOrder(k) /\ k.at = "customer"
  BY BusyCall DEF LockCustomer, At
<1>2. k.customer \in Customers /\ customers[k.customer] \in Statuses
  BY <1>1, BusyCall DEF LockCustomer, At
<1>3. calls' = [calls EXCEPT ![p] =
        [k EXCEPT !.locked = @ \cup {k.customer},
                  !.customerRow = customers[k.customer], !.at = After(k.op, k.at)]]
  BY <1>1 DEF LockCustomer, Proceeds, Locking, Call
<1>4. After(k.op, k.at) = IF k.op = "deactivate_customer" THEN "count"
                          ELSE IF k.op = "open_job_card" THEN "join" ELSE "commit"
  BY <1>1 DEF After
<1>5. calls' \in [Workers -> Call]
  BY <1>1, <1>2, <1>3, <1>4 DEF IInv, CallsInOrder, Call, Statements
<1>6. InOrder(k)'
  <2>1. /\ k'.op = k.op /\ k'.customer = k.customer /\ k'.vehicle = k.vehicle
        /\ k'.locked = k.locked \cup {k.customer} /\ k'.owner = k.owner
        /\ k'.customerRow = customers[k.customer] /\ k'.vehicleRow = k.vehicleRow
        /\ k'.at = After(k.op, k.at)
    BY <1>1, <1>3 DEF IInv, CallsInOrder, Call
  <2>2. UNCHANGED registryVars
    BY DEF LockCustomer, Proceeds
  <2> HIDE DEF k
  <2>3. QED
    BY <1>1, <1>2, <1>4, <2>1, <2>2
       DEF InOrder, OnRoute, Statements, RowsOnFile, LocksHeld, CopiesTrue,
           PastCustomer, PastJoin, PastVehicle, PastOwner, AsksCustomer, LocksVehicle, CustomerFirst, OwnerJoined,
           registryVars
<1>7. \A q \in Workers \ {p} :
        calls'[q] = calls[q] /\ k'.locked \cap calls[q].locked = {}
  BY <1>1, <1>3 DEF LockCustomer, Free, IInv, LocksExclusive, CallsInOrder, Call
<1>8. QED
  BY <1>5, <1>6, <1>7, OneCallGoesOn DEF LockCustomer, Proceeds

LEMMA SeeOwnerKeeps ==
  ASSUME IInv, NEW p \in Workers, SeeOwner(p)
  PROVE  IInv'
<1> DEFINE k == calls[p]
<1>1. k \in Call /\ InOrder(k) /\ k.at = "join"
  BY BusyCall DEF SeeOwner, At
<1>2. /\ vehicles[k.vehicle].owner \in Customers
      /\ customers[vehicles[k.vehicle].owner] # "ABSENT"
  BY <1>1 DEF InOrder, OnRoute, RowsOnFile, LocksVehicle, IInv, RegistryInv, RegistryTypeOK
<1>3. calls' = [calls EXCEPT ![p] =
        [k EXCEPT !.owner = vehicles[k.vehicle].owner, !.at = "vehicle"]]
  BY <1>1 DEF SeeOwner, Proceeds, After, Call
<1>4. calls' \in [Workers -> Call]
  BY <1>1, <1>2, <1>3 DEF IInv, CallsInOrder, Call, Statements
<1>5. InOrder(k)'
  <2>1. /\ k'.op = k.op /\ k'.customer = k.customer /\ k'.vehicle = k.vehicle
        /\ k'.locked = k.locked /\ k'.owner = vehicles[k.vehicle].owner
        /\ k'.customerRow = k.customerRow /\ k'.at = "vehicle"
    BY <1>1, <1>3 DEF IInv, CallsInOrder, Call
  <2>2. UNCHANGED registryVars
    BY DEF SeeOwner, Proceeds
  <2> HIDE DEF k
  <2>3. QED
    BY <1>1, <1>2, <2>1, <2>2
       DEF InOrder, OnRoute, Statements, RowsOnFile, LocksHeld, CopiesTrue,
           PastCustomer, PastJoin, PastVehicle, PastOwner, AsksCustomer, LocksVehicle, CustomerFirst, OwnerJoined,
           registryVars
<1>6. \A q \in Workers \ {p} :
        calls'[q] = calls[q] /\ k'.locked \cap calls[q].locked = {}
  BY <1>1, <1>3 DEF SeeOwner, IInv, LocksExclusive, CallsInOrder, Call
<1>7. QED
  BY <1>4, <1>5, <1>6, OneCallGoesOn DEF SeeOwner, Proceeds

LEMMA LockVehicleKeeps ==
  ASSUME IInv, NEW p \in Workers, LockVehicle(p)
  PROVE  IInv'
<1> DEFINE k == calls[p]
<1>1. k \in Call /\ InOrder(k) /\ k.at = "vehicle"
  BY BusyCall DEF LockVehicle, At
<1>2. k.vehicle \in Vehicles /\ vehicles[k.vehicle] \in Vehicle
  BY <1>1, BusyCall DEF LockVehicle, At
<1>3. calls' = [calls EXCEPT ![p] =
        [k EXCEPT !.locked = @ \cup {k.vehicle},
                  !.vehicleRow = vehicles[k.vehicle], !.at = After(k.op, k.at)]]
  BY <1>1 DEF LockVehicle, Proceeds, Locking, Call
<1>4. After(k.op, k.at) = IF k.op = "transfer_vehicle_ownership" THEN "customer"
                          ELSE IF k.op \in OwnerJoined THEN "owner" ELSE "commit"
  BY <1>1 DEF After
<1>5. calls' \in [Workers -> Call]
  BY <1>1, <1>2, <1>3, <1>4 DEF IInv, CallsInOrder, Call, Statements
<1>6. InOrder(k)'
  <2>1. /\ k'.op = k.op /\ k'.customer = k.customer /\ k'.vehicle = k.vehicle
        /\ k'.locked = k.locked \cup {k.vehicle} /\ k'.owner = k.owner
        /\ k'.vehicleRow = vehicles[k.vehicle] /\ k'.customerRow = k.customerRow
        /\ k'.at = After(k.op, k.at)
    BY <1>1, <1>3 DEF IInv, CallsInOrder, Call
  <2>2. UNCHANGED registryVars
    BY DEF LockVehicle, Proceeds
  <2> HIDE DEF k
  <2>3. QED
    BY <1>1, <1>2, <1>4, <2>1, <2>2
       DEF InOrder, OnRoute, Statements, RowsOnFile, LocksHeld, CopiesTrue,
           PastCustomer, PastJoin, PastVehicle, PastOwner, AsksCustomer, LocksVehicle, CustomerFirst, OwnerJoined,
           registryVars
<1>7. \A q \in Workers \ {p} :
        calls'[q] = calls[q] /\ k'.locked \cap calls[q].locked = {}
  BY <1>1, <1>3 DEF LockVehicle, Free, IInv, LocksExclusive, CallsInOrder, Call
<1>8. QED
  BY <1>5, <1>6, <1>7, OneCallGoesOn DEF LockVehicle, Proceeds

LEMMA LockOwnerKeeps ==
  ASSUME IInv, NEW p \in Workers, LockOwner(p)
  PROVE  IInv'
<1> DEFINE k == calls[p]
<1>1. k \in Call /\ InOrder(k) /\ k.at = "owner" /\ k.vehicleRow.owner = k.owner
  BY BusyCall DEF LockOwner, At, StillFits
<1>2. k.owner \in Customers /\ customers[k.owner] \in Statuses
  BY <1>1, BusyCall DEF LockOwner, At
<1>3. calls' = [calls EXCEPT ![p] =
        [k EXCEPT !.locked = @ \cup {k.owner},
                  !.ownerRow = customers[k.owner], !.at = "commit"]]
  BY <1>1 DEF LockOwner, Proceeds, Locking, Call, After
<1>4. calls' \in [Workers -> Call]
  BY <1>1, <1>2, <1>3 DEF IInv, CallsInOrder, Call, Statements
<1>5. InOrder(k)'
  <2>1. /\ k'.op = k.op /\ k'.customer = k.customer /\ k'.vehicle = k.vehicle
        /\ k'.locked = k.locked \cup {k.owner} /\ k'.owner = k.owner
        /\ k'.vehicleRow = k.vehicleRow /\ k'.customerRow = k.customerRow
        /\ k'.ownerRow = customers[k.owner] /\ k'.at = "commit"
    BY <1>1, <1>3 DEF IInv, CallsInOrder, Call
  <2>2. UNCHANGED registryVars
    BY DEF LockOwner, Proceeds
  <2> HIDE DEF k
  <2>3. QED
    BY <1>1, <1>2, <2>1, <2>2
       DEF InOrder, OnRoute, Statements, RowsOnFile, LocksHeld, CopiesTrue,
           PastCustomer, PastJoin, PastVehicle, PastOwner, AsksCustomer, LocksVehicle, CustomerFirst, OwnerJoined,
           registryVars
<1>6. \A q \in Workers \ {p} :
        calls'[q] = calls[q] /\ k'.locked \cap calls[q].locked = {}
  BY <1>1, <1>3 DEF LockOwner, Free, IInv, LocksExclusive, CallsInOrder, Call
<1>7. QED
  BY <1>4, <1>5, <1>6, OneCallGoesOn DEF LockOwner, Proceeds

LEMMA CountVehiclesKeeps ==
  ASSUME IInv, NEW p \in Workers, CountVehicles(p)
  PROVE  IInv'
<1> DEFINE k == calls[p]
<1>1. k \in Call /\ InOrder(k) /\ k.at = "count"
  BY BusyCall DEF CountVehicles, At
<1>2. calls' = [calls EXCEPT ![p] =
        [k EXCEPT !.owns = OwnsActiveVehicle(k.customer), !.at = "commit"]]
  BY <1>1 DEF CountVehicles, Proceeds, Call, After
<1>3. OwnsActiveVehicle(k.customer) \in BOOLEAN
  BY DEF OwnsActiveVehicle
<1>4. calls' \in [Workers -> Call]
  BY <1>1, <1>2, <1>3 DEF IInv, CallsInOrder, Call, Statements
<1>5. InOrder(k)'
  <2>1. /\ k'.op = k.op /\ k'.customer = k.customer /\ k'.vehicle = k.vehicle
        /\ k'.locked = k.locked /\ k'.owner = k.owner
        /\ k'.customerRow = k.customerRow /\ k'.at = "commit"
        /\ k'.owns = OwnsActiveVehicle(k.customer)
    BY <1>1, <1>2 DEF IInv, CallsInOrder, Call
  <2>2. UNCHANGED registryVars
    BY DEF CountVehicles, Proceeds
  <2>3. OwnsActiveVehicle(k.customer)' <=> OwnsActiveVehicle(k.customer)
    BY <2>1, <2>2 DEF OwnsActiveVehicle, registryVars
  <2> HIDE DEF k
  <2>4. k.op = "deactivate_customer"
    BY <1>1 DEF InOrder, OnRoute
  <2>5. QED
    BY <1>1, <2>1, <2>2, <2>3, <2>4
       DEF InOrder, OnRoute, Statements, RowsOnFile, LocksHeld, CopiesTrue,
           PastCustomer, PastJoin, PastVehicle, PastOwner, AsksCustomer, LocksVehicle, CustomerFirst, OwnerJoined,
           registryVars
<1>6. \A q \in Workers \ {p} :
        calls'[q] = calls[q] /\ k'.locked \cap calls[q].locked = {}
  BY <1>1, <1>2 DEF CountVehicles, IInv, LocksExclusive, CallsInOrder, Call
<1>7. QED
  BY <1>4, <1>5, <1>6, OneCallGoesOn DEF CountVehicles, Proceeds

LEMMA BeginKeeps ==
  ASSUME IInv, NEW p \in Workers,
         NEW op \in Services, NEW c \in Customers \cup {None}, NEW v \in Vehicles \cup {None},
         op \in AsksCustomer => c \in CustomersOnFile,
         op \in LocksVehicle => v \in VehiclesOnFile,
         op = "register_vehicle" => v \in Vehicles,
         Begin(p, op, c, v)
  PROVE  IInv'
<1> DEFINE k == calls[p]
<1>1. calls' = [calls EXCEPT ![p] =
        [Idle EXCEPT !.op = op, !.customer = c, !.vehicle = v, !.at = After(op, "begin")]]
  BY DEF Begin
<1>2. After(op, "begin") = IF op \in CustomerFirst THEN "customer"
                           ELSE IF op \in OwnerJoined THEN "join" ELSE "vehicle"
  BY DEF After
<1>3. calls' \in [Workers -> Call]
  BY <1>1, <1>2, IdleCall DEF IInv, CallsInOrder, Call, Statements
<1>4. InOrder(k)'
  <2>1. /\ k'.op = op /\ k'.customer = c /\ k'.vehicle = v /\ k'.locked = {}
        /\ k'.at = After(op, "begin")
    BY <1>1, IdleCall DEF IInv, CallsInOrder, Call
  <2>2. UNCHANGED registryVars
    BY DEF Begin
  <2> HIDE DEF k
  <2>3. op \in CustomerFirst \/ op \in LocksVehicle
    BY DEF Services, LocksVehicle
  <2>4. QED
    BY <1>2, <2>1, <2>2, <2>3
       DEF InOrder, OnRoute, Statements, RowsOnFile, LocksHeld, CopiesTrue,
           PastCustomer, PastJoin, PastVehicle, PastOwner, AsksCustomer, LocksVehicle,
           CustomerFirst, OwnerJoined, registryVars, CustomersOnFile, VehiclesOnFile
<1>5. \A q \in Workers \ {p} :
        calls'[q] = calls[q] /\ k'.locked \cap calls[q].locked = {}
  BY <1>1, IdleCall DEF IInv, CallsInOrder, Call
<1>6. QED
  BY <1>3, <1>4, <1>5, OneCallGoesOn DEF Begin

LEMMA RequestKeeps ==
  ASSUME IInv, NEW p \in Workers, Request(p)
  PROVE  IInv'
<1>1. PICK op \in Services, c \in Customers \cup {None}, v \in Vehicles \cup {None} :
        /\ op \in AsksCustomer => c \in CustomersOnFile
        /\ op \in LocksVehicle => v \in VehiclesOnFile
        /\ op = "register_vehicle" => v \in Vehicles
        /\ Begin(p, op, c, v)
  BY DEF Request, CustomerUpdate, CustomerDeactivate, CustomerReactivate, VehicleCreate,
         VehicleTransferOwner, JobCreate, VehicleUpdate, VehicleDeactivate,
         VehicleReactivate, Services, AsksCustomer, LocksVehicle, CustomerFirst,
         OwnerJoined, CustomersOnFile, VehiclesOnFile
<1>2. QED
  BY <1>1, BeginKeeps

\* A commit writes to rows its call has locked, or adds a row.
LEMMA CommitWithin ==
  ASSUME IInv, NEW p \in Workers, Commit(p)
  PROVE  /\ \A c \in Customers :
              /\ customers[c] # "ABSENT" => customers'[c] # "ABSENT"
              /\ c \notin calls[p].locked =>
                   /\ customers'[c] = customers[c]
                   /\ OwnsActiveVehicle(c)' => OwnsActiveVehicle(c)
         /\ \A v \in Vehicles :
              /\ vehicles[v].status # "ABSENT" => vehicles'[v].status # "ABSENT"
              /\ v \notin calls[p].locked /\ vehicles[v].status # "ABSENT" =>
                   vehicles'[v] = vehicles[v]
         /\ RegistryNext
<1> DEFINE k == calls[p]
<1>1. /\ k \in Call /\ InOrder(k) /\ k.at = "commit" /\ Accepted(p) /\ Unique(p)
      /\ Writes(p)
  BY BusyCall DEF Commit, At
<1>2. /\ customers \in [Customers -> Statuses] /\ vehicles \in [Vehicles -> Vehicle]
  BY DEF IInv, RegistryInv, RegistryTypeOK
<1>3. CASE k.op = "deactivate_customer"
  <2>1. k.customer \in Customers /\ k.customer \in k.locked /\ DeactivateCustomer(k.customer)
    BY <1>1, <1>3 DEF Accepted, Writes, InOrder, RowsOnFile, LocksHeld, CopiesTrue,
                      PastCustomer, CustomerFirst, AsksCustomer, DeactivateCustomer
  <2>2. QED
    BY <1>2, <2>1 DEF DeactivateCustomer, CustomerBecomes, RegistryNext, OwnsActiveVehicle
<1>4. CASE k.op = "reactivate_customer"
  <2>1. k.customer \in Customers /\ k.customer \in k.locked /\ ReactivateCustomer(k.customer)
    BY <1>1, <1>4 DEF Accepted, Writes, InOrder, RowsOnFile, LocksHeld, CopiesTrue,
                      PastCustomer, CustomerFirst, AsksCustomer, ReactivateCustomer
  <2>2. QED
    BY <1>2, <2>1 DEF ReactivateCustomer, CustomerBecomes, RegistryNext, OwnsActiveVehicle
<1>5. CASE k.op = "register_vehicle"
  <2>1. /\ k.customer \in Customers /\ k.customer \in k.locked /\ k.vehicle \in Vehicles
        /\ RegisterVehicle(k.vehicle, k.customer)
    BY <1>1, <1>5 DEF Accepted, Unique, Writes, InOrder, RowsOnFile, LocksHeld, CopiesTrue,
                      PastCustomer, CustomerFirst, AsksCustomer, RegisterVehicle
  <2>2. /\ customers' = customers
        /\ vehicles[k.vehicle].status = "ABSENT"
        /\ vehicles' = [vehicles EXCEPT
             ![k.vehicle] = [status |-> "ACTIVE", owner |-> k.customer]]
    BY <2>1 DEF RegisterVehicle, VehicleAdded, NoVehicle
  <2>3. ASSUME NEW c \in Customers, c \notin k.locked, OwnsActiveVehicle(c)'
        PROVE  OwnsActiveVehicle(c)
    <3>1. PICK v \in Vehicles : vehicles'[v] = [status |-> "ACTIVE", owner |-> c]
      BY <2>3 DEF OwnsActiveVehicle
    <3>2. v # k.vehicle
      BY <1>2, <2>1, <2>2, <2>3, <3>1
    <3>3. QED
      BY <1>2, <2>2, <3>1, <3>2 DEF OwnsActiveVehicle
  <2>4. \A v \in Vehicles : vehicles[v].status # "ABSENT" => vehicles'[v] = vehicles[v]
    BY <1>2, <2>1, <2>2
  <2>5. QED
    BY <2>1, <2>2, <2>3, <2>4 DEF RegistryNext
<1>6. CASE k.op = "deactivate_vehicle"
  <2>1. k.vehicle \in Vehicles /\ k.vehicle \in k.locked /\ DeactivateVehicle(k.vehicle)
    BY <1>1, <1>6 DEF Accepted, Writes, InOrder, RowsOnFile, LocksHeld, CopiesTrue,
                      PastVehicle, LocksVehicle, DeactivateVehicle
  <2>2. QED
    BY <1>2, <2>1 DEF DeactivateVehicle, VehicleBecomes, RegistryNext, OwnsActiveVehicle,
                      Vehicle
<1>7. CASE k.op = "reactivate_vehicle"
  <2>1. /\ k.vehicle \in Vehicles /\ k.vehicle \in k.locked
        /\ vehicles[k.vehicle].owner \in k.locked
        /\ ReactivateVehicle(k.vehicle)
    BY <1>1, <1>7 DEF Accepted, Writes, InOrder, RowsOnFile, LocksHeld, CopiesTrue,
                      PastVehicle, PastOwner, PastJoin, LocksVehicle, OwnerJoined,
                      ReactivateVehicle
  <2>2. QED
    BY <1>2, <2>1 DEF ReactivateVehicle, VehicleBecomes, RegistryNext, OwnsActiveVehicle,
                      Vehicle
<1>8. CASE k.op = "transfer_vehicle_ownership"
  <2>1. /\ k.customer \in Customers /\ k.customer \in k.locked
        /\ k.vehicle \in Vehicles /\ k.vehicle \in k.locked
        /\ TransferVehicleOwnership(k.vehicle, k.customer)
    BY <1>1, <1>8 DEF Accepted, Writes, InOrder, RowsOnFile, LocksHeld, CopiesTrue,
                      PastVehicle, PastCustomer, LocksVehicle, AsksCustomer,
                      TransferVehicleOwnership
  <2>2. QED
    BY <1>2, <2>1 DEF TransferVehicleOwnership, VehicleMoved, RegistryNext,
                      OwnsActiveVehicle, Vehicle
<1>9. CASE k.op = "open_job_card"
  <2>1. k.vehicle \in Vehicles /\ k.customer \in Customers /\ OpenJobCard(k.vehicle, k.customer)
    <3>1. /\ k.vehicle \in Vehicles /\ k.customer \in Customers
          /\ customers[k.customer] = "ACTIVE" /\ jobs[k.vehicle] = None
          /\ k.vehicleRow = vehicles[k.vehicle]
          /\ k.vehicleRow.status = "ACTIVE" /\ k.vehicleRow.owner = k.customer
      BY <1>1, <1>9 DEF Accepted, Unique, InOrder, RowsOnFile, CopiesTrue, PastVehicle,
                        PastCustomer, LocksVehicle, OwnerJoined, AsksCustomer, CustomerFirst
    <3>2. vehicles[k.vehicle] = [status |-> "ACTIVE", owner |-> k.customer]
      BY <1>2, <3>1 DEF Vehicle
    <3>3. JobBecomes(k.vehicle, k.customer)
      BY <1>1, <1>9 DEF Writes
    <3>4. QED
      BY <3>1, <3>2, <3>3 DEF OpenJobCard
  <2>2. QED
    BY <2>1 DEF OpenJobCard, JobBecomes, RegistryNext, OwnsActiveVehicle
<1>10. QED
  BY <1>1, <1>3, <1>4, <1>5, <1>6, <1>7, <1>8, <1>9 DEF Accepted

LEMMA CommitKeeps ==
  ASSUME IInv, NEW p \in Workers, Commit(p)
  PROVE  IInv'
<1>1. calls' = [calls EXCEPT ![p] = Idle]
  BY DEF Commit, Ends, Ended
<1>2. /\ calls' \in [Workers -> Call]
      /\ calls'[p] = Idle
      /\ \A q \in Workers \ {p} : calls'[q] = calls[q]
  BY <1>1, IdleCall DEF IInv, CallsInOrder
<1>3. RegistryInv'
  BY CommitWithin, RegistryStep DEF IInv
<1>4. ASSUME NEW q \in Workers, q # p, InOrder(calls[q])
      PROVE  InOrder(calls[q])'
  <2>1. calls[p].locked \cap calls[q].locked = {}
    BY <1>4 DEF IInv, LocksExclusive
  <2>2. \A v \in Vehicles : v \in calls[q].locked => vehicles[v].status # "ABSENT"
    BY <1>4, RegistryAssumption
       DEF InOrder, LocksHeld, RowsOnFile, PastCustomer, PastVehicle, PastOwner, PastJoin,
           AsksCustomer, LocksVehicle
  <2>3. QED
    BY <1>2, <1>4, <2>1, <2>2, CommitWithin, CallKept DEF IInv
<1>5. CallsInOrder'
  BY <1>2, <1>4 DEF IInv, CallsInOrder
<1>6. LocksExclusive'
  BY <1>2, IdleCall DEF IInv, LocksExclusive
<1>7. QED
  BY <1>3, <1>5, <1>6 DEF IInv

\* A customer added, a job ended: no call is concerned.
LEMMA RestKeeps ==
  ASSUME IInv, UNCHANGED calls,
         \/ \E c \in Customers : RegisterCustomer(c)
         \/ \E v \in Vehicles : JobEnds(v)
  PROVE  IInv' /\ RegistryNext
<1>1. RegistryNext
  BY DEF RegistryNext
<1>2. RegistryInv'
  BY <1>1, RegistryStep DEF IInv
<1>3. /\ vehicles' = vehicles
      /\ \A c \in Customers : customers[c] # "ABSENT" => customers'[c] = customers[c]
  BY DEF RegisterCustomer, CustomerBecomes, JobEnds, JobBecomes, IInv, RegistryInv,
         RegistryTypeOK
<1>4. ASSUME NEW q \in Workers, InOrder(calls[q])
      PROVE  InOrder(calls[q])'
  <2>1. \A c \in Customers : c \in calls[q].locked => customers[c] # "ABSENT"
    BY <1>4, RegistryAssumption
       DEF InOrder, LocksHeld, RowsOnFile, PastCustomer, PastVehicle, PastOwner, PastJoin,
           AsksCustomer, LocksVehicle
  <2>2. \A c \in Customers : OwnsActiveVehicle(c)' <=> OwnsActiveVehicle(c)
    BY <1>3 DEF OwnsActiveVehicle
  <2>3. QED
    BY <1>3, <1>4, <2>1, <2>2, CallKept DEF IInv
<1>5. QED
  BY <1>1, <1>2, <1>4 DEF IInv, CallsInOrder, LocksExclusive

LEMMA StepKeeps ==
  ASSUME IInv, NEW p \in Workers, Request(p) \/ Step(p) \/ AbortVictim(p)
  PROVE  IInv' /\ [RegistryNext]_registryVars
<1>1. CASE Request(p)
  <2>1. UNCHANGED registryVars
    BY <1>1 DEF Request, CustomerUpdate, CustomerDeactivate, CustomerReactivate,
                VehicleCreate, VehicleTransferOwner, JobCreate, VehicleUpdate,
                VehicleDeactivate, VehicleReactivate, Begin
  <2>2. QED
    BY <1>1, <2>1, RequestKeeps
<1>2. CASE LockCustomer(p)
  BY <1>2, LockCustomerKeeps DEF LockCustomer, Proceeds
<1>3. CASE SeeOwner(p)
  BY <1>3, SeeOwnerKeeps DEF SeeOwner, Proceeds
<1>4. CASE LockVehicle(p)
  BY <1>4, LockVehicleKeeps DEF LockVehicle, Proceeds
<1>5. CASE LockOwner(p)
  BY <1>5, LockOwnerKeeps DEF LockOwner, Proceeds
<1>6. CASE CountVehicles(p)
  BY <1>6, CountVehiclesKeeps DEF CountVehicles, Proceeds
<1>7. CASE Commit(p)
  BY <1>7, CommitKeeps, CommitWithin
<1>8. CASE FindNothing(p) \/ Leave(p) \/ AbortVictim(p)
  BY <1>8, EndsKeeps DEF FindNothing, Leave, AbortVictim
<1>9. QED
  BY <1>1, <1>2, <1>3, <1>4, <1>5, <1>6, <1>7, <1>8 DEF Step

LEMMA NextKeeps ==
  ASSUME IInv, [Next]_vars
  PROVE  IInv' /\ [RegistryNext]_registryVars
<1>1. CASE UNCHANGED vars
  <2>1. UNCHANGED registryVars /\ RegistryInv'
    BY <1>1, RegistryStep DEF vars, registryVars, IInv
  <2>2. \A q \in Workers : InOrder(calls[q]) => InOrder(calls[q])'
    BY <1>1, <2>1, CallKept DEF vars, IInv, OwnsActiveVehicle
  <2>3. QED
    BY <1>1, <2>1, <2>2 DEF vars, IInv, CallsInOrder, LocksExclusive
<1>2. CASE \E p \in Workers : Request(p) \/ Step(p) \/ AbortVictim(p)
  BY <1>2, StepKeeps
<1>3. CASE \E u \in Staff, c \in Customers : CustomerCreate(u, c)
  BY <1>3, RestKeeps DEF CustomerCreate
<1>4. CASE \E v \in Vehicles : JobEnds(v) /\ UNCHANGED calls
  BY <1>4, RestKeeps
<1>5. QED
  BY <1>1, <1>2, <1>3, <1>4 DEF Next

-----------------------------------------------------------------------------
(* Theorems of the services, statement by statement *)

\* Every call stands at a statement of its service, holds the locks of those
\* behind it, and has true copies of the rows it locked.
THEOREM CallsStayInOrder == Spec => []IInv
  BY InitInv, NextKeeps, PTL DEF Spec

\* However the statements interleave, the services implement the atomic ones.
THEOREM CallsImplementRegistry == Spec => ImplementsRegistry
<1>1. Init => RegistryInit
  BY DEF Init
<1>2. IInv /\ [Next]_vars => [RegistryNext]_registryVars
  BY NextKeeps
<1>3. QED
  BY <1>1, <1>2, CallsStayInOrder, PTL DEF Spec, ImplementsRegistry, RegistrySpec

\* Active vehicles have active owners, and the open ownership period is the
\* owner's, between any two statements of any calls.
THEOREM OwnersStayInOrder == Spec => []OwnersInOrder
  BY CallsImplementRegistry, RegistryInOrder, PTL DEF ImplementsRegistry

\* In a circle without an intake, everybody holds one row and waits for
\* another: a vehicle held and a customer waited for.  Nobody holds a customer.
THEOREM OnlyIntakeDeadlocks == Spec => []DeadlocksNeedIntake
<1>1. IInv => DeadlocksNeedIntake
  <2>1. SUFFICES ASSUME IInv, NEW S \in SUBSET Workers, Circle(S), NEW p \in S,
                        \A q \in S : calls[q].op # "open_job_card"
                 PROVE  FALSE
    BY DEF DeadlocksNeedIntake
  <2>2. ASSUME NEW q \in S
        PROVE  /\ Busy(q) /\ Wanted(q) # {} /\ InOrder(calls[q])
               /\ calls[q].locked # {}
    BY <2>1, BusyCall DEF Circle, WaitsFor, Wanted, At
  <2>3. ASSUME NEW q \in S
        PROVE  /\ Wanted(q) \subseteq Customers
               /\ calls[q].vehicle \in Vehicles /\ calls[q].locked \subseteq {calls[q].vehicle}
    <3>1. \/ calls[q].op = "transfer_vehicle_ownership" /\ calls[q].at = "customer"
          \/ calls[q].op = "reactivate_vehicle" /\ calls[q].at = "owner"
      BY <2>1, <2>2
         DEF Wanted, At, InOrder, OnRoute, LocksHeld, PastCustomer, PastVehicle, PastOwner,
             CustomerFirst, OwnerJoined, LocksVehicle, AsksCustomer
    <3>2. QED
      BY <2>2, <3>1
         DEF Wanted, At, InOrder, RowsOnFile, LocksHeld, PastCustomer, PastVehicle, PastOwner,
             PastJoin, CustomerFirst, OwnerJoined, LocksVehicle, AsksCustomer
  <2>4. PICK q \in S : Wanted(p) \cap calls[q].locked # {}
    BY <2>1 DEF Circle, WaitsFor
  <2>5. QED
    BY <2>3, <2>4, RegistryAssumption
<1>2. QED
  BY <1>1, CallsStayInOrder, PTL

-----------------------------------------------------------------------------
(* No call is stranded *)

\* One of the statements of Step can be carried out, by its guard.
CanStep(p) ==
  \/ At(p, "customer") /\ Free(p, calls[p].customer)
  \/ At(p, "vehicle") /\ Free(p, calls[p].vehicle)
  \/ At(p, "owner") /\ (StillFits(p) => Free(p, calls[p].owner))
  \/ At(p, "join") \/ At(p, "count") \/ At(p, "commit")

CanAbort == \E S \in SUBSET Workers : S # {} /\ Circle(S)

AnyBusy  == \E p \in Workers : Busy(p)
NoIntake == \A p \in Workers : calls[p].op # "open_job_card"

SomeCallMoves == AnyBusy => (\E p \in Workers : CanStep(p)) \/ CanAbort

\* Everybody in S waits for somebody in S.
Stuck(S) == \A p \in S : \E q \in S : WaitsFor(p, q)

\* Who cannot go on waits for a call that is being served.
LEMMA StrandedWaits ==
  ASSUME IInv, NEW p \in Workers, Busy(p), ~ CanStep(p)
  PROVE  \E q \in Workers : Busy(q) /\ WaitsFor(p, q)
<1>1. OnRoute(calls[p])
  BY BusyCall DEF InOrder
<1>2. PICK row \in Wanted(p) : ~ Free(p, row)
  BY <1>1 DEF OnRoute, Statements, CanStep, At, Wanted
<1>3. PICK q \in Workers \ {p} : row \in calls[q].locked
  BY <1>2 DEF Free
<1>4. Busy(q)
  BY <1>3, IdleCall DEF IInv, CallsInOrder, InOrder, OnRoute, Busy, Services,
                        CustomerFirst, OwnerJoined
<1>5. QED
  BY <1>2, <1>3, <1>4 DEF WaitsFor

\* A smallest set of calls that wait for each other is a circle: one that
\* nobody waited for could be left out.
LEMMA StuckCircle ==
  ASSUME IsFiniteSet(Workers), NEW B \in SUBSET Workers, B # {}, Stuck(B)
  PROVE  CanAbort
<1> DEFINE Closed == {S \in SUBSET Workers : S # {} /\ Stuck(S)}
           Sizes  == {Cardinality(S) : S \in Closed}
<1>1. ASSUME NEW S \in SUBSET Workers
      PROVE  IsFiniteSet(S) /\ Cardinality(S) \in Nat
  BY <1>1, FS_Subset, FS_CardinalityType
<1>2. Sizes \in SUBSET Nat /\ Sizes # {}
  BY <1>1
<1>3. PICK S \in Closed : \A T \in Closed : Cardinality(S) <= Cardinality(T)
  <2> HIDE DEF Closed
  <2>1. PICK n \in Sizes : \A m \in Sizes : n <= m
    BY <1>2, LeastNumber
  <2>2. QED
    BY <2>1
<1>4. ASSUME NEW p \in S, \A q \in S : ~ WaitsFor(q, p)
      PROVE  FALSE
  <2>1. PICK q \in S : WaitsFor(p, q)
    BY DEF Stuck
  <2>2. q # p
    BY <2>1 DEF WaitsFor
  <2>3. S \ {p} \in Closed
    BY <1>4, <2>2 DEF Stuck
  <2>4. Cardinality(S \ {p}) = Cardinality(S) - 1
    BY <1>1, FS_RemoveElement
  <2>5. QED
    BY <1>1, <1>3, <2>3, <2>4
<1>5. Circle(S)
  BY <1>4 DEF Circle, Stuck
<1>6. QED
  BY <1>5 DEF CanAbort

\* As long as calls are being served, one of them can carry out its next
\* statement, or some wait in a circle, of which the database aborts one:
\* nobody waits for a lock that nothing will ever give back.
THEOREM NobodyIsStranded ==
  ASSUME IsFiniteSet(Workers)
  PROVE  Spec => []SomeCallMoves
<1>1. IInv => SomeCallMoves
  <2> DEFINE B == {p \in Workers : Busy(p)}
  <2>1. SUFFICES ASSUME IInv, B # {}, \A p \in Workers : ~ CanStep(p)
                 PROVE  CanAbort
    BY DEF SomeCallMoves, AnyBusy
  <2>2. Stuck(B)
    BY <2>1, StrandedWaits DEF Stuck
  <2>3. QED
    BY <2>1, <2>2, StuckCircle
<1>2. QED
  BY <1>1, CallsStayInOrder, PTL

\* While no job card is being opened the calls never wait in circles, so one
\* of them can always carry out its next statement.
THEOREM WithoutIntakeSomeoneMoves ==
  ASSUME IsFiniteSet(Workers)
  PROVE  Spec => [](AnyBusy /\ NoIntake => \E p \in Workers : CanStep(p))
<1>1. SomeCallMoves /\ DeadlocksNeedIntake =>
        (AnyBusy /\ NoIntake => \E p \in Workers : CanStep(p))
  BY DEF SomeCallMoves, AnyBusy, NoIntake, CanAbort, DeadlocksNeedIntake
<1>2. QED
  BY <1>1, NobodyIsStranded, OnlyIntakeDeadlocks, PTL

\* How many statements a call has before it, the one it is at included.
StatementsLeft(k) ==
  IF k.op = "none" THEN 0
  ELSE IF k.at = "commit" THEN 1
  ELSE IF k.at = "join" THEN 4
  ELSE IF k.at = "customer" THEN
         IF k.op = "open_job_card" THEN 5
         ELSE IF k.op = "deactivate_customer" THEN 3 ELSE 2
  ELSE IF k.at = "vehicle" THEN
         IF k.op \in OwnerJoined \cup {"transfer_vehicle_ownership"} THEN 3 ELSE 2
  ELSE 2

StatementsRunOut ==
  [][\A p \in Workers :
       /\ Step(p) => StatementsLeft(calls'[p]) < StatementsLeft(calls[p])
       /\ AbortVictim(p) => StatementsLeft(calls'[p]) = 0
       /\ Busy(p) => StatementsLeft(calls'[p]) <= StatementsLeft(calls[p])]_vars

\* A call that goes on goes on with the statement that follows.
LEMMA GoesOn ==
  ASSUME IInv, NEW p \in Workers,
         LockCustomer(p) \/ SeeOwner(p) \/ LockVehicle(p) \/ LockOwner(p) \/ CountVehicles(p)
  PROVE  /\ Busy(p)
         /\ calls[p].at \in {"customer", "join", "vehicle", "owner", "count"}
         /\ calls'[p].op = calls[p].op
         /\ calls'[p].at = After(calls[p].op, calls[p].at)
         /\ \A q \in Workers \ {p} : calls'[q] = calls[q]
<1>1. Busy(p) /\ calls[p].at \in {"customer", "join", "vehicle", "owner", "count"}
  BY DEF LockCustomer, SeeOwner, LockVehicle, LockOwner, CountVehicles, At
<1>2. calls[p] \in Call /\ calls \in [Workers -> Call]
  BY <1>1, BusyCall DEF IInv, CallsInOrder
<1>3. CASE LockCustomer(p)
  BY <1>1, <1>2, <1>3 DEF LockCustomer, Proceeds, Locking, Call
<1>4. CASE SeeOwner(p)
  BY <1>1, <1>2, <1>4 DEF SeeOwner, Proceeds, Call
<1>5. CASE LockVehicle(p)
  BY <1>1, <1>2, <1>5 DEF LockVehicle, Proceeds, Locking, Call
<1>6. CASE LockOwner(p)
  BY <1>1, <1>2, <1>6 DEF LockOwner, Proceeds, Locking, Call
<1>7. CASE CountVehicles(p)
  BY <1>1, <1>2, <1>7 DEF CountVehicles, Proceeds, Call
<1>8. QED
  BY <1>3, <1>4, <1>5, <1>6, <1>7

\* A call that ends leaves the worker idle.
LEMMA EndsIdle ==
  ASSUME IInv, NEW p \in Workers, Ends(p)
  PROVE  calls'[p] = Idle /\ \A q \in Workers \ {p} : calls'[q] = calls[q]
  BY DEF IInv, CallsInOrder, Ends, Ended

LEMMA StatementsCounted ==
  ASSUME NEW k
  PROVE  StatementsLeft(k) \in 0..5 /\ (k.op # "none" <=> StatementsLeft(k) > 0)
BY DEF StatementsLeft

\* The statement carried out is one less.
LEMMA OneLess ==
  ASSUME IInv, NEW p \in Workers, Step(p)
  PROVE  /\ StatementsLeft(calls'[p]) < StatementsLeft(calls[p])
         /\ \A q \in Workers \ {p} : calls'[q] = calls[q]
<1>1. CASE LockCustomer(p) \/ SeeOwner(p) \/ LockVehicle(p) \/ LockOwner(p)
           \/ CountVehicles(p)
  <2> DEFINE k == calls[p]
             n == calls'[p]
  <2>1. OnRoute(k) /\ n.op = k.op /\ n.at = After(k.op, k.at)
    BY <1>1, GoesOn, BusyCall DEF InOrder
  <2> HIDE DEF k, n
  <2>2. k.at \in {"customer", "join", "vehicle", "owner", "count"}
    BY <1>1, GoesOn DEF k
  <2>3. ASSUME k.at = "customer" PROVE StatementsLeft(n) < StatementsLeft(k)
    BY <2>1, <2>3 DEF StatementsLeft, After, OnRoute, Services, AsksCustomer, CustomerFirst,
                      OwnerJoined
  <2>4. ASSUME k.at = "vehicle" PROVE StatementsLeft(n) < StatementsLeft(k)
    BY <2>1, <2>4 DEF StatementsLeft, After, OnRoute, Services, LocksVehicle, CustomerFirst,
                      OwnerJoined
  <2>5. ASSUME k.at \in {"join", "owner", "count"} PROVE StatementsLeft(n) < StatementsLeft(k)
    BY <2>1, <2>5 DEF StatementsLeft, After, OnRoute, Services, CustomerFirst, OwnerJoined
  <2>6. StatementsLeft(n) < StatementsLeft(k)
    BY <2>2, <2>3, <2>4, <2>5
  <2>7. QED
    BY <1>1, <2>6, GoesOn DEF k, n
<1>2. CASE FindNothing(p) \/ Commit(p) \/ Leave(p)
  <2>1. Busy(p) /\ Ends(p)
    BY <1>2 DEF FindNothing, Commit, Leave, At
  <2>2. calls'[p].op = "none"
    BY <2>1, EndsIdle DEF Idle
  <2>3. StatementsLeft(calls'[p]) = 0
    BY <2>2 DEF StatementsLeft
  <2>4. QED
    BY <2>1, <2>3, EndsIdle, StatementsCounted DEF Busy
<1>3. QED
  BY <1>1, <1>2 DEF Step

\* No call goes round in its statements: each it carries out leaves fewer,
\* of five at most, and nothing that others do leaves more.  So a call that is
\* not kept waiting for ever returns.
THEOREM CallsRunOut == Spec => StatementsRunOut
<1>1. ASSUME IInv, NEW p \in Workers, AbortVictim(p)
      PROVE  /\ StatementsLeft(calls'[p]) = 0
             /\ \A q \in Workers \ {p} : calls'[q] = calls[q]
  <2>1. calls'[p].op = "none" /\ \A q \in Workers \ {p} : calls'[q] = calls[q]
    BY <1>1, EndsIdle DEF AbortVictim, Idle
  <2>2. QED
    BY <2>1 DEF StatementsLeft
<1>2. ASSUME IInv, NEW p \in Workers, Request(p)
      PROVE  ~ Busy(p) /\ \A q \in Workers \ {p} : calls'[q] = calls[q]
  <2>1. PICK op \in Services, c \in Customers \cup {None}, v \in Vehicles \cup {None} :
          Begin(p, op, c, v)
    BY <1>2 DEF Request, CustomerUpdate, CustomerDeactivate, CustomerReactivate,
                VehicleCreate, VehicleTransferOwner, JobCreate, VehicleUpdate,
                VehicleDeactivate, VehicleReactivate, Services, CustomerFirst, OwnerJoined,
                CustomersOnFile, VehiclesOnFile
  <2>2. QED
    BY <1>2, <2>1 DEF Begin, IInv, CallsInOrder
<1>3. ASSUME IInv, [Next]_vars, NEW p \in Workers, Busy(p)
      PROVE  StatementsLeft(calls'[p]) <= StatementsLeft(calls[p])
  <2>1. StatementsLeft(calls[p]) \in 0..5 /\ StatementsLeft(calls'[p]) \in 0..5
    BY StatementsCounted
  <2>2. CASE UNCHANGED calls
    BY <2>1, <2>2
  <2>3. CASE \E q \in Workers : Request(q) \/ Step(q) \/ AbortVictim(q)
    <3>1. PICK q \in Workers : Request(q) \/ Step(q) \/ AbortVictim(q)
      BY <2>3
    <3>2. CASE q = p
      BY <1>1, <1>2, <1>3, <2>1, <3>1, <3>2, OneLess
    <3>3. CASE q # p
      BY <1>1, <1>2, <1>3, <2>1, <3>1, <3>3, OneLess
    <3>4. QED
      BY <3>2, <3>3
  <2>4. QED
    BY <1>3, <2>2, <2>3 DEF Next, CustomerCreate, vars
<1>4. IInv /\ [Next]_vars =>
        [\A p \in Workers :
           /\ Step(p) => StatementsLeft(calls'[p]) < StatementsLeft(calls[p])
           /\ AbortVictim(p) => StatementsLeft(calls'[p]) = 0
           /\ Busy(p) => StatementsLeft(calls'[p]) <= StatementsLeft(calls[p])]_vars
  BY <1>1, <1>3, OneLess
<1>5. QED
  BY <1>4, CallsStayInOrder, PTL DEF Spec, StatementsRunOut

=============================================================================
