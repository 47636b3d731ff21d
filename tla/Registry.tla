------------------------------ MODULE Registry ------------------------------
(***************************************************************************)
(* Who brings what to the garage (apps/customers, apps/vehicles): the      *)
(* customers, their vehicles, the periods for which they owned them, and   *)
(* whether a vehicle is in for a job (apps/jobs/services/intake.py).       *)
(*                                                                         *)
(* Each service is one action here, as the transaction it is written as.   *)
(* RegistryCalls takes the services apart into their statements.  Left out *)
(* are names, numbers and descriptions; the mileage is in JobFile.         *)
(***************************************************************************)
CONSTANTS Customers, Vehicles, None

\* Rows of two tables are different rows.
ASSUME RegistryAssumption ==
  None \notin Customers \cup Vehicles /\ Customers \cap Vehicles = {}

VARIABLES
  customers,    \* customer -> its status
  vehicles,     \* vehicle -> its row
  ownerships,   \* vehicle -> owners of its periods that have not ended
  jobs          \* vehicle -> the customer of its active job card

registryVars == <<customers, vehicles, ownerships, jobs>>

Statuses == {"ABSENT", "ACTIVE", "INACTIVE"}

Vehicle == [status : Statuses, owner : Customers \cup {None}]

NoVehicle == [status |-> "ABSENT", owner |-> None]

-----------------------------------------------------------------------------
(* What each service writes *)

CustomerBecomes(c, status) ==
  /\ customers' = [customers EXCEPT ![c] = status]
  /\ UNCHANGED <<vehicles, ownerships, jobs>>

VehicleBecomes(v, status) ==
  /\ vehicles' = [vehicles EXCEPT ![v].status = status]
  /\ UNCHANGED <<customers, ownerships, jobs>>

VehicleAdded(v, c) ==
  /\ vehicles' = [vehicles EXCEPT ![v] = [status |-> "ACTIVE", owner |-> c]]
  /\ ownerships' = [ownerships EXCEPT ![v] = {c}]
  /\ UNCHANGED <<customers, jobs>>

\* The open period is ended; the new owner's begins.
PeriodsOnceMoved(v, c) == (ownerships[v] \ {vehicles[v].owner}) \cup {c}

VehicleMoved(v, c) ==
  /\ vehicles' = [vehicles EXCEPT ![v].owner = c]
  /\ ownerships' = [ownerships EXCEPT ![v] = PeriodsOnceMoved(v, c)]
  /\ UNCHANGED <<customers, jobs>>

JobBecomes(v, c) ==
  /\ jobs' = [jobs EXCEPT ![v] = c]
  /\ UNCHANGED <<customers, vehicles, ownerships>>

-----------------------------------------------------------------------------
(* The services *)

RegisterCustomer(c) ==
  customers[c] = "ABSENT" /\ CustomerBecomes(c, "ACTIVE")

OwnsActiveVehicle(c) ==
  \E v \in Vehicles : vehicles[v] = [status |-> "ACTIVE", owner |-> c]

DeactivateCustomer(c) ==
  /\ customers[c] = "ACTIVE"
  /\ ~ OwnsActiveVehicle(c)
  /\ CustomerBecomes(c, "INACTIVE")

ReactivateCustomer(c) ==
  customers[c] = "INACTIVE" /\ CustomerBecomes(c, "ACTIVE")

RegisterVehicle(v, c) ==
  /\ vehicles[v] = NoVehicle
  /\ customers[c] = "ACTIVE"
  /\ VehicleAdded(v, c)

\* A job card of the vehicle does not stand in the way.
DeactivateVehicle(v) ==
  vehicles[v].status = "ACTIVE" /\ VehicleBecomes(v, "INACTIVE")

ReactivateVehicle(v) ==
  /\ vehicles[v].status = "INACTIVE"
  /\ customers[vehicles[v].owner] = "ACTIVE"
  /\ VehicleBecomes(v, "ACTIVE")

TransferVehicleOwnership(v, c) ==
  /\ vehicles[v].status = "ACTIVE"
  /\ vehicles[v].owner # c
  /\ customers[c] = "ACTIVE"
  /\ VehicleMoved(v, c)

OpenJobCard(v, c) ==
  /\ customers[c] = "ACTIVE"
  /\ vehicles[v] = [status |-> "ACTIVE", owner |-> c]
  /\ jobs[v] = None
  /\ JobBecomes(v, c)

\* The job is cancelled or the vehicle released (JobFile).
JobEnds(v) == jobs[v] # None /\ JobBecomes(v, None)

-----------------------------------------------------------------------------

RegistryInit ==
  /\ customers  = [c \in Customers |-> "ABSENT"]
  /\ vehicles   = [v \in Vehicles |-> NoVehicle]
  /\ ownerships = [v \in Vehicles |-> {}]
  /\ jobs       = [v \in Vehicles |-> None]

RegistryNext ==
  \/ \E c \in Customers :
       RegisterCustomer(c) \/ DeactivateCustomer(c) \/ ReactivateCustomer(c)
  \/ \E v \in Vehicles :
       \/ DeactivateVehicle(v) \/ ReactivateVehicle(v) \/ JobEnds(v)
       \/ \E c \in Customers :
            \/ RegisterVehicle(v, c)
            \/ TransferVehicleOwnership(v, c)
            \/ OpenJobCard(v, c)

RegistrySpec == RegistryInit /\ [][RegistryNext]_registryVars

-----------------------------------------------------------------------------
(* Properties *)

\* Tables hold well-formed rows; every vehicle on file has an owner on file.
RegistryTypeOK ==
  /\ customers \in [Customers -> Statuses]
  /\ vehicles \in [Vehicles -> Vehicle]
  /\ ownerships \in [Vehicles -> SUBSET Customers]
  /\ jobs \in [Vehicles -> Customers \cup {None}]
  /\ \A v \in Vehicles :
       vehicles[v].status # "ABSENT"
         => /\ vehicles[v].owner \in Customers
            /\ customers[vehicles[v].owner] # "ABSENT"

ActiveOwners ==
  \A v \in Vehicles :
    vehicles[v].status = "ACTIVE" => customers[vehicles[v].owner] = "ACTIVE"

OneOpenPeriod ==
  \A v \in Vehicles :
    ownerships[v] = IF vehicles[v].status = "ABSENT" THEN {}
                    ELSE {vehicles[v].owner}

\* A vehicle that may be brought in belongs to a customer who may come:
\* registration, transfer and reactivation look at the customer, and the
\* customer's deactivation at the vehicles.  The ownership history agrees
\* with the vehicle: one period is open, that of the current owner.
OwnersInOrder == ActiveOwners /\ OneOpenPeriod

=============================================================================
