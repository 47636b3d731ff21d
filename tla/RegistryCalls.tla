--------------------------- MODULE RegistryCalls ---------------------------
(***************************************************************************)
(* The services of the registry, statement by statement.                   *)
(*                                                                         *)
(* Web workers serve one request each.  A request's transaction reads rows *)
(* with SELECT ... FOR UPDATE, keeps copies of them, decides from the      *)
(* copies, writes the columns it changes, and commits, which gives its row *)
(* locks back.  PostgreSQL runs it at READ COMMITTED: each statement sees  *)
(* what is committed at that moment, a lock is waited for, and a circle of *)
(* waiting transactions is broken by aborting one of them.                 *)
(*                                                                         *)
(* A SELECT of a vehicle together with its owner sees one snapshot, then   *)
(* locks the vehicle and then the owner; had the vehicle to be waited for  *)
(* and changed hands meanwhile, it no longer fits the owner seen, and the  *)
(* query finds nothing.  Counting takes no locks, though asked for.        *)
(*                                                                         *)
(* Writing, inserting and committing are one step: nobody can see or wait  *)
(* for anything between them that the locks taken before do not cover.     *)
(***************************************************************************)
EXTENDS Registry, Policy

CONSTANT Workers

VARIABLE calls   \* worker -> the call it is serving

vars == <<customers, vehicles, ownerships, jobs, calls>>

-----------------------------------------------------------------------------
(* The statements of each service *)

\*   deactivate_customer                     customer, count
\*   update_, reactivate_customer,
\*     register_vehicle                      customer
\*   update_, deactivate_vehicle             vehicle
\*   reactivate_vehicle                      join: vehicle, owner
\*   transfer_vehicle_ownership              vehicle, customer
\*   open_job_card                           customer, join: vehicle, owner

CustomerFirst ==
  {"deactivate_customer", "update_customer", "reactivate_customer",
   "register_vehicle", "open_job_card"}

OwnerJoined == {"reactivate_vehicle", "open_job_card"}

Services ==
  CustomerFirst \cup OwnerJoined \cup
  {"update_vehicle", "deactivate_vehicle", "transfer_vehicle_ownership"}

\* Mutant: vehicles are counted before the customer is locked.
CountedFirst(op, s) ==
  CASE s = "begin" ->
         IF op = "deactivate_customer" THEN "count"
         ELSE IF op \in CustomerFirst THEN "customer"
         ELSE IF op \in OwnerJoined THEN "join" ELSE "vehicle"
    [] s = "customer" -> IF op = "open_job_card" THEN "join" ELSE "commit"
    [] s = "join" -> "vehicle"
    [] s = "vehicle" ->
         IF op = "transfer_vehicle_ownership" THEN "customer"
         ELSE IF op \in OwnerJoined THEN "owner" ELSE "commit"
    [] s = "count" -> "customer"
    [] OTHER -> "commit"

\* Mutant: a transfer locks the new owner before the vehicle.
NewOwnerFirst(op, s) ==
  CASE s = "begin" ->
         IF op \in CustomerFirst \cup {"transfer_vehicle_ownership"}
         THEN "customer"
         ELSE IF op \in OwnerJoined THEN "join" ELSE "vehicle"
    [] s = "customer" ->
         IF op = "deactivate_customer" THEN "count"
         ELSE IF op = "open_job_card" THEN "join"
         ELSE IF op = "transfer_vehicle_ownership" THEN "vehicle" ELSE "commit"
    [] s = "join" -> "vehicle"
    [] s = "vehicle" -> IF op \in OwnerJoined THEN "owner" ELSE "commit"
    [] OTHER -> "commit"

\* The statement of service op that follows s.
After(op, s) ==
  CASE s = "begin" ->
         IF op \in CustomerFirst THEN "customer"
         ELSE IF op \in OwnerJoined THEN "join" ELSE "vehicle"
    [] s = "customer" ->
         IF op = "deactivate_customer" THEN "count"
         ELSE IF op = "open_job_card" THEN "join" ELSE "commit"
    [] s = "join" -> "vehicle"
    [] s = "vehicle" ->
         IF op = "transfer_vehicle_ownership" THEN "customer"
         ELSE IF op \in OwnerJoined THEN "owner" ELSE "commit"
    [] OTHER -> "commit"

\* A call: the rows it was asked about, the statement it has come to, the rows
\* it has locked, and its copies of what it read.
Idle ==
  [op |-> "none", customer |-> None, vehicle |-> None, at |-> "begin",
   locked |-> {}, owner |-> None, customerRow |-> "ABSENT",
   vehicleRow |-> NoVehicle, ownerRow |-> "ABSENT", owns |-> FALSE]

Busy(p)  == calls[p].op # "none"
At(p, s) == Busy(p) /\ calls[p].at = s

\* A row nobody else has locked.
Free(p, row) == \A q \in Workers \ {p} : row \notin calls[q].locked

\* The call goes on with k in its memory.
Proceeds(p, k) ==
  /\ calls' = [calls EXCEPT ![p] = [k EXCEPT !.at = After(k.op, k.at)]]
  /\ UNCHANGED registryVars

Locking(p, row) == [calls[p] EXCEPT !.locked = @ \cup {row}]

\* Mutant: an unsuccessful call leaves its transaction open.
LeftOpen(p) == [calls[p] EXCEPT !.op = "none"]

\* Committed or rolled back, the locks are gone.
Ended(p) == Idle

Ends(p) == calls' = [calls EXCEPT ![p] = Ended(p)]

-----------------------------------------------------------------------------
(* Statements *)

LockCustomer(p) ==
  LET c == calls[p].customer IN
  /\ At(p, "customer")
  /\ Free(p, c)
  /\ Proceeds(p, [Locking(p, c) EXCEPT !.customerRow = customers[c]])

SeeOwner(p) ==
  /\ At(p, "join")
  /\ Proceeds(p, [calls[p] EXCEPT !.owner = vehicles[calls[p].vehicle].owner])

LockVehicle(p) ==
  LET v == calls[p].vehicle IN
  /\ At(p, "vehicle")
  /\ Free(p, v)
  /\ Proceeds(p, [Locking(p, v) EXCEPT !.vehicleRow = vehicles[v]])

StillFits(p) == calls[p].vehicleRow.owner = calls[p].owner

\* Mutant: only the vehicle is locked, not the owner joined to it.
LockOwnerNot(p) ==
  /\ At(p, "owner")
  /\ StillFits(p)
  /\ Proceeds(p, [calls[p] EXCEPT !.ownerRow = customers[calls[p].owner]])

LockOwner(p) ==
  LET c == calls[p].owner IN
  /\ At(p, "owner")
  /\ StillFits(p)
  /\ Free(p, c)
  /\ Proceeds(p, [Locking(p, c) EXCEPT !.ownerRow = customers[c]])

FindNothing(p) ==
  /\ At(p, "owner")
  /\ ~ StillFits(p)
  /\ Ends(p)
  /\ UNCHANGED registryVars

CountVehicles(p) ==
  /\ At(p, "count")
  /\ Proceeds(p, [calls[p] EXCEPT !.owns = OwnsActiveVehicle(calls[p].customer)])

-----------------------------------------------------------------------------
(* Decision, writing and commit *)

\* From its copies, the call concludes that it may write.  (An inactive
\* customer is not deactivated again: the call returns at once.)
Accepted(p) ==
  LET k == calls[p] IN
  CASE k.op = "deactivate_customer" -> k.customerRow = "ACTIVE" /\ ~ k.owns
    [] k.op = "reactivate_customer" -> k.customerRow = "INACTIVE"
    [] k.op = "register_vehicle"    -> k.customerRow = "ACTIVE"
    [] k.op = "deactivate_vehicle"  -> k.vehicleRow.status = "ACTIVE"
    [] k.op = "reactivate_vehicle"  ->
         k.vehicleRow.status = "INACTIVE" /\ k.ownerRow = "ACTIVE"
    [] k.op = "transfer_vehicle_ownership" ->
         /\ k.customerRow = "ACTIVE"
         /\ k.vehicleRow.status = "ACTIVE"
         /\ k.vehicleRow.owner # k.customer
    [] k.op = "open_job_card" ->
         /\ k.customerRow = "ACTIVE"
         /\ k.vehicleRow.status = "ACTIVE"
         /\ k.vehicleRow.owner = k.customer
    [] OTHER -> FALSE

\* What the database itself insists on when the row is inserted.
Unique(p) ==
  LET k == calls[p] IN
  /\ k.op = "register_vehicle" => vehicles[k.vehicle] = NoVehicle
  /\ k.op = "open_job_card" => jobs[k.vehicle] = None

Writes(p) ==
  LET k == calls[p] IN
  CASE k.op = "deactivate_customer" -> CustomerBecomes(k.customer, "INACTIVE")
    [] k.op = "reactivate_customer" -> CustomerBecomes(k.customer, "ACTIVE")
    [] k.op = "register_vehicle"    -> VehicleAdded(k.vehicle, k.customer)
    [] k.op = "deactivate_vehicle"  -> VehicleBecomes(k.vehicle, "INACTIVE")
    [] k.op = "reactivate_vehicle"  -> VehicleBecomes(k.vehicle, "ACTIVE")
    [] k.op = "transfer_vehicle_ownership" -> VehicleMoved(k.vehicle, k.customer)
    [] k.op = "open_job_card"       -> JobBecomes(k.vehicle, k.customer)

Commit(p) ==
  /\ At(p, "commit")
  /\ Accepted(p) /\ Unique(p)
  /\ Writes(p)
  /\ Ends(p)

\* Refused, nothing to do, or only columns written that are left out here.
Leave(p) ==
  /\ At(p, "commit")
  /\ ~ (Accepted(p) /\ Unique(p))
  /\ Ends(p)
  /\ UNCHANGED registryVars

-----------------------------------------------------------------------------
(* Deadlock *)

Wanted(p) ==
  IF At(p, "customer")     THEN {calls[p].customer}
  ELSE IF At(p, "vehicle") THEN {calls[p].vehicle}
  ELSE IF At(p, "owner")   THEN {calls[p].owner}
  ELSE {}

WaitsFor(p, q) == p # q /\ Wanted(p) \cap calls[q].locked # {}

\* Calls that wait for each other in circles.
Circle(S) ==
  \A p \in S : /\ \E q \in S : WaitsFor(p, q)
               /\ \E q \in S : WaitsFor(q, p)

\* The database picks a victim; its call fails and is rolled back.
AbortVictim(p) ==
  /\ \E S \in SUBSET Workers : p \in S /\ Circle(S)
  /\ Ends(p)
  /\ UNCHANGED registryVars

-----------------------------------------------------------------------------
(* Requests *)

Begin(p, op, c, v) ==
  /\ ~ Busy(p)
  /\ calls' = [calls EXCEPT
       ![p] = [Idle EXCEPT !.op = op, !.customer = c, !.vehicle = v,
                           !.at = After(op, "begin")]]
  /\ UNCHANGED registryVars

\* Rows a page shows exist; whatever else it was shown may have changed.
CustomersOnFile == {c \in Customers : customers[c] # "ABSENT"}
VehiclesOnFile  == {v \in Vehicles : vehicles[v].status # "ABSENT"}

\* register_customer inserts one row and locks none.
CustomerCreate(u, c) ==
  May(u, "add_customer") /\ RegisterCustomer(c) /\ UNCHANGED calls

CustomerUpdate(u, p, c) ==
  May(u, "change_customer") /\ Begin(p, "update_customer", c, None)

CustomerDeactivate(u, p, c) ==
  May(u, "deactivate_customer") /\ Begin(p, "deactivate_customer", c, None)

CustomerReactivate(u, p, c) ==
  May(u, "reactivate_customer") /\ Begin(p, "reactivate_customer", c, None)

VehicleCreate(u, p, v, c) ==
  /\ May(u, "add_vehicle")
  /\ vehicles[v] = NoVehicle
  /\ Begin(p, "register_vehicle", c, v)

VehicleUpdate(u, p, v) ==
  May(u, "change_vehicle") /\ Begin(p, "update_vehicle", None, v)

VehicleDeactivate(u, p, v) ==
  May(u, "deactivate_vehicle") /\ Begin(p, "deactivate_vehicle", None, v)

VehicleReactivate(u, p, v) ==
  May(u, "reactivate_vehicle") /\ Begin(p, "reactivate_vehicle", None, v)

VehicleTransferOwner(u, p, v, c) ==
  /\ May(u, "transfer_vehicle_owner")
  /\ Begin(p, "transfer_vehicle_ownership", c, v)

JobCreate(u, p, v, c) ==
  May(u, "add_jobcard") /\ Begin(p, "open_job_card", c, v)

-----------------------------------------------------------------------------

Init == RegistryInit /\ calls = [p \in Workers |-> Idle]

Request(p) ==
  \E u \in Staff :
    \/ \E c \in CustomersOnFile :
         \/ CustomerUpdate(u, p, c)
         \/ CustomerDeactivate(u, p, c)
         \/ CustomerReactivate(u, p, c)
         \/ \E v \in Vehicles : VehicleCreate(u, p, v, c)
         \/ \E v \in VehiclesOnFile :
              VehicleTransferOwner(u, p, v, c) \/ JobCreate(u, p, v, c)
    \/ \E v \in VehiclesOnFile :
         \/ VehicleUpdate(u, p, v)
         \/ VehicleDeactivate(u, p, v)
         \/ VehicleReactivate(u, p, v)

\* One statement of the call worker p is serving.
Step(p) ==
  \/ LockCustomer(p) \/ SeeOwner(p) \/ LockVehicle(p) \/ LockOwner(p)
  \/ FindNothing(p) \/ CountVehicles(p) \/ Commit(p) \/ Leave(p)

Next ==
  \/ \E p \in Workers : Request(p) \/ Step(p) \/ AbortVictim(p)
  \/ \E u \in Staff, c \in Customers : CustomerCreate(u, c)
  \/ \E v \in Vehicles : JobEnds(v) /\ UNCHANGED calls

Spec == Init /\ [][Next]_vars

\* A worker goes on as long as it can, and one that waits for a lock gets it
\* if it comes free again and again (waiting transactions queue up).  Circles
\* are found after deadlock_timeout.  Requests need never come, nor jobs end.
Fairness ==
  /\ \A p \in Workers : SF_vars(Step(p))
  /\ WF_vars(\E p \in Workers : AbortVictim(p))

FairSpec == Spec /\ Fairness

-----------------------------------------------------------------------------
(* Properties *)

\* Whatever the interleaving of their statements, the services take effect as
\* if each were one action: every commit is a step of the registry that its
\* transaction describes, decided from rows that are still as they were read.
ImplementsRegistry == RegistrySpec

\* Only opening a job card takes locks in an order of its own: without it no
\* two services of the registry can wait for each other.
DeadlocksNeedIntake ==
  \A S \in SUBSET Workers :
    S # {} /\ Circle(S) => \E p \in S : calls[p].op = "open_job_card"

\* Every call returns, with its work done, refused, or rolled back.
EveryCallReturns == \A p \in Workers : Busy(p) ~> ~ Busy(p)

=============================================================================
