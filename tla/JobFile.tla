------------------------------- MODULE JobFile -------------------------------
(***************************************************************************)
(* A vehicle's visit from arrival to handover (apps/jobs), composed with   *)
(* the applications it passes through: the quotation the customer decides  *)
(* about (Quotations), the work order made from it (WorkOrderLife), the    *)
(* bill for it (Receivable) and the release of the vehicle.                *)
(*                                                                         *)
(* A job has at most one work order and a work order at most one invoice   *)
(* (both are one-to-one columns), so orders and bills go by their job.     *)
(* Job cards are numbered in the order in which they are opened.  The      *)
(* customer, the vehicle's activity, conditions, contacts and times are    *)
(* left out; inspections and notes count by what they change of the job.   *)
(***************************************************************************)
EXTENDS Quotations

CONSTANTS
  Vehicles,
  MaxMileage,   \* bound
  None          \* a mileage nobody has read

ASSUME JobFileAssumption ==
  /\ Jobs \subseteq Nat
  /\ MaxMileage \in Nat
  /\ None \notin Nat /\ None \notin Vehicles

VARIABLES
  visits,        \* job -> its vehicle and arrival mileage
  mileage,       \* vehicle -> Vehicle.current_mileage
  orderStatus,   \* job -> the status of its work order
  stage,         \* job -> the stage of its bill,
  due,           \* what it comes to
  paid,          \* and what of it is paid
  releases       \* job -> its VehicleRelease

billVars  == <<stage, due, paid>>
visitVars == <<visits, mileage>>
jobFileVars ==
  <<jobStatus, quotations, visits, mileage, orderStatus, stage, due, paid,
    releases>>

WorkOrders == INSTANCE WorkOrderLife WITH Orders <- Jobs, status <- orderStatus
Bills      == INSTANCE Receivable WITH Orders <- Jobs

-----------------------------------------------------------------------------
(* Rows *)

Mileages == 0..MaxMileage

Visit == [vehicle : Vehicles \cup {None}, arrival : Nat]
NoVisit == [vehicle |-> None, arrival |-> 0]

\* A VehicleRelease row; the balance is the one frozen at the handover.
Release ==
  [made : BOOLEAN, mileage : Nat, total : Nat, paid : Nat, override : BOOLEAN]

NoRelease ==
  [made |-> FALSE, mileage |-> 0, total |-> 0, paid |-> 0, override |-> FALSE]

AtLeast(m, known) == m # None /\ known # None => m >= known

-----------------------------------------------------------------------------
(* Job cards and vehicles *)

\* Mutant: only jobs that are still OPEN count as active.
HasActiveJobIfOpen(v) ==
  \E j \in Jobs : visits[j].vehicle = v /\ jobStatus[j] = "OPEN"

HasActiveJob(v) ==
  \E j \in Jobs : visits[j].vehicle = v /\ jobStatus[j] \in ActiveJobStatuses

OpenJobCard(j, v, m) ==
  /\ jobStatus[j] = "ABSENT"
  /\ \A k \in Jobs : k < j => jobStatus[k] # "ABSENT"
  /\ AtLeast(m, mileage[v])
  /\ ~ HasActiveJob(v)
  /\ jobStatus' = [jobStatus EXCEPT ![j] = "OPEN"]
  /\ visits' = [visits EXCEPT ![j] = [vehicle |-> v, arrival |-> m]]
  /\ mileage' = [mileage EXCEPT ![v] = m]
  /\ UNCHANGED <<quotations, orderStatus, billVars, releases>>

\* Mutant: an inspection marks any job that is not cancelled.
AwaitsInspectionStill(j) == jobStatus[j] \notin {"ABSENT", "CANCELLED"}

AwaitsInspection(j) == jobStatus[j] = "OPEN"

\* A later inspection adds a row to the history and changes nothing here.
AddInspection(j) ==
  /\ AwaitsInspection(j)
  /\ jobStatus' = [jobStatus EXCEPT ![j] = "INSPECTED"]
  /\ UNCHANGED <<quotations, visitVars, orderStatus, billVars, releases>>

\* Nothing but an earlier cancellation stops it.
CancelJobCard(j) ==
  /\ jobStatus[j] \notin {"ABSENT", "CANCELLED"}
  /\ jobStatus' = [jobStatus EXCEPT ![j] = "CANCELLED"]
  /\ UNCHANGED <<quotations, visitVars, orderStatus, billVars, releases>>

\* The mileage field of the vehicle form may be left empty.
UpdateVehicle(v, m) ==
  /\ AtLeast(m, mileage[v])
  /\ mileage' = [mileage EXCEPT ![v] = m]
  /\ UNCHANGED <<jobStatus, quotations, visits, orderStatus, billVars, releases>>

-----------------------------------------------------------------------------
(* The work order and its bill *)

\* Mutant: the quotation need not be approved yet.
IsApprovedWhenSent(q) == q.status \in {"SENT", "APPROVED"}

IsApproved(q) == q.status = "APPROVED"

\* _validate_work_order_source.
CanBeOrdered(j) ==
  \E r \in Revisions :
    /\ IsApproved(quotations[j][r])
    /\ quotations[j][r].current
    /\ quotations[j][r].offer.services > 0

CreateWorkOrder(j) ==
  /\ CanBeOrdered(j)
  /\ jobStatus[j] # "CANCELLED"
  /\ WorkOrders!Begins(j)
  /\ UNCHANGED <<jobStatus, quotations, visitVars, billVars, releases>>

\* WorkOrder.clean refuses to save the order of a cancelled job.
WorkOrderMoves(j) ==
  /\ jobStatus[j] # "CANCELLED"
  /\ WorkOrders!Moves(j)
  /\ UNCHANGED <<jobStatus, quotations, visitVars, billVars, releases>>

\* The bill of a completed order, for what was used of what was approved
\* (Billing!BillWithinQuote).
DrawBill(j, n) ==
  /\ orderStatus[j] = "COMPLETED"
  /\ n <= OfferTotal(ApprovedOffer(j).offer)
  /\ Bills!Draw(j, n)
  /\ UNCHANGED <<jobStatus, quotations, visitVars, orderStatus, releases>>

\* Invoices and payments go on whatever has become of the job.
BillMoves(j) ==
  /\ Bills!Open(j) \/ Bills!Withdraw(j)
       \/ \E n \in 0..due[j] : Bills!Settle(j, n)
  /\ UNCHANGED <<jobStatus, quotations, visitVars, orderStatus, releases>>

-----------------------------------------------------------------------------
(* The handover *)

\* Mutant: a draft invoice is good enough.
BillIsOpenOrDraft(j) == stage[j] \in {"OPEN", "DRAFT"}

\* _validate_invoice_state: issued, not voided, and a status that agrees with
\* the payments, as it always does (Billing!StatusInSync).
BillIsOpen(j) == stage[j] = "OPEN"

CanRelease(j, m, override) ==
  /\ ~ releases[j].made
  /\ jobStatus[j] \in ActiveJobStatuses
  /\ orderStatus[j] = "COMPLETED"
  /\ BillIsOpen(j)
  /\ override <=> paid[j] # due[j]
  /\ m >= visits[j].arrival /\ AtLeast(m, mileage[visits[j].vehicle])

ReleaseVehicle(j, m, override) ==
  LET v == visits[j].vehicle IN
  /\ CanRelease(j, m, override)
  /\ jobStatus' = [jobStatus EXCEPT ![j] = "RELEASED"]
  /\ mileage' = [mileage EXCEPT ![v] = m]
  /\ releases' = [releases EXCEPT
       ![j] = [made |-> TRUE, mileage |-> m, total |-> due[j],
               paid |-> paid[j], override |-> override]]
  /\ UNCHANGED <<quotations, visits, orderStatus, billVars>>

-----------------------------------------------------------------------------

Init ==
  /\ QuotationsInit
  /\ WorkOrders!LifeInit
  /\ Bills!ReceivableInit
  /\ visits = [j \in Jobs |-> NoVisit]
  /\ mileage = [v \in Vehicles |-> None]
  /\ releases = [j \in Jobs |-> NoRelease]

Next ==
  \/ Quotes /\ UNCHANGED <<visitVars, orderStatus, billVars, releases>>
  \/ \E v \in Vehicles, m \in Mileages \cup {None} : UpdateVehicle(v, m)
  \/ \E j \in Jobs :
       \/ \E v \in Vehicles, m \in Mileages : OpenJobCard(j, v, m)
       \/ AddInspection(j)
       \/ CancelJobCard(j)
       \/ CreateWorkOrder(j)
       \/ WorkOrderMoves(j)
       \/ \E n \in 1..OfferTotal(ApprovedOffer(j).offer) : DrawBill(j, n)
       \/ BillMoves(j)
       \/ \E m \in Mileages, override \in BOOLEAN :
            ReleaseVehicle(j, m, override)

Spec == Init /\ [][Next]_jobFileVars

-----------------------------------------------------------------------------
(* Properties *)

\* Tables hold well-formed rows.
TypeOK ==
  /\ QuotationsTypeOK
  /\ visits \in [Jobs -> Visit]
  /\ mileage \in [Vehicles -> Nat \cup {None}]
  /\ orderStatus \in [Jobs -> WorkOrders!OrderStatuses \cup {"ABSENT"}]
  /\ stage \in [Jobs -> {"NONE", "DRAFT", "OPEN", "VOIDED"}]
  /\ due \in [Jobs -> Nat] /\ paid \in [Jobs -> Nat]
  /\ releases \in [Jobs -> Release]

\* A vehicle is in for one job at a time, however jobs are inspected,
\* cancelled, released and opened anew.
OneActiveJob ==
  \A j, k \in Jobs :
    /\ jobStatus[j] \in ActiveJobStatuses
    /\ jobStatus[k] \in ActiveJobStatuses
    /\ visits[j].vehicle = visits[k].vehicle
    => j = k

\* The workshop works on, and the customer is billed for, what the customer
\* has approved, at any time after the order was made.
WorkIsAgreed ==
  \A j \in Jobs : orderStatus[j] # "ABSENT" =>
    \E r \in Revisions :
      /\ quotations[j][r].status = "APPROVED"
      /\ quotations[j][r].current
      /\ quotations[j][r].offer.services > 0
      /\ due[j] <= OfferTotal(quotations[j][r].offer)

\* A vehicle leaves with its work done and its bill issued; the handover
\* record keeps the bill's amount, and nobody leaves owing without override.
\* (The bill itself may be withdrawn and payments voided later.)
HandedOverBilled ==
  \A j \in Jobs : releases[j].made =>
    /\ orderStatus[j] = "COMPLETED"
    /\ stage[j] \in {"OPEN", "VOIDED"}
    /\ releases[j].total = due[j]
    /\ releases[j].override <=> releases[j].paid < due[j]

\* Some service can take an active job one stage further: the guards of the
\* quotation, its order, its bill and the handover, each where it stands.
CanProceed(j) ==
  \/ \E d \in Discounts, t \in Taxes : CanQuote(j)
  \/ \E r \in Revisions :
       \/ \E price \in Prices : CanAddLine(j, r)
       \/ CanSubmit(j, r)
       \/ CanDecide(j, r)
       \/ CanRevise(j, r)
  \/ orderStatus[j] = "ABSENT" /\ CanBeOrdered(j)
  \/ \E move \in WorkOrders!OrderMoves : orderStatus[j] = move[1]
  \/ /\ orderStatus[j] = "COMPLETED" /\ stage[j] = "NONE"
     /\ OfferTotal(ApprovedOffer(j).offer) > 0
  \/ stage[j] = "DRAFT"
  \/ \E m \in Mileages, override \in BOOLEAN : CanRelease(j, m, override)

\* The ways in which a job that still stands can no longer be released: the
\* customer approved products only, or an offer that comes to nothing, or its
\* one invoice was voided.  (DrawBill abstracts a fourth: an order of which so
\* little was used that the bill rounds to nothing cannot be invoiced.)
Stranded(j) ==
  \/ /\ ApprovedOffer(j) # NoQuotation
     /\ \/ ApprovedOffer(j).offer.services = 0
        \/ OfferTotal(ApprovedOffer(j).offer) = 0
  \/ stage[j] = "VOIDED"

\* Those are the only dead ends: otherwise some service can always take
\* a job that still stands further (the table of revisions permitting).
OnlyKnownDeadEnds ==
  \A j \in Jobs :
    /\ jobStatus[j] \in ActiveJobStatuses
    /\ ~ Stranded(j)
    /\ quotations[j][MaxRevisions].status # "REJECTED"
    => CanProceed(j)

\* The composition still is the quotations application.
KeepsQuotations == QuotationsSpec

\* VehicleRelease.clean: "A vehicle release requires a released job card."
ReleasedJobStaysReleased ==
  \A j \in Jobs : releases[j].made => jobStatus[j] = "RELEASED"

\* submit_quotation: "Quotation total must be greater than zero."
NothingOfferedForFree ==
  \A j \in Jobs, r \in Revisions :
    quotations[j][r].status \in {"SENT", "APPROVED"}
      => OfferTotal(quotations[j][r].offer) > 0

\* open_job_card: "Arrival mileage cannot be lower than the vehicle's current
\* mileage": a visit does not start below where an earlier one ended.
OdometerNeverFalls ==
  \A j, k \in Jobs :
    /\ j < k
    /\ releases[j].made
    /\ visits[k].vehicle = visits[j].vehicle
    => visits[k].arrival >= releases[j].mileage

=============================================================================
