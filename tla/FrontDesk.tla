----------------------------- MODULE FrontDesk -----------------------------
(***************************************************************************)
(* The pages a visit goes through at the front desk (quotations/views.py,  *)
(* jobs/views.py, their forms.py): who may open which, what its form lets  *)
(* through, and the service it then calls.                                 *)
(*                                                                         *)
(* A form offers what was free, priced or active when it was loaded or     *)
(* sent, and the service looks again; kept is what stays true: that rows   *)
(* exist, the limits of the input, and what a form withholds from some.    *)
(* A refusal by page, form or service shows the form again.                *)
(***************************************************************************)
EXTENDS JobFile, Policy

JobsOnFile == {j \in Jobs : jobStatus[j] # "ABSENT"}

QuotationsOnFile(j) == {r \in Revisions : quotations[j][r] # NoQuotation}

\* Both percentages lie between 0 and 100.
QuotationCreateForm == JobsOnFile \X Discounts \X Taxes

\* What some service or product comes to in the quantity entered.
ServiceLineCreateForm == Prices
ProductLineCreateForm == Prices

\* A mileage of at least nothing; it cannot be left out.
JobCardOpenForm == Vehicles \X Mileages

\* The box that authorises a release despite a debt is shown to some only.
VehicleReleaseForm(u) ==
  Mileages \X (IF May(u, "override_vehicle_release_payment")
               THEN BOOLEAN ELSE {FALSE})

\* The release page needs a work order and an invoice, and leads elsewhere
\* once the vehicle has been released.
ReleaseWorkflow(j) ==
  orderStatus[j] # "ABSENT" /\ stage[j] # "NONE" /\ ~ releases[j].made

-----------------------------------------------------------------------------
(* Quotations *)

OnlyQuotes == UNCHANGED <<visitVars, orderStatus, billVars, releases>>

QuotationCreate(u) ==
  /\ May(u, "add_quotation")
  /\ \E f \in QuotationCreateForm : CreateQuotation(f[1], f[2], f[3])
  /\ OnlyQuotes

ServiceLineCreate(u, j, r) ==
  /\ May(u, "change_quotation")
  /\ \E price \in ServiceLineCreateForm : AddServiceLine(j, r, price)
  /\ OnlyQuotes

ProductLineCreate(u, j, r) ==
  /\ May(u, "change_quotation")
  /\ \E price \in ProductLineCreateForm : AddProductLine(j, r, price)
  /\ OnlyQuotes

QuotationSubmit(u, j, r) ==
  May(u, "submit_quotation") /\ SubmitQuotation(j, r) /\ OnlyQuotes

QuotationApprove(u, j, r) ==
  May(u, "approve_quotation") /\ ApproveQuotation(j, r) /\ OnlyQuotes

QuotationReject(u, j, r) ==
  May(u, "reject_quotation") /\ RejectQuotation(j, r) /\ OnlyQuotes

QuotationRevise(u, j, r) ==
  May(u, "revise_quotation") /\ CreateQuotationRevision(j, r) /\ OnlyQuotes

-----------------------------------------------------------------------------
(* Jobs *)

JobCreate(u, j) ==
  /\ May(u, "add_jobcard")
  /\ \E f \in JobCardOpenForm : OpenJobCard(j, f[1], f[2])

InspectionCreate(u, j) == May(u, "add_inspection") /\ AddInspection(j)

JobCancel(u, j) == May(u, "cancel_jobcard") /\ CancelJobCard(j)

VehicleReleaseCreate(u, j) ==
  /\ May(u, "release_vehicle")
  /\ ReleaseWorkflow(j)
  /\ \E f \in VehicleReleaseForm(u) : ReleaseVehicle(j, f[1], f[2])

\* The mileage field of the vehicle form may be left empty.
VehicleUpdate(u, v) ==
  /\ May(u, "change_vehicle")
  /\ \E m \in Mileages \cup {None} : UpdateVehicle(v, m)

-----------------------------------------------------------------------------

\* The workshop's and the cashiers' part of a visit.
BackOffice(j) ==
  \/ CreateWorkOrder(j)
  \/ WorkOrderMoves(j)
  \/ \E n \in 1..OfferTotal(ApprovedOffer(j).offer) : DrawBill(j, n)
  \/ BillMoves(j)

PagesNext ==
  \/ \E u \in Staff :
       \/ QuotationCreate(u)
       \/ \E j \in JobsOnFile :
            \/ InspectionCreate(u, j) \/ JobCancel(u, j)
            \/ VehicleReleaseCreate(u, j)
            \/ \E r \in QuotationsOnFile(j) :
                 \/ ServiceLineCreate(u, j, r) \/ ProductLineCreate(u, j, r)
                 \/ QuotationSubmit(u, j, r)
                 \/ QuotationApprove(u, j, r) \/ QuotationReject(u, j, r)
                 \/ QuotationRevise(u, j, r)
       \/ \E j \in Jobs : JobCreate(u, j)
       \/ \E v \in Vehicles : VehicleUpdate(u, v)
  \/ \E j \in Jobs : BackOffice(j)

PagesSpec == Init /\ [][PagesNext]_jobFileVars

=============================================================================
