----------------------------- MODULE Quotations -----------------------------
(***************************************************************************)
(* Quotations (apps/quotations): the revisions of a job's quotation, from  *)
(* draft to the customer's decision.                                       *)
(*                                                                         *)
(* Every service is one transaction that locks the quotation together with *)
(* its job card (create_quotation: the job card) before it reads anything: *)
(* one action.  A revision keeps the number of its service and product     *)
(* lines and their subtotal; what a line costs comes from the catalogues   *)
(* and is any amount of Prices.  Names, currencies, descriptions, dates    *)
(* and the record of who decided and how are left out.                     *)
(***************************************************************************)
EXTENDS Integers, Money

CONSTANTS
  Jobs,
  Discounts,      \* percentages the cashier may enter
  Taxes,
  Prices,         \* what one line may come to
  MaxLines,       \* bound: service and product lines of a revision
  MaxRevisions    \* bound: revisions of a job's quotation

ASSUME QuotationsAssumption ==
  /\ Discounts \subseteq Percentages
  /\ Taxes \subseteq Percentages
  /\ Prices \subseteq Nat
  /\ MaxLines \in Nat
  /\ MaxRevisions \in Nat \ {0}

VARIABLES
  jobStatus,    \* JobCard.status, ABSENT before the job is opened
  quotations    \* job -> revision number -> quotation

quotationVars == <<jobStatus, quotations>>

-----------------------------------------------------------------------------
(* Rows *)

ActiveJobStatuses == {"OPEN", "INSPECTED"}
JobStatuses == ActiveJobStatuses \cup {"ABSENT", "RELEASED", "CANCELLED"}

Revisions == 1..MaxRevisions

QuotationStatuses ==
  {"ABSENT", "DRAFT", "SENT", "APPROVED", "REJECTED", "SUPERSEDED"}

\* What a revision offers the customer.
Offer ==
  [services : Nat, products : Nat, subtotal : Nat,
   discount : Percentages, tax : Percentages]

Quotation ==
  [status : QuotationStatuses, current : BOOLEAN, offer : Offer]

EmptyOffer(d, t) ==
  [services |-> 0, products |-> 0, subtotal |-> 0, discount |-> d, tax |-> t]

NoQuotation ==
  [status |-> "ABSENT", current |-> FALSE, offer |-> EmptyOffer(0, 0)]

Draft(offer) == [status |-> "DRAFT", current |-> TRUE, offer |-> offer]

OfferTotal(offer) == QuotationSum(offer.subtotal, offer.discount, offer.tax)

LineCount(offer) == offer.services + offer.products

-----------------------------------------------------------------------------
(* The services *)

CanQuote(j) ==
  /\ jobStatus[j] \notin {"ABSENT", "CANCELLED"}
  /\ ~ \E r \in Revisions : quotations[j][r].current
  /\ quotations[j][1] = NoQuotation     \* quote_unique_job_revision

CreateQuotation(j, d, t) ==
  /\ CanQuote(j)
  /\ quotations' = [quotations EXCEPT ![j][1] = Draft(EmptyOffer(d, t))]
  /\ UNCHANGED jobStatus

\* Mutant: the current revision can be edited after it was sent.
EditableWhileCurrent(q) == q.status \in {"DRAFT", "SENT"} /\ q.current

\* _require_current_draft.
Editable(q) == q.status = "DRAFT" /\ q.current

CanAddLine(j, r) ==
  /\ Editable(quotations[j][r])
  /\ LineCount(quotations[j][r].offer) < MaxLines

\* One more line, at the price the catalogue gives now.
AddLine(j, r, kind, price) ==
  LET offer == quotations[j][r].offer IN
  /\ CanAddLine(j, r)
  /\ quotations' = [quotations EXCEPT ![j][r].offer =
       [offer EXCEPT ![kind] = @ + 1, !.subtotal = @ + price]]
  /\ UNCHANGED jobStatus

AddServiceLine(j, r, price) == AddLine(j, r, "services", price)
AddProductLine(j, r, price) == AddLine(j, r, "products", price)

\* The check of the total in submit_quotation follows a raise and never runs.
CanSubmit(j, r) ==
  /\ Editable(quotations[j][r])
  /\ LineCount(quotations[j][r].offer) > 0

SubmitQuotation(j, r) ==
  /\ CanSubmit(j, r)
  /\ quotations' = [quotations EXCEPT ![j][r].status = "SENT"]
  /\ UNCHANGED jobStatus

\* The customer decides about the current revision that was sent, whatever
\* has become of the job or of the validity date meanwhile.
CanDecide(j, r) ==
  /\ quotations[j][r].status = "SENT"
  /\ quotations[j][r].current

Decide(j, r, decision) ==
  /\ CanDecide(j, r)
  /\ quotations' = [quotations EXCEPT ![j][r].status = decision]
  /\ UNCHANGED jobStatus

ApproveQuotation(j, r) == Decide(j, r, "APPROVED")
RejectQuotation(j, r)  == Decide(j, r, "REJECTED")

\* Mutant: an approved quotation can be revised too.
RevisableAfterApproval == {"SENT", "REJECTED", "APPROVED"}

\* Mutant: a rejected quotation cannot be revised.
RevisableSentOnly == {"SENT"}

Revisable == {"SENT", "REJECTED"}

\* The earlier revision, as the later one leaves it.
Retired(q) ==
  [q EXCEPT !.status = IF @ = "SENT" THEN "SUPERSEDED" ELSE @,
            !.current = FALSE]

CanRevise(j, r) ==
  /\ quotations[j][r].current
  /\ quotations[j][r].status \in Revisable
  /\ r + 1 \in Revisions

CreateQuotationRevision(j, r) ==
  /\ CanRevise(j, r)
  /\ quotations' = [quotations EXCEPT
       ![j][r] = Retired(@), ![j][r + 1] = Draft(quotations[j][r].offer)]
  /\ UNCHANGED jobStatus

-----------------------------------------------------------------------------

QuotationsInit ==
  /\ jobStatus = [j \in Jobs |-> "ABSENT"]
  /\ quotations = [j \in Jobs |-> [r \in Revisions |-> NoQuotation]]

Quotes ==
  \E j \in Jobs :
    \/ \E d \in Discounts, t \in Taxes : CreateQuotation(j, d, t)
    \/ \E r \in Revisions :
         \/ \E price \in Prices :
              AddServiceLine(j, r, price) \/ AddProductLine(j, r, price)
         \/ SubmitQuotation(j, r)
         \/ ApproveQuotation(j, r)
         \/ RejectQuotation(j, r)
         \/ CreateQuotationRevision(j, r)

\* What the front desk does to job cards meanwhile; any job that is not
\* cancelled can be.
JobMoves ==
  {<<"ABSENT", "OPEN">>, <<"OPEN", "INSPECTED">>}
    \cup (ActiveJobStatuses \X {"RELEASED"})
    \cup ((ActiveJobStatuses \cup {"RELEASED"}) \X {"CANCELLED"})

JobGoesOn(j) ==
  /\ \E move \in JobMoves :
       /\ jobStatus[j] = move[1]
       /\ jobStatus' = [jobStatus EXCEPT ![j] = move[2]]
  /\ UNCHANGED quotations

QuotationsNext == Quotes \/ \E j \in Jobs : JobGoesOn(j)

QuotationsSpec == QuotationsInit /\ [][QuotationsNext]_quotationVars

-----------------------------------------------------------------------------
(* Properties *)

\* Tables hold well-formed rows, which pass the row's own check
\* (Quotation.clean: a superseded quotation cannot be current).
QuotationsTypeOK ==
  /\ jobStatus \in [Jobs -> JobStatuses]
  /\ quotations \in [Jobs -> [Revisions -> Quotation]]
  /\ \A j \in Jobs, r \in Revisions :
       quotations[j][r].status = "SUPERSEDED" => ~ quotations[j][r].current

\* Revisions are numbered without gaps and exactly the latest is current, so
\* a job that has a quotation always has a current one to act on.
CurrentIsLatest ==
  \A j \in Jobs, r \in Revisions :
    /\ quotations[j][r].current <=>
         /\ quotations[j][r] # NoQuotation
         /\ \A s \in Revisions : s > r => quotations[j][s] = NoQuotation
    /\ quotations[j][r] # NoQuotation
         => \A s \in 1..(r - 1) :
              quotations[j][s].status \in {"SUPERSEDED", "REJECTED"}

\* A revision the customer has seen keeps its lines and its terms for ever:
\* changes need a new revision.
SentIsFrozen ==
  [][\A j \in Jobs, r \in Revisions :
       quotations[j][r].status \notin {"ABSENT", "DRAFT"} =>
         quotations'[j][r].offer = quotations[j][r].offer]_quotations

ApprovedOffer(j) ==
  LET approved == {r \in Revisions : quotations[j][r].status = "APPROVED"} IN
  IF approved = {} THEN NoQuotation
  ELSE quotations[j][CHOOSE r \in approved : TRUE]

\* The customer's approval is final: it is never withdrawn, superseded or
\* reached twice, and its terms stay what they were.
Approval ==
  INSTANCE Agreement WITH
    Terms   <- {q \in Quotation : q.current /\ LineCount(q.offer) > 0},
    Nothing <- NoQuotation,
    agreed  <- [j \in Jobs |-> ApprovedOffer(j)]

ImplementsAgreement == Approval!AgreementSpec

=============================================================================
