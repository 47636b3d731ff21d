---------------------------- MODULE JobFileProofs ----------------------------
(***************************************************************************)
(* A visit, composed of the applications it passes through, proved for any *)
(* jobs, vehicles, prices, terms, mileages, revisions and lines.           *)
(*                                                                         *)
(* First the quotations application alone: the customer's approval is      *)
(* final.  Every service rewrites one or two rows of one job, and only the *)
(* latest revision of a job is ever current (QuotationsInv); so at most    *)
(* one revision is approved, and nothing follows it.                       *)
(*                                                                         *)
(* Then the visit: a step of the composition is a step of the quotations   *)
(* application or leaves its tables alone, so its invariant and the        *)
(* finality of the approval carry over.  The order, the bill and the       *)
(* release each only refer to something that has become final before: the  *)
(* approval, the completion and the amount of the bill.                    *)
(***************************************************************************)
EXTENDS FrontDesk, ArithmeticProofs

-----------------------------------------------------------------------------
(* Quotations: the strengthening *)

\* A row is blank or has a status that says what has been done with it; what
\* was sent has lines.
QuotationOK(q) ==
  /\ q.status = "ABSENT" <=> q = NoQuotation
  /\ q.status = "SUPERSEDED" => ~ q.current
  /\ q.status \in {"SENT", "APPROVED", "REJECTED", "SUPERSEDED"}
       => LineCount(q.offer) > 0

RowsOK == \A j \in Jobs, r \in Revisions : QuotationOK(quotations[j][r])

QuotationsInv == QuotationsTypeOK /\ RowsOK /\ CurrentIsLatest

\* The job's revisions, apart from those of numbers r and s, are as before.
OtherwiseSame(j, r, s) ==
  /\ \A k \in Jobs : k # j => quotations'[k] = quotations[k]
  /\ \A m \in Revisions : m # r /\ m # s
       => quotations'[j][m] = quotations[j][m]

-----------------------------------------------------------------------------
(* Rows *)

\* The blank row, and a draft of any offer, are rows.
LEMMA NewRows ==
  ASSUME NEW offer \in Offer
  PROVE  /\ NoQuotation \in Quotation
         /\ Draft(offer) \in Quotation
         /\ QuotationOK(NoQuotation)
         /\ QuotationOK(Draft(offer))
         /\ Draft(offer) # NoQuotation
<1>1. NoQuotation \in Quotation
  BY DEF NoQuotation, Quotation, QuotationStatuses, Offer, EmptyOffer,
         Percentages
<1>2. Draft(offer) \in Quotation
  BY DEF Draft, Quotation, QuotationStatuses
<1>3. QuotationOK(NoQuotation)
  BY DEF QuotationOK, NoQuotation
<1>4. QuotationOK(Draft(offer)) /\ Draft(offer) # NoQuotation
  BY DEF QuotationOK, Draft, NoQuotation
<1>5. QED
  BY <1>1, <1>2, <1>3, <1>4

\* An empty offer at allowed percentages is an offer.
LEMMA EmptyOfferTyped ==
  ASSUME NEW d \in Discounts, NEW t \in Taxes
  PROVE  EmptyOffer(d, t) \in Offer
  BY QuotationsAssumption DEF EmptyOffer, Offer

\* An offer with one more line is an offer.
LEMMA LongerOffer ==
  ASSUME NEW o \in Offer, NEW price \in Nat
  PROVE  /\ [o EXCEPT !.services = @ + 1, !.subtotal = @ + price] \in Offer
         /\ [o EXCEPT !.products = @ + 1, !.subtotal = @ + price] \in Offer
<1>1. o.services + 1 \in Nat /\ o.products + 1 \in Nat /\ o.subtotal + price \in Nat
  BY DEF Offer
<1>2. ASSUME NEW a \in Nat, NEW b \in Nat
      PROVE  /\ [o EXCEPT !.services = a, !.subtotal = b] \in Offer
             /\ [o EXCEPT !.products = a, !.subtotal = b] \in Offer
  BY DEF Offer
<1>3. QED
  BY <1>1, <1>2

\* Rewriting one column of a row.
LEMMA Rewritten ==
  ASSUME NEW q \in Quotation, NEW s \in QuotationStatuses, NEW offer \in Offer,
         NEW c \in BOOLEAN
  PROVE  /\ [q EXCEPT !.status = s] \in Quotation
         /\ [q EXCEPT !.offer = offer] \in Quotation
         /\ [q EXCEPT !.status = s, !.current = c] \in Quotation
  BY DEF Quotation

\* A revision that is no longer current stays a row.
LEMMA RetiredRow ==
  ASSUME NEW q \in Quotation, q.status \in Revisable, QuotationOK(q)
  PROVE  /\ Retired(q) \in Quotation
         /\ QuotationOK(Retired(q))
         /\ Retired(q).status \in {"SUPERSEDED", "REJECTED"}
         /\ ~ Retired(q).current
         /\ Retired(q).offer = q.offer
         /\ Retired(q) # NoQuotation
<1> DEFINE s == IF q.status = "SENT" THEN "SUPERSEDED" ELSE q.status
           new == [q EXCEPT !.status = s, !.current = FALSE]
<1>1. /\ s \in {"SUPERSEDED", "REJECTED"} /\ s \in QuotationStatuses
      /\ q.status \in {"SENT", "REJECTED"}
  BY DEF Revisable, QuotationStatuses
<1>2. Retired(q) = new
  BY DEF Retired, Quotation
<1>3. /\ new \in Quotation /\ new.status = s /\ new.current = FALSE
      /\ new.offer = q.offer
  BY <1>1 DEF Quotation
<1>4. new # NoQuotation
  BY <1>1, <1>3 DEF NoQuotation
<1>5. QuotationOK(new)
  BY <1>1, <1>3, <1>4 DEF QuotationOK
<1>6. QED
  BY <1>1, <1>2, <1>3, <1>4, <1>5

-----------------------------------------------------------------------------
(* What each service does to the rows *)

\* Writing one row writes that row alone.
LEMMA OneRow ==
  ASSUME QuotationsTypeOK, NEW j \in Jobs, NEW r \in Revisions,
         NEW new \in Quotation,
         quotations' = [quotations EXCEPT ![j][r] = new]
  PROVE  /\ quotations' \in [Jobs -> [Revisions -> Quotation]]
         /\ quotations'[j][r] = new
         /\ OtherwiseSame(j, r, r)
  BY DEF QuotationsTypeOK, OtherwiseSame

\* Writing two rows writes those two alone.
LEMMA TwoRows ==
  ASSUME QuotationsTypeOK, NEW j \in Jobs, NEW r \in Revisions,
         NEW s \in Revisions, r # s,
         NEW old \in Quotation, NEW new \in Quotation,
         quotations' = [quotations EXCEPT ![j][r] = old, ![j][s] = new]
  PROVE  /\ quotations' \in [Jobs -> [Revisions -> Quotation]]
         /\ quotations'[j][r] = old
         /\ quotations'[j][s] = new
         /\ OtherwiseSame(j, r, s)
  BY DEF QuotationsTypeOK, OtherwiseSame

\* The effect of creating a quotation.
LEMMA CreateEffect ==
  ASSUME QuotationsInv, NEW j \in Jobs, NEW d \in Discounts, NEW t \in Taxes,
         CreateQuotation(j, d, t)
  PROVE  /\ 1 \in Revisions
         /\ quotations' \in [Jobs -> [Revisions -> Quotation]]
         /\ \A r \in Revisions : quotations[j][r] = NoQuotation
         /\ quotations'[j][1] = Draft(EmptyOffer(d, t))
         /\ OtherwiseSame(j, 1, 1)
<1>1. 1 \in Revisions
  BY QuotationsAssumption DEF Revisions
<1>2. Draft(EmptyOffer(d, t)) \in Quotation
  BY EmptyOfferTyped, NewRows
<1>3. quotations' = [quotations EXCEPT ![j][1] = Draft(EmptyOffer(d, t))]
  BY DEF CreateQuotation, CanQuote
<1>4. ASSUME NEW r \in Revisions PROVE quotations[j][r] = NoQuotation
  <2>1. quotations[j][1].status = "ABSENT" /\ quotations[j][1] = NoQuotation
    BY DEF CreateQuotation, CanQuote, NoQuotation
  <2>2. r = 1 \/ 1 \in 1..(r - 1)
    BY QuotationsAssumption DEF Revisions
  <2>3. QED
    BY <2>1, <2>2 DEF QuotationsInv, CurrentIsLatest
<1>5. QED
  BY <1>1, <1>2, <1>3, <1>4, OneRow DEF QuotationsInv

\* The effect of the services that rewrite one row: it is current before and
\* after, and either a draft with a new offer, or keeps its offer and moves on.
LEMMA RewriteEffect ==
  ASSUME QuotationsInv, NEW j \in Jobs, NEW r \in Revisions,
         \/ \E kind \in {"services", "products"}, price \in Prices :
              AddLine(j, r, kind, price)
         \/ SubmitQuotation(j, r)
         \/ \E decision \in {"APPROVED", "REJECTED"} : Decide(j, r, decision)
  PROVE  /\ quotations' \in [Jobs -> [Revisions -> Quotation]]
         /\ quotations[j][r].current /\ quotations'[j][r].current
         /\ quotations[j][r].status \in {"DRAFT", "SENT"}
         /\ quotations'[j][r].status \in {"DRAFT", "SENT", "APPROVED", "REJECTED"}
         /\ quotations[j][r].status # "DRAFT"
              => quotations'[j][r].offer = quotations[j][r].offer
         /\ QuotationOK(quotations'[j][r])
         /\ quotations'[j][r] # NoQuotation
         /\ OtherwiseSame(j, r, r)
<1> DEFINE q == quotations[j][r]
<1>1. q \in Quotation /\ QuotationOK(q) /\ QuotationsTypeOK
  BY DEF QuotationsInv, QuotationsTypeOK, RowsOK
<1>2. ASSUME NEW kind \in {"services", "products"}, NEW price \in Prices,
             AddLine(j, r, kind, price)
      PROVE  \E new \in Quotation :
               /\ quotations' = [quotations EXCEPT ![j][r] = new]
               /\ q.current /\ q.status = "DRAFT"
               /\ new.current /\ new.status = "DRAFT"
  <2> DEFINE offer == [q.offer EXCEPT ![kind] = @ + 1, !.subtotal = @ + price]
             new == [q EXCEPT !.offer = offer]
  <2>1. q.current /\ q.status = "DRAFT"
    BY <1>2 DEF AddLine, CanAddLine, Editable
  <2>2. q.offer \in Offer /\ price \in Nat
    BY <1>1, QuotationsAssumption DEF Quotation
  <2>3. offer \in Offer
    <3>1. CASE kind = "services"
      BY <2>2, <3>1, LongerOffer
    <3>2. CASE kind = "products"
      BY <2>2, <3>2, LongerOffer
    <3>3. QED
      BY <3>1, <3>2
  <2>4. /\ new \in Quotation /\ new.current = q.current
        /\ new.status = q.status
    BY <1>1, <2>3 DEF Quotation
  <2>5. quotations' = [quotations EXCEPT ![j][r] = new]
    BY <1>2 DEF AddLine, CanAddLine
  <2>6. QED
    BY <2>1, <2>4, <2>5
<1>3. ASSUME NEW s \in {"SENT", "APPROVED", "REJECTED"},
             quotations' = [quotations EXCEPT ![j][r].status = s],
             q.current, q.status \in {"DRAFT", "SENT"},
             LineCount(q.offer) > 0
      PROVE  \E new \in Quotation :
               /\ quotations' = [quotations EXCEPT ![j][r] = new]
               /\ q.current
               /\ new.current /\ new.status = s /\ new.offer = q.offer
               /\ LineCount(new.offer) > 0
  <2> DEFINE new == [q EXCEPT !.status = s]
  <2>1. s \in QuotationStatuses
    BY DEF QuotationStatuses
  <2>2. /\ new \in Quotation /\ new.current = q.current
        /\ new.status = s /\ new.offer = q.offer
    BY <1>1, <2>1 DEF Quotation
  <2>3. quotations' = [quotations EXCEPT ![j][r] = new]
    BY <1>3
  <2>4. QED
    BY <1>3, <2>2, <2>3
<1>4. CASE \E kind \in {"services", "products"}, price \in Prices :
             AddLine(j, r, kind, price)
  <2>1. PICK new \in Quotation :
          /\ quotations' = [quotations EXCEPT ![j][r] = new]
          /\ q.current /\ q.status = "DRAFT"
          /\ new.current /\ new.status = "DRAFT"
    BY <1>2, <1>4
  <2>2. new # NoQuotation
    BY <2>1 DEF NoQuotation
  <2>3. QuotationOK(new)
    BY <2>1, <2>2 DEF QuotationOK
  <2>4. /\ quotations' \in [Jobs -> [Revisions -> Quotation]]
        /\ quotations'[j][r] = new
        /\ OtherwiseSame(j, r, r)
    BY <1>1, <2>1, OneRow
  <2>5. QED
    BY <2>1, <2>2, <2>3, <2>4
<1>5. ASSUME NEW s \in {"SENT", "APPROVED", "REJECTED"},
             quotations' = [quotations EXCEPT ![j][r].status = s],
             q.current, q.status \in {"DRAFT", "SENT"},
             LineCount(q.offer) > 0
      PROVE  /\ quotations' \in [Jobs -> [Revisions -> Quotation]]
             /\ quotations[j][r].current /\ quotations'[j][r].current
             /\ quotations'[j][r].status = s
             /\ quotations'[j][r].offer = quotations[j][r].offer
             /\ QuotationOK(quotations'[j][r])
             /\ quotations'[j][r] # NoQuotation
             /\ OtherwiseSame(j, r, r)
  <2>1. PICK new \in Quotation :
          /\ quotations' = [quotations EXCEPT ![j][r] = new]
          /\ q.current
          /\ new.current /\ new.status = s /\ new.offer = q.offer
          /\ LineCount(new.offer) > 0
    BY <1>3, <1>5
  <2>2. new # NoQuotation
    BY <2>1 DEF NoQuotation
  <2>3. QuotationOK(new)
    BY <2>1, <2>2 DEF QuotationOK
  <2>4. /\ quotations' \in [Jobs -> [Revisions -> Quotation]]
        /\ quotations'[j][r] = new
        /\ OtherwiseSame(j, r, r)
    BY <1>1, <2>1, OneRow
  <2>5. QED
    BY <2>1, <2>2, <2>3, <2>4
<1>6. CASE SubmitQuotation(j, r)
  BY <1>5, <1>6 DEF SubmitQuotation, CanSubmit, Editable
<1>7. CASE \E decision \in {"APPROVED", "REJECTED"} : Decide(j, r, decision)
  <2>1. PICK decision \in {"APPROVED", "REJECTED"} : Decide(j, r, decision)
    BY <1>7
  <2>2. LineCount(q.offer) > 0
    BY <1>1, <2>1 DEF Decide, CanDecide, QuotationOK
  <2>3. QED
    BY <1>5, <2>1, <2>2 DEF Decide, CanDecide
<1>8. QED
  BY <1>4, <1>6, <1>7

\* The effect of a revision: the current row retires, its successor is new.
LEMMA ReviseEffect ==
  ASSUME QuotationsInv, NEW j \in Jobs, NEW r \in Revisions,
         CreateQuotationRevision(j, r)
  PROVE  /\ r + 1 \in Revisions
         /\ quotations' \in [Jobs -> [Revisions -> Quotation]]
         /\ quotations[j][r].current
         /\ quotations[j][r].status \in Revisable
         /\ quotations[j][r + 1] = NoQuotation
         /\ quotations'[j][r] = Retired(quotations[j][r])
         /\ quotations'[j][r + 1] = Draft(quotations[j][r].offer)
         /\ OtherwiseSame(j, r, r + 1)
<1> DEFINE q == quotations[j][r]
           s == r + 1
<1>1. s \in Revisions /\ r # s /\ s > r /\ q.current /\ q.status \in Revisable
  BY DEF CreateQuotationRevision, CanRevise, Revisions
<1>2. q \in Quotation /\ QuotationOK(q) /\ QuotationsTypeOK
  BY DEF QuotationsInv, QuotationsTypeOK, RowsOK
<1>3. Retired(q) \in Quotation
  BY <1>1, <1>2, RetiredRow
<1>4. Draft(q.offer) \in Quotation
  <2>1. q.offer \in Offer
    BY <1>2 DEF Quotation
  <2>2. QED
    BY <2>1, NewRows
<1>5. quotations[j][s] = NoQuotation
  BY <1>1 DEF QuotationsInv, CurrentIsLatest
<1>6. quotations' = [quotations EXCEPT ![j][r] = Retired(q),
                                       ![j][s] = Draft(q.offer)]
  BY DEF CreateQuotationRevision, CanRevise
<1> HIDE DEF s
<1>7. /\ quotations' \in [Jobs -> [Revisions -> Quotation]]
      /\ quotations'[j][r] = Retired(q)
      /\ quotations'[j][s] = Draft(q.offer)
      /\ OtherwiseSame(j, r, s)
  BY <1>1, <1>2, <1>3, <1>4, <1>6, TwoRows
<1>8. QED
  BY <1>1, <1>5, <1>7 DEF s

-----------------------------------------------------------------------------
(* The invariant *)

LEMMA QuotationsInitInv == QuotationsInit => QuotationsInv
<1> SUFFICES ASSUME QuotationsInit PROVE QuotationsInv
  OBVIOUS
<1>1. EmptyOffer(0, 0) \in Offer
  BY DEF EmptyOffer, Offer, Percentages
<1>2. NoQuotation \in Quotation /\ QuotationOK(NoQuotation)
  BY <1>1, NewRows
<1>3. QuotationsTypeOK /\ RowsOK
  BY <1>2 DEF QuotationsInit, QuotationsTypeOK, RowsOK, JobStatuses,
              NoQuotation
<1>4. CurrentIsLatest
  BY DEF QuotationsInit, CurrentIsLatest, NoQuotation
<1>5. QED
  BY <1>3, <1>4 DEF QuotationsInv

LEMMA CreateInv ==
  ASSUME QuotationsInv, NEW j \in Jobs, NEW d \in Discounts, NEW t \in Taxes,
         CreateQuotation(j, d, t)
  PROVE  QuotationsInv'
<1> DEFINE new == Draft(EmptyOffer(d, t))
<1>1. /\ 1 \in Revisions
      /\ quotations' \in [Jobs -> [Revisions -> Quotation]]
      /\ \A r \in Revisions : quotations[j][r] = NoQuotation
      /\ quotations'[j][1] = new
      /\ OtherwiseSame(j, 1, 1)
  BY CreateEffect
<1>2. QuotationOK(new) /\ new # NoQuotation
  BY EmptyOfferTyped, NewRows
<1>3. new.current
  BY DEF Draft
<1> HIDE DEF new
<1>4. ~ NoQuotation.current
  BY DEF NoQuotation
<1>5. RowsOK'
  BY <1>1, <1>2 DEF QuotationsInv, RowsOK, OtherwiseSame
<1>6. QuotationsTypeOK'
  BY <1>1, <1>5 DEF CreateQuotation, CanQuote, QuotationsInv, QuotationsTypeOK, RowsOK,
                    QuotationOK
<1>7. CurrentIsLatest'
  <2> SUFFICES ASSUME NEW k \in Jobs, NEW r \in Revisions
        PROVE  /\ quotations'[k][r].current <=>
                    /\ quotations'[k][r] # NoQuotation
                    /\ \A s \in Revisions : s > r
                         => quotations'[k][s] = NoQuotation
               /\ quotations'[k][r] # NoQuotation
                    => \A s \in 1..(r - 1) : quotations'[k][s].status
                                               \in {"SUPERSEDED", "REJECTED"}
    BY DEF CurrentIsLatest
  <2>1. CASE k # j
    BY <1>1, <2>1 DEF OtherwiseSame, QuotationsInv, CurrentIsLatest
  <2>2. CASE k = j /\ r = 1
    <3>1. \A s \in Revisions : s > 1 => quotations'[j][s] = NoQuotation
      BY <1>1 DEF OtherwiseSame
    <3>2. QED
      BY <1>1, <1>2, <1>3, <2>2, <3>1
  <2>3. CASE k = j /\ r # 1
    BY <1>1, <1>4, <2>3 DEF OtherwiseSame
  <2>4. QED
    BY <2>1, <2>2, <2>3
<1>8. QED
  BY <1>5, <1>6, <1>7 DEF QuotationsInv

LEMMA RewriteInv ==
  ASSUME QuotationsInv, NEW j \in Jobs, NEW r \in Revisions,
         UNCHANGED jobStatus,
         \/ \E kind \in {"services", "products"}, price \in Prices :
              AddLine(j, r, kind, price)
         \/ SubmitQuotation(j, r)
         \/ \E decision \in {"APPROVED", "REJECTED"} : Decide(j, r, decision)
  PROVE  QuotationsInv'
<1>1. /\ quotations' \in [Jobs -> [Revisions -> Quotation]]
      /\ quotations[j][r].current /\ quotations'[j][r].current
      /\ QuotationOK(quotations'[j][r])
      /\ quotations'[j][r] # NoQuotation
      /\ OtherwiseSame(j, r, r)
  BY RewriteEffect
<1>2. RowsOK'
  BY <1>1 DEF QuotationsInv, RowsOK, OtherwiseSame
<1>3. QuotationsTypeOK'
  BY <1>1, <1>2 DEF QuotationsInv, QuotationsTypeOK, RowsOK, QuotationOK
<1>4. \A k \in Jobs, m \in Revisions :
        /\ quotations'[k][m].current <=> quotations[k][m].current
        /\ quotations'[k][m] = NoQuotation <=> quotations[k][m] = NoQuotation
  <2>1. quotations[j][r] # NoQuotation
    BY <1>1 DEF NoQuotation
  <2>2. QED
    BY <1>1, <2>1 DEF OtherwiseSame
<1>5. \A s \in Revisions : s > r => quotations[j][s] = NoQuotation
  BY <1>1 DEF QuotationsInv, CurrentIsLatest
<1>6. CurrentIsLatest'
  <2> SUFFICES ASSUME NEW k \in Jobs, NEW m \in Revisions
        PROVE  /\ quotations'[k][m].current <=>
                    /\ quotations'[k][m] # NoQuotation
                    /\ \A s \in Revisions : s > m
                         => quotations'[k][s] = NoQuotation
               /\ quotations'[k][m] # NoQuotation
                    => \A s \in 1..(m - 1) : quotations'[k][s].status
                                               \in {"SUPERSEDED", "REJECTED"}
    BY DEF CurrentIsLatest
  <2>1. quotations'[k][m].current <=>
          /\ quotations'[k][m] # NoQuotation
          /\ \A s \in Revisions : s > m => quotations'[k][s] = NoQuotation
    BY <1>4 DEF QuotationsInv, CurrentIsLatest
  <2>2. ASSUME quotations'[k][m] # NoQuotation, NEW s \in 1..(m - 1)
        PROVE  quotations'[k][s].status \in {"SUPERSEDED", "REJECTED"}
    <3>1. s \in Revisions /\ m > s
      BY <2>2, QuotationsAssumption DEF Revisions
    <3>2. quotations[k][m] # NoQuotation
      BY <1>4, <2>2
    <3>3. quotations[k][s].status \in {"SUPERSEDED", "REJECTED"}
      BY <2>2, <3>2 DEF QuotationsInv, CurrentIsLatest
    <3>4. ~ (k = j /\ s = r)
      BY <1>5, <3>1, <3>2
    <3>5. QED
      BY <1>1, <3>1, <3>3, <3>4 DEF OtherwiseSame
  <2>3. QED
    BY <2>1, <2>2
<1>7. QED
  BY <1>2, <1>3, <1>6 DEF QuotationsInv

LEMMA ReviseInv ==
  ASSUME QuotationsInv, NEW j \in Jobs, NEW r \in Revisions,
         CreateQuotationRevision(j, r)
  PROVE  QuotationsInv'
<1> DEFINE q == quotations[j][r]
<1>1. /\ r + 1 \in Revisions
      /\ quotations' \in [Jobs -> [Revisions -> Quotation]]
      /\ q.current
      /\ q.status \in Revisable
      /\ quotations[j][r + 1] = NoQuotation
      /\ quotations'[j][r] = Retired(q)
      /\ quotations'[j][r + 1] = Draft(q.offer)
      /\ OtherwiseSame(j, r, r + 1)
  BY ReviseEffect
<1>2. q \in Quotation /\ QuotationOK(q) /\ q.offer \in Offer
  BY DEF QuotationsInv, QuotationsTypeOK, RowsOK, Quotation
<1>3. /\ QuotationOK(Retired(q)) /\ Retired(q) # NoQuotation
      /\ Retired(q).status \in {"SUPERSEDED", "REJECTED"}
      /\ ~ Retired(q).current
  BY <1>1, <1>2, RetiredRow
<1>4. /\ QuotationOK(Draft(q.offer)) /\ Draft(q.offer) # NoQuotation
      /\ Draft(q.offer).current
  BY <1>2, NewRows DEF Draft
<1>5. ~ NoQuotation.current /\ q # NoQuotation
  BY <1>1 DEF NoQuotation
<1>6. /\ \A s \in Revisions : s > r => quotations[j][s] = NoQuotation
      /\ \A s \in 1..(r - 1) :
           quotations[j][s].status \in {"SUPERSEDED", "REJECTED"}
  BY <1>1, <1>5 DEF QuotationsInv, CurrentIsLatest
<1> HIDE DEF q
<1>7. RowsOK'
  BY <1>1, <1>3, <1>4 DEF QuotationsInv, RowsOK, OtherwiseSame
<1>8. QuotationsTypeOK'
  BY <1>1, <1>7 DEF CreateQuotationRevision, CanRevise, QuotationsInv, QuotationsTypeOK,
                    RowsOK, QuotationOK
<1>9. CurrentIsLatest'
  <2> SUFFICES ASSUME NEW k \in Jobs, NEW m \in Revisions
        PROVE  /\ quotations'[k][m].current <=>
                    /\ quotations'[k][m] # NoQuotation
                    /\ \A s \in Revisions : s > m
                         => quotations'[k][s] = NoQuotation
               /\ quotations'[k][m] # NoQuotation
                    => \A s \in 1..(m - 1) : quotations'[k][s].status
                                               \in {"SUPERSEDED", "REJECTED"}
    BY DEF CurrentIsLatest
  <2>1. CASE k # j
    BY <1>1, <2>1 DEF OtherwiseSame, QuotationsInv, CurrentIsLatest
  <2>2. CASE k = j /\ m > r + 1
    <3>1. quotations'[j][m] = NoQuotation
      BY <1>1, <1>6, <2>2 DEF OtherwiseSame, Revisions
    <3>2. QED
      BY <1>5, <2>2, <3>1
  <2>3. CASE k = j /\ m = r + 1
    <3>1. \A s \in Revisions : s > r + 1 => quotations'[j][s] = NoQuotation
      BY <1>1, <1>6 DEF OtherwiseSame, Revisions
    <3>2. ASSUME NEW s \in 1..((r + 1) - 1)
          PROVE  quotations'[j][s].status \in {"SUPERSEDED", "REJECTED"}
      <4>1. CASE s = r
        BY <1>1, <1>3, <4>1
      <4>2. CASE s # r
        <5>1. s \in 1..(r - 1) /\ s \in Revisions /\ s # r + 1
          BY <4>2, QuotationsAssumption DEF Revisions
        <5>2. QED
          BY <1>1, <1>6, <4>2, <5>1 DEF OtherwiseSame
      <4>3. QED
        BY <4>1, <4>2
    <3>3. QED
      BY <1>1, <1>4, <2>3, <3>1, <3>2
  <2>4. CASE k = j /\ m = r
    <3>1. ASSUME NEW s \in 1..(r - 1)
          PROVE  quotations'[j][s].status \in {"SUPERSEDED", "REJECTED"}
      <4>1. s \in Revisions /\ s # r /\ s # r + 1
        BY QuotationsAssumption DEF Revisions
      <4>2. QED
        BY <1>1, <1>6, <4>1 DEF OtherwiseSame
    <3>2. r + 1 > r
      BY DEF Revisions
    <3>3. QED
      BY <1>1, <1>3, <1>4, <2>4, <3>1, <3>2
  <2>5. CASE k = j /\ m < r
    <3>1. m # r /\ m # r + 1 /\ r > m
      BY <2>5 DEF Revisions
    <3>2. quotations'[j][m] = quotations[j][m]
      BY <1>1, <3>1 DEF OtherwiseSame
    <3>3. ~ quotations[j][m].current
      BY <1>5, <3>1 DEF QuotationsInv, CurrentIsLatest, q
    <3>4. quotations'[j][r] # NoQuotation
      BY <1>1, <1>3
    <3>5. ASSUME NEW s \in 1..(m - 1)
          PROVE  quotations'[j][s].status \in {"SUPERSEDED", "REJECTED"}
      <4>1. s \in Revisions /\ s # r /\ s # r + 1 /\ s \in 1..(r - 1)
        BY <2>5, QuotationsAssumption DEF Revisions
      <4>2. QED
        BY <1>1, <1>6, <4>1 DEF OtherwiseSame
    <3>6. QED
      BY <2>5, <3>1, <3>2, <3>3, <3>4, <3>5
  <2>6. QED
    <3>1. m > r + 1 \/ m = r + 1 \/ m = r \/ m < r
      BY DEF Revisions
    <3>2. QED
      BY <2>1, <2>2, <2>3, <2>4, <2>5, <3>1
<1>10. QED
  BY <1>7, <1>8, <1>9 DEF QuotationsInv

\* A step of the quotations application, by the row it writes.
LEMMA QuotesCases ==
  ASSUME Quotes
  PROVE  /\ UNCHANGED jobStatus
         /\ \E j \in Jobs :
              \/ \E d \in Discounts, t \in Taxes : CreateQuotation(j, d, t)
              \/ \E r \in Revisions :
                   \/ \E kind \in {"services", "products"}, price \in Prices :
                        AddLine(j, r, kind, price)
                   \/ SubmitQuotation(j, r)
                   \/ \E decision \in {"APPROVED", "REJECTED"} :
                        Decide(j, r, decision)
                   \/ CreateQuotationRevision(j, r)
<1>1. PICK j \in Jobs :
        \/ \E d \in Discounts, t \in Taxes : CreateQuotation(j, d, t)
        \/ \E r \in Revisions :
             \/ \E price \in Prices :
                  AddServiceLine(j, r, price) \/ AddProductLine(j, r, price)
             \/ SubmitQuotation(j, r)
             \/ ApproveQuotation(j, r)
             \/ RejectQuotation(j, r)
             \/ CreateQuotationRevision(j, r)
  BY DEF Quotes
<1>2. CASE \E d \in Discounts, t \in Taxes : CreateQuotation(j, d, t)
  BY <1>2 DEF CreateQuotation, CanQuote
<1>3. ASSUME NEW r \in Revisions,
             \/ \E price \in Prices :
                  AddServiceLine(j, r, price) \/ AddProductLine(j, r, price)
             \/ SubmitQuotation(j, r)
             \/ ApproveQuotation(j, r)
             \/ RejectQuotation(j, r)
             \/ CreateQuotationRevision(j, r)
      PROVE  /\ UNCHANGED jobStatus
             /\ \/ \E kind \in {"services", "products"}, price \in Prices :
                     AddLine(j, r, kind, price)
                \/ SubmitQuotation(j, r)
                \/ \E decision \in {"APPROVED", "REJECTED"} :
                     Decide(j, r, decision)
                \/ CreateQuotationRevision(j, r)
  <2>1. CASE \E price \in Prices : AddServiceLine(j, r, price)
    BY <2>1 DEF AddServiceLine, AddLine, CanAddLine
  <2>2. CASE \E price \in Prices : AddProductLine(j, r, price)
    BY <2>2 DEF AddProductLine, AddLine, CanAddLine
  <2>3. CASE SubmitQuotation(j, r)
    BY <2>3 DEF SubmitQuotation, CanSubmit
  <2>4. CASE ApproveQuotation(j, r) \/ RejectQuotation(j, r)
    BY <2>4 DEF ApproveQuotation, RejectQuotation, Decide, CanDecide
  <2>5. CASE CreateQuotationRevision(j, r)
    BY <2>5 DEF CreateQuotationRevision, CanRevise
  <2>6. QED
    BY <1>3, <2>1, <2>2, <2>3, <2>4, <2>5
<1>4. QED
  BY <1>1, <1>2, <1>3

LEMMA QuotationsStep ==
  QuotationsInv /\ [QuotationsNext]_quotationVars => QuotationsInv'
<1> SUFFICES ASSUME QuotationsInv, [QuotationsNext]_quotationVars
             PROVE  QuotationsInv'
  OBVIOUS
<1>1. CASE UNCHANGED quotationVars
  BY <1>1 DEF quotationVars, QuotationsInv, QuotationsTypeOK, RowsOK,
              CurrentIsLatest
<1>2. CASE Quotes
  BY <1>2, QuotesCases, CreateInv, RewriteInv, ReviseInv
<1>3. ASSUME NEW j \in Jobs, JobGoesOn(j) PROVE QuotationsInv'
  <2>1. jobStatus' \in [Jobs -> JobStatuses]
    BY <1>3 DEF JobGoesOn, JobMoves, JobStatuses, ActiveJobStatuses,
                QuotationsInv, QuotationsTypeOK
  <2>2. QED
    BY <1>3, <2>1 DEF JobGoesOn, QuotationsInv, QuotationsTypeOK, RowsOK,
                      CurrentIsLatest
<1>4. QED
  BY <1>1, <1>2, <1>3 DEF QuotationsNext

\* QuotationsInv is inductive.
THEOREM QuotationsInvariant == QuotationsSpec => []QuotationsInv
<1>1. QuotationsInit => QuotationsInv
  BY QuotationsInitInv
<1>2. QuotationsInv /\ [QuotationsNext]_quotationVars => QuotationsInv'
  BY QuotationsStep
<1>3. QED
  BY <1>1, <1>2, PTL DEF QuotationsSpec

\* The tables of quotations hold well-formed rows, whatever the services do.
THEOREM QuotationsTyped == QuotationsSpec => []QuotationsTypeOK
<1>1. QuotationsInv => QuotationsTypeOK
  BY DEF QuotationsInv
<1>2. QED
  BY <1>1, QuotationsInvariant, PTL

\* A job that has a quotation always has a current one: its latest revision.
THEOREM LatestIsCurrent == QuotationsSpec => []CurrentIsLatest
<1>1. QuotationsInv => CurrentIsLatest
  BY DEF QuotationsInv
<1>2. QED
  BY <1>1, QuotationsInvariant, PTL

-----------------------------------------------------------------------------
(* What was sent is frozen *)

\* No step changes the offer of a row that has been sent.
LEMMA FrozenStep ==
  ASSUME QuotationsInv, [QuotationsNext]_quotationVars,
         NEW k \in Jobs, NEW m \in Revisions,
         quotations[k][m].status \notin {"ABSENT", "DRAFT"}
  PROVE  quotations'[k][m].offer = quotations[k][m].offer
<1>1. CASE UNCHANGED quotations
  BY <1>1
<1>2. ASSUME NEW j \in Jobs, NEW d \in Discounts, NEW t \in Taxes,
             CreateQuotation(j, d, t)
      PROVE  quotations'[k][m].offer = quotations[k][m].offer
  <2>1. k # j
    BY <1>2, CreateEffect DEF NoQuotation
  <2>2. QED
    BY <1>2, <2>1, CreateEffect DEF OtherwiseSame
<1>3. ASSUME NEW j \in Jobs, NEW r \in Revisions,
             \/ \E kind \in {"services", "products"}, price \in Prices :
                  AddLine(j, r, kind, price)
             \/ SubmitQuotation(j, r)
             \/ \E decision \in {"APPROVED", "REJECTED"} : Decide(j, r, decision)
      PROVE  quotations'[k][m].offer = quotations[k][m].offer
  <2>1. /\ quotations[j][r].status # "DRAFT"
             => quotations'[j][r].offer = quotations[j][r].offer
        /\ OtherwiseSame(j, r, r)
    BY <1>3, RewriteEffect
  <2>2. QED
    BY <2>1 DEF OtherwiseSame
<1>4. ASSUME NEW j \in Jobs, NEW r \in Revisions, CreateQuotationRevision(j, r)
      PROVE  quotations'[k][m].offer = quotations[k][m].offer
  <2>1. /\ quotations[j][r].status \in Revisable
        /\ quotations[j][r + 1] = NoQuotation
        /\ quotations'[j][r] = Retired(quotations[j][r])
        /\ OtherwiseSame(j, r, r + 1)
    BY <1>4, ReviseEffect
  <2>2. ~ (k = j /\ m = r + 1)
    BY <2>1 DEF NoQuotation
  <2>3. quotations[j][r] \in Quotation /\ QuotationOK(quotations[j][r])
    BY DEF QuotationsInv, QuotationsTypeOK, RowsOK
  <2>4. quotations'[j][r].offer = quotations[j][r].offer
    BY <2>1, <2>3, RetiredRow
  <2>5. QED
    BY <2>1, <2>2, <2>4 DEF OtherwiseSame
<1>5. CASE Quotes
  BY <1>2, <1>3, <1>4, <1>5, QuotesCases
<1>6. QED
  BY <1>1, <1>5 DEF QuotationsNext, JobGoesOn, quotationVars

\* What the customer has seen never changes: every service that writes lines
\* or terms insists on a draft, and a revision is a row of its own.
THEOREM SentStaysFrozen == QuotationsSpec => SentIsFrozen
<1>1. QuotationsInv /\ [QuotationsNext]_quotationVars
        => [\A j \in Jobs, r \in Revisions :
              quotations[j][r].status \notin {"ABSENT", "DRAFT"} =>
                quotations'[j][r].offer = quotations[j][r].offer]_quotations
  BY FrozenStep
<1>2. QED
  BY <1>1, QuotationsInvariant, PTL DEF QuotationsSpec, SentIsFrozen

-----------------------------------------------------------------------------
(* The customer's approval is an agreement *)

\* The one approved revision is what ApprovedOffer finds.
ApprovalKnown ==
  \A j \in Jobs :
    /\ \A r \in Revisions : quotations[j][r].status = "APPROVED"
         => ApprovedOffer(j) = quotations[j][r]
    /\ (\A r \in Revisions : quotations[j][r].status # "APPROVED")
         => ApprovedOffer(j) = NoQuotation

LEMMA ApprovalIsKnown == QuotationsInv => ApprovalKnown
<1> SUFFICES ASSUME QuotationsInv, NEW j \in Jobs
    PROVE  /\ \A r \in Revisions : quotations[j][r].status = "APPROVED"
                => ApprovedOffer(j) = quotations[j][r]
           /\ (\A r \in Revisions : quotations[j][r].status # "APPROVED")
                => ApprovedOffer(j) = NoQuotation
  BY DEF ApprovalKnown
<1> DEFINE approved == {r \in Revisions : quotations[j][r].status = "APPROVED"}
<1>1. ASSUME NEW r \in approved, NEW s \in approved PROVE ~ (s < r)
  <2>1. SUFFICES ASSUME s < r PROVE FALSE
    OBVIOUS
  <2>2. s \in 1..(r - 1)
    BY <2>1, QuotationsAssumption DEF Revisions
  <2>3. quotations[j][r] # NoQuotation
    BY DEF NoQuotation
  <2>4. QED
    BY <2>2, <2>3 DEF QuotationsInv, CurrentIsLatest
<1>2. ASSUME NEW r \in approved, NEW s \in approved PROVE r = s
  BY <1>1, QuotationsAssumption DEF Revisions
<1>3. ASSUME NEW r \in approved PROVE ApprovedOffer(j) = quotations[j][r]
  <2>1. (CHOOSE s \in approved : TRUE) \in approved
    OBVIOUS
  <2>2. (CHOOSE s \in approved : TRUE) = r
    BY <1>2, <2>1
  <2>3. QED
    BY <2>2 DEF ApprovedOffer
<1>4. QED
  BY <1>3 DEF ApprovedOffer

\* What was agreed stays, where approved rows stay and none is added.
LEMMA SameApproval ==
  ASSUME ApprovalKnown, ApprovalKnown', NEW j \in Jobs,
         \A r \in Revisions :
           \/ quotations[j][r].status = "APPROVED"
           \/ quotations'[j][r].status = "APPROVED"
           => quotations'[j][r] = quotations[j][r]
  PROVE  ApprovedOffer(j)' = ApprovedOffer(j)
<1>1. CASE \E r \in Revisions : quotations[j][r].status = "APPROVED"
  BY <1>1 DEF ApprovalKnown
<1>2. CASE \A r \in Revisions : quotations[j][r].status # "APPROVED"
  <2>1. \A r \in Revisions : quotations'[j][r].status # "APPROVED"
    BY <1>2
  <2>2. QED
    BY <1>2, <2>1 DEF ApprovalKnown
<1>3. QED
  BY <1>1, <1>2

\* Where nothing is approved but one row, the other jobs' agreements stay.
LEMMA OthersAgreed ==
  ASSUME ApprovalKnown, ApprovalKnown', NEW j \in Jobs,
         \A k \in Jobs : k # j => quotations'[k] = quotations[k]
  PROVE  \A k \in Jobs : k # j => ApprovedOffer(k)' = ApprovedOffer(k)
  BY SameApproval

\* A decision for the offer is the one step that reaches an agreement.
LEMMA ApproveAgrees ==
  ASSUME QuotationsInv, QuotationsInv', ApprovalKnown, ApprovalKnown',
         NEW j \in Jobs, NEW r \in Revisions, Decide(j, r, "APPROVED")
  PROVE  Approval!AgreementNext
<1> DEFINE new == quotations'[j][r]
<1>1. /\ quotations[j][r].status = "SENT" /\ quotations[j][r].current
      /\ new.current /\ new # NoQuotation
      /\ quotations' \in [Jobs -> [Revisions -> Quotation]]
      /\ OtherwiseSame(j, r, r)
  BY RewriteEffect DEF Decide, CanDecide
<1>2. new.status = "APPROVED"
  BY DEF Decide, CanDecide, QuotationsInv, QuotationsTypeOK, Quotation
<1>3. ApprovedOffer(j) = NoQuotation
  <2>1. ASSUME NEW s \in Revisions PROVE quotations[j][s].status # "APPROVED"
    <3>1. CASE s > r
      <4>1. quotations[j][s] = NoQuotation
        BY <1>1, <3>1 DEF QuotationsInv, CurrentIsLatest
      <4>2. QED
        BY <4>1 DEF NoQuotation
    <3>2. CASE s < r
      <4>1. s \in 1..(r - 1)
        BY <3>2, QuotationsAssumption DEF Revisions
      <4>2. quotations[j][r] # NoQuotation
        BY <1>1 DEF NoQuotation
      <4>3. QED
        BY <4>1, <4>2 DEF QuotationsInv, CurrentIsLatest
    <3>3. CASE s = r
      BY <1>1, <3>3
    <3>4. QED
      BY <3>1, <3>2, <3>3, QuotationsAssumption DEF Revisions
  <2>2. QED
    BY <2>1 DEF ApprovalKnown
<1>4. ApprovedOffer(j)' = new
  BY <1>2 DEF ApprovalKnown
<1>5. new \in {q \in Quotation : q.current /\ LineCount(q.offer) > 0}
  <2>1. QuotationOK(new)
    BY DEF QuotationsInv, RowsOK
  <2>2. QED
    BY <1>1, <1>2, <2>1 DEF QuotationOK
<1>6. \A k \in Jobs : k # j => ApprovedOffer(k)' = ApprovedOffer(k)
  BY <1>1, OthersAgreed DEF OtherwiseSame
<1> HIDE DEF new
<1> DEFINE agreed == [k \in Jobs |-> ApprovedOffer(k)]
<1>7. agreed' = [agreed EXCEPT ![j] = new]
  BY <1>4, <1>6
<1>8. agreed[j] = NoQuotation /\ agreed'[j] = new
  BY <1>3, <1>7
<1>9. Approval!Agree(j, agreed'[j])
  BY <1>5, <1>7, <1>8 DEF Approval!Agree
<1>10. QED
  BY <1>9 DEF Approval!AgreementNext

\* No other step of the services touches an agreement.
LEMMA OtherStepsAgree ==
  ASSUME QuotationsInv, ApprovalKnown, ApprovalKnown', NEW j \in Jobs,
         \/ \E d \in Discounts, t \in Taxes : CreateQuotation(j, d, t)
         \/ \E r \in Revisions :
              \/ \E kind \in {"services", "products"}, price \in Prices :
                   AddLine(j, r, kind, price)
              \/ SubmitQuotation(j, r)
              \/ Decide(j, r, "REJECTED")
              \/ CreateQuotationRevision(j, r)
  PROVE  \A k \in Jobs : ApprovedOffer(k)' = ApprovedOffer(k)
<1>1. ASSUME NEW d \in Discounts, NEW t \in Taxes, CreateQuotation(j, d, t)
      PROVE  \A k \in Jobs : ApprovedOffer(k)' = ApprovedOffer(k)
  <2>1. /\ \A r \in Revisions : quotations[j][r] = NoQuotation
        /\ quotations'[j][1] = Draft(EmptyOffer(d, t))
        /\ OtherwiseSame(j, 1, 1)
    BY <1>1, CreateEffect
  <2>2. ASSUME NEW m \in Revisions
        PROVE  /\ quotations[j][m].status # "APPROVED"
               /\ quotations'[j][m].status # "APPROVED"
    BY <2>1 DEF OtherwiseSame, NoQuotation, Draft
  <2>3. ApprovedOffer(j)' = ApprovedOffer(j)
    BY <2>2, SameApproval
  <2>4. QED
    BY <2>1, <2>3, OthersAgreed DEF OtherwiseSame
<1>2. ASSUME NEW r \in Revisions,
             \/ \E kind \in {"services", "products"}, price \in Prices :
                  AddLine(j, r, kind, price)
             \/ SubmitQuotation(j, r)
             \/ Decide(j, r, "REJECTED")
      PROVE  \A k \in Jobs : ApprovedOffer(k)' = ApprovedOffer(k)
  <2>1. /\ quotations[j][r].status \in {"DRAFT", "SENT"}
        /\ OtherwiseSame(j, r, r)
    BY <1>2, RewriteEffect
  <2>2. quotations \in [Jobs -> [Revisions -> Quotation]]
    BY DEF QuotationsInv, QuotationsTypeOK
  <2>3. quotations'[j][r].status # "APPROVED"
    <3>1. CASE \E kind \in {"services", "products"}, price \in Prices :
                 AddLine(j, r, kind, price)
      <4>1. PICK offer :
              /\ quotations[j][r].status = "DRAFT"
              /\ quotations' = [quotations EXCEPT ![j][r].offer = offer]
        BY <3>1 DEF AddLine, CanAddLine, Editable
      <4>2. quotations'[j][r] = [quotations[j][r] EXCEPT !.offer = offer]
        BY <2>2, <4>1
      <4>3. QED
        BY <2>2, <4>1, <4>2 DEF Quotation
    <3>2. CASE SubmitQuotation(j, r)
      BY <2>2, <3>2 DEF SubmitQuotation, CanSubmit, Quotation
    <3>3. CASE Decide(j, r, "REJECTED")
      BY <2>2, <3>3 DEF Decide, CanDecide, Quotation
    <3>4. QED
      BY <1>2, <3>1, <3>2, <3>3
  <2>4. ApprovedOffer(j)' = ApprovedOffer(j)
    BY <2>1, <2>3, SameApproval DEF OtherwiseSame
  <2>5. QED
    BY <2>1, <2>4, OthersAgreed DEF OtherwiseSame
<1>3. ASSUME NEW r \in Revisions, CreateQuotationRevision(j, r)
      PROVE  \A k \in Jobs : ApprovedOffer(k)' = ApprovedOffer(k)
  <2>1. /\ quotations[j][r].status \in Revisable
        /\ quotations[j][r + 1] = NoQuotation
        /\ quotations'[j][r] = Retired(quotations[j][r])
        /\ quotations'[j][r + 1] = Draft(quotations[j][r].offer)
        /\ OtherwiseSame(j, r, r + 1)
    BY <1>3, ReviseEffect
  <2>2. quotations[j][r] \in Quotation /\ QuotationOK(quotations[j][r])
    BY DEF QuotationsInv, QuotationsTypeOK, RowsOK
  <2>3. quotations'[j][r].status # "APPROVED"
    BY <2>1, <2>2, RetiredRow
  <2>4. /\ quotations[j][r].status # "APPROVED"
        /\ quotations[j][r + 1].status # "APPROVED"
        /\ quotations'[j][r + 1].status # "APPROVED"
    BY <2>1 DEF Revisable, NoQuotation, Draft
  <2>5. ApprovedOffer(j)' = ApprovedOffer(j)
    BY <2>1, <2>3, <2>4, SameApproval DEF OtherwiseSame
  <2>6. QED
    BY <2>1, <2>5, OthersAgreed DEF OtherwiseSame
<1>4. QED
  BY <1>1, <1>2, <1>3

\* Every step of the application is an agreement or leaves them alone.
LEMMA AgreementStep ==
  ASSUME QuotationsInv, QuotationsInv', ApprovalKnown, ApprovalKnown',
         [QuotationsNext]_quotationVars
  PROVE  \/ Approval!AgreementNext
         \/ \A k \in Jobs : ApprovedOffer(k)' = ApprovedOffer(k)
<1>1. CASE UNCHANGED quotations
  BY <1>1 DEF ApprovedOffer
<1>2. CASE Quotes
  <2>1. PICK j \in Jobs :
          \/ \E d \in Discounts, t \in Taxes : CreateQuotation(j, d, t)
          \/ \E r \in Revisions :
               \/ \E kind \in {"services", "products"}, price \in Prices :
                    AddLine(j, r, kind, price)
               \/ SubmitQuotation(j, r)
               \/ \E decision \in {"APPROVED", "REJECTED"} :
                    Decide(j, r, decision)
               \/ CreateQuotationRevision(j, r)
    BY <1>2, QuotesCases
  <2>2. CASE \E r \in Revisions : Decide(j, r, "APPROVED")
    BY <2>2, ApproveAgrees
  <2>3. CASE ~ \E r \in Revisions : Decide(j, r, "APPROVED")
    <3>1. \/ \E d \in Discounts, t \in Taxes : CreateQuotation(j, d, t)
          \/ \E r \in Revisions :
               \/ \E kind \in {"services", "products"}, price \in Prices :
                    AddLine(j, r, kind, price)
               \/ SubmitQuotation(j, r)
               \/ Decide(j, r, "REJECTED")
               \/ CreateQuotationRevision(j, r)
      BY <2>1, <2>3
    <3>2. QED
      BY <3>1, OtherStepsAgree
  <2>4. QED
    BY <2>2, <2>3
<1>3. QED
  BY <1>1, <1>2 DEF QuotationsNext, JobGoesOn, quotationVars

\* The quotations application implements Agreement: the customer's approval
\* is reached at most once and never withdrawn, superseded or altered.
THEOREM QuotationsImplementAgreement == QuotationsSpec => ImplementsAgreement
<1> DEFINE agreed == [j \in Jobs |-> ApprovedOffer(j)]
<1>1. QuotationsInit => Approval!AgreementInit
  <2>1. QuotationsInit => \A j \in Jobs : ApprovedOffer(j) = NoQuotation
    BY DEF QuotationsInit, ApprovedOffer, NoQuotation
  <2>2. QED
    BY <2>1 DEF Approval!AgreementInit
<1>2. /\ QuotationsInv /\ QuotationsInv'
      /\ ApprovalKnown /\ ApprovalKnown'
      /\ [QuotationsNext]_quotationVars
      => [Approval!AgreementNext]_agreed
  BY AgreementStep
<1>3. QED
  BY <1>1, <1>2, QuotationsInvariant, ApprovalIsKnown, PTL
     DEF QuotationsSpec, ImplementsAgreement, Approval!AgreementSpec

-----------------------------------------------------------------------------
(* A visit: the strengthening *)

FileTypes ==
  /\ visits \in [Jobs -> Visit]
  /\ mileage \in [Vehicles -> Nat \cup {None}]
  /\ orderStatus \in [Jobs -> WorkOrders!OrderStatuses \cup {"ABSENT"}]
  /\ stage \in [Jobs -> {"NONE", "DRAFT", "OPEN", "VOIDED"}]
  /\ due \in [Jobs -> Nat] /\ paid \in [Jobs -> Nat]
  /\ releases \in [Jobs -> Release]

\* Only completed work is billed, and nobody pays more than is due.
BilledWhenDone ==
  \A j \in Jobs :
    /\ stage[j] # "NONE" => orderStatus[j] = "COMPLETED"
    /\ stage[j] = "NONE" => due[j] = 0
    /\ paid[j] <= due[j]

\* Whatever the workshop has an order for is the job's one agreement.
OrderedAsAgreed ==
  \A j \in Jobs : orderStatus[j] # "ABSENT" =>
    /\ ApprovedOffer(j) # NoQuotation
    /\ ApprovedOffer(j).offer.services > 0
    /\ due[j] <= OfferTotal(ApprovedOffer(j).offer)

FileInv ==
  /\ QuotationsInv
  /\ FileTypes
  /\ OneActiveJob
  /\ BilledWhenDone
  /\ OrderedAsAgreed
  /\ HandedOverBilled

-----------------------------------------------------------------------------
(* Quotations within the composition *)

\* Every step of a visit is a step of the quotations application, or
\* invisible to it.
LEMMA FileQuotes ==
  ASSUME QuotationsTypeOK, [Next]_jobFileVars
  PROVE  [QuotationsNext]_quotationVars
<1>1. ASSUME NEW j \in Jobs, NEW v, NEW m, OpenJobCard(j, v, m)
      PROVE  QuotationsNext
  <2>1. <<"ABSENT", "OPEN">> \in JobMoves
    BY DEF JobMoves
  <2>2. JobGoesOn(j)
    BY <1>1, <2>1 DEF OpenJobCard, JobGoesOn
  <2>3. QED
    BY <2>2 DEF QuotationsNext
<1>2. ASSUME NEW j \in Jobs, AddInspection(j) PROVE QuotationsNext
  <2>1. <<"OPEN", "INSPECTED">> \in JobMoves
    BY DEF JobMoves
  <2>2. JobGoesOn(j)
    BY <1>2, <2>1 DEF AddInspection, AwaitsInspection, JobGoesOn
  <2>3. QED
    BY <2>2 DEF QuotationsNext
<1>3. ASSUME NEW j \in Jobs, jobStatus[j] \in ActiveJobStatuses,
             jobStatus' = [jobStatus EXCEPT ![j] = "RELEASED"],
             UNCHANGED quotations
      PROVE  QuotationsNext
  <2>1. <<jobStatus[j], "RELEASED">> \in JobMoves
    BY <1>3 DEF JobMoves
  <2>2. JobGoesOn(j)
    BY <1>3, <2>1 DEF JobGoesOn
  <2>3. QED
    BY <2>2 DEF QuotationsNext
<1>4. ASSUME NEW j \in Jobs, CancelJobCard(j) PROVE QuotationsNext
  <2>1. <<jobStatus[j], "CANCELLED">> \in JobMoves
    BY <1>4 DEF CancelJobCard, QuotationsTypeOK, JobStatuses, JobMoves
  <2>2. JobGoesOn(j)
    BY <1>4, <2>1 DEF CancelJobCard, JobGoesOn
  <2>3. QED
    BY <2>2 DEF QuotationsNext
<1>5. ASSUME NEW j \in Jobs, NEW m, NEW override, ReleaseVehicle(j, m, override)
      PROVE  QuotationsNext
  BY <1>3, <1>5 DEF ReleaseVehicle, CanRelease
<1>6. ASSUME NEW j \in Jobs,
             \/ CreateWorkOrder(j) \/ WorkOrderMoves(j) \/ BillMoves(j)
             \/ \E n \in 1..OfferTotal(ApprovedOffer(j).offer) : DrawBill(j, n)
      PROVE  UNCHANGED quotationVars
  BY <1>6 DEF CreateWorkOrder, WorkOrderMoves, BillMoves, DrawBill,
              quotationVars
<1>7. ASSUME NEW v, NEW m, UpdateVehicle(v, m) PROVE UNCHANGED quotationVars
  BY <1>7 DEF UpdateVehicle, quotationVars
<1>8. CASE Next
  BY <1>1, <1>2, <1>4, <1>5, <1>6, <1>7, <1>8 DEF Next, QuotationsNext
<1>9. CASE UNCHANGED jobFileVars
  BY <1>9 DEF jobFileVars, quotationVars
<1>10. QED
  BY <1>8, <1>9

\* An agreement stays what it is.
LEMMA AgreementStays ==
  ASSUME QuotationsInv, QuotationsInv', [QuotationsNext]_quotationVars,
         NEW j \in Jobs, ApprovedOffer(j) # NoQuotation
  PROVE  ApprovedOffer(j)' = ApprovedOffer(j)
<1> DEFINE agreed == [k \in Jobs |-> ApprovedOffer(k)]
<1>1. ApprovalKnown /\ ApprovalKnown'
  BY ApprovalIsKnown, PTL
<1>2. CASE Approval!AgreementNext
  <2>1. PICK k \in Jobs : Approval!Agree(k, agreed'[k])
    BY <1>2 DEF Approval!AgreementNext
  <2>2. agreed[k] = NoQuotation /\ agreed' = [agreed EXCEPT ![k] = agreed'[k]]
    BY <2>1 DEF Approval!Agree
  <2>3. j # k
    BY <2>2
  <2>4. agreed'[j] = agreed[j]
    BY <2>2, <2>3
  <2>5. QED
    BY <2>4
<1>3. CASE \A k \in Jobs : ApprovedOffer(k)' = ApprovedOffer(k)
  BY <1>3
<1>4. QED
  BY <1>1, <1>2, <1>3, AgreementStep

\* What a revision comes to is an amount.
LEMMA OfferIsAmount ==
  ASSUME NEW offer \in Offer
  PROVE  OfferTotal(offer) \in Nat
<1>1. /\ offer.subtotal \in Nat /\ offer.discount \in Percentages
      /\ offer.tax \in Percentages
  BY DEF Offer
<1>2. InvoiceSum(offer.subtotal, offer.discount, offer.tax) \in Nat
  BY <1>1, InvoiceSumMonotone
<1>3. QED
  BY <1>2, SameFormula DEF OfferTotal

\* The agreement is the approved revision, the current one.
LEMMA AgreementIsApproved ==
  ASSUME QuotationsInv, NEW j \in Jobs
  PROVE  /\ OfferTotal(ApprovedOffer(j).offer) \in Nat
         /\ ApprovedOffer(j) # NoQuotation =>
              \E r \in Revisions :
                /\ quotations[j][r].status = "APPROVED"
                /\ quotations[j][r].current
                /\ ApprovedOffer(j) = quotations[j][r]
<1>1. ApprovalKnown
  BY ApprovalIsKnown
<1>2. ASSUME NEW r \in Revisions, quotations[j][r].status = "APPROVED"
      PROVE  /\ quotations[j][r].current
             /\ quotations[j][r].offer \in Offer
  <2>1. quotations[j][r] # NoQuotation
    BY <1>2 DEF NoQuotation
  <2>2. \A s \in Revisions : s > r => quotations[j][s] = NoQuotation
    <3>1. SUFFICES ASSUME NEW s \in Revisions, s > r,
                          quotations[j][s] # NoQuotation
                   PROVE  FALSE
      OBVIOUS
    <3>2. r \in 1..(s - 1)
      BY <3>1, QuotationsAssumption DEF Revisions
    <3>3. QED
      BY <1>2, <3>1, <3>2 DEF QuotationsInv, CurrentIsLatest
  <2>3. QED
    BY <2>1, <2>2 DEF QuotationsInv, CurrentIsLatest, QuotationsTypeOK,
                      Quotation
<1>3. CASE \E r \in Revisions : quotations[j][r].status = "APPROVED"
  <2>1. PICK r \in Revisions : quotations[j][r].status = "APPROVED"
    BY <1>3
  <2>2. ApprovedOffer(j) = quotations[j][r]
    BY <1>1, <2>1 DEF ApprovalKnown
  <2>3. QED
    BY <1>2, <2>1, <2>2, OfferIsAmount
<1>4. CASE \A r \in Revisions : quotations[j][r].status # "APPROVED"
  <2>1. ApprovedOffer(j) = NoQuotation
    BY <1>1, <1>4 DEF ApprovalKnown
  <2>2. NoQuotation.offer \in Offer
    BY DEF NoQuotation, EmptyOffer, Offer, Percentages
  <2>3. QED
    BY <2>1, <2>2, OfferIsAmount
<1>5. QED
  BY <1>3, <1>4

-----------------------------------------------------------------------------
(* The invariant *)

LEMMA FileInit == Init => FileInv
<1> SUFFICES ASSUME Init PROVE FileInv
  OBVIOUS
<1>1. QuotationsInv
  BY QuotationsInitInv DEF Init
<1>2. /\ orderStatus = [j \in Jobs |-> "ABSENT"]
      /\ stage = [j \in Jobs |-> "NONE"]
      /\ due = [j \in Jobs |-> 0] /\ paid = [j \in Jobs |-> 0]
      /\ jobStatus = [j \in Jobs |-> "ABSENT"]
  BY DEF Init, WorkOrders!LifeInit, Bills!ReceivableInit, QuotationsInit
<1>3. NoVisit \in Visit /\ NoRelease \in Release /\ ~ NoRelease.made
  BY DEF NoVisit, Visit, NoRelease, Release
<1>4. FileTypes
  BY <1>2, <1>3 DEF Init, FileTypes
<1>5. OneActiveJob
  BY <1>2 DEF OneActiveJob, ActiveJobStatuses
<1>6. BilledWhenDone /\ OrderedAsAgreed
  BY <1>2 DEF BilledWhenDone, OrderedAsAgreed
<1>7. HandedOverBilled
  BY <1>3 DEF Init, HandedOverBilled
<1>8. QED
  BY <1>1, <1>4, <1>5, <1>6, <1>7 DEF FileInv

\* Where orders, bills and handovers are left alone, what is known of them
\* stays, since the agreements do.
LEMMA QuietStep ==
  ASSUME FileInv, QuotationsInv', [QuotationsNext]_quotationVars,
         UNCHANGED <<orderStatus, billVars>>
  PROVE  /\ BilledWhenDone'
         /\ OrderedAsAgreed'
         /\ UNCHANGED releases => HandedOverBilled'
<1>1. \A j \in Jobs : ApprovedOffer(j) # NoQuotation
                     => ApprovedOffer(j)' = ApprovedOffer(j)
  BY AgreementStays DEF FileInv
<1>2. BilledWhenDone'
  BY DEF FileInv, BilledWhenDone, billVars
<1>3. OrderedAsAgreed'
  BY <1>1 DEF FileInv, OrderedAsAgreed, billVars
<1>4. UNCHANGED releases => HandedOverBilled'
  BY DEF FileInv, HandedOverBilled, billVars
<1>5. QED
  BY <1>2, <1>3, <1>4

\* Jobs that become less active, or not at all more, stay one per vehicle.
LEMMA StillOneActive ==
  ASSUME FileInv, UNCHANGED visits,
         \A j \in Jobs : jobStatus'[j] \in ActiveJobStatuses
                       => jobStatus[j] \in ActiveJobStatuses
  PROVE  OneActiveJob'
  BY DEF FileInv, OneActiveJob

\* Steps that leave orders, bills and visits alone.
LEMMA QuietInv ==
  ASSUME FileInv, QuotationsInv', [QuotationsNext]_quotationVars,
         UNCHANGED <<visits, orderStatus, billVars, releases>>,
         mileage' \in [Vehicles -> Nat \cup {None}],
         \A j \in Jobs : jobStatus'[j] \in ActiveJobStatuses
                       => jobStatus[j] \in ActiveJobStatuses
  PROVE  FileInv'
<1>1. FileTypes'
  BY DEF FileInv, FileTypes, billVars
<1>2. QED
  BY <1>1, QuietStep, StillOneActive DEF FileInv

LEMMA OpenJobCardInv ==
  ASSUME FileInv, QuotationsInv', [QuotationsNext]_quotationVars,
         NEW j \in Jobs, NEW v \in Vehicles, NEW m \in Mileages,
         OpenJobCard(j, v, m)
  PROVE  FileInv'
<1>1. /\ jobStatus' = [jobStatus EXCEPT ![j] = "OPEN"]
      /\ visits' = [visits EXCEPT ![j] = [vehicle |-> v, arrival |-> m]]
      /\ mileage' = [mileage EXCEPT ![v] = m]
      /\ ~ HasActiveJob(v)
      /\ UNCHANGED <<orderStatus, billVars, releases>>
  BY DEF OpenJobCard
<1>2. m \in Nat
  BY JobFileAssumption DEF Mileages
<1>3. FileTypes'
  <2>1. [vehicle |-> v, arrival |-> m] \in Visit
    BY <1>2 DEF Visit
  <2>2. visits' \in [Jobs -> Visit] /\ mileage' \in [Vehicles -> Nat \cup {None}]
    BY <1>1, <1>2, <2>1 DEF FileInv, FileTypes
  <2>3. QED
    BY <1>1, <2>2 DEF FileInv, FileTypes, billVars
<1>4. OneActiveJob'
  <2>1. visits \in [Jobs -> Visit] /\ DOMAIN jobStatus = Jobs
    BY DEF FileInv, FileTypes, QuotationsInv, QuotationsTypeOK
  <2>2. visits'[j].vehicle = v
    BY <1>1, <2>1
  <2>3. ASSUME NEW k \in Jobs, k # j
        PROVE  visits'[k] = visits[k] /\ jobStatus'[k] = jobStatus[k]
    BY <1>1, <2>1, <2>3
  <2>4. ASSUME NEW k \in Jobs, k # j, jobStatus'[k] \in ActiveJobStatuses
        PROVE  visits'[k].vehicle # v
    BY <1>1, <2>3, <2>4 DEF HasActiveJob
  <2>5. QED
    BY <2>2, <2>3, <2>4 DEF FileInv, OneActiveJob
<1>5. QED
  BY <1>1, <1>3, <1>4, QuietStep DEF FileInv

\* A step of the order keeps what is agreed and billed: it begins with an
\* agreement, and never moves once there is a bill.
LEMMA OrderInv ==
  ASSUME FileInv, QuotationsInv', [QuotationsNext]_quotationVars,
         NEW j \in Jobs, CreateWorkOrder(j) \/ WorkOrderMoves(j)
  PROVE  FileInv'
<1>1. /\ UNCHANGED <<jobStatus, quotations, visits, mileage, releases>>
      /\ UNCHANGED <<stage, due, paid>>
  BY DEF CreateWorkOrder, WorkOrderMoves, visitVars, billVars
<1>2. /\ orderStatus[j] # "COMPLETED"
      /\ \E s \in WorkOrders!OrderStatuses :
           orderStatus' = [orderStatus EXCEPT ![j] = s]
  <2>1. CASE CreateWorkOrder(j)
    BY <2>1 DEF CreateWorkOrder, WorkOrders!Begins, WorkOrders!OrderStatuses
  <2>2. CASE WorkOrderMoves(j)
    <3>1. PICK move \in WorkOrders!OrderMoves :
            /\ orderStatus[j] = move[1]
            /\ orderStatus' = [orderStatus EXCEPT ![j] = move[2]]
      BY <2>2 DEF WorkOrderMoves, WorkOrders!Moves
    <3>2. move[1] # "COMPLETED" /\ move[2] \in WorkOrders!OrderStatuses
      BY DEF WorkOrders!OrderMoves, WorkOrders!OrderStatuses
    <3>3. QED
      BY <3>1, <3>2
  <2>3. QED
    BY <2>1, <2>2
<1>3. PICK s \in WorkOrders!OrderStatuses :
        orderStatus' = [orderStatus EXCEPT ![j] = s]
  BY <1>2
<1>4. FileTypes'
  BY <1>1, <1>3 DEF FileInv, FileTypes
<1>5. \A k \in Jobs : k # j => orderStatus'[k] = orderStatus[k]
  BY <1>3 DEF FileInv, FileTypes
<1>6. BilledWhenDone' /\ HandedOverBilled'
  BY <1>1, <1>2, <1>5 DEF FileInv, BilledWhenDone, HandedOverBilled
<1>7. OneActiveJob'
  BY <1>1, StillOneActive
<1>8. \A k \in Jobs : ApprovedOffer(k)' = ApprovedOffer(k)
  BY <1>1 DEF ApprovedOffer
<1>9. /\ ApprovedOffer(j) # NoQuotation
      /\ ApprovedOffer(j).offer.services > 0
      /\ due[j] <= OfferTotal(ApprovedOffer(j).offer)
  <2>1. CASE CreateWorkOrder(j)
    <3>1. PICK r \in Revisions :
            /\ quotations[j][r].status = "APPROVED"
            /\ quotations[j][r].offer.services > 0
      BY <2>1 DEF CreateWorkOrder, CanBeOrdered, IsApproved
    <3>2. ApprovedOffer(j) = quotations[j][r]
      BY <3>1, ApprovalIsKnown DEF FileInv, ApprovalKnown
    <3>3. ApprovedOffer(j) # NoQuotation
      BY <3>1, <3>2 DEF NoQuotation
    <3>4. due[j] = 0
      <4>1. orderStatus[j] = "ABSENT"
        BY <2>1 DEF CreateWorkOrder, WorkOrders!Begins
      <4>2. QED
        BY <4>1 DEF FileInv, BilledWhenDone
    <3>5. OfferTotal(ApprovedOffer(j).offer) \in Nat
      BY AgreementIsApproved DEF FileInv
    <3>6. QED
      BY <3>1, <3>2, <3>3, <3>4, <3>5
  <2>2. CASE WorkOrderMoves(j)
    <3>1. orderStatus[j] # "ABSENT"
      BY <2>2 DEF WorkOrderMoves, WorkOrders!Moves, WorkOrders!OrderMoves
    <3>2. QED
      BY <3>1 DEF FileInv, OrderedAsAgreed
  <2>3. QED
    BY <2>1, <2>2
<1>10. OrderedAsAgreed'
  BY <1>1, <1>5, <1>8, <1>9 DEF FileInv, OrderedAsAgreed
<1>11. QED
  BY <1>4, <1>6, <1>7, <1>10 DEF FileInv

\* A bill is drawn for completed work, within the agreement.
LEMMA DrawBillInv ==
  ASSUME FileInv, QuotationsInv', NEW j \in Jobs,
         NEW n \in 1..OfferTotal(ApprovedOffer(j).offer), DrawBill(j, n)
  PROVE  FileInv'
<1>1. /\ UNCHANGED <<jobStatus, quotations, visits, mileage, releases>>
      /\ UNCHANGED <<orderStatus, paid>>
      /\ orderStatus[j] = "COMPLETED" /\ stage[j] = "NONE"
      /\ stage' = [stage EXCEPT ![j] = "DRAFT"]
      /\ due' = [due EXCEPT ![j] = n]
      /\ n <= OfferTotal(ApprovedOffer(j).offer)
  BY DEF DrawBill, Bills!Draw, Bills!Advance, visitVars
<1>2. n \in Nat /\ n > 0
  BY AgreementIsApproved DEF FileInv
<1>3. FileTypes'
  BY <1>1, <1>2 DEF FileInv, FileTypes
<1>4. /\ due'[j] = n /\ stage'[j] = "DRAFT"
      /\ \A k \in Jobs : k # j => due'[k] = due[k] /\ stage'[k] = stage[k]
  BY <1>1 DEF FileInv, FileTypes
<1>5. ~ releases[j].made
  BY <1>1 DEF FileInv, HandedOverBilled
<1>6. BilledWhenDone'
  <2>1. paid[j] \in Nat /\ due[j] = 0 /\ paid[j] <= due[j]
    BY <1>1 DEF FileInv, FileTypes, BilledWhenDone
  <2>2. paid[j] <= n
    BY <1>2, <2>1
  <2>3. QED
    BY <1>1, <1>4, <2>2 DEF FileInv, BilledWhenDone
<1>7. OrderedAsAgreed'
  <2>1. \A k \in Jobs : ApprovedOffer(k)' = ApprovedOffer(k)
    BY <1>1 DEF ApprovedOffer
  <2>2. QED
    BY <1>1, <1>4, <2>1 DEF FileInv, OrderedAsAgreed
<1>8. HandedOverBilled'
  BY <1>1, <1>4, <1>5 DEF FileInv, HandedOverBilled
<1>9. QED
  BY <1>1, <1>3, <1>6, <1>7, <1>8, StillOneActive DEF FileInv

\* An open bill moves within what is due, and does not come back.
LEMMA BillMovesInv ==
  ASSUME FileInv, QuotationsInv', NEW j \in Jobs, BillMoves(j)
  PROVE  FileInv'
<1>1. UNCHANGED <<jobStatus, quotations, visits, mileage, orderStatus, releases>>
  BY DEF BillMoves, visitVars
<1>2. /\ UNCHANGED due
      /\ stage[j] \in {"DRAFT", "OPEN"}
      /\ \/ UNCHANGED paid
         \/ \E n \in 0..due[j] : paid' = [paid EXCEPT ![j] = n]
      /\ \/ UNCHANGED stage
         \/ \E s \in {"OPEN", "VOIDED"} : stage' = [stage EXCEPT ![j] = s]
  BY DEF BillMoves, Bills!Open, Bills!Withdraw, Bills!Settle, Bills!Advance
<1>3. /\ stage' \in [Jobs -> {"NONE", "DRAFT", "OPEN", "VOIDED"}]
      /\ \A k \in Jobs :
           \/ stage'[k] = stage[k]
           \/ k = j /\ stage'[k] \in {"OPEN", "VOIDED"}
  BY <1>2 DEF FileInv, FileTypes
<1>4. paid' \in [Jobs -> Nat] /\ \A k \in Jobs : paid'[k] <= due[k]
  BY <1>2 DEF FileInv, FileTypes, BilledWhenDone
<1>5. FileTypes'
  BY <1>1, <1>2, <1>3, <1>4 DEF FileInv, FileTypes
<1>6. BilledWhenDone'
  BY <1>1, <1>2, <1>3, <1>4 DEF FileInv, BilledWhenDone
<1>7. OrderedAsAgreed'
  <2>1. \A k \in Jobs : ApprovedOffer(k)' = ApprovedOffer(k)
    BY <1>1 DEF ApprovedOffer
  <2>2. QED
    BY <1>1, <1>2, <2>1 DEF FileInv, OrderedAsAgreed
<1>8. HandedOverBilled'
  BY <1>1, <1>2, <1>3 DEF FileInv, HandedOverBilled
<1>9. QED
  BY <1>1, <1>5, <1>6, <1>7, <1>8, StillOneActive DEF FileInv

\* The handover records the bill as it is, and the decision to let a debtor go.
LEMMA ReleaseInv ==
  ASSUME FileInv, QuotationsInv', [QuotationsNext]_quotationVars,
         NEW j \in Jobs, NEW m \in Mileages, NEW override \in BOOLEAN,
         ReleaseVehicle(j, m, override)
  PROVE  FileInv'
<1> DEFINE row == [made |-> TRUE, mileage |-> m, total |-> due[j],
                   paid |-> paid[j], override |-> override]
<1>1. /\ orderStatus[j] = "COMPLETED" /\ stage[j] = "OPEN"
      /\ override <=> paid[j] # due[j]
      /\ jobStatus' = [jobStatus EXCEPT ![j] = "RELEASED"]
      /\ mileage' = [mileage EXCEPT ![visits[j].vehicle] = m]
      /\ releases' = [releases EXCEPT ![j] = row]
      /\ UNCHANGED <<visits, orderStatus, billVars>>
  BY DEF ReleaseVehicle, CanRelease, BillIsOpen
<1>2. m \in Nat /\ due[j] \in Nat /\ paid[j] \in Nat /\ paid[j] <= due[j]
  BY JobFileAssumption DEF Mileages, FileInv, FileTypes, BilledWhenDone
<1>3. row \in Release
  BY <1>2 DEF Release
<1>4. FileTypes'
  <2>1. /\ mileage' \in [Vehicles -> Nat \cup {None}]
        /\ releases' \in [Jobs -> Release]
    BY <1>1, <1>2, <1>3 DEF FileInv, FileTypes
  <2>2. QED
    BY <1>1, <2>1 DEF FileInv, FileTypes, billVars
<1>5. \A k \in Jobs : jobStatus'[k] \in ActiveJobStatuses
                     => jobStatus[k] \in ActiveJobStatuses
  BY <1>1 DEF FileInv, QuotationsInv, QuotationsTypeOK, ActiveJobStatuses
<1>6. HandedOverBilled'
  <2>1. /\ releases'[j].total = due[j] /\ releases'[j].paid = paid[j]
        /\ releases'[j].override = override
        /\ \A k \in Jobs : k # j => releases'[k] = releases[k]
    BY <1>1 DEF FileInv, FileTypes
  <2>2. override <=> paid[j] < due[j]
    BY <1>1, <1>2
  <2>3. UNCHANGED <<orderStatus, stage, due>>
    BY <1>1 DEF billVars
  <2>4. QED
    BY <1>1, <2>1, <2>2, <2>3 DEF FileInv, HandedOverBilled
<1>7. QED
  BY <1>1, <1>4, <1>5, <1>6, QuietStep, StillOneActive DEF FileInv

LEMMA FileStep == FileInv /\ [Next]_jobFileVars => FileInv'
<1> SUFFICES ASSUME FileInv, [Next]_jobFileVars PROVE FileInv'
  OBVIOUS
<1>1. [QuotationsNext]_quotationVars
  BY FileQuotes DEF FileInv, QuotationsInv
<1>2. QuotationsInv'
  BY <1>1, QuotationsStep DEF FileInv
<1>3. ASSUME Quotes, UNCHANGED <<visitVars, orderStatus, billVars, releases>>
      PROVE  FileInv'
  BY <1>1, <1>2, <1>3, QuotesCases, QuietInv
     DEF FileInv, FileTypes, visitVars
<1>4. ASSUME NEW v \in Vehicles, NEW m \in Mileages \cup {None},
             UpdateVehicle(v, m)
      PROVE  FileInv'
  <2>1. mileage' \in [Vehicles -> Nat \cup {None}]
    BY <1>4, JobFileAssumption DEF UpdateVehicle, Mileages, FileInv, FileTypes
  <2>2. QED
    BY <1>1, <1>2, <1>4, <2>1, QuietInv DEF UpdateVehicle
<1>5. ASSUME NEW j \in Jobs, AddInspection(j) \/ CancelJobCard(j)
      PROVE  FileInv'
  <2>1. \A k \in Jobs : jobStatus'[k] \in ActiveJobStatuses
                       => jobStatus[k] \in ActiveJobStatuses
    BY <1>5 DEF AddInspection, CancelJobCard, AwaitsInspection, FileInv,
                QuotationsInv, QuotationsTypeOK, ActiveJobStatuses
  <2>2. UNCHANGED <<visits, mileage, orderStatus, billVars, releases>>
    BY <1>5 DEF AddInspection, CancelJobCard, visitVars
  <2>3. QED
    BY <1>1, <1>2, <2>1, <2>2, QuietInv DEF FileInv, FileTypes
<1>6. CASE UNCHANGED jobFileVars
  BY <1>1, <1>2, <1>6, QuietInv
     DEF jobFileVars, billVars, FileInv, FileTypes
<1>7. CASE Next
  BY <1>1, <1>2, <1>3, <1>4, <1>5, <1>7, OpenJobCardInv, OrderInv, DrawBillInv,
     BillMovesInv, ReleaseInv DEF Next
<1>8. QED
  BY <1>6, <1>7

THEOREM FileInvariant == Spec => []FileInv
<1>1. Init => FileInv
  BY FileInit
<1>2. FileInv /\ [Next]_jobFileVars => FileInv'
  BY FileStep
<1>3. QED
  BY <1>1, <1>2, PTL DEF Spec

-----------------------------------------------------------------------------
(* What the runs check *)

\* The tables of a visit hold well-formed rows.
THEOREM FileTyped == Spec => []TypeOK
<1>1. FileInv => TypeOK
  BY DEF FileInv, FileTypes, TypeOK, QuotationsInv
<1>2. QED
  BY <1>1, FileInvariant, PTL

\* However many visits and vehicles there are, a vehicle is in for one job at
\* a time.
THEOREM VehicleInForOneJob == Spec => []OneActiveJob
<1>1. FileInv => OneActiveJob
  BY DEF FileInv
<1>2. QED
  BY <1>1, FileInvariant, PTL

\* What the workshop works on and the customer is billed for stays within
\* the approval, whatever happens after it.
THEOREM WorkStaysAgreed == Spec => []WorkIsAgreed
<1>1. FileInv => WorkIsAgreed
  <2>1. SUFFICES ASSUME FileInv, NEW j \in Jobs, orderStatus[j] # "ABSENT"
        PROVE  \E r \in Revisions :
                 /\ quotations[j][r].status = "APPROVED"
                 /\ quotations[j][r].current
                 /\ quotations[j][r].offer.services > 0
                 /\ due[j] <= OfferTotal(quotations[j][r].offer)
    BY DEF WorkIsAgreed
  <2>2. QED
    BY <2>1, AgreementIsApproved DEF FileInv, OrderedAsAgreed
<1>2. QED
  BY <1>1, FileInvariant, PTL

\* A handed-over vehicle's work is done and billed, its record agrees with
\* the bill, and only an override lets a debtor go.
THEOREM HandoversAreBilled == Spec => []HandedOverBilled
<1>1. FileInv => HandedOverBilled
  BY DEF FileInv
<1>2. QED
  BY <1>1, FileInvariant, PTL

\* The composition does nothing to quotations that the quotations application
\* does not do, so the customer's approval is as final in it (Agreement).
THEOREM VisitsKeepQuotations == Spec => KeepsQuotations /\ ImplementsAgreement
<1>1. Init => QuotationsInit
  BY DEF Init
<1>2. FileInv /\ [Next]_jobFileVars => [QuotationsNext]_quotationVars
  BY FileQuotes DEF FileInv, QuotationsInv
<1>3. Spec => QuotationsSpec
  BY <1>1, <1>2, FileInvariant, PTL DEF Spec, QuotationsSpec
<1>4. QED
  BY <1>3, QuotationsImplementAgreement DEF KeepsQuotations

\* Every step of a visit is one of the bill's account, or leaves it alone.
LEMMA BillsStep ==
  ASSUME FileInv, [Next]_jobFileVars
  PROVE  [Bills!ReceivableNext]_(Bills!receivableVars)
<1>1. SUFFICES Bills!ReceivableNext \/ UNCHANGED Bills!receivableVars
  OBVIOUS
<1>2. ASSUME NEW j \in Jobs, NEW n \in 1..OfferTotal(ApprovedOffer(j).offer), DrawBill(j, n)
      PROVE  Bills!ReceivableNext
  <2>1. Bills!Draw(j, n) /\ due'[j] = n
    BY <1>1, <1>2 DEF DrawBill, Bills!Draw, FileInv, FileTypes
  <2>2. QED
    BY <2>1 DEF Bills!ReceivableNext
<1>3. ASSUME NEW j \in Jobs, BillMoves(j) PROVE Bills!ReceivableNext
  <2>1. ASSUME NEW n \in 0..due[j], Bills!Settle(j, n) PROVE Bills!Settle(j, paid'[j])
    BY <1>1, <2>1 DEF Bills!Settle, FileInv, FileTypes
  <2>2. QED
    BY <1>3, <2>1 DEF BillMoves, Bills!ReceivableNext
<1>4. CASE UNCHANGED billVars
  BY <1>4 DEF billVars, Bills!receivableVars
<1>5. QED
  BY <1>1, <1>2, <1>3, <1>4
     DEF Next, UpdateVehicle, OpenJobCard, AddInspection, CancelJobCard, CreateWorkOrder,
         WorkOrderMoves, ReleaseVehicle, jobFileVars, billVars

\* Whatever the front desk, the workshop and the cashiers do to a visit, its
\* order keeps the life the workshop promises and its bill the one billing
\* promises: what was proved of either application alone (WorkOrdersLive,
\* BillingIsAnAccount) is what the visit relies on, and no more.
THEOREM VisitsKeepPromises == Spec => WorkOrders!LifeSpec /\ Bills!ReceivableSpec
<1>1. Init => WorkOrders!LifeInit /\ Bills!ReceivableInit
  BY DEF Init
<1>2. [Next]_jobFileVars
        => [\E o \in Jobs : WorkOrders!Begins(o) \/ WorkOrders!Moves(o)]_orderStatus
  <2>1. SUFFICES ASSUME [Next]_jobFileVars
                 PROVE  \/ UNCHANGED orderStatus
                        \/ \E o \in Jobs : WorkOrders!Begins(o) \/ WorkOrders!Moves(o)
    OBVIOUS
  <2>2. CASE \E j \in Jobs : CreateWorkOrder(j) \/ WorkOrderMoves(j)
    BY <2>2 DEF CreateWorkOrder, WorkOrderMoves
  <2>3. QED
    BY <2>1, <2>2 DEF Next, UpdateVehicle, OpenJobCard, AddInspection, CancelJobCard, DrawBill,
                      BillMoves, ReleaseVehicle, jobFileVars
<1>3. FileInv /\ [Next]_jobFileVars => [Bills!ReceivableNext]_(Bills!receivableVars)
  BY BillsStep
<1>4. QED
  BY <1>1, <1>2, <1>3, FileInvariant, PTL
     DEF Spec, WorkOrders!LifeSpec, Bills!ReceivableSpec

-----------------------------------------------------------------------------
(* The visits: what is known of them besides *)

\* A job that was opened is about a vehicle on file, which arrived within the
\* odometer's range; and no vehicle is known to have gone beyond it.
VisitsOnFile ==
  /\ \A j \in Jobs :
       IF jobStatus[j] = "ABSENT" THEN visits[j] = NoVisit
       ELSE visits[j].vehicle \in Vehicles /\ visits[j].arrival <= MaxMileage
  /\ \A v \in Vehicles : mileage[v] # None => mileage[v] <= MaxMileage

\* A job whose vehicle was handed over is over.
HandedOverIsOver ==
  \A j \in Jobs : releases[j].made => jobStatus[j] \in {"RELEASED", "CANCELLED"}

\* Jobs are opened in the order of their numbers, a vehicle's next job only
\* when its last one is over.
OpenedInTurn ==
  \A j, k \in Jobs : j < k /\ jobStatus[k] # "ABSENT" =>
    /\ jobStatus[j] # "ABSENT"
    /\ visits[j].vehicle = visits[k].vehicle => jobStatus[j] \notin ActiveJobStatuses

VisitInv ==
  VisitsOnFile /\ HandedOverIsOver /\ OpenedInTurn
    /\ \A j \in Jobs : orderStatus[j] # "CANCELLED"

\* Job cards move from opening to their end and never back.
LEMMA JobsMoveOn ==
  ASSUME FileInv, NEW j \in Jobs, [QuotationsNext]_quotationVars
  PROVE  /\ jobStatus[j] # "ABSENT" => jobStatus'[j] # "ABSENT"
         /\ jobStatus[j] \in {"RELEASED", "CANCELLED"}
              => jobStatus'[j] \in {"RELEASED", "CANCELLED"}
<1>1. CASE UNCHANGED jobStatus
  BY <1>1
<1>2. ASSUME NEW k \in Jobs, JobGoesOn(k)
      PROVE  /\ jobStatus[j] # "ABSENT" => jobStatus'[j] # "ABSENT"
             /\ jobStatus[j] \in {"RELEASED", "CANCELLED"}
                  => jobStatus'[j] \in {"RELEASED", "CANCELLED"}
  <2>1. PICK move \in JobMoves : /\ jobStatus[k] = move[1]
                                 /\ jobStatus' = [jobStatus EXCEPT ![k] = move[2]]
    BY <1>2 DEF JobGoesOn
  <2>2. /\ move[2] # "ABSENT"
        /\ move[1] \in {"RELEASED", "CANCELLED"} => move[2] \in {"RELEASED", "CANCELLED"}
    BY <2>1 DEF JobMoves, ActiveJobStatuses
  <2>3. QED
    BY <2>1, <2>2 DEF FileInv, QuotationsInv, QuotationsTypeOK
<1>3. QED
  BY <1>1, <1>2, QuotesCases DEF QuotationsNext, quotationVars

LEMMA VisitInit == Init => VisitInv
  BY JobFileAssumption
     DEF Init, QuotationsInit, WorkOrders!LifeInit, VisitInv, VisitsOnFile, HandedOverIsOver,
         OpenedInTurn, NoRelease

\* Steps that open no job, record no handover and enter no mileage.
LEMMA QuietVisit ==
  ASSUME FileInv, VisitInv, [QuotationsNext]_quotationVars, UNCHANGED <<visits, mileage, releases>>,
         \A j \in Jobs : jobStatus[j] = "ABSENT" => jobStatus'[j] = "ABSENT",
         \A j \in Jobs : jobStatus'[j] \in ActiveJobStatuses => jobStatus[j] \in ActiveJobStatuses
  PROVE  VisitsOnFile' /\ HandedOverIsOver' /\ OpenedInTurn'
<1>1. VisitsOnFile'
  BY JobsMoveOn DEF VisitInv, VisitsOnFile
<1>2. HandedOverIsOver'
  BY JobsMoveOn DEF VisitInv, HandedOverIsOver
<1>3. OpenedInTurn'
  BY JobsMoveOn DEF VisitInv, OpenedInTurn
<1>4. QED
  BY <1>1, <1>2, <1>3

LEMMA OpenVisit ==
  ASSUME FileInv, VisitInv, NEW j \in Jobs, NEW v \in Vehicles, NEW m \in Mileages,
         OpenJobCard(j, v, m)
  PROVE  VisitInv'
<1>1. /\ jobStatus[j] = "ABSENT" /\ ~ HasActiveJob(v)
      /\ \A k \in Jobs : k < j => jobStatus[k] # "ABSENT"
      /\ UNCHANGED <<orderStatus, releases>>
  BY DEF OpenJobCard
<1>2. /\ jobStatus'[j] = "OPEN" /\ visits'[j] = [vehicle |-> v, arrival |-> m]
      /\ \A k \in Jobs \ {j} : jobStatus'[k] = jobStatus[k] /\ visits'[k] = visits[k]
      /\ mileage'[v] = m /\ \A w \in Vehicles \ {v} : mileage'[w] = mileage[w]
  BY DEF OpenJobCard, FileInv, FileTypes, QuotationsInv, QuotationsTypeOK
<1>3. VisitsOnFile'
  BY <1>1, <1>2, JobFileAssumption DEF VisitInv, VisitsOnFile, Mileages
<1>4. HandedOverIsOver'
  BY <1>1, <1>2 DEF VisitInv, HandedOverIsOver
<1>5. OpenedInTurn'
  <2>1. SUFFICES ASSUME NEW i \in Jobs, NEW k \in Jobs, i < k, jobStatus'[k] # "ABSENT"
                 PROVE  /\ jobStatus'[i] # "ABSENT"
                        /\ visits'[i].vehicle = visits'[k].vehicle
                             => jobStatus'[i] \notin ActiveJobStatuses
    BY DEF OpenedInTurn
  <2>2. CASE k = j
    BY <1>1, <1>2, <2>1, <2>2, JobFileAssumption DEF HasActiveJob
  <2>3. CASE k # j
    <3>1. i # j
      BY <1>1, <1>2, <2>1, <2>3 DEF VisitInv, OpenedInTurn
    <3>2. QED
      BY <1>2, <2>1, <2>3, <3>1 DEF VisitInv, OpenedInTurn
  <2>4. QED
    BY <2>2, <2>3
<1>6. QED
  BY <1>1, <1>3, <1>4, <1>5 DEF VisitInv

LEMMA ReleaseVisit ==
  ASSUME FileInv, VisitInv, NEW j \in Jobs, NEW m \in Mileages, NEW override \in BOOLEAN,
         ReleaseVehicle(j, m, override)
  PROVE  VisitInv'
<1>1. /\ jobStatus[j] \in ActiveJobStatuses /\ UNCHANGED <<visits, orderStatus>>
      /\ jobStatus'[j] = "RELEASED"
      /\ \A k \in Jobs \ {j} : jobStatus'[k] = jobStatus[k] /\ releases'[k] = releases[k]
  BY DEF ReleaseVehicle, CanRelease, FileInv, FileTypes, QuotationsInv, QuotationsTypeOK
<1>2. \A w \in Vehicles : mileage'[w] = mileage[w] \/ mileage'[w] = m
  BY DEF ReleaseVehicle, FileInv, FileTypes
<1>3. VisitsOnFile'
  <2>1. m <= MaxMileage
    BY JobFileAssumption DEF Mileages
  <2>2. \A w \in Vehicles : mileage'[w] # None => mileage'[w] <= MaxMileage
    BY <1>2, <2>1 DEF VisitInv, VisitsOnFile
  <2>3. \A k \in Jobs : jobStatus'[k] = "ABSENT" <=> jobStatus[k] = "ABSENT"
    BY <1>1 DEF ActiveJobStatuses
  <2>4. QED
    BY <1>1, <2>2, <2>3 DEF VisitInv, VisitsOnFile
<1>4. HandedOverIsOver'
  BY <1>1 DEF VisitInv, HandedOverIsOver
<1>5. OpenedInTurn'
  BY <1>1 DEF VisitInv, OpenedInTurn, ActiveJobStatuses
<1>6. QED
  BY <1>1, <1>3, <1>4, <1>5 DEF VisitInv

LEMMA VisitStep ==
  FileInv /\ VisitInv /\ [Next]_jobFileVars => VisitInv'
<1> SUFFICES ASSUME FileInv, VisitInv, [Next]_jobFileVars PROVE VisitInv'
  OBVIOUS
<1>1. [QuotationsNext]_quotationVars
  BY FileQuotes DEF FileInv, QuotationsInv
<1>2. ASSUME UNCHANGED <<jobStatus, visits, releases>>,
             \A j \in Jobs : orderStatus'[j] # "CANCELLED",
             \A v \in Vehicles :
               mileage'[v] = mileage[v] \/ mileage'[v] \in Mileages \cup {None}
      PROVE  VisitInv'
  <2>1. VisitsOnFile'
    <3>1. \A m \in Mileages : m <= MaxMileage
      BY JobFileAssumption DEF Mileages
    <3>2. \A v \in Vehicles : mileage'[v] # None => mileage'[v] <= MaxMileage
      BY <1>2, <3>1 DEF VisitInv, VisitsOnFile
    <3>3. QED
      BY <1>2, <3>2 DEF VisitInv, VisitsOnFile
  <2>2. QED
    BY <1>2, <2>1 DEF VisitInv, HandedOverIsOver, OpenedInTurn
<1>3. ASSUME Quotes, UNCHANGED <<visitVars, orderStatus, billVars, releases>> PROVE VisitInv'
  BY <1>2, <1>3, QuotesCases DEF visitVars, VisitInv
<1>4. ASSUME NEW v \in Vehicles, NEW m \in Mileages \cup {None}, UpdateVehicle(v, m)
      PROVE  VisitInv'
  BY <1>2, <1>4 DEF UpdateVehicle, VisitInv, FileInv, FileTypes
<1>5. ASSUME NEW j \in Jobs, AddInspection(j) \/ CancelJobCard(j) PROVE VisitInv'
  <2>1. /\ UNCHANGED <<visits, mileage, releases, orderStatus>>
        /\ \A k \in Jobs : jobStatus[k] = "ABSENT" => jobStatus'[k] = "ABSENT"
        /\ \A k \in Jobs : jobStatus'[k] \in ActiveJobStatuses
                             => jobStatus[k] \in ActiveJobStatuses
    BY <1>5 DEF AddInspection, AwaitsInspection, CancelJobCard, visitVars, FileInv, QuotationsInv,
                QuotationsTypeOK, ActiveJobStatuses
  <2>2. QED
    BY <1>1, <2>1, QuietVisit DEF VisitInv
<1>6. ASSUME NEW j \in Jobs, CreateWorkOrder(j) \/ WorkOrderMoves(j) PROVE VisitInv'
  <2>1. PICK s \in WorkOrders!OrderStatuses :
          s # "CANCELLED" /\ orderStatus' = [orderStatus EXCEPT ![j] = s]
    <3>1. CASE CreateWorkOrder(j)
      BY <3>1 DEF CreateWorkOrder, WorkOrders!Begins, WorkOrders!OrderStatuses
    <3>2. CASE WorkOrderMoves(j)
      <4>1. PICK move \in WorkOrders!OrderMoves : orderStatus' = [orderStatus EXCEPT ![j] = move[2]]
        BY <3>2 DEF WorkOrderMoves, WorkOrders!Moves
      <4>2. move[2] \in WorkOrders!OrderStatuses /\ move[2] # "CANCELLED"
        BY DEF WorkOrders!OrderMoves, WorkOrders!OrderStatuses
      <4>3. QED
        BY <4>1, <4>2
    <3>3. QED
      BY <1>6, <3>1, <3>2
  <2>2. \A k \in Jobs : orderStatus'[k] # "CANCELLED"
    BY <2>1 DEF VisitInv, FileInv, FileTypes
  <2>3. QED
    BY <1>2, <1>6, <2>2 DEF CreateWorkOrder, WorkOrderMoves, visitVars
<1>7. ASSUME NEW j \in Jobs,
             BillMoves(j) \/ \E n \in 1..OfferTotal(ApprovedOffer(j).offer) : DrawBill(j, n)
      PROVE  VisitInv'
  BY <1>2, <1>7 DEF BillMoves, DrawBill, visitVars, VisitInv
<1>8. CASE UNCHANGED jobFileVars
  BY <1>2, <1>8 DEF jobFileVars, VisitInv
<1>9. CASE Next
  BY <1>3, <1>4, <1>5, <1>6, <1>7, <1>9, OpenVisit, ReleaseVisit DEF Next
<1>10. QED
  BY <1>8, <1>9

LEMMA VisitInvariant == Spec => []VisitInv
<1>1. Init => VisitInv
  BY VisitInit
<1>2. FileInv /\ VisitInv /\ [Next]_jobFileVars => VisitInv'
  BY VisitStep
<1>3. QED
  BY <1>1, <1>2, FileInvariant, PTL DEF Spec

-----------------------------------------------------------------------------
(* No dead ends but the known ones *)

\* A job that has a revision has a latest one, and that is current.
LEMMA LatestRevision ==
  ASSUME QuotationsInv, NEW j \in Jobs, \E r \in Revisions : quotations[j][r] # NoQuotation
  PROVE  \E r \in Revisions : quotations[j][r] # NoQuotation /\ quotations[j][r].current
<1> DEFINE Behind == {n \in Nat : \E r \in Revisions :
                         n = MaxRevisions - r /\ quotations[j][r] # NoQuotation}
<1>1. PICK r \in Revisions : quotations[j][r] # NoQuotation
  OBVIOUS
<1>2. MaxRevisions - r \in Behind
  BY <1>1, QuotationsAssumption DEF Revisions
<1>3. PICK n \in Behind : \A m \in Behind : n <= m
  <2>1. Behind \in SUBSET Nat /\ Behind # {}
    BY <1>2
  <2> HIDE DEF Behind
  <2>2. QED
    BY <2>1, LeastNumber
<1>4. PICK s \in Revisions : n = MaxRevisions - s /\ quotations[j][s] # NoQuotation
  BY <1>3
<1>5. ASSUME NEW t \in Revisions, t > s, quotations[j][t] # NoQuotation
      PROVE  FALSE
  <2>1. MaxRevisions - t \in Behind
    BY <1>5, QuotationsAssumption DEF Revisions
  <2>2. n <= MaxRevisions - t
    BY <1>3, <2>1
  <2>3. QED
    BY <1>4, <1>5, <2>2, QuotationsAssumption DEF Revisions
<1>6. QED
  BY <1>4, <1>5 DEF QuotationsInv, CurrentIsLatest

\* Until something is approved, the latest revision is to be drawn up, sent,
\* decided or revised.
LEMMA UnapprovedProceeds ==
  ASSUME FileInv, NEW j \in Jobs, jobStatus[j] \in ActiveJobStatuses,
         Discounts # {}, Taxes # {}, Prices # {}, MaxLines > 0,
         quotations[j][MaxRevisions].status # "REJECTED",
         \A r \in Revisions : quotations[j][r].status # "APPROVED"
  PROVE  CanProceed(j)
<1>1. CASE \A r \in Revisions : quotations[j][r] = NoQuotation
  <2>1. 1 \in Revisions /\ ~ NoQuotation.current
    BY QuotationsAssumption DEF Revisions, NoQuotation
  <2>2. CanQuote(j)
    BY <1>1, <2>1 DEF CanQuote, ActiveJobStatuses
  <2>3. QED
    BY <2>2 DEF CanProceed
<1>2. CASE \E r \in Revisions : quotations[j][r] # NoQuotation
  <2>1. PICK r \in Revisions : quotations[j][r] # NoQuotation /\ quotations[j][r].current
    BY <1>2, LatestRevision DEF FileInv
  <2> DEFINE q == quotations[j][r]
  <2>2. q \in Quotation /\ QuotationOK(q)
    BY DEF FileInv, QuotationsInv, QuotationsTypeOK, RowsOK
  <2>3. q.status \in {"DRAFT", "SENT", "REJECTED"}
    BY <2>1, <2>2 DEF QuotationOK, Quotation, QuotationStatuses
  <2>4. CASE q.status = "DRAFT"
    <3>1. Editable(q) /\ LineCount(q.offer) \in Nat
      BY <2>1, <2>2, <2>4 DEF Editable, Quotation, Offer, LineCount
    <3>2. CanAddLine(j, r) \/ CanSubmit(j, r)
      BY <3>1, QuotationsAssumption DEF CanAddLine, CanSubmit
    <3>3. QED
      BY <3>2 DEF CanProceed
  <2>5. CASE q.status = "SENT"
    BY <2>1, <2>5 DEF CanDecide, CanProceed
  <2>6. CASE q.status = "REJECTED"
    <3>1. r # MaxRevisions
      BY <2>6
    <3>2. r + 1 \in Revisions
      BY <3>1, QuotationsAssumption DEF Revisions
    <3>3. CanRevise(j, r)
      BY <2>1, <2>6, <3>2 DEF CanRevise, Revisable
    <3>4. QED
      BY <3>3 DEF CanProceed
  <2>7. QED
    BY <2>3, <2>4, <2>5, <2>6
<1>3. QED
  BY <1>1, <1>2

\* A completed order is billed, its bill issued, its vehicle handed over: the
\* handover can always state the highest mileage.
LEMMA CompletedProceeds ==
  ASSUME FileInv, VisitInv, NEW j \in Jobs, jobStatus[j] \in ActiveJobStatuses,
         orderStatus[j] = "COMPLETED", stage[j] # "VOIDED",
         OfferTotal(ApprovedOffer(j).offer) > 0
  PROVE  CanProceed(j)
<1>1. CASE stage[j] \in {"NONE", "DRAFT"}
  BY <1>1 DEF CanProceed
<1>2. CASE stage[j] = "OPEN"
  <2> DEFINE v == visits[j].vehicle
             override == paid[j] # due[j]
  <2>1. ~ releases[j].made
    BY DEF VisitInv, HandedOverIsOver, ActiveJobStatuses
  <2>2. v \in Vehicles /\ visits[j].arrival <= MaxMileage
    BY DEF VisitInv, VisitsOnFile, ActiveJobStatuses
  <2>3. AtLeast(MaxMileage, mileage[v])
    BY <2>2 DEF AtLeast, VisitInv, VisitsOnFile
  <2>4. MaxMileage \in Mileages /\ override \in BOOLEAN
    BY JobFileAssumption DEF Mileages
  <2>5. visits[j].arrival \in Nat
    BY DEF FileInv, FileTypes, Visit
  <2>6. MaxMileage >= visits[j].arrival
    BY <2>2, <2>5, JobFileAssumption
  <2>7. CanRelease(j, MaxMileage, override)
    BY <1>2, <2>1, <2>3, <2>6 DEF CanRelease, BillIsOpen
  <2>8. QED
    BY <2>4, <2>7 DEF CanProceed
<1>3. QED
  BY <1>1, <1>2 DEF FileInv, FileTypes

\* As long as there are terms and prices to offer, a job that still stands is
\* at a dead end only where Stranded says so (or its revisions, which the
\* model bounds, are used up): for any jobs, vehicles, prices and terms.
THEOREM NoOtherDeadEnds ==
  ASSUME Discounts # {}, Taxes # {}, Prices # {}, MaxLines > 0
  PROVE  Spec => []OnlyKnownDeadEnds
<1>1. ASSUME FileInv, VisitInv PROVE OnlyKnownDeadEnds
  <2>1. SUFFICES ASSUME NEW j \in Jobs, jobStatus[j] \in ActiveJobStatuses, ~ Stranded(j),
                        quotations[j][MaxRevisions].status # "REJECTED"
                 PROVE  CanProceed(j)
    BY DEF OnlyKnownDeadEnds
  <2>2. CASE \A r \in Revisions : quotations[j][r].status # "APPROVED"
    BY <1>1, <2>1, <2>2, UnapprovedProceeds
  <2>3. CASE \E r \in Revisions : quotations[j][r].status = "APPROVED"
    <3>1. PICK r \in Revisions : quotations[j][r].status = "APPROVED"
      BY <2>3
    <3>2. /\ ApprovedOffer(j) = quotations[j][r] /\ ApprovedOffer(j) # NoQuotation
          /\ quotations[j][r].current
      <4>1. ApprovedOffer(j) = quotations[j][r]
        BY <1>1, <3>1, ApprovalIsKnown DEF FileInv, ApprovalKnown
      <4>2. quotations[j][r] # NoQuotation
        BY <3>1 DEF NoQuotation
      <4>3. PICK s \in Revisions :
              quotations[j][s].current /\ ApprovedOffer(j) = quotations[j][s]
        BY <1>1, <4>1, <4>2, AgreementIsApproved DEF FileInv
      <4>4. QED
        BY <4>1, <4>2, <4>3
    <3>3. /\ OfferTotal(ApprovedOffer(j).offer) > 0
          /\ quotations[j][r].offer.services > 0
      <4>1. quotations[j][r].offer.services \in Nat
        BY <1>1 DEF FileInv, QuotationsInv, QuotationsTypeOK, Quotation, Offer
      <4>2. OfferTotal(ApprovedOffer(j).offer) \in Nat
        BY <1>1, AgreementIsApproved DEF FileInv
      <4>3. QED
        BY <2>1, <3>2, <4>1, <4>2 DEF Stranded
    <3>4. CASE orderStatus[j] = "ABSENT"
      BY <3>1, <3>2, <3>3, <3>4 DEF CanProceed, CanBeOrdered, IsApproved
    <3>5. CASE orderStatus[j] = "COMPLETED"
      BY <1>1, <2>1, <3>3, <3>5, CompletedProceeds DEF Stranded
    <3>6. CASE orderStatus[j] \notin {"ABSENT", "COMPLETED"}
      <4>1. orderStatus[j] \in {"PLANNED", "READY", "IN_PROGRESS", "ON_HOLD", "AWAITING_REVIEW"}
        BY <1>1, <3>6 DEF FileInv, FileTypes, VisitInv, WorkOrders!OrderStatuses
      <4>2. \E move \in WorkOrders!OrderMoves : orderStatus[j] = move[1]
        BY <4>1 DEF WorkOrders!OrderMoves
      <4>3. QED
        BY <4>2 DEF CanProceed
    <3>7. QED
      BY <3>4, <3>5, <3>6
  <2>4. QED
    BY <2>2, <2>3
<1>2. QED
  BY <1>1, FileInvariant, VisitInvariant, PTL

\* A job that is stranded stays so, and its vehicle, if it is still there, is
\* never handed over by release_vehicle.
StrandedForGood ==
  [][\A j \in Jobs :
       Stranded(j) => Stranded(j)' /\ releases'[j] = releases[j]]_jobFileVars

\* A bill that was drawn up comes to something.
BilledSomething == \A j \in Jobs : stage[j] # "NONE" => due[j] > 0

LEMMA BillSteps ==
  ASSUME FileInv, BilledSomething, [Next]_jobFileVars
  PROVE  BilledSomething' /\ \A j \in Jobs : stage[j] = "VOIDED" => stage'[j] = "VOIDED"
<1>1. CASE UNCHANGED Bills!receivableVars
  BY <1>1 DEF Bills!receivableVars, BilledSomething
<1>2. CASE Bills!ReceivableNext
  BY <1>2 DEF Bills!ReceivableNext, Bills!Draw, Bills!Open, Bills!Withdraw, Bills!Settle,
              Bills!Advance, BilledSomething, FileInv, FileTypes
<1>3. QED
  BY <1>1, <1>2, BillsStep

\* Who hands over has an order for services and a bill above nothing.
LEMMA StrandedHeld ==
  ASSUME FileInv, BilledSomething, NEW j \in Jobs, Stranded(j),
         NEW k \in Jobs, NEW m, NEW override, ReleaseVehicle(k, m, override)
  PROVE  releases'[j] = releases[j]
<1>1. CASE k # j
  BY <1>1 DEF ReleaseVehicle, FileInv, FileTypes
<1>2. CASE k = j
  <2>1. orderStatus[j] = "COMPLETED" /\ stage[j] = "OPEN"
    BY <1>2 DEF ReleaseVehicle, CanRelease, BillIsOpen
  <2>2. /\ due[j] > 0 /\ due[j] <= OfferTotal(ApprovedOffer(j).offer)
        /\ ApprovedOffer(j).offer.services > 0
    BY <2>1 DEF BilledSomething, FileInv, OrderedAsAgreed
  <2>3. FALSE
    BY <2>1, <2>2 DEF Stranded, FileInv, FileTypes
  <2>4. QED
    BY <2>3
<1>3. QED
  BY <1>1, <1>2

\* The three known dead ends are dead ends: nothing the garage can do gets a
\* stranded job out of it, and its vehicle is never released.
THEOREM DeadEndsAreFinal == Spec => StrandedForGood
<1>1. Init => BilledSomething
  BY DEF Init, Bills!ReceivableInit, BilledSomething
<1>2. FileInv /\ BilledSomething /\ [Next]_jobFileVars => BilledSomething'
  BY BillSteps
<1>3. ASSUME FileInv, FileInv', BilledSomething, [Next]_jobFileVars,
             NEW j \in Jobs, Stranded(j)
      PROVE  Stranded(j)' /\ releases'[j] = releases[j]
  <2>1. Stranded(j)'
    <3>1. CASE stage[j] = "VOIDED"
      BY <1>3, <3>1, BillSteps DEF Stranded
    <3>2. CASE stage[j] # "VOIDED"
      <4>1. ApprovedOffer(j) # NoQuotation /\ ApprovedOffer(j)' = ApprovedOffer(j)
        BY <1>3, <3>2, AgreementStays, FileQuotes DEF Stranded, FileInv, QuotationsInv
      <4>2. QED
        BY <1>3, <3>2, <4>1 DEF Stranded
    <3>3. QED
      BY <3>1, <3>2
  <2>2. CASE \E k \in Jobs, m \in Mileages, override \in BOOLEAN : ReleaseVehicle(k, m, override)
    BY <1>3, <2>1, <2>2, StrandedHeld
  <2>3. CASE UNCHANGED releases
    BY <2>1, <2>3
  <2>4. QED
    BY <1>3, <2>2, <2>3
       DEF Next, UpdateVehicle, OpenJobCard, AddInspection, CancelJobCard, CreateWorkOrder,
           WorkOrderMoves, DrawBill, BillMoves, jobFileVars
<1>4. FileInv /\ FileInv' /\ BilledSomething /\ [Next]_jobFileVars =>
        [\A j \in Jobs :
           Stranded(j) => Stranded(j)' /\ releases'[j] = releases[j]]_jobFileVars
  BY <1>3
<1>5. QED
  BY <1>1, <1>2, <1>4, FileInvariant, PTL DEF Spec, StrandedForGood

-----------------------------------------------------------------------------
(* Where the three findings about a visit come from: the runs odometer,    *)
(* released_job and zero_quote end in a violation.  Without the one kind   *)
(* of step named here the property holds, whatever else happens.           *)

\* No mileage is forgotten, as update_vehicle lets it be.
MileageKept ==
  [][\A v \in Vehicles : mileage[v] # None => mileage'[v] # None]_jobFileVars

\* A vehicle that was handed over has been known, ever since, to have come at
\* least as far as it had then.
OdometerInv ==
  /\ OdometerNeverFalls
  /\ \A j \in Jobs : releases[j].made =>
       /\ mileage[visits[j].vehicle] # None
       /\ mileage[visits[j].vehicle] >= releases[j].mileage

LEMMA HandedOverOnFile ==
  ASSUME VisitInv, NEW j \in Jobs, releases[j].made
  PROVE  visits[j].vehicle \in Vehicles /\ jobStatus[j] \notin ActiveJobStatuses \cup {"ABSENT"}
  BY DEF VisitInv, VisitsOnFile, HandedOverIsOver, ActiveJobStatuses

\* What is known of a vehicle that was handed over outlasts readings that
\* only rise.
LEMMA RisingReadings ==
  ASSUME FileInv, FileInv', VisitInv, OdometerInv,
         \A v \in Vehicles : mileage[v] # None =>
           mileage'[v] # None /\ mileage'[v] >= mileage[v],
         NEW j \in Jobs, releases[j].made
  PROVE  /\ mileage'[visits[j].vehicle] # None
         /\ mileage'[visits[j].vehicle] >= releases[j].mileage
<1> DEFINE v == visits[j].vehicle
<1>1. v \in Vehicles /\ mileage[v] # None /\ mileage[v] >= releases[j].mileage
  BY HandedOverOnFile DEF OdometerInv
<1>2. mileage[v] \in Nat /\ releases[j].mileage \in Nat
  BY <1>1 DEF FileInv, FileTypes, Release
<1>3. mileage'[v] # None /\ mileage'[v] >= mileage[v] /\ mileage'[v] \in Nat
  BY <1>1 DEF FileInv, FileTypes
<1>4. QED
  BY <1>1, <1>2, <1>3

LEMMA OpenOdometer ==
  ASSUME FileInv, FileInv', VisitInv, OdometerInv,
         NEW j \in Jobs, NEW v \in Vehicles, NEW m \in Mileages, OpenJobCard(j, v, m)
  PROVE  OdometerInv'
<1>1. /\ jobStatus[j] = "ABSENT" /\ m \in Nat /\ m # None /\ AtLeast(m, mileage[v])
      /\ UNCHANGED releases
  BY JobFileAssumption DEF OpenJobCard, Mileages
<1>2. /\ visits'[j] = [vehicle |-> v, arrival |-> m]
      /\ \A k \in Jobs \ {j} : visits'[k] = visits[k]
      /\ mileage'[v] = m /\ \A w \in Vehicles \ {v} : mileage'[w] = mileage[w]
  BY DEF OpenJobCard, FileInv, FileTypes
<1>3. \A w \in Vehicles : mileage[w] # None => mileage'[w] # None /\ mileage'[w] >= mileage[w]
  BY <1>1, <1>2 DEF AtLeast, FileInv, FileTypes
<1>4. ~ releases[j].made
  BY <1>1, HandedOverOnFile
<1>5. \A k \in Jobs : releases[k].made =>
        /\ k # j /\ visits'[k] = visits[k]
        /\ mileage'[visits[k].vehicle] # None
        /\ mileage'[visits[k].vehicle] >= releases[k].mileage
  BY <1>2, <1>3, <1>4, RisingReadings
<1>6. OdometerNeverFalls'
  <2>1. SUFFICES ASSUME NEW i \in Jobs, NEW k \in Jobs, i < k, releases[i].made,
                        visits'[k].vehicle = visits[i].vehicle
                 PROVE  visits'[k].arrival >= releases[i].mileage
    BY <1>1, <1>5 DEF OdometerNeverFalls
  <2>2. CASE k = j
    BY <1>2, <1>5, <2>1, <2>2
  <2>3. CASE k # j
    BY <1>2, <2>1, <2>3 DEF OdometerInv, OdometerNeverFalls
  <2>4. QED
    BY <2>2, <2>3
<1>7. QED
  BY <1>1, <1>5, <1>6 DEF OdometerInv

\* Nobody has opened a later job for the vehicle that leaves.
LEMMA ReleaseOdometer ==
  ASSUME FileInv, FileInv', VisitInv, OdometerInv,
         NEW j \in Jobs, NEW m \in Mileages, NEW override \in BOOLEAN,
         ReleaseVehicle(j, m, override)
  PROVE  OdometerInv'
<1> DEFINE v == visits[j].vehicle
<1>1. /\ jobStatus[j] \in ActiveJobStatuses /\ m \in Nat /\ m # None
      /\ AtLeast(m, mileage[v]) /\ UNCHANGED visits
  BY JobFileAssumption DEF ReleaseVehicle, CanRelease, Mileages
<1>2. v \in Vehicles
  BY <1>1 DEF VisitInv, VisitsOnFile, ActiveJobStatuses
<1>3. /\ releases'[j].made /\ releases'[j].mileage = m
      /\ \A k \in Jobs \ {j} : releases'[k] = releases[k]
      /\ mileage'[v] = m /\ \A w \in Vehicles \ {v} : mileage'[w] = mileage[w]
  BY <1>2 DEF ReleaseVehicle, FileInv, FileTypes
<1>4. \A w \in Vehicles : mileage[w] # None => mileage'[w] # None /\ mileage'[w] >= mileage[w]
  BY <1>1, <1>3 DEF AtLeast, FileInv, FileTypes
<1>5. \A k \in Jobs : releases'[k].made =>
        /\ mileage'[visits[k].vehicle] # None
        /\ mileage'[visits[k].vehicle] >= releases'[k].mileage
  BY <1>1, <1>3, <1>4, RisingReadings
<1>6. OdometerNeverFalls'
  <2>1. SUFFICES ASSUME NEW i \in Jobs, NEW k \in Jobs, i < k, releases'[i].made,
                        visits[k].vehicle = visits[i].vehicle
                 PROVE  visits[k].arrival >= releases'[i].mileage
    BY <1>1 DEF OdometerNeverFalls
  <2>2. CASE i = j
    <3>1. visits[k] # NoVisit
      BY <1>2, <2>1, <2>2, JobFileAssumption DEF NoVisit
    <3>2. jobStatus[k] # "ABSENT"
      BY <3>1 DEF VisitInv, VisitsOnFile
    <3>3. QED
      BY <1>1, <2>1, <2>2, <3>2 DEF VisitInv, OpenedInTurn
  <2>3. CASE i # j
    BY <1>3, <2>1, <2>3 DEF OdometerInv, OdometerNeverFalls
  <2>4. QED
    BY <2>2, <2>3
<1>7. QED
  BY <1>1, <1>5, <1>6 DEF OdometerInv

LEMMA OdometerStep ==
  ASSUME FileInv, FileInv', VisitInv, OdometerInv, [Next]_jobFileVars,
         \A v \in Vehicles : mileage[v] # None => mileage'[v] # None
  PROVE  OdometerInv'
<1>1. ASSUME UNCHANGED <<visits, releases>>,
             \/ UNCHANGED mileage
             \/ \E v \in Vehicles, m \in Mileages \cup {None} : UpdateVehicle(v, m)
      PROVE  OdometerInv'
  <2>1. \A v \in Vehicles : mileage[v] # None => mileage'[v] >= mileage[v]
    <3>1. CASE UNCHANGED mileage
      BY <3>1 DEF FileInv, FileTypes
    <3>2. ASSUME NEW v \in Vehicles, NEW m \in Mileages \cup {None}, UpdateVehicle(v, m)
          PROVE  \A w \in Vehicles : mileage[w] # None => mileage'[w] >= mileage[w]
      <4>1. /\ AtLeast(m, mileage[v]) /\ mileage'[v] = m
            /\ \A w \in Vehicles \ {v} : mileage'[w] = mileage[w]
        BY <3>2 DEF UpdateVehicle, FileInv, FileTypes
      <4>2. QED
        BY <4>1 DEF AtLeast, FileInv, FileTypes
    <3>3. QED
      BY <1>1, <3>1, <3>2
  <2>2. QED
    BY <1>1, <2>1, RisingReadings DEF OdometerInv, OdometerNeverFalls
<1>2. CASE UNCHANGED <<visits, mileage, releases>>
  BY <1>1, <1>2
<1>3. ASSUME NEW v \in Vehicles, NEW m \in Mileages \cup {None}, UpdateVehicle(v, m)
      PROVE  OdometerInv'
  BY <1>1, <1>3 DEF UpdateVehicle
<1>4. QED
  BY <1>2, <1>3, OpenOdometer, ReleaseOdometer
     DEF Next, AddInspection, CancelJobCard, CreateWorkOrder, WorkOrderMoves, DrawBill, BillMoves,
         visitVars, jobFileVars

\* Only a mileage that is forgotten lets a vehicle come back with less than
\* it left with: as long as none is, each visit starts where an earlier one
\* ended or beyond.
THEOREM OdometerHolds == Spec /\ MileageKept => []OdometerNeverFalls
<1>1. Init => OdometerInv
  BY DEF Init, OdometerInv, OdometerNeverFalls, NoRelease
<1>2. /\ FileInv /\ FileInv' /\ VisitInv /\ OdometerInv /\ [Next]_jobFileVars
      /\ [\A v \in Vehicles : mileage[v] # None => mileage'[v] # None]_jobFileVars
      => OdometerInv'
  <2>1. UNCHANGED jobFileVars => \A v \in Vehicles : mileage[v] # None => mileage'[v] # None
    BY DEF jobFileVars
  <2>2. QED
    BY <2>1, OdometerStep
<1>3. OdometerInv => OdometerNeverFalls
  BY DEF OdometerInv
<1>4. QED
  BY <1>1, <1>2, <1>3, FileInvariant, VisitInvariant, PTL DEF Spec, MileageKept

\* No job is cancelled whose vehicle was handed over, as the page has it but
\* cancel_job_card does not.
ReleasedNotCancelled ==
  [][\A j \in Jobs : CancelJobCard(j) => jobStatus[j] # "RELEASED"]_jobFileVars

\* Only cancelling it takes a released job from its state.
THEOREM ReleasedHolds == Spec /\ ReleasedNotCancelled => []ReleasedJobStaysReleased
<1>1. Init => ReleasedJobStaysReleased
  BY DEF Init, ReleasedJobStaysReleased, NoRelease
<1>2. ASSUME FileInv, ReleasedJobStaysReleased, [Next]_jobFileVars,
             [\A j \in Jobs : CancelJobCard(j) => jobStatus[j] # "RELEASED"]_jobFileVars
      PROVE  ReleasedJobStaysReleased'
  <2>1. ASSUME NEW k \in Jobs,
               \/ AddInspection(k) \/ CancelJobCard(k)
               \/ \E v \in Vehicles, m \in Mileages : OpenJobCard(k, v, m)
        PROVE  ReleasedJobStaysReleased'
    <3>1. jobStatus[k] # "RELEASED"
      <4>1. CASE CancelJobCard(k)
        <5>1. jobStatus'[k] = "CANCELLED" /\ jobStatus[k] # "CANCELLED"
          BY <1>2, <4>1 DEF CancelJobCard, FileInv, QuotationsInv, QuotationsTypeOK
        <5>2. jobFileVars' # jobFileVars
          BY <5>1 DEF jobFileVars
        <5>3. QED
          BY <1>2, <4>1, <5>2
      <4>2. CASE ~ CancelJobCard(k)
        BY <2>1, <4>2 DEF AddInspection, AwaitsInspection, OpenJobCard
      <4>3. QED
        BY <4>1, <4>2
    <3>2. UNCHANGED releases /\ \A j \in Jobs \ {k} : jobStatus'[j] = jobStatus[j]
      BY <1>2, <2>1 DEF AddInspection, CancelJobCard, OpenJobCard, FileInv, QuotationsInv,
                        QuotationsTypeOK
    <3>3. QED
      BY <1>2, <3>1, <3>2 DEF ReleasedJobStaysReleased
  <2>2. ASSUME NEW k \in Jobs, NEW m \in Mileages, NEW override \in BOOLEAN,
               ReleaseVehicle(k, m, override)
        PROVE  ReleasedJobStaysReleased'
    BY <1>2, <2>2 DEF ReleaseVehicle, ReleasedJobStaysReleased, FileInv, FileTypes, QuotationsInv,
                      QuotationsTypeOK
  <2>3. CASE UNCHANGED <<jobStatus, releases>>
    BY <1>2, <2>3 DEF ReleasedJobStaysReleased
  <2>4. CASE Quotes /\ UNCHANGED <<visitVars, orderStatus, billVars, releases>>
    BY <2>3, <2>4, QuotesCases
  <2>5. QED
    BY <1>2, <2>1, <2>2, <2>3, <2>4
       DEF Next, UpdateVehicle, CreateWorkOrder, WorkOrderMoves, DrawBill, BillMoves, jobFileVars
<1>3. QED
  BY <1>1, <1>2, FileInvariant, PTL DEF Spec, ReleasedNotCancelled

\* Nothing is sent that comes to nothing: what the check after the raise in
\* submit_quotation is there for.
NothingFreeSubmitted ==
  [][\A j \in Jobs, r \in Revisions :
       SubmitQuotation(j, r) => OfferTotal(quotations[j][r].offer) > 0]_jobFileVars

\* Only submission lets an offer of nothing through: once sent, an offer
\* keeps its total.
THEOREM NothingFreeHolds == Spec /\ NothingFreeSubmitted => []NothingOfferedForFree
<1>1. Init => NothingOfferedForFree
  BY DEF Init, QuotationsInit, NothingOfferedForFree, NoQuotation
<1>2. ASSUME QuotationsInv, QuotationsInv', NothingOfferedForFree,
             NEW j \in Jobs, NEW r \in Revisions,
             SubmitQuotation(j, r) => OfferTotal(quotations[j][r].offer) > 0,
             \/ \E kind \in {"services", "products"}, price \in Prices :
                  AddLine(j, r, kind, price)
             \/ SubmitQuotation(j, r)
             \/ \E decision \in {"APPROVED", "REJECTED"} : Decide(j, r, decision)
      PROVE  NothingOfferedForFree'
  <2>1. /\ OtherwiseSame(j, r, r)
        /\ quotations \in [Jobs -> [Revisions -> Quotation]]
    BY <1>2, RewriteEffect DEF QuotationsInv, QuotationsTypeOK
  <2>2. quotations'[j][r].status \in {"SENT", "APPROVED"}
          => OfferTotal(quotations'[j][r].offer) > 0
    <3>1. ASSUME NEW kind \in {"services", "products"}, NEW price \in Prices,
                 AddLine(j, r, kind, price)
          PROVE  quotations'[j][r].status = "DRAFT"
      <4>1. PICK offer :
              /\ quotations[j][r].status = "DRAFT"
              /\ quotations' = [quotations EXCEPT ![j][r].offer = offer]
        BY <3>1 DEF AddLine, CanAddLine, Editable
      <4>2. quotations'[j][r] = [quotations[j][r] EXCEPT !.offer = offer]
        BY <2>1, <4>1
      <4>3. QED
        BY <2>1, <4>1, <4>2 DEF Quotation
    <3>2. CASE SubmitQuotation(j, r)
      <4>1. quotations'[j][r].offer = quotations[j][r].offer
        BY <2>1, <3>2 DEF SubmitQuotation, Quotation
      <4>2. QED
        BY <1>2, <3>2, <4>1
    <3>3. CASE \E decision \in {"APPROVED", "REJECTED"} : Decide(j, r, decision)
      <4>1. /\ quotations[j][r].status = "SENT"
            /\ quotations'[j][r].offer = quotations[j][r].offer
        BY <2>1, <3>3 DEF Decide, CanDecide, Quotation
      <4>2. QED
        BY <1>2, <4>1 DEF NothingOfferedForFree
    <3>4. QED
      BY <1>2, <3>1, <3>2, <3>3
  <2>3. QED
    BY <1>2, <2>1, <2>2 DEF NothingOfferedForFree, OtherwiseSame
<1>3. ASSUME QuotationsInv, NothingOfferedForFree, NEW j \in Jobs,
             \/ \E d \in Discounts, t \in Taxes : CreateQuotation(j, d, t)
             \/ \E r \in Revisions : CreateQuotationRevision(j, r)
      PROVE  NothingOfferedForFree'
  <2>1. ASSUME NEW d \in Discounts, NEW t \in Taxes, CreateQuotation(j, d, t)
        PROVE  NothingOfferedForFree'
    <3>1. /\ quotations'[j][1] = Draft(EmptyOffer(d, t))
          /\ OtherwiseSame(j, 1, 1)
      BY <1>3, <2>1, CreateEffect
    <3>2. Draft(EmptyOffer(d, t)).status = "DRAFT"
      BY DEF Draft
    <3>3. QED
      BY <1>3, <3>1, <3>2 DEF NothingOfferedForFree, OtherwiseSame
  <2>2. ASSUME NEW r \in Revisions, CreateQuotationRevision(j, r)
        PROVE  NothingOfferedForFree'
    <3>1. /\ quotations[j][r].status \in Revisable
          /\ quotations'[j][r] = Retired(quotations[j][r])
          /\ quotations'[j][r + 1] = Draft(quotations[j][r].offer)
          /\ OtherwiseSame(j, r, r + 1)
      BY <1>3, <2>2, ReviseEffect
    <3>2. Retired(quotations[j][r]).status \in {"SUPERSEDED", "REJECTED"}
      BY <1>3, <3>1, RetiredRow DEF QuotationsInv, QuotationsTypeOK, RowsOK
    <3>3. Draft(quotations[j][r].offer).status = "DRAFT"
      BY DEF Draft
    <3>4. QED
      BY <1>3, <3>1, <3>2, <3>3 DEF NothingOfferedForFree, OtherwiseSame
  <2>3. QED
    BY <1>3, <2>1, <2>2
<1>4. ASSUME FileInv, FileInv', NothingOfferedForFree, [Next]_jobFileVars,
             [\A j \in Jobs, r \in Revisions :
                SubmitQuotation(j, r) => OfferTotal(quotations[j][r].offer) > 0]_jobFileVars
      PROVE  NothingOfferedForFree'
  <2>1. [QuotationsNext]_quotationVars
    BY <1>4, FileQuotes DEF FileInv, QuotationsInv
  <2>2. CASE UNCHANGED quotations
    BY <1>4, <2>2 DEF NothingOfferedForFree
  <2>3. CASE ~ UNCHANGED quotations
    <3>1. Quotes
      BY <2>1, <2>3 DEF QuotationsNext, JobGoesOn, quotationVars
    <3>2. \A j \in Jobs, r \in Revisions :
            SubmitQuotation(j, r) => OfferTotal(quotations[j][r].offer) > 0
      BY <1>4, <2>3 DEF jobFileVars
    <3>3. QED
      BY <1>2, <1>3, <1>4, <3>1, <3>2, QuotesCases DEF FileInv
  <2>4. QED
    BY <2>2, <2>3
<1>5. QED
  BY <1>1, <1>4, FileInvariant, PTL DEF Spec, NothingFreeSubmitted

-----------------------------------------------------------------------------
(* The pages *)

\* Whatever the pages and their forms let through, the services do: every
\* property proved of the services holds of the pages.
THEOREM PagesImplementServices == PagesSpec => Spec
<1>1. ASSUME NEW u \in Staff, QuotationCreate(u) PROVE Next
  BY <1>1 DEF QuotationCreate, QuotationCreateForm, JobsOnFile, OnlyQuotes,
              Next, Quotes
<1>2. ASSUME NEW u \in Staff, NEW j \in JobsOnFile, NEW r \in QuotationsOnFile(j),
             \/ ServiceLineCreate(u, j, r) \/ ProductLineCreate(u, j, r)
             \/ QuotationSubmit(u, j, r)
             \/ QuotationApprove(u, j, r) \/ QuotationReject(u, j, r)
             \/ QuotationRevise(u, j, r)
      PROVE  Next
  <2>1. j \in Jobs /\ r \in Revisions
    BY DEF JobsOnFile, QuotationsOnFile
  <2>2. Quotes /\ OnlyQuotes
    BY <1>2, <2>1 DEF ServiceLineCreate, ProductLineCreate, QuotationSubmit,
         QuotationApprove, QuotationReject, QuotationRevise,
         ServiceLineCreateForm, ProductLineCreateForm, Quotes
  <2>3. QED
    BY <2>2 DEF Next, OnlyQuotes
<1>3. ASSUME NEW u \in Staff, NEW j \in Jobs,
             JobCreate(u, j) \/ InspectionCreate(u, j) \/ JobCancel(u, j)
      PROVE  Next
  BY <1>3 DEF JobCreate, JobCardOpenForm, InspectionCreate, JobCancel, Next
<1>4. ASSUME NEW u \in Staff, NEW j \in Jobs, VehicleReleaseCreate(u, j)
      PROVE  Next
  <2>1. PICK f \in VehicleReleaseForm(u) : ReleaseVehicle(j, f[1], f[2])
    BY <1>4 DEF VehicleReleaseCreate
  <2>2. f[1] \in Mileages /\ f[2] \in BOOLEAN
    BY DEF VehicleReleaseForm
  <2>3. QED
    BY <2>1, <2>2 DEF Next
<1>5. ASSUME NEW u \in Staff, NEW v \in Vehicles, VehicleUpdate(u, v)
      PROVE  Next
  BY <1>5 DEF VehicleUpdate, Next
<1>6. ASSUME NEW j \in Jobs, BackOffice(j) PROVE Next
  BY <1>6 DEF BackOffice, Next
<1>7. PagesNext => Next
  BY <1>1, <1>2, <1>3, <1>4, <1>5, <1>6 DEF PagesNext, JobsOnFile
<1>8. [PagesNext]_jobFileVars => [Next]_jobFileVars
  BY <1>7
<1>9. QED
  BY <1>8, PTL DEF PagesSpec, Spec

=============================================================================
