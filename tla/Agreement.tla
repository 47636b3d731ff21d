------------------------------ MODULE Agreement ------------------------------
(***************************************************************************)
(* What the quotations application promises to everybody who acts on the   *)
(* customer's approval: a job comes to at most one agreement, its terms    *)
(* are among those offered, and once reached it never changes.             *)
(* Quotations implements this specification (ImplementsAgreement).         *)
(***************************************************************************)

CONSTANTS
  Jobs,
  Terms,      \* what can be agreed on
  Nothing     \* no agreement yet

VARIABLE agreed   \* job -> the terms the customer approved

Agree(j, terms) ==
  /\ agreed[j] = Nothing
  /\ terms \in Terms
  /\ agreed' = [agreed EXCEPT ![j] = terms]

AgreementInit == agreed = [j \in Jobs |-> Nothing]

AgreementNext == \E j \in Jobs : Agree(j, agreed'[j])

AgreementSpec == AgreementInit /\ [][AgreementNext]_agreed

=============================================================================
