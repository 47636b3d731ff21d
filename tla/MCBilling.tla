------------------------------ MODULE MCBilling ------------------------------
(***************************************************************************)
(* One work order (and a second one that only shares the tables) with two  *)
(* product requirements whose line totals round up and down.               *)
(***************************************************************************)
EXTENDS BillingPages

CONSTANTS o1, o2

MCOrderOf         == [q \in Requirements |-> IF q = 1 THEN o1 ELSE o2]
MCApproved        == [q \in Requirements |-> 2]
MCServiceSubtotal == [o \in Orders |-> IF o = o1 THEN 2 ELSE 0]
MCUnitPrice       == [q \in Requirements |-> IF q = 1 THEN 700 ELSE 500]
MCDiscount        == [o \in Orders |-> IF o = o1 THEN 2500 ELSE 0]
MCTax             == [o \in Orders |-> IF o = o1 THEN 5000 ELSE 1800]

=============================================================================
