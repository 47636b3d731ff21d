---------------------------- MODULE MCPurchasing ----------------------------
(***************************************************************************)
(* One supplier and one order of up to two products, one of which comes in *)
(* two parts; line totals round up.                                        *)
(***************************************************************************)
EXTENDS PurchasingPages, TLC

CONSTANTS s1, o1, r1, r2

MCTerms         == {[discount |-> 0, tax |-> 1800, delivery |-> 0]}
MCQuantityLimit == [p \in 1..MaxProducts |-> IF p = 1 THEN 2 ELSE 1]
\* What the supplier prints on an invoice is only compared with the others.
MCSymmetry      == Permutations(References)
MCUnitCosts     == [p \in 1..MaxProducts |-> IF p = 1 THEN {600, 700} ELSE {700}]

=============================================================================
