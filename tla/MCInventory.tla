---------------------------- MODULE MCInventory ----------------------------
(***************************************************************************)
(* One product, stocked at up to two locations, and up to two requirements *)
(* for it on one work order.  MCInventory.cfg lets two requirements        *)
(* compete for one item over four ledger rows; MCStockAccount.cfg lets two *)
(* requirements draw on two items over three.                              *)
(***************************************************************************)
EXTENDS InventoryPages

CONSTANTS p1, l1, l2, i1, i2, o1, q1, q2

MCProductOf       == [i \in Items |-> p1]
MCLocationOf      == [i \in Items |-> IF i = i1 THEN l1 ELSE l2]
MCOrderOf         == [q \in Requirements |-> o1]
MCRequiredProduct == [q \in Requirements |-> p1]
MCApproved        == [q \in Requirements |-> IF q = q1 THEN 2 ELSE 1]

=============================================================================
