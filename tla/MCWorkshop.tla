----------------------------- MODULE MCWorkshop -----------------------------
(***************************************************************************)
(* One work order with two tasks, a manager, a senior technician and a     *)
(* technician.                                                             *)
(***************************************************************************)
EXTENDS WorkshopPages, TLC

CONSTANTS o1, t1, t2

MCTaskOrder == [t \in Tasks |-> o1]

\* The two tasks of the order are interchangeable.
TaskSymmetry == Permutations({t1, t2})

=============================================================================
