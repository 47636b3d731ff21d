------------------------------ MODULE MCJobFile ------------------------------
(***************************************************************************)
(* One vehicle and its visits.                                             *)
(***************************************************************************)
EXTENDS FrontDesk

CONSTANT v1

=============================================================================
