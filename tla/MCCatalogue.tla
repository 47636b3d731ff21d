---------------------------- MODULE MCCatalogue ----------------------------
(***************************************************************************)
(* A product that can move between two categories, and a service.          *)
(***************************************************************************)
EXTENDS Catalogue

CONSTANTS c1, c2, oil, wash, car, lorry, low, high

=============================================================================
