----------------------------- MODULE MCRegistry -----------------------------
(***************************************************************************)
(* Two customers, their vehicles, and two workers serving requests.        *)
(***************************************************************************)
EXTENDS RegistryCalls

CONSTANTS c1, c2, v1, v2, p1, p2

=============================================================================
