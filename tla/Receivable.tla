----------------------------- MODULE Receivable -----------------------------
(***************************************************************************)
(* What billing promises the front desk about the bill of a work order,    *)
(* with rows, rounding and numbering abstracted away: an amount that is    *)
(* fixed when the bill is drawn up, and a paid part that moves between     *)
(* nothing and all of it.  Billing implements this specification (its      *)
(* property ImplementsReceivable).                                         *)
(***************************************************************************)
EXTENDS Integers

CONSTANT Orders

VARIABLES
  stage,   \* order -> NONE, DRAFT, OPEN or VOIDED
  due,     \* order -> the amount billed
  paid     \* order -> what has been paid of it

receivableVars == <<stage, due, paid>>

ReceivableInit ==
  /\ stage = [o \in Orders |-> "NONE"]
  /\ due   = [o \in Orders |-> 0]
  /\ paid  = [o \in Orders |-> 0]

\* One bill per order, once and for all: no way back from VOIDED.
Advance(o, from, to) ==
  /\ stage[o] = from
  /\ stage' = [stage EXCEPT ![o] = to]

Draw(o, n) ==
  /\ Advance(o, "NONE", "DRAFT")
  /\ n > 0
  /\ due' = [due EXCEPT ![o] = n]
  /\ UNCHANGED paid

Open(o) ==
  /\ Advance(o, "DRAFT", "OPEN")
  /\ UNCHANGED <<due, paid>>

\* A bill is withdrawn only while nothing of it is paid.
Withdraw(o) ==
  /\ Advance(o, "OPEN", "VOIDED")
  /\ paid[o] = 0
  /\ UNCHANGED <<due, paid>>

\* Money moves only while the bill is open, never beyond what is due.
Settle(o, n) ==
  /\ stage[o] = "OPEN"
  /\ n \in 0..due[o]
  /\ paid' = [paid EXCEPT ![o] = n]
  /\ UNCHANGED <<stage, due>>

ReceivableNext ==
  \E o \in Orders :
    Draw(o, due'[o]) \/ Open(o) \/ Withdraw(o) \/ Settle(o, paid'[o])

ReceivableSpec == ReceivableInit /\ [][ReceivableNext]_receivableVars

=============================================================================
