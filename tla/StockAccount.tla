---------------------------- MODULE StockAccount ----------------------------
(***************************************************************************)
(* What the inventory application promises about one stocked item, with    *)
(* the ledger, the reservations and the workshop abstracted away: a        *)
(* physical balance and the part of it that is committed to workshop       *)
(* demand.  Inventory implements this specification (its property          *)
(* ImplementsStockAccount).                                                *)
(***************************************************************************)
EXTENDS Integers

CONSTANTS Items,      \* the stocked items
          Quantities  \* the amounts one operation may move

VARIABLES physical,   \* item -> stock on the shelf
          committed   \* item -> stock promised to workshop demand

accountVars == <<physical, committed>>

AccountInit ==
  /\ physical  = [i \in Items |-> 0]
  /\ committed = [i \in Items |-> 0]

Add(balance, i, n) == [balance EXCEPT ![i] = @ + n]

\* Goods arrive or a count finds more than the books say.
Deposit(i, n) ==
  /\ physical' = Add(physical, i, n)
  /\ UNCHANGED committed

\* A count finds less than the books say.  The only operation that may leave
\* more committed than there is on the shelf.
WriteOff(i, n) ==
  /\ n <= physical[i]
  /\ physical' = Add(physical, i, -n)
  /\ UNCHANGED committed

\* Stock is promised only out of what is not already promised.
Commit(i, n) ==
  /\ n <= physical[i] - committed[i]
  /\ committed' = Add(committed, i, n)
  /\ UNCHANGED physical

Uncommit(i, n) ==
  /\ n <= committed[i]
  /\ committed' = Add(committed, i, -n)
  /\ UNCHANGED physical

\* Stock leaves for the workshop only against a promise.
Withdraw(i, n) ==
  /\ n <= committed[i]
  /\ n <= physical[i]
  /\ physical'  = Add(physical, i, -n)
  /\ committed' = Add(committed, i, -n)

\* Returned stock is promised again to the demand it was issued for.
Restore(i, n) ==
  /\ physical'  = Add(physical, i, n)
  /\ committed' = Add(committed, i, n)

AccountNext ==
  \E i \in Items, n \in Quantities :
    \/ Deposit(i, n)
    \/ WriteOff(i, n)
    \/ Commit(i, n)
    \/ Uncommit(i, n)
    \/ Withdraw(i, n)
    \/ Restore(i, n)

AccountSpec == AccountInit /\ [][AccountNext]_accountVars

=============================================================================
